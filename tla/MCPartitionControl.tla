------------------------- MODULE MCPartitionControl -------------------------
(***************************************************************************)
(* Model-checking instance of PartitionControl: three replicas.            *)
(***************************************************************************)
EXTENDS PartitionControl, TLC

CONSTANTS b1, b2, b3

MCReplicas == {b1, b2, b3}

\* Brokers are interchangeable identities.
MCSymmetry == Permutations(MCReplicas)

\* The view pc_apply explores.  States that differ only in what a free
\* report object still holds are the same state: TakeReport clears a report
\* before it reuses it, and a free report's timer is stopped, so nothing
\* reads its witnesses again.  The history variables (witnessEpoch,
\* witnessIn, lapsed and the quorum flag of elections and CHANGE_LEADER
\* entries) are left out: no guard reads them, only ElectionBackedByQuorum.
MCView == <<isr, leader, leaderEpoch, epoch,
            [k \in 1..Len(log) |-> [op |-> log[k].op, replica |-> log[k].replica]],
            applied, reqs, reportOf,
            [p \in Reports |-> IF p \in FreeReports THEN {} ELSE wit[p]],
            armed, adding,
            {[by |-> h.by, against |-> h.against] : h \in electing}>>
=============================================================================
