-------------------------- MODULE PartitionControl --------------------------
(***************************************************************************)
(* One partition's leader and in-sync replica set (ISR) as the metadata    *)
(* leader manages them (server/metadata.go).                               *)
(*                                                                         *)
(* Brokers send requests to the metadata leader: the partition leader's    *)
(* replicators ask to shrink or expand the ISR, followers report the       *)
(* leader as unresponsive.  A request carries the leader and leader epoch  *)
(* its sender knew.  The handlers (ShrinkISR, ExpandISR, ReportLeader) run *)
(* concurrently; each checks the request's leader and epoch against the    *)
(* partition as applied so far and proposes a Raft entry.  ReportLeader    *)
(* collects witnesses in a leaderReport; once more than half of the ISR    *)
(* (minus the leader) have reported, electNewPartitionLeader proposes a    *)
(* CHANGE_LEADER entry.  Raft commits the entries in one order and every   *)
(* node applies them through RemoveFromISR, AddToISR and ChangeLeader,     *)
(* whose epoch fence ignores an entry not newer than the partition's       *)
(* epoch.  The epoch an entry carries is its Raft log index.               *)
(*                                                                         *)
(* The Raft log and the FSM's dispatch of entries (fsm.go) are not in this *)
(* repository's src/ and are modelled from the design (section 5).         *)
(***************************************************************************)
EXTENDS Integers, Sequences, FiniteSets

CONSTANTS
    Replicas,     \* the partition's replicas (broker ids)
    MaxEntries,   \* Raft entries proposed for the partition in a behaviour
    MaxInFlight,  \* requests in flight to the metadata leader at once
    MaxReports    \* leaderReport objects alive for the partition at once

ASSUME Replicas # {} /\ MaxEntries \in Nat /\ MaxInFlight \in Nat
ASSUME MaxReports \in Nat

Reports == 1..MaxReports

VARIABLES
    isr,          \* partition ISR, as applied
    leader,       \* partition leader, as applied
    leaderEpoch,  \* partition leader epoch, as applied
    epoch,        \* partition epoch (the idempotency fence), as applied
    log,          \* Raft entries proposed for the partition, in commit order
    applied,      \* number of entries of log applied
    reqs,         \* requests in flight to the metadata leader
    reportOf,     \* the leaderReport m.leaderReports holds (0: none)
    wit,          \* report -> its witnessReplicas
    armed,        \* report -> its expiry timer is running
    adding,       \* ReportLeader handlers that took a report, before addWitness
    electing,     \* ReportLeader handlers that decided to elect a leader
    witnessEpoch, \* history: leader epoch each replica last reported
    witnessIn,    \* history: report each replica last reported to (0: none)
    lapsed        \* history: replicas whose last report a timer has expired

vars == <<isr, leader, leaderEpoch, epoch, log, applied, reqs, reportOf,
          wit, armed, adding, electing, witnessEpoch, witnessIn, lapsed>>

\* The leaderReport bookkeeping, left alone by the senders and the apply.
reportVars == <<reportOf, wit, armed, adding, electing, witnessEpoch,
                witnessIn, lapsed>>

\* The CREATE_STREAM entry that made the partition is Raft index 1, so the
\* k-th entry of log is index k + 1.
IndexOf(k) == k + 1

RequestTypes == {"shrink", "expand", "report"}

\* Go's integer division truncates toward zero.
GoQuot(a, b) == IF a >= 0 THEN a \div b ELSE -((-a) \div b)

\* addWitness: isrSize := ISRSize() - 1 (the leader excluded);
\* leaderFailed := len(witnessReplicas) > isrSize / 2.
LeaderFailed(w) == Cardinality(w) > GoQuot(Cardinality(isr) - 1, 2)

\* applyOperation: the entry is appended to the Raft log, or the proposal
\* fails (not leader any more, timeout) and the handler returns an error.
Propose(e) ==
    \/ /\ Len(log) < MaxEntries
       /\ log' = Append(log, e)
    \/ UNCHANGED log

-----------------------------------------------------------------------------
Init ==
    /\ isr = Replicas
    /\ leader \in Replicas
    /\ leaderEpoch = IndexOf(0)
    /\ epoch = IndexOf(0)
    /\ log = <<>>
    /\ applied = 0
    /\ reqs = {}
    /\ reportOf = 0
    /\ wit = [p \in Reports |-> {}]
    /\ armed = [p \in Reports |-> FALSE]
    /\ adding = {}
    /\ electing = {}
    /\ witnessEpoch = [r \in Replicas |-> 0]
    /\ witnessIn = [r \in Replicas |-> 0]
    /\ lapsed = {}

(***************************************************************************)
(* Senders.  The leader's replicator for follower f asks to shrink the ISR *)
(* when f lags and to expand it when f has caught up; a follower's fetcher *)
(* reports the leader when it stops answering (replicator.go and           *)
(* fetcher.go are not in src/: their triggers are free choices here).      *)
(***************************************************************************)
\* A broker sends a request; the model keeps at most MaxInFlight requests
\* in flight or in a ReportLeader handler.
Send(m) ==
    /\ Cardinality(reqs) + Cardinality(adding) < MaxInFlight
    /\ reqs' = reqs \cup {m}

SendShrinkISR(f) ==
    /\ f \in isr \ {leader}
    /\ Send([type |-> "shrink", replica |-> f,
             leader |-> leader, epoch |-> leaderEpoch])
    /\ UNCHANGED <<isr, leader, leaderEpoch, epoch, log, applied>>
    /\ UNCHANGED reportVars

SendExpandISR(f) ==
    /\ f \in Replicas \ isr
    /\ Send([type |-> "expand", replica |-> f,
             leader |-> leader, epoch |-> leaderEpoch])
    /\ UNCHANGED <<isr, leader, leaderEpoch, epoch, log, applied>>
    /\ UNCHANGED reportVars

SendReportLeader(r) ==
    /\ r \in Replicas \ {leader}
    /\ Send([type |-> "report", replica |-> r,
             leader |-> leader, epoch |-> leaderEpoch])
    /\ UNCHANGED <<isr, leader, leaderEpoch, epoch, log, applied>>
    /\ UNCHANGED reportVars

(***************************************************************************)
(* Handlers on the metadata leader.                                        *)
(***************************************************************************)
\* partition.GetLeader(); req.Leader != leader || req.LeaderEpoch != epoch
\* fails with "Leader generation mismatch".
CurrentGeneration(m) == m.leader = leader /\ m.epoch = leaderEpoch

\* The common tail of ShrinkISR and ExpandISR: a request whose generation
\* is current is proposed to Raft (SHRINK_ISR / EXPAND_ISR, whose Raft
\* precondition only checks that the partition exists); a stale one fails
\* with "Leader generation mismatch".
ProposeISRChange(m) ==
    /\ reqs' = reqs \ {m}
    /\ IF CurrentGeneration(m)
         THEN Propose([op |-> m.type, replica |-> m.replica])
         ELSE UNCHANGED log
    /\ UNCHANGED <<isr, leader, leaderEpoch, epoch, applied>>
    /\ UNCHANGED reportVars

HandleShrinkISR(m) ==
    /\ m \in reqs
    /\ m.type = "shrink"
    /\ ProposeISRChange(m)

HandleExpandISR(m) ==
    /\ m \in reqs
    /\ m.type = "expand"
    /\ ProposeISRChange(m)

\* A report object no one can reach any more: not in m.leaderReports, held
\* by no handler, its timer not running.  The model reuses its number for
\* the next report &leaderReport{...} allocates.
FreeReports == {p \in Reports : p # reportOf /\ ~armed[p] /\
                                 \A a \in adding : a.rep # p}
NewReport == CHOOSE p \in FreeReports : \A q \in FreeReports : p <= q

\* ReportLeader up to m.mu.Unlock(): check the generation, then take the
\* partition's leaderReport from m.leaderReports, creating and storing a
\* new one if there is none.  The handler holds the report after the lock.
TakeReport(m) ==
    /\ m \in reqs
    /\ m.type = "report"
    /\ reqs' = reqs \ {m}
    /\ IF ~CurrentGeneration(m)
         THEN UNCHANGED <<reportOf, wit, adding, witnessIn>>
       ELSE IF reportOf # 0
         THEN /\ adding' = adding \cup {[req |-> m, rep |-> reportOf]}
              /\ UNCHANGED <<reportOf, wit, witnessIn>>
       ELSE /\ FreeReports # {}
            /\ LET p == NewReport IN
                 /\ reportOf' = p
                 /\ wit' = [wit EXCEPT ![p] = {}]
                 /\ witnessIn' = [x \in Replicas |->
                                    IF witnessIn[x] = p THEN 0 ELSE witnessIn[x]]
                 /\ adding' = adding \cup {[req |-> m, rep |-> p]}
    /\ UNCHANGED <<isr, leader, leaderEpoch, epoch, log, applied, armed,
                   electing, witnessEpoch, lapsed>>

\* addWitness under the report's mutex: add the witness; if the witnesses
\* are a quorum of the ISR as it is now, stop the timer and go on to elect
\* a leader (the report is left where it is); otherwise reset or start the
\* report's expiry timer.  The history field quorum records whether the
\* witnesses include a quorum of ISR followers that reported the current
\* leader and epoch and whose report no timer has expired.
AddWitness(a) ==
    /\ a \in adding
    /\ adding' = adding \ {a}
    /\ LET p  == a.rep
           x  == a.req.replica
           w  == wit[p] \cup {x}
           we == [witnessEpoch EXCEPT ![x] = a.req.epoch]
           lp == lapsed \ {x}
           fresh == {y \in w \cap (isr \ {leader}) :
                        we[y] = leaderEpoch /\ y \notin lp}
       IN  /\ wit' = [wit EXCEPT ![p] = w]
           /\ witnessEpoch' = we
           /\ witnessIn' = [witnessIn EXCEPT ![x] = p]
           /\ lapsed' = lp
           /\ IF LeaderFailed(w)
                THEN /\ armed' = [armed EXCEPT ![p] = FALSE]
                     /\ electing' = electing \cup
                          {[by |-> x, against |-> leader,
                            quorum |-> Cardinality(fresh) >
                                GoQuot(Cardinality(isr) - 1, 2)]}
                ELSE /\ armed' = [armed EXCEPT ![p] = TRUE]
                     /\ UNCHANGED electing
    /\ UNCHANGED <<isr, leader, leaderEpoch, epoch, log, applied, reqs,
                   reportOf>>

\* electNewPartitionLeader: candidates are the ISR without the current
\* leader; none (ISR of one) fails with "No ISR candidates"; otherwise
\* selectPartitionLeader picks the least loaded one (any candidate here)
\* and CHANGE_LEADER is proposed.  The history field quorum records whether
\* the decision rested on a quorum of fresh witnesses against the leader
\* that is deposed now.
ElectLeader(h) ==
    /\ h \in electing
    /\ electing' = electing \ {h}
    /\ LET candidates == isr \ {leader}
       IN  IF Cardinality(isr) <= 1 \/ candidates = {}
             THEN UNCHANGED log
             ELSE \E c \in candidates :
                    Propose([op |-> "change", replica |-> c,
                             quorum |-> h.quorum /\ h.against = leader])
    /\ UNCHANGED <<isr, leader, leaderEpoch, epoch, applied, reqs, reportOf,
                   wit, armed, adding, witnessEpoch, witnessIn, lapsed>>

\* Report p's timer fires ReplicaMaxLeaderTimeout after its last addWitness
\* and deletes m.leaderReports[partition], whichever report that now is.
\* The report object keeps its witnesses for any handler still holding it.
ReportExpires(p) ==
    /\ armed[p]
    /\ armed' = [armed EXCEPT ![p] = FALSE]
    /\ reportOf' = 0
    /\ lapsed' = lapsed \cup {x \in Replicas : witnessIn[x] = p}
    /\ UNCHANGED <<isr, leader, leaderEpoch, epoch, log, applied, reqs,
                   wit, adding, electing, witnessEpoch, witnessIn>>

\* LostLeadership: this server is no longer metadata leader; the timer of
\* every report in m.leaderReports is stopped and the map is emptied.
\* Handlers already past their checks go on; their proposals fail (Propose
\* may leave log alone).
LostLeadership ==
    /\ reportOf # 0
    /\ armed' = [armed EXCEPT ![reportOf] = FALSE]
    /\ reportOf' = 0
    /\ UNCHANGED <<isr, leader, leaderEpoch, epoch, log, applied, reqs,
                   wit, adding, electing, witnessEpoch, witnessIn, lapsed>>

(***************************************************************************)
(* Raft apply (fsm.go, modelled from the design): every node applies the   *)
(* committed entries in log order, each with its Raft index as epoch.      *)
(***************************************************************************)
\* RemoveFromISR with the idempotency check left out.
RemoveFromISRUnfenced(replica, e) ==
    /\ isr' = isr \ {replica}
    /\ epoch' = e

\* RemoveFromISR: the idempotency check partition.GetEpoch() >= epoch, then
\* partition.RemoveFromISR(replica) and partition.SetEpoch(epoch).
RemoveFromISR(replica, e) ==
    IF epoch >= e
      THEN UNCHANGED <<isr, epoch>>
      ELSE /\ isr' = isr \ {replica}
           /\ epoch' = e

\* AddToISR: the same, with partition.AddToISR(replica).
AddToISR(replica, e) ==
    IF epoch >= e
      THEN UNCHANGED <<isr, epoch>>
      ELSE /\ isr' = isr \cup {replica}
           /\ epoch' = e

\* ChangeLeader: the same, with partition.SetLeader(leader, epoch), which
\* makes epoch the leader epoch.  (Its broker load update is modelled in
\* BrokerLoad.)
ChangeLeader(l, e) ==
    IF epoch >= e
      THEN UNCHANGED <<leader, leaderEpoch, epoch>>
      ELSE /\ leader' = l
           /\ leaderEpoch' = e
           /\ epoch' = e

\* The FSM's dispatch of one entry with Raft index idx.
ApplyOp(e, idx) ==
    CASE e.op = "shrink" -> RemoveFromISR(e.replica, idx)
                            /\ UNCHANGED <<leader, leaderEpoch>>
      [] e.op = "expand" -> AddToISR(e.replica, idx)
                            /\ UNCHANGED <<leader, leaderEpoch>>
      [] e.op = "change" -> ChangeLeader(e.replica, idx) /\ UNCHANGED isr

\* Raft commits the next entry and the FSM applies it.
ApplyEntry ==
    /\ applied < Len(log)
    /\ ApplyOp(log[applied + 1], IndexOf(applied + 1))
    /\ applied' = applied + 1
    /\ UNCHANGED <<log, reqs>>
    /\ UNCHANGED reportVars

\* Raft hands the FSM an entry it has already applied (log replay after a
\* restart on top of state that already reflects the entry).
ReapplyEntry ==
    \E k \in 1..applied :
        /\ ApplyOp(log[k], IndexOf(k))
        /\ UNCHANGED <<log, applied, reqs>>
        /\ UNCHANGED reportVars

-----------------------------------------------------------------------------
Next ==
    \/ \E f \in Replicas : SendShrinkISR(f) \/ SendExpandISR(f)
    \/ \E r \in Replicas : SendReportLeader(r)
    \/ \E m \in reqs :
           \/ HandleShrinkISR(m) \/ HandleExpandISR(m)
           \/ TakeReport(m)
    \/ \E a \in adding : AddWitness(a)
    \/ \E h \in electing : ElectLeader(h)
    \/ \E p \in Reports : ReportExpires(p)
    \/ LostLeadership
    \/ ApplyEntry
    \/ ReapplyEntry

Spec == Init /\ [][Next]_vars

-----------------------------------------------------------------------------
Entry == [op : {"shrink", "expand"}, replica : Replicas]
    \cup [op : {"change"}, replica : Replicas, quorum : BOOLEAN]

TypeOK ==
    /\ isr \subseteq Replicas
    /\ leader \in Replicas
    /\ {leaderEpoch, epoch} \subseteq 1..IndexOf(MaxEntries)
    /\ log \in Seq(Entry) /\ Len(log) <= MaxEntries
    /\ applied \in 0..Len(log)
    /\ reqs \subseteq [type : RequestTypes, replica : Replicas,
                       leader : Replicas, epoch : 1..IndexOf(MaxEntries)]
    /\ reportOf \in 0..MaxReports
    /\ wit \in [Reports -> SUBSET Replicas]
    /\ armed \in [Reports -> BOOLEAN]
    /\ \A a \in adding : a.req.type = "report" /\ a.rep \in Reports
    /\ witnessIn \in [Replicas -> 0..MaxReports]
    /\ lapsed \subseteq Replicas
    /\ electing \subseteq [by : Replicas, against : Replicas, quorum : BOOLEAN]
    /\ witnessEpoch \in [Replicas -> 0..IndexOf(MaxEntries)]

\* The partition's leader is a member of its ISR (design section 8:
\* leader in ISR, ISR within replicas), whatever order the concurrent
\* ShrinkISR and leader-election proposals reach the Raft log in.
LeaderInISR == leader \in isr

\* Every CHANGE_LEADER that a leader report caused was decided by more than
\* half of the ISR without the leader reporting that very leader and
\* leader epoch (design section 5: witnesses must be distinct replicas of
\* ISR \ {leader}, and the set is dropped on expiry), and deposes the
\* leader they reported, not a successor elected meanwhile.  This is about
\* addWitness counting witnesses kept in leaderReports across elections,
\* about two ReportLeader handlers that both see a quorum, and about a
\* handler that took a report just before its expiry callback deleted it
\* and then counts the expired witnesses of that orphaned report.
ElectionBackedByQuorum ==
    \A k \in 1..Len(log) : log[k].op = "change" => log[k].quorum

\* Reference definition: the ISR after applying the first k entries of log
\* once each, in order, from the ISR the stream was created with.
RECURSIVE IsrAfter(_)
IsrAfter(k) ==
    IF k = 0 THEN Replicas
    ELSE CASE log[k].op = "shrink" -> IsrAfter(k - 1) \ {log[k].replica}
           [] log[k].op = "expand" -> IsrAfter(k - 1) \cup {log[k].replica}
           [] OTHER                -> IsrAfter(k - 1)

\* Position of the last CHANGE_LEADER among the first k entries (0: none).
LastChange(k) ==
    LET ks == {j \in 1..k : log[j].op = "change"}
    IN  IF ks = {} THEN 0 ELSE CHOOSE j \in ks : \A i \in ks : i <= j

\* The partition state on a node is the state obtained by applying each
\* committed entry exactly once, in log order: the ISR is the fold of the
\* SHRINK_ISR/EXPAND_ISR entries, the leader and leader epoch are those of
\* the last CHANGE_LEADER, the epoch is the last entry's index.  This is
\* about the idempotency check in RemoveFromISR/AddToISR/ChangeLeader
\* (GetEpoch() >= epoch) making a replayed entry a no-op.
AppliedStateMatchesLog ==
    /\ isr = IsrAfter(applied)
    /\ epoch = IndexOf(applied)
    /\ leaderEpoch = IndexOf(LastChange(applied))
    /\ LastChange(applied) > 0 => leader = log[LastChange(applied)].replica

=============================================================================
