---------------------------- MODULE MCCommitLog ----------------------------
(***************************************************************************)
(* Model-checking instance of CommitLog: five segment objects, offsets     *)
(* 0..3, segments holding two records, batches of one or two records.      *)
(***************************************************************************)
EXTENDS CommitLog, TLC

CONSTANTS s1, s2, s3, s4, s5

MCSegIds == {s1, s2, s3, s4, s5}

\* Segment objects are interchangeable identities.
MCSymmetry == Permutations(MCSegIds)
=============================================================================
