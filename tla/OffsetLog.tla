------------------------------ MODULE OffsetLog ------------------------------
(***************************************************************************)
(* What a commit log promises its users (design section 4): the records    *)
(* it holds, as offsets, and the next offset to assign.  An append adds a  *)
(* batch of consecutive offsets at the next offset; a truncation to offset *)
(* o removes exactly the records at o and beyond and moves the next offset *)
(* back to just after the last record kept; retention removes the oldest   *)
(* records.  Rolling, sealing and the segment files are invisible here.    *)
(***************************************************************************)
EXTENDS Naturals, Sequences

VARIABLES log, leo

vars == <<log, leo>>

\* k consecutive offsets starting at from.
Batch(from, k) == [j \in 1..k |-> from + j - 1]

Init == log = <<>> /\ leo = 0

AppendBatch ==
    /\ leo' > leo
    /\ log' = log \o Batch(leo, leo' - leo)

TruncateTail ==
    \E o \in 0..leo - 1 :
        /\ log' = SelectSeq(log, LAMBDA x : x < o)
        /\ leo' \in o..leo
        /\ log' # <<>> => leo' = log'[Len(log')] + 1

Retain ==
    /\ \E k \in 1..Len(log) : log' = SubSeq(log, k + 1, Len(log))
    /\ UNCHANGED leo

Next == AppendBatch \/ TruncateTail \/ Retain

Spec == Init /\ [][Next]_vars

=============================================================================
