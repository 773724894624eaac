---------------------------- MODULE MCHighWatermark ----------------------------
(***************************************************************************)
(* Model-checking instance of HighWatermark: two readers.                  *)
(***************************************************************************)
EXTENDS HighWatermark, TLC

CONSTANTS r1, r2

MCReaders == {r1, r2}

\* Readers are interchangeable identities.
MCSymmetry == Permutations(MCReaders)
=============================================================================
