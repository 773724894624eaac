----------------------------- MODULE MCBrokerLoad -----------------------------
(***************************************************************************)
(* Model-checking instance of BrokerLoad.                                  *)
(***************************************************************************)
EXTENDS BrokerLoad, TLC

CONSTANTS b1, b2, b3, s1, s2

MCBrokers == {b1, b2, b3}
MCStreams == {s1, s2}

\* Brokers are interchangeable identities, and so are stream names.
MCSymmetry == Permutations(MCBrokers) \cup Permutations(MCStreams)
=============================================================================
