---------------------------- MODULE MCLeaderEpochs ----------------------------
EXTENDS LeaderEpochs, TLC

CONSTANTS r1, r2, r3

MCReplicas == {r1, r2, r3}

\* Replicas are interchangeable: no property names one.
MCSymmetry == Permutations(MCReplicas)
=============================================================================
