\* LeaderEpochs: three replicas, three leader changes, three writes, logs
\* of at most three records, crashes at any point.  Checks LogMatching
\* alone; TLC finds it violated.
CONSTANTS
    r1 = r1  r2 = r2  r3 = r3
    Replicas <- MCReplicas
    MaxEpoch = 3
    MaxWrites = 3
    MaxLen = 3
SYMMETRY MCSymmetry
SPECIFICATION Spec
INVARIANT LogMatching
