\* PartitionControl: three replicas, up to three Raft entries, two requests
\* in flight.  Checks LeaderInISR alone; TLC finds it violated.
CONSTANTS
    b1 = b1  b2 = b2  b3 = b3
    Replicas <- MCReplicas
    MaxEntries = 3
    MaxInFlight = 2
    MaxReports = 2
SYMMETRY MCSymmetry
SPECIFICATION Spec
INVARIANT LeaderInISR
