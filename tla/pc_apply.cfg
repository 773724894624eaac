\* PartitionControl: three replicas, up to two Raft entries for the
\* partition and two requests in flight; every handler, the report timer,
\* elections, in-order apply and replay of applied entries.
CONSTANTS
    b1 = b1  b2 = b2  b3 = b3
    Replicas <- MCReplicas
    MaxEntries = 2
    MaxInFlight = 2
    MaxReports = 1
SYMMETRY MCSymmetry
VIEW MCView
SPECIFICATION Spec
INVARIANT AppliedStateMatchesLog
