\* BrokerLoad with pausing, leader changes and deletion: two streams of two
\* partitions over three brokers, five Raft entries.  Checks
\* LoadMatchesPartitions alone; TLC finds it violated.
CONSTANTS
    b1 = b1  b2 = b2  b3 = b3  s1 = s1  s2 = s2
    Brokers <- MCBrokers
    Streams <- MCStreams
    PartIds = {0, 1}
    MaxOps = 5
SYMMETRY MCSymmetry
SPECIFICATION Spec
INVARIANT LoadMatchesPartitions
