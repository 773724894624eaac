\* BrokerLoad: two streams of two partitions over three brokers, four Raft
\* entries (create, pause, resume, readonly, delete, leader change), restarts
\* and replay with tombstones at any point.
CONSTANTS
    b1 = b1  b2 = b2  b3 = b3  s1 = s1  s2 = s2
    Brokers <- MCBrokers
    Streams <- MCStreams
    PartIds = {0, 1}
    MaxOps = 4
SYMMETRY MCSymmetry
SPECIFICATION Spec
INVARIANT TypeOK
INVARIANT StreamsMatchLog
INVARIANT LoadMatchesUnlessPausedTouched
