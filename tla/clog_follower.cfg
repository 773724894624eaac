\* Follower log: AppendMessageSet and Truncate from the one replication
\* goroutine, size-based rolling, no cleaner.  Offsets 0..5 give three full
\* segments, so Truncate hits first, middle and last segments, at and off
\* their base offsets.
CONSTANTS
    s1 = s1  s2 = s2  s3 = s3  s4 = s4  s5 = s5
    SegIds <- MCSegIds
    NoSeg = NoSeg
    MaxOffset = 6
    SegmentCapacity = 2
    BatchSizes = {1, 2}
    AgeRoll = FALSE
    CleanerEnabled = FALSE
    Truncation = TRUE
SYMMETRY MCSymmetry
SPECIFICATION Spec
INVARIANT SegmentsContiguous
INVARIANT ActiveIsLastSegment
PROPERTY OffsetLogRefined
