\* Truncate on a follower while cleanerLoop cleans: Clean writes back the
\* segment list it read before Truncate ran.
CONSTANTS
    s1 = s1  s2 = s2  s3 = s3  s4 = s4  s5 = s5
    SegIds <- MCSegIds
    NoSeg = NoSeg
    MaxOffset = 6
    SegmentCapacity = 2
    BatchSizes = {1, 2}
    AgeRoll = FALSE
    CleanerEnabled = TRUE
    Truncation = TRUE
SYMMETRY MCSymmetry
SPECIFICATION Spec
INVARIANT NoDeletedSegmentInLog
