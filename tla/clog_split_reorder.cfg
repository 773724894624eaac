\* Two splits in flight at once (the cleaner's and the writer's): each does its
\* CAS and then, separately, appends to l.segments.
CONSTANTS
    s1 = s1  s2 = s2  s3 = s3  s4 = s4  s5 = s5
    SegIds <- MCSegIds
    NoSeg = NoSeg
    MaxOffset = 6
    SegmentCapacity = 2
    BatchSizes = {1, 2}
    AgeRoll = FALSE
    CleanerEnabled = TRUE
    Truncation = FALSE
SYMMETRY MCSymmetry
SPECIFICATION Spec
INVARIANT SegmentsContiguous
