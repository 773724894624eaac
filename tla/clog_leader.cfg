\* Leader log: Append racing cleanerLoop, which rolls segments by size and
\* by age and runs the delete cleaner; the two race to split, so a CAS on
\* the active segment can fail.  No Truncate (a leader does not
\* truncate).  Offsets 0..4 over five segment objects.
CONSTANTS
    s1 = s1  s2 = s2  s3 = s3  s4 = s4  s5 = s5
    SegIds <- MCSegIds
    NoSeg = NoSeg
    MaxOffset = 5
    SegmentCapacity = 2
    BatchSizes = {1, 2}
    AgeRoll = TRUE
    CleanerEnabled = TRUE
    Truncation = FALSE
SYMMETRY MCSymmetry
SPECIFICATION Spec
\* Behaviours end when the writer has used the offsets below MaxOffset or
\* a split finds every segment object in use: limits of the model.
CHECK_DEADLOCK FALSE
INVARIANT TypeOK
INVARIANT NoDeletedSegmentInLog
INVARIANT LiveSegmentsListed
INVARIANT SegmentsDistinct
