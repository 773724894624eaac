\* HighWatermark with crashes: the process may stop without closing the
\* log, losing the unflushed tail.  Two readers, offsets 0..2.  Checks
\* HWWithinLog alone; TLC finds it violated.
CONSTANTS
    r1 = r1  r2 = r2
    Readers <- MCReaders
    MaxOffset = 3
    Crashes = TRUE
SYMMETRY MCSymmetry
SPECIFICATION Spec
INVARIANT HWWithinLog
