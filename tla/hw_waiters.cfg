\* HighWatermark: two readers, offsets 0..2, every writer step (append,
\* replication, HW advance, readonly on and off, follower truncation with
\* HW override, checkpoints, Close and reopen), under weak fairness of the goroutines that
\* the code lets run on.  No symmetry: the run checks liveness.
CONSTANTS
    r1 = r1  r2 = r2
    Readers <- MCReaders
    MaxOffset = 3
    Crashes = FALSE
SPECIFICATION FairSpec
INVARIANT NoLostWakeup
INVARIANT SingleShotChannels
INVARIANT HWWithinLog
PROPERTY WokenOnHWChange
PROPERTY ReleasedAtReadonlyEnd
