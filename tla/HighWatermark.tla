---------------------------- MODULE HighWatermark ----------------------------
(***************************************************************************)
(* The high watermark (HW) of one commit log and its waiters               *)
(* (server/commitlog/commitlog.go).                                        *)
(*                                                                         *)
(* Committed readers read up to the HW; a reader that has caught up calls  *)
(* waitForHW(r, hw) with the HW it last read and blocks on the returned    *)
(* channel.  Under l.mu, waitForHW fires at once (false) if the HW has     *)
(* moved, fires true if the log is readonly and the HW is at the log end,  *)
(* and otherwise parks the channel in l.hwWaiters.  SetHighWatermark and   *)
(* OverrideHighWatermark wake every waiter with false (notifyHWChange);    *)
(* SetReadonly(true) stores the atomic flag and then, under l.mu, wakes    *)
(* every waiter with true if the HW is at the log end (notifyReadonly).    *)
(* checkpointHWLoop writes the HW to a file that open() reads back after a *)
(* restart.                                                                *)
(*                                                                         *)
(* The reader loop (reader.go) and the follower's truncation (fetcher) are *)
(* not in this repository's src/ and are modelled from the design          *)
(* (sections 4.3 and 5).                                                   *)
(***************************************************************************)
EXTENDS Integers

CONSTANTS
    Readers,     \* committed readers of the log
    MaxOffset,   \* offsets 0..MaxOffset-1 may be written
    Crashes      \* whether the process may stop without closing the log

ASSUME MaxOffset \in Nat /\ Crashes \in BOOLEAN

VARIABLES
    hw,          \* l.hw (-1: nothing committed)
    leo,         \* the log end offset: NewestOffset() + 1
    readonly,    \* l.readonly (atomic)
    waiters,     \* readers with a channel in l.hwWaiters
    chan,        \* each reader's channel: empty, or the value sent on it
    rpc,         \* where each reader is
    seen,        \* the HW each reader last read
    roPending,   \* SetReadonly(true) stored the flag, notifyReadonly not yet
    truncPending,\* a follower truncated, its HW override not yet done
    ckpt         \* the HW in the checkpoint file (-1: no file)

vars == <<hw, leo, readonly, waiters, chan, rpc, seen, roPending,
          truncPending, ckpt>>

Newest == leo - 1

Offsets == -1..MaxOffset - 1

-----------------------------------------------------------------------------
Init ==
    /\ hw = -1
    /\ leo = 0
    /\ readonly = FALSE
    /\ waiters = {}
    /\ chan = [r \in Readers |-> "empty"]
    /\ rpc = [r \in Readers |-> "idle"]
    /\ seen = [r \in Readers |-> -1]
    /\ roPending = FALSE
    /\ truncPending = FALSE
    /\ ckpt = -1

\* notifyHWChange without delete(l.hwWaiters, r).
NotifyHWChangeNoDelete ==
    /\ chan' = [r \in Readers |-> IF r \in waiters THEN "false" ELSE chan[r]]
    /\ UNCHANGED waiters

\* notifyHWChange: every waiter is sent false and removed.
NotifyHWChange ==
    /\ chan' = [r \in Readers |-> IF r \in waiters THEN "false" ELSE chan[r]]
    /\ waiters' = {}

-----------------------------------------------------------------------------
(***************************************************************************)
(* Writers.                                                                *)
(***************************************************************************)
\* Append: a readonly log refuses it (ErrCommitLogReadonly); otherwise
\* the batch lands at the log end.
Append ==
    /\ ~readonly
    /\ leo < MaxOffset
    /\ leo' = leo + 1
    /\ UNCHANGED <<hw, readonly, waiters, chan, rpc, seen, roPending,
                   truncPending, ckpt>>

\* AppendMessageSet (replication) writes even to a readonly log.
AppendMessageSet ==
    /\ leo < MaxOffset
    /\ leo' = leo + 1
    /\ UNCHANGED <<hw, readonly, waiters, chan, rpc, seen, roPending,
                   truncPending, ckpt>>

\* SetHighWatermark(h), h at most the newest offset (the leader's HW is
\* the least LEO of the ISR, a follower's is clamped to its own LEO): under
\* l.mu, a larger h replaces the HW and wakes the waiters.
SetHighWatermark(h) ==
    /\ IF h > hw
         THEN /\ hw' = h
              /\ NotifyHWChange
         ELSE UNCHANGED <<hw, waiters, chan>>
    /\ UNCHANGED <<leo, readonly, rpc, seen, roPending, truncPending, ckpt>>

\* SetReadonly(true) without the notifyReadonly call.
SetReadonlyNoNotify(b) ==
    /\ ~roPending
    /\ readonly' = b
    /\ UNCHANGED <<hw, leo, waiters, chan, rpc, seen, roPending,
                   truncPending, ckpt>>

\* SetReadonly(false) stores the flag; SetReadonly(true) stores it, and
\* then (a separate step) takes l.mu and calls notifyReadonly.
SetReadonly(b) ==
    /\ ~roPending
    /\ readonly' = b
    /\ roPending' = b
    /\ UNCHANGED <<hw, leo, waiters, chan, rpc, seen, truncPending, ckpt>>

\* notifyReadonly: nothing while the HW is below the newest offset;
\* otherwise every waiter is sent true and removed.
NotifyReadonly ==
    /\ roPending
    /\ roPending' = FALSE
    /\ IF hw < Newest
         THEN UNCHANGED <<waiters, chan>>
         ELSE /\ chan' = [r \in Readers |->
                            IF r \in waiters THEN "true" ELSE chan[r]]
              /\ waiters' = {}
    /\ UNCHANGED <<hw, leo, readonly, rpc, seen, truncPending, ckpt>>

\* A follower truncates its log to offset o (Truncate leaves l.hw alone)
\* and then sets HW = min(HW, LEO) with OverrideHighWatermark.
Truncate(o) ==
    /\ ~truncPending
    /\ o < leo
    /\ leo' = o
    /\ truncPending' = TRUE
    /\ UNCHANGED <<hw, readonly, waiters, chan, rpc, seen, roPending, ckpt>>

\* OverrideHighWatermark: set the HW even below the current one, and wake
\* the waiters.
OverrideHighWatermark ==
    /\ truncPending
    /\ truncPending' = FALSE
    /\ hw' = IF hw < Newest THEN hw ELSE Newest
    /\ NotifyHWChange
    /\ UNCHANGED <<leo, readonly, rpc, seen, roPending, ckpt>>

\* checkpointHWLoop: on a tick, under RLock, write l.hw to the file.
CheckpointHW ==
    /\ ckpt' = hw
    /\ UNCHANGED <<hw, leo, readonly, waiters, chan, rpc, seen, roPending,
                   truncPending>>

\* What the HW file holds when the log is reopened: close() checkpoints
\* the HW before it closes the segments; after a crash the file holds what
\* the last checkpointHWLoop tick wrote.
HWFileNoCheckpoint(crash) == ckpt
HWFile(crash) == IF crash THEN ckpt ELSE hw

\* The log is reopened (New, open) after a Close, or after a crash, in
\* which the tail not yet flushed to the segment files may be lost (the
\* data is flushed asynchronously; only the HW file is written with an
\* fsync and a rename).  The partition closes its log only once its
\* fetcher has finished a truncation and its HW override.  New starts with
\* no waiters and not readonly; open() rebuilds the segments from the files
\* and sets l.hw to the number in the HW file, whatever the log end is.
Restart(crash) ==
    /\ crash \/ ~truncPending
    /\ hw' = HWFile(crash)
    /\ ckpt' = HWFile(crash)
    /\ \E end \in IF crash THEN 0..leo ELSE {leo} : leo' = end
    /\ readonly' = FALSE
    /\ waiters' = {}
    /\ chan' = [r \in Readers |-> "empty"]
    /\ rpc' = [r \in Readers |-> "idle"]
    /\ seen' = [r \in Readers |-> -1]
    /\ roPending' = FALSE
    /\ truncPending' = FALSE

-----------------------------------------------------------------------------
(***************************************************************************)
(* Readers (reader.go, modelled from the design).                          *)
(***************************************************************************)
\* The reader reads HighWatermark() and, having read up to it, will wait.
ReadHW(r) ==
    /\ rpc[r] = "idle"
    /\ seen' = [seen EXCEPT ![r] = hw]
    /\ rpc' = [rpc EXCEPT ![r] = "call"]
    /\ UNCHANGED <<hw, leo, readonly, waiters, chan, roPending, truncPending,
                   ckpt>>

\* waitForHW with the last check left out: the channel is always parked.
WaitForHWNoRecheck(r) ==
    /\ rpc[r] = "call"
    /\ rpc' = [rpc EXCEPT ![r] = "blocked"]
    /\ waiters' = waiters \cup {r}
    /\ chan' = [chan EXCEPT ![r] = "empty"]
    /\ UNCHANGED <<hw, leo, readonly, seen, roPending, truncPending, ckpt>>

\* waitForHW(r, seen[r]) under l.mu: a new channel, fired at once with
\* false if the HW moved, with true if the log is readonly and the HW is at
\* the newest offset, and parked in l.hwWaiters otherwise.
WaitForHW(r) ==
    /\ rpc[r] = "call"
    /\ rpc' = [rpc EXCEPT ![r] = "blocked"]
    /\ CASE hw # seen[r] ->
              chan' = [chan EXCEPT ![r] = "false"] /\ UNCHANGED waiters
         [] hw = Newest /\ readonly ->
              chan' = [chan EXCEPT ![r] = "true"] /\ UNCHANGED waiters
         [] OTHER ->
              /\ chan' = [chan EXCEPT ![r] = "empty"]
              /\ waiters' = waiters \cup {r}
    /\ UNCHANGED <<hw, leo, readonly, seen, roPending, truncPending, ckpt>>

\* The reader receives from its channel: false, read on from the new HW;
\* true, the log is readonly and fully read (ErrCommitLogReadonly).
Wake(r) ==
    /\ rpc[r] = "blocked"
    /\ chan[r] # "empty"
    /\ rpc' = [rpc EXCEPT ![r] = IF chan[r] = "true" THEN "done" ELSE "idle"]
    /\ chan' = [chan EXCEPT ![r] = "empty"]
    /\ UNCHANGED <<hw, leo, readonly, waiters, seen, roPending, truncPending,
                   ckpt>>

\* The reader's context is done while it blocks: removeHWWaiter under l.mu.
Cancel(r) ==
    /\ rpc[r] = "blocked"
    /\ rpc' = [rpc EXCEPT ![r] = "done"]
    /\ waiters' = waiters \ {r}
    /\ chan' = [chan EXCEPT ![r] = "empty"]
    /\ UNCHANGED <<hw, leo, readonly, seen, roPending, truncPending, ckpt>>

\* A new read starts from a reader that returned.
Resubscribe(r) ==
    /\ rpc[r] = "done"
    /\ rpc' = [rpc EXCEPT ![r] = "idle"]
    /\ UNCHANGED <<hw, leo, readonly, waiters, chan, seen, roPending,
                   truncPending, ckpt>>

-----------------------------------------------------------------------------
Next ==
    \/ Append
    \/ AppendMessageSet
    \/ \E h \in 0..Newest : SetHighWatermark(h)
    \/ \E b \in BOOLEAN : SetReadonly(b)
    \/ NotifyReadonly
    \/ \E o \in 0..MaxOffset - 1 : Truncate(o)
    \/ OverrideHighWatermark
    \/ CheckpointHW
    \/ \E crash \in IF Crashes THEN BOOLEAN ELSE {FALSE} : Restart(crash)
    \/ \E r \in Readers :
          ReadHW(r) \/ WaitForHW(r) \/ Wake(r) \/ Cancel(r) \/ Resubscribe(r)

Spec == Init /\ [][Next]_vars

\* The goroutines that the code lets run on are weakly fair: SetReadonly's
\* caller, after its atomic store, goes on to take l.mu and notify; the
\* fetcher that truncated goes on to override the HW; a reader inside
\* waitForHW returns, and a reader blocked on a channel holding a value
\* receives it.  Writers, new reads and cancellations are not forced.
Fairness ==
    /\ WF_vars(NotifyReadonly)
    /\ WF_vars(OverrideHighWatermark)
    /\ \A r \in Readers : WF_vars(WaitForHW(r)) /\ WF_vars(Wake(r))

FairSpec == Spec /\ Fairness

-----------------------------------------------------------------------------
\* No wakeup is lost (design section 7: "registration and HW publication
\* are serialized under the log mutex so no wakeup is lost"): outside the
\* window between SetReadonly's atomic store and its notifyReadonly, and
\* between a truncation and its HW override, every reader parked in
\* l.hwWaiters waits for an HW equal to the current one, on a log that is
\* not readonly-and-caught-up.  This is about waitForHW's checks racing
\* SetHighWatermark and SetReadonly.
NoLostWakeup ==
    ~roPending /\ ~truncPending =>
        \A r \in waiters : /\ seen[r] = hw
                           /\ ~(readonly /\ hw = Newest)

\* A parked reader holds an empty channel and blocks on it; a channel is
\* sent at most one value (it has capacity 1, so a second send would
\* block the sender while it holds l.mu).
SingleShotChannels ==
    \A r \in Readers :
        /\ r \in waiters => rpc[r] = "blocked" /\ chan[r] = "empty"
        /\ chan[r] # "empty" => rpc[r] = "blocked" /\ r \notin waiters

\* Outside a follower's truncation window the HW is at most the newest
\* offset (design section 3: hw <= activeSegment.nextOffset - 1), across
\* restarts too.  This is about open() restoring l.hw from the HW file
\* without looking at the log end, and about close() checkpointing the HW
\* on the way down while OverrideHighWatermark and SetHighWatermark do not.
HWWithinLog == ~truncPending => hw <= Newest

\* A reader blocked in a committed read whose HW has moved since it read it
\* is eventually released, even if no writer ever runs again.  This is about
\* waitForHW's recheck of l.hw under l.mu racing SetHighWatermark, and
\* notifyHWChange waking every parked channel.
WokenOnHWChange ==
    \A r \in Readers :
        (rpc[r] = "blocked" /\ hw # seen[r]) ~> rpc[r] # "blocked"

\* A reader blocked on a readonly log whose HW is at the newest offset is
\* eventually released (and then gets ErrCommitLogReadonly), unless the log
\* stops being readonly-and-caught-up first.  This is about SetReadonly
\* storing the flag before it takes l.mu to call notifyReadonly, and about
\* waitForHW's readonly check.
ReleasedAtReadonlyEnd ==
    \A r \in Readers :
        (rpc[r] = "blocked" /\ readonly /\ hw = Newest)
            ~> (rpc[r] # "blocked" \/ ~readonly \/ hw # Newest)

=============================================================================
