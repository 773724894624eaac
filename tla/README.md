# TLA+ models of Liftbridge's commit log and metadata plane

This directory holds TLA+ models of the two parts of Liftbridge whose source is
in `src/`:

- `server/commitlog/commitlog.go`: the per-partition segmented commit log;
- `server/metadata.go`: the metadata plane that the metadata (Raft) leader runs.

`server/replicator_test.go` tests the replicator, whose code is not in `src/`.
Its expectation that replica lineages never diverge is checked in
`LeaderEpochs`.
The models are checked with TLC. Every action is translated from the lines
that `PROJECT.json` ("map") names. The few helpers that model code outside
`src/` (the segment type, the Raft FSM's dispatch) are modelled from
`spec.md` and marked `spec_modelled`.

## 1. The system, its parts and how they interact

| Part | Source | State | Operations (what changes state) | Concurrency |
|---|---|---|---|---|
| Segment list of a commit log | commitlog.go | `segments`, `vActiveSegment` (atomic), segment files | Append, AppendMessageSet, checkAndPerformSplit/split, Truncate, Clean (+rebaseSegments), open | the append path (one goroutine per partition: producer path on a leader, replication fetch on a follower) and `cleanerLoop`; `l.mu` (RW) guards `segments`, the active pointer is swapped by CAS |
| Segment | segment.go (not in src) | base offset, records, position, sealed, first-write time, files `{base}.log/.index` | newSegment, WriteMessageSet, CheckSplit, Seal, Truncated/Replace, Delete | used by both threads |
| High watermark | commitlog.go | `hw`, `hwWaiters`, `readonly` (atomic) | SetHighWatermark, OverrideHighWatermark, waitForHW, removeHWWaiter, notifyHWChange, notifyReadonly, SetReadonly, checkpointHWLoop | readers (waitForHW), the replication path (SetHighWatermark), role changes (SetReadonly), the checkpoint goroutine |
| Leader-epoch cache | leader_epoch_cache.go (not in src) | epoch -> start offset | Assign (from append and NewLeaderEpoch), ClearLatest (Truncate, New), ClearEarliest (Clean, New) | append path, cleaner |
| Partition leadership and ISR | metadata.go | per partition: ISR, leader, leader epoch, epoch; `leaderReports` | ShrinkISR, ExpandISR, ReportLeader (+leaderReport.addWitness, expiry timer), electNewPartitionLeader; Raft apply: RemoveFromISR, AddToISR, ChangeLeader | concurrent gRPC handlers on the metadata leader; Raft applies entries in log order |
| Broker load accounting | metadata.go | `brokerPartitionLoad`, `brokerLeaderLoad` | AddStream, PausePartitions, ResumePartition, RemoveStream, ChangeLeader | Raft apply (one at a time) |
| Stream lifecycle | metadata.go | `streams`, tombstones | CreateStream, DeleteStream, PauseStream, ResumeStream, SetStreamReadonly (API), AddStream, RemoveStream, RemoveTombstonedStream, Reset, LostLeadership | API handlers, Raft apply, recovery |
| Propagation and waits | metadata.go | none of its own | propagateRequest, waitForMetadataLeader, waitForPartitionLeader | request/reply over the message bus, timeouts, retries |
| Metadata responses | metadata.go | `cachedBrokers`, `cachedServerIDs`, `lastCached` | FetchMetadata, FetchPartitionMetadata, brokerCache, fetchBrokerInfo | concurrent API calls |

How they interact:

- The metadata plane decides each partition's leader and ISR through Raft.
- A partition's leader appends to its log with Append. Followers replicate
  with AppendMessageSet, and Truncate on a leader change.
- The leader's replicators report lagging followers to the metadata leader
  (ShrinkISR and ExpandISR).
- Followers report an unresponsive leader (ReportLeader). The metadata leader
  counts these witnesses and elects a new leader.
- A new leader records its epoch in its log's leader-epoch cache
  (NewLeaderEpoch). A new follower asks the leader for
  LastOffsetForLeaderEpoch of its own last epoch, truncates to the answer,
  and then fetches.

## 2. Modules, most important first

| Module | Models | Status |
|---|---|---|
| `CommitLog` (+ `MCCommitLog`) | the segment list under the append path, `cleanerLoop` (split, Clean) and Truncate | done |
| `PartitionControl` (+ `MCPartitionControl`) | ShrinkISR / ExpandISR / ReportLeader on the metadata leader, leader reports and their timer, elections, Raft apply with the epoch fence | done |
| `BrokerLoad` (+ `MCBrokerLoad`) | the stream registry and the broker load counters under CreateStream, DeleteStream, PauseStream, ResumeStream, SetStreamReadonly and elections, with restarts that replay the Raft log through tombstones | done |
| `HighWatermark` (+ `MCHighWatermark`) | the HW, the HW waiters, the readonly flag, the HW checkpoint, and closing and reopening the log, cleanly or after a crash | done |
| `LeaderEpochs` (+ `MCLeaderEpochs`) | the replicas of one partition: each log's records by epoch and its leader-epoch cache, under leader changes, follower truncation and fetching, and crashes | done |
| `OffsetLog` | the abstract promise of a commit log: appends of consecutive offsets at the end, truncations, retention; refined by `CommitLog` on a follower | done |

`OffsetLog` is an abstract specification. `CommitLog` takes it in with
`Abstract == INSTANCE OffsetLog WITH` the refinement mapping
`log <- LogOffsets` (the offsets of the segments of `l.segments`, in list
order) and `leo <- NextOffset(active)`, and `Abstract!Spec` is checked as a
`PROPERTY`. The applied partition state of `PartitionControl` is compared
with a reference fold over its log (`AppliedStateMatchesLog`) instead of an
abstract module: an abstract module saying only that a newer epoch may
change the state would add nothing beyond that fold.

Every run is listed in `PROJECT.json` with its cfg, and each property of a
passing run has a mutant there: a plausible bug in a mapped definition
under which TLC finds that property violated.

## 3. CommitLog

State:

| Variable | Code |
|---|---|
| `seg[i]` | a segment object: `state` (unused/open/deleted files), `base`, `recs` (the offsets written), `sealed`, `aged` (older than MaxSegmentAge) |
| `segs` | `l.segments` |
| `active` | `l.vActiveSegment` |
| `pc[t]` | where thread `t` is |
| `old[t]`, `new[t]` | `oldActiveSegment` and the new segment of `t`'s split |
| `batch`, `wseg`, `wbase` | Append's batch size, the segment it loaded and that segment's next offset |
| `snap`, `cleaned` | Clean's `oldSegments` and the list `l.clean` returned |

Threads:

- The Writer runs Append / AppendMessageSet / Truncate, one call at a time.
- The Cleaner runs `cleanerLoop`: on each tick it calls `checkAndPerformSplit`,
  and then `Clean` when no split happened.

Each step of an action is a piece of code between two points where another
thread can interleave:

| Operation | Steps |
|---|---|
| Append | readonly check and `checkAndPerformSplit` (`AppendStart`), load the active segment and its next offset (`AppendLoad`), `WriteMessageSet` (`AppendWrite`) |
| `checkAndPerformSplit` | loop-top `CheckSplit` (`SplitNotNeeded` / `SplitCheck`), `newSegment` at `NewestOffset()+1` (`SplitCreate`, or `SplitExists` for `ErrSegmentExists`), the CAS (`SplitSwap` / `SplitSwapFailed`), the append under `l.mu` (`SplitPublish`), `Seal` (`SplitSeal`) |
| Clean | read under RLock (`CleanSnapshot`), the unlocked delete cleaner (`CleanDelete`), the locked rebase and store (`CleanCommit`) |
| Truncate | one step: it holds `l.mu` throughout |

- `SegmentAges` is time passing beyond MaxSegmentAge.
- Segment ids are model values. A segment object whose files are deleted and
  that nothing refers to may be reused for a new segment.
- A segment's files are named by its base offset, so `Delete` removes the
  files of any open segment with that base (`DeleteSegments`).

Runs (MaxOffset bounds the offsets written, 2 records fill a segment, 5 segment objects, symmetry over the segment objects):

| Run | Configuration | Checks | Result |
|---|---|---|---|
| `clog_follower` | Writer with Truncate, size rolling, offsets 0..5 | `SegmentsContiguous`, `ActiveIsLastSegment`, `OffsetLogRefined` | pass (~207k states) |
| `clog_leader` | Writer + cleaner, size and age rolling, offsets 0..4 | `TypeOK`, `NoDeletedSegmentInLog`, `LiveSegmentsListed`, `SegmentsDistinct` | pass (~564k states) |
| `clog_split_reorder` | Writer + cleaner, size rolling | `SegmentsContiguous` | violation: two splits append in the opposite order to their CASes |
| `clog_truncate_clean` | Truncate + cleaner | `NoDeletedSegmentInLog` | violation: Clean stores its stale list after Truncate |

`OffsetLogRefined` is checked only on the follower. With the cleaner
running, the races below already break the segment list, and so the
refinement too. The refinement sees more than `SegmentsContiguous`: an
off-by-one in the offsets a batch is given (`BatchOffsets`) keeps the
segment bases chained, but it is not an append at the log end.

Two further races are recorded as hazards in `PROJECT.json`, not as runs.
With `AgeRoll = TRUE`, the cleaner rolls the segment Append is writing to,
and `SegmentsContiguous` fails. With the cleaner enabled, Truncate can land
between a split's CAS and its append, and `ActiveIsLastSegment` fails.

Bounds:

- Offsets 0..5 with two records per segment let Truncate hit the first,
  middle and last of three full segments, both at and off a base offset.
- Five segment objects are enough for three live segments plus the two new
  segments of two concurrent splits.
- In `clog_leader` the writer and the cleaner both split, so a split's CAS
  can fail and be retried (`SplitSwapFailed`). That is the case
  `SegmentsDistinct` is about. `SplitStep(t)` groups the steps of thread
  `t` inside `checkAndPerformSplit`.

Deadlock:

- `clog_leader` does not check deadlock. Their behaviours
  stop only when the offsets below MaxOffset are used up, or when a split
  finds every segment object in use; both are limits of the model.
- `clog_follower` checks deadlock: Truncate is always enabled there.
- In the code, the retry loop on `ErrSegmentExists` never stops. The model
  keeps it as the `SplitExists` step, so a livelocked state is not reported
  as a deadlock (see the hazards in `PROJECT.json`).

Not modelled in CommitLog:

- message encoding, positions and bytes (a record is one unit of a segment's
  capacity);
- the leader-epoch assignment in `append` (modelled in `LeaderEpochs`);
- compaction;
- reopening an existing directory;
- readers beyond their waits on the HW (see `HighWatermark`).


## 4. PartitionControl

One partition's leadership and ISR as the metadata leader manages them.

| Variable | Code |
|---|---|
| `isr`, `leader`, `leaderEpoch`, `epoch` | the partition's `protocol.Partition` fields, as applied on a node |
| `log`, `applied` | the Raft entries proposed for the partition, in commit order, and how many are applied (modelled from the design) |
| `reqs` | ShrinkISR / ExpandISR / ReportLeader requests in flight, each carrying the leader and leader epoch its sender knew |
| `reportOf` | `m.leaderReports[partition]`: which leaderReport object the map holds (0: none) |
| `wit`, `armed` | per leaderReport object (numbered `1..MaxReports`): its `witnessReplicas`, and whether its `time.AfterFunc` timer is running |
| `adding` | ReportLeader handlers that have taken a report under `m.mu` and not yet run `addWitness` |
| `electing` | handlers whose `addWitness` saw a quorum and that go on to `electNewPartitionLeader` |
| `witnessEpoch`, `witnessIn`, `lapsed` | history, read only by `ElectionBackedByQuorum`: the leader epoch each replica last reported, the report it went to, and whether that report's timer has since fired |

Actions:

- `SendShrinkISR`, `SendExpandISR` and `SendReportLeader` are the brokers' requests.
- `HandleShrinkISR` and `HandleExpandISR` share the tail `ProposeISRChange`.
  They check the leader generation and propose the entry.
- `ReportLeader` is two actions, split where the code releases `m.mu`.
  `TakeReport` checks the generation and takes the map's report, or
  allocates and stores a new one (`FreeReports` and `NewReport`: an object
  no map entry, handler or running timer can reach gets its number
  reused). `AddWitness` is `addWitness` under the report's mutex. It adds
  the witness; on a quorum it stops the timer and goes on to elect; otherwise
  it resets or starts the timer.
- `ElectLeader` is `electNewPartitionLeader`.
- `ReportExpires(p)` is report `p`'s timer firing. Its callback deletes
  `m.leaderReports[partition]`, whichever report the map holds then. The
  object itself keeps its witnesses for any handler still holding it.
- `LostLeadership` is this server losing metadata leadership: the report
  timers are stopped and `m.leaderReports` is emptied.
- `ApplyEntry` applies the next committed entry through `RemoveFromISR`,
  `AddToISR` or `ChangeLeader`, with their epoch fence.
- `ReapplyEntry` has Raft hand the FSM an entry it already applied.

Handlers run concurrently in the code. ShrinkISR and ExpandISR are one
step each: they read the applied state and propose. ReportLeader is two
steps, because an expiry callback, `LostLeadership` or another handler can
run between its `m.mu` section and `addWitness`.

| Run | Bounds | Checks | Result |
|---|---|---|---|
| `pc_apply` | 3 replicas, 2 entries, 2 requests or report handlers in flight, 1 report object | `AppliedStateMatchesLog` | pass (~589k distinct views, ~20 s) |
| `pc_leader_in_isr` | 3 entries | `LeaderInISR` | violation: a shrink of `f` and an election of `f`, both checked against the same generation, are both applied |
| `pc_election_quorum` | 3 entries, 2 report objects | `ElectionBackedByQuorum` | violation: a replica shrunk out of the ISR deposes the leader alone |

The violations need three entries: a shrink, an election and the entry
between them. The pass run uses two, where it already replays every
interleaving of proposals and re-applies (three entries took minutes).

`pc_apply` explores the view `MCView`, defined in `MCPartitionControl`. The view blanks the
contents of free report objects, which nothing reads again. It also leaves
out the history variables and the `quorum` flag, which no guard reads.
It keeps one report object. With one object, a handler can still
hold a report whose timer fires and add its witness to the orphan, but a
new report waits until the orphan is free. Two objects did not finish
within the run's time limit.

`ElectionBackedByQuorum` has a third way to fail, the expiry race at
metadata.go:78, which the model also reaches, although the trace of
`pc_election_quorum` (with 3 entries) is the shorter ISR route. Replicas b2
and b3 both take report 1, and b2 adds its witness. The timer fires and
deletes the report from the map. b3 then adds its witness to the orphaned
report, which still holds b2's expired witness. The two make a quorum, and
b1 is deposed. The routes through the ISR and across leader generations
need two entries, so with `MaxEntries` set to 1 this is the only route
left; `PROJECT.json` records it as a hazard rather than as a run.

## 5. BrokerLoad

The stream registry (`m.streams`, with tombstones) and the counters
`brokerPartitionLoad` / `brokerLeaderLoad`.

- `CreateStream`, `DeleteStream`, `PauseStream`, `ResumeStream` and
  `ElectLeader` are the leader's handlers, and so is `SetStreamReadonly`
  (its precondition is `ReadonlyTargetsFound`). Each checks its preconditions and
  appends a Raft entry. `ElectLeader` does not look at the paused flag:
  neither `electNewPartitionLeader`, `ReportLeader` nor
  `checkChangeLeaderPreconditions` does.
- `ApplyNext` applies one entry through `AddStream`, `RemoveStream`,
  `PausePartitions`, `ResumePartition`, `ChangeLeader` or `SetReadonly`
  (the partitions' readonly flag).
- `Restart` empties the node's memory and replays the log with
  `recovered = TRUE`.
- `FinishRecovery` is `RemoveTombstonedStream` over what is left tombstoned.
- Placement uses `LeastLoaded` (`getPartitionReplicas`) and
  `LeastLeaderLoaded` (`selectPartitionLeader`).
- The Raft preconditions checked before proposing are `NameTaken`,
  `StreamFound`, `PartitionsFound`, `ResumeTargetsFound` and
  `PartitionExists`.
- `deleteStream` is `deleteStream` followed by `removeStream`: the stream
  leaves the registry (its leader reports are PartitionControl's).

Bounds: 3 brokers, 2 streams of 2 partitions, and 4 entries (5 for the
violation). That is enough to create, pause, delete and re-create a stream
around a restart.
Symmetry is taken over brokers and over stream names.

| Run | Checks | Result |
|---|---|---|
| `bl_recovery` | `TypeOK`, `StreamsMatchLog`, `LoadMatchesUnlessPausedTouched` | pass (~228k states, 10 s) |
| `bl_load_drift` | `LoadMatchesPartitions` | violation: a leader change applied to a paused partition counts the new leader, whose load pausing had already removed |

`StreamsMatchLog` compares the registry with `StreamsAfter`, a recursive
reference fold that applies each committed entry once.
`LoadMatchesUnlessPausedTouched` is `LoadMatchesPartitions` in every
history whose applied entries never delete a stream while one of its
partitions is paused, and never change the leader of a paused partition
(`PausedPartitionTouched`, computed with `StreamsAfter`). Those two are the
routes by which the counters drift: `bl_load_drift` shows the leader change
(`ChangeLeader` counts the new leader of a partition whose load
`PausePartitions` removed), and deleting a paused stream uncounts its
partitions a second time. The passing run still checks the counters under
pausing, resuming, readonly flags, leader changes and replay.

## 6. HighWatermark

| Variable | Code |
|---|---|
| `hw`, `leo` | `l.hw`, and `NewestOffset()+1` |
| `readonly` | `l.readonly` (atomic) |
| `waiters`, `chan` | `l.hwWaiters` and each reader's capacity-1 channel |
| `rpc`, `seen` | where each committed reader is, and the HW it last read |
| `roPending` | SetReadonly(true) has stored the flag but not yet taken `l.mu` to call `notifyReadonly` |
| `truncPending` | a follower truncated and has not yet called `OverrideHighWatermark` |
| `ckpt` | the HW file |

`Restart(crash)` is `close()` followed by `open()`. A clean close
checkpoints the HW (`HWFile`). A crash keeps the last checkpoint and loses
any unflushed tail of the log. `open()` then sets `l.hw` from the file
whatever the recovered log end is. Waiters, channels and readers start
afresh. `Crashes` enables the crash case.

Writers:

- `Append` is refused on a readonly log. `AppendMessageSet` is not.
- `SetHighWatermark` only raises the HW.
- `SetReadonly` and then `NotifyReadonly` are the two halves of
  SetReadonly(true).
- `Truncate` and then `OverrideHighWatermark` (HW = min(HW, newest)) are a
  follower's truncation.
- `CheckpointHW` is `checkpointHWLoop`.

Readers (modelled from the design of reader.go):

- `ReadHW` reads the HW.
- `WaitForHW` is `waitForHW`.
- `Wake` receives from the channel.
- `Cancel` is `removeHWWaiter` on a cancelled context.
- `Resubscribe` starts a new read.

| Run | Bounds | Checks | Result |
|---|---|---|---|
| `hw_waiters` | 2 readers, offsets 0..2, clean restarts only, `FairSpec`, no symmetry | `NoLostWakeup`, `SingleShotChannels`, `WokenOnHWChange`, `ReleasedAtReadonlyEnd`, `HWWithinLog` | pass (~137k states, 15 s) |
| `hw_unclean_restart` | 2 readers, offsets 0..3, crashes | `HWWithinLog` | violation: after a crash loses the log's tail, `open()` restores a checkpointed HW past the newest offset |

`HWWithinLog` states the design's `hw <= nextOffset - 1`, outside the
follower's window between Truncate and OverrideHighWatermark. It holds
across clean restarts because `close()` checkpoints the HW. After a crash,
the file can hold an HW that `SetHighWatermark` set before the tail was
flushed. `New()` trims the leader-epoch cache for exactly this case, but
not the HW.

`WokenOnHWChange` and `ReleasedAtReadonlyEnd` are leads-to properties.
A reader parked after its HW moved is eventually released. So is a reader
parked on a log that is readonly at its end, unless that condition goes away
first. The run drops symmetry, because TLC's liveness checking is not sound
under symmetry.

Two readers are enough for one to be parked while the other is being woken.
Three offsets let the HW move, lag the log end, and be truncated below.

## 7. LeaderEpochs

The replicas of one partition (3, as model values, with symmetry).

| Variable | Code |
|---|---|
| `log[r]` | replica `r`'s records, each abstracted to its leader epoch and a unique write id |
| `cache[r]` | `r`'s `leaderEpochCache`: a sequence of `[epoch, start]` |
| `known[r]`, `role[r]` | the last leader change `r` applied, and whether it leads, must truncate, or fetches |
| `elected` | the leader of each epoch, as the metadata decided |
| `writes` | write ids handed out |

- The cache operations `Assign`, `ClearLatest`, `ClearEarliest` and
  `CacheLastOffset` are taken from the design (leader_epoch_cache.go is not
  in `src/`).
- Every commitlog.go call that changes the cache is taken from the code:
  - `AppendRecord` (`append` assigns an epoch greater than the last at the
    record's offset);
  - `NewLeaderEpoch` (assign at `NewestOffset()`);
  - `LastOffsetForLeaderEpoch` (a cache answer of -1 becomes
    `NextOffset() - 1`);
  - `TruncateLog` (nothing past the end; otherwise remove the tail and
    `ClearLatest(offset)`);
  - `RecoverCache` (`New()`'s `ClearLatest` and `ClearEarliest`).
- `ElectLeader` is the metadata's leader change. Any replica other than
  the current leader can be chosen, as any ISR member can be.
- `BecomeLeader` and `BecomeFollower` are a replica applying it.
- `FollowerTruncate` and `FollowerFetch` are the follower's loop from the
  design. A replica that has not yet applied a leader change keeps leading,
  and its followers keep fetching from it.
- `Restart` is a crash that loses any unflushed tail, followed by `New()`.

| Run | Bounds | Checks | Result |
|---|---|---|---|
| `lec_divergence` | 3 replicas, 3 epochs, 3 writes, logs of at most 3 | `LogMatching` | violation in 10 steps |

The trace:

1. r1 leads epoch 1 and writes record 1 at offset 0.
2. r2, which had not fetched it, is elected for epoch 2.
3. `NewLeaderEpoch` records `(2, -1)` on r2's empty log, and r2 writes two
   records.
4. r1, now a follower, asks r2 for `LastOffsetForLeaderEpoch(1)`. The
   cache's answer is the start of epoch 2, which is -1.
5. `LastOffsetForLeaderEpoch` reads that -1 as "no later epoch" and answers
   r2's newest offset, 1.
6. r1 truncates at 1, which keeps its record 1 at offset 0.
7. r1 fetches r2's record at offset 1.

The two logs now share offset 1 but differ at offset 0.
`TestTruncatePreventReplicaDivergence` expects this never to happen. The
same choice of `NewestOffset()` gives equal start offsets when a leader is
elected twice without a write, against the design's strictly increasing
cache.

Only a violation run is kept for this module. The state space with
crashes at any point does not fit a passing run's time at these bounds.

## 8. Fairness

Only `hw_waiters` checks liveness. Its `FairSpec` adds weak fairness for the
steps that some goroutine is committed to taking:

- `NotifyReadonly`: after its atomic store, SetReadonly(true) goes on to
  take `l.mu`, and Go's mutex does not starve a waiter forever;
- `OverrideHighWatermark`: the fetcher that truncated goes on to override
  the HW;
- `WaitForHW(r)`: a reader inside `waitForHW` returns;
- `Wake(r)`: a reader blocked on a channel that holds a value receives it.

Writers, new reads and cancellations get no fairness: nothing in the code
obliges them to happen. Both liveness properties fail without the fairness
on the first and last of these steps, and they fail under their mutants.

The other runs check safety, so they assume no fairness. A liveness
property for Append would fail: `checkAndPerformSplit` can retry forever
(see the timeout_retry hazard at commitlog.go:683).

## 9. Not modelled, and why

- The leader-epoch cache, segment.go, the replicator, reader.go, fsm.go and
  the Raft library are not in `src/`. The cache's `Replace` and `Rebase`,
  used only by compaction, are not modelled. The parts the models need are
  modelled from the design and marked `spec_modelled` in the map.
- SetStreamReadonly is modelled up to the registry's flag (`BrokerLoad`).
  stream.SetReadonly is in stream.go, which is not in `src/`. Its effect on
  the log, `commitLog.SetReadonly`, is in `HighWatermark`.
- Request propagation and the leader waits change no state of their own.
  A forwarded request is handled by the metadata leader's own handler,
  which the models already have, and the forwarding node only relays the
  status. A forwarding timeout can race the leader's commit, so a
  client's retry of CreateStream can get "already exists" for its own
  stream. That is the client's concern, and nothing in the server's state
  depends on it.
- Metadata responses and the broker cache are read-only queries. The
  cache can serve a partial survey for up to MetadataCacheMaxAge (hazards
  at metadata.go:172 and 174), and the model has no clock.
- Snapshot restore (`Reset` followed by re-adding streams) goes through
  fsm.go. See the crash_recovery hazard at metadata.go:1015.
- Leader reports of a deleted partition. A ReportLeader racing a
  DELETE_STREAM can store a report after `removeStream` has cleared the
  partition's (hazard at metadata.go:670). PartitionControl's partition is
  never deleted and BrokerLoad has no reports. Joining the two needs a
  run of its own, and all twelve runs the project keeps are in use.
- LEO waiters (`NotifyLEO`, `segment.WaitForLEO`). Whether sealing wakes
  them is decided in segment.go, which is not in `src/` (hazard at
  commitlog.go:630).
- A failing `deleteStream` inside `RemoveStream` (hazard at
  metadata.go:1037). What happens next is decided by the FSM's error
  handling in fsm.go.
- A passing run of `LeaderEpochs`. With crashes, three replicas and the
  bounds that reach the divergence, the state space grew past 70M states
  without finishing. The module is checked by its violation run only.
- `checkAndPerformSplit`'s retry loop on `ErrSegmentExists` (hazard at
  commitlog.go:683). Showing that it can spin forever needs a liveness run
  of the writer against Truncate and the cleaner, and a free run slot.
- Compaction, message encoding and the reopening of existing segment files
  are not modelled. Reopening is abstracted to the recovered log end in
  `HighWatermark` and `LeaderEpochs`.
