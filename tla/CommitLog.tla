----------------------------- MODULE CommitLog -----------------------------
(***************************************************************************)
(* The segment list of one partition's commit log (server/commitlog/      *)
(* commitlog.go) under its concurrent users:                               *)
(*                                                                         *)
(*   - the Writer: the partition's single append path.  On a leader it     *)
(*     calls Append, on a follower AppendMessageSet and, on a role change, *)
(*     Truncate; these calls are made one at a time by one goroutine.      *)
(*   - the Cleaner: cleanerLoop, which on every tick runs                  *)
(*     checkAndPerformSplit and, if it did not split, Clean.               *)
(*                                                                         *)
(* Both threads run checkAndPerformSplit, which rolls the active segment   *)
(* with a compare-and-swap on the atomic active-segment pointer and then,  *)
(* in a separate critical section, appends the new segment to l.segments.  *)
(* Clean reads l.segments, cleans without holding the log mutex and then   *)
(* writes the cleaned list back, rebasing segments added meanwhile.        *)
(*                                                                         *)
(* Data is abstracted to offsets: a segment is its base offset and the     *)
(* sequence of offsets written to it; a record occupies one unit of the    *)
(* segment's byte budget.  The segment type itself (segment.go) is not in  *)
(* this repository's src/: newSegment, WriteMessageSet, Seal, Truncated    *)
(* and Delete are modelled from the design (section 4.1).                  *)
(***************************************************************************)
EXTENDS Naturals, Sequences, SequencesExt

CONSTANTS
    SegIds,           \* identities of segment objects (model values)
    NoSeg,            \* "no segment" in the threads' locals
    MaxOffset,        \* offsets written are < MaxOffset
    SegmentCapacity,  \* records that fill a segment (MaxSegmentBytes)
    BatchSizes,       \* sizes of one Append / AppendMessageSet batch
    AgeRoll,          \* MaxSegmentAge > 0: segments also roll by age
    CleanerEnabled,   \* cleanerLoop runs
    Truncation        \* the Writer may call Truncate (follower role)

ASSUME NoSeg \notin SegIds
ASSUME MaxOffset \in Nat /\ SegmentCapacity \in Nat \ {0}
ASSUME BatchSizes \subseteq Nat \ {0}
ASSUME {AgeRoll, CleanerEnabled, Truncation} \subseteq BOOLEAN

Writer  == "writer"
Cleaner == "cleaner"
Threads == {Writer, Cleaner}

VARIABLES
    seg,       \* seg[i]: the segment object i
    segs,      \* l.segments, a sequence of segment ids
    active,    \* l.vActiveSegment
    pc,        \* pc[t]: where thread t is
    old,       \* old[t]: active segment read by t's split (oldActiveSegment)
    new,       \* new[t]: segment created by t's split
    batch,     \* records in the Writer's current batch
    wseg,      \* segment the Writer loaded for its write
    wbase,     \* offset of the first record of the Writer's message set
    snap,      \* oldSegments read by Clean
    cleaned    \* the list returned by l.clean(oldSegments)

vars == <<seg, segs, active, pc, old, new, batch, wseg, wbase,
          snap, cleaned>>

(***************************************************************************)
(* Segments (segment.go, modelled from the design).                        *)
(***************************************************************************)
SegState == {"unused", "open", "deleted"}

\* newSegment(path, baseOffset, maxBytes, true, ""): an empty, unsealed
\* segment whose first write has not happened yet.
NewSegment(base) ==
    [state |-> "open", base |-> base, recs |-> <<>>, sealed |-> FALSE,
     aged |-> FALSE]

\* segment.NextOffset(): one past the last offset written, or the base.
NextOffset(i) ==
    IF seg[i].recs = <<>> THEN seg[i].base ELSE Last(seg[i].recs) + 1

\* segment.CheckSplit(MaxSegmentAge): the segment is full, or it is older
\* than MaxSegmentAge since its first write.
CheckSplit(i) ==
    \/ Len(seg[i].recs) >= SegmentCapacity
    \/ AgeRoll /\ seg[i].aged

\* A segment file named after this base offset exists (newSegment refuses
\* to create it again and reports ErrSegmentExists).
FileExists(base) ==
    \E i \in SegIds : seg[i].state = "open" /\ seg[i].base = base

\* Segment objects nobody refers to any more may be reused by the model.
Referenced(i) ==
    \/ i \in Range(segs) \/ i \in Range(snap) \/ i \in Range(cleaned)
    \/ i = active \/ i = wseg
    \/ \E t \in Threads : i \in {old[t], new[t]}

FreeIds == {i \in SegIds : \/ seg[i].state = "unused"
                           \/ seg[i].state = "deleted" /\ ~Referenced(i)}

\* commitLog.NewestOffset(): activeSegment().NextOffset() - 1.
NewestOffset == NextOffset(active) - 1

\* findSegment(segments, offset): index of the first segment whose next
\* offset is past offset, 0 if there is none.
FindSegment(list, offset) ==
    LET hits == {j \in 1..Len(list) : NextOffset(list[j]) > offset}
    IN  IF hits = {} THEN 0 ELSE CHOOSE j \in hits : \A h \in hits : j <= h

\* segment.Delete() for each segment of S: the files at the segments' paths
\* ({baseOffset}.log/.index) are removed.  A path is named after the base
\* offset only, so a live segment that now owns the same path (a truncated
\* copy renamed over it, a segment rolled again at that offset) loses its
\* files as well.
DeleteSegments(S) ==
    LET paths == {seg[i].base : i \in S}
    IN  [i \in SegIds |->
           IF i \in S \/ (seg[i].state = "open" /\ seg[i].base \in paths)
             THEN [seg[i] EXCEPT !.state = "deleted"]
             ELSE seg[i]]

-----------------------------------------------------------------------------
Init ==
    \E i \in SegIds :
        /\ seg = [j \in SegIds |-> IF j = i THEN NewSegment(0)
                                   ELSE [NewSegment(0) EXCEPT !.state = "unused"]]
        /\ segs = <<i>>
        /\ active = i
        /\ pc = [t \in Threads |-> "idle"]
        /\ old = [t \in Threads |-> NoSeg]
        /\ new = [t \in Threads |-> NoSeg]
        /\ batch = 0
        /\ wseg = NoSeg
        /\ wbase = 0
        /\ snap = <<>>
        /\ cleaned = <<>>

(***************************************************************************)
(* Writer: Append / AppendMessageSet.  Both run checkAndPerformSplit, read *)
(* the active segment and its next offset, and write the message set to    *)
(* it.  They differ only in Append's readonly check (ErrCommitLogReadonly) *)
(* and in where the offsets come from (assigned from the segment's next    *)
(* offset, or carried by the leader's message set fetched from this log's  *)
(* end); the readonly flag is modelled in HighWatermark.                    *)
(***************************************************************************)
AppendStart(k) ==
    /\ pc[Writer] = "idle"
    /\ NextOffset(active) + k <= MaxOffset
    /\ pc' = [pc EXCEPT ![Writer] = "split"]
    /\ batch' = k
    /\ UNCHANGED <<seg, segs, active, old, new, wseg, wbase, snap, cleaned>>

\* segment = l.activeSegment(); baseOffset = segment.NextOffset()
AppendLoad ==
    /\ pc[Writer] = "load"
    /\ wseg' = active
    /\ wbase' = NextOffset(active)
    /\ pc' = [pc EXCEPT ![Writer] = "write"]
    /\ UNCHANGED <<seg, segs, active, old, new, batch, snap, cleaned>>

\* Mutant: the message set's offsets start one past baseOffset.
BatchOffsetsOffByOne(from, k) == [j \in 1..k |-> from + j]

\* newMessageSetFromProto(baseOffset, ...): the batch's messages get the
\* offsets baseOffset, baseOffset + 1, ...; a replicated message set
\* carries the leader's offsets, which start at this log's end.
BatchOffsets(from, k) == [j \in 1..k |-> from + j - 1]

\* l.append(segment, ms, entries): segment.WriteMessageSet, which a sealed
\* segment refuses.
AppendWrite ==
    /\ pc[Writer] = "write"
    /\ IF seg[wseg].sealed
         THEN UNCHANGED seg
         ELSE seg' = [seg EXCEPT ![wseg].recs =
                        @ \o BatchOffsets(wbase, batch)]
    /\ pc' = [pc EXCEPT ![Writer] = "idle"]
    /\ wseg' = NoSeg
    /\ wbase' = 0
    /\ batch' = 0
    /\ UNCHANGED <<segs, active, old, new, snap, cleaned>>

(***************************************************************************)
(* checkAndPerformSplit / split, run by either thread.                     *)
(***************************************************************************)
\* Where a thread goes when checkAndPerformSplit returns (split or not).
AfterSplit(t, didSplit) ==
    CASE t = Writer            -> "load"
      [] t = Cleaner /\ didSplit -> "idle"
      [] OTHER                 -> "clean"

\* Top of checkAndPerformSplit's loop: activeSegment := l.activeSegment();
\* if !activeSegment.CheckSplit(l.MaxSegmentAge) return false.
SplitNotNeeded(t) ==
    /\ pc[t] = "split"
    /\ ~CheckSplit(active)
    /\ pc' = [pc EXCEPT ![t] = AfterSplit(t, FALSE)]
    /\ UNCHANGED <<seg, segs, active, old, new, batch, wseg, wbase,
                   snap, cleaned>>

SplitCheck(t) ==
    /\ pc[t] = "split"
    /\ CheckSplit(active)
    /\ old' = [old EXCEPT ![t] = active]
    /\ pc' = [pc EXCEPT ![t] = "create"]
    /\ UNCHANGED <<seg, segs, active, new, batch, wseg, wbase, snap,
                   cleaned>>

\* split(oldActiveSegment): offset := l.NewestOffset() + 1, read from the
\* active segment again; newSegment(l.Path, offset, ...) creates
\* {offset}.log and {offset}.index.
SplitCreate(t) ==
    /\ pc[t] = "create"
    /\ ~FileExists(NextOffset(active))
    /\ \E i \in FreeIds :
         /\ seg' = [seg EXCEPT ![i] = NewSegment(NextOffset(active))]
         /\ new' = [new EXCEPT ![t] = i]
    /\ pc' = [pc EXCEPT ![t] = "cas"]
    /\ UNCHANGED <<segs, active, old, batch, wseg, wbase, snap, cleaned>>

\* The segment file already exists: newSegment fails with ErrSegmentExists,
\* which checkAndPerformSplit takes for "another thread split" and loops.
SplitExists(t) ==
    /\ pc[t] = "create"
    /\ FileExists(NextOffset(active))
    /\ old' = [old EXCEPT ![t] = NoSeg]
    /\ pc' = [pc EXCEPT ![t] = "split"]
    /\ UNCHANGED <<seg, segs, active, new, batch, wseg, wbase, snap,
                   cleaned>>

\* CompareAndSwapPointer(&l.vActiveSegment, oldActiveSegment, segment)
SplitSwap(t) ==
    /\ pc[t] = "cas"
    /\ active = old[t]
    /\ active' = new[t]
    /\ pc' = [pc EXCEPT ![t] = "publish"]
    /\ UNCHANGED <<seg, segs, old, new, batch, wseg, wbase, snap,
                   cleaned>>

\* The CAS failed: segment.Delete() and ErrSegmentExists, so retry.
SplitSwapFailed(t) ==
    /\ pc[t] = "cas"
    /\ active # old[t]
    /\ seg' = DeleteSegments({new[t]})
    /\ old' = [old EXCEPT ![t] = NoSeg]
    /\ new' = [new EXCEPT ![t] = NoSeg]
    /\ pc' = [pc EXCEPT ![t] = "split"]
    /\ UNCHANGED <<segs, active, batch, wseg, wbase, snap, cleaned>>

\* l.mu.Lock(); l.segments = append(l.segments, segment); l.mu.Unlock()
SplitPublish(t) ==
    /\ pc[t] = "publish"
    /\ segs' = Append(segs, new[t])
    /\ pc' = [pc EXCEPT ![t] = "seal"]
    /\ UNCHANGED <<seg, active, old, new, batch, wseg, wbase, snap,
                   cleaned>>

\* activeSegment.Seal(); return true
SplitSeal(t) ==
    /\ pc[t] = "seal"
    /\ seg' = [seg EXCEPT ![old[t]].sealed = TRUE]
    /\ old' = [old EXCEPT ![t] = NoSeg]
    /\ new' = [new EXCEPT ![t] = NoSeg]
    /\ pc' = [pc EXCEPT ![t] = AfterSplit(t, TRUE)]
    /\ UNCHANGED <<segs, active, batch, wseg, wbase, snap, cleaned>>

(***************************************************************************)
(* Writer: Truncate(offset), entirely under l.mu.  Segments after the one  *)
(* holding offset are deleted; that segment is deleted too when offset is  *)
(* its base and it is not the first, otherwise it is replaced by a         *)
(* truncated copy holding the records below offset.  The last remaining   *)
(* segment becomes the active segment.                                     *)
(***************************************************************************)
\* Mutant: the retain loop runs to i <= idx, keeping the replaced segment.
PrecedingOffByOne(idx) == SubSeq(segs, 1, idx)

\* Retain all preceding segments: segments[i] = l.segments[i] for i < idx.
Preceding(idx) == SubSeq(segs, 1, idx - 1)

\* seg.Truncated() filled by scanning seg and writing every message set with
\* an offset below offset; newSegment.Replace(seg) renames it over seg.
TruncatedCopy(s, offset) ==
    [NewSegment(seg[s].base) EXCEPT
        !.recs = SelectSeq(seg[s].recs, LAMBDA o : o < offset)]

\* Mutant: the new list is stored but the active-segment pointer is not.
InstallSegmentsNoStore(list) ==
    /\ segs' = list
    /\ UNCHANGED active

\* activeSegment := segments[len(segments)-1]; atomic.StorePointer(
\* &l.vActiveSegment, activeSegment); l.segments = segments
InstallSegments(list) ==
    /\ segs' = list
    /\ active' = Last(list)

Truncate(offset) ==
    /\ Truncation
    /\ pc[Writer] = "idle"
    /\ FindSegment(segs, offset) # 0
    /\ LET idx  == FindSegment(segs, offset)
           s    == segs[idx]
           gone == {segs[j] : j \in idx..Len(segs)}
       IN  IF seg[s].base = offset /\ idx > 1
             THEN /\ seg' = DeleteSegments(gone)
                  /\ InstallSegments(Preceding(idx))
             ELSE \E f \in FreeIds :
                  /\ seg' = [DeleteSegments(gone) EXCEPT
                               ![f] = TruncatedCopy(s, offset)]
                  /\ InstallSegments(Append(Preceding(idx), f))
    /\ UNCHANGED <<pc, old, new, batch, wseg, wbase, snap, cleaned>>

\* Time passes beyond MaxSegmentAge since the active segment's first write.
SegmentAges ==
    /\ AgeRoll
    /\ seg[active].recs # <<>>
    /\ ~seg[active].aged
    /\ seg' = [seg EXCEPT ![active].aged = TRUE]
    /\ UNCHANGED <<segs, active, pc, old, new, batch, wseg, wbase,
                   snap, cleaned>>

(***************************************************************************)
(* Cleaner: cleanerLoop.  A tick runs checkAndPerformSplit; when it did    *)
(* not split, Clean.  Clean reads l.segments under the read lock, lets the *)
(* delete cleaner drop the oldest segments (their files are deleted)       *)
(* without holding the lock, and then, under the lock, stores the cleaned  *)
(* list, appending any segments added since it read l.segments.  Retention *)
(* by bytes, messages and age each drop a prefix of the oldest segments    *)
(* and never the last one, so the delete cleaner is any such drop.         *)
(* Compaction (Compact = true) is not modelled.                            *)
(***************************************************************************)
CleanerTick ==
    /\ CleanerEnabled
    /\ pc[Cleaner] = "idle"
    /\ pc' = [pc EXCEPT ![Cleaner] = "split"]
    /\ UNCHANGED <<seg, segs, active, old, new, batch, wseg, wbase,
                   snap, cleaned>>

\* l.mu.RLock(); oldSegments := l.segments; l.mu.RUnlock()
CleanSnapshot ==
    /\ pc[Cleaner] = "clean"
    /\ snap' = segs
    /\ pc' = [pc EXCEPT ![Cleaner] = "delete"]
    /\ UNCHANGED <<seg, segs, active, old, new, batch, wseg, wbase,
                   cleaned>>

\* Mutant: retention may drop every segment, the active one included.
CleanDeleteAll ==
    /\ pc[Cleaner] = "delete"
    /\ \E k \in 0..Len(snap) :
         /\ cleaned' = SubSeq(snap, k + 1, Len(snap))
         /\ seg' = DeleteSegments({snap[j] : j \in 1..k})
    /\ pc' = [pc EXCEPT ![Cleaner] = "commit"]
    /\ UNCHANGED <<segs, active, old, new, batch, wseg, wbase, snap>>

\* Mutant: the files of one segment more than retention drops are deleted.
CleanDeleteOffByOne ==
    /\ pc[Cleaner] = "delete"
    /\ \E k \in 0..Len(snap) - 1 :
         /\ cleaned' = SubSeq(snap, k + 1, Len(snap))
         /\ seg' = DeleteSegments({snap[j] : j \in 1..k + 1})
    /\ pc' = [pc EXCEPT ![Cleaner] = "commit"]
    /\ UNCHANGED <<segs, active, old, new, batch, wseg, wbase, snap>>

\* cleaned := l.clean(oldSegments): the delete cleaner deletes the oldest
\* segments of oldSegments, never the last.
CleanDelete ==
    /\ pc[Cleaner] = "delete"
    /\ \E k \in 0..Len(snap) - 1 :
         /\ cleaned' = SubSeq(snap, k + 1, Len(snap))
         /\ seg' = DeleteSegments({snap[j] : j \in 1..k})
    /\ pc' = [pc EXCEPT ![Cleaner] = "commit"]
    /\ UNCHANGED <<segs, active, old, new, batch, wseg, wbase, snap>>

\* Mutant: the rebase slice starts one segment early.
AddedSinceOffByOne(oldSegments) ==
    SubSeq(segs, Len(oldSegments), Len(segs))

\* rebase := newSegments[len(oldSegments):]
AddedSince(oldSegments) == SubSeq(segs, Len(oldSegments) + 1, Len(segs))

\* Mutant: the rebased segments are not appended.
RebaseSegmentsDropped(from, to) == to

\* rebaseSegments(from, to, epochCache): to = append(to, from...)
RebaseSegments(from, to) == to \o from

\* l.mu.Lock(); newSegments := l.segments; if len(newSegments) >
\* len(oldSegments), rebase the new segments onto the cleaned ones;
\* l.segments = cleaned
CleanCommit ==
    /\ pc[Cleaner] = "commit"
    /\ segs' = IF Len(segs) > Len(snap)
                 THEN RebaseSegments(AddedSince(snap), cleaned)
                 ELSE cleaned
    /\ snap' = <<>>
    /\ cleaned' = <<>>
    /\ pc' = [pc EXCEPT ![Cleaner] = "idle"]
    /\ UNCHANGED <<seg, active, old, new, batch, wseg, wbase>>

-----------------------------------------------------------------------------
\* One step of thread t inside checkAndPerformSplit.
SplitStep(t) ==
    \/ SplitNotNeeded(t)
    \/ SplitCheck(t)
    \/ SplitCreate(t)
    \/ SplitExists(t)
    \/ SplitSwap(t)
    \/ SplitSwapFailed(t)
    \/ SplitPublish(t)
    \/ SplitSeal(t)

Next ==
    \/ \E k \in BatchSizes : AppendStart(k)
    \/ AppendLoad
    \/ AppendWrite
    \/ \E o \in 0..MaxOffset - 1 : Truncate(o)
    \/ SegmentAges
    \/ CleanerTick
    \/ CleanSnapshot
    \/ CleanDelete
    \/ CleanCommit
    \/ \E t \in Threads : SplitStep(t)

Spec == Init /\ [][Next]_vars

\* The offsets held by the log, segment after segment in l.segments, and
\* the next offset Append assigns: the refinement mapping to OffsetLog.
LogOffsets == FlattenSeq([j \in 1..Len(segs) |-> seg[segs[j]].recs])

Abstract == INSTANCE OffsetLog WITH log <- LogOffsets, leo <- NextOffset(active)

-----------------------------------------------------------------------------
TypeOK ==
    /\ seg \in [SegIds -> [state : SegState, base : 0..MaxOffset,
                           recs : Seq(0..MaxOffset - 1), sealed : BOOLEAN,
                           aged : BOOLEAN]]
    /\ segs \in Seq(SegIds) /\ segs # <<>>
    /\ active \in SegIds
    /\ pc \in [Threads -> {"idle", "split", "create", "cas", "publish", "seal", "load",
                           "write", "clean", "delete", "commit"}]
    /\ old \in [Threads -> SegIds \cup {NoSeg}]
    /\ new \in [Threads -> SegIds \cup {NoSeg}]
    /\ wseg \in SegIds \cup {NoSeg}
    /\ snap \in Seq(SegIds) /\ cleaned \in Seq(SegIds)

\* The segments of l.segments cover consecutive offset ranges: every
\* segment's base offset is the next offset of the segment before it, so no
\* offset is written twice and none is skipped (design section 8).  This is
\* about checkAndPerformSplit racing the Writer's Append, and Truncate.
SegmentsContiguous ==
    \A j \in 1..Len(segs) - 1 : seg[segs[j + 1]].base = NextOffset(segs[j])

\* Outside the window between a split's CAS and its append to l.segments,
\* the active segment is the last segment of l.segments: Append writes to
\* the segment that readers and Truncate see as the end of the log.
ActiveIsLastSegment ==
    (\A t \in Threads : pc[t] # "publish") => active = Last(segs)

\* Outside Clean's own window (its files deleted, the cleaned list not yet
\* stored), l.segments never holds a segment whose files were deleted: the
\* delete cleaner's and Truncate's deletions are never undone by a later
\* write of l.segments (Clean's write-back, split's append).
NoDeletedSegmentInLog ==
    pc[Cleaner] # "commit" =>
        \A j \in 1..Len(segs) : seg[segs[j]].state = "open"

\* Every open segment is reachable from l.segments, unless it is a split's
\* new segment not yet appended: Clean's write-back keeps the segments
\* that splits appended while it was cleaning (rebaseSegments), and no write
\* of l.segments leaves a live segment file that the log no longer lists.
LiveSegmentsListed ==
    \A i \in SegIds :
        /\ seg[i].state = "open"
        /\ ~\E t \in Threads : pc[t] \in {"cas", "publish"} /\ new[t] = i
        => i \in Range(segs)

\* No segment appears twice in l.segments (a segment appended by a split is
\* rebased by Clean once, and only if it was not in Clean's snapshot).
SegmentsDistinct == \A j, h \in 1..Len(segs) : j # h => segs[j] # segs[h]


\* On a follower (one goroutine: AppendMessageSet and Truncate), the segment
\* list implements the abstract offset log: every step either leaves the
\* offsets and the next offset alone (rolling, sealing, publishing a
\* segment) or is one append of consecutive offsets at the log end or one
\* truncation that keeps exactly the offsets below the target.  This is
\* about Truncate's choice between deleting and replacing the segment that
\* holds the offset, its scan into the truncated copy, and split's base
\* offset for the new segment.
OffsetLogRefined == Abstract!Spec

=============================================================================
