---------------------------- MODULE LeaderEpochs ----------------------------
(***************************************************************************)
(* The replicas of one partition, each with its commit log and leader-     *)
(* epoch cache, across leader changes, follower truncation and crashes.   *)
(*                                                                         *)
(* A record is abstracted to the leader epoch it was written in and a      *)
(* unique write id; offsets are positions in a replica's log, from 0.      *)
(* From commitlog.go: append's epoch assignment, NewLeaderEpoch,           *)
(* LastOffsetForLeaderEpoch, Truncate's ClearLatest and New()'s recovery   *)
(* of the cache.  The cache itself (Assign, ClearLatest, ClearEarliest,    *)
(* the epoch lookup), the metadata leader change and the follower's        *)
(* truncate-then-fetch loop are not in this repository's src/ and are      *)
(* modelled from the design (sections 4.2, 4.3 and 5).                     *)
(***************************************************************************)
EXTENDS Integers, SequencesExt

CONSTANTS
    Replicas,    \* the partition's replicas
    MaxEpoch,    \* leader changes in a behaviour
    MaxWrites,   \* records the leaders append in a behaviour
    MaxLen       \* bound on a replica's log length

ASSUME MaxEpoch \in Nat /\ MaxWrites \in Nat /\ MaxLen \in Nat

VARIABLES
    log,         \* r -> the records of r's log, offset o at index o+1
    cache,       \* r -> r's leader-epoch cache: <<[epoch, start], ...>>
    known,       \* r -> the leader epoch of the last leader change r applied
    role,        \* r -> "leader", "truncating" or "follower"
    elected,     \* elected[e]: the replica made leader in epoch e
    writes       \* write ids handed out so far

vars == <<log, cache, known, role, elected, writes>>

Record == [epoch : 1..MaxEpoch, id : 1..MaxWrites]
Entry  == [epoch : 1..MaxEpoch, start : -1..MaxLen]

NextOffset(r)   == Len(log[r])
NewestOffset(r) == Len(log[r]) - 1

-----------------------------------------------------------------------------
(* The leader-epoch cache (design 4.2).                                    *)

\* lastLeaderEpoch(): 0 when the cache is empty.
LastLeaderEpoch(c) == IF c = <<>> THEN 0 ELSE Last(c).epoch

\* assign(epoch, offset): appended only if epoch > lastLeaderEpoch.
Assign(c, e, o) ==
    IF e > LastLeaderEpoch(c) THEN Append(c, [epoch |-> e, start |-> o]) ELSE c

\* clearLatest(offset): drop the entries starting after offset.
ClearLatest(c, o) == SelectSeq(c, LAMBDA x : x.start <= o)

\* clearEarliest(offset): drop the entries starting before offset, keeping
\* the largest of them rewritten to start at offset.
ClearEarliest(c, o) ==
    LET below == SelectSeq(c, LAMBDA x : x.start < o)
        kept  == SelectSeq(c, LAMBDA x : x.start >= o)
    IN  IF below = <<>> THEN kept
        ELSE <<[Last(below) EXCEPT !.start = o]>> \o kept

\* lastOffsetForLeaderEpoch(e): -1 for the last epoch or when no later epoch
\* is known, else the start of the least epoch greater than e.
CacheLastOffset(c, e) ==
    LET higher == SelectSeq(c, LAMBDA x : x.epoch > e)
    IN  IF e = LastLeaderEpoch(c) \/ higher = <<>> THEN -1
        ELSE Head(higher).start

-----------------------------------------------------------------------------
(* commitLog operations on replica r.                                      *)

\* append(): write the record at NextOffset and, if its epoch is greater
\* than the cache's last, assign the epoch at the record's offset.
AppendRecord(r, rec) ==
    /\ log' = [log EXCEPT ![r] = Append(@, rec)]
    /\ cache' = [cache EXCEPT ![r] =
                   IF rec.epoch > LastLeaderEpoch(@)
                   THEN Assign(@, rec.epoch, NextOffset(r)) ELSE @]

\* NewLeaderEpoch(epoch): Assign(epoch, l.NewestOffset()).
NewLeaderEpoch(r, e) == Assign(cache[r], e, NewestOffset(r))

\* LastOffsetForLeaderEpoch(epoch): the cache's answer, or
\* activeSegment().NextOffset() - 1 when the cache answers -1.
LastOffsetForLeaderEpoch(r, e) ==
    LET o == CacheLastOffset(cache[r], e)
    IN  IF o = -1 THEN NewestOffset(r) ELSE o

\* Truncate(offset): nothing when no segment holds offset; otherwise every
\* record from offset on is removed and the cache loses the entries that
\* start after offset (ClearLatest(offset)).
TruncateLog(r, o) ==
    IF o >= NextOffset(r) THEN UNCHANGED <<log, cache>>
    ELSE /\ log' = [log EXCEPT ![r] = SubSeq(@, 1, o)]
         /\ cache' = [cache EXCEPT ![r] = ClearLatest(@, o)]

\* New() after open(): ClearLatest(activeSegment().NextOffset()) for a
\* checkpoint ahead of the log, then ClearEarliest(OldestOffset()); without
\* retention the oldest offset is the first segment's base, 0.
RecoverCache(c, next) == ClearEarliest(ClearLatest(c, next), 0)

-----------------------------------------------------------------------------
(* Leader changes, the leader's appends, the follower's truncation and     *)
(* fetches, and crashes.                                                   *)

\* The metadata leader makes r leader of the next epoch (a replica other
\* than the current leader).
ElectLeader(r) ==
    /\ Len(elected) < MaxEpoch
    /\ elected # <<>> => Last(elected) # r
    /\ elected' = Append(elected, r)
    /\ UNCHANGED <<log, cache, known, role, writes>>

\* Replica r applies the latest leader change naming it: it bumps the leader
\* epoch in its cache and starts leading.
BecomeLeader(r) ==
    /\ known[r] < Len(elected)
    /\ Last(elected) = r
    /\ known' = [known EXCEPT ![r] = Len(elected)]
    /\ role' = [role EXCEPT ![r] = "leader"]
    /\ cache' = [cache EXCEPT ![r] = NewLeaderEpoch(r, Len(elected))]
    /\ UNCHANGED <<log, elected, writes>>

\* Replica r applies the latest leader change naming another replica: it
\* stops leading and must truncate before it fetches.
BecomeFollower(r) ==
    /\ known[r] < Len(elected)
    /\ Last(elected) # r
    /\ known' = [known EXCEPT ![r] = Len(elected)]
    /\ role' = [role EXCEPT ![r] = "truncating"]
    /\ UNCHANGED <<log, cache, elected, writes>>

\* A replica that leads (as far as it has applied) appends a new record in
\* its leader epoch, through Append.
LeaderAppend(r) ==
    /\ role[r] = "leader"
    /\ writes < MaxWrites
    /\ NextOffset(r) < MaxLen
    /\ AppendRecord(r, [epoch |-> known[r], id |-> writes + 1])
    /\ writes' = writes + 1
    /\ UNCHANGED <<known, role, elected>>

\* The leader of the follower's epoch, once it leads that epoch.
LeaderOf(f) == elected[known[f]]
Serving(f) ==
    /\ known[f] > 0
    /\ role[LeaderOf(f)] = "leader"
    /\ known[LeaderOf(f)] = known[f]

\* Truncating: the follower asks its leader for LastOffsetForLeaderEpoch of
\* its own last leader epoch and truncates its log to the answer.
FollowerTruncate(f) ==
    /\ role[f] = "truncating"
    /\ Serving(f)
    /\ TruncateLog(f, LastOffsetForLeaderEpoch(LeaderOf(f),
                                               LastLeaderEpoch(cache[f])))
    /\ role' = [role EXCEPT ![f] = "follower"]
    /\ UNCHANGED <<known, elected, writes>>

\* Fetching: the leader returns the records from the follower's next offset;
\* the follower writes them with AppendMessageSet.
FollowerFetch(f) ==
    /\ role[f] = "follower"
    /\ Serving(f)
    /\ NextOffset(f) < NextOffset(LeaderOf(f))
    /\ AppendRecord(f, log[LeaderOf(f)][NextOffset(f) + 1])
    /\ UNCHANGED <<known, role, elected, writes>>

\* A hard failure loses the records not yet flushed; the cache checkpoint
\* is written on every Assign and survives.  New() then recovers the cache
\* against the log, and the partition applies the current leader again.
Restart(r) ==
    /\ \E n \in 0..NextOffset(r) :
          /\ log' = [log EXCEPT ![r] = SubSeq(@, 1, n)]
          /\ cache' = [cache EXCEPT ![r] = RecoverCache(@, n)]
    /\ known' = [known EXCEPT ![r] = 0]
    /\ role' = [role EXCEPT ![r] = "follower"]
    /\ UNCHANGED <<elected, writes>>

Init ==
    /\ log = [r \in Replicas |-> <<>>]
    /\ cache = [r \in Replicas |-> <<>>]
    /\ known = [r \in Replicas |-> 0]
    /\ role = [r \in Replicas |-> "follower"]
    /\ elected = <<>>
    /\ writes = 0

Next ==
    \E r \in Replicas :
        \/ ElectLeader(r)
        \/ BecomeLeader(r)
        \/ BecomeFollower(r)
        \/ LeaderAppend(r)
        \/ FollowerTruncate(r)
        \/ FollowerFetch(r)
        \/ Restart(r)

Spec == Init /\ [][Next]_vars

-----------------------------------------------------------------------------
TypeOK ==
    /\ log \in [Replicas -> Seq(Record)]
    /\ cache \in [Replicas -> Seq(Entry)]
    /\ known \in [Replicas -> 0..MaxEpoch]
    /\ role \in [Replicas -> {"leader", "truncating", "follower"}]
    /\ elected \in Seq(Replicas) /\ Len(elected) <= MaxEpoch
    /\ writes \in 0..MaxWrites

\* Log lineages never diverge (replicator_test.go,
\* TestTruncatePreventReplicaDivergence): two replicas holding the same
\* record at an offset hold the same records before it.  This is about the
\* follower truncating to its leader's LastOffsetForLeaderEpoch answer
\* before fetching, across leader changes a stale leader has not applied
\* yet and crashes that lose a log's tail.
LogMatching ==
    \A r1, r2 \in Replicas :
        \A o \in 1..Min({Len(log[r1]), Len(log[r2])}) :
            log[r1][o] = log[r2][o] => SubSeq(log[r1], 1, o) = SubSeq(log[r2], 1, o)

=============================================================================
