------------------------------ MODULE BrokerLoad ------------------------------
(***************************************************************************)
(* The stream registry and the broker load counters of the metadata plane  *)
(* (server/metadata.go) as every node keeps them by applying committed     *)
(* Raft entries.                                                           *)
(*                                                                         *)
(* m.streams maps a stream name to its partitions (replicas, leader,       *)
(* paused, readonly); m.brokerPartitionLoad and m.brokerLeaderLoad count, per        *)
(* broker, the partitions it replicates and leads.  The metadata leader's  *)
(* handlers (CreateStream, DeleteStream, PauseStream, ResumeStream,        *)
(* SetStreamReadonly, leader elections) check their preconditions against the applied state and     *)
(* append an entry to the Raft log; entries are applied one at a time, in  *)
(* log order, by AddStream, RemoveStream, PausePartitions, ResumePartition,*)
(* SetReadonly and ChangeLeader.  After a restart the node starts empty and replays    *)
(* the whole log with recovered = TRUE: RemoveStream then only tombstones  *)
(* a stream, AddStream of a tombstoned name un-tombstones it, and when the *)
(* replay is done RemoveTombstonedStream deletes what is still tombstoned. *)
(*                                                                         *)
(* The Raft log, the FSM's dispatch and the restart (fsm.go, server.go)    *)
(* are not in this repository's src/ and are modelled from the design.     *)
(***************************************************************************)
EXTENDS Integers, Sequences, FiniteSets

CONSTANTS
    Brokers,     \* the cluster's brokers (Raft server ids)
    Streams,     \* stream names
    PartIds,     \* the partition ids every stream is created with
    MaxOps       \* Raft entries committed in a behaviour

ASSUME Brokers # {} /\ PartIds # {} /\ MaxOps \in Nat

VARIABLES
    streams,     \* m.streams: name -> stream (exists, tombstoned, partitions)
    partLoad,    \* m.brokerPartitionLoad
    leaderLoad,  \* m.brokerLeaderLoad
    raftLog,     \* committed Raft entries
    applied,     \* entries of raftLog applied on this node
    recovering   \* the node is replaying its log after a restart

vars == <<streams, partLoad, leaderLoad, raftLog, applied, recovering>>

Part == [replicas : SUBSET Brokers, leader : Brokers, paused : BOOLEAN,
         readonly : BOOLEAN]

\* The value of a name no stream has.
NoPart == [replicas |-> {}, leader |-> "none", paused |-> FALSE,
           readonly |-> FALSE]
NoStream == [exists |-> FALSE, tomb |-> FALSE, parts |-> [p \in PartIds |-> NoPart]]

Live(s) == streams[s].exists /\ ~streams[s].tomb

\* Per broker, the number of partitions among ids of the partition map ps
\* that it replicates, and that it leads.
ReplicaCounts(ps, ids) ==
    [b \in Brokers |-> Cardinality({p \in ids : b \in ps[p].replicas})]
LeaderCounts(ps, ids) ==
    [b \in Brokers |-> Cardinality({p \in ids : ps[p].leader = b})]

\* One increment per partition (AddStream, ResumePartition), and one
\* decrement per partition that stops at 0 (PausePartitions, RemoveStream:
\* "if load[broker] > 0 { load[broker]-- }").
AddLoad(load, n) == [b \in Brokers |-> load[b] + n[b]]
DropLoadUnclamped(load, n) == [b \in Brokers |-> load[b] - n[b]]
DropLoad(load, n) ==
    [b \in Brokers |-> IF load[b] > n[b] THEN load[b] - n[b] ELSE 0]

\* newStream with every partition placed on replicas, led by leader.
NewStream(replicas, leader) ==
    [exists |-> TRUE, tomb |-> FALSE,
     parts |-> [p \in PartIds |-> [replicas |-> replicas, leader |-> leader,
                                   paused |-> FALSE, readonly |-> FALSE]]]

-----------------------------------------------------------------------------
(***************************************************************************)
(* Raft apply.  Each operator is one call of the FSM into metadata.go.     *)
(***************************************************************************)
\* AddStream that answers ErrStreamExists for a tombstoned stream too.
AddStreamNoUntombstone(op, recovered) ==
    IF streams[op.stream].exists
      THEN UNCHANGED <<streams, partLoad, leaderLoad>>
      ELSE LET new == NewStream(op.replicas, op.leader)
           IN  /\ streams' = [streams EXCEPT ![op.stream] = new]
               /\ partLoad' = AddLoad(partLoad, ReplicaCounts(new.parts, PartIds))
               /\ leaderLoad' = AddLoad(leaderLoad, LeaderCounts(new.parts, PartIds))

\* AddStream: a name in m.streams is ErrStreamExists, unless the entry is
\* replayed during recovery and the stream is tombstoned: then the old
\* stream is closed and removed and the name re-created.  Every partition's
\* replicas and leader are then counted.
AddStream(op, recovered) ==
    LET old == streams[op.stream]
        new == NewStream(op.replicas, op.leader)
    IN  IF old.exists /\ (~recovered \/ ~old.tomb)
          THEN UNCHANGED <<streams, partLoad, leaderLoad>>
          ELSE /\ streams' = [streams EXCEPT ![op.stream] = new]
               /\ partLoad' = AddLoad(partLoad, ReplicaCounts(new.parts, PartIds))
               /\ leaderLoad' = AddLoad(leaderLoad, LeaderCounts(new.parts, PartIds))

\* deleteStream: stream.Delete() and the removal of the stream's data
\* directory, then removeStream: the name leaves m.streams (the leader
\* reports of its partitions are cancelled; they live in PartitionControl).
deleteStream == NoStream

\* RemoveStream (the FSM first looks the stream up: none is
\* ErrStreamNotFound): during recovery only tombstone it, otherwise delete
\* it; then uncount every partition, paused or not.
RemoveStream(s, recovered) ==
    LET st == streams[s]
    IN  IF ~st.exists
          THEN UNCHANGED <<streams, partLoad, leaderLoad>>
          ELSE /\ streams' = [streams EXCEPT ![s] =
                                IF recovered THEN [st EXCEPT !.tomb = TRUE]
                                ELSE deleteStream]
               /\ partLoad' = DropLoad(partLoad, ReplicaCounts(st.parts, PartIds))
               /\ leaderLoad' = DropLoad(leaderLoad, LeaderCounts(st.parts, PartIds))

\* PausePartitions: stream.Pause pauses the listed partitions and returns
\* those it paused (taken here as the ones not paused already); each is
\* uncounted.
PausePartitions(s, ids) ==
    LET st     == streams[s]
        paused == {p \in ids : ~st.parts[p].paused}
    IN  IF ~st.exists
          THEN UNCHANGED <<streams, partLoad, leaderLoad>>
          ELSE /\ streams' = [streams EXCEPT ![s].parts =
                                [p \in PartIds |-> IF p \in paused
                                    THEN [st.parts[p] EXCEPT !.paused = TRUE]
                                    ELSE st.parts[p]]]
               /\ partLoad' = DropLoad(partLoad, ReplicaCounts(st.parts, paused))
               /\ leaderLoad' = DropLoad(leaderLoad, LeaderCounts(st.parts, paused))

\* ResumePartition, for each listed id: a partition that is not paused is
\* left alone; a paused one is replaced by a running one and counted.
ResumePartition(s, ids) ==
    LET st      == streams[s]
        resumed == {p \in ids : st.parts[p].paused}
    IN  IF ~st.exists
          THEN UNCHANGED <<streams, partLoad, leaderLoad>>
          ELSE /\ streams' = [streams EXCEPT ![s].parts =
                                [p \in PartIds |-> IF p \in resumed
                                    THEN [st.parts[p] EXCEPT !.paused = FALSE]
                                    ELSE st.parts[p]]]
               /\ partLoad' = AddLoad(partLoad, ReplicaCounts(st.parts, resumed))
               /\ leaderLoad' = AddLoad(leaderLoad, LeaderCounts(st.parts, resumed))

\* SetReadonly that ignores the listed ids and flags every partition.
SetReadonlyAllParts(s, ids, b) ==
    IF ~streams[s].exists
      THEN UNCHANGED <<streams, partLoad, leaderLoad>>
      ELSE /\ streams' = [streams EXCEPT ![s].parts =
                            [p \in PartIds |-> [@[p] EXCEPT !.readonly = b]]]
           /\ UNCHANGED <<partLoad, leaderLoad>>

\* SetReadonly: GetStream (a tombstoned stream too) or ErrStreamNotFound;
\* stream.SetReadonly sets the flag of each listed partition.  The load
\* counters do not change.
SetReadonly(s, ids, b) ==
    IF ~streams[s].exists
      THEN UNCHANGED <<streams, partLoad, leaderLoad>>
      ELSE /\ streams' = [streams EXCEPT ![s].parts =
                            [p \in PartIds |-> IF p \in ids
                                THEN [@[p] EXCEPT !.readonly = b]
                                ELSE @[p]]]
           /\ UNCHANGED <<partLoad, leaderLoad>>

\* ChangeLeader's load update without the old leader's decrement.
ChangeLeaderNoDecrement(s, p, l) ==
    /\ streams[s].exists
    /\ streams' = [streams EXCEPT ![s].parts[p].leader = l]
    /\ leaderLoad' = [leaderLoad EXCEPT ![l] = @ + 1]
    /\ UNCHANGED partLoad

\* ChangeLeader (its epoch fence is modelled in PartitionControl): set the
\* leader, then move one unit of leader load from the old leader (if it
\* has any) to the new one, whether or not the partition is paused.
ChangeLeader(s, p, l) ==
    LET old == streams[s].parts[p].leader
    IN  IF ~streams[s].exists
          THEN UNCHANGED <<streams, partLoad, leaderLoad>>
          ELSE /\ streams' = [streams EXCEPT ![s].parts[p].leader = l]
               /\ leaderLoad' = [b \in Brokers |->
                                   (IF b = old /\ leaderLoad[b] > 0
                                      THEN leaderLoad[b] - 1 ELSE leaderLoad[b])
                                   + (IF b = l THEN 1 ELSE 0)]
               /\ UNCHANGED partLoad

\* The FSM applies the next committed entry.
ApplyOp(op, recovered) ==
    CASE op.type = "create" -> AddStream(op, recovered)
      [] op.type = "delete" -> RemoveStream(op.stream, recovered)
      [] op.type = "pause"  -> PausePartitions(op.stream, op.parts)
      [] op.type = "resume" -> ResumePartition(op.stream, op.parts)
      [] op.type = "readonly" -> SetReadonly(op.stream, op.parts, op.readonly)
      [] op.type = "change" -> ChangeLeader(op.stream, op.part, op.leader)

ApplyNext ==
    /\ applied < Len(raftLog)
    /\ ApplyOp(raftLog[applied + 1], recovering)
    /\ applied' = applied + 1
    /\ UNCHANGED <<raftLog, recovering>>

\* The node restarts: memory is empty, the Raft log is kept, and every
\* committed entry is replayed as recovered.
Restart ==
    /\ applied > 0
    /\ streams' = [s \in Streams |-> NoStream]
    /\ partLoad' = [b \in Brokers |-> 0]
    /\ leaderLoad' = [b \in Brokers |-> 0]
    /\ applied' = 0
    /\ recovering' = TRUE
    /\ UNCHANGED raftLog

\* Recovery completes once the log is replayed: RemoveTombstonedStream
\* deletes every stream still tombstoned (its load was uncounted when it
\* was tombstoned).
FinishRecovery ==
    /\ recovering
    /\ applied = Len(raftLog)
    /\ recovering' = FALSE
    /\ streams' = [s \in Streams |-> IF streams[s].tomb THEN deleteStream
                                     ELSE streams[s]]
    /\ UNCHANGED <<partLoad, leaderLoad, raftLog, applied>>

-----------------------------------------------------------------------------
(***************************************************************************)
(* Handlers on the metadata leader.  applyOperation checks the entry's     *)
(* precondition against the applied state and proposes it; a node that is *)
(* recovering does not propose.                                            *)
(***************************************************************************)
Propose(op) ==
    /\ ~recovering
    /\ applied = Len(raftLog)
    /\ Len(raftLog) < MaxOps
    /\ raftLog' = Append(raftLog, op)
    /\ UNCHANGED <<streams, partLoad, leaderLoad, applied, recovering>>

\* The preconditions applyOperation checks before proposing.  Partition ids
\* are always among PartIds, so ErrPartitionNotFound does not arise.
\* checkCreateStreamPreconditions: a name in m.streams is ErrStreamExists.
NameTaken(s) == streams[s].exists

\* checkDeleteStreamPreconditions: an unknown name is ErrStreamNotFound.
StreamFound(s) == streams[s].exists

\* checkPauseStreamPreconditions: the stream, then each listed partition,
\* must exist.
PartitionsFound(s, ids) == streams[s].exists /\ ids \subseteq PartIds

\* checkResumeStreamPreconditions: the same checks.
ResumeTargetsFound(s, ids) == streams[s].exists /\ ids \subseteq PartIds

\* checkSetStreamReadonlyPreconditions: the same checks.
ReadonlyTargetsFound(s, ids) == streams[s].exists /\ ids \subseteq PartIds

\* partitionExists, behind checkChangeLeaderPreconditions.
PartitionExists(s, p) == streams[s].exists /\ p \in PartIds

\* getPartitionReplicas: the rf brokers with the least partition load (ties
\* in any order); selectPartitionLeader: the one of them with the least
\* leader load.
LeastLoaded(rf) ==
    {R \in SUBSET Brokers :
        /\ Cardinality(R) = rf
        /\ \A x \in R, y \in Brokers \ R : partLoad[x] <= partLoad[y]}
LeastLeaderLoaded(R) == {l \in R : \A x \in R : leaderLoad[l] <= leaderLoad[x]}

\* CreateStream: every partition gets the same replicas and leader, since
\* the loads do not change while they are placed; checkCreateStream-
\* Preconditions refuses a name in m.streams.
CreateStream(s, rf) ==
    /\ ~NameTaken(s)
    /\ \E R \in LeastLoaded(rf), l \in Brokers :
          /\ l \in LeastLeaderLoaded(R)
          /\ Propose([type |-> "create", stream |-> s, replicas |-> R,
                      leader |-> l])

\* DeleteStream: checkDeleteStreamPreconditions refuses an unknown name.
DeleteStream(s) ==
    /\ StreamFound(s)
    /\ Propose([type |-> "delete", stream |-> s])

\* PauseStream (no partitions listed means all of them).
PauseStream(s, ids) ==
    /\ PartitionsFound(s, ids)
    /\ Propose([type |-> "pause", stream |-> s, parts |-> ids])

ResumeStream(s, ids) ==
    /\ ResumeTargetsFound(s, ids)
    /\ Propose([type |-> "resume", stream |-> s, parts |-> ids])

\* SetStreamReadonly: replicate the flag for the listed partitions.
SetStreamReadonly(s, ids, b) ==
    /\ ReadonlyTargetsFound(s, ids)
    /\ Propose([type |-> "readonly", stream |-> s, parts |-> ids,
                readonly |-> b])

\* electNewPartitionLeader (PartitionControl) proposes a replica other than
\* the leader.  Neither it, ReportLeader nor checkChangeLeaderPreconditions
\* looks at the paused flag: a report in flight when the partition is
\* paused can still reach a quorum and commit a CHANGE_LEADER.
ElectLeader(s, p) ==
    /\ PartitionExists(s, p)
    /\ \E l \in streams[s].parts[p].replicas \ {streams[s].parts[p].leader} :
          Propose([type |-> "change", stream |-> s, part |-> p, leader |-> l])

-----------------------------------------------------------------------------
Init ==
    /\ streams = [s \in Streams |-> NoStream]
    /\ partLoad = [b \in Brokers |-> 0]
    /\ leaderLoad = [b \in Brokers |-> 0]
    /\ raftLog = <<>>
    /\ applied = 0
    /\ recovering = FALSE

Next ==
    \/ \E s \in Streams :
          \/ \E rf \in 1..Cardinality(Brokers) : CreateStream(s, rf)
          \/ DeleteStream(s)
          \/ \E ids \in SUBSET PartIds \ {{}} : PauseStream(s, ids)
                                               \/ ResumeStream(s, ids)
          \/ \E ids \in SUBSET PartIds \ {{}}, b \in BOOLEAN :
                SetStreamReadonly(s, ids, b)
          \/ \E p \in PartIds : ElectLeader(s, p)
    \/ ApplyNext
    \/ Restart
    \/ FinishRecovery

Spec == Init /\ [][Next]_vars

-----------------------------------------------------------------------------
Op == [type : {"create"}, stream : Streams, replicas : SUBSET Brokers,
       leader : Brokers]
      \cup [type : {"delete"}, stream : Streams]
      \cup [type : {"pause", "resume"}, stream : Streams,
            parts : SUBSET PartIds]
      \cup [type : {"change"}, stream : Streams, part : PartIds,
            leader : Brokers]
      \cup [type : {"readonly"}, stream : Streams, parts : SUBSET PartIds,
            readonly : BOOLEAN]

TypeOK ==
    /\ \A s \in Streams : streams[s] = NoStream
                          \/ /\ streams[s].exists
                             /\ streams[s].tomb \in BOOLEAN
                             /\ streams[s].parts \in [PartIds -> Part]
    /\ partLoad \in [Brokers -> Nat]
    /\ leaderLoad \in [Brokers -> Nat]
    /\ raftLog \in Seq(Op) /\ Len(raftLog) <= MaxOps
    /\ applied \in 0..Len(raftLog)
    /\ recovering \in BOOLEAN

\* Each broker's partition load is the number of partitions of live streams
\* that are not paused and that it replicates, and its leader load the
\* number of those it leads (design: "load counters are maintained as
\* side-effects of apply").  This is about AddStream, RemoveStream,
\* PausePartitions, ResumePartition and ChangeLeader keeping the counts in
\* step with m.streams, including across a restart's replay with tombstones.
LoadMatchesPartitions ==
    LET Counted == {sp \in Streams \X PartIds :
                      Live(sp[1]) /\ ~streams[sp[1]].parts[sp[2]].paused}
        P(sp) == streams[sp[1]].parts[sp[2]]
    IN  \A b \in Brokers :
          /\ partLoad[b] = Cardinality({sp \in Counted : b \in P(sp).replicas})
          /\ leaderLoad[b] = Cardinality({sp \in Counted : P(sp).leader = b})

\* Reference definition: the streams after applying the first k committed
\* entries once each, in order, where a delete simply removes the stream.
RECURSIVE StreamsAfter(_)
StreamsAfter(k) ==
    IF k = 0 THEN [s \in Streams |-> NoStream]
    ELSE LET st == StreamsAfter(k - 1)
             op == raftLog[k]
             x  == st[op.stream]
             SetPaused(ids, v) ==
                 [x EXCEPT !.parts = [p \in PartIds |->
                     IF p \in ids THEN [x.parts[p] EXCEPT !.paused = v]
                     ELSE x.parts[p]]]
             SetRO(ids, v) ==
                 [x EXCEPT !.parts = [p \in PartIds |->
                     IF p \in ids THEN [x.parts[p] EXCEPT !.readonly = v]
                     ELSE x.parts[p]]]
         IN  [st EXCEPT ![op.stream] =
               CASE ~x.exists /\ op.type = "create" ->
                        NewStream(op.replicas, op.leader)
                 [] ~x.exists -> x
                 [] op.type = "delete" -> NoStream
                 [] op.type = "pause"  -> SetPaused(op.parts, TRUE)
                 [] op.type = "resume" -> SetPaused(op.parts, FALSE)
                 [] op.type = "readonly" -> SetRO(op.parts, op.readonly)
                 [] op.type = "change" ->
                        [x EXCEPT !.parts[op.part].leader = op.leader]
                 [] OTHER -> x]

\* Outside recovery the registry is the one obtained by applying each
\* committed entry once, whether or not the node restarted and replayed the
\* log with tombstones (RemoveStream with recovered, AddStream un-
\* tombstoning, RemoveTombstonedStream at the end of recovery).
StreamsMatchLog == ~recovering => streams = StreamsAfter(applied)

\* Some applied entry deleted a stream while one of its partitions was
\* paused (RemoveStream decrements counts PausePartitions already took
\* away), or changed the leader of a paused partition (ChangeLeader moves
\* leader load the partition no longer has): the two ways bl_load_drift
\* finds the counters drifting.
PausedPartitionTouched ==
    \E k \in 1..applied :
        LET op == raftLog[k]
            x  == StreamsAfter(k - 1)[op.stream]
        IN  /\ x.exists
            /\ \/ op.type = "delete" /\ \E p \in PartIds : x.parts[p].paused
               \/ op.type = "change" /\ x.parts[op.part].paused

\* The load counters match the partitions (LoadMatchesPartitions) in every
\* history that never deleted a stream with a paused partition nor changed
\* a paused partition's leader: pausing, resuming, leader changes of
\* running partitions, readonly flags, deletes of running streams and
\* restarts with tombstone replay keep AddStream, RemoveStream,
\* PausePartitions, ResumePartition and ChangeLeader in step.
LoadMatchesUnlessPausedTouched ==
    ~PausedPartitionTouched => LoadMatchesPartitions

=============================================================================
