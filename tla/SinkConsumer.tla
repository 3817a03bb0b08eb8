---------------------------- MODULE SinkConsumer ---------------------------
(***************************************************************************)
(* sink-graph, sink-vector and sink-search as members of a consumer group: *)
(* ProcessMessage checks processed_events, writes to the external store by *)
(* deterministic id, and only then inserts the completion marker           *)
(* (ADR-0022). The store and the marker table are different databases.     *)
(*                                                                         *)
(* An event is about one aggregate (a node id, a chunk id, a point id) and *)
(* writing it replaces what the store holds for that aggregate.            *)
(***************************************************************************)
EXTENDS ConsumerGroup

CONSTANTS
  Key,        \* aggregates
  KeyOf,      \* [Event -> Key]
  Invalid,    \* events whose payload or security labels are rejected
  Nothing     \* the store holds nothing for the aggregate

ASSUME SinkAssumption ==
  /\ KeyOf \in [Event -> Key]
  /\ Invalid \subseteq Event
  /\ Nothing \notin Event

(* CDC publishes an outbox row once before any redelivery, and to the partition
   of its aggregate: the rows have a primary key and aggregate_id is the key of
   the messages. *)
ASSUME BacklogAssumption ==
  \A p, q \in Primary : \A i \in 1..Len(Backlog[p]), j \in 1..Len(Backlog[q]) :
    /\ KeyOf[Backlog[p][i]] = KeyOf[Backlog[q][j]] => p = q
    /\ Backlog[p][i] = Backlog[q][j] => i = j

VARIABLES
  stage,      \* [Worker -> position inside ProcessMessage]
  marked,     \* processed_events rows of this consumer
  store,      \* [Key -> event last written, or Nothing]
  applied,    \* history: events written to the store at least once
  disturbed,  \* history: events whose processing failed once, whose marker
              \* gc-postgres removed, or which a replica had in hand when its
              \* partitions moved
  unpublished \* history: messages the publication of whose copy failed

sinkVars == <<groupVars, stage, marked, store, applied, disturbed, unpublished>>

SinkTypeOK ==
  /\ stage \in [Worker -> {"check", "write", "mark"}]
  /\ marked \subseteq Event
  /\ store \in [Key -> Event \cup {Nothing}]
  /\ applied \subseteq Event
  /\ disturbed \subseteq Event
  /\ unpublished \subseteq Partition \X Nat

SinkInit ==
  /\ GroupInit
  /\ stage = [w \in Worker |-> "check"]
  /\ marked = {}
  /\ store = [k \in Key |-> Nothing]
  /\ applied = {}
  /\ disturbed = {}
  /\ unpublished = {}

At(w, s) == pc[w] = "process" /\ stage[w] = s
EnterStage(w, s) == stage' = [stage EXCEPT ![w] = s]
dbVars == <<marked, store, applied, disturbed, unpublished>>

FetchMessage(w) == Fetch(w) /\ EnterStage(w, "check") /\ UNCHANGED dbVars

(* isProcessed: the marker is there, skip the write. *)
SkipDuplicate(w) ==
  /\ At(w, "check")
  /\ EventOf(cur[w]) \in marked
  /\ ProcessOk(w)
  /\ UNCHANGED <<stage, dbVars>>

(* OutcomeInvalidSkipped: logged, committed, no marker. *)
SkipInvalid(w) ==
  /\ At(w, "check")
  /\ EventOf(cur[w]) \notin marked
  /\ EventOf(cur[w]) \in Invalid
  /\ ProcessOk(w)
  /\ UNCHANGED <<stage, dbVars>>

(* Faulty variants: the marker inserted before the write, the marker not looked
   at. *)
MarkBeforeWrite(w) ==
  /\ At(w, "check")
  /\ EventOf(cur[w]) \notin marked \cup Invalid
  /\ marked' = marked \cup {EventOf(cur[w])}
  /\ EnterStage(w, "write")
  /\ UNCHANGED <<groupVars, store, applied, disturbed, unpublished>>

MarkerIgnored(w) ==
  /\ At(w, "check")
  /\ EventOf(cur[w]) \notin Invalid
  /\ EnterStage(w, "write")
  /\ UNCHANGED <<groupVars, dbVars>>

NotProcessed(w) ==
  /\ At(w, "check")
  /\ EventOf(cur[w]) \notin marked \cup Invalid
  /\ EnterStage(w, "write")
  /\ UNCHANGED <<groupVars, dbVars>>

(* MERGE, upsert or index by deterministic id. *)
Apply(w) ==
  /\ store' = [store EXCEPT ![KeyOf[EventOf(cur[w])]] = EventOf(cur[w])]
  /\ applied' = applied \cup {EventOf(cur[w])}

Write(w) ==
  /\ At(w, "write")
  /\ Apply(w)
  /\ EnterStage(w, "mark")
  /\ UNCHANGED <<groupVars, marked, disturbed, unpublished>>

InsertMarker(w) == marked' = marked \cup {EventOf(cur[w])}

(* INSERT ... ON CONFLICT DO NOTHING; losing the conflict is success too. *)
MarkProcessed(w) ==
  /\ At(w, "mark")
  /\ InsertMarker(w)
  /\ ProcessOk(w)
  /\ UNCHANGED <<stage, store, applied, disturbed, unpublished>>

(* Faulty variant: an error is logged and nil returned. *)
StageFailsSilently(w) ==
  /\ ProcessOk(w)
  /\ disturbed' = disturbed \cup {EventOf(cur[w])}
  /\ UNCHANGED <<stage, marked, store, applied, unpublished>>

(* The check, the write or the insert returned an error. An error of the
   write or of the insert does not tell whether it took effect. *)
StageFails(w) ==
  /\ ProcessFails(w)
  /\ \/ UNCHANGED <<marked, store, applied>>
     \/ stage[w] = "write" /\ Apply(w) /\ UNCHANGED marked
     \/ stage[w] = "mark" /\ InsertMarker(w) /\ UNCHANGED <<store, applied>>
  /\ disturbed' = disturbed \cup {EventOf(cur[w])}
  /\ UNCHANGED <<stage, unpublished>>

(* gc-postgres deletes a marker older than the retention. *)
PurgeMarker ==
  /\ \E e \in marked : marked' = marked \ {e} /\ disturbed' = disturbed \cup {e}
  /\ UNCHANGED <<groupVars, stage, store, applied, unpublished>>

(* Faulty variant: a failed message is committed without a copy. *)
WrapperCommitsFailure(w) ==
  /\ \/ /\ pc[w] = "failed" /\ Goto(w, "commit")
        /\ UNCHANGED <<kafkaVars, cur, resultVars, faults>>
     \/ Commit(w) \/ OnError(w)
  /\ UNCHANGED <<stage, dbVars>>

(* The wrapper, the commit and the main loop, as in ConsumerGroup. *)
Wrapper(w) ==
  /\ PublishRetry(w) \/ PublishDLQ(w) \/ Commit(w) \/ OnError(w)
  /\ UNCHANGED <<stage, dbVars>>

(* The partitions move under the replicas R: nothing tells them, and they go
   on with the event they have in hand while another replica reads it again. *)
Unfenced(R) ==
  /\ disturbed' = disturbed \cup {EventOf(cur[w]) : w \in {v \in R : pc[v] = "process"}}
  /\ UNCHANGED <<stage, marked, store, applied, unpublished>>

WrapperFault(w) ==
  \/ /\ PublishFails(w)
     /\ unpublished' = unpublished \cup {cur[w]}
     /\ UNCHANGED <<stage, marked, store, applied, disturbed>>
  \/ CommitFails(w) /\ UNCHANGED <<stage, dbVars>>
  \/ Crash(w) /\ Unfenced(Worker \ {w})

SinkCycle(w) ==
  \/ FetchMessage(w)
  \/ SkipDuplicate(w) \/ SkipInvalid(w) \/ NotProcessed(w)
  \/ Write(w) \/ MarkProcessed(w) \/ StageFails(w)
  \/ Wrapper(w)

SinkNext ==
  \/ \E w \in Worker : SinkCycle(w) \/ WrapperFault(w)
  \/ Rebalance /\ Unfenced(Worker)
  \/ CdcRedeliver /\ UNCHANGED <<stage, dbVars>>
  \/ PurgeMarker

SinkSpec == SinkInit /\ [][SinkNext]_sinkVars

SinkFairSpec == SinkSpec /\ \A w \in Worker : WF_sinkVars(SinkCycle(w))

------------------------------------------------------------------------------
(* A marker is never a false completion (ADR-0022): wherever the process dies
   and however many replicas work on the event, a marker in processed_events
   means that the event's write reached the store. *)
MarkerMeansApplied == marked \subseteq applied

(* Success is never reported for work that was not done: a valid event that
   was settled has reached the store. *)
SettledMeansApplied == settled \ Invalid \subseteq applied

(* An event the labels or the payload disqualify never reaches the store and
   leaves no marker. *)
InvalidNeverApplied == Invalid \cap (marked \cup applied) = {}

(* A sink keeps its reader after an error, so that a later commit may pass a
   message it gave up. It passes no other: whichever replica dies, is slow or
   loses its partitions, a message below a committed offset was settled, copied
   to the retry topic or dead-lettered, unless that publication failed. *)
SkipsOnlyUnpublished ==
  \A p \in Partition : \A i \in 1..committed[p] :
    <<p, i>> \in discharged \cup unpublished

(* Position of an event in CDC order, within its primary partition. *)
Newest(k, e) ==
  \E p \in Primary : \E i \in 1..Len(Backlog[p]) :
    /\ Backlog[p][i] = e
    /\ KeyOf[e] = k
    /\ \A j \in (i+1)..Len(Backlog[p]) : KeyOf[Backlog[p][j]] # k \/ Backlog[p][j] \in Invalid

Drained ==
  /\ \A p \in Partition : committed[p] = Len(log[p])
  /\ \A w \in Worker : pc[w] = "idle"

(* When the group has drained its topics with nothing dead-lettered, the
   store holds for each aggregate the last state CDC published. *)
PerEntityOrder ==
  Drained /\ deadLettered = {} =>
    \A e \in Event \ Invalid : Newest(KeyOf[e], e) => store[KeyOf[e]] = e

(* The part of PerEntityOrder that the replicas keep through crashes, failed
   publications and commits, rebalances and redeliveries, as long as no event
   failed, lost its marker or was in hand when its partition moved. *)
OrderWithoutFailures == disturbed = {} => PerEntityOrder

(* The sinks are consumer groups: their steps are steps of ConsumerGroup. *)
GroupRefined == GroupSpec
============================================================================
