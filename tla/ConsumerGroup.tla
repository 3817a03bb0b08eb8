--------------------------- MODULE ConsumerGroup ---------------------------
(***************************************************************************)
(* One consumer group of the CDC pipeline: the fetch / process / commit    *)
(* cycle every Go consumer runs (FetchAndProcess), wrapped in retry and    *)
(* dead-lettering (resilience.WithRetryAndDLQ), over one primary topic and *)
(* the group's own retry topic.                                            *)
(*                                                                         *)
(* What "process" does is left open here (it succeeds or fails); modules   *)
(* that model a particular consumer extend this one and refine it.         *)
(* A message is identified by <<partition, offset>>; offsets start at 1    *)
(* and committed[p] is the last committed offset, so that a reader opened  *)
(* on p starts at committed[p] + 1.                                        *)
(***************************************************************************)
EXTENDS Naturals, Sequences

CONSTANTS
  Worker,           \* replicas of the service, one reader each
  Primary,          \* partitions of the primary topic
  Retry,            \* partitions of the group's retry topic
  Event,            \* event_id values
  Backlog,          \* what CDC has published, per primary partition
  MaxRetries,       \* resilience.Config.MaxRetries
  RecreateReader,   \* does the main loop drop its reader after an error?
  HasShouldRetry,   \* does the service pass ShouldRetry to the wrapper?
  MaxFaults         \* bound: environment faults in one behaviour

Partition == Primary \cup Retry

ASSUME GroupAssumption ==
  /\ Worker # {}
  /\ Primary \cap Retry = {}
  /\ Retry # {}
  /\ MaxRetries \in Nat
  /\ MaxFaults \in Nat
  /\ RecreateReader \in BOOLEAN
  /\ HasShouldRetry \in BOOLEAN
  /\ Backlog \in [Primary -> Seq(Event)]

VARIABLES
  log,          \* [Partition -> Seq(Message)]: broker, append-only
  committed,    \* [Partition -> offset]: broker, last committed offset
  owner,        \* [Partition -> Worker]: current assignment
  pos,          \* [Partition -> offset]: last offset the owner's reader returned
  cur,          \* [Worker -> message being processed, or NoRef]
  pc,           \* [Worker -> step of the cycle]
  settled,      \* events for which process returned no error
  deadLettered, \* events published to {topic}.DLQ
  discharged,   \* history: messages that were settled, retried or dead-lettered
  faults        \* faults so far

kafkaVars  == <<log, committed, owner, pos>>
resultVars == <<settled, deadLettered, discharged>>
groupVars  == <<log, committed, owner, pos, cur, pc,
                settled, deadLettered, discharged, faults>>

Message == [ev : Event, count : 0..MaxRetries]
NoRef   == <<>>
Step    == {"idle", "process", "failed", "commit", "error"}

(* References to the messages the broker holds. *)
Messages == UNION {{p} \X (1..Len(log[p])) : p \in Partition}

EventOf(m) == log[m[1]][m[2]].ev
RetryCount(m) == log[m[1]][m[2]].count

------------------------------------------------------------------------------
GroupTypeOK ==
  /\ log \in [Partition -> Seq(Message)]
  /\ committed \in [Partition -> Nat]
  /\ owner \in [Partition -> Worker]
  /\ pos \in [Partition -> Nat]
  /\ cur \in [Worker -> {NoRef} \cup (Partition \X Nat)]
  /\ pc \in [Worker -> Step]
  /\ settled \subseteq Event
  /\ deadLettered \subseteq Event
  /\ discharged \subseteq Partition \X Nat
  /\ faults \in 0..MaxFaults

GroupInit ==
  /\ log = [p \in Partition |->
              IF p \in Primary
              THEN [i \in 1..Len(Backlog[p]) |->
                      [ev |-> Backlog[p][i], count |-> 0]]
              ELSE <<>>]
  /\ committed = [p \in Partition |-> 0]
  /\ owner \in [Partition -> Worker]
  /\ pos = [p \in Partition |-> 0]
  /\ cur = [w \in Worker |-> NoRef]
  /\ pc = [w \in Worker |-> "idle"]
  /\ settled = {}
  /\ deadLettered = {}
  /\ discharged = {}
  /\ faults = 0

(* Every use of the environment's ill will is counted against MaxFaults. *)
Fault == faults < MaxFaults /\ faults' = faults + 1

Goto(w, step) == pc' = [pc EXCEPT ![w] = step]

(* Faulty variant: a reader takes over the position of the one before it. *)
RegroupKeepsPosition == owner' \in [Partition -> Worker] /\ UNCHANGED pos

(* A group generation ends: partitions are reassigned and every reader
   restarts from the committed offsets. *)
Regroup == owner' \in [Partition -> Worker] /\ pos' = committed

------------------------------------------------------------------------------
(* reader.FetchMessage: the next message of an assigned partition. *)
Fetch(w) ==
  /\ pc[w] = "idle"
  /\ \E p \in Partition :
       /\ owner[p] = w
       /\ pos[p] < Len(log[p])
       /\ pos' = [pos EXCEPT ![p] = @ + 1]
       /\ cur' = [cur EXCEPT ![w] = <<p, pos[p] + 1>>]
  /\ Goto(w, "process")
  /\ UNCHANGED <<log, committed, owner, settled, deadLettered, discharged, faults>>

(* inner returned nil: the wrapper passes the outcome through. *)
ProcessOk(w) ==
  /\ pc[w] = "process"
  /\ settled' = settled \cup {EventOf(cur[w])}
  /\ discharged' = discharged \cup {cur[w]}
  /\ Goto(w, "commit")
  /\ UNCHANGED <<log, committed, owner, pos, cur, deadLettered, faults>>

(* inner returned an error that the wrapper handles. *)
ProcessFails(w) ==
  /\ pc[w] = "process"
  /\ Goto(w, "failed")
  /\ UNCHANGED <<kafkaVars, cur, resultVars, faults>>

(* inner returned an error ShouldRetry rejects: propagated, nothing published. *)
ProcessUnavailable(w) ==
  /\ pc[w] = "process"
  /\ HasShouldRetry
  /\ Fault
  /\ Goto(w, "error")
  /\ UNCHANGED <<kafkaVars, cur, resultVars>>

Process(w) == ProcessOk(w) \/ ProcessFails(w)

(* The copy published to the retry topic carries the count plus one and no
   message key, so it can land on any of the topic's partitions. *)
PublishCopy(w) ==
  \E r \in Retry :
    log' = [log EXCEPT ![r] = Append(@, [ev    |-> EventOf(cur[w]),
                                         count |-> RetryCount(cur[w]) + 1])]

(* Faulty variant: one retry more than MaxRetries. *)
PublishRetryOnceMore(w) ==
  /\ pc[w] = "failed"
  /\ RetryCount(cur[w]) <= MaxRetries
  /\ PublishCopy(w)
  /\ discharged' = discharged \cup {cur[w]}
  /\ Goto(w, "commit")
  /\ UNCHANGED <<committed, owner, pos, cur, settled, deadLettered, faults>>

PublishRetry(w) ==
  /\ pc[w] = "failed"
  /\ RetryCount(cur[w]) < MaxRetries
  /\ PublishCopy(w)
  /\ discharged' = discharged \cup {cur[w]}
  /\ Goto(w, "commit")
  /\ UNCHANGED <<committed, owner, pos, cur, settled, deadLettered, faults>>

(* Faulty variant: the last retry is not granted. *)
PublishDLQEarly(w) ==
  /\ pc[w] = "failed"
  /\ RetryCount(cur[w]) + 1 >= MaxRetries
  /\ deadLettered' = deadLettered \cup {EventOf(cur[w])}
  /\ discharged' = discharged \cup {cur[w]}
  /\ Goto(w, "commit")
  /\ UNCHANGED <<kafkaVars, cur, settled, faults>>

PublishDLQ(w) ==
  /\ pc[w] = "failed"
  /\ RetryCount(cur[w]) >= MaxRetries
  /\ deadLettered' = deadLettered \cup {EventOf(cur[w])}
  /\ discharged' = discharged \cup {cur[w]}
  /\ Goto(w, "commit")
  /\ UNCHANGED <<kafkaVars, cur, settled, faults>>

(* Faulty variant: the error of the publication is logged, not returned. *)
PublishFailureIgnored(w) ==
  /\ pc[w] = "failed"
  /\ Fault
  /\ Goto(w, "commit")
  /\ UNCHANGED <<kafkaVars, cur, resultVars>>

(* producer.WriteMessages returned an error (or the context ended during the
   back-off); the broker may have kept the message all the same. *)
PublishFails(w) ==
  /\ pc[w] = "failed"
  /\ Fault
  /\ \/ UNCHANGED <<log, deadLettered>>
     \/ RetryCount(cur[w]) < MaxRetries /\ PublishCopy(w) /\ UNCHANGED deadLettered
     \/ /\ RetryCount(cur[w]) >= MaxRetries
        /\ deadLettered' = deadLettered \cup {EventOf(cur[w])}
        /\ UNCHANGED log
  /\ Goto(w, "error")
  /\ UNCHANGED <<committed, owner, pos, cur, settled, discharged>>

(* reader.CommitMessages: the broker stores the offset of whichever member
   sends it, even when the partition has meanwhile moved to another one. *)
StoreOffset(w) ==
  committed' = [committed EXCEPT ![cur[w][1]] = cur[w][2]]

Done(w) == cur' = [cur EXCEPT ![w] = NoRef] /\ Goto(w, "idle")

Commit(w) ==
  /\ pc[w] = "commit"
  /\ StoreOffset(w)
  /\ Done(w)
  /\ UNCHANGED <<log, owner, pos, resultVars, faults>>

CommitFails(w) ==
  /\ pc[w] = "commit"
  /\ Fault
  /\ StoreOffset(w) \/ UNCHANGED committed
  /\ Goto(w, "error")
  /\ UNCHANGED <<log, owner, pos, cur, resultVars>>

(* Faulty variant: the reader is kept whatever the service. *)
OnErrorKeepReader(w) ==
  /\ pc[w] = "error"
  /\ Done(w)
  /\ UNCHANGED <<kafkaVars, resultVars, faults>>

(* FetchAndProcess returned an error. embedding-worker closes its reader and
   opens a new one; the sinks log the error and fetch again. *)
OnError(w) ==
  /\ pc[w] = "error"
  /\ Done(w)
  /\ \/ RecreateReader /\ Regroup
     \/ ~RecreateReader /\ UNCHANGED <<owner, pos>>
  /\ UNCHANGED <<log, committed, resultVars, faults>>

(* The process dies while working on a message and is replaced. *)
Crash(w) ==
  /\ pc[w] # "idle"
  /\ Fault
  /\ Done(w)
  /\ Regroup
  /\ UNCHANGED <<log, committed, resultVars>>

(* Partitions move while messages are being processed. *)
Rebalance ==
  /\ Fault
  /\ Regroup
  /\ UNCHANGED <<log, committed, cur, pc, resultVars>>

(* Debezium restarts and publishes again something it had published. *)
CdcRedeliver ==
  /\ Fault
  /\ \E p \in Primary : \E i \in 1..Len(log[p]) :
       log' = [log EXCEPT ![p] = Append(@, log[p][i])]
  /\ UNCHANGED <<committed, owner, pos, cur, pc, resultVars>>

------------------------------------------------------------------------------
(* What a replica does by itself, its faults aside. *)
Cycle(w) ==
  \/ Fetch(w) \/ Process(w)
  \/ PublishRetry(w) \/ PublishDLQ(w)
  \/ Commit(w) \/ OnError(w)

WorkerFault(w) ==
  ProcessUnavailable(w) \/ PublishFails(w) \/ CommitFails(w) \/ Crash(w)

GroupNext ==
  \/ \E w \in Worker : Cycle(w) \/ WorkerFault(w)
  \/ Rebalance
  \/ CdcRedeliver

GroupSpec == GroupInit /\ [][GroupNext]_groupVars

(* A running replica keeps running its loop. *)
GroupFairSpec == GroupSpec /\ \A w \in Worker : WF_groupVars(Cycle(w))

------------------------------------------------------------------------------
Published(e) == \E m \in Messages : EventOf(m) = e
Handled == settled \cup deadLettered

(* Every message at or below a committed offset was settled, copied to the
   retry topic or dead-lettered: a commit never overtakes a message whose
   processing failed (embedding-worker run.go, MessageReader). *)
CommittedHandled ==
  \A p \in Partition : \A i \in 1..committed[p] : <<p, i>> \in discharged

(* No event is lost: each one published is settled, is in the DLQ, or will be
   delivered again because a copy of it lies above the committed offset. *)
NoEventLost ==
  \A e \in Event : Published(e) =>
    \/ e \in Handled
    \/ \E m \in Messages : EventOf(m) = e /\ m[2] > committed[m[1]]

(* Only an event that used up its whole retry budget is dead-lettered: there
   is a message of it for every retry count, each the copy of a failure. *)
DeadLetteredAfterRetries ==
  \A e \in deadLettered : \A c \in 0..MaxRetries :
    \E m \in Messages : EventOf(m) = e /\ RetryCount(m) = c

(* A published event is eventually settled or dead-lettered, even if its
   processing always fails: the retry budget ends every failure. *)
EventuallyHandled == \A e \in Event : Published(e) ~> (e \in Handled)

(* The group keeps the promise of AtLeastOnce: what is owed is what lies above
   the committed offsets, and offsets only ever pass what is handled. *)
Owed == {EventOf(m) : m \in {k \in Messages : k[2] > committed[k[1]]}}
Promised == INSTANCE AtLeastOnce WITH owed <- Owed, done <- Handled
PromiseSpec == Promised!Spec
============================================================================
