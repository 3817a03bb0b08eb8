-------------------------- MODULE IngestionRuntime -------------------------
(***************************************************************************)
(* The ingestion worker: a long-running consumer of file commands. While   *)
(* one command is fetched, parsed and persisted in a task of its own, the  *)
(* loop keeps polling Kafka to stay a member of the group: the assignment  *)
(* is paused, records that arrive all the same are buffered up to a limit  *)
(* and rewound beyond it, and a rebalance seen by a poll starts a new      *)
(* local epoch that disowns every record taken before it.                  *)
(*                                                                         *)
(* Rebalances are the broker's: it may give a partition to another worker  *)
(* before the old one polls, so that two workers process the same command. *)
(* What keeps that harmless is the receipt of a command, written in the    *)
(* transaction that writes the canonical rows and the outbox.              *)
(***************************************************************************)
EXTENDS Naturals, Sequences

CONSTANTS
  Worker,      \* replicas
  Partition,   \* partitions of eci.ingestion.file.v1
  Command,     \* commands as produced: payload, headers and key
  CommandId,   \* command_id values
  IdOf,        \* [Command -> CommandId]
  Backlog,     \* [Partition -> Seq(Command)]: what the producer has sent
  Rejected,    \* commands that fail authentication, the schema or the key check
  Unusable,    \* commands whose immutable source is missing, altered or unparsable
  BufferLimit, \* MAX_RETRY_BUFFERED_MESSAGES
  None,        \* no receipt
  MaxFaults    \* bound: faults of the environment in one behaviour

(* The key of a command that is not rejected is derived from its path, so that
   all its copies are in one partition. *)
ASSUME RuntimeAssumption ==
  /\ Worker # {}
  /\ IdOf \in [Command -> CommandId]
  /\ Backlog \in [Partition -> Seq(Command)]
  /\ \A p, q \in Partition : \A i \in 1..Len(Backlog[p]), j \in 1..Len(Backlog[q]) :
       Backlog[p][i] = Backlog[q][j] /\ Backlog[p][i] \notin Rejected => p = q
  /\ BufferLimit \in Nat \ {0}
  /\ None \notin Command
  /\ MaxFaults \in Nat

VARIABLES
  committed,  \* [Partition -> last committed offset]: broker
  generation, \* broker: generation of the consumer group
  owner,      \* [Partition -> Worker]: broker, assignment of that generation
  late,       \* commits that outlived their deadline: <<worker, partition, offset>>
  dlq,        \* records whose failure was published to the DLQ
  receipt,    \* [CommandId -> command, or None]: ingestion_command_receipt
  outbox,     \* commands in the order their transactions committed
  epoch,      \* [Worker -> generation of its last rebalance callback]
  assigned,   \* [Worker -> partitions, as its client knows them]
  paused,     \* [Worker -> partitions its client has paused]
  pos,        \* [Worker -> [Partition -> last offset its client returned]]
  buffer,     \* [Worker -> Seq(BufferedMessage)]
  cur,        \* [Worker -> the record being processed, or NoRecord]
  pc,         \* [Worker -> where the loop stands]
  stage,      \* [Worker -> where process_message stands]
  faults      \* faults so far

brokerVars == <<committed, generation, owner, late, dlq>>
dbVars     == <<receipt, outbox>>
clientVars == <<epoch, assigned, paused, pos>>
loopVars   == <<buffer, cur, pc, stage>>
vars       == <<brokerVars, dbVars, clientVars, loopVars, faults>>

Ref == UNION {{p} \X (1..Len(Backlog[p])) : p \in Partition}
Record == [ref : Ref, epoch : Nat]
NoRecord == [ref |-> <<>>, epoch |-> 0]
CommandAt(r) == Backlog[r[1]][r[2]]

RuntimeTypeOK ==
  /\ committed \in [Partition -> Nat]
  /\ generation \in Nat
  /\ owner \in [Partition -> Worker]
  /\ late \subseteq Worker \X Partition \X Nat
  /\ dlq \subseteq Ref
  /\ receipt \in [CommandId -> Command \cup {None}]
  /\ outbox \in Seq(Command)
  /\ epoch \in [Worker -> Nat]
  /\ assigned \in [Worker -> SUBSET Partition]
  /\ paused \in [Worker -> SUBSET Partition]
  /\ pos \in [Worker -> [Partition -> Nat]]
  /\ buffer \in [Worker -> Seq(Record)]
  /\ \A w \in Worker : Len(buffer[w]) <= BufferLimit
  /\ cur \in [Worker -> Record \cup {NoRecord}]
  /\ pc \in [Worker -> {"idle", "check", "process", "commit", "publish", "retry",
                        "backoff", "drain", "down"}]
  /\ stage \in [Worker -> {"preflight", "source", "persist"}]
  /\ faults \in 0..MaxFaults

Init ==
  /\ committed = [p \in Partition |-> 0]
  /\ generation = 1
  /\ owner \in [Partition -> Worker]
  /\ late = {}
  /\ dlq = {}
  /\ receipt = [id \in CommandId |-> None]
  /\ outbox = <<>>
  /\ epoch = [w \in Worker |-> 0]
  /\ assigned = [w \in Worker |-> {}]
  /\ paused = [w \in Worker |-> {}]
  /\ pos = [w \in Worker |-> [p \in Partition |-> 0]]
  /\ buffer = [w \in Worker |-> <<>>]
  /\ cur = [w \in Worker |-> NoRecord]
  /\ pc = [w \in Worker |-> "idle"]
  /\ stage = [w \in Worker |-> "preflight"]
  /\ faults = 0

Goto(w, step) == pc' = [pc EXCEPT ![w] = step]
Fault == faults < MaxFaults /\ faults' = faults + 1

(* record_is_owned *)
Owned(w, r) == r.epoch = epoch[w] /\ r.ref[1] \in assigned[w]

(* consumer.pause / consumer.resume on the whole assignment *)
PauseAll(w) == paused' = [paused EXCEPT ![w] = assigned[w]]
ResumeIfEmpty(w, buffered) ==
  paused' = [paused EXCEPT ![w] = IF buffered = <<>> THEN {} ELSE @]

------------------------------------------------------------------------------
(* Polling: at the top of the loop when nothing is buffered, beside the task
   that processes a command, and during the back-off. *)
Polls(w) ==
  \/ pc[w] = "idle" /\ buffer[w] = <<>>
  \/ pc[w] \in {"process", "backoff"}

(* A poll runs the rebalance callback: new epoch, new assignment, read from
   the committed offsets; nothing is paused any more. *)
JoinGeneration(w) ==
  /\ Polls(w)
  /\ epoch[w] # generation
  /\ epoch' = [epoch EXCEPT ![w] = generation]
  /\ assigned' = [assigned EXCEPT ![w] = {p \in Partition : owner[p] = w}]
  /\ pos' = [pos EXCEPT ![w] = committed]
  /\ paused' = [paused EXCEPT ![w] = {}]
  /\ UNCHANGED <<brokerVars, dbVars, loopVars, faults>>

Available(w, p) == p \in assigned[w] /\ pos[w][p] < Len(Backlog[p])
NextRecord(w, p) == [ref |-> <<p, pos[w][p] + 1>>, epoch |-> epoch[w]]
Advance(w, p) == pos' = [pos EXCEPT ![w][p] = @ + 1]

(* The loop takes a buffered record first, and polls only without one. *)
TakeBuffered(w) ==
  /\ pc[w] = "idle"
  /\ buffer[w] # <<>>
  /\ cur' = [cur EXCEPT ![w] = Head(buffer[w])]
  /\ buffer' = [buffer EXCEPT ![w] = Tail(@)]
  /\ PauseAll(w)
  /\ Goto(w, "check")
  /\ UNCHANGED <<brokerVars, dbVars, epoch, assigned, pos, stage, faults>>

Receive(w) ==
  /\ pc[w] = "idle"
  /\ buffer[w] = <<>>
  /\ \E p \in Partition \ paused[w] :
       /\ Available(w, p)
       /\ cur' = [cur EXCEPT ![w] = NextRecord(w, p)]
       /\ Advance(w, p)
  /\ PauseAll(w)
  /\ Goto(w, "check")
  /\ UNCHANGED <<brokerVars, dbVars, epoch, assigned, buffer, stage, faults>>

(* Faulty variant: at the limit the polled record is dropped. *)
DropBeyondLimit(w) ==
  /\ pc[w] \in {"process", "backoff"}
  /\ Len(buffer[w]) >= BufferLimit
  /\ \E p \in Partition : Available(w, p) /\ Advance(w, p)
  /\ PauseAll(w)
  /\ UNCHANGED <<brokerVars, dbVars, epoch, assigned, loopVars, faults>>

(* buffer_or_rewind_polled_message: a record polled during processing or
   back-off, of a new assignment or fetched before the pause. *)
Buffer(w) ==
  /\ pc[w] \in {"process", "backoff"}
  /\ Len(buffer[w]) < BufferLimit
  /\ \E p \in Partition :
       /\ Available(w, p)
       /\ buffer' = [buffer EXCEPT ![w] = Append(@, NextRecord(w, p))]
       /\ Advance(w, p)
  /\ PauseAll(w)
  /\ UNCHANGED <<brokerVars, dbVars, epoch, assigned, cur, pc, stage, faults>>

(* At the limit the record is sought back to: the next poll returns it again. *)
Rewind(w) ==
  /\ pc[w] \in {"process", "backoff"}
  /\ Len(buffer[w]) >= BufferLimit
  /\ \E p \in Partition : Available(w, p)
  /\ PauseAll(w)
  /\ UNCHANGED <<brokerVars, dbVars, epoch, assigned, pos, loopVars, faults>>

(* The seek fails: the worker leaves its loop, the task is only aborted. *)
RewindFails(w) ==
  /\ pc[w] \in {"process", "backoff"}
  /\ Len(buffer[w]) >= BufferLimit
  /\ \E p \in Partition : Available(w, p)
  /\ Fault
  /\ PauseAll(w)
  /\ Goto(w, IF pc[w] = "process" THEN "drain" ELSE "down")
  /\ UNCHANGED <<brokerVars, dbVars, epoch, assigned, pos, buffer, cur, stage>>

(* The head of the inner loop: the record is still owned. *)
Start(w) ==
  /\ pc[w] = "check"
  /\ Owned(w, cur[w])
  /\ stage' = [stage EXCEPT ![w] = "preflight"]
  /\ Goto(w, "process")
  /\ UNCHANGED <<brokerVars, dbVars, clientVars, buffer, cur, faults>>

(* retain_owned_records. The poll that changes the epoch disowns the whole
   buffer, and what is buffered after it is owned: a suffix is retained. *)
RetainOwned(w) ==
  LET revoked == CHOOSE n \in 0..Len(buffer[w]) :
                   \A k \in 1..Len(buffer[w]) : Owned(w, buffer[w][k]) <=> k > n
  IN  SubSeq(buffer[w], revoked + 1, Len(buffer[w]))

(* Faulty variant: the assignment stays paused. *)
AbandonPaused(w) ==
  /\ pc[w] \in {"check", "commit", "publish", "retry"}
  /\ ~Owned(w, cur[w])
  /\ buffer' = [buffer EXCEPT ![w] = RetainOwned(w)]
  /\ cur' = [cur EXCEPT ![w] = NoRecord]
  /\ Goto(w, "idle")
  /\ UNCHANGED <<brokerVars, dbVars, clientVars, stage, faults>>

(* The record was revoked: found before processing, after it, and after the
   publication of its failure. Revoked records leave the buffer too. *)
Abandon(w) ==
  /\ pc[w] \in {"check", "commit", "publish", "retry"}
  /\ ~Owned(w, cur[w])
  /\ buffer' = [buffer EXCEPT ![w] = RetainOwned(w)]
  /\ ResumeIfEmpty(w, buffer'[w])
  /\ cur' = [cur EXCEPT ![w] = NoRecord]
  /\ Goto(w, "idle")
  /\ UNCHANGED <<brokerVars, dbVars, epoch, assigned, pos, stage, faults>>

------------------------------------------------------------------------------
(* process_message, a task that the loop waits for ("process") or, when it is
   leaving, only gives some time ("drain"). *)
Command_(w) == CommandAt(cur[w].ref)
Processing(w, s) == pc[w] \in {"process", "drain"} /\ stage[w] = s

(* The task ends with an action; a loop that drains takes none. *)
Result(w, step) ==
  /\ Goto(w, IF pc[w] = "drain" THEN "down" ELSE step)
  /\ UNCHANGED stage
Continue(w, s) ==
  /\ stage' = [stage EXCEPT ![w] = s]
  /\ UNCHANGED pc

(* parse_authenticated_command and the key check, then the receipt lookup. *)
Preflight(w) ==
  LET c == Command_(w)
      r == receipt[IdOf[c]]
  IN /\ Processing(w, "preflight")
     /\ \/ c \in Rejected /\ Result(w, "publish")
        \/ c \notin Rejected /\ r = c /\ Result(w, "commit")
        \/ c \notin Rejected /\ r \notin {None, c} /\ Result(w, "publish")
        \/ c \notin Rejected /\ r = None /\ Continue(w, "source")
     /\ UNCHANGED <<brokerVars, dbVars, clientVars, buffer, cur, faults>>

(* fetch_source, validate_source_text, parse and parsed_command_data_is_valid. *)
FetchAndParse(w) ==
  /\ Processing(w, "source")
  /\ \/ Command_(w) \in Unusable /\ Result(w, "publish")
     \/ Command_(w) \notin Unusable /\ Continue(w, "persist")
  /\ UNCHANGED <<brokerVars, dbVars, clientVars, buffer, cur, faults>>

(* Faulty variant: the receipt lookup of the preflight is relied on. *)
ApplyUnlocked(c) ==
  /\ receipt' = [receipt EXCEPT ![IdOf[c]] = c]
  /\ outbox' = Append(outbox, c)

(* The transaction that takes the command id's lock and finds no receipt. *)
ApplyCommand(c) ==
  /\ receipt[IdOf[c]] = None
  /\ receipt' = [receipt EXCEPT ![IdOf[c]] = c]
  /\ outbox' = Append(outbox, c)

(* persist_ingestion_command *)
Persist(w) ==
  LET c == Command_(w)
      r == receipt[IdOf[c]]
  IN /\ Processing(w, "persist")
     /\ \/ ApplyCommand(c) /\ Result(w, "commit")
        \/ r = c /\ Result(w, "commit") /\ UNCHANGED dbVars
        \/ r \notin {None, c} /\ Result(w, "publish") /\ UNCHANGED dbVars
     /\ UNCHANGED <<brokerVars, clientVars, buffer, cur, faults>>

(* Faulty variant: an unavailable dependency is taken for a permanent error. *)
TaskFailureIsPermanent(w) ==
  /\ pc[w] \in {"process", "drain"}
  /\ Command_(w) \notin Rejected
  /\ Fault
  /\ Result(w, "publish")
  /\ UNCHANGED <<brokerVars, dbVars, clientVars, buffer, cur>>

(* PostgreSQL or MinIO is unavailable, or the answer to COMMIT is lost. *)
TaskFails(w) ==
  /\ pc[w] \in {"process", "drain"}
  /\ Command_(w) \notin Rejected
  /\ Fault
  /\ \/ UNCHANGED dbVars
     \/ stage[w] = "persist" /\ ApplyCommand(Command_(w))
  /\ Result(w, "retry")
  /\ UNCHANGED <<brokerVars, clientVars, buffer, cur>>

------------------------------------------------------------------------------
(* ProcessAction::Dlq *)
PublishDlq(w) ==
  /\ pc[w] = "publish"
  /\ Owned(w, cur[w])
  /\ dlq' = dlq \cup {cur[w].ref}
  /\ Goto(w, "commit")
  /\ UNCHANGED <<committed, generation, owner, late, dbVars, clientVars, buffer,
                 cur, stage, faults>>

(* Faulty variant: the failed publication is counted and the offset committed. *)
PublishFailureCommits(w) ==
  /\ pc[w] = "publish"
  /\ Owned(w, cur[w])
  /\ Fault
  /\ Goto(w, "commit")
  /\ UNCHANGED <<brokerVars, dbVars, clientVars, buffer, cur, stage>>

PublishFails(w) ==
  /\ pc[w] = "publish"
  /\ Owned(w, cur[w])
  /\ Fault
  /\ dlq' = dlq \/ dlq' = dlq \cup {cur[w].ref}
  /\ Goto(w, "backoff")
  /\ UNCHANGED <<committed, generation, owner, late, dbVars, clientVars, buffer,
                 cur, stage>>

StoreOffset(p, o) == committed' = [committed EXCEPT ![p] = o]

(* commit_message_offset succeeds: the broker takes the commits of members of
   its current generation. *)
CommitOffset(w) ==
  /\ pc[w] = "commit"
  /\ Owned(w, cur[w])
  /\ epoch[w] = generation
  /\ StoreOffset(cur[w].ref[1], cur[w].ref[2])
  /\ ResumeIfEmpty(w, buffer[w])
  /\ cur' = [cur EXCEPT ![w] = NoRecord]
  /\ Goto(w, "idle")
  /\ UNCHANGED <<generation, owner, late, dlq, dbVars, epoch, assigned, pos,
                 buffer, stage, faults>>

(* The broker has moved on to a generation the worker has not seen. *)
CommitRefused(w) ==
  /\ pc[w] = "commit"
  /\ Owned(w, cur[w])
  /\ epoch[w] # generation
  /\ Goto(w, "backoff")
  /\ UNCHANGED <<brokerVars, dbVars, clientVars, buffer, cur, stage, faults>>

(* The commit misses its deadline. The client may still send it, now or when a
   coordinator answers again; the broker does not ask who owns the partition. *)
CommitTimesOut(w) ==
  /\ pc[w] = "commit"
  /\ Owned(w, cur[w])
  /\ Fault
  /\ late' = late \cup {<<w, cur[w].ref[1], cur[w].ref[2]>>}
  /\ Goto(w, "backoff")
  /\ UNCHANGED <<committed, generation, owner, dlq, dbVars, clientVars, buffer,
                 cur, stage>>

LateCommit ==
  /\ \E l \in late : StoreOffset(l[2], l[3]) /\ late' = late \ {l}
  /\ UNCHANGED <<generation, owner, dlq, dbVars, clientVars, loopVars, faults>>

(* ProcessAction::Retry *)
Retry(w) ==
  /\ pc[w] = "retry"
  /\ Owned(w, cur[w])
  /\ Goto(w, "backoff")
  /\ UNCHANGED <<brokerVars, dbVars, clientVars, buffer, cur, stage, faults>>

BackoffElapsed(w) ==
  /\ pc[w] = "backoff"
  /\ Goto(w, "check")
  /\ UNCHANGED <<brokerVars, dbVars, clientVars, buffer, cur, stage, faults>>

------------------------------------------------------------------------------
(* A new generation of the group: any assignment. *)
Regroup ==
  /\ generation' = generation + 1
  /\ owner' \in [Partition -> Worker]

(* Members come and go, or miss their heartbeats while they work. *)
Rebalance ==
  /\ Fault
  /\ Regroup
  /\ UNCHANGED <<committed, late, dlq, dbVars, clientVars, loopVars>>

(* SIGTERM, seen wherever the loop looks at the shutdown channel. *)
Shutdown(w) ==
  /\ pc[w] \in {"idle", "process", "commit", "publish", "backoff"}
  /\ Fault
  /\ Goto(w, IF pc[w] = "process" THEN "drain" ELSE "down")
  /\ UNCHANGED <<brokerVars, dbVars, clientVars, buffer, cur, stage>>

(* The drain deadline: the task is cut off. *)
DrainTimesOut(w) ==
  /\ pc[w] = "drain"
  /\ Goto(w, "down")
  /\ UNCHANGED <<brokerVars, dbVars, clientVars, buffer, cur, stage, faults>>

(* A new process takes the place of the old one. *)
Replace(w) ==
  /\ Regroup
  /\ late' = {l \in late : l[1] # w}
  /\ epoch' = [epoch EXCEPT ![w] = 0]
  /\ assigned' = [assigned EXCEPT ![w] = {}]
  /\ paused' = [paused EXCEPT ![w] = {}]
  /\ pos' = [pos EXCEPT ![w] = [p \in Partition |-> 0]]
  /\ buffer' = [buffer EXCEPT ![w] = <<>>]
  /\ cur' = [cur EXCEPT ![w] = NoRecord]
  /\ Goto(w, "idle")
  /\ UNCHANGED <<committed, dlq, dbVars, stage>>

Restart(w) == pc[w] = "down" /\ Replace(w) /\ UNCHANGED faults

Crash(w) == pc[w] \notin {"idle", "down"} /\ Fault /\ Replace(w)

(* What a worker does by itself, its faults aside. *)
Loop(w) ==
  \/ JoinGeneration(w) \/ TakeBuffered(w) \/ Receive(w) \/ Start(w) \/ Abandon(w)
  \/ Preflight(w) \/ FetchAndParse(w) \/ Persist(w)
  \/ PublishDlq(w) \/ CommitOffset(w) \/ CommitRefused(w)
  \/ Retry(w) \/ BackoffElapsed(w)
  \/ DrainTimesOut(w) \/ Restart(w)

Next ==
  \/ \E w \in Worker :
       \/ Loop(w)
       \/ Buffer(w) \/ Rewind(w) \/ RewindFails(w)
       \/ TaskFails(w) \/ PublishFails(w) \/ CommitTimesOut(w)
       \/ Shutdown(w) \/ Crash(w)
  \/ LateCommit
  \/ Rebalance

Spec == Init /\ [][Next]_vars

(* A running worker keeps running its loop, and its polls, one beside every
   command and every back-off, run the rebalance callback. *)
FairSpec ==
  /\ Spec
  /\ \A w \in Worker : WF_vars(Loop(w)) /\ SF_vars(JoinGeneration(w))

------------------------------------------------------------------------------
(* A record is handled: its command has its receipt, or its failure is in the
   DLQ. *)
Handled(p, i) ==
  \/ receipt[IdOf[Backlog[p][i]]] = Backlog[p][i]
  \/ <<p, i>> \in dlq

Outstanding(w) ==
  {r \in {cur[w]} \cup {buffer[w][k] : k \in 1..Len(buffer[w])} : Owned(w, r)}

(* An offset is committed only after the canonical transaction or the failure
   envelope of every record it passes (ADR-0023). *)
CommittedHandled ==
  \A p \in Partition : \A i \in 1..committed[p] : Handled(p, i)

(* What a client has returned for a partition it was assigned is handled, being
   processed, or in the buffer: pausing, buffering at the limit, seeking back
   and rebalances skip no record. *)
NothingSkipped ==
  \A w \in Worker : \A p \in assigned[w] : \A i \in 1..pos[w][p] :
    Handled(p, i) \/ \E r \in Outstanding(w) : r.ref = <<p, i>>

(* One command id is applied once, whatever workers hold it at the same time:
   a redelivery adds no row to the outbox (SPEC-067 section 3, scenario 2). *)
AppliedOnce ==
  \A i, j \in 1..Len(outbox) : IdOf[outbox[i]] = IdOf[outbox[j]] => i = j

(* Commands of one partition, so those of one path, are applied in the order
   they were produced, even by a worker whose partition was revoked while it
   worked: an old version of a file never replaces a newer one. *)
Sent(p, c) == \E i \in 1..Len(Backlog[p]) : Backlog[p][i] = c
SentBefore(p, n, c) == \E i \in 1..(n - 1) : Backlog[p][i] = c
AppliedInOrder ==
  \A p \in Partition : \A i, j \in 1..Len(outbox) :
    i < j /\ Sent(p, outbox[i]) =>
      \A n \in 1..Len(Backlog[p]) :
        Backlog[p][n] = outbox[j] => SentBefore(p, n, outbox[i])

(* Every record is eventually handled: no pause outlives its reason, no zombie
   keeps a partition, no retry goes on for ever once faults stop. *)
EventuallyHandled == \A r \in Ref : <>Handled(r[1], r[2])

(* The worker pool keeps the promise of AtLeastOnce for the commands sent. *)
Owed == {CommandAt(r) : r \in {k \in Ref : k[2] > committed[k[1]]}}
Done == {c \in Command : receipt[IdOf[c]] = c} \cup {CommandAt(r) : r \in dlq}
Promised == INSTANCE AtLeastOnce WITH Event <- Command, owed <- Owed, done <- Done
PromiseSpec == Promised!Spec
============================================================================
