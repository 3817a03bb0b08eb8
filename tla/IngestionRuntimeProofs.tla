----------------------- MODULE IngestionRuntimeProofs ----------------------
(***************************************************************************)
(* What is proved of the ingestion worker pool, for every number of        *)
(* workers, partitions and commands, every backlog and every buffer limit. *)
(***************************************************************************)
EXTENDS IngestionRuntime, TLAPS

(* The steps in which the loop has a record in hand. *)
InHand == {"check", "process", "commit", "publish", "retry", "backoff", "drain"}

RecordInv ==
  \A w \in Worker :
    /\ pc[w] \in InHand => cur[w] \in Record
    /\ pc[w] = "idle" => cur[w] = NoRecord

TypeInv == RuntimeTypeOK /\ RecordInv

(* Epochs are generations the worker has seen; a record carries one of them. *)
EpochOK(w) ==
  /\ epoch[w] <= generation
  /\ cur[w].epoch <= epoch[w]
  /\ \A k \in 1..Len(buffer[w]) : buffer[w][k].epoch <= epoch[w]

(* The records a buffer still owns are its last ones. *)
OwnedSuffix(w, n) ==
  \A k \in 1..Len(buffer[w]) : Owned(w, buffer[w][k]) <=> k > n
SuffixOK(w) == \E n \in 0..Len(buffer[w]) : OwnedSuffix(w, n)

(* Owned records of one partition are in hand in the order of their offsets,
   and the client has returned them. *)
SamePartition(r, s) == r.ref[1] = s.ref[1]
Returned(w, r) == r.ref[2] <= pos[w][r.ref[1]]
BufferOrdered(w) ==
  /\ \A k \in 1..Len(buffer[w]) : Owned(w, buffer[w][k]) => Returned(w, buffer[w][k])
  /\ \A k, l \in 1..Len(buffer[w]) :
       k < l /\ Owned(w, buffer[w][k]) /\ Owned(w, buffer[w][l])
             /\ SamePartition(buffer[w][k], buffer[w][l])
         => buffer[w][k].ref[2] < buffer[w][l].ref[2]
CurBeforeBuffer(w) ==
  pc[w] \in InHand /\ Owned(w, cur[w]) =>
    /\ Returned(w, cur[w])
    /\ \A k \in 1..Len(buffer[w]) :
         Owned(w, buffer[w][k]) /\ SamePartition(cur[w], buffer[w][k])
           => cur[w].ref[2] < buffer[w][k].ref[2]

(* NothingSkipped, for one worker. *)
InClient(w, p, i) ==
  \/ cur[w].ref = <<p, i>> /\ Owned(w, cur[w])
  \/ \E k \in 1..Len(buffer[w]) : buffer[w][k].ref = <<p, i>> /\ Owned(w, buffer[w][k])
SkipsNothing(w) ==
  \A p \in assigned[w] : \A i \in 1..pos[w][p] :
    i \in 1..Len(Backlog[p]) /\ (Handled(p, i) \/ InClient(w, p, i))

ClientOK(w) ==
  EpochOK(w) /\ SuffixOK(w) /\ BufferOrdered(w) /\ CurBeforeBuffer(w) /\ SkipsNothing(w)
ClientInv == \A w \in Worker : ClientOK(w)

(* Everything before offset n of p is handled. *)
Prefix(p, n) == \A i \in 1..Len(Backlog[p]) : i < n => Handled(p, i)

(* A worker starts a command only when all before it are handled. *)
Ready(w) == pc[w] \in InHand /\ (pc[w] = "check" => Owned(w, cur[w]))
PrefixInv == \A w \in Worker : Ready(w) => Prefix(cur[w].ref[1], cur[w].ref[2])

(* A record is dead-lettered for a reason that lasts. *)
Justified(r) ==
  \/ CommandAt(r) \in Rejected \cup Unusable
  \/ receipt[IdOf[CommandAt(r)]] # None

(* Where a command has got to. *)
ResultOK(w) ==
  /\ pc[w] = "commit" => Handled(cur[w].ref[1], cur[w].ref[2])
  /\ pc[w] = "publish" => Justified(cur[w].ref)
  /\ pc[w] \in {"process", "drain"} /\ stage[w] # "preflight" =>
       CommandAt(cur[w].ref) \notin Rejected
  /\ pc[w] \in {"process", "drain"} /\ stage[w] = "persist" =>
       CommandAt(cur[w].ref) \notin Unusable
ResultInv == \A w \in Worker : ResultOK(w)

LateInv == \A l \in late : \A i \in 1..l[3] : i \in 1..Len(Backlog[l[2]]) /\ Handled(l[2], i)
CommittedInv ==
  \A p \in Partition : \A i \in 1..committed[p] : i \in 1..Len(Backlog[p]) /\ Handled(p, i)
DlqInv == \A r \in dlq : Justified(r)

(* What the outbox holds has its receipt, is usable, and was applied when all
   before one of its records was handled. *)
OutboxInv ==
  \A i \in 1..Len(outbox) :
    /\ receipt[IdOf[outbox[i]]] = outbox[i]
    /\ outbox[i] \notin Rejected
    /\ \E p \in Partition : \E n \in 1..Len(Backlog[p]) :
         Backlog[p][n] = outbox[i] /\ Prefix(p, n)

SafetyInv ==
  /\ TypeInv /\ ClientInv /\ PrefixInv /\ ResultInv
  /\ LateInv /\ CommittedInv /\ DlqInv
  /\ OutboxInv /\ AppliedOnce /\ AppliedInOrder

------------------------------------------------------------------------------
LEMMA RefShape ==
  ASSUME NEW r \in Ref
  PROVE  /\ r[1] \in Partition
         /\ r[2] \in 1..Len(Backlog[r[1]])
         /\ r[2] \in Nat
         /\ r = <<r[1], r[2]>>
         /\ CommandAt(r) \in Command
<1>1. PICK p \in Partition : r \in {p} \X (1..Len(Backlog[p]))
  BY DEF Ref
<1>2. r[1] = p /\ r[2] \in 1..Len(Backlog[p]) /\ r = <<r[1], r[2]>>
  BY <1>1
<1>3. Backlog[p] \in Seq(Command)
  BY RuntimeAssumption DEF RuntimeAssumption
<1> QED
  BY <1>2, <1>3 DEF CommandAt

LEMMA RefOfIndex ==
  ASSUME NEW p \in Partition, NEW i \in 1..Len(Backlog[p])
  PROVE  <<p, i>> \in Ref /\ CommandAt(<<p, i>>) = Backlog[p][i] /\ Backlog[p][i] \in Command
<1>1. Backlog[p] \in Seq(Command)
  BY RuntimeAssumption DEF RuntimeAssumption
<1> QED
  BY <1>1 DEF Ref, CommandAt

(* The command in hand. *)
LEMMA InHandShape ==
  ASSUME TypeInv, NEW w \in Worker, pc[w] \in InHand
  PROVE  /\ cur[w] \in Record
         /\ cur[w].ref \in Ref
         /\ cur[w].epoch \in Nat
         /\ cur[w].ref[1] \in Partition
         /\ cur[w].ref[2] \in 1..Len(Backlog[cur[w].ref[1]])
         /\ cur[w].ref[2] \in Nat
         /\ cur[w].ref = <<cur[w].ref[1], cur[w].ref[2]>>
         /\ Command_(w) = CommandAt(cur[w].ref)
         /\ Command_(w) = Backlog[cur[w].ref[1]][cur[w].ref[2]]
         /\ Command_(w) \in Command
<1>1. cur[w] \in Record
  BY DEF TypeInv, RecordInv
<1>2. cur[w].ref \in Ref /\ cur[w].epoch \in Nat
  BY <1>1 DEF Record
<1> QED
  BY <1>1, <1>2, RefShape DEF Command_, CommandAt

(* The record the client of w returns next for p. *)
LEMMA NextShape ==
  ASSUME TypeInv, NEW w \in Worker, NEW p \in Partition, Available(w, p)
  PROVE  /\ NextRecord(w, p) \in Record
         /\ NextRecord(w, p).ref = <<p, pos[w][p] + 1>>
         /\ NextRecord(w, p).epoch = epoch[w]
         /\ Owned(w, NextRecord(w, p))
         /\ pos[w][p] + 1 \in 1..Len(Backlog[p])
<1>1. pos[w][p] \in Nat /\ epoch[w] \in Nat
  BY DEF TypeInv, RuntimeTypeOK
<1>2. Len(Backlog[p]) \in Nat
  BY RuntimeAssumption DEF RuntimeAssumption
<1>3. pos[w][p] + 1 \in 1..Len(Backlog[p])
  BY <1>1, <1>2 DEF Available
<1>4. <<p, pos[w][p] + 1>> \in Ref
  BY <1>3, RefOfIndex
<1> QED
  BY <1>1, <1>3, <1>4 DEF NextRecord, Record, Owned, Available

(* What retain_owned_records keeps. *)
LEMMA RetainShape ==
  ASSUME TypeInv, NEW w \in Worker, NEW n \in 0..Len(buffer[w]), OwnedSuffix(w, n)
  PROVE  /\ RetainOwned(w) \in Seq(Record)
         /\ Len(RetainOwned(w)) = Len(buffer[w]) - n
         /\ \A k \in 1..(Len(buffer[w]) - n) : RetainOwned(w)[k] = buffer[w][n + k]
<1> DEFINE Good(m) == \A k \in 1..Len(buffer[w]) : Owned(w, buffer[w][k]) <=> k > m
           m == CHOOSE m \in 0..Len(buffer[w]) : Good(m)
<1>1. buffer[w] \in Seq(Record) /\ Len(buffer[w]) \in Nat
  BY DEF TypeInv, RuntimeTypeOK
<1>2. Good(n)
  BY DEF OwnedSuffix
<1>3. m \in 0..Len(buffer[w]) /\ Good(m)
  BY <1>2
<1>4. m = n
  <2>1. ~(m < n)
    <3> SUFFICES ASSUME m < n PROVE FALSE
      OBVIOUS
    <3>1. n \in 1..Len(buffer[w]) /\ n > m /\ ~(n > n)
      BY <1>1, <1>3
    <3> QED
      BY <1>2, <1>3, <3>1
  <2>2. ~(n < m)
    <3> SUFFICES ASSUME n < m PROVE FALSE
      OBVIOUS
    <3>1. m \in 1..Len(buffer[w]) /\ m > n /\ ~(m > m)
      BY <1>1, <1>3
    <3> QED
      BY <1>2, <1>3, <3>1
  <2> QED
    BY <1>1, <1>3, <2>1, <2>2
<1>5. RetainOwned(w) = SubSeq(buffer[w], n + 1, Len(buffer[w]))
  BY <1>4 DEF RetainOwned
<1> QED
  BY <1>1, <1>5

------------------------------------------------------------------------------
LEMMA Bounds ==
  /\ BufferLimit \in Nat /\ BufferLimit > 0 /\ MaxFaults \in Nat
  /\ IdOf \in [Command -> CommandId]
BY RuntimeAssumption DEF RuntimeAssumption

LEMMA FaultType ==
  ASSUME TypeInv, Fault
  PROVE  faults' \in 0..MaxFaults
BY Bounds DEF TypeInv, RuntimeTypeOK, Fault

LEMMA TypeInit == Init => TypeInv
<1> SUFFICES ASSUME Init PROVE TypeInv
  OBVIOUS
<1>1. RuntimeTypeOK
  BY RuntimeAssumption DEF Init, RuntimeTypeOK, RuntimeAssumption, NoRecord
<1>2. RecordInv
  BY DEF Init, RecordInv, InHand
<1> QED
  BY <1>1, <1>2 DEF TypeInv

(* Steps that move only the loop and the task of a worker. *)
LEMMA TypeLocal ==
  ASSUME TypeInv, NEW w \in Worker,
         \/ Start(w) \/ Preflight(w) \/ FetchAndParse(w)
         \/ CommitRefused(w) \/ Retry(w) \/ BackoffElapsed(w) \/ DrainTimesOut(w)
         \/ Shutdown(w) \/ RewindFails(w) \/ Rewind(w)
  PROVE  TypeInv'
<1> USE DEF TypeInv, RuntimeTypeOK, RecordInv, InHand, brokerVars, dbVars, clientVars,
        loopVars, Goto, Result, Continue
<1>1. CASE Start(w)
  BY <1>1 DEF Start
<1>2. CASE Preflight(w)
  BY <1>2 DEF Preflight, Processing
<1>3. CASE FetchAndParse(w)
  BY <1>3 DEF FetchAndParse, Processing
<1>4. CASE CommitRefused(w)
  BY <1>4 DEF CommitRefused
<1>5. CASE Retry(w)
  BY <1>5 DEF Retry
<1>6. CASE BackoffElapsed(w)
  BY <1>6 DEF BackoffElapsed
<1>7. CASE DrainTimesOut(w)
  BY <1>7 DEF DrainTimesOut
<1>8. CASE Shutdown(w)
  BY <1>8, FaultType DEF Shutdown
<1>9. CASE RewindFails(w)
  BY <1>9, FaultType DEF RewindFails, PauseAll
<1>10. CASE Rewind(w)
  BY <1>10 DEF Rewind, PauseAll
<1> QED
  BY <1>1, <1>2, <1>3, <1>4, <1>5, <1>6, <1>7, <1>8, <1>9, <1>10

(* Steps that write receipts, the DLQ or offsets. *)
LEMMA TypeStore ==
  ASSUME TypeInv, NEW w \in Worker,
         \/ Persist(w) \/ TaskFails(w) \/ PublishDlq(w) \/ PublishFails(w)
         \/ CommitOffset(w) \/ CommitTimesOut(w)
  PROVE  TypeInv'
<1>1. ASSUME pc[w] \in {"process", "drain"}, ApplyCommand(Command_(w))
      PROVE  receipt' \in [CommandId -> Command \cup {None}] /\ outbox' \in Seq(Command)
  <2>1. Command_(w) \in Command
    BY <1>1, InHandShape DEF InHand
  <2> QED
    BY <1>1, <2>1, Bounds DEF TypeInv, RuntimeTypeOK, ApplyCommand
<1>2. pc[w] \in InHand
  BY DEF Persist, TaskFails, PublishDlq, PublishFails, CommitOffset, CommitTimesOut,
         Processing, InHand
<1>3. /\ cur[w].ref \in Ref /\ cur[w].ref[1] \in Partition /\ cur[w].ref[2] \in Nat
      /\ cur[w] \in Record
  BY <1>2, InHandShape
<1> USE DEF TypeInv, RuntimeTypeOK, RecordInv, InHand, brokerVars, dbVars, clientVars,
        loopVars, Goto, Result
<1>4. CASE Persist(w)
  BY <1>4, <1>1 DEF Persist, Processing
<1>5. CASE TaskFails(w)
  BY <1>5, <1>1, FaultType DEF TaskFails
<1>6. CASE PublishDlq(w)
  BY <1>6, <1>3 DEF PublishDlq
<1>7. CASE PublishFails(w)
  BY <1>7, <1>3, FaultType DEF PublishFails
<1>8. CASE CommitOffset(w)
  BY <1>8, <1>3 DEF CommitOffset, StoreOffset, ResumeIfEmpty
<1>9. CASE CommitTimesOut(w)
  <2>1. faults' \in 0..MaxFaults
    BY <1>9, FaultType DEF CommitTimesOut
  <2>2. late' \subseteq Worker \X Partition \X Nat
    BY <1>9, <1>3 DEF CommitTimesOut
  <2> QED
    BY <1>9, <1>3, <2>1, <2>2 DEF CommitTimesOut
<1> QED
  BY <1>4, <1>5, <1>6, <1>7, <1>8, <1>9

(* Steps that take records from Kafka or give them up. *)
LEMMA TypeClient ==
  ASSUME TypeInv, ClientInv, NEW w \in Worker,
         \/ JoinGeneration(w) \/ TakeBuffered(w) \/ Receive(w) \/ Buffer(w)
         \/ Abandon(w)
  PROVE  TypeInv'
<1> USE DEF TypeInv, RuntimeTypeOK, RecordInv, brokerVars, dbVars, clientVars,
        loopVars, Goto
<1>1. CASE JoinGeneration(w)
  BY <1>1 DEF JoinGeneration
<1>2. CASE TakeBuffered(w)
  <2>1. /\ Head(buffer[w]) \in Record
        /\ Tail(buffer[w]) \in Seq(Record)
        /\ Len(Tail(buffer[w])) <= BufferLimit
    BY <1>2, Bounds DEF TakeBuffered
  <2> QED
    BY <1>2, <2>1 DEF TakeBuffered, PauseAll, InHand
<1>3. CASE Receive(w)
  <2>1. PICK p \in Partition : /\ Available(w, p)
                               /\ cur' = [cur EXCEPT ![w] = NextRecord(w, p)]
                               /\ Advance(w, p)
    BY <1>3 DEF Receive
  <2>2. NextRecord(w, p) \in Record
    BY <2>1, NextShape
  <2>3. pos' \in [Worker -> [Partition -> Nat]]
    BY <2>1 DEF Advance
  <2> HIDE DEF NextRecord
  <2> QED
    BY <1>3, <2>1, <2>2, <2>3 DEF Receive, PauseAll, InHand
<1>4. CASE Buffer(w)
  <2>1. PICK p \in Partition : /\ Available(w, p)
                               /\ buffer' = [buffer EXCEPT ![w] = Append(@, NextRecord(w, p))]
                               /\ Advance(w, p)
    BY <1>4 DEF Buffer
  <2>2. NextRecord(w, p) \in Record
    BY <2>1, NextShape
  <2>3. /\ Append(buffer[w], NextRecord(w, p)) \in Seq(Record)
        /\ Len(Append(buffer[w], NextRecord(w, p))) <= BufferLimit
    BY <1>4, <2>2, Bounds DEF Buffer
  <2>4. pos' \in [Worker -> [Partition -> Nat]]
    BY <2>1 DEF Advance
  <2> HIDE DEF NextRecord
  <2> QED
    BY <1>4, <2>1, <2>3, <2>4 DEF Buffer, PauseAll, InHand
<1>5. CASE Abandon(w)
  <2>1. PICK n \in 0..Len(buffer[w]) : OwnedSuffix(w, n)
    BY DEF ClientInv, ClientOK, SuffixOK
  <2>2. RetainOwned(w) \in Seq(Record) /\ Len(RetainOwned(w)) = Len(buffer[w]) - n
    BY <2>1, RetainShape
  <2>3. Len(buffer[w]) \in Nat /\ Len(buffer[w]) <= BufferLimit
    OBVIOUS
  <2>4. Len(RetainOwned(w)) <= BufferLimit
    BY <2>2, <2>3, Bounds
  <2> QED
    BY <1>5, <2>2, <2>4 DEF Abandon, ResumeIfEmpty, InHand
<1> QED
  BY <1>1, <1>2, <1>3, <1>4, <1>5

(* Steps of the broker, and new processes. *)
LEMMA TypeGroup ==
  ASSUME TypeInv,
         \/ LateCommit \/ Rebalance
         \/ \E w \in Worker : Restart(w) \/ Crash(w)
         \/ UNCHANGED vars
  PROVE  TypeInv'
<1> USE DEF TypeInv, RuntimeTypeOK, RecordInv, brokerVars, dbVars, clientVars,
        loopVars, Goto, InHand
<1>1. CASE LateCommit
  <2>1. PICK l \in late : StoreOffset(l[2], l[3]) /\ late' = late \ {l}
    BY <1>1 DEF LateCommit
  <2>2. l[2] \in Partition /\ l[3] \in Nat
    OBVIOUS
  <2> QED
    BY <1>1, <2>1, <2>2 DEF LateCommit, StoreOffset
<1>2. CASE Rebalance
  <2>1. Fault /\ Regroup
    BY <1>2 DEF Rebalance
  <2>2. faults' \in 0..MaxFaults
    BY <2>1, FaultType
  <2>3. generation \in Nat
    OBVIOUS
  <2>4. generation' \in Nat
    BY <2>1, <2>3 DEF Regroup
  <2> QED
    BY <1>2, <2>2, <2>4 DEF Rebalance, Regroup
<1>3. ASSUME NEW w \in Worker, Replace(w), faults' \in 0..MaxFaults
      PROVE  TypeInv'
  <2>1. <<>> \in Seq(Record) /\ Len(<<>>) <= BufferLimit
    BY Bounds
  <2>2. buffer' \in [Worker -> Seq(Record)] /\ \A v \in Worker : Len(buffer'[v]) <= BufferLimit
    BY <1>3, <2>1 DEF Replace
  <2>3. pos' \in [Worker -> [Partition -> Nat]] /\ generation' \in Nat /\ late' \subseteq late
    BY <1>3 DEF Replace, Regroup
  <2>4. RecordInv'
    BY <1>3 DEF Replace
  <2>5. RuntimeTypeOK'
    BY <1>3, <2>2, <2>3 DEF Replace, Regroup
  <2> QED
    BY <2>4, <2>5
<1>4. ASSUME NEW w \in Worker, Restart(w)
      PROVE  TypeInv'
  BY <1>3, <1>4 DEF Restart
<1>5. ASSUME NEW w \in Worker, Crash(w)
      PROVE  TypeInv'
  <2>1. faults' \in 0..MaxFaults
    BY <1>5, FaultType DEF Crash
  <2> QED
    BY <1>3, <1>5, <2>1 DEF Crash
<1>6. CASE UNCHANGED vars
  BY <1>6 DEF vars
<1> QED
  BY <1>1, <1>2, <1>4, <1>5, <1>6

------------------------------------------------------------------------------
(* Receipts and dead letters are for ever, so what is handled stays handled. *)
Monotone ==
  /\ \A id \in CommandId : receipt[id] # None => receipt'[id] = receipt[id]
  /\ dlq \subseteq dlq'

LEMMA MonotoneStep ==
  ASSUME TypeInv, [Next]_vars
  PROVE  Monotone
<1> USE DEF Monotone, brokerVars, dbVars
<1>1. ASSUME NEW c \in Command, ApplyCommand(c)
      PROVE  \A id \in CommandId : receipt[id] # None => receipt'[id] = receipt[id]
  BY <1>1, Bounds DEF ApplyCommand, TypeInv, RuntimeTypeOK
<1>2. ASSUME NEW w \in Worker, Persist(w)
      PROVE  Monotone
  <2>1. Command_(w) \in Command
    BY <1>2, InHandShape DEF Persist, Processing, InHand
  <2> QED
    BY <1>1, <1>2, <2>1 DEF Persist
<1>3. ASSUME NEW w \in Worker, TaskFails(w)
      PROVE  Monotone
  <2>1. Command_(w) \in Command
    BY <1>3, InHandShape DEF TaskFails, InHand
  <2> QED
    BY <1>1, <1>3, <2>1 DEF TaskFails
<1>4. ASSUME NEW w \in Worker, PublishDlq(w) \/ PublishFails(w)
      PROVE  Monotone
  BY <1>4 DEF PublishDlq, PublishFails
<1>5. ASSUME NEW w \in Worker,
             \/ JoinGeneration(w) \/ TakeBuffered(w) \/ Receive(w) \/ Start(w) \/ Abandon(w)
             \/ Preflight(w) \/ FetchAndParse(w) \/ CommitRefused(w) \/ Retry(w)
             \/ BackoffElapsed(w) \/ DrainTimesOut(w)
      PROVE  Monotone
  BY <1>5 DEF JoinGeneration, TakeBuffered, Receive, Start, Abandon, Preflight,
     FetchAndParse, CommitRefused, Retry, BackoffElapsed, DrainTimesOut
<1>6. ASSUME NEW w \in Worker,
             \/ CommitOffset(w) \/ Restart(w) \/ Buffer(w) \/ Rewind(w) \/ RewindFails(w)
             \/ CommitTimesOut(w) \/ Shutdown(w) \/ Crash(w)
      PROVE  Monotone
  BY <1>6 DEF CommitOffset, Restart, Buffer, Rewind, RewindFails, CommitTimesOut,
     Shutdown, Crash, Replace
<1>7. CASE LateCommit \/ Rebalance \/ UNCHANGED vars
  BY <1>7 DEF LateCommit, Rebalance, vars
<1> QED
  BY <1>2, <1>3, <1>4, <1>5, <1>6, <1>7 DEF Next, Loop

LEMMA HandledStays ==
  ASSUME TypeInv, Monotone, NEW p \in Partition, NEW i \in 1..Len(Backlog[p]), Handled(p, i)
  PROVE  Handled(p, i)'
<1>1. Backlog[p][i] \in Command /\ IdOf[Backlog[p][i]] \in CommandId /\ None \notin Command
  BY RefOfIndex, Bounds, RuntimeAssumption DEF RuntimeAssumption
<1> QED
  BY <1>1 DEF Handled, Monotone

LEMMA JustifiedStays ==
  ASSUME TypeInv, Monotone, NEW r \in Ref, Justified(r)
  PROVE  Justified(r)'
<1>1. IdOf[CommandAt(r)] \in CommandId
  BY RefShape, Bounds
<1> QED
  BY <1>1 DEF Justified, Monotone, CommandAt

(* What a step leaves of the client of w. *)
SameClient(w) ==
  /\ epoch'[w] = epoch[w] /\ assigned'[w] = assigned[w] /\ pos'[w] = pos[w]
  /\ buffer'[w] = buffer[w] /\ cur'[w] = cur[w]
  /\ pc'[w] \in InHand => pc[w] \in InHand
  /\ pc[w] = "check" /\ pc'[w] # "check" => Owned(w, cur[w])

LEMMA SameClientStays ==
  ASSUME TypeInv, Monotone, NEW w \in Worker, ClientOK(w), SameClient(w),
         generation' >= generation, generation' \in Nat
  PROVE  ClientOK(w)'
<1>1. EpochOK(w)'
  <2>1. epoch[w] \in Nat /\ generation \in Nat
    BY DEF TypeInv, RuntimeTypeOK
  <2>2. epoch[w] <= generation'
    BY <2>1 DEF ClientOK, EpochOK
  <2> QED
    BY <2>2 DEF ClientOK, EpochOK, SameClient
<1>2. \A r : Owned(w, r)' <=> Owned(w, r)
  BY DEF SameClient, Owned
<1>3. SuffixOK(w)'
  BY <1>2 DEF ClientOK, SuffixOK, OwnedSuffix, SameClient, Owned
<1>4. BufferOrdered(w)'
  BY <1>2 DEF ClientOK, BufferOrdered, SameClient, Owned, Returned, SamePartition
<1>5. CurBeforeBuffer(w)'
  BY <1>2 DEF ClientOK, CurBeforeBuffer, SameClient, Owned, Returned, SamePartition
<1>6. SkipsNothing(w)'
  <2> SUFFICES ASSUME NEW p \in assigned[w], NEW i \in 1..pos[w][p]
               PROVE  i \in 1..Len(Backlog[p]) /\ (Handled(p, i)' \/ InClient(w, p, i)')
    BY DEF SkipsNothing, SameClient
  <2>1. i \in 1..Len(Backlog[p]) /\ (Handled(p, i) \/ InClient(w, p, i))
    BY DEF ClientOK, SkipsNothing
  <2>2. p \in Partition
    BY DEF TypeInv, RuntimeTypeOK
  <2>3. InClient(w, p, i) => InClient(w, p, i)'
    BY DEF InClient, SameClient, Owned
  <2> QED
    BY <2>1, <2>2, <2>3, HandledStays
<1> QED
  BY <1>1, <1>3, <1>4, <1>5, <1>6 DEF ClientOK

(* The steps that change what the client of w holds. *)
Active(w) ==
  \/ JoinGeneration(w) \/ TakeBuffered(w) \/ Receive(w) \/ Buffer(w) \/ Abandon(w)
  \/ CommitOffset(w) \/ Replace(w)

LEMMA GenerationStep ==
  ASSUME TypeInv, [Next]_vars
  PROVE  generation' \in Nat /\ generation' >= generation
<1> USE DEF TypeInv, RuntimeTypeOK, brokerVars
<1>1. ASSUME NEW w \in Worker, Loop(w)
      PROVE  generation' \in Nat /\ generation' >= generation
  BY <1>1 DEF Loop, JoinGeneration, TakeBuffered, Receive, Start, Abandon, Preflight,
     FetchAndParse, Persist, PublishDlq, CommitOffset, CommitRefused, Retry,
     BackoffElapsed, DrainTimesOut, Restart, Replace, Regroup
<1>2. ASSUME NEW w \in Worker,
             \/ Buffer(w) \/ Rewind(w) \/ RewindFails(w) \/ TaskFails(w) \/ PublishFails(w)
             \/ CommitTimesOut(w) \/ Shutdown(w) \/ Crash(w)
      PROVE  generation' \in Nat /\ generation' >= generation
  BY <1>2 DEF Buffer, Rewind, RewindFails, TaskFails, PublishFails, CommitTimesOut,
     Shutdown, Crash, Replace, Regroup
<1>3. CASE LateCommit \/ Rebalance \/ UNCHANGED vars
  BY <1>3 DEF LateCommit, Rebalance, Regroup, vars
<1> QED
  BY <1>1, <1>2, <1>3 DEF Next

LEMMA ActiveAlone ==
  ASSUME TypeInv, NEW w \in Worker, Active(w), NEW v \in Worker \ {w}
  PROVE  SameClient(v)
<1> USE DEF TypeInv, RuntimeTypeOK, SameClient, Goto, clientVars, loopVars
<1>1. CASE JoinGeneration(w)
  BY <1>1 DEF JoinGeneration
<1>2. CASE TakeBuffered(w)
  BY <1>2 DEF TakeBuffered
<1>3. CASE Receive(w)
  BY <1>3 DEF Receive, Advance
<1>4. CASE Buffer(w)
  BY <1>4 DEF Buffer, Advance
<1>5. CASE Abandon(w)
  BY <1>5 DEF Abandon
<1>6. CASE CommitOffset(w)
  BY <1>6 DEF CommitOffset
<1>7. CASE Replace(w)
  BY <1>7 DEF Replace
<1> QED
  BY <1>1, <1>2, <1>3, <1>4, <1>5, <1>6, <1>7 DEF Active

LEMMA PassiveStep ==
  ASSUME TypeInv, [Next]_vars, ~\E w \in Worker : Active(w), NEW v \in Worker
  PROVE  SameClient(v)
<1> USE DEF TypeInv, RuntimeTypeOK, SameClient, Goto, clientVars, loopVars, Result, Continue,
        InHand
<1>1. ASSUME NEW w \in Worker, Start(w) \/ Preflight(w) \/ FetchAndParse(w) \/ Persist(w)
      PROVE  SameClient(v)
  BY <1>1 DEF Start, Preflight, FetchAndParse, Persist, Processing
<1>2. ASSUME NEW w \in Worker, \/ PublishDlq(w) \/ CommitRefused(w) \/ Retry(w)
                               \/ BackoffElapsed(w) \/ DrainTimesOut(w)
      PROVE  SameClient(v)
  BY <1>2 DEF PublishDlq, CommitRefused, Retry, BackoffElapsed, DrainTimesOut
<1>3. ASSUME NEW w \in Worker, Rewind(w) \/ RewindFails(w) \/ TaskFails(w)
      PROVE  SameClient(v)
  BY <1>3 DEF Rewind, RewindFails, TaskFails
<1>4. ASSUME NEW w \in Worker, PublishFails(w) \/ CommitTimesOut(w) \/ Shutdown(w)
      PROVE  SameClient(v)
  BY <1>4 DEF PublishFails, CommitTimesOut, Shutdown
<1>5. CASE LateCommit \/ Rebalance \/ UNCHANGED vars
  BY <1>5 DEF LateCommit, Rebalance, vars
<1> QED
  BY <1>1, <1>2, <1>3, <1>4, <1>5 DEF Next, Loop, Active, Restart, Crash

------------------------------------------------------------------------------
(* The client of a worker, step by step. *)
LEMMA SkipsSame ==
  ASSUME TypeInv, Monotone, NEW w \in Worker, SkipsNothing(w),
         assigned'[w] = assigned[w], pos'[w] = pos[w],
         \A p \in assigned[w] : \A i \in 1..pos[w][p] :
           InClient(w, p, i) => InClient(w, p, i)' \/ Handled(p, i)
  PROVE  SkipsNothing(w)'
<1> SUFFICES ASSUME NEW p \in assigned[w], NEW i \in 1..pos[w][p]
             PROVE  i \in 1..Len(Backlog[p]) /\ (Handled(p, i)' \/ InClient(w, p, i)')
  BY DEF SkipsNothing
<1>1. i \in 1..Len(Backlog[p]) /\ (Handled(p, i) \/ InClient(w, p, i)')
  BY DEF SkipsNothing
<1>2. p \in Partition
  BY DEF TypeInv, RuntimeTypeOK
<1> QED
  BY <1>1, <1>2, HandledStays

LEMMA ClientJoin ==
  ASSUME TypeInv, Monotone, CommittedInv, NEW w \in Worker, ClientOK(w), JoinGeneration(w)
  PROVE  ClientOK(w)'
<1>1. /\ epoch'[w] = generation /\ pos'[w] = committed /\ assigned'[w] \subseteq Partition
      /\ buffer'[w] = buffer[w] /\ cur'[w] = cur[w] /\ pc'[w] = pc[w]
      /\ generation' = generation
  BY DEF JoinGeneration, TypeInv, RuntimeTypeOK, brokerVars, loopVars
<1>2. /\ epoch[w] \in Nat /\ generation \in Nat /\ epoch[w] < generation
      /\ buffer[w] \in Seq(Record) /\ Len(buffer[w]) \in Nat
      /\ \A k \in 1..Len(buffer[w]) : buffer[w][k].epoch \in Nat
      /\ cur[w].epoch \in Nat
  <2>1. /\ epoch[w] \in Nat /\ generation \in Nat
        /\ buffer[w] \in Seq(Record) /\ cur[w] \in Record \cup {NoRecord}
    BY DEF TypeInv, RuntimeTypeOK
  <2>2. epoch[w] < generation
    BY <2>1 DEF ClientOK, EpochOK, JoinGeneration
  <2>3. \A k \in 1..Len(buffer[w]) : buffer[w][k] \in Record
    BY <2>1
  <2> QED
    BY <2>1, <2>2, <2>3 DEF Record, NoRecord
<1>3. ~Owned(w, cur[w])' /\ \A k \in 1..Len(buffer[w]) : ~Owned(w, buffer[w][k])'
  BY <1>1, <1>2 DEF ClientOK, EpochOK, Owned
<1>4. EpochOK(w)'
  BY <1>1, <1>2 DEF ClientOK, EpochOK
<1>5. SuffixOK(w)'
  <2>1. OwnedSuffix(w, Len(buffer[w]))'
    BY <1>1, <1>2, <1>3 DEF OwnedSuffix
  <2> QED
    BY <1>1, <1>2, <2>1 DEF SuffixOK
<1>6. BufferOrdered(w)' /\ CurBeforeBuffer(w)'
  BY <1>1, <1>3 DEF BufferOrdered, CurBeforeBuffer
<1>7. SkipsNothing(w)'
  BY <1>1, HandledStays DEF SkipsNothing, CommittedInv
<1> QED
  BY <1>4, <1>5, <1>6, <1>7 DEF ClientOK

LEMMA ClientTake ==
  ASSUME TypeInv, Monotone, NEW w \in Worker, ClientOK(w), TakeBuffered(w)
  PROVE  ClientOK(w)'
<1>1. /\ epoch' = epoch /\ assigned' = assigned /\ pos' = pos /\ generation' = generation
      /\ cur'[w] = Head(buffer[w]) /\ buffer'[w] = Tail(buffer[w])
      /\ buffer[w] # <<>> /\ buffer[w] \in Seq(Record) /\ cur[w] = NoRecord
      /\ pos[w] \in [Partition -> Nat] /\ assigned[w] \subseteq Partition
  BY DEF TakeBuffered, TypeInv, RuntimeTypeOK, RecordInv, brokerVars
<1>2. /\ Len(buffer[w]) \in Nat /\ Len(buffer[w]) >= 1
      /\ cur'[w] = buffer[w][1]
      /\ Len(buffer'[w]) = Len(buffer[w]) - 1
      /\ \A k \in 1..Len(buffer'[w]) :
           buffer'[w][k] = buffer[w][k + 1] /\ k + 1 \in 1..Len(buffer[w])
      /\ \A k \in 2..Len(buffer[w]) : k - 1 \in 1..Len(buffer'[w]) /\ buffer'[w][k - 1] = buffer[w][k]
  BY <1>1
<1>3. 1 \in 1..Len(buffer[w])
  BY <1>2
<1>4. \A r : Owned(w, r)' <=> Owned(w, r)
  BY <1>1 DEF Owned
<1>5. EpochOK(w)'
  BY <1>1, <1>2, <1>3 DEF ClientOK, EpochOK
<1>6. SuffixOK(w)'
  <2>1. PICK n \in 0..Len(buffer[w]) : OwnedSuffix(w, n)
    BY DEF ClientOK, SuffixOK
  <2>2. PICK m \in Nat : IF n = 0 THEN m = 0 ELSE m = n - 1
    OBVIOUS
  <2>3. m \in 0..Len(buffer'[w])
    BY <1>2, <2>2
  <2>4. \A k \in 1..Len(buffer'[w]) : Owned(w, buffer[w][k])' <=> k > m
    <3> TAKE k \in 1..Len(buffer'[w])
    <3>1. Owned(w, buffer[w][k + 1]) <=> k + 1 > n
      BY <1>2, <2>1 DEF OwnedSuffix
    <3>2. k + 1 > n <=> k > m
      BY <1>2, <2>2
    <3>3. buffer'[w][k] = buffer[w][k + 1]
      BY <1>2
    <3> QED
      BY <1>4, <3>1, <3>2, <3>3 DEF Owned
  <2>5. OwnedSuffix(w, m)'
    BY <2>4 DEF OwnedSuffix
  <2> QED
    BY <2>3, <2>5 DEF SuffixOK
<1>7. BufferOrdered(w)'
  <2>1. \A k \in 1..Len(buffer'[w]) : Owned(w, buffer[w][k])' => Returned(w, buffer[w][k])'
    BY <1>1, <1>2, <1>4 DEF ClientOK, BufferOrdered, Returned, Owned
  <2>2. ASSUME NEW k \in 1..Len(buffer'[w]), NEW l \in 1..Len(buffer'[w]), k < l,
               Owned(w, buffer[w][k])', Owned(w, buffer[w][l])',
               SamePartition(buffer'[w][k], buffer'[w][l])
        PROVE  buffer'[w][k].ref[2] < buffer'[w][l].ref[2]
    <3>1. buffer'[w][k] = buffer[w][k + 1] /\ buffer'[w][l] = buffer[w][l + 1] /\ k + 1 < l + 1
          /\ k + 1 \in 1..Len(buffer[w]) /\ l + 1 \in 1..Len(buffer[w])
      BY <1>2, <2>2
    <3>2. Owned(w, buffer[w][k + 1]) /\ Owned(w, buffer[w][l + 1])
      BY <1>1, <2>2, <3>1 DEF Owned
    <3> QED
      BY <2>2, <3>1, <3>2 DEF ClientOK, BufferOrdered
  <2> QED
    BY <2>1, <2>2 DEF BufferOrdered, SamePartition
<1>8. CurBeforeBuffer(w)'
  <2> SUFFICES ASSUME Owned(w, cur[w])'
               PROVE  /\ Returned(w, cur[w])'
                      /\ \A k \in 1..Len(buffer'[w]) :
                           Owned(w, buffer[w][k])' /\ SamePartition(cur'[w], buffer'[w][k])
                             => cur'[w].ref[2] < buffer'[w][k].ref[2]
    BY DEF CurBeforeBuffer, SamePartition, Owned
  <2>1. Owned(w, buffer[w][1])
    BY <1>1, <1>2 DEF Owned
  <2>2. Returned(w, cur[w])'
    BY <1>1, <1>2, <1>3, <2>1 DEF ClientOK, BufferOrdered, Returned
  <2>3. ASSUME NEW k \in 1..Len(buffer'[w]), Owned(w, buffer[w][k])',
               SamePartition(cur'[w], buffer'[w][k])
        PROVE  cur'[w].ref[2] < buffer'[w][k].ref[2]
    <3>1. buffer'[w][k] = buffer[w][k + 1] /\ k + 1 \in 1..Len(buffer[w]) /\ 1 < k + 1
      BY <1>2
    <3>2. Owned(w, buffer[w][k + 1])
      BY <1>1, <2>3, <3>1 DEF Owned
    <3> QED
      BY <1>2, <1>3, <2>1, <2>3, <3>1, <3>2 DEF ClientOK, BufferOrdered
  <2> QED
    BY <2>2, <2>3
<1>9. SkipsNothing(w)'
  <2> SUFFICES ASSUME NEW p \in assigned[w], NEW i \in 1..pos[w][p], InClient(w, p, i)
               PROVE  InClient(w, p, i)'
    BY <1>1, SkipsSame DEF ClientOK
  <2>1. PICK k \in 1..Len(buffer[w]) : buffer[w][k].ref = <<p, i>> /\ Owned(w, buffer[w][k])
    BY <1>1 DEF InClient, NoRecord
  <2>2. CASE k = 1
    BY <1>1, <1>2, <2>1, <2>2 DEF InClient, Owned
  <2>3. CASE k # 1
    <3>1. k - 1 \in 1..Len(buffer'[w]) /\ buffer'[w][k - 1] = buffer[w][k]
      BY <1>2, <2>3
    <3> QED
      BY <1>1, <2>1, <3>1 DEF InClient, Owned
  <2> QED
    BY <2>2, <2>3
<1> QED
  BY <1>5, <1>6, <1>7, <1>8, <1>9 DEF ClientOK

LEMMA ClientReceive ==
  ASSUME TypeInv, Monotone, NEW w \in Worker, ClientOK(w), Receive(w)
  PROVE  ClientOK(w)'
<1>1. PICK p \in Partition : /\ Available(w, p)
                             /\ cur' = [cur EXCEPT ![w] = NextRecord(w, p)]
                             /\ Advance(w, p)
  BY DEF Receive
<1> DEFINE r == NextRecord(w, p)
<1>2. /\ r.ref = <<p, pos[w][p] + 1>> /\ r.epoch = epoch[w]
      /\ pos[w][p] + 1 \in 1..Len(Backlog[p])
  BY <1>1, NextShape
<1>3. /\ epoch' = epoch /\ assigned' = assigned /\ generation' = generation
      /\ buffer[w] = <<>> /\ buffer'[w] = <<>> /\ cur[w] = NoRecord /\ cur'[w] = r
      /\ pos[w] \in [Partition -> Nat] /\ assigned[w] \subseteq Partition
      /\ epoch[w] \in Nat /\ pos'[w] = [pos[w] EXCEPT ![p] = @ + 1]
  BY <1>1 DEF Receive, Advance, TypeInv, RuntimeTypeOK, RecordInv, brokerVars
<1> HIDE DEF r
<1>4. EpochOK(w)' /\ SuffixOK(w)' /\ BufferOrdered(w)' /\ CurBeforeBuffer(w)'
  <2>1. EpochOK(w)'
    BY <1>2, <1>3 DEF ClientOK, EpochOK
  <2>2. SuffixOK(w)'
    <3>1. OwnedSuffix(w, 0)'
      BY <1>3 DEF OwnedSuffix
    <3> QED
      BY <1>3, <3>1 DEF SuffixOK
  <2>3. BufferOrdered(w)'
    BY <1>3 DEF BufferOrdered
  <2>4. CurBeforeBuffer(w)'
    <3>1. Returned(w, cur[w])'
      BY <1>2, <1>3 DEF Returned
    <3> QED
      BY <1>3, <3>1 DEF CurBeforeBuffer
  <2> QED
    BY <2>1, <2>2, <2>3, <2>4
<1>5. SkipsNothing(w)'
  <2> SUFFICES ASSUME NEW q \in assigned[w], NEW i \in 1..pos'[w][q]
               PROVE  i \in 1..Len(Backlog[q]) /\ (Handled(q, i)' \/ InClient(w, q, i)')
    BY <1>3 DEF SkipsNothing
  <2>1. CASE q = p /\ i = pos[w][p] + 1
    BY <1>1, <1>2, <1>3, <2>1 DEF InClient, Owned, Available
  <2>2. CASE ~(q = p /\ i = pos[w][p] + 1)
    <3>1. i \in 1..pos[w][q] /\ q \in Partition
      BY <1>3, <2>2
    <3>2. ~InClient(w, q, i)
      BY <1>3 DEF InClient, NoRecord
    <3>3. i \in 1..Len(Backlog[q]) /\ Handled(q, i)
      BY <3>1, <3>2 DEF ClientOK, SkipsNothing
    <3> QED
      BY <3>1, <3>3, HandledStays
  <2> QED
    BY <2>1, <2>2
<1> QED
  BY <1>4, <1>5 DEF ClientOK

LEMMA ClientBuffer ==
  ASSUME TypeInv, Monotone, NEW w \in Worker, ClientOK(w), Buffer(w)
  PROVE  ClientOK(w)'
<1>1. PICK p \in Partition : /\ Available(w, p)
                             /\ buffer' = [buffer EXCEPT ![w] = Append(@, NextRecord(w, p))]
                             /\ Advance(w, p)
  BY DEF Buffer
<1> DEFINE r == NextRecord(w, p)
           n == Len(buffer[w])
<1>2. /\ r \in Record /\ r.ref = <<p, pos[w][p] + 1>> /\ r.epoch = epoch[w]
      /\ pos[w][p] + 1 \in 1..Len(Backlog[p]) /\ Owned(w, r)
  BY <1>1, NextShape
<1>3. /\ epoch' = epoch /\ assigned' = assigned /\ generation' = generation
      /\ buffer[w] \in Seq(Record) /\ buffer'[w] = Append(buffer[w], r)
      /\ cur'[w] = cur[w] /\ pc'[w] = pc[w] /\ pc[w] \in InHand
      /\ pos[w] \in [Partition -> Nat] /\ assigned[w] \subseteq Partition
      /\ epoch[w] \in Nat /\ pos'[w] = [pos[w] EXCEPT ![p] = @ + 1]
  BY <1>1 DEF Buffer, Advance, TypeInv, RuntimeTypeOK, brokerVars, InHand
<1> HIDE DEF r
<1>4. /\ n \in Nat /\ Len(buffer'[w]) = n + 1 /\ buffer'[w][n + 1] = r
      /\ \A k \in 1..n : buffer'[w][k] = buffer[w][k]
  BY <1>2, <1>3
<1> HIDE DEF n
<1>5. \A k \in 1..(n + 1) : k \in 1..n \/ k = n + 1
  BY <1>4
<1>6. EpochOK(w)'
  BY <1>2, <1>3, <1>4, <1>5 DEF ClientOK, EpochOK, n
<1>7. SuffixOK(w)'
  <2>1. PICK m \in 0..n : OwnedSuffix(w, m)
    BY DEF ClientOK, SuffixOK, n
  <2>2. \A k \in 1..(n + 1) : Owned(w, buffer[w][k])' <=> k > m
    <3> TAKE k \in 1..(n + 1)
    <3>1. CASE k \in 1..n
      BY <1>3, <1>4, <2>1, <3>1 DEF OwnedSuffix, Owned, n
    <3>2. CASE k = n + 1
      <4>1. k > m
        BY <1>4, <3>2
      <4> QED
        BY <1>2, <1>3, <1>4, <3>2, <4>1 DEF Owned
    <3> QED
      BY <1>5, <3>1, <3>2
  <2>3. m \in 0..(n + 1)
    BY <1>4
  <2> QED
    BY <1>4, <2>2, <2>3 DEF SuffixOK, OwnedSuffix
<1>8. ASSUME NEW s, s.ref[1] \in Partition, s.ref[2] \in Nat, Returned(w, s)
      PROVE  /\ s.ref[2] <= pos'[w][s.ref[1]]
             /\ SamePartition(s, r) => s.ref[2] < r.ref[2]
  BY <1>2, <1>3, <1>8 DEF Returned, SamePartition
<1>9. \A k \in 1..n : buffer[w][k].ref[1] \in Partition /\ buffer[w][k].ref[2] \in Nat
  <2> TAKE k \in 1..n
  <2>1. buffer[w][k] \in Record
    BY <1>3, <1>4 DEF n
  <2>2. buffer[w][k].ref \in Ref
    BY <2>1 DEF Record
  <2> QED
    BY <2>2, RefShape
<1>10. BufferOrdered(w)'
  <2>1. \A k \in 1..(n + 1) : Owned(w, buffer[w][k])' => Returned(w, buffer[w][k])'
    <3> TAKE k \in 1..(n + 1)
    <3>1. CASE k \in 1..n
      <4>1. Owned(w, buffer[w][k]) => buffer[w][k].ref[2] <= pos'[w][buffer[w][k].ref[1]]
        BY <1>8, <1>9, <3>1 DEF ClientOK, BufferOrdered, n
      <4> QED
        BY <1>3, <1>4, <3>1, <4>1 DEF Owned, Returned
    <3>2. CASE k = n + 1
      BY <1>2, <1>3, <1>4, <3>2 DEF Returned
    <3> QED
      BY <1>5, <3>1, <3>2
  <2>2. ASSUME NEW k \in 1..(n + 1), NEW l \in 1..(n + 1), k < l,
               Owned(w, buffer[w][k])', Owned(w, buffer[w][l])',
               SamePartition(buffer'[w][k], buffer'[w][l])
        PROVE  buffer'[w][k].ref[2] < buffer'[w][l].ref[2]
    <3>1. k \in 1..n /\ buffer'[w][k] = buffer[w][k] /\ Owned(w, buffer[w][k])
      <4>1. k \in 1..n
        BY <1>4, <2>2
      <4> QED
        BY <1>3, <1>4, <2>2, <4>1 DEF Owned
    <3>2. CASE l \in 1..n
      <4>1. Owned(w, buffer[w][l]) /\ buffer'[w][l] = buffer[w][l]
        BY <1>3, <1>4, <2>2, <3>2 DEF Owned
      <4> QED
        BY <2>2, <3>1, <3>2, <4>1 DEF ClientOK, BufferOrdered, n
    <3>3. CASE l = n + 1
      <4>1. Returned(w, buffer[w][k])
        BY <3>1 DEF ClientOK, BufferOrdered, n
      <4> QED
        BY <1>4, <1>8, <1>9, <2>2, <3>1, <3>3, <4>1
    <3> QED
      BY <1>5, <3>2, <3>3
  <2> QED
    BY <1>4, <2>1, <2>2 DEF BufferOrdered, SamePartition
<1>11. CurBeforeBuffer(w)'
  <2> SUFFICES ASSUME Owned(w, cur[w])
               PROVE  /\ Returned(w, cur[w])'
                      /\ \A k \in 1..(n + 1) :
                           Owned(w, buffer[w][k])' /\ SamePartition(cur[w], buffer'[w][k])
                             => cur[w].ref[2] < buffer'[w][k].ref[2]
    BY <1>3, <1>4 DEF CurBeforeBuffer, SamePartition, Owned
  <2>1. cur[w].ref[1] \in Partition /\ cur[w].ref[2] \in Nat
    BY <1>3, InHandShape
  <2>2. Returned(w, cur[w])
    BY <1>3 DEF ClientOK, CurBeforeBuffer
  <2>3. /\ cur[w].ref[2] <= pos'[w][cur[w].ref[1]]
        /\ SamePartition(cur[w], r) => cur[w].ref[2] < r.ref[2]
    BY <1>8, <2>1, <2>2
  <2>4. ASSUME NEW k \in 1..(n + 1), Owned(w, buffer[w][k])',
               SamePartition(cur[w], buffer'[w][k])
        PROVE  cur[w].ref[2] < buffer'[w][k].ref[2]
    <3>1. CASE k \in 1..n
      <4>1. Owned(w, buffer[w][k]) /\ buffer'[w][k] = buffer[w][k]
        BY <1>3, <1>4, <2>4, <3>1 DEF Owned
      <4> QED
        BY <1>3, <2>4, <3>1, <4>1 DEF ClientOK, CurBeforeBuffer, n
    <3>2. CASE k = n + 1
      BY <1>4, <2>3, <2>4, <3>2
    <3> QED
      BY <1>5, <3>1, <3>2
  <2> QED
    BY <1>3, <2>3, <2>4 DEF Returned
<1>12. SkipsNothing(w)'
  <2> SUFFICES ASSUME NEW q \in assigned[w], NEW i \in 1..pos'[w][q]
               PROVE  i \in 1..Len(Backlog[q]) /\ (Handled(q, i)' \/ InClient(w, q, i)')
    BY <1>3 DEF SkipsNothing
  <2>1. CASE q = p /\ i = pos[w][p] + 1
    <3>1. n + 1 \in 1..Len(buffer'[w]) /\ buffer'[w][n + 1].ref = <<q, i>>
      BY <1>2, <1>4, <2>1
    <3> QED
      BY <1>1, <1>2, <1>3, <1>4, <2>1, <3>1 DEF InClient, Owned, Available
  <2>2. CASE ~(q = p /\ i = pos[w][p] + 1)
    <3>1. i \in 1..pos[w][q] /\ q \in Partition
      BY <1>3, <2>2
    <3>2. i \in 1..Len(Backlog[q]) /\ (Handled(q, i) \/ InClient(w, q, i))
      BY <3>1 DEF ClientOK, SkipsNothing
    <3>3. ASSUME InClient(w, q, i)
          PROVE  InClient(w, q, i)'
      <4>1. CASE cur[w].ref = <<q, i>> /\ Owned(w, cur[w])
        BY <1>3, <4>1 DEF InClient, Owned
      <4>2. ASSUME NEW k \in 1..n, buffer[w][k].ref = <<q, i>>, Owned(w, buffer[w][k])
            PROVE  InClient(w, q, i)'
        <5>1. k \in 1..Len(buffer'[w]) /\ buffer'[w][k] = buffer[w][k]
          BY <1>4
        <5> QED
          BY <1>3, <4>2, <5>1 DEF InClient, Owned
      <4> QED
        BY <3>3, <4>1, <4>2 DEF InClient, n
    <3> QED
      BY <3>1, <3>2, <3>3, HandledStays
  <2> QED
    BY <2>1, <2>2
<1> QED
  BY <1>6, <1>7, <1>10, <1>11, <1>12 DEF ClientOK

LEMMA ClientAbandon ==
  ASSUME TypeInv, Monotone, NEW w \in Worker, ClientOK(w), Abandon(w)
  PROVE  ClientOK(w)'
<1>1. PICK n \in 0..Len(buffer[w]) : OwnedSuffix(w, n)
  BY DEF ClientOK, SuffixOK
<1> DEFINE m == Len(buffer[w]) - n
<1>2. /\ epoch' = epoch /\ assigned' = assigned /\ pos' = pos /\ generation' = generation
      /\ cur'[w] = NoRecord /\ pc'[w] = "idle" /\ buffer'[w] = RetainOwned(w)
      /\ ~Owned(w, cur[w]) /\ epoch[w] \in Nat /\ generation \in Nat
      /\ buffer[w] \in Seq(Record) /\ Len(buffer[w]) \in Nat
  BY DEF Abandon, TypeInv, RuntimeTypeOK, Goto, brokerVars
<1>3. /\ Len(buffer'[w]) = m
      /\ \A k \in 1..m : buffer'[w][k] = buffer[w][n + k]
  BY <1>1, <1>2, RetainShape
<1>4. /\ m \in Nat
      /\ \A k \in 1..m : n + k \in 1..Len(buffer[w]) /\ n + k > n
      /\ \A k \in 1..Len(buffer[w]) : k > n => k - n \in 1..m /\ n + (k - n) = k
  BY <1>2
<1> HIDE DEF m
<1>5. \A k \in 1..m : Owned(w, buffer[w][n + k])
  BY <1>1, <1>4 DEF OwnedSuffix
<1>6. EpochOK(w)'
  <2>1. \A k \in 1..m : buffer'[w][k].epoch <= epoch[w]
    <3> TAKE k \in 1..m
    <3>1. n + k \in 1..Len(buffer[w]) /\ buffer'[w][k] = buffer[w][n + k]
      BY <1>3, <1>4
    <3> QED
      BY <3>1 DEF ClientOK, EpochOK
  <2>2. cur'[w].epoch <= epoch[w]
    BY <1>2 DEF NoRecord
  <2> QED
    BY <1>2, <1>3, <2>1, <2>2 DEF ClientOK, EpochOK
<1>7. SuffixOK(w)'
  <2>1. \A k \in 1..m : Owned(w, buffer[w][k])'
    BY <1>2, <1>3, <1>5 DEF Owned
  <2>2. OwnedSuffix(w, 0)'
    BY <1>3, <1>4, <2>1 DEF OwnedSuffix
  <2>3. 0 \in 0..Len(buffer'[w])
    BY <1>3, <1>4
  <2> QED
    BY <2>2, <2>3 DEF SuffixOK
<1>8. BufferOrdered(w)'
  <2>1. \A k \in 1..m : Returned(w, buffer[w][k])'
    BY <1>2, <1>3, <1>4, <1>5 DEF ClientOK, BufferOrdered, Returned
  <2>2. ASSUME NEW k \in 1..m, NEW l \in 1..m, k < l,
               SamePartition(buffer'[w][k], buffer'[w][l])
        PROVE  buffer'[w][k].ref[2] < buffer'[w][l].ref[2]
    <3>1. n + k < n + l
      BY <1>4, <2>2
    <3> QED
      BY <1>3, <1>4, <1>5, <2>2, <3>1 DEF ClientOK, BufferOrdered
  <2> QED
    BY <1>3, <2>1, <2>2 DEF BufferOrdered, SamePartition
<1>9. CurBeforeBuffer(w)'
  BY <1>2 DEF CurBeforeBuffer, InHand
<1>10. SkipsNothing(w)'
  <2> SUFFICES ASSUME NEW p \in assigned[w], NEW i \in 1..pos[w][p], InClient(w, p, i)
               PROVE  InClient(w, p, i)'
    BY <1>2, SkipsSame DEF ClientOK
  <2>1. PICK k \in 1..Len(buffer[w]) : buffer[w][k].ref = <<p, i>> /\ Owned(w, buffer[w][k])
    BY <1>2 DEF InClient
  <2>2. k > n
    BY <1>1, <2>1 DEF OwnedSuffix
  <2>3. k - n \in 1..m /\ buffer'[w][k - n] = buffer[w][k]
    BY <1>3, <1>4, <2>2
  <2> QED
    BY <1>2, <1>3, <2>1, <2>3 DEF InClient, Owned
<1> QED
  BY <1>6, <1>7, <1>8, <1>9, <1>10 DEF ClientOK

LEMMA ClientCommit ==
  ASSUME TypeInv, Monotone, ResultInv, NEW w \in Worker, ClientOK(w), CommitOffset(w)
  PROVE  ClientOK(w)'
<1>1. /\ epoch' = epoch /\ assigned' = assigned /\ pos' = pos /\ generation' = generation
      /\ cur'[w] = NoRecord /\ pc'[w] = "idle" /\ buffer' = buffer
      /\ epoch[w] \in Nat /\ generation \in Nat
      /\ Handled(cur[w].ref[1], cur[w].ref[2])
  BY DEF CommitOffset, TypeInv, RuntimeTypeOK, Goto, ResultInv, ResultOK
<1>2. EpochOK(w)'
  BY <1>1 DEF ClientOK, EpochOK, NoRecord
<1>3. SuffixOK(w)' /\ BufferOrdered(w)'
  BY <1>1 DEF ClientOK, SuffixOK, OwnedSuffix, BufferOrdered, Owned, Returned, SamePartition
<1>4. CurBeforeBuffer(w)'
  BY <1>1 DEF CurBeforeBuffer, InHand
<1>5. SkipsNothing(w)'
  <2> SUFFICES ASSUME NEW p \in assigned[w], NEW i \in 1..pos[w][p], InClient(w, p, i)
               PROVE  InClient(w, p, i)' \/ Handled(p, i)
    BY <1>1, SkipsSame DEF ClientOK
  <2>1. CASE cur[w].ref = <<p, i>>
    BY <1>1, <2>1
  <2>2. CASE cur[w].ref # <<p, i>>
    BY <1>1, <2>2 DEF InClient, Owned
  <2> QED
    BY <2>1, <2>2
<1> QED
  BY <1>2, <1>3, <1>4, <1>5 DEF ClientOK

LEMMA ClientReplace ==
  ASSUME TypeInv, NEW w \in Worker, Replace(w)
  PROVE  ClientOK(w)'
<1>1. /\ assigned'[w] = {} /\ buffer'[w] = <<>> /\ cur'[w] = NoRecord /\ pc'[w] = "idle"
      /\ epoch'[w] = 0 /\ generation' \in Nat
  BY DEF Replace, Regroup, TypeInv, RuntimeTypeOK, Goto
<1>2. EpochOK(w)'
  BY <1>1 DEF EpochOK, NoRecord
<1>3. SuffixOK(w)'
  <2>1. OwnedSuffix(w, 0)' /\ 0 \in 0..Len(buffer'[w])
    BY <1>1 DEF OwnedSuffix
  <2> QED
    BY <2>1 DEF SuffixOK
<1>4. BufferOrdered(w)' /\ CurBeforeBuffer(w)' /\ SkipsNothing(w)'
  BY <1>1 DEF BufferOrdered, CurBeforeBuffer, SkipsNothing, InHand
<1> QED
  BY <1>2, <1>3, <1>4 DEF ClientOK

LEMMA ClientNext ==
  ASSUME TypeInv, ClientInv, CommittedInv, ResultInv, [Next]_vars
  PROVE  ClientInv'
<1>1. Monotone /\ generation' \in Nat /\ generation' >= generation
  BY MonotoneStep, GenerationStep
<1>2. CASE ~\E w \in Worker : Active(w)
  BY <1>1, <1>2, PassiveStep, SameClientStays DEF ClientInv
<1>3. ASSUME NEW w \in Worker, Active(w)
      PROVE  ClientInv'
  <2>1. ASSUME NEW v \in Worker \ {w}
        PROVE  ClientOK(v)'
    BY <1>1, <1>3, ActiveAlone, SameClientStays DEF ClientInv
  <2>2. ClientOK(w)'
    BY <1>1, <1>3, ClientJoin, ClientTake, ClientReceive, ClientBuffer, ClientAbandon,
       ClientCommit, ClientReplace DEF Active, ClientInv
  <2> QED
    BY <2>1, <2>2 DEF ClientInv
<1> QED
  BY <1>2, <1>3

------------------------------------------------------------------------------
(* Commands are taken in order. *)
LEMMA PrefixStays ==
  ASSUME TypeInv, Monotone, NEW p \in Partition, NEW n \in Nat, Prefix(p, n)
  PROVE  Prefix(p, n)'
BY HandledStays DEF Prefix

LEMMA PrefixNext ==
  ASSUME TypeInv, ClientInv, PrefixInv, [Next]_vars
  PROVE  PrefixInv'
<1>1. Monotone
  BY MonotoneStep
<1>2. ASSUME NEW v \in Worker, SameClient(v), Ready(v)'
      PROVE  Prefix(cur[v].ref[1], cur[v].ref[2])'
  <2>1. cur'[v] = cur[v] /\ Ready(v)
    BY <1>2 DEF Ready, SameClient, Owned
  <2>2. Prefix(cur[v].ref[1], cur[v].ref[2])
    BY <2>1 DEF PrefixInv
  <2>3. cur[v].ref[1] \in Partition /\ cur[v].ref[2] \in Nat
    BY <2>1, InHandShape DEF Ready
  <2> QED
    BY <1>1, <2>1, <2>2, <2>3, HandledStays DEF Prefix
<1>3. ASSUME NEW w \in Worker, JoinGeneration(w) \/ Buffer(w), Ready(w)'
      PROVE  Prefix(cur[w].ref[1], cur[w].ref[2])'
  <2>1. cur'[w] = cur[w] /\ Ready(w)
    BY <1>3 DEF Ready, JoinGeneration, Buffer, Polls, loopVars, InHand
  <2>2. Prefix(cur[w].ref[1], cur[w].ref[2])
    BY <2>1 DEF PrefixInv
  <2>3. cur[w].ref[1] \in Partition /\ cur[w].ref[2] \in Nat
    BY <2>1, InHandShape DEF Ready
  <2> QED
    BY <1>1, <2>1, <2>2, <2>3, HandledStays DEF Prefix
<1>4. ASSUME NEW w \in Worker, TakeBuffered(w), Ready(w)'
      PROVE  Prefix(cur[w].ref[1], cur[w].ref[2])'
  <2> DEFINE r == buffer[w][1]
  <2>1. /\ epoch' = epoch /\ assigned' = assigned /\ buffer[w] # <<>>
        /\ buffer[w] \in Seq(Record) /\ cur'[w] = r /\ cur[w] = NoRecord
        /\ pc'[w] = "check" /\ assigned[w] \subseteq Partition
        /\ pos[w] \in [Partition -> Nat]
    BY <1>4 DEF TakeBuffered, TypeInv, RuntimeTypeOK, RecordInv, Goto
  <2>2. 1 \in 1..Len(buffer[w]) /\ r \in Record
    BY <2>1
  <2>3. Owned(w, r) /\ Returned(w, r)
    BY <1>4, <2>1, <2>2 DEF Ready, Owned, ClientInv, ClientOK, BufferOrdered
  <2>4. r.ref[1] \in Partition /\ r.ref[2] \in Nat /\ r.ref[1] \in assigned[w]
    <3>1. r.ref \in Ref
      BY <2>2 DEF Record
    <3> QED
      BY <2>3, <3>1, RefShape DEF Owned
  <2> HIDE DEF r
  <2>5. ASSUME NEW i \in 1..Len(Backlog[r.ref[1]]), i < r.ref[2]
        PROVE  Handled(r.ref[1], i)
    <3>1. i \in 1..pos[w][r.ref[1]]
      BY <2>1, <2>3, <2>4, <2>5 DEF Returned
    <3>2. ~InClient(w, r.ref[1], i)
      <4> SUFFICES ASSUME NEW k \in 1..Len(buffer[w]), buffer[w][k].ref = <<r.ref[1], i>>,
                          Owned(w, buffer[w][k])
                   PROVE  FALSE
        BY <2>1 DEF InClient, NoRecord
      <4>1. buffer[w][k].ref[1] = r.ref[1] /\ buffer[w][k].ref[2] = i
        OBVIOUS
      <4>2. CASE k = 1
        BY <2>4, <2>5, <4>1, <4>2 DEF r
      <4>3. CASE k # 1
        <5>1. 1 < k
          BY <4>3
        <5>2. r.ref[2] < buffer[w][k].ref[2]
          BY <2>2, <2>3, <4>1, <5>1 DEF ClientInv, ClientOK, BufferOrdered, SamePartition, r
        <5> QED
          BY <2>4, <2>5, <4>1, <5>2
      <4> QED
        BY <4>2, <4>3
    <3> QED
      BY <2>4, <3>1, <3>2 DEF ClientInv, ClientOK, SkipsNothing
  <2> QED
    BY <1>1, <2>1, <2>4, <2>5, HandledStays DEF Prefix
<1>5. ASSUME NEW w \in Worker, Receive(w)
      PROVE  Prefix(cur[w].ref[1], cur[w].ref[2])'
  <2>1. PICK p \in Partition : /\ Available(w, p)
                               /\ cur' = [cur EXCEPT ![w] = NextRecord(w, p)]
    BY <1>5 DEF Receive
  <2>4. NextRecord(w, p).ref = <<p, pos[w][p] + 1>>
    BY <2>1, NextShape
  <2>5. cur'[w] = NextRecord(w, p)
    BY <2>1 DEF TypeInv, RuntimeTypeOK
  <2>2. /\ cur'[w].ref[1] = p /\ cur'[w].ref[2] = pos[w][p] + 1
        /\ p \in assigned[w] /\ pos[w][p] \in Nat
        /\ cur[w] = NoRecord /\ buffer[w] = <<>>
    BY <1>5, <2>1, <2>4, <2>5 DEF Receive, Available, TypeInv, RuntimeTypeOK, RecordInv
  <2>3. ASSUME NEW i \in 1..Len(Backlog[p]), i < pos[w][p] + 1
        PROVE  Handled(p, i)
    <3>1. i \in 1..pos[w][p]
      BY <2>2, <2>3
    <3>2. ~InClient(w, p, i)
      BY <2>2 DEF InClient, NoRecord
    <3> QED
      BY <2>2, <3>1, <3>2 DEF ClientInv, ClientOK, SkipsNothing
  <2> QED
    BY <1>1, <2>2, <2>3, HandledStays DEF Prefix
<1>6. ASSUME NEW w \in Worker, Abandon(w) \/ CommitOffset(w) \/ Replace(w)
      PROVE  ~Ready(w)'
  BY <1>6 DEF Abandon, CommitOffset, Replace, Goto, Ready, InHand, TypeInv, RuntimeTypeOK
<1>7. CASE ~\E w \in Worker : Active(w)
  BY <1>2, <1>7, PassiveStep DEF PrefixInv
<1>8. ASSUME NEW w \in Worker, Active(w)
      PROVE  PrefixInv'
  <2>1. ASSUME NEW v \in Worker \ {w}, Ready(v)'
        PROVE  Prefix(cur[v].ref[1], cur[v].ref[2])'
    BY <1>2, <1>8, <2>1, ActiveAlone
  <2>2. Ready(w)' => Prefix(cur[w].ref[1], cur[w].ref[2])'
    BY <1>3, <1>4, <1>5, <1>6, <1>8 DEF Active
  <2> QED
    BY <2>1, <2>2 DEF PrefixInv
<1> QED
  BY <1>7, <1>8

------------------------------------------------------------------------------
(* What the task of a worker reports. *)
Task(w) ==
  \/ Start(w) \/ Preflight(w) \/ FetchAndParse(w) \/ Persist(w) \/ PublishDlq(w)

(* What a step leaves of the task of w. *)
SameTask(w) ==
  /\ pc'[w] \in {"commit", "publish"} => pc[w] = pc'[w]
  /\ pc'[w] \in {"process", "drain"} => pc[w] \in {"process", "drain"}
  /\ pc'[w] \in {"commit", "publish", "process", "drain"} =>
       cur'[w] = cur[w] /\ stage'[w] = stage[w]

LEMMA ResultStays ==
  ASSUME TypeInv, Monotone, NEW w \in Worker, ResultOK(w), SameTask(w)
  PROVE  ResultOK(w)'
<1>1. CASE pc'[w] \in {"commit", "publish", "process", "drain"}
  <2>1. cur'[w] = cur[w] /\ stage'[w] = stage[w] /\ pc[w] \in InHand
    BY <1>1 DEF SameTask, InHand
  <2>2. /\ cur[w].ref \in Ref /\ cur[w].ref[1] \in Partition
        /\ cur[w].ref[2] \in 1..Len(Backlog[cur[w].ref[1]])
    BY <2>1, InHandShape
  <2>3. PICK p \in Partition, i \in Nat : p = cur[w].ref[1] /\ i = cur[w].ref[2]
    BY <2>2
  <2>4. PICK r \in Ref : r = cur[w].ref
    BY <2>2
  <2>5. Handled(p, i) => Handled(p, i)'
    BY <2>2, <2>3, HandledStays
  <2>6. Justified(r) => Justified(r)'
    BY JustifiedStays
  <2>7. ASSUME pc'[w] = "commit"
        PROVE  Handled(cur[w].ref[1], cur[w].ref[2])'
    <3>1. Handled(p, i)
      BY <2>3, <2>7 DEF ResultOK, SameTask
    <3>2. cur'[w].ref[1] = p /\ cur'[w].ref[2] = i
      BY <2>1, <2>3
    <3> QED
      BY <2>5, <3>1, <3>2 DEF Handled
  <2>8. pc'[w] = "publish" => Justified(cur[w].ref)'
    BY <2>1, <2>4, <2>6 DEF ResultOK, SameTask, Justified, CommandAt
  <2> QED
    BY <2>1, <2>7, <2>8 DEF ResultOK, SameTask, CommandAt
<1>2. CASE pc'[w] \notin {"commit", "publish", "process", "drain"}
  BY <1>2 DEF ResultOK
<1> QED
  BY <1>1, <1>2

LEMMA TaskFrame ==
  ASSUME TypeInv, [Next]_vars, NEW v \in Worker, ~Task(v)
  PROVE  SameTask(v)
<1> USE DEF TypeInv, RuntimeTypeOK, SameTask, Goto, loopVars, Result, Continue
<1>1. ASSUME NEW w \in Worker \ {v}, Task(w)
      PROVE  SameTask(v)
  BY <1>1 DEF Task, Start, Preflight, FetchAndParse, Persist, PublishDlq, Processing
<1>2. ASSUME NEW w \in Worker, \/ JoinGeneration(w) \/ TakeBuffered(w) \/ Receive(w)
                               \/ Abandon(w) \/ Buffer(w) \/ Rewind(w)
      PROVE  SameTask(v)
  BY <1>2 DEF JoinGeneration, TakeBuffered, Receive, Abandon, Buffer, Rewind
<1>3. ASSUME NEW w \in Worker, \/ CommitOffset(w) \/ CommitRefused(w) \/ Retry(w)
                               \/ BackoffElapsed(w) \/ DrainTimesOut(w) \/ Replace(w)
      PROVE  SameTask(v)
  BY <1>3 DEF CommitOffset, CommitRefused, Retry, BackoffElapsed, DrainTimesOut, Replace
<1>4. ASSUME NEW w \in Worker, \/ RewindFails(w) \/ TaskFails(w) \/ PublishFails(w)
                               \/ CommitTimesOut(w) \/ Shutdown(w)
      PROVE  SameTask(v)
  BY <1>4 DEF RewindFails, TaskFails, PublishFails, CommitTimesOut, Shutdown
<1>5. CASE LateCommit \/ Rebalance \/ UNCHANGED vars
  BY <1>5 DEF LateCommit, Rebalance, vars
<1> QED
  BY <1>1, <1>2, <1>3, <1>4, <1>5 DEF Next, Loop, Restart, Crash, Task

LEMMA ResultTask ==
  ASSUME TypeInv, Monotone, NEW w \in Worker, ResultOK(w), Task(w)
  PROVE  ResultOK(w)'
<1> DEFINE c == Command_(w)
<1>1. /\ pc[w] \in InHand /\ cur'[w] = cur[w]
      /\ pc[w] \in {"check", "process", "drain", "publish"}
  BY DEF Task, Start, Preflight, FetchAndParse, Persist, PublishDlq, Processing, InHand,
     TypeInv, RuntimeTypeOK
<1>2. /\ c = CommandAt(cur[w].ref) /\ c = Backlog[cur[w].ref[1]][cur[w].ref[2]]
      /\ c \in Command /\ IdOf[c] \in CommandId
      /\ cur[w].ref \in Ref /\ cur[w].ref = <<cur[w].ref[1], cur[w].ref[2]>>
  BY <1>1, InHandShape, Bounds
<1>3. /\ c = CommandAt(cur'[w].ref)
      /\ c = Backlog[cur'[w].ref[1]][cur'[w].ref[2]]
  BY <1>1, <1>2 DEF CommandAt
<1> HIDE DEF c
<1>4. pc[w] \in {"process", "drain"} /\ stage[w] # "preflight" => c \notin Rejected
  BY <1>2 DEF ResultOK
<1>5. pc[w] \in {"process", "drain"} /\ stage[w] = "persist" => c \notin Unusable
  BY <1>2 DEF ResultOK
<1>6. ASSUME pc'[w] = "commit" => receipt'[IdOf[c]] = c \/ <<cur[w].ref[1], cur[w].ref[2]>> \in dlq',
             pc'[w] = "publish" => c \in Rejected \cup Unusable \/ receipt'[IdOf[c]] # None,
             pc'[w] \in {"process", "drain"} /\ stage'[w] # "preflight" => c \notin Rejected,
             pc'[w] \in {"process", "drain"} /\ stage'[w] = "persist" => c \notin Unusable
      PROVE  ResultOK(w)'
  <2>1. pc'[w] = "commit" => Handled(cur[w].ref[1], cur[w].ref[2])'
    BY <1>1, <1>3, <1>6 DEF Handled
  <2>2. pc'[w] = "publish" => Justified(cur[w].ref)'
    BY <1>3, <1>6 DEF Justified, CommandAt
  <2> QED
    BY <1>3, <1>6, <2>1, <2>2 DEF ResultOK, CommandAt
<1> USE DEF TypeInv, RuntimeTypeOK, Goto, Result, Continue
<1>7. CASE Start(w)
  BY <1>6, <1>7 DEF Start
<1>8. CASE Preflight(w)
  BY <1>2, <1>6, <1>8 DEF Preflight, Processing, c, dbVars
<1>9. CASE FetchAndParse(w)
  BY <1>2, <1>4, <1>6, <1>9 DEF FetchAndParse, Processing, c
<1>10. CASE Persist(w)
  BY <1>2, <1>6, <1>10 DEF Persist, Processing, ApplyCommand, c, dbVars
<1>11. CASE PublishDlq(w)
  BY <1>2, <1>6, <1>11 DEF PublishDlq
<1> QED
  BY <1>7, <1>8, <1>9, <1>10, <1>11 DEF Task

LEMMA ResultNext ==
  ASSUME TypeInv, ResultInv, [Next]_vars
  PROVE  ResultInv'
BY MonotoneStep, TaskFrame, ResultTask, ResultStays DEF ResultInv

------------------------------------------------------------------------------
(* Offsets. *)
LEMMA CommitReady ==
  ASSUME TypeInv, PrefixInv, ResultInv, NEW w \in Worker, pc[w] = "commit"
  PROVE  \A i \in 1..cur[w].ref[2] :
           i \in 1..Len(Backlog[cur[w].ref[1]]) /\ Handled(cur[w].ref[1], i)
<1>1. /\ cur[w].ref[2] \in Nat /\ cur[w].ref[2] \in 1..Len(Backlog[cur[w].ref[1]])
  BY InHandShape DEF InHand
<1>2. Prefix(cur[w].ref[1], cur[w].ref[2]) /\ Handled(cur[w].ref[1], cur[w].ref[2])
  BY DEF PrefixInv, Ready, InHand, ResultInv, ResultOK
<1> TAKE i \in 1..cur[w].ref[2]
<1>3. i \in 1..Len(Backlog[cur[w].ref[1]])
  BY <1>1
<1>4. i < cur[w].ref[2] \/ i = cur[w].ref[2]
  BY <1>1
<1> QED
  BY <1>2, <1>3, <1>4 DEF Prefix

(* All records of p up to offset o are handled. *)
UpTo(p, o) == \A i \in 1..o : i \in 1..Len(Backlog[p]) /\ Handled(p, i)

LEMMA UpToStays ==
  ASSUME TypeInv, Monotone, NEW p \in Partition, NEW o \in Nat, UpTo(p, o)
  PROVE  UpTo(p, o)'
BY HandledStays DEF UpTo

LEMMA LateNext ==
  ASSUME TypeInv, PrefixInv, ResultInv, LateInv, [Next]_vars
  PROVE  LateInv'
<1>1. Monotone
  BY MonotoneStep
<1>2. \A l \in late' : l \in late \/ \E w \in Worker :
        pc[w] = "commit" /\ l = <<w, cur[w].ref[1], cur[w].ref[2]>>
  <2> USE DEF brokerVars
  <2>1. ASSUME NEW w \in Worker, Loop(w)
        PROVE  late' \subseteq late
    BY <2>1 DEF Loop, JoinGeneration, TakeBuffered, Receive, Start, Abandon, Preflight,
       FetchAndParse, Persist, PublishDlq, CommitOffset, CommitRefused, Retry,
       BackoffElapsed, DrainTimesOut, Restart, Replace
  <2>2. ASSUME NEW w \in Worker, \/ Buffer(w) \/ Rewind(w) \/ RewindFails(w) \/ TaskFails(w)
                                 \/ PublishFails(w) \/ Shutdown(w) \/ Crash(w)
        PROVE  late' \subseteq late
    BY <2>2 DEF Buffer, Rewind, RewindFails, TaskFails, PublishFails, Shutdown, Crash, Replace
  <2>3. CASE LateCommit \/ Rebalance \/ UNCHANGED vars
    BY <2>3 DEF LateCommit, Rebalance, vars
  <2>4. ASSUME NEW w \in Worker, CommitTimesOut(w)
        PROVE  pc[w] = "commit" /\ late' = late \cup {<<w, cur[w].ref[1], cur[w].ref[2]>>}
    BY <2>4 DEF CommitTimesOut
  <2> QED
    BY <2>1, <2>2, <2>3, <2>4 DEF Next
<1> SUFFICES ASSUME NEW l \in late'
             PROVE  UpTo(l[2], l[3])'
  BY DEF LateInv, UpTo
<1>3. CASE l \in late
  <2>1. l[2] \in Partition /\ l[3] \in Nat
    BY <1>3 DEF TypeInv, RuntimeTypeOK
  <2>2. UpTo(l[2], l[3])
    BY <1>3 DEF LateInv, UpTo
  <2> QED
    BY <1>1, <2>1, <2>2, UpToStays
<1>4. ASSUME NEW w \in Worker, pc[w] = "commit", l = <<w, cur[w].ref[1], cur[w].ref[2]>>
      PROVE  UpTo(l[2], l[3])'
  <2>1. l[2] = cur[w].ref[1] /\ l[3] = cur[w].ref[2] /\ l[2] \in Partition /\ l[3] \in Nat
    BY <1>4, InHandShape DEF InHand
  <2>2. UpTo(l[2], l[3])
    BY <1>4, <2>1, CommitReady DEF UpTo
  <2> QED
    BY <1>1, <2>1, <2>2, UpToStays
<1> QED
  BY <1>2, <1>3, <1>4

LEMMA OffsetStep ==
  ASSUME TypeInv, PrefixInv, ResultInv, LateInv, [Next]_vars
  PROVE  \/ UNCHANGED committed
         \/ /\ UNCHANGED <<receipt, outbox, dlq>>
            /\ \E p \in Partition, o \in Nat : UpTo(p, o) /\ StoreOffset(p, o)
<1> USE DEF brokerVars, dbVars
<1>1. ASSUME NEW w \in Worker, CommitOffset(w)
      PROVE  /\ UNCHANGED <<receipt, outbox, dlq>>
             /\ \E p \in Partition, o \in Nat : UpTo(p, o) /\ StoreOffset(p, o)
  BY <1>1, CommitReady, InHandShape DEF CommitOffset, UpTo, InHand
<1>2. ASSUME LateCommit
      PROVE  /\ UNCHANGED <<receipt, outbox, dlq>>
             /\ \E p \in Partition, o \in Nat : UpTo(p, o) /\ StoreOffset(p, o)
  <2>1. PICK l \in late : StoreOffset(l[2], l[3])
    BY <1>2 DEF LateCommit
  <2>2. l[2] \in Partition /\ l[3] \in Nat
    BY DEF TypeInv, RuntimeTypeOK
  <2> QED
    BY <1>2, <2>1, <2>2 DEF LateInv, UpTo, LateCommit
<1>3. ASSUME NEW w \in Worker, \/ JoinGeneration(w) \/ TakeBuffered(w) \/ Receive(w)
             \/ Start(w) \/ Abandon(w) \/ Preflight(w) \/ FetchAndParse(w) \/ Persist(w)
             \/ PublishDlq(w) \/ CommitRefused(w) \/ Retry(w)
             \/ BackoffElapsed(w) \/ DrainTimesOut(w) \/ Restart(w)
      PROVE  committed' = committed
  BY <1>3 DEF JoinGeneration, TakeBuffered, Receive, Start, Abandon, Preflight,
     FetchAndParse, Persist, PublishDlq, CommitRefused, Retry,
     BackoffElapsed, DrainTimesOut, Restart, Replace
<1>4. ASSUME NEW w \in Worker, \/ Buffer(w) \/ Rewind(w) \/ RewindFails(w) \/ TaskFails(w)
             \/ PublishFails(w) \/ CommitTimesOut(w) \/ Shutdown(w) \/ Crash(w)
      PROVE  committed' = committed
  BY <1>4 DEF Buffer, Rewind, RewindFails, TaskFails, PublishFails, CommitTimesOut,
     Shutdown, Crash, Replace
<1>5. CASE Rebalance \/ UNCHANGED vars
  BY <1>5 DEF Rebalance, vars
<1> QED
  BY <1>1, <1>2, <1>3, <1>4, <1>5 DEF Next, Loop

LEMMA CommittedNext ==
  ASSUME TypeInv, PrefixInv, ResultInv, LateInv, CommittedInv, [Next]_vars
  PROVE  CommittedInv'
<1>1. Monotone
  BY MonotoneStep
<1>2. \/ committed' = committed
      \/ \E p \in Partition, o \in Nat : UpTo(p, o) /\ StoreOffset(p, o)
  BY OffsetStep
<1> SUFFICES ASSUME NEW p \in Partition
             PROVE  UpTo(p, committed[p])'
  BY DEF CommittedInv, UpTo
<1>3. committed \in [Partition -> Nat] /\ UpTo(p, committed[p])
  BY DEF TypeInv, RuntimeTypeOK, CommittedInv, UpTo
<1>4. PICK o \in Nat : o = committed'[p] /\ UpTo(p, o)
  BY <1>2, <1>3 DEF StoreOffset
<1>5. UpTo(p, o)'
  BY <1>1, <1>4, UpToStays
<1> QED
  BY <1>4, <1>5 DEF UpTo

------------------------------------------------------------------------------
(* Receipts, the outbox and the DLQ. *)
Applying(w) ==
  /\ pc[w] \in {"process", "drain"} /\ stage[w] = "persist"
  /\ ApplyCommand(Command_(w))
  /\ dlq' = dlq /\ committed' = committed

Failing(w) ==
  /\ pc[w] = "publish"
  /\ dlq' = dlq \cup {cur[w].ref}
  /\ UNCHANGED <<receipt, outbox, committed>>

LEMMA StoreStep ==
  ASSUME TypeInv, [Next]_vars
  PROVE  \/ UNCHANGED <<receipt, outbox, dlq>>
         \/ \E w \in Worker : Applying(w) \/ Failing(w)
<1> USE DEF brokerVars, dbVars
<1>1. ASSUME NEW w \in Worker, Persist(w) \/ TaskFails(w)
      PROVE  UNCHANGED <<receipt, outbox, dlq>> \/ Applying(w)
  BY <1>1 DEF Persist, TaskFails, Processing, Applying
<1>2. ASSUME NEW w \in Worker, PublishDlq(w) \/ PublishFails(w)
      PROVE  UNCHANGED <<receipt, outbox, dlq>> \/ Failing(w)
  BY <1>2 DEF PublishDlq, PublishFails, Failing
<1>3. ASSUME NEW w \in Worker, \/ JoinGeneration(w) \/ TakeBuffered(w) \/ Receive(w)
             \/ Start(w) \/ Abandon(w) \/ Preflight(w) \/ FetchAndParse(w)
             \/ CommitOffset(w) \/ CommitRefused(w) \/ Retry(w)
             \/ BackoffElapsed(w) \/ DrainTimesOut(w) \/ Restart(w)
      PROVE  UNCHANGED <<receipt, outbox, dlq>>
  BY <1>3 DEF JoinGeneration, TakeBuffered, Receive, Start, Abandon, Preflight,
     FetchAndParse, CommitOffset, CommitRefused, Retry, BackoffElapsed, DrainTimesOut,
     Restart, Replace
<1>4. ASSUME NEW w \in Worker, \/ Buffer(w) \/ Rewind(w) \/ RewindFails(w)
             \/ CommitTimesOut(w) \/ Shutdown(w) \/ Crash(w)
      PROVE  UNCHANGED <<receipt, outbox, dlq>>
  BY <1>4 DEF Buffer, Rewind, RewindFails, CommitTimesOut, Shutdown, Crash, Replace
<1>5. CASE LateCommit \/ Rebalance \/ UNCHANGED vars
  BY <1>5 DEF LateCommit, Rebalance, vars
<1> QED
  BY <1>1, <1>2, <1>3, <1>4, <1>5 DEF Next, Loop

(* The command a transaction applies, and where it was sent. *)
LEMMA ApplyShape ==
  ASSUME TypeInv, PrefixInv, ResultInv, DlqInv, NEW w \in Worker, Applying(w)
  PROVE  \E c \in Command, p \in Partition, n \in Nat :
           /\ c = Command_(w) /\ n \in 1..Len(Backlog[p]) /\ Backlog[p][n] = c
           /\ <<p, n>> = cur[w].ref
           /\ Prefix(p, n)
           /\ c \notin Rejected /\ c \notin Unusable
           /\ receipt[IdOf[c]] = None /\ IdOf[c] \in CommandId
           /\ \A q \in Partition : \A m \in 1..Len(Backlog[q]) :
                Backlog[q][m] = c => ~Handled(q, m)
<1> DEFINE c == Command_(w)
<1>1. /\ c \in Command /\ cur[w].ref[1] \in Partition /\ cur[w].ref[2] \in Nat
      /\ cur[w].ref[2] \in 1..Len(Backlog[cur[w].ref[1]])
      /\ c = Backlog[cur[w].ref[1]][cur[w].ref[2]] /\ c = CommandAt(cur[w].ref)
      /\ cur[w].ref = <<cur[w].ref[1], cur[w].ref[2]>>
  BY InHandShape DEF Applying, InHand
<1>2. c \notin Rejected /\ c \notin Unusable
  BY <1>1 DEF Applying, ResultInv, ResultOK
<1>3. Prefix(cur[w].ref[1], cur[w].ref[2])
  BY DEF Applying, PrefixInv, Ready, InHand
<1>4. receipt[IdOf[c]] = None /\ IdOf[c] \in CommandId
  BY <1>1, Bounds DEF Applying, ApplyCommand
<1> HIDE DEF c
<1>5. ASSUME NEW q \in Partition, NEW m \in 1..Len(Backlog[q]), Backlog[q][m] = c
      PROVE  ~Handled(q, m)
  <2>1. CommandAt(<<q, m>>) = c
    BY <1>5, RefOfIndex
  <2>2. <<q, m>> \notin dlq
    BY <1>2, <1>4, <2>1 DEF DlqInv, Justified
  <2>3. c # None
    BY <1>1, RuntimeAssumption DEF RuntimeAssumption
  <2> QED
    BY <1>4, <1>5, <2>2, <2>3 DEF Handled
<1>6. c = Command_(w)
  BY DEF c
<1> QED
  BY <1>1, <1>2, <1>3, <1>4, <1>5, <1>6

LEMMA DlqNext ==
  ASSUME TypeInv, ResultInv, DlqInv, [Next]_vars
  PROVE  DlqInv'
<1>1. Monotone
  BY MonotoneStep
<1>2. \A r \in dlq' : r \in dlq \/ \E w \in Worker : pc[w] = "publish" /\ r = cur[w].ref
  BY StoreStep DEF Applying, Failing
<1>3. \A r \in dlq' : r \in Ref /\ Justified(r)
  <2> TAKE r \in dlq'
  <2>1. CASE r \in dlq
    BY <2>1 DEF TypeInv, RuntimeTypeOK, DlqInv
  <2>2. ASSUME NEW w \in Worker, pc[w] = "publish", r = cur[w].ref
        PROVE  r \in Ref /\ Justified(r)
    BY <2>2, InHandShape DEF InHand, ResultInv, ResultOK
  <2> QED
    BY <1>2, <2>1, <2>2
<1> QED
  BY <1>1, <1>3, JustifiedStays DEF DlqInv

LEMMA OutboxNext ==
  ASSUME TypeInv, PrefixInv, ResultInv, DlqInv, OutboxInv, AppliedOnce, AppliedInOrder,
         [Next]_vars
  PROVE  OutboxInv' /\ AppliedOnce' /\ AppliedInOrder'
<1>1. Monotone
  BY MonotoneStep
<1> DEFINE n == Len(outbox)
<1>2. /\ outbox \in Seq(Command) /\ n \in Nat
      /\ \A i \in 1..n : outbox[i] \in Command
                         /\ IdOf[outbox[i]] \in CommandId /\ outbox[i] # None
  <2>1. outbox \in Seq(Command)
    BY DEF TypeInv, RuntimeTypeOK
  <2>2. None \notin Command
    BY RuntimeAssumption DEF RuntimeAssumption
  <2> QED
    BY <2>1, <2>2, Bounds
<1> HIDE DEF n
<1>3. ASSUME NEW i \in 1..n
      PROVE  /\ receipt'[IdOf[outbox[i]]] = outbox[i]
             /\ outbox[i] \notin Rejected
             /\ \E p \in Partition : \E m \in 1..Len(Backlog[p]) :
                  Backlog[p][m] = outbox[i] /\ Prefix(p, m)'
  <2>1. /\ receipt[IdOf[outbox[i]]] = outbox[i] /\ outbox[i] \notin Rejected
        /\ \E p \in Partition : \E m \in 1..Len(Backlog[p]) :
             Backlog[p][m] = outbox[i] /\ Prefix(p, m)
    BY DEF OutboxInv, n
  <2>2. receipt'[IdOf[outbox[i]]] = outbox[i]
    BY <1>1, <1>2, <2>1 DEF Monotone
  <2>3. PICK p \in Partition : \E m \in 1..Len(Backlog[p]) :
          Backlog[p][m] = outbox[i] /\ Prefix(p, m)
    BY <2>1
  <2>4. PICK m \in 1..Len(Backlog[p]) : Backlog[p][m] = outbox[i] /\ Prefix(p, m)
    BY <2>3
  <2>5. Prefix(p, m)'
    BY <1>1, <2>4, PrefixStays
  <2> QED
    BY <2>1, <2>2, <2>4, <2>5
<1>4. CASE outbox' = outbox
  <2>1. OutboxInv'
    BY <1>3, <1>4 DEF OutboxInv, n
  <2> QED
    BY <1>4, <2>1 DEF AppliedOnce, AppliedInOrder
<1>5. ASSUME NEW w \in Worker, Applying(w)
      PROVE  OutboxInv' /\ AppliedOnce' /\ AppliedInOrder'
  <2>1. PICK c \in Command, p \in Partition, k \in Nat :
           /\ c = Command_(w) /\ k \in 1..Len(Backlog[p]) /\ Backlog[p][k] = c
           /\ <<p, k>> = cur[w].ref
           /\ Prefix(p, k)
           /\ c \notin Rejected /\ c \notin Unusable
           /\ receipt[IdOf[c]] = None /\ IdOf[c] \in CommandId
           /\ \A q \in Partition : \A m \in 1..Len(Backlog[q]) :
                Backlog[q][m] = c => ~Handled(q, m)
    BY <1>5, ApplyShape
  <2>2. /\ outbox' = Append(outbox, c) /\ receipt'[IdOf[c]] = c
    BY <1>5, <2>1 DEF Applying, ApplyCommand, TypeInv, RuntimeTypeOK
  <2>3. /\ Len(outbox') = n + 1 /\ outbox'[n + 1] = c
        /\ \A i \in 1..n : outbox'[i] = outbox[i]
        /\ \A i \in 1..(n + 1) : i \in 1..n \/ i = n + 1
    BY <1>2, <2>2 DEF n
  <2>4. Prefix(p, k)'
    BY <1>1, <2>1, PrefixStays
  <2>5. OutboxInv'
    <3>1. ASSUME NEW i \in 1..(n + 1)
          PROVE  /\ receipt'[IdOf[outbox'[i]]] = outbox'[i]
                 /\ outbox'[i] \notin Rejected
                 /\ \E q \in Partition : \E m \in 1..Len(Backlog[q]) :
                      Backlog[q][m] = outbox'[i] /\ Prefix(q, m)'
      <4>1. CASE i \in 1..n
        BY <1>3, <2>3, <4>1
      <4>2. CASE i = n + 1
        BY <2>1, <2>2, <2>3, <2>4, <4>2
      <4> QED
        BY <2>3, <4>1, <4>2
    <3> QED
      BY <2>3, <3>1 DEF OutboxInv
  <2>6. \A i \in 1..n : IdOf[outbox[i]] # IdOf[c]
    BY <1>2, <2>1 DEF OutboxInv, n
  <2>7. AppliedOnce'
    <3>1. ASSUME NEW i \in 1..(n + 1), NEW j \in 1..(n + 1), IdOf[outbox'[i]] = IdOf[outbox'[j]]
          PROVE  i = j
      <4>1. CASE i \in 1..n /\ j \in 1..n
        BY <2>3, <3>1, <4>1 DEF AppliedOnce, n
      <4>2. CASE i = n + 1 \/ j = n + 1
        BY <2>3, <2>6, <3>1, <4>2
      <4> QED
        BY <2>3, <4>1, <4>2
    <3> QED
      BY <2>3, <3>1 DEF AppliedOnce
  <2>8. ASSUME NEW q \in Partition, NEW i \in 1..n, Sent(q, outbox[i]),
               NEW m \in 1..Len(Backlog[q]), Backlog[q][m] = c
        PROVE  SentBefore(q, m, outbox[i])
    <3>1. PICK s \in Partition : \E a \in 1..Len(Backlog[s]) :
            Backlog[s][a] = outbox[i] /\ Prefix(s, a)
      BY DEF OutboxInv, n
    <3>2. PICK a \in 1..Len(Backlog[s]) : Backlog[s][a] = outbox[i] /\ Prefix(s, a)
      BY <3>1
    <3>3. PICK b \in 1..Len(Backlog[q]) : Backlog[q][b] = outbox[i]
      BY <2>8 DEF Sent
    <3>4. outbox[i] \notin Rejected /\ IdOf[outbox[i]] # IdOf[c]
      BY <2>6 DEF OutboxInv, n
    <3>5. s = q
      BY <3>2, <3>3, <3>4, RuntimeAssumption DEF RuntimeAssumption
    <3>6. ~(m < a)
      BY <2>1, <2>8, <3>2, <3>5 DEF Prefix
    <3>7. m # a
      BY <2>8, <3>2, <3>4, <3>5
    <3>8. a \in 1..(m - 1)
      BY <3>2, <3>5, <3>6, <3>7
    <3> QED
      BY <3>2, <3>5, <3>8 DEF SentBefore
  <2>9. AppliedInOrder'
    <3>1. ASSUME NEW q \in Partition, NEW i \in 1..(n + 1), NEW j \in 1..(n + 1),
                 i < j, Sent(q, outbox'[i]),
                 NEW m \in 1..Len(Backlog[q]), Backlog[q][m] = outbox'[j]
          PROVE  SentBefore(q, m, outbox'[i])
      <4>1. i \in 1..n /\ outbox'[i] = outbox[i]
        BY <1>2, <2>3, <3>1
      <4>2. CASE j \in 1..n
        BY <2>3, <3>1, <4>1, <4>2 DEF AppliedInOrder, n
      <4>3. CASE j = n + 1
        BY <2>3, <2>8, <3>1, <4>1, <4>3
      <4> QED
        BY <2>3, <4>2, <4>3
    <3>2. Len(outbox') = n + 1
      BY <2>3
    <3>3. ASSUME NEW q \in Partition, NEW i \in 1..Len(outbox'), NEW j \in 1..Len(outbox'),
                 i < j, Sent(q, outbox'[i]),
                 NEW m \in 1..Len(Backlog[q]), Backlog[q][m] = outbox'[j]
          PROVE  SentBefore(q, m, outbox'[i])
      BY <3>1, <3>2, <3>3
    <3> QED
      BY <3>3 DEF AppliedInOrder, Sent, SentBefore
  <2> QED
    BY <2>5, <2>7, <2>9
<1> QED
  BY <1>4, <1>5, StoreStep DEF Failing

------------------------------------------------------------------------------
(* The inductive invariant. *)
LEMMA TypeNext ==
  ASSUME TypeInv, ClientInv, [Next]_vars
  PROVE  TypeInv'
BY TypeLocal, TypeStore, TypeClient, TypeGroup DEF Next, Loop

LEMMA SafetyInit == Init => SafetyInv
<1> SUFFICES ASSUME Init PROVE SafetyInv
  OBVIOUS
<1>1. TypeInv
  BY TypeInit
<1>2. /\ \A w \in Worker : /\ epoch[w] = 0 /\ assigned[w] = {} /\ buffer[w] = <<>>
                           /\ cur[w] = NoRecord /\ pc[w] = "idle"
      /\ generation = 1 /\ late = {} /\ dlq = {} /\ outbox = <<>>
      /\ \A p \in Partition : committed[p] = 0
  BY DEF Init
<1>3. ASSUME NEW w \in Worker
      PROVE  ClientOK(w)
  <2>1. EpochOK(w)
    BY <1>2 DEF EpochOK, NoRecord
  <2>2. OwnedSuffix(w, 0) /\ 0 \in 0..Len(buffer[w])
    BY <1>2 DEF OwnedSuffix
  <2>3. BufferOrdered(w) /\ CurBeforeBuffer(w) /\ SkipsNothing(w)
    BY <1>2 DEF BufferOrdered, CurBeforeBuffer, SkipsNothing, InHand
  <2> QED
    BY <2>1, <2>2, <2>3 DEF ClientOK, SuffixOK
<1>4. PrefixInv /\ ResultInv
  BY <1>2 DEF PrefixInv, Ready, ResultInv, ResultOK, InHand
<1>5. LateInv /\ CommittedInv /\ DlqInv
  BY <1>2 DEF LateInv, CommittedInv, DlqInv
<1>6. OutboxInv /\ AppliedOnce /\ AppliedInOrder
  BY <1>2 DEF OutboxInv, AppliedOnce, AppliedInOrder
<1> QED
  BY <1>1, <1>3, <1>4, <1>5, <1>6 DEF SafetyInv, ClientInv

LEMMA SafetyNext ==
  ASSUME SafetyInv, [Next]_vars
  PROVE  SafetyInv'
<1> USE DEF SafetyInv
<1>1. TypeInv' /\ ClientInv'
  BY TypeNext, ClientNext
<1>2. PrefixInv' /\ ResultInv'
  BY PrefixNext, ResultNext
<1>3. LateInv' /\ CommittedInv' /\ DlqInv'
  BY LateNext, CommittedNext, DlqNext
<1>4. OutboxInv' /\ AppliedOnce' /\ AppliedInOrder'
  BY OutboxNext
<1> QED
  BY <1>1, <1>2, <1>3, <1>4

LEMMA SafetyAlways == Spec => []SafetyInv
BY SafetyInit, SafetyNext, PTL DEF Spec

(* Every reachable state is well typed; in particular the buffer of a worker
   never outgrows MAX_RETRY_BUFFERED_MESSAGES, whatever rebalances bring new
   partitions while a command is processed. *)
THEOREM RuntimeTypeCorrect == Spec => []RuntimeTypeOK
<1>1. SafetyInv => RuntimeTypeOK
  BY DEF SafetyInv, TypeInv
<1> QED
  BY <1>1, SafetyAlways, PTL

(* No offset is committed over a record that is neither applied nor
   dead-lettered, and no pause, rewind or rebalance makes a client pass one. *)
THEOREM NoRecordLost == Spec => [](CommittedHandled /\ NothingSkipped)
<1>1. SafetyInv => CommittedHandled
  BY DEF SafetyInv, CommittedInv, CommittedHandled
<1>2. SafetyInv => NothingSkipped
  <2> SUFFICES ASSUME SafetyInv, NEW w \in Worker, NEW p \in assigned[w],
                      NEW i \in 1..pos[w][p], ~Handled(p, i)
               PROVE  \E r \in Outstanding(w) : r.ref = <<p, i>>
    BY DEF NothingSkipped, SafetyInv, TypeInv, RuntimeTypeOK
  <2>1. InClient(w, p, i)
    BY DEF SafetyInv, ClientInv, ClientOK, SkipsNothing
  <2> QED
    BY <2>1 DEF InClient, Outstanding
<1> QED
  BY <1>1, <1>2, SafetyAlways, PTL

(* However many workers hold the same command at once, it is applied once. *)
THEOREM AppliedExactlyOnce == Spec => []AppliedOnce
<1>1. SafetyInv => AppliedOnce
  BY DEF SafetyInv
<1> QED
  BY <1>1, SafetyAlways, PTL

(* The commands of a partition are applied in the order they were sent, even by
   workers that lost the partition while they worked. *)
THEOREM AppliedInTheOrderSent == Spec => []AppliedInOrder
<1>1. SafetyInv => AppliedInOrder
  BY DEF SafetyInv
<1> QED
  BY <1>1, SafetyAlways, PTL

------------------------------------------------------------------------------
(* The refinement. *)
LEMMA HandledIsDone ==
  ASSUME NEW p \in Partition, NEW i \in 1..Len(Backlog[p]), Handled(p, i)
  PROVE  Backlog[p][i] \in Done
BY RefOfIndex DEF Handled, Done

LEMMA OwedShape ==
  ASSUME NEW r \in Ref, r[2] > committed[r[1]]
  PROVE  CommandAt(r) \in Owed
BY DEF Owed

LEMMA OwedIsCommand == Owed \subseteq Command /\ Owed' \subseteq Command
BY RefShape DEF Owed, CommandAt

(* A committed offset moves: what is no longer owed is done. *)
LEMMA MoveOffset ==
  ASSUME SafetyInv, CommittedInv', UNCHANGED <<receipt, outbox, dlq>>,
         NEW p \in Partition, NEW o \in Nat, StoreOffset(p, o)
  PROVE  Promised!Next
<1>1. Done' = Done
  BY DEF Done, CommandAt
<1>2. /\ committed \in [Partition -> Nat]
      /\ committed' = [committed EXCEPT ![p] = o]
  BY DEF SafetyInv, TypeInv, RuntimeTypeOK, StoreOffset
<1>3. CASE o <= committed[p]
  <2>1. \A r \in Ref : r[2] > committed[r[1]] => r[2] > committed'[r[1]]
    <3> TAKE r \in Ref
    <3>1. r[1] \in Partition /\ r[2] \in Nat
      BY RefShape
    <3> QED
      BY <1>2, <1>3, <3>1
  <2>2. Owed \subseteq Owed'
    BY <2>1 DEF Owed, CommandAt
  <2>3. Owed' = Owed \cup Owed' /\ Owed' \in SUBSET Command
    BY <2>2, OwedIsCommand
  <2> QED
    BY <1>1, <2>3 DEF Promised!Next, Promised!Recall
<1>4. CASE o > committed[p]
  <2> DEFINE E == Owed \ Owed'
  <2>1. \A r \in Ref : r[2] > committed'[r[1]] => r[2] > committed[r[1]]
    <3> TAKE r \in Ref
    <3>1. r[1] \in Partition /\ r[2] \in Nat
      BY RefShape
    <3> QED
      BY <1>2, <1>4, <3>1
  <2>2. Owed' \subseteq Owed
    BY <2>1 DEF Owed, CommandAt
  <2>3. E \subseteq Done
    <3> SUFFICES ASSUME NEW r \in Ref, r[2] > committed[r[1]], CommandAt(r) \notin Owed'
                 PROVE  CommandAt(r) \in Done
      BY DEF Owed
    <3>1. r[1] \in Partition /\ r[2] \in 1..Len(Backlog[r[1]]) /\ r[2] \in Nat
      BY RefShape
    <3>2. ~(r[2] > committed'[r[1]])
      BY DEF Owed, CommandAt
    <3>3. r[2] \in 1..committed'[r[1]]
      BY <1>2, <3>1, <3>2
    <3>4. Handled(r[1], r[2])
      BY <1>1, <3>1, <3>3 DEF CommittedInv, Handled
    <3> QED
      BY <3>1, <3>4, HandledIsDone DEF CommandAt
  <2>4. Owed' = Owed \ E /\ E \in SUBSET Command
    BY <2>2, OwedIsCommand
  <2> HIDE DEF E
  <2> QED
    BY <1>1, <2>3, <2>4 DEF Promised!Next, Promised!Forget
<1>5. o <= committed[p] \/ o > committed[p]
  BY <1>2
<1> QED
  BY <1>3, <1>4, <1>5

LEMMA SettleStep ==
  ASSUME SafetyInv, NEW w \in Worker, Applying(w) \/ Failing(w)
  PROVE  [Promised!Next]_<<Owed, Done>>
<1>1. Owed' = Owed
  BY DEF Applying, Failing, Owed, CommandAt
<1>2. ASSUME NEW c \in Command, NEW p \in Partition, NEW k \in 1..Len(Backlog[p]),
             Backlog[p][k] = c, Done' = Done \cup {c}
      PROVE  [Promised!Next]_<<Owed, Done>>
  <2>1. CASE k > committed[p]
    <3>1. <<p, k>> \in Ref /\ CommandAt(<<p, k>>) = c
      BY <1>2, RefOfIndex
    <3>2. c \in Owed
      BY <2>1, <3>1 DEF Owed
    <3> QED
      BY <1>1, <1>2, <3>2 DEF Promised!Next, Promised!Settle
  <2>2. CASE ~(k > committed[p])
    <3>1. committed[p] \in Nat
      BY DEF SafetyInv, TypeInv, RuntimeTypeOK
    <3>2. k \in 1..committed[p]
      BY <2>2, <3>1
    <3>3. Handled(p, k)
      BY <3>2 DEF SafetyInv, CommittedInv
    <3>4. c \in Done
      BY <1>2, <3>3, HandledIsDone
    <3> QED
      BY <1>1, <1>2, <3>4
  <2> QED
    BY <2>1, <2>2
<1>3. CASE Applying(w)
  <2>1. PICK c \in Command, p \in Partition, k \in Nat :
           /\ c = Command_(w) /\ k \in 1..Len(Backlog[p]) /\ Backlog[p][k] = c
           /\ receipt[IdOf[c]] = None /\ IdOf[c] \in CommandId
    BY <1>3, ApplyShape DEF SafetyInv
  <2>2. /\ receipt' = [receipt EXCEPT ![IdOf[c]] = c] /\ dlq' = dlq
        /\ receipt \in [CommandId -> Command \cup {None}]
    BY <1>3, <2>1 DEF Applying, ApplyCommand, SafetyInv, TypeInv, RuntimeTypeOK
  <2>3. \A d \in Command : receipt'[IdOf[d]] = d <=> receipt[IdOf[d]] = d \/ d = c
    <3> TAKE d \in Command
    <3>1. IdOf[d] \in CommandId /\ None # d
      BY Bounds, RuntimeAssumption DEF RuntimeAssumption
    <3>2. CASE IdOf[d] = IdOf[c]
      BY <2>1, <2>2, <3>1, <3>2
    <3>3. CASE IdOf[d] # IdOf[c]
      BY <2>2, <3>1, <3>3
    <3> QED
      BY <3>2, <3>3
  <2>4. Done' = Done \cup {c}
    BY <2>2, <2>3 DEF Done, CommandAt
  <2> QED
    BY <1>2, <2>1, <2>4
<1>4. CASE Failing(w)
  <2>1. /\ cur[w].ref[1] \in Partition /\ cur[w].ref[2] \in 1..Len(Backlog[cur[w].ref[1]])
        /\ CommandAt(cur[w].ref) = Backlog[cur[w].ref[1]][cur[w].ref[2]]
        /\ CommandAt(cur[w].ref) \in Command
    BY <1>4, InHandShape DEF Failing, InHand, SafetyInv
  <2>2. PICK c \in Command : c = CommandAt(cur[w].ref)
    BY <2>1
  <2>3. dlq' = dlq \cup {cur[w].ref} /\ receipt' = receipt
    BY <1>4 DEF Failing
  <2>4. Done' = Done \cup {c}
    BY <2>2, <2>3 DEF Done, CommandAt
  <2> QED
    BY <1>2, <2>1, <2>2, <2>4
<1> QED
  BY <1>3, <1>4

(* The pool of workers implements the promise of AtLeastOnce: Kafka stops owing
   a command only when it is applied or dead-lettered, and nothing else is ever
   settled. *)
THEOREM RuntimeKeepsPromise == Spec => PromiseSpec
<1>1. Init => Promised!Init
  <2> SUFFICES ASSUME Init PROVE Promised!Init
    OBVIOUS
  <2>1. \A c \in Command : receipt[IdOf[c]] # c
    BY Bounds, RuntimeAssumption DEF Init, RuntimeAssumption
  <2>2. Done = {}
    BY <2>1 DEF Init, Done
  <2> QED
    BY <2>2, OwedIsCommand DEF Promised!Init
<1>2. SafetyInv /\ SafetyInv' /\ [Next]_vars => [Promised!Next]_Promised!vars
  <2> SUFFICES ASSUME SafetyInv, SafetyInv', [Next]_vars
               PROVE  [Promised!Next]_<<Owed, Done>>
    BY DEF Promised!vars
  <2>1. CASE ~UNCHANGED committed
    BY <2>1, OffsetStep, MoveOffset DEF SafetyInv
  <2>2. CASE UNCHANGED committed /\ UNCHANGED <<receipt, outbox, dlq>>
    BY <2>2 DEF Owed, Done, CommandAt
  <2>3. CASE \E w \in Worker : Applying(w) \/ Failing(w)
    BY <2>3, SettleStep
  <2> QED
    BY <2>1, <2>2, <2>3, StoreStep DEF SafetyInv
<1> QED
  BY <1>1, <1>2, SafetyAlways, PTL DEF Spec, PromiseSpec, Promised!Spec
============================================================================
