------------------------ MODULE ConsumerGroupProofs ------------------------
(***************************************************************************)
(* Proofs about ConsumerGroup for any replicas, partitions, backlog, retry *)
(* budget and number of faults: types, what a step may do to the log, that *)
(* no event is lost by a group that recreates its reader after an error,   *)
(* and that such a group keeps the promise of AtLeastOnce.                 *)
(***************************************************************************)
EXTENDS ConsumerGroup, TLAPS

(* A replica that is not idle works on a message the broker holds. *)
RefOK == \A w \in Worker : pc[w] # "idle" => cur[w] \in Messages

TypeInv == GroupTypeOK /\ RefOK

(* A message reference is a partition and an offset of its log. *)
LEMMA MessageRef ==
  ASSUME NEW m
  PROVE  m \in Messages <=>
           \E p \in Partition : \E i \in 1..Len(log[p]) : m = <<p, i>>
BY DEF Messages

(* What the broker holds for a reference is a message of the right shape. *)
LEMMA MessageShape ==
  ASSUME GroupTypeOK, NEW m \in Messages
  PROVE  /\ EventOf(m) \in Event
         /\ RetryCount(m) \in 0..MaxRetries
         /\ m \in Partition \X Nat
<1>0. PICK p \in Partition : \E i \in 1..Len(log[p]) : m = <<p, i>>
  BY MessageRef
<1>1. PICK i \in 1..Len(log[p]) : m = <<p, i>>
  BY <1>0
<1>2. log[p][i] \in Message
  BY <1>1 DEF GroupTypeOK
<1> QED
  BY <1>1, <1>2 DEF Message, EventOf, RetryCount, GroupTypeOK

(* Appending one message to one partition keeps every reference valid. *)
Appends(p, msg) == log' = [log EXCEPT ![p] = Append(@, msg)]

LEMMA AppendKeeps ==
  ASSUME GroupTypeOK, NEW p \in Partition, NEW msg \in Message, Appends(p, msg)
  PROVE  /\ log' \in [Partition -> Seq(Message)]
         /\ \A m \in Messages : /\ m \in Messages'
                                /\ EventOf(m)' = EventOf(m)
                                /\ RetryCount(m)' = RetryCount(m)
         /\ \E i \in Nat : /\ i = Len(log[p]) + 1
                            /\ <<p, i>> \in Messages' /\ <<p, i>> \notin Messages
                            /\ EventOf(<<p, i>>)' = msg.ev
                            /\ RetryCount(<<p, i>>)' = msg.count
<1>1. /\ log' \in [Partition -> Seq(Message)]
      /\ \A q \in Partition : q # p => log'[q] = log[q]
      /\ log'[p] = Append(log[p], msg)
      /\ Len(log'[p]) = Len(log[p]) + 1
      /\ log'[p][Len(log[p]) + 1] = msg
      /\ \A i \in 1..Len(log[p]) : log'[p][i] = log[p][i]
  BY DEF GroupTypeOK, Appends
<1>2. ASSUME NEW m \in Messages
      PROVE  /\ m \in Messages'
             /\ EventOf(m)' = EventOf(m)
             /\ RetryCount(m)' = RetryCount(m)
  <2>0. PICK q \in Partition : \E i \in 1..Len(log[q]) : m = <<q, i>>
    BY MessageRef
  <2>1. PICK i \in 1..Len(log[q]) : m = <<q, i>>
    BY <2>0
  <2>2. i \in 1..Len(log'[q]) /\ log'[q][i] = log[q][i]
    <3>1. Len(log[q]) \in Nat
      BY DEF GroupTypeOK
    <3>2. CASE q = p
      BY <1>1, <2>1, <3>1, <3>2
    <3>3. CASE q # p
      BY <1>1, <2>1, <3>1, <3>3
    <3> QED
      BY <3>2, <3>3
  <2> QED
    BY <2>1, <2>2 DEF Messages, EventOf, RetryCount
<1>3. Len(log[p]) \in Nat
  BY DEF GroupTypeOK
<1>4. PICK n \in Nat : n = Len(log[p]) + 1
  BY <1>3
<1>5. <<p, n>> \in Messages'
  BY <1>1, <1>3, <1>4 DEF Messages
<1>6. <<p, n>> \notin Messages
  <2>1. n \notin 1..Len(log[p])
    BY <1>3, <1>4
  <2> QED
    BY <2>1 DEF Messages
<1>7. EventOf(<<p, n>>)' = msg.ev /\ RetryCount(<<p, n>>)' = msg.count
  BY <1>1, <1>4 DEF EventOf, RetryCount
<1> QED
  BY <1>1, <1>2, <1>4, <1>5, <1>6, <1>7
------------------------------------------------------------------------------
(* The log grows by a copy of a message some replica holds, by one that CDC
   publishes again, or not at all. *)
CopyOf(msg, m) ==
  msg.ev = EventOf(m) /\ msg.count \in {RetryCount(m), RetryCount(m) + 1}

LEMMA CopyAppends ==
  ASSUME TypeInv, NEW w \in Worker, pc[w] = "failed",
         RetryCount(cur[w]) < MaxRetries, PublishCopy(w)
  PROVE  \E p \in Retry, msg \in Message :
           /\ Appends(p, msg)
           /\ msg.ev = EventOf(cur[w])
           /\ msg.count = RetryCount(cur[w]) + 1
<1>1. cur[w] \in Messages
  BY DEF TypeInv, RefOK
<1>2. EventOf(cur[w]) \in Event /\ RetryCount(cur[w]) \in 0..MaxRetries
  BY <1>1, MessageShape DEF TypeInv
<1>3. RetryCount(cur[w]) + 1 \in 0..MaxRetries
  BY <1>2, GroupAssumption DEF GroupAssumption
<1>4. [ev |-> EventOf(cur[w]), count |-> RetryCount(cur[w]) + 1] \in Message
  BY <1>2, <1>3 DEF Message
<1> QED
  BY <1>4 DEF PublishCopy, Appends

LEMMA CdcAppends ==
  ASSUME TypeInv, CdcRedeliver
  PROVE  \E p \in Primary, msg \in Message :
           Appends(p, msg) /\ \E m \in Messages : CopyOf(msg, m)
<1>0. PICK p \in Primary : \E i \in 1..Len(log[p]) :
              log' = [log EXCEPT ![p] = Append(@, log[p][i])]
  BY DEF CdcRedeliver
<1>1. PICK i \in 1..Len(log[p]) : log' = [log EXCEPT ![p] = Append(@, log[p][i])]
  BY <1>0
<1>2. log[p][i] \in Message
  BY DEF TypeInv, GroupTypeOK, Partition
<1>3. <<p, i>> \in Messages /\ CopyOf(log[p][i], <<p, i>>)
  BY DEF Messages, EventOf, RetryCount, CopyOf, Partition
<1> QED
  BY <1>1, <1>2, <1>3 DEF Appends

LEMMA LogStep ==
  ASSUME TypeInv, [GroupNext]_groupVars
  PROVE  \/ UNCHANGED log
         \/ \E p \in Partition, msg \in Message :
              Appends(p, msg) /\ \E m \in Messages : CopyOf(msg, m)
<1>1. CASE UNCHANGED groupVars
  BY <1>1 DEF groupVars
<1>2. CASE CdcRedeliver
  BY <1>2, CdcAppends DEF Partition
<1>3. CASE Rebalance
  BY <1>3 DEF Rebalance
<1>4. ASSUME NEW w \in Worker, PublishRetry(w) \/ PublishFails(w), log' # log
      PROVE  \E p \in Partition, msg \in Message :
               Appends(p, msg) /\ \E m \in Messages : CopyOf(msg, m)
  <2>1. pc[w] = "failed" /\ RetryCount(cur[w]) < MaxRetries /\ PublishCopy(w)
    BY <1>4 DEF PublishRetry, PublishFails
  <2>2. cur[w] \in Messages
    BY <2>1 DEF TypeInv, RefOK
  <2> QED
    BY <2>1, <2>2, CopyAppends DEF Partition, CopyOf
<1>5. ASSUME NEW w \in Worker, Cycle(w) \/ WorkerFault(w),
             ~PublishRetry(w), ~PublishFails(w)
      PROVE  UNCHANGED log
  BY <1>5 DEF Cycle, WorkerFault, Fetch, Process, ProcessOk, ProcessFails,
              ProcessUnavailable, PublishDLQ, Commit, CommitFails, OnError,
              Crash, kafkaVars
<1> QED
  BY <1>1, <1>2, <1>3, <1>4, <1>5 DEF GroupNext

LEMMA LogGrows ==
  ASSUME TypeInv, [GroupNext]_groupVars
  PROVE  /\ log' \in [Partition -> Seq(Message)]
         /\ \A m \in Messages : /\ m \in Messages'
                                /\ EventOf(m)' = EventOf(m)
                                /\ RetryCount(m)' = RetryCount(m)
<1>1. CASE UNCHANGED log
  BY <1>1 DEF Messages, EventOf, RetryCount, TypeInv, GroupTypeOK
<1>2. CASE \E p \in Partition, msg \in Message : Appends(p, msg)
  BY <1>2, AppendKeeps DEF TypeInv
<1> QED
  BY <1>1, <1>2, LogStep

------------------------------------------------------------------------------
(* The initial state and every step keep TypeInv. *)
LEMMA TypeInit == GroupInit => TypeInv
<1> SUFFICES ASSUME GroupInit PROVE TypeInv
  OBVIOUS
<1>1. log \in [Partition -> Seq(Message)]
  <2>1. ASSUME NEW p \in Primary
        PROVE  [i \in 1..Len(Backlog[p]) |-> [ev |-> Backlog[p][i], count |-> 0]]
                 \in Seq(Message)
    <3>1. Backlog[p] \in Seq(Event) /\ Len(Backlog[p]) \in Nat
      BY GroupAssumption DEF GroupAssumption
    <3>2. \A i \in 1..Len(Backlog[p]) : [ev |-> Backlog[p][i], count |-> 0] \in Message
      BY <3>1, GroupAssumption DEF GroupAssumption, Message
    <3> QED
      BY <3>1, <3>2
  <2>2. <<>> \in Seq(Message)
    OBVIOUS
  <2> QED
    BY <2>1, <2>2 DEF GroupInit
<1>2. /\ pos \in [Partition -> Nat] /\ committed \in [Partition -> Nat]
      /\ cur \in [Worker -> {NoRef} \cup (Partition \X Nat)]
      /\ pc \in [Worker -> Step]
      /\ faults \in 0..MaxFaults
  BY GroupAssumption DEF GroupInit, GroupAssumption, Step
<1>3. RefOK
  BY DEF GroupInit, RefOK
<1> QED
  BY <1>1, <1>2, <1>3 DEF TypeInv, GroupTypeOK, GroupInit

LEMMA TypeNext == TypeInv /\ [GroupNext]_groupVars => TypeInv'
<1> SUFFICES ASSUME TypeInv, [GroupNext]_groupVars PROVE TypeInv'
  OBVIOUS
<1>1. /\ log' \in [Partition -> Seq(Message)]
      /\ \A m \in Messages : m \in Messages'
  BY LogGrows
<1>2. ASSUME NEW w \in Worker, pc[w] # "idle"
      PROVE  /\ cur[w] \in Messages
             /\ cur[w] \in Partition \X Nat
             /\ EventOf(cur[w]) \in Event
             /\ cur[w][1] \in Partition /\ cur[w][2] \in Nat
  BY <1>2, MessageShape DEF TypeInv, RefOK
<1>3. \A w \in Worker : PublishRetry(w) => pc[w] # "idle"
  BY DEF PublishRetry
<1>f. Fault \/ faults' = faults => faults' \in 0..MaxFaults
  BY GroupAssumption DEF Fault, GroupAssumption, TypeInv, GroupTypeOK
<1>4. ASSUME NEW w \in Worker, Cycle(w) \/ WorkerFault(w)
      PROVE  TypeInv'
  <2>1. CASE Fetch(w)
    <3>0. PICK p \in Partition :
                /\ pos[p] < Len(log[p])
                /\ pos' = [pos EXCEPT ![p] = @ + 1]
                /\ cur' = [cur EXCEPT ![w] = <<p, pos[p] + 1>>]
      BY <2>1 DEF Fetch
    <3>1. pos[p] \in Nat /\ Len(log[p]) \in Nat
      BY DEF TypeInv, GroupTypeOK
    <3>2. pos[p] + 1 \in 1..Len(log[p])
      BY <3>0, <3>1
    <3>3. <<p, pos[p] + 1>> \in Messages
      BY <3>2 DEF Messages
    <3>4. /\ pos' \in [Partition -> Nat]
          /\ cur' \in [Worker -> {NoRef} \cup (Partition \X Nat)]
          /\ pc' \in [Worker -> Step]
      BY <2>1, <3>0, <3>1 DEF Fetch, Goto, TypeInv, GroupTypeOK, Step
    <3>5. RefOK'
      BY <2>1, <3>0, <3>3, <1>1 DEF Fetch, Goto, TypeInv, GroupTypeOK, RefOK
    <3> QED
      BY <2>1, <3>4, <3>5, <1>1, <1>f DEF Fetch, TypeInv, GroupTypeOK
  <2>2. CASE /\ ProcessOk(w) \/ ProcessFails(w) \/ ProcessUnavailable(w)
                \/ PublishRetry(w) \/ PublishDLQ(w) \/ PublishFails(w)
    <3>1. /\ pc[w] # "idle"
          /\ \E s \in Step : Goto(w, s)
          /\ UNCHANGED <<committed, owner, pos, cur>>
          /\ settled' \in {settled, settled \cup {EventOf(cur[w])}}
          /\ deadLettered' \in {deadLettered, deadLettered \cup {EventOf(cur[w])}}
          /\ discharged' \in {discharged, discharged \cup {cur[w]}}
          /\ Fault \/ faults' = faults
      BY <2>2 DEF ProcessOk, ProcessFails, ProcessUnavailable, PublishRetry,
                  PublishDLQ, PublishFails, kafkaVars, resultVars, Step
    <3>2. GroupTypeOK'
      BY <3>1, <1>1, <1>2, <1>f DEF TypeInv, GroupTypeOK, Goto
    <3>3. RefOK'
      BY <3>1, <1>1, <1>2 DEF TypeInv, GroupTypeOK, RefOK, Goto
    <3> QED
      BY <3>2, <3>3 DEF TypeInv
  <2>3. CASE Commit(w) \/ CommitFails(w) \/ OnError(w) \/ Crash(w)
    <3>1. /\ pc[w] # "idle"
          /\ StoreOffset(w) \/ UNCHANGED committed
          /\ Done(w) \/ (UNCHANGED cur /\ Goto(w, "error"))
          /\ Regroup \/ UNCHANGED <<owner, pos>>
          /\ UNCHANGED <<settled, deadLettered, discharged>>
          /\ Fault \/ faults' = faults
      BY <2>3 DEF Commit, CommitFails, OnError, Crash, resultVars
    <3>2. committed' \in [Partition -> Nat]
      BY <3>1, <1>2 DEF StoreOffset, TypeInv, GroupTypeOK
    <3>3. /\ owner' \in [Partition -> Worker]
          /\ pos' \in [Partition -> Nat]
      BY <3>1 DEF Regroup, TypeInv, GroupTypeOK
    <3>4. /\ cur' \in [Worker -> {NoRef} \cup (Partition \X Nat)]
          /\ pc' \in [Worker -> Step]
      BY <3>1 DEF Done, Goto, TypeInv, GroupTypeOK, Step
    <3>5. RefOK'
      BY <3>1, <1>1, <1>2 DEF Done, Goto, TypeInv, GroupTypeOK, RefOK
    <3> QED
      BY <3>1, <3>2, <3>3, <3>4, <3>5, <1>1, <1>f DEF TypeInv, GroupTypeOK
  <2> QED
    BY <1>4, <2>1, <2>2, <2>3 DEF Cycle, WorkerFault, Process
<1>5. CASE Rebalance
  BY <1>5, <1>1, <1>f DEF Rebalance, Regroup, TypeInv, GroupTypeOK, RefOK, resultVars
<1>6. CASE CdcRedeliver
  BY <1>6, <1>1, <1>f DEF CdcRedeliver, TypeInv, GroupTypeOK, RefOK, resultVars
<1>7. CASE UNCHANGED groupVars
  BY <1>7, <1>1, <1>f DEF groupVars, TypeInv, GroupTypeOK, RefOK
<1> QED
  BY <1>4, <1>5, <1>6, <1>7 DEF GroupNext

(* Types are correct, and a replica that is not idle always works on a message
   the broker holds. *)
THEOREM GroupTypeCorrect == GroupSpec => [](GroupTypeOK /\ RefOK)
BY TypeInit, TypeNext, PTL DEF GroupSpec, TypeInv

------------------------------------------------------------------------------
(* The inductive invariant behind NoEventLost, for a group that recreates its
   reader after every error. What its parts say, besides CommittedHandled:    *)

(* The reader of a partition is at most one message ahead of what has been
   discharged, and that message is the one its worker holds. *)
ReaderInStep ==
  \A p \in Partition : \A j \in 1..pos[p] :
    \/ <<p, j>> \in discharged
    \/ cur[owner[p]] = <<p, j>> /\ pc[owner[p]] # "idle"

(* Whoever works on a message, all the messages before it are discharged. *)
PrefixDischarged ==
  \A w \in Worker : pc[w] # "idle" =>
    \A j \in 1..(cur[w][2] - 1) : <<cur[w][1], j>> \in discharged

(* A worker commits only what it has discharged. *)
CommitsDischarged == \A w \in Worker : pc[w] = "commit" => cur[w] \in discharged

(* An event that is not handled has a message nobody has discharged. *)
Undischarged ==
  \A m \in Messages : \/ EventOf(m) \in Handled
                      \/ \E k \in Messages \ discharged : EventOf(k) = EventOf(m)

(* Only messages are discharged. *)
DischargedExist == discharged \subseteq Messages

PositionInv ==
  CommittedHandled /\ ReaderInStep /\ PrefixDischarged /\ CommitsDischarged

EventInv == Undischarged /\ DischargedExist

SafetyInv == TypeInv /\ PositionInv /\ EventInv

(* Nothing is ever taken back. *)
LEMMA ResultsGrow ==
  ASSUME [GroupNext]_groupVars
  PROVE  /\ settled \subseteq settled'
         /\ deadLettered \subseteq deadLettered'
         /\ discharged \subseteq discharged'
BY DEF GroupNext, groupVars, Cycle, WorkerFault, Fetch, Process, ProcessOk,
       ProcessFails, ProcessUnavailable, PublishRetry, PublishDLQ, PublishFails,
       Commit, CommitFails, OnError, Crash, Rebalance, CdcRedeliver, resultVars

(* Readers that restart from the committed offsets are in step. *)
LEMMA RegroupInStep ==
  ASSUME TypeInv, CommittedHandled, Regroup, UNCHANGED <<committed, discharged>>
  PROVE  ReaderInStep' /\ CommittedHandled'
BY DEF CommittedHandled, Regroup, ReaderInStep

LEMMA PositionStep ==
  ASSUME RecreateReader, TypeInv, PositionInv, [GroupNext]_groupVars
  PROVE  PositionInv'
<1> USE DEF PositionInv
<1>1. discharged \subseteq discharged'
  BY ResultsGrow
<1>2. ASSUME NEW w \in Worker, Cycle(w) \/ WorkerFault(w)
      PROVE  PositionInv'
  <2>1. CASE Fetch(w)
    <3>0. PICK p \in Partition :
                /\ owner[p] = w
                /\ pos' = [pos EXCEPT ![p] = @ + 1]
                /\ cur' = [cur EXCEPT ![w] = <<p, pos[p] + 1>>]
      BY <2>1 DEF Fetch
    <3>1. /\ pc[w] = "idle" /\ pc' = [pc EXCEPT ![w] = "process"]
          /\ UNCHANGED <<committed, owner, discharged>>
      BY <2>1 DEF Fetch, Goto
    <3>2. pos[p] \in Nat /\ cur'[w] = <<p, pos[p] + 1>> /\ pc'[w] = "process"
      BY <3>0, <3>1 DEF TypeInv, GroupTypeOK
    <3>3. \A j \in 1..pos[p] : <<p, j>> \in discharged
      BY <3>0, <3>1 DEF ReaderInStep
    <3>4. ReaderInStep'
      <4>1. ASSUME NEW q \in Partition, NEW j \in 1..pos'[q]
            PROVE  \/ <<q, j>> \in discharged'
                   \/ cur'[owner'[q]] = <<q, j>> /\ pc'[owner'[q]] # "idle"
        <5>1. CASE q = p
          <6>1. pos'[p] = pos[p] + 1
            BY <3>0 DEF TypeInv, GroupTypeOK
          <6>2. j \in 1..pos[p] \/ j = pos[p] + 1
            BY <4>1, <5>1, <6>1, <3>2
          <6> QED
            BY <3>0, <3>1, <3>2, <3>3, <5>1, <6>2
        <5>2. CASE q # p
          <6>1. pos'[q] = pos[q]
            BY <3>0, <5>2 DEF TypeInv, GroupTypeOK
          <6>2. \/ <<q, j>> \in discharged
                \/ cur[owner[q]] = <<q, j>> /\ pc[owner[q]] # "idle"
            BY <6>1 DEF ReaderInStep
          <6>3. owner[q] \in Worker
            BY DEF TypeInv, GroupTypeOK
          <6> QED
            BY <6>2, <6>3, <3>0, <3>1 DEF TypeInv, GroupTypeOK
        <5> QED
          BY <5>1, <5>2
      <4> QED
        BY <4>1 DEF ReaderInStep
    <3>5. PrefixDischarged'
      <4>1. ASSUME NEW v \in Worker, pc'[v] # "idle", NEW j \in 1..(cur'[v][2] - 1)
            PROVE  <<cur'[v][1], j>> \in discharged'
        <5>1. CASE v = w
          BY <3>1, <3>2, <3>3, <4>1, <5>1
        <5>2. CASE v # w
          BY <3>0, <3>1, <4>1, <5>2 DEF PrefixDischarged, TypeInv, GroupTypeOK
        <5> QED
          BY <5>1, <5>2
      <4> QED
        BY <4>1 DEF PrefixDischarged
    <3>6. CommittedHandled' /\ CommitsDischarged'
      BY <3>0, <3>1 DEF CommittedHandled, CommitsDischarged, TypeInv, GroupTypeOK
    <3> QED
      BY <3>4, <3>5, <3>6
  <2>2. CASE /\ ProcessOk(w) \/ ProcessFails(w) \/ ProcessUnavailable(w)
                \/ PublishRetry(w) \/ PublishDLQ(w) \/ PublishFails(w)
    <3>1. /\ pc[w] # "idle"
          /\ UNCHANGED <<committed, owner, pos, cur>>
          /\ \/ \E s \in {"failed", "error"} : Goto(w, s)
             \/ Goto(w, "commit") /\ discharged' = discharged \cup {cur[w]}
      BY <2>2 DEF ProcessOk, ProcessFails, ProcessUnavailable, PublishRetry,
                  PublishDLQ, PublishFails, kafkaVars
    <3>2. pc' \in [Worker -> Step] /\ pc'[w] # "idle"
          /\ \A v \in Worker : v # w => pc'[v] = pc[v]
      BY <3>1 DEF Goto, TypeInv, GroupTypeOK, Step
    <3>3. CommittedHandled'
      BY <3>1, <1>1 DEF CommittedHandled
    <3>4. ReaderInStep'
      BY <3>1, <3>2, <1>1 DEF ReaderInStep, TypeInv, GroupTypeOK
    <3>5. PrefixDischarged'
      BY <3>1, <3>2, <1>1 DEF PrefixDischarged
    <3>6. CommitsDischarged'
      BY <3>1, <3>2, <1>1 DEF CommitsDischarged, Goto, TypeInv, GroupTypeOK
    <3> QED
      BY <3>3, <3>4, <3>5, <3>6
  <2>3. CASE Commit(w) \/ CommitFails(w)
    <3>1. /\ pc[w] = "commit"
          /\ StoreOffset(w) \/ UNCHANGED committed
          /\ Done(w) \/ (UNCHANGED cur /\ Goto(w, "error"))
          /\ UNCHANGED <<owner, pos, discharged>>
      BY <2>3 DEF Commit, CommitFails, resultVars
    <3>0. cur[w] \in discharged /\ cur[w] \in Messages
      BY <3>1 DEF CommitsDischarged, TypeInv, RefOK
    <3>2. /\ cur[w][1] \in Partition /\ cur[w][2] \in Nat
          /\ cur[w] = <<cur[w][1], cur[w][2]>>
      BY <3>0, MessageShape DEF TypeInv
    <3>3. CommittedHandled'
      <4>1. ASSUME NEW p \in Partition, NEW i \in 1..committed'[p]
            PROVE  <<p, i>> \in discharged
        <5>1. CASE committed'[p] = committed[p]
          BY <4>1, <5>1 DEF CommittedHandled
        <5>2. CASE p = cur[w][1] /\ committed'[p] = cur[w][2]
          <6>1. i \in 1..(cur[w][2] - 1) \/ i = cur[w][2]
            BY <4>1, <5>2, <3>2
          <6> QED
            BY <6>1, <5>2, <3>0, <3>1, <3>2 DEF PrefixDischarged
        <5> QED
          BY <5>1, <5>2, <3>1, <3>2 DEF StoreOffset, TypeInv, GroupTypeOK
      <4> QED
        BY <4>1, <3>1 DEF CommittedHandled
    <3>4. \A v \in Worker : /\ v # w => cur'[v] = cur[v] /\ pc'[v] = pc[v]
                            /\ pc'[w] \in {"idle", "error"}
                            /\ pc'[w] # "idle" => cur'[w] = cur[w]
      BY <3>1 DEF Done, Goto, TypeInv, GroupTypeOK
    <3>5. ReaderInStep'
      <4>1. ASSUME NEW p \in Partition, NEW j \in 1..pos[p], <<p, j>> \notin discharged
            PROVE  cur'[owner[p]] = <<p, j>> /\ pc'[owner[p]] # "idle"
        <5>1. cur[owner[p]] = <<p, j>> /\ pc[owner[p]] # "idle"
          BY <4>1 DEF ReaderInStep
        <5>2. owner[p] # w /\ owner[p] \in Worker
          BY <4>1, <5>1, <3>0 DEF TypeInv, GroupTypeOK
        <5> QED
          BY <5>1, <5>2, <3>4
      <4> QED
        BY <4>1, <3>1 DEF ReaderInStep
    <3>6. PrefixDischarged'
      BY <3>1, <3>4 DEF PrefixDischarged
    <3>7. CommitsDischarged'
      BY <3>1, <3>4 DEF CommitsDischarged
    <3> QED
      BY <3>3, <3>5, <3>6, <3>7
  <2>4. CASE OnError(w) \/ Crash(w)
    <3>1. Done(w) /\ Regroup /\ UNCHANGED <<committed, discharged>>
      BY <2>4 DEF OnError, Crash, resultVars
    <3>2. ReaderInStep' /\ CommittedHandled'
      BY <3>1, RegroupInStep
    <3>3. \A v \in Worker : /\ v # w => cur'[v] = cur[v] /\ pc'[v] = pc[v]
                            /\ pc'[w] = "idle"
      BY <3>1 DEF Done, Goto, TypeInv, GroupTypeOK
    <3>4. PrefixDischarged' /\ CommitsDischarged'
      BY <3>1, <3>3 DEF PrefixDischarged, CommitsDischarged
    <3> QED
      BY <3>2, <3>4
  <2> QED
    BY <1>2, <2>1, <2>2, <2>3, <2>4 DEF Cycle, WorkerFault, Process
<1>3. CASE Rebalance
  <2>1. Regroup /\ UNCHANGED <<committed, discharged, cur, pc>>
    BY <1>3 DEF Rebalance, resultVars
  <2>2. PrefixDischarged' /\ CommitsDischarged'
    BY <2>1 DEF PrefixDischarged, CommitsDischarged
  <2> QED
    BY <2>1, <2>2, RegroupInStep
<1>4. CASE CdcRedeliver \/ UNCHANGED groupVars
  <2>1. UNCHANGED <<committed, owner, pos, cur, pc, discharged>>
    BY <1>4 DEF CdcRedeliver, groupVars, resultVars
  <2> QED
    BY <2>1 DEF CommittedHandled, ReaderInStep, PrefixDischarged, CommitsDischarged
<1> QED
  BY <1>2, <1>3, <1>4 DEF GroupNext

------------------------------------------------------------------------------
(* Every message in the log after a step is one that was there before it, or a
   copy of one. *)
LEMMA PublishedBefore ==
  ASSUME TypeInv, [GroupNext]_groupVars, NEW m \in Messages'
  PROVE  \E k \in Messages :
           /\ EventOf(k) = EventOf(m)'
           /\ RetryCount(m)' \in {RetryCount(k), RetryCount(k) + 1}
<1>1. CASE UNCHANGED log
  BY <1>1 DEF Messages, EventOf, RetryCount
<1>2. ASSUME NEW p \in Partition, NEW msg \in Message, Appends(p, msg),
             \E k \in Messages : CopyOf(msg, k)
      PROVE  \E k \in Messages :
           /\ EventOf(k) = EventOf(m)'
           /\ RetryCount(m)' \in {RetryCount(k), RetryCount(k) + 1}
  <2>0. PICK q \in Partition : \E i \in 1..Len(log'[q]) : m = <<q, i>>
    BY DEF Messages
  <2>1. PICK i \in 1..Len(log'[q]) : m = <<q, i>>
    BY <2>0
  <2>2. EventOf(m)' = log'[q][i].ev /\ RetryCount(m)' = log'[q][i].count
    BY <2>1 DEF EventOf, RetryCount
  <2>3. /\ log[q] \in Seq(Message) /\ Len(log[q]) \in Nat
        /\ q # p => log'[q] = log[q]
        /\ q = p => log'[q] = Append(log[q], msg)
    BY <1>2 DEF TypeInv, GroupTypeOK, Appends
  <2>4. CASE i \in 1..Len(log[q])
    <3>1. log'[q][i] = log[q][i]
      BY <2>3, <2>4
    <3>2. /\ <<q, i>> \in Messages
          /\ EventOf(<<q, i>>) = log[q][i].ev
          /\ RetryCount(<<q, i>>) = log[q][i].count
      BY <2>4 DEF Messages, EventOf, RetryCount
    <3> QED
      BY <2>2, <3>1, <3>2
  <2>5. CASE i \notin 1..Len(log[q])
    <3>1. q = p /\ log'[q][i] = msg
      BY <2>3, <2>5
    <3> QED
      BY <1>2, <2>2, <3>1 DEF CopyOf
  <2> QED
    BY <2>4, <2>5
<1> QED
  BY <1>1, <1>2, LogStep

(* A message is discharged by a step only if its event is then handled, or has
   a fresh copy in the retry topic. *)
LEMMA Discharge ==
  ASSUME TypeInv, EventInv, [GroupNext]_groupVars,
         NEW m \in discharged', m \notin discharged
  PROVE  /\ m \in Messages
         /\ \/ EventOf(m) \in Handled'
            \/ \E k \in Messages' : k \notin discharged' /\ EventOf(k)' = EventOf(m)
<1>1. PICK w \in Worker : ProcessOk(w) \/ PublishRetry(w) \/ PublishDLQ(w)
  BY DEF GroupNext, groupVars, Cycle, WorkerFault, Fetch, Process, ProcessFails,
         ProcessUnavailable, PublishFails, Commit, CommitFails, OnError, Crash,
         Rebalance, CdcRedeliver, resultVars
<1>2. m = cur[w] /\ discharged' = discharged \cup {m} /\ pc[w] # "idle"
  BY <1>1 DEF ProcessOk, PublishRetry, PublishDLQ
<1>3. m \in Messages
  BY <1>2 DEF TypeInv, RefOK
<1>4. CASE ProcessOk(w) \/ PublishDLQ(w)
  BY <1>2, <1>3, <1>4 DEF ProcessOk, PublishDLQ, Handled
<1>5. CASE PublishRetry(w)
  <2>1. PICK p \in Retry, msg \in Message : Appends(p, msg) /\ msg.ev = EventOf(m)
    BY <1>2, <1>5, CopyAppends DEF PublishRetry
  <2>2. PICK i \in Nat : /\ <<p, i>> \in Messages' /\ <<p, i>> \notin Messages
                         /\ EventOf(<<p, i>>)' = msg.ev
    BY <2>1, AppendKeeps DEF TypeInv, Partition
  <2>3. <<p, i>> \notin discharged'
    BY <1>2, <1>3, <2>2 DEF EventInv, DischargedExist
  <2> QED
    BY <1>3, <2>1, <2>2, <2>3
<1> QED
  BY <1>1, <1>4, <1>5

LEMMA EventStep ==
  ASSUME TypeInv, EventInv, [GroupNext]_groupVars
  PROVE  EventInv'
<1>1. /\ Handled \subseteq Handled'
      /\ discharged \subseteq discharged'
  BY ResultsGrow DEF Handled
<1>2. \A m \in Messages : m \in Messages' /\ EventOf(m)' = EventOf(m)
  BY LogGrows
<1>3. ASSUME NEW m \in Messages'
      PROVE  \/ EventOf(m)' \in Handled'
             \/ \E k \in Messages' : k \notin discharged' /\ EventOf(k)' = EventOf(m)'
  <2>1. PICK k \in Messages : EventOf(k) = EventOf(m)'
    BY <1>3, PublishedBefore
  <2>2. CASE EventOf(k) \in Handled
    BY <1>1, <2>1, <2>2
  <2>3. CASE EventOf(k) \notin Handled
    <3>1. PICK n \in Messages \ discharged : EventOf(n) = EventOf(k)
      BY <2>3 DEF EventInv, Undischarged
    <3>2. CASE n \in discharged'
      BY <2>1, <3>1, <3>2, Discharge
    <3>3. CASE n \notin discharged'
      BY <1>2, <2>1, <3>1, <3>3
    <3> QED
      BY <3>2, <3>3
  <2> QED
    BY <2>2, <2>3
<1>4. DischargedExist'
  BY <1>2, Discharge DEF EventInv, DischargedExist
<1> QED
  BY <1>3, <1>4 DEF EventInv, Undischarged

LEMMA SafetyInit == GroupInit => SafetyInv
<1> SUFFICES ASSUME GroupInit PROVE SafetyInv
  OBVIOUS
<1>1. TypeInv
  BY TypeInit
<1>2. PositionInv
  BY DEF GroupInit, PositionInv, CommittedHandled, ReaderInStep,
         PrefixDischarged, CommitsDischarged
<1>3. EventInv
  BY DEF GroupInit, EventInv, Undischarged, DischargedExist
<1> QED
  BY <1>1, <1>2, <1>3 DEF SafetyInv

LEMMA SafetyStep ==
  RecreateReader /\ SafetyInv /\ [GroupNext]_groupVars => SafetyInv'
BY TypeNext, PositionStep, EventStep DEF SafetyInv

(* What nobody has discharged lies above the committed offset. *)
LEMMA SafetyImpliesNoEventLost == SafetyInv => NoEventLost
<1> SUFFICES ASSUME SafetyInv, NEW e \in Event, Published(e), e \notin Handled
             PROVE  \E m \in Messages : EventOf(m) = e /\ m[2] > committed[m[1]]
  BY DEF NoEventLost
<1>1. PICK m \in Messages : EventOf(m) = e /\ m \notin discharged
  BY DEF Published, SafetyInv, EventInv, Undischarged
<1>0. PICK p \in Partition : \E i \in 1..Len(log[p]) : m = <<p, i>>
  BY MessageRef
<1>2. PICK i \in 1..Len(log[p]) : m = <<p, i>>
  BY <1>0
<1>3. ~(i <= committed[p])
  BY <1>1, <1>2 DEF SafetyInv, PositionInv, CommittedHandled
<1> QED
  BY <1>1, <1>2, <1>3 DEF SafetyInv, TypeInv, GroupTypeOK

(* A group whose main loop recreates its reader after every error loses no
   event, whatever crashes, rebalances, redeliveries and failed commits do. *)
THEOREM NoEventIsLost ==
  ASSUME RecreateReader
  PROVE  GroupSpec => [](CommittedHandled /\ NoEventLost)
<1>1. SafetyInv /\ [GroupNext]_groupVars => SafetyInv'
  BY SafetyStep
<1>2. SafetyInv => CommittedHandled /\ NoEventLost
  BY SafetyImpliesNoEventLost DEF SafetyInv, PositionInv
<1> QED
  BY <1>1, <1>2, SafetyInit, PTL DEF GroupSpec

------------------------------------------------------------------------------
(* A copy with retry count c stands at the end of a chain of failures: there
   is a message of the event for every count up to c. *)
HasCount(e, c) == \E k \in Messages : EventOf(k) = e /\ RetryCount(k) = c

RetryChain ==
  \A m \in Messages : \A c \in 0..RetryCount(m) : HasCount(EventOf(m), c)

DeadLetteredLast == \A e \in deadLettered : HasCount(e, MaxRetries)

DeadLetterInv == TypeInv /\ RetryChain /\ DeadLetteredLast

LEMMA HasCountGrows ==
  ASSUME TypeInv, [GroupNext]_groupVars, NEW e, NEW c, HasCount(e, c)
  PROVE  HasCount(e, c)'
<1>1. PICK k \in Messages : EventOf(k) = e /\ RetryCount(k) = c
  BY DEF HasCount
<1>2. k \in Messages' /\ EventOf(k)' = e /\ RetryCount(k)' = c
  BY <1>1, LogGrows
<1> QED
  BY <1>2 DEF HasCount

LEMMA RetryChainStep ==
  ASSUME TypeInv, RetryChain, [GroupNext]_groupVars
  PROVE  RetryChain'
<1>1. ASSUME NEW m \in Messages', NEW c \in 0..RetryCount(m)'
      PROVE  \E k \in Messages' : EventOf(k)' = EventOf(m)' /\ RetryCount(k)' = c
  <2>1. PICK k \in Messages : /\ EventOf(k) = EventOf(m)'
                              /\ RetryCount(m)' \in {RetryCount(k), RetryCount(k) + 1}
    BY PublishedBefore
  <2>2. RetryCount(k) \in Nat
    BY MessageShape DEF TypeInv
  <2>3. CASE c = RetryCount(m)'
    BY <2>3
  <2>4. CASE c # RetryCount(m)'
    <3>1. c \in 0..RetryCount(k)
      BY <2>1, <2>2, <2>4
    <3>2. HasCount(EventOf(k), c)
      BY <3>1 DEF RetryChain
    <3>3. PICK n \in Messages : EventOf(n) = EventOf(k) /\ RetryCount(n) = c
      BY <3>2 DEF HasCount
    <3>4. n \in Messages' /\ EventOf(n)' = EventOf(n) /\ RetryCount(n)' = c
      BY <3>3, LogGrows
    <3> QED
      BY <2>1, <3>3, <3>4
  <2> QED
    BY <2>3, <2>4
<1> QED
  BY <1>1 DEF RetryChain, HasCount

LEMMA DeadLetteredLastStep ==
  ASSUME TypeInv, DeadLetteredLast, [GroupNext]_groupVars
  PROVE  DeadLetteredLast'
<1>1. ASSUME NEW e \in deadLettered', e \notin deadLettered
      PROVE  HasCount(e, MaxRetries)
  <2>1. PICK w \in Worker : PublishDLQ(w) \/ PublishFails(w)
    BY <1>1 DEF GroupNext, groupVars, Cycle, WorkerFault, Fetch, Process,
                ProcessOk, ProcessFails, ProcessUnavailable, PublishRetry, Commit,
                CommitFails, OnError, Crash, Rebalance, CdcRedeliver, resultVars
  <2>2. /\ pc[w] = "failed"
        /\ RetryCount(cur[w]) >= MaxRetries
        /\ e = EventOf(cur[w])
    BY <1>1, <2>1 DEF PublishDLQ, PublishFails
  <2>3. cur[w] \in Messages
    BY <2>2 DEF TypeInv, RefOK
  <2>4. RetryCount(cur[w]) = MaxRetries
    BY <2>2, <2>3, MessageShape, GroupAssumption DEF TypeInv, GroupAssumption
  <2> QED
    BY <2>2, <2>3, <2>4 DEF HasCount
<1>2. \A e : HasCount(e, MaxRetries) => HasCount(e, MaxRetries)'
  BY HasCountGrows
<1> QED
  BY <1>1, <1>2 DEF DeadLetteredLast

LEMMA DeadLetterInvImplies == DeadLetterInv => DeadLetteredAfterRetries
<1> SUFFICES ASSUME DeadLetterInv, NEW e \in deadLettered, NEW c \in 0..MaxRetries
             PROVE  HasCount(e, c)
  BY DEF DeadLetteredAfterRetries, HasCount
<1>1. PICK m \in Messages : EventOf(m) = e /\ RetryCount(m) = MaxRetries
  BY DEF DeadLetterInv, DeadLetteredLast, HasCount
<1> QED
  BY <1>1 DEF DeadLetterInv, RetryChain

(* Whatever fails, an event reaches the dead-letter topic only after one
   failure for every retry the configuration grants. *)
THEOREM DeadLetterBudget == GroupSpec => []DeadLetteredAfterRetries
<1>1. GroupInit => DeadLetterInv
  <2>1. ASSUME GroupInit, NEW m \in Messages PROVE RetryCount(m) = 0
    <3>0. PICK p \in Partition : \E i \in 1..Len(log[p]) : m = <<p, i>>
      BY MessageRef
    <3>1. PICK i \in 1..Len(log[p]) : m = <<p, i>>
      BY <3>0
    <3>2. p \in Primary
      BY <2>1, <3>1 DEF GroupInit
    <3> QED
      BY <2>1, <3>1, <3>2, GroupAssumption
         DEF GroupInit, RetryCount, GroupAssumption, Partition
  <2>2. ASSUME GroupInit PROVE RetryChain /\ DeadLetteredLast
    BY <2>1, <2>2 DEF RetryChain, DeadLetteredLast, HasCount, GroupInit
  <2> QED
    BY <2>2, TypeInit DEF DeadLetterInv
<1>2. DeadLetterInv /\ [GroupNext]_groupVars => DeadLetterInv'
  BY TypeNext, RetryChainStep, DeadLetteredLastStep DEF DeadLetterInv
<1> QED
  BY <1>1, <1>2, DeadLetterInvImplies, PTL DEF GroupSpec

------------------------------------------------------------------------------
(* The refinement. An event is owed when one of its messages lies above the
   committed offset of its partition. *)
LEMMA OwedMessage ==
  \A e : e \in Owed <=>
    \E m \in Messages : m[2] > committed[m[1]] /\ EventOf(m) = e
BY DEF Owed

LEMMA OwedEvents == TypeInv => Owed \subseteq Event
BY OwedMessage, MessageShape DEF TypeInv

LEMMA OwedEventsNext == TypeInv' => (Owed \subseteq Event)'
BY OwedEvents, PTL

(* Steps that leave the committed offsets alone only add to what is owed. *)
LEMMA OwedGrows ==
  ASSUME TypeInv, [GroupNext]_groupVars, UNCHANGED committed
  PROVE  Owed \subseteq Owed'
<1>1. ASSUME NEW e \in Owed PROVE e \in Owed'
  <2>1. PICK m \in Messages : m[2] > committed[m[1]] /\ EventOf(m) = e
    BY OwedMessage
  <2>2. m \in Messages' /\ EventOf(m)' = e /\ m[2] > committed'[m[1]]
    BY <2>1, LogGrows
  <2> QED
    BY <2>2 DEF Owed
<1> QED
  BY <1>1

(* A step that settles nothing and does not advance an offset recalls. *)
LEMMA RecallStep ==
  ASSUME TypeInv', Owed \subseteq Owed', UNCHANGED Handled
  PROVE  Promised!Next
<1>1. Promised!Recall(Owed')
  BY DEF Promised!Recall
<1> QED
  BY <1>1, OwedEventsNext DEF Promised!Next

(* A step that settles the event of a held message settles an owed event,
   unless some other replica has already handled it. *)
LEMMA SettleStep ==
  ASSUME SafetyInv, NEW m \in Messages, UNCHANGED <<log, committed>>,
         Handled' = Handled \cup {EventOf(m)}
  PROVE  [Promised!Next]_(Promised!vars)
<1> DEFINE e == EventOf(m)
<1>1. e \in Event
  BY MessageShape DEF SafetyInv, TypeInv
<1>2. Owed' = Owed
  BY DEF Owed, Messages, EventOf
<1>3. CASE e \in Handled
  BY <1>2, <1>3 DEF Promised!vars
<1>4. CASE e \notin Handled
  <2>1. e \in Owed
    BY <1>1, <1>4, SafetyImpliesNoEventLost, OwedMessage DEF NoEventLost, Published
  <2>2. Promised!Settle(e)
    BY <1>2, <2>1 DEF Promised!Settle
  <2> QED
    BY <1>1, <2>2 DEF Promised!Next
<1> QED
  BY <1>3, <1>4

(* Storing an offset moves it forwards, and then what is no longer owed is
   handled, or backwards, and then more is owed. *)
LEMMA StoreOffsetStep ==
  ASSUME SafetyInv, SafetyInv', NEW w \in Worker, cur[w] \in Messages,
         StoreOffset(w), UNCHANGED <<log, settled, deadLettered>>
  PROVE  [Promised!Next]_(Promised!vars)
<1> DEFINE p == cur[w][1]
           i == cur[w][2]
<1>1. /\ p \in Partition /\ i \in Nat
      /\ committed \in [Partition -> Nat]
      /\ committed' = [committed EXCEPT ![p] = i]
  BY MessageShape DEF SafetyInv, TypeInv, GroupTypeOK, StoreOffset
<1>2. UNCHANGED Handled /\ Messages' = Messages
  BY DEF Handled, Messages
<1>3. \A m \in Messages : EventOf(m)' = EventOf(m) /\ m[1] \in Partition /\ m[2] \in Nat
  BY MessageShape DEF EventOf, SafetyInv, TypeInv
<1>4. CASE i <= committed[p]
  <2>1. \A m \in Messages : m[2] > committed[m[1]] => m[2] > committed'[m[1]]
    BY <1>1, <1>3, <1>4
  <2>2. Owed \subseteq Owed'
    BY <1>2, <1>3, <2>1 DEF Owed
  <2> QED
    BY <1>2, <2>2, RecallStep DEF SafetyInv
<1>5. CASE committed[p] <= i
  <2>1. \A m \in Messages : m[2] > committed'[m[1]] => m[2] > committed[m[1]]
    BY <1>1, <1>3, <1>5
  <2>2. Owed' \subseteq Owed
    BY <1>2, <1>3, <2>1 DEF Owed
  <2>3. ASSUME NEW e \in Owed \ Owed' PROVE e \in Handled
    <3>1. PICK m \in Messages : EventOf(m) = e
      BY OwedMessage
    <3>2. e \in Event /\ EventOf(m)' = e /\ m \in Messages'
      BY <1>2, <1>3, <3>1, MessageShape DEF SafetyInv, TypeInv
    <3>3. \/ e \in Handled'
          \/ \E k \in Messages' : EventOf(k)' = e /\ k[2] > committed'[k[1]]
      <4>1. NoEventLost'
        BY SafetyImpliesNoEventLost, PTL
      <4> QED
        BY <3>2, <4>1 DEF NoEventLost, Published
    <3> QED
      BY <1>2, <2>3, <3>3 DEF Owed
  <2>4. Promised!Forget(Owed \ Owed')
    BY <1>2, <2>2, <2>3 DEF Promised!Forget
  <2>5. Owed \ Owed' \in SUBSET Event
    BY OwedEvents DEF SafetyInv
  <2> QED
    BY <2>4, <2>5 DEF Promised!Next
<1> QED
  BY <1>1, <1>4, <1>5

LEMMA PromiseStep ==
  ASSUME SafetyInv, SafetyInv', [GroupNext]_groupVars
  PROVE  [Promised!Next]_(Promised!vars)
<1>1. ASSUME UNCHANGED <<committed, settled, deadLettered>>
      PROVE  [Promised!Next]_(Promised!vars)
  <2>1. UNCHANGED Handled
    BY <1>1 DEF Handled
  <2> QED
    BY <1>1, <2>1, OwedGrows, RecallStep DEF SafetyInv
<1>2. ASSUME NEW w \in Worker, ProcessOk(w) \/ PublishDLQ(w) \/ PublishFails(w)
      PROVE  [Promised!Next]_(Promised!vars)
  <2>1. /\ cur[w] \in Messages
        /\ UNCHANGED committed
        /\ \/ UNCHANGED <<settled, deadLettered>>
           \/ UNCHANGED log /\ Handled' = Handled \cup {EventOf(cur[w])}
    BY <1>2 DEF ProcessOk, PublishDLQ, PublishFails, kafkaVars, Handled,
                SafetyInv, TypeInv, RefOK
  <2> QED
    BY <1>1, <2>1, SettleStep
<1>3. ASSUME NEW w \in Worker, Commit(w) \/ CommitFails(w)
      PROVE  [Promised!Next]_(Promised!vars)
  <2>1. /\ cur[w] \in Messages
        /\ UNCHANGED <<log, settled, deadLettered>>
        /\ StoreOffset(w) \/ UNCHANGED committed
    BY <1>3 DEF Commit, CommitFails, resultVars, SafetyInv, TypeInv, RefOK
  <2> QED
    BY <1>1, <2>1, StoreOffsetStep
<1>4. CASE \E w \in Worker : \/ Fetch(w) \/ ProcessFails(w) \/ ProcessUnavailable(w)
                             \/ PublishRetry(w) \/ OnError(w) \/ Crash(w)
  BY <1>1, <1>4 DEF Fetch, ProcessFails, ProcessUnavailable, PublishRetry,
                    OnError, Crash, kafkaVars, resultVars
<1>5. CASE Rebalance \/ CdcRedeliver \/ UNCHANGED groupVars
  BY <1>1, <1>5 DEF Rebalance, CdcRedeliver, groupVars, resultVars
<1> QED
  BY <1>2, <1>3, <1>4, <1>5 DEF GroupNext, Cycle, WorkerFault, Process

(* A group that recreates its reader after every error implements AtLeastOnce:
   its offsets pass only events that are handled, and only owed events are. *)
THEOREM GroupKeepsPromise ==
  ASSUME RecreateReader
  PROVE  GroupSpec => PromiseSpec
<1>1. GroupInit => Promised!Init
  <2>1. GroupInit => TypeInv /\ Handled = {}
    BY TypeInit DEF GroupInit, Handled
  <2> QED
    BY <2>1, OwedEvents DEF Promised!Init
<1>2. SafetyInv /\ SafetyInv' /\ [GroupNext]_groupVars => [Promised!Next]_(Promised!vars)
  BY PromiseStep
<1>3. SafetyInv /\ [GroupNext]_groupVars => SafetyInv'
  BY SafetyStep
<1> QED
  BY <1>1, <1>2, <1>3, SafetyInit, PTL DEF GroupSpec, PromiseSpec, Promised!Spec
============================================================================
