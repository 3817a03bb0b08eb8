------------------------ MODULE SinkConsumerProofs -------------------------
(***************************************************************************)
(* Proofs about SinkConsumer for any replicas, events, aggregates and      *)
(* faults: sinks are consumer groups, a completion marker is never written *)
(* for work that was not done, the reader they keep skips only what could  *)
(* not be published, and the store holds the last state of each aggregate  *)
(* when nothing disturbed its order.                                       *)
(***************************************************************************)
EXTENDS SinkConsumer, ConsumerGroupProofs

(* What the code has established when it stands at each stage. *)
StageInv ==
  \A w \in Worker : pc[w] = "process" =>
    /\ stage[w] \in {"write", "mark"} => EventOf(cur[w]) \notin Invalid
    /\ stage[w] = "mark" => EventOf(cur[w]) \in applied

CompletionInv ==
  MarkerMeansApplied /\ SettledMeansApplied /\ InvalidNeverApplied /\ StageInv

SinkInv == TypeInv /\ SinkTypeOK /\ CompletionInv

------------------------------------------------------------------------------
(* A step of a sink is a step of its consumer group, or leaves it alone. *)
LEMMA SinkStepIsGroupStep ==
  ASSUME [SinkNext]_sinkVars
  PROVE  [GroupNext]_groupVars
<1>1. ASSUME NEW w \in Worker, SinkCycle(w) \/ WrapperFault(w)
      PROVE  [GroupNext]_groupVars
  <2>1. CASE NotProcessed(w) \/ Write(w)
    BY <2>1 DEF NotProcessed, Write
  <2>2. CASE WrapperFault(w)
    BY <2>2 DEF WrapperFault, WorkerFault, GroupNext
  <2>3. CASE SinkCycle(w) /\ ~NotProcessed(w) /\ ~Write(w)
    <3>1. Cycle(w)
      BY <2>3 DEF SinkCycle, FetchMessage, SkipDuplicate, SkipInvalid,
                  MarkProcessed, StageFails, Wrapper, Cycle, Process
    <3> QED
      BY <3>1 DEF GroupNext
  <2> QED
    BY <1>1, <2>1, <2>2, <2>3
<1>2. CASE \/ Rebalance \/ CdcRedeliver \/ PurgeMarker
           \/ UNCHANGED sinkVars
  BY <1>2 DEF PurgeMarker, sinkVars, GroupNext
<1> QED
  BY <1>1, <1>2 DEF SinkNext

(* The sinks' loop is the generic consumer-group loop, so what is proved of
   ConsumerGroup holds of them. *)
THEOREM SinkRefinesGroup == SinkSpec => GroupRefined
<1>1. SinkInit => GroupInit
  BY DEF SinkInit
<1> QED
  BY <1>1, SinkStepIsGroupStep, PTL DEF SinkSpec, GroupSpec, GroupRefined

------------------------------------------------------------------------------
(* The message a replica holds keeps its event while the log grows. *)
LEMMA EventOfCurKept ==
  ASSUME TypeInv, [GroupNext]_groupVars, NEW w \in Worker, pc[w] # "idle"
  PROVE  \A v \in Worker : cur'[v] = cur[w] => EventOf(cur[v])' = EventOf(cur[w])
<1>1. cur[w] \in Messages
  BY DEF TypeInv, RefOK
<1>2. PICK m \in Messages : m = cur[w]
  BY <1>1
<1>3. EventOf(m)' = EventOf(m)
  BY LogGrows
<1> QED
  BY <1>2, <1>3 DEF EventOf

LEMMA HeldEvent ==
  ASSUME TypeInv, NEW w \in Worker, pc[w] # "idle"
  PROVE  EventOf(cur[w]) \in Event
BY MessageShape DEF TypeInv, RefOK

LEMMA SinkTypeStep ==
  ASSUME TypeInv, SinkTypeOK, [SinkNext]_sinkVars
  PROVE  SinkTypeOK'
<1>0. ASSUME NEW R \in SUBSET Worker, Unfenced(R)
      PROVE  SinkTypeOK'
  <2>1. {EventOf(cur[w]) : w \in {v \in R : pc[v] = "process"}} \subseteq Event
    BY HeldEvent
  <2> QED
    BY <1>0, <2>1 DEF Unfenced, SinkTypeOK
<1>1. ASSUME NEW w \in Worker, SinkCycle(w) \/ WrapperFault(w)
      PROVE  SinkTypeOK'
  <2>1. CASE FetchMessage(w) \/ SkipDuplicate(w) \/ SkipInvalid(w)
               \/ NotProcessed(w) \/ Wrapper(w)
    BY <2>1 DEF FetchMessage, SkipDuplicate, SkipInvalid, NotProcessed, Wrapper,
                EnterStage, dbVars, SinkTypeOK
  <2>2. CASE Write(w) \/ MarkProcessed(w) \/ StageFails(w)
    <3>1. EventOf(cur[w]) \in Event
      BY <2>2, HeldEvent DEF Write, MarkProcessed, StageFails, At, ProcessFails
    <3>2. KeyOf[EventOf(cur[w])] \in Key
      BY <3>1, SinkAssumption DEF SinkAssumption
    <3>3. CASE Write(w)
      BY <3>1, <3>2, <3>3 DEF Write, Apply, EnterStage, SinkTypeOK
    <3>4. CASE MarkProcessed(w)
      BY <3>1, <3>4 DEF MarkProcessed, InsertMarker, SinkTypeOK
    <3>5. CASE StageFails(w)
      BY <3>1, <3>2, <3>5 DEF StageFails, Apply, InsertMarker, SinkTypeOK
    <3> QED
      BY <2>2, <3>3, <3>4, <3>5
  <2>3. CASE WrapperFault(w)
    <3>1. PublishFails(w) => cur[w] \in Partition \X Nat
      BY MessageShape DEF PublishFails, TypeInv, RefOK
    <3> QED
      BY <2>3, <3>1, <1>0 DEF WrapperFault, dbVars, SinkTypeOK
  <2> QED
    BY <1>1, <2>1, <2>2, <2>3 DEF SinkCycle
<1>2. CASE \/ Rebalance /\ Unfenced(Worker)
           \/ CdcRedeliver /\ UNCHANGED <<stage, dbVars>>
  BY <1>2, <1>0 DEF dbVars, SinkTypeOK
<1>3. CASE PurgeMarker
  BY <1>3 DEF PurgeMarker, SinkTypeOK
<1>4. CASE UNCHANGED sinkVars
  BY <1>4 DEF sinkVars, SinkTypeOK
<1> QED
  BY <1>1, <1>2, <1>3, <1>4 DEF SinkNext

(* What a step leaves of StageInv for a replica that takes no part in it. *)
LEMMA StageKept ==
  ASSUME TypeInv, StageInv, [GroupNext]_groupVars, applied \subseteq applied',
         NEW w \in Worker, cur'[w] = cur[w], stage'[w] = stage[w],
         pc'[w] = pc[w]
  PROVE  pc'[w] = "process" =>
           /\ stage'[w] \in {"write", "mark"} => EventOf(cur[w])' \notin Invalid
           /\ stage'[w] = "mark" => EventOf(cur[w])' \in applied'
<1> SUFFICES ASSUME pc'[w] = "process"
             PROVE  /\ stage'[w] \in {"write", "mark"} => EventOf(cur[w])' \notin Invalid
                    /\ stage'[w] = "mark" => EventOf(cur[w])' \in applied'
  OBVIOUS
<1>1. EventOf(cur[w])' = EventOf(cur[w])
  BY EventOfCurKept
<1> QED
  BY <1>1 DEF StageInv

LEMMA OthersKept ==
  ASSUME TypeInv, SinkTypeOK, NEW w \in Worker, SinkCycle(w) \/ WrapperFault(w),
         NEW v \in Worker, v # w
  PROVE  cur'[v] = cur[v] /\ stage'[v] = stage[v] /\ pc'[v] = pc[v]
<1>1. \/ UNCHANGED <<cur, pc>>
      \/ \E s \in Step : Goto(w, s) /\ (UNCHANGED cur \/ \E m : cur' = [cur EXCEPT ![w] = m])
  BY DEF SinkCycle, WrapperFault, FetchMessage, SkipDuplicate, SkipInvalid,
         NotProcessed, Write, MarkProcessed, StageFails, Wrapper, Fetch,
         ProcessOk, ProcessFails, PublishRetry, PublishDLQ, PublishFails, Commit,
         CommitFails, OnError, Crash, Done, groupVars, kafkaVars, Step
<1>2. UNCHANGED stage \/ \E s : EnterStage(w, s)
  BY DEF SinkCycle, WrapperFault, FetchMessage, SkipDuplicate, SkipInvalid,
         NotProcessed, Write, MarkProcessed, StageFails, Wrapper, Unfenced
<1> QED
  BY <1>1, <1>2 DEF Goto, EnterStage, TypeInv, GroupTypeOK, SinkTypeOK

(* The stage a replica reaches is one it has earned. *)
LEMMA StageEarned ==
  ASSUME TypeInv, SinkTypeOK, StageInv, NEW w \in Worker,
         SinkCycle(w) \/ WrapperFault(w)
  PROVE  pc'[w] = "process" =>
           /\ stage'[w] \in {"write", "mark"} => EventOf(cur[w])' \notin Invalid
           /\ stage'[w] = "mark" => EventOf(cur[w])' \in applied'
<1>1. CASE FetchMessage(w)
  BY <1>1 DEF FetchMessage, EnterStage, SinkTypeOK
<1>2. CASE NotProcessed(w) \/ Write(w)
  <2>1. EventOf(cur[w])' = EventOf(cur[w])
    BY <1>2 DEF NotProcessed, Write, groupVars, EventOf
  <2>2. CASE NotProcessed(w)
    BY <2>1, <2>2 DEF NotProcessed, EnterStage, SinkTypeOK
  <2>3. CASE Write(w)
    BY <2>1, <2>3 DEF Write, At, Apply, EnterStage, SinkTypeOK, StageInv, groupVars
  <2> QED
    BY <1>2, <2>2, <2>3
<1>3. CASE \/ SkipDuplicate(w) \/ SkipInvalid(w) \/ MarkProcessed(w) \/ StageFails(w)
           \/ Wrapper(w) \/ WrapperFault(w)
  <2>1. \E s \in Step \ {"process"} : Goto(w, s)
    BY <1>3 DEF SkipDuplicate, SkipInvalid, MarkProcessed, StageFails, Wrapper,
                WrapperFault, ProcessOk, ProcessFails, PublishRetry, PublishDLQ,
                PublishFails, Commit, CommitFails, OnError, Crash, Done, Step
  <2> QED
    BY <2>1 DEF Goto, TypeInv, GroupTypeOK
<1> QED
  BY <1>1, <1>2, <1>3 DEF SinkCycle

LEMMA CompletionStep ==
  ASSUME TypeInv, SinkTypeOK, CompletionInv, [SinkNext]_sinkVars
  PROVE  CompletionInv'
<1> USE DEF CompletionInv
<1>g. [GroupNext]_groupVars
  BY SinkStepIsGroupStep
<1>1. ASSUME NEW w \in Worker, SinkCycle(w) \/ WrapperFault(w)
      PROVE  CompletionInv'
  <2>1. applied \subseteq applied'
    BY <1>1 DEF SinkCycle, WrapperFault, FetchMessage, SkipDuplicate, SkipInvalid,
                NotProcessed, Write, Apply, MarkProcessed, StageFails, Wrapper, Unfenced, dbVars
  <2>2. StageInv'
    BY <1>1, <1>g, <2>1, OthersKept, StageKept, StageEarned DEF StageInv
  <2>3. CASE FetchMessage(w) \/ NotProcessed(w) \/ Wrapper(w) \/ WrapperFault(w)
    <3>1. UNCHANGED <<marked, applied, settled>>
      BY <2>3 DEF FetchMessage, NotProcessed, Wrapper, WrapperFault, dbVars, groupVars,
                  Fetch, PublishRetry, PublishDLQ, Commit, OnError, PublishFails,
                  CommitFails, Crash, Unfenced, resultVars
    <3> QED
      BY <2>2, <3>1 DEF MarkerMeansApplied, SettledMeansApplied, InvalidNeverApplied
  <2>4. CASE SkipDuplicate(w) \/ SkipInvalid(w)
    <3>1. /\ UNCHANGED <<marked, applied>>
          /\ settled' = settled \cup {EventOf(cur[w])}
          /\ EventOf(cur[w]) \in marked \cup Invalid
      BY <2>4 DEF SkipDuplicate, SkipInvalid, ProcessOk, dbVars
    <3> QED
      BY <2>2, <3>1 DEF MarkerMeansApplied, SettledMeansApplied, InvalidNeverApplied
  <2>5. CASE Write(w)
    <3>1. /\ UNCHANGED <<marked, settled>>
          /\ applied' = applied \cup {EventOf(cur[w])}
          /\ EventOf(cur[w]) \notin Invalid
      BY <2>5 DEF Write, At, Apply, groupVars, StageInv
    <3> QED
      BY <2>2, <3>1 DEF MarkerMeansApplied, SettledMeansApplied, InvalidNeverApplied
  <2>6. CASE MarkProcessed(w)
    <3>1. /\ marked' = marked \cup {EventOf(cur[w])}
          /\ settled' = settled \cup {EventOf(cur[w])}
          /\ UNCHANGED applied
          /\ EventOf(cur[w]) \in applied \ Invalid
      BY <2>6 DEF MarkProcessed, At, InsertMarker, ProcessOk, StageInv
    <3> QED
      BY <2>2, <3>1 DEF MarkerMeansApplied, SettledMeansApplied, InvalidNeverApplied
  <2>7. CASE StageFails(w)
    <3>1. /\ UNCHANGED settled
          /\ \/ UNCHANGED <<marked, applied>>
             \/ /\ UNCHANGED marked
                /\ applied' = applied \cup {EventOf(cur[w])}
                /\ EventOf(cur[w]) \notin Invalid
             \/ /\ UNCHANGED applied
                /\ marked' = marked \cup {EventOf(cur[w])}
                /\ EventOf(cur[w]) \in applied \ Invalid
      BY <2>7 DEF StageFails, ProcessFails, Apply, InsertMarker, resultVars, StageInv
    <3> QED
      BY <2>2, <3>1 DEF MarkerMeansApplied, SettledMeansApplied, InvalidNeverApplied
  <2> QED
    BY <1>1, <2>3, <2>4, <2>5, <2>6, <2>7 DEF SinkCycle
<1>2. ASSUME marked' \subseteq marked, UNCHANGED <<cur, pc, stage, applied, settled>>
      PROVE  CompletionInv'
  <2>1. StageInv'
    BY <1>2, <1>g, StageKept DEF StageInv
  <2> QED
    BY <1>2, <2>1 DEF MarkerMeansApplied, SettledMeansApplied, InvalidNeverApplied
<1>3. CASE \/ Rebalance /\ Unfenced(Worker)
           \/ CdcRedeliver /\ UNCHANGED <<stage, dbVars>>
  BY <1>2, <1>3 DEF Rebalance, Unfenced, CdcRedeliver, dbVars, resultVars
<1>4. CASE PurgeMarker
  BY <1>2, <1>4 DEF PurgeMarker, groupVars
<1>5. CASE UNCHANGED sinkVars
  BY <1>2, <1>5 DEF sinkVars, groupVars
<1> QED
  BY <1>1, <1>3, <1>4, <1>5 DEF SinkNext

LEMMA SinkAlways == SinkSpec => []SinkInv
<1>1. SinkInit => SinkInv
  <2>1. SinkInit => SinkTypeOK /\ CompletionInv
    BY SinkAssumption
       DEF SinkInit, GroupInit, SinkAssumption, SinkTypeOK, CompletionInv,
           MarkerMeansApplied, SettledMeansApplied, InvalidNeverApplied, StageInv
  <2> QED
    BY <2>1, TypeInit DEF SinkInit, SinkInv
<1>2. SinkInv /\ [SinkNext]_sinkVars => SinkInv'
  BY SinkStepIsGroupStep, TypeNext, SinkTypeStep, CompletionStep DEF SinkInv
<1> QED
  BY <1>1, <1>2, PTL DEF SinkSpec

(* ADR-0022 for every sink: whatever crashes, fails, is redelivered or purged,
   a completion marker means that the store was written. *)
THEOREM NoFalseCompletion == SinkSpec => []MarkerMeansApplied
<1>1. SinkInv => MarkerMeansApplied
  BY DEF SinkInv, CompletionInv
<1> QED
  BY <1>1, SinkAlways, PTL

(* An event the sink settled as successful was written to the store. *)
THEOREM NoFalseSuccess == SinkSpec => []SettledMeansApplied
<1>1. SinkInv => SettledMeansApplied
  BY DEF SinkInv, CompletionInv
<1> QED
  BY <1>1, SinkAlways, PTL

------------------------------------------------------------------------------
(* What the loop of the sinks may lose. A message is spent when it was handled
   or when the publication of its copy failed; nothing becomes unspent.       *)
Spent == discharged \cup unpublished

(* The reader of a partition is at most one message ahead of what is spent, and
   its owner holds that one. *)
SpentReader ==
  \A p \in Partition : \A j \in 1..pos[p] :
    \/ <<p, j>> \in Spent
    \/ cur[owner[p]] = <<p, j>> /\ pc[owner[p]] # "idle"

(* Whatever message a replica holds, owner or not, those before it are spent. *)
SpentPrefix ==
  \A w \in Worker : pc[w] # "idle" =>
    \A j \in 1..(cur[w][2] - 1) : <<cur[w][1], j>> \in Spent

(* A replica leaves a message, to commit it or with an error, once it is spent. *)
SpentBehind ==
  \A w \in Worker : pc[w] \in {"commit", "error"} => cur[w] \in Spent

SkipInv == SkipsOnlyUnpublished /\ SpentReader /\ SpentPrefix /\ SpentBehind

LEMMA SpentGrows ==
  ASSUME [SinkNext]_sinkVars
  PROVE  Spent \subseteq Spent'
<1>1. discharged \subseteq discharged'
  BY SinkStepIsGroupStep, ResultsGrow
<1>2. unpublished \subseteq unpublished'
  BY DEF SinkNext, sinkVars, SinkCycle, WrapperFault, FetchMessage, SkipDuplicate,
         SkipInvalid, NotProcessed, Write, MarkProcessed, StageFails, Wrapper,
         PurgeMarker, Unfenced, dbVars
<1> QED
  BY <1>1, <1>2 DEF Spent

(* Readers that restart from the committed offsets pass nothing. *)
LEMMA RegroupSpent ==
  ASSUME TypeInv, SkipsOnlyUnpublished, Regroup, UNCHANGED committed,
         Spent \subseteq Spent'
  PROVE  SkipsOnlyUnpublished' /\ SpentReader'
BY DEF SkipsOnlyUnpublished, SpentReader, Regroup, Spent

LEMMA SkipFetch ==
  ASSUME TypeInv, SkipInv, NEW w \in Worker, Fetch(w), Spent \subseteq Spent'
  PROVE  SkipInv'
<1> USE DEF SkipInv
<1>0. PICK p \in Partition :
            /\ owner[p] = w
            /\ pos' = [pos EXCEPT ![p] = @ + 1]
            /\ cur' = [cur EXCEPT ![w] = <<p, pos[p] + 1>>]
  BY DEF Fetch
<1>1. /\ pc[w] = "idle" /\ pc' = [pc EXCEPT ![w] = "process"]
      /\ UNCHANGED <<committed, owner>>
  BY DEF Fetch, Goto
<1>2. /\ pos[p] \in Nat /\ pos'[p] = pos[p] + 1
      /\ cur'[w] = <<p, pos[p] + 1>> /\ pc'[w] = "process"
      /\ \A v \in Worker : v # w => cur'[v] = cur[v] /\ pc'[v] = pc[v]
      /\ \A q \in Partition : q # p => pos'[q] = pos[q]
      /\ \A q \in Partition : owner[q] \in Worker
  BY <1>0, <1>1 DEF TypeInv, GroupTypeOK
<1>3. \A j \in 1..pos[p] : <<p, j>> \in Spent
  BY <1>0, <1>1 DEF SpentReader
<1>4. SpentReader'
  <2>1. ASSUME NEW q \in Partition, NEW j \in 1..pos'[q]
        PROVE  \/ <<q, j>> \in Spent
               \/ cur'[owner[q]] = <<q, j>> /\ pc'[owner[q]] # "idle"
    <3>1. CASE q = p
      <4>1. j \in 1..pos[p] \/ j = pos[p] + 1
        BY <3>1, <1>2
      <4> QED
        BY <4>1, <3>1, <1>0, <1>2, <1>3
    <3>2. CASE q # p
      <4>1. \/ <<q, j>> \in Spent
            \/ cur[owner[q]] = <<q, j>> /\ pc[owner[q]] # "idle"
        BY <3>2, <1>2 DEF SpentReader
      <4> QED
        BY <4>1, <1>1, <1>2
    <3> QED
      BY <3>1, <3>2
  <2> QED
    BY <2>1, <1>1 DEF SpentReader
<1>5. SpentPrefix'
  BY <1>1, <1>2, <1>3 DEF SpentPrefix
<1>6. SpentBehind' /\ SkipsOnlyUnpublished'
  BY <1>1, <1>2 DEF SpentBehind, SkipsOnlyUnpublished, Spent
<1> QED
  BY <1>4, <1>5, <1>6

(* The wrapper works on the message in hand, and has spent it when it leaves. *)
LEMMA SkipWork ==
  ASSUME TypeInv, SkipInv, NEW w \in Worker, Spent \subseteq Spent',
         pc[w] # "idle", UNCHANGED <<committed, owner, pos, cur>>,
         Goto(w, "failed") \/ ((Goto(w, "commit") \/ Goto(w, "error")) /\ cur[w] \in Spent')
  PROVE  SkipInv'
<1> USE DEF SkipInv
<1>1. /\ pc'[w] # "idle" /\ (pc'[w] \in {"commit", "error"} => cur[w] \in Spent')
      /\ \A v \in Worker : v # w => pc'[v] = pc[v]
      /\ \A q \in Partition : owner[q] \in Worker
  BY DEF Goto, TypeInv, GroupTypeOK
<1>2. SpentReader'
  BY <1>1 DEF SpentReader
<1>3. SpentPrefix'
  BY <1>1 DEF SpentPrefix
<1>4. SpentBehind'
  BY <1>1 DEF SpentBehind
<1>5. SkipsOnlyUnpublished'
  BY DEF SkipsOnlyUnpublished, Spent
<1> QED
  BY <1>2, <1>3, <1>4, <1>5

(* A commit, or an error with the reader kept. *)
LEMMA SkipLeave ==
  ASSUME TypeInv, SkipInv, NEW w \in Worker, Spent \subseteq Spent',
         pc[w] \in {"commit", "error"}, UNCHANGED <<owner, pos>>,
         StoreOffset(w) \/ UNCHANGED committed,
         Done(w) \/ (UNCHANGED cur /\ Goto(w, "error"))
  PROVE  SkipInv'
<1> USE DEF SkipInv
<1>0. cur[w] \in Spent /\ cur[w] \in Messages
  BY DEF SpentBehind, TypeInv, RefOK
<1>1. /\ cur[w][1] \in Partition /\ cur[w][2] \in Nat
      /\ cur[w] = <<cur[w][1], cur[w][2]>>
  BY <1>0, MessageShape DEF TypeInv
<1>2. SkipsOnlyUnpublished'
  <2>1. ASSUME NEW p \in Partition, NEW i \in 1..committed'[p]
        PROVE  <<p, i>> \in Spent
    <3>1. CASE committed'[p] = committed[p]
      BY <3>1 DEF SkipsOnlyUnpublished, Spent
    <3>2. CASE p = cur[w][1] /\ committed'[p] = cur[w][2]
      <4>1. i \in 1..(cur[w][2] - 1) \/ i = cur[w][2]
        BY <3>2, <1>1
      <4> QED
        BY <4>1, <3>2, <1>0, <1>1 DEF SpentPrefix
    <3> QED
      BY <3>1, <3>2, <1>1 DEF StoreOffset, TypeInv, GroupTypeOK
  <2> QED
    BY <2>1 DEF SkipsOnlyUnpublished, Spent
<1>3. /\ pc'[w] \in {"idle", "error"} /\ (pc'[w] # "idle" => cur'[w] = cur[w])
      /\ \A v \in Worker : v # w => cur'[v] = cur[v] /\ pc'[v] = pc[v]
      /\ \A q \in Partition : owner[q] \in Worker
  BY DEF Done, Goto, TypeInv, GroupTypeOK
<1>4. SpentReader'
  <2>1. ASSUME NEW p \in Partition, NEW j \in 1..pos[p], <<p, j>> \notin Spent
        PROVE  cur'[owner[p]] = <<p, j>> /\ pc'[owner[p]] # "idle"
    <3>1. cur[owner[p]] = <<p, j>> /\ pc[owner[p]] # "idle"
      BY <2>1 DEF SpentReader
    <3>2. owner[p] # w
      BY <2>1, <3>1, <1>0
    <3> QED
      BY <3>1, <3>2, <1>3
  <2> QED
    BY <2>1 DEF SpentReader
<1>5. SpentPrefix' /\ SpentBehind'
  BY <1>0, <1>3 DEF SpentPrefix, SpentBehind
<1> QED
  BY <1>2, <1>4, <1>5

(* The readers restart: some replicas give up what they hold, none takes more. *)
LEMMA SkipRegroup ==
  ASSUME TypeInv, SkipInv, Regroup, UNCHANGED committed, Spent \subseteq Spent',
         \A v \in Worker : pc'[v] = "idle" \/ (pc'[v] = pc[v] /\ cur'[v] = cur[v])
  PROVE  SkipInv'
<1>1. SkipsOnlyUnpublished' /\ SpentReader'
  BY RegroupSpent DEF SkipInv
<1>2. SpentPrefix' /\ SpentBehind'
  BY DEF SkipInv, SpentPrefix, SpentBehind
<1> QED
  BY <1>1, <1>2 DEF SkipInv

LEMMA SkipStep ==
  ASSUME TypeInv, SkipInv, [SinkNext]_sinkVars
  PROVE  SkipInv'
<1>0. Spent \subseteq Spent'
  BY SpentGrows
<1>1. ASSUME NEW w \in Worker, SinkCycle(w) \/ WrapperFault(w)
      PROVE  SkipInv'
  <2>1. CASE FetchMessage(w)
    BY <1>0, <2>1, SkipFetch DEF FetchMessage
  <2>2. CASE NotProcessed(w) \/ Write(w)
    BY <1>0, <2>2 DEF NotProcessed, Write, groupVars, SkipInv, SkipsOnlyUnpublished,
                      SpentReader, SpentPrefix, SpentBehind, Spent
  <2>3. CASE \/ SkipDuplicate(w) \/ SkipInvalid(w) \/ MarkProcessed(w) \/ StageFails(w)
             \/ PublishRetry(w) \/ PublishDLQ(w) \/ (PublishFails(w) /\ WrapperFault(w))
    <3>1. /\ pc[w] # "idle" /\ UNCHANGED <<committed, owner, pos, cur>>
          /\ \/ Goto(w, "failed")
             \/ Goto(w, "commit") /\ cur[w] \in discharged'
             \/ PublishFails(w) /\ WrapperFault(w) /\ Goto(w, "error")
      BY <2>3 DEF SkipDuplicate, SkipInvalid, MarkProcessed, StageFails, ProcessOk,
                  ProcessFails, PublishRetry, PublishDLQ, PublishFails, kafkaVars
    <3>2. PublishFails(w) /\ WrapperFault(w) => cur[w] \in unpublished'
      BY DEF WrapperFault, PublishFails, CommitFails, Crash, Done, Goto, TypeInv, GroupTypeOK
    <3> QED
      BY <1>0, <3>1, <3>2, SkipWork DEF Spent
  <2>4. CASE Commit(w) \/ CommitFails(w) \/ (OnError(w) /\ UNCHANGED <<owner, pos>>)
    <3>1. /\ pc[w] \in {"commit", "error"} /\ UNCHANGED <<owner, pos>>
          /\ StoreOffset(w) \/ UNCHANGED committed
          /\ Done(w) \/ (UNCHANGED cur /\ Goto(w, "error"))
      BY <2>4 DEF Commit, CommitFails, OnError
    <3> QED
      BY <1>0, <3>1, SkipLeave
  <2>5. CASE Crash(w) \/ (OnError(w) /\ Regroup)
    <3>1. Done(w) /\ Regroup /\ UNCHANGED committed
      BY <2>5 DEF Crash, OnError
    <3>2. \A v \in Worker : pc'[v] = "idle" \/ (pc'[v] = pc[v] /\ cur'[v] = cur[v])
      BY <3>1 DEF Done, Goto, TypeInv, GroupTypeOK
    <3> QED
      BY <1>0, <3>1, <3>2, SkipRegroup
  <2> QED
    BY <1>1, <2>1, <2>2, <2>3, <2>4, <2>5 DEF SinkCycle, WrapperFault, Wrapper, OnError
<1>2. CASE Rebalance
  BY <1>0, <1>2, SkipRegroup DEF Rebalance
<1>3. CASE CdcRedeliver \/ PurgeMarker \/ UNCHANGED sinkVars
  <2>1. UNCHANGED <<committed, owner, pos, cur, pc>>
    BY <1>3 DEF CdcRedeliver, PurgeMarker, sinkVars, groupVars
  <2> QED
    BY <1>0, <2>1 DEF SkipInv, SkipsOnlyUnpublished, SpentReader, SpentPrefix,
                      SpentBehind, Spent
<1> QED
  BY <1>1, <1>2, <1>3 DEF SinkNext

(* A sink, with the reader it keeps after an error, never commits past a
   message that nobody handled unless the publication of its copy failed:
   crashes, failed commits, rebalances and replicas that lost their partitions
   lose nothing. *)
THEOREM SinkSkipsOnlyUnpublished == SinkSpec => []SkipsOnlyUnpublished
<1>1. SinkInit => SkipInv
  BY DEF SinkInit, GroupInit, SkipInv, SkipsOnlyUnpublished, SpentReader,
         SpentPrefix, SpentBehind
<1>2. SinkInit => TypeInv
  BY TypeInit DEF SinkInit
<1>3. TypeInv /\ SkipInv /\ [SinkNext]_sinkVars => TypeInv' /\ SkipInv'
  BY SkipStep, TypeNext, SinkStepIsGroupStep
<1>4. SkipInv => SkipsOnlyUnpublished
  BY DEF SkipInv
<1> QED
  BY <1>1, <1>2, <1>3, <1>4, PTL DEF SinkSpec

------------------------------------------------------------------------------
(* The order of the writes while nothing disturbs the group: no processing has
   failed, no marker was removed, and no partition moved while its replica was
   processing. *)

(* The message needs no write any more. *)
Passed(p, i) == log[p][i].ev \in marked \cup Invalid

(* The primary logs hold the backlog, and after it copies of its events; the
   retry topic is empty. *)
LogCalm ==
  /\ \A p \in Primary :
       /\ Len(Backlog[p]) <= Len(log[p])
       /\ \A i \in 1..Len(Backlog[p]) : log[p][i].ev = Backlog[p][i]
       /\ \A j \in 1..Len(log[p]) :
            \E i \in 1..Len(Backlog[p]) : i <= j /\ log[p][j].ev = Backlog[p][i]
  /\ \A r \in Retry : Len(log[r]) = 0

NoneFailed == \A w \in Worker : pc[w] # "failed"

CommittedPassed ==
  \A p \in Partition :
    committed[p] <= Len(log[p]) /\ \A i \in 1..committed[p] : Passed(p, i)

(* A reader is at most one message ahead of what is passed, and that one is
   being processed by the owner. *)
ReaderPassed ==
  \A p \in Partition :
    /\ pos[p] <= Len(log[p])
    /\ \A i \in 1..pos[p] :
         \/ Passed(p, i)
         \/ i = pos[p] /\ \E w \in Worker : pc[w] = "process" /\ cur[w] = <<p, i>>

OwnerProcesses ==
  \A w \in Worker : pc[w] = "process" => owner[cur[w][1]] = w /\ pos[cur[w][1]] = cur[w][2]

(* What a replica is about to commit, it and every message before it, is passed. *)
CommitPassed ==
  \A w \in Worker : pc[w] \in {"commit", "error"} =>
    \A i \in 1..cur[w][2] : Passed(cur[w][1], i)

PositionCalm ==
  LogCalm /\ NoneFailed /\ CommittedPassed /\ ReaderPassed /\ OwnerProcesses /\ CommitPassed

(* Nobody else completes the event a replica is writing. *)
WriterAlone ==
  \A w \in Worker : pc[w] = "process" /\ stage[w] \in {"write", "mark"} =>
    EventOf(cur[w]) \notin marked

(* An event is written when all before it in its partition are passed. *)
AppliedInTurn ==
  \A p \in Primary : \A i \in 1..Len(Backlog[p]) : Backlog[p][i] \in applied =>
    \A j \in 1..(i - 1) : Backlog[p][j] \in marked \cup Invalid

(* The store holds, for an event that was written, that event or a later one
   of its aggregate. *)
StoreLatest ==
  \A p \in Primary : \A i \in 1..Len(Backlog[p]) : Backlog[p][i] \in applied =>
    \E j \in i..Len(Backlog[p]) :
      /\ store[KeyOf[Backlog[p][i]]] = Backlog[p][j]
      /\ KeyOf[Backlog[p][j]] = KeyOf[Backlog[p][i]]
      /\ Backlog[p][j] \notin Invalid

OrderCalm == WriterAlone /\ AppliedInTurn /\ StoreLatest

CalmInv == disturbed = {} => PositionCalm /\ OrderCalm

(* Undisturbed steps: nothing was disturbed before, and only the wrapper's
   happy path, a crash and the environment can have moved. *)
LEMMA StaysCalm ==
  ASSUME TypeInv, SinkTypeOK, NoneFailed, [SinkNext]_sinkVars, disturbed' = {}
  PROVE  /\ disturbed = {}
         /\ marked \subseteq marked' /\ applied \subseteq applied'
         /\ \/ UNCHANGED sinkVars
            \/ \E w \in Worker :
                 \/ FetchMessage(w) \/ SkipDuplicate(w) \/ SkipInvalid(w)
                 \/ NotProcessed(w) \/ Write(w) \/ MarkProcessed(w)
                 \/ (Commit(w) \/ OnError(w) \/ CommitFails(w)) /\ UNCHANGED <<stage, dbVars>>
                 \/ Crash(w) /\ Unfenced(Worker \ {w})
            \/ Rebalance /\ Unfenced(Worker)
            \/ CdcRedeliver /\ UNCHANGED <<stage, dbVars>>
<1>1. CASE UNCHANGED sinkVars
  BY <1>1 DEF sinkVars
<1>2. CASE PurgeMarker
  BY <1>2 DEF PurgeMarker
<1>3. CASE Rebalance /\ Unfenced(Worker)
  BY <1>3 DEF Unfenced
<1>4. CASE CdcRedeliver /\ UNCHANGED <<stage, dbVars>>
  BY <1>4 DEF dbVars
<1>5. ASSUME NEW w \in Worker, SinkCycle(w) \/ WrapperFault(w)
      PROVE  /\ disturbed = {}
             /\ marked \subseteq marked' /\ applied \subseteq applied'
             /\ \/ FetchMessage(w) \/ SkipDuplicate(w) \/ SkipInvalid(w)
                \/ NotProcessed(w) \/ Write(w) \/ MarkProcessed(w)
                \/ (Commit(w) \/ OnError(w) \/ CommitFails(w)) /\ UNCHANGED <<stage, dbVars>>
                \/ Crash(w) /\ Unfenced(Worker \ {w})
  <2>1. ~StageFails(w) /\ ~PublishRetry(w) /\ ~PublishDLQ(w) /\ ~PublishFails(w)
    BY DEF StageFails, PublishRetry, PublishDLQ, PublishFails, NoneFailed
  <2>2. CASE FetchMessage(w) \/ SkipDuplicate(w) \/ SkipInvalid(w) \/ NotProcessed(w)
    BY <2>2 DEF FetchMessage, SkipDuplicate, SkipInvalid, NotProcessed, dbVars
  <2>3. CASE Write(w)
    BY <2>3 DEF Write, Apply
  <2>4. CASE MarkProcessed(w)
    BY <2>4 DEF MarkProcessed, InsertMarker
  <2>5. CASE Wrapper(w)
    BY <2>5, <2>1 DEF Wrapper, dbVars
  <2>6. CASE WrapperFault(w)
    BY <2>6, <2>1 DEF WrapperFault, dbVars, Unfenced
  <2> QED
    BY <1>5, <2>1, <2>2, <2>3, <2>4, <2>5, <2>6 DEF SinkCycle
<1> QED
  BY <1>1, <1>2, <1>3, <1>4, <1>5 DEF SinkNext

(* What a log holds stays where it is, and what is passed stays passed. *)
LEMMA PassedKept ==
  ASSUME TypeInv, [GroupNext]_groupVars, marked \subseteq marked', NEW p \in Partition
  PROVE  /\ Len(log[p]) \in Nat /\ Len(log'[p]) \in Nat /\ Len(log[p]) <= Len(log'[p])
         /\ \A i \in 1..Len(log[p]) : log'[p][i].ev = log[p][i].ev
         /\ \A i \in 1..Len(log[p]) : Passed(p, i) => Passed(p, i)'
<1>1. TypeInv'
  BY TypeNext
<1>2. Len(log[p]) \in Nat /\ Len(log'[p]) \in Nat
  BY <1>1 DEF TypeInv, GroupTypeOK
<1>3. ASSUME NEW i \in 1..Len(log[p])
      PROVE  i \in 1..Len(log'[p]) /\ log'[p][i].ev = log[p][i].ev
  <2>1. <<p, i>> \in Messages
    BY DEF Messages
  <2>2. <<p, i>> \in Messages' /\ EventOf(<<p, i>>)' = EventOf(<<p, i>>)
    BY <2>1, LogGrows
  <2>3. i \in 1..Len(log'[p])
    BY <2>2 DEF Messages
  <2> QED
    BY <2>2, <2>3 DEF EventOf
<1>4. Len(log[p]) <= Len(log'[p])
  <2>1. CASE Len(log[p]) = 0
    BY <2>1, <1>2
  <2>2. CASE Len(log[p]) # 0
    <3>1. Len(log[p]) \in 1..Len(log[p])
      BY <2>2, <1>2
    <3> QED
      BY <3>1, <1>3, <1>2
  <2> QED
    BY <2>1, <2>2
<1> QED
  BY <1>2, <1>3, <1>4 DEF Passed

(* A replica that is not idle stands at a message of a log. *)
LEMMA InHand ==
  ASSUME TypeInv, NEW w \in Worker, pc[w] # "idle"
  PROVE  \E p \in Partition : \E i \in 1..Len(log[p]) :
           cur[w] = <<p, i>> /\ EventOf(cur[w]) = log[p][i].ev
<1>1. PICK p \in Partition : \E i \in 1..Len(log[p]) : cur[w] = <<p, i>>
  BY MessageRef DEF TypeInv, RefOK
<1> QED
  BY <1>1 DEF EventOf

------------------------------------------------------------------------------
(* The positions, one class of steps at a time. *)

LEMMA CalmFetch ==
  ASSUME TypeInv, PositionCalm, NEW w \in Worker, FetchMessage(w), [GroupNext]_groupVars
  PROVE  PositionCalm'
<1> USE DEF PositionCalm
<1>0. /\ pc[w] = "idle" /\ pc' = [pc EXCEPT ![w] = "process"]
      /\ UNCHANGED <<log, committed, owner, marked>>
  BY DEF FetchMessage, Fetch, Goto, dbVars
<1>1. PICK p \in Partition :
        /\ owner[p] = w /\ pos[p] < Len(log[p])
        /\ pos' = [pos EXCEPT ![p] = @ + 1]
        /\ cur' = [cur EXCEPT ![w] = <<p, pos[p] + 1>>]
  BY DEF FetchMessage, Fetch
<1>2. /\ pos[p] \in Nat /\ Len(log[p]) \in Nat /\ pos'[p] = pos[p] + 1
      /\ cur'[w] = <<p, pos[p] + 1>> /\ pc'[w] = "process"
      /\ \A v \in Worker : v # w => cur'[v] = cur[v] /\ pc'[v] = pc[v]
      /\ \A q \in Partition : q # p => pos'[q] = pos[q]
  BY <1>0, <1>1 DEF TypeInv, GroupTypeOK
<1>3. \A i \in 1..pos[p] : Passed(p, i)
  <2>1. \A v \in Worker : pc[v] = "process" => cur[v][1] # p
    BY <1>0, <1>1 DEF OwnerProcesses
  <2>2. \A v \in Worker, i \in 1..pos[p] : pc[v] = "process" => cur[v] # <<p, i>>
    BY <2>1
  <2> QED
    BY <2>2 DEF ReaderPassed
<1>4. \A q, i : Passed(q, i)' <=> Passed(q, i)
  BY <1>0 DEF Passed
<1>5. LogCalm' /\ NoneFailed' /\ CommittedPassed'
  <2>1. LogCalm'
    BY <1>0 DEF LogCalm
  <2>2. NoneFailed'
    BY <1>0, <1>2 DEF NoneFailed
  <2>3. CommittedPassed'
    BY <1>0, <1>4 DEF CommittedPassed
  <2> QED
    BY <2>1, <2>2, <2>3
<1>6. ReaderPassed'
  <2>1. ASSUME NEW q \in Partition
        PROVE  /\ pos'[q] <= Len(log'[q])
               /\ \A i \in 1..pos'[q] :
                    \/ Passed(q, i)'
                    \/ i = pos'[q] /\ \E v \in Worker : pc'[v] = "process" /\ cur'[v] = <<q, i>>
    <3>1. CASE q = p
      <4>1. ASSUME NEW i \in 1..pos'[p]
            PROVE  \/ Passed(p, i)
                   \/ i = pos'[p] /\ \E v \in Worker : pc'[v] = "process" /\ cur'[v] = <<p, i>>
        <5>1. i \in 1..pos[p] \/ i = pos[p] + 1
          BY <1>2
        <5> QED
          BY <5>1, <1>2, <1>3
      <4>2. pos'[p] <= Len(log'[p])
        BY <1>0, <1>1, <1>2
      <4> QED
        BY <3>1, <4>1, <4>2, <1>4
    <3>2. CASE q # p
      <4>1. pos[q] <= Len(log[q]) /\ pos'[q] = pos[q]
        BY <1>2, <3>2 DEF ReaderPassed
      <4>2. ASSUME NEW i \in 1..pos[q]
            PROVE  \/ Passed(q, i)
                   \/ i = pos[q] /\ \E v \in Worker : pc'[v] = "process" /\ cur'[v] = <<q, i>>
        <5>1. \/ Passed(q, i)
              \/ i = pos[q] /\ \E v \in Worker : pc[v] = "process" /\ cur[v] = <<q, i>>
          BY DEF ReaderPassed
        <5> QED
          BY <5>1, <1>0, <1>2
      <4> QED
        BY <4>1, <4>2, <1>0, <1>4
    <3> QED
      BY <3>1, <3>2
  <2> QED
    BY <2>1 DEF ReaderPassed
<1>7. OwnerProcesses'
  <2>1. ASSUME NEW v \in Worker, pc'[v] = "process"
        PROVE  owner'[cur'[v][1]] = v /\ pos'[cur'[v][1]] = cur'[v][2]
    <3>1. CASE v = w
      BY <3>1, <1>0, <1>1, <1>2
    <3>2. CASE v # w
      <4>1. owner[cur[v][1]] = v /\ pos[cur[v][1]] = cur[v][2] /\ cur'[v] = cur[v] /\ pc[v] = "process"
        BY <2>1, <3>2, <1>2 DEF OwnerProcesses
      <4>2. cur[v][1] \in Partition
        BY <4>1, InHand
      <4> QED
        BY <4>1, <4>2, <3>2, <1>0, <1>1, <1>2
    <3> QED
      BY <3>1, <3>2
  <2> QED
    BY <2>1 DEF OwnerProcesses
<1>8. CommitPassed'
  BY <1>0, <1>2, <1>4 DEF CommitPassed
<1> QED
  BY <1>5, <1>6, <1>7, <1>8

LEMMA CalmFinish ==
  ASSUME TypeInv, PositionCalm, NEW w \in Worker, [GroupNext]_groupVars,
         SkipDuplicate(w) \/ SkipInvalid(w) \/ MarkProcessed(w)
  PROVE  PositionCalm'
<1> USE DEF PositionCalm
<1>0. /\ pc[w] = "process" /\ pc' = [pc EXCEPT ![w] = "commit"]
      /\ UNCHANGED <<log, committed, owner, pos, cur>>
      /\ marked \subseteq marked' /\ EventOf(cur[w]) \in marked' \cup Invalid
  BY DEF SkipDuplicate, SkipInvalid, MarkProcessed, InsertMarker, ProcessOk, Goto, dbVars
<1>1. PICK p \in Partition : \E i \in 1..Len(log[p]) :
        cur[w] = <<p, i>> /\ EventOf(cur[w]) = log[p][i].ev
  BY <1>0, InHand
<1>2. PICK n \in 1..Len(log[p]) : cur[w] = <<p, n>> /\ EventOf(cur[w]) = log[p][n].ev
  BY <1>1
<1>3. /\ pc'[w] = "commit"
      /\ \A v \in Worker : v # w => pc'[v] = pc[v]
  BY <1>0 DEF TypeInv, GroupTypeOK
<1>4. \A q, i : Passed(q, i) => Passed(q, i)'
  BY <1>0 DEF Passed
<1>5. Passed(p, n)'
  BY <1>0, <1>2 DEF Passed
<1>6. pos[p] = n /\ \A i \in 1..n : Passed(p, i)'
  <2>1. pos[p] = n /\ owner[p] = w
    BY <1>0, <1>2 DEF OwnerProcesses
  <2>2. ASSUME NEW i \in 1..n PROVE Passed(p, i)'
    <3>1. Passed(p, i) \/ i = n
      BY <2>1 DEF ReaderPassed
    <3> QED
      BY <3>1, <1>4, <1>5
  <2> QED
    BY <2>1, <2>2
<1>7. LogCalm' /\ NoneFailed' /\ CommittedPassed' /\ OwnerProcesses'
  <2>1. LogCalm'
    BY <1>0 DEF LogCalm
  <2>2. NoneFailed'
    BY <1>3 DEF NoneFailed
  <2>3. CommittedPassed'
    BY <1>0, <1>4 DEF CommittedPassed
  <2>4. OwnerProcesses'
    BY <1>0, <1>3 DEF OwnerProcesses
  <2> QED
    BY <2>1, <2>2, <2>3, <2>4
<1>8. ReaderPassed'
  <2>1. ASSUME NEW q \in Partition, NEW i \in 1..pos[q]
        PROVE  \/ Passed(q, i)'
               \/ i = pos[q] /\ \E v \in Worker : pc'[v] = "process" /\ cur[v] = <<q, i>>
    <3>1. CASE Passed(q, i)
      BY <3>1, <1>4
    <3>2. CASE ~Passed(q, i)
      <4>1. i = pos[q] /\ \E v \in Worker : pc[v] = "process" /\ cur[v] = <<q, i>>
        BY <3>2 DEF ReaderPassed
      <4>2. PICK v \in Worker : pc[v] = "process" /\ cur[v] = <<q, i>>
        BY <4>1
      <4>3. CASE v = w
        BY <4>2, <4>3, <1>2, <1>5
      <4>4. CASE v # w
        BY <4>1, <4>2, <4>4, <1>3
      <4> QED
        BY <4>3, <4>4
    <3> QED
      BY <3>1, <3>2
  <2> QED
    BY <2>1, <1>0 DEF ReaderPassed
<1>9. CommitPassed'
  <2>1. ASSUME NEW v \in Worker, pc'[v] \in {"commit", "error"}
        PROVE  \A i \in 1..cur[v][2] : Passed(cur[v][1], i)'
    <3>1. CASE v = w
      BY <3>1, <1>0, <1>2, <1>6
    <3>2. CASE v # w
      BY <2>1, <3>2, <1>0, <1>3, <1>4 DEF CommitPassed
    <3> QED
      BY <3>1, <3>2
  <2> QED
    BY <2>1, <1>0 DEF CommitPassed
<1> QED
  BY <1>7, <1>8, <1>9

(* The sinks keep their reader after an error. *)
LEMMA CalmCommit ==
  ASSUME ~RecreateReader, TypeInv, PositionCalm, NEW w \in Worker, UNCHANGED marked,
         Commit(w) \/ OnError(w) \/ CommitFails(w)
  PROVE  PositionCalm'
<1> USE DEF PositionCalm
<1>0. /\ pc[w] \in {"commit", "error"} /\ UNCHANGED <<log, owner, pos>>
      /\ UNCHANGED committed \/ StoreOffset(w)
      /\ \E s \in {"idle", "error"} : pc' = [pc EXCEPT ![w] = s]
      /\ \/ UNCHANGED cur
         \/ cur' = [cur EXCEPT ![w] = NoRef] /\ pc' = [pc EXCEPT ![w] = "idle"]
  BY DEF Commit, OnError, CommitFails, Done, Goto
<1>1. PICK p \in Partition : \E i \in 1..Len(log[p]) :
        cur[w] = <<p, i>> /\ EventOf(cur[w]) = log[p][i].ev
  BY <1>0, InHand
<1>2. PICK n \in 1..Len(log[p]) : cur[w] = <<p, n>> /\ EventOf(cur[w]) = log[p][n].ev
  BY <1>1
<1>3. /\ pc'[w] \in {"idle", "error"} /\ (pc'[w] = "error" => cur' = cur)
      /\ \A v \in Worker : v # w => pc'[v] = pc[v] /\ cur'[v] = cur[v]
  BY <1>0 DEF TypeInv, GroupTypeOK
<1>4. \A q, i : Passed(q, i) <=> Passed(q, i)'
  BY <1>0 DEF Passed
<1>5. \A i \in 1..n : Passed(p, i)
  BY <1>0, <1>2 DEF CommitPassed
<1>6. CommittedPassed'
  <2>1. CASE UNCHANGED committed
    BY <2>1, <1>0, <1>4 DEF CommittedPassed
  <2>2. CASE StoreOffset(w)
    <3>1. committed'[p] = n /\ \A q \in Partition : q # p => committed'[q] = committed[q]
      BY <2>2, <1>2 DEF StoreOffset, TypeInv, GroupTypeOK
    <3>2. ASSUME NEW q \in Partition
          PROVE  committed'[q] <= Len(log[q]) /\ \A i \in 1..committed'[q] : Passed(q, i)
      <4>1. CASE q = p
        BY <4>1, <3>1, <1>2, <1>5
      <4>2. CASE q # p
        BY <4>2, <3>1 DEF CommittedPassed
      <4> QED
        BY <4>1, <4>2
    <3> QED
      BY <3>2, <1>0, <1>4 DEF CommittedPassed
  <2> QED
    BY <2>1, <2>2, <1>0
<1>7. LogCalm' /\ NoneFailed' /\ OwnerProcesses'
  <2>1. LogCalm'
    BY <1>0 DEF LogCalm
  <2>2. NoneFailed'
    BY <1>3 DEF NoneFailed
  <2>3. OwnerProcesses'
    BY <1>0, <1>3 DEF OwnerProcesses
  <2> QED
    BY <2>1, <2>2, <2>3
<1>8. ReaderPassed'
  <2>1. ASSUME NEW q \in Partition, NEW i \in 1..pos[q]
        PROVE  \/ Passed(q, i)
               \/ i = pos[q] /\ \E v \in Worker : pc'[v] = "process" /\ cur'[v] = <<q, i>>
    <3>1. CASE ~Passed(q, i)
      <4>1. i = pos[q] /\ \E v \in Worker : pc[v] = "process" /\ cur[v] = <<q, i>>
        BY <3>1 DEF ReaderPassed
      <4>2. \A v \in Worker : pc[v] = "process" => v # w
        BY <1>0
      <4> QED
        BY <4>1, <4>2, <1>3
    <3> QED
      BY <3>1
  <2> QED
    BY <2>1, <1>0, <1>4 DEF ReaderPassed
<1>9. CommitPassed'
  <2>1. ASSUME NEW v \in Worker, pc'[v] \in {"commit", "error"}
        PROVE  pc[v] \in {"commit", "error"} /\ cur'[v] = cur[v]
    BY <2>1, <1>0, <1>3
  <2> QED
    BY <2>1, <1>4 DEF CommitPassed
<1> QED
  BY <1>6, <1>7, <1>8, <1>9

(* Partitions move while nobody is processing. *)
LEMMA CalmRegroup ==
  ASSUME TypeInv, PositionCalm, Regroup, UNCHANGED <<log, committed, marked>>,
         \A v \in Worker : \/ pc'[v] = "idle"
                           \/ pc'[v] = pc[v] /\ cur'[v] = cur[v] /\ pc[v] # "process"
  PROVE  PositionCalm'
<1> USE DEF PositionCalm
<1>1. \A q, i : Passed(q, i) <=> Passed(q, i)'
  BY DEF Passed
<1>2. LogCalm' /\ NoneFailed'
  BY DEF LogCalm, NoneFailed
<1>3. CommittedPassed' /\ ReaderPassed'
  BY <1>1 DEF CommittedPassed, ReaderPassed, Regroup
<1>4. OwnerProcesses'
  BY DEF OwnerProcesses
<1>5. CommitPassed'
  <2>1. ASSUME NEW v \in Worker, pc'[v] \in {"commit", "error"}
        PROVE  pc[v] \in {"commit", "error"} /\ cur'[v] = cur[v]
    BY <2>1
  <2> QED
    BY <2>1, <1>1 DEF CommitPassed
<1> QED
  BY <1>2, <1>3, <1>4, <1>5

LEMMA CalmCdc ==
  ASSUME TypeInv, PositionCalm, CdcRedeliver, UNCHANGED marked
  PROVE  PositionCalm'
<1> USE DEF PositionCalm
<1>0. UNCHANGED <<committed, owner, pos, cur, pc, marked>> /\ [GroupNext]_groupVars
  BY DEF CdcRedeliver, GroupNext, resultVars
<1>1. \A q \in Partition :
         /\ Len(log[q]) \in Nat /\ Len(log'[q]) \in Nat /\ Len(log[q]) <= Len(log'[q])
         /\ \A i \in 1..Len(log[q]) : log'[q][i].ev = log[q][i].ev
         /\ \A i \in 1..Len(log[q]) : Passed(q, i) => Passed(q, i)'
  BY <1>0, PassedKept
<1>2. PICK p \in Primary : \E i \in 1..Len(log[p]) :
              log' = [log EXCEPT ![p] = Append(@, log[p][i])]
  BY DEF CdcRedeliver
<1>3. PICK n \in 1..Len(log[p]) : log' = [log EXCEPT ![p] = Append(@, log[p][n])]
  BY <1>2
<1>4. /\ \A q \in Partition : q # p => log'[q] = log[q]
      /\ Len(log'[p]) = Len(log[p]) + 1 /\ log'[p][Len(log[p]) + 1] = log[p][n]
  BY <1>3 DEF TypeInv, GroupTypeOK, Partition
<1>5. LogCalm'
  <2>1. ASSUME NEW q \in Primary
        PROVE  /\ Len(Backlog[q]) <= Len(log'[q])
               /\ \A i \in 1..Len(Backlog[q]) : log'[q][i].ev = Backlog[q][i]
               /\ \A j \in 1..Len(log'[q]) :
                    \E i \in 1..Len(Backlog[q]) : i <= j /\ log'[q][j].ev = Backlog[q][i]
    <3>0. q \in Partition
      BY DEF Partition
    <3>1. /\ Len(Backlog[q]) <= Len(log[q])
          /\ \A i \in 1..Len(Backlog[q]) : log[q][i].ev = Backlog[q][i]
          /\ \A j \in 1..Len(log[q]) :
               \E i \in 1..Len(Backlog[q]) : i <= j /\ log[q][j].ev = Backlog[q][i]
      BY DEF LogCalm
    <3>2. Len(Backlog[q]) \in Nat
      BY GroupAssumption DEF GroupAssumption
    <3>3. ASSUME NEW j \in 1..Len(log'[q])
          PROVE  \E i \in 1..Len(Backlog[q]) : i <= j /\ log'[q][j].ev = Backlog[q][i]
      <4>1. CASE j \in 1..Len(log[q])
        BY <4>1, <3>0, <3>1, <1>1
      <4>2. CASE j \notin 1..Len(log[q])
        <5>1. q = p /\ j = Len(log[p]) + 1
          BY <4>2, <3>0, <1>1, <1>4
        <5>2. PICK i \in 1..Len(Backlog[p]) : i <= n /\ log[p][n].ev = Backlog[p][i]
          BY <5>1, <3>1
        <5>3. n <= j
          BY <5>1, <3>0, <1>1
        <5>4. i <= j
          BY <5>2, <5>3, <3>2, <5>1
        <5> QED
          BY <5>1, <5>2, <5>4, <1>4
      <4> QED
        BY <4>1, <4>2
    <3>4. \A i \in 1..Len(Backlog[q]) : log'[q][i].ev = Backlog[q][i]
      <4>1. \A i \in 1..Len(Backlog[q]) : i \in 1..Len(log[q])
        BY <3>0, <3>1, <3>2, <1>1
      <4> QED
        BY <4>1, <3>0, <3>1, <1>1
    <3>5. Len(Backlog[q]) <= Len(log'[q])
      BY <3>0, <3>1, <3>2, <1>1
    <3> QED
      BY <3>3, <3>4, <3>5
  <2>2. \A r \in Retry : r # p /\ r \in Partition
    BY GroupAssumption DEF GroupAssumption, Partition
  <2>3. \A r \in Retry : Len(log'[r]) = 0
    BY <2>2, <1>4 DEF LogCalm
  <2> QED
    BY <2>1, <2>3 DEF LogCalm
<1>6. CommittedPassed'
  <2>1. ASSUME NEW q \in Partition
        PROVE  committed[q] <= Len(log'[q]) /\ \A i \in 1..committed[q] : Passed(q, i)'
    <3>1. committed[q] \in Nat /\ committed[q] <= Len(log[q]) /\ \A i \in 1..committed[q] : Passed(q, i)
      BY DEF CommittedPassed, TypeInv, GroupTypeOK
    <3> QED
      BY <3>1, <1>1
  <2> QED
    BY <2>1, <1>0 DEF CommittedPassed
<1>7. ReaderPassed'
  <2>1. ASSUME NEW q \in Partition
        PROVE  /\ pos[q] <= Len(log'[q])
               /\ \A i \in 1..pos[q] :
                    \/ Passed(q, i)'
                    \/ i = pos[q] /\ \E w \in Worker : pc[w] = "process" /\ cur[w] = <<q, i>>
    <3>1. pos[q] \in Nat /\ pos[q] <= Len(log[q])
      BY DEF ReaderPassed, TypeInv, GroupTypeOK
    <3>2. \A i \in 1..pos[q] : i \in 1..Len(log[q])
      BY <3>1, <1>1
    <3>3. ASSUME NEW i \in 1..pos[q]
          PROVE  \/ Passed(q, i)'
                 \/ i = pos[q] /\ \E w \in Worker : pc[w] = "process" /\ cur[w] = <<q, i>>
      BY <3>2, <1>1 DEF ReaderPassed
    <3>4. pos[q] <= Len(log'[q])
      BY <3>1, <1>1
    <3> QED
      BY <3>3, <3>4
  <2> QED
    BY <2>1, <1>0 DEF ReaderPassed
<1>8. OwnerProcesses' /\ NoneFailed'
  BY <1>0 DEF OwnerProcesses, NoneFailed
<1>9. CommitPassed'
  <2>1. ASSUME NEW w \in Worker, pc[w] \in {"commit", "error"}
        PROVE  \A i \in 1..cur[w][2] : Passed(cur[w][1], i)'
    <3>1. PICK q \in Partition : \E i \in 1..Len(log[q]) :
            cur[w] = <<q, i>> /\ EventOf(cur[w]) = log[q][i].ev
      BY <2>1, InHand
    <3>2. PICK k \in 1..Len(log[q]) : cur[w] = <<q, k>>
      BY <3>1
    <3>3. \A i \in 1..k : i \in 1..Len(log[q]) /\ Passed(q, i)
      BY <2>1, <3>2, <1>1 DEF CommitPassed
    <3> QED
      BY <3>2, <3>3, <1>0, <1>1
  <2> QED
    BY <2>1, <1>0 DEF CommitPassed
<1> QED
  BY <1>5, <1>6, <1>7, <1>8, <1>9

LEMMA CalmSame ==
  ASSUME PositionCalm, UNCHANGED <<groupVars, marked>>
  PROVE  PositionCalm'
<1>1. \A q, i : Passed(q, i) <=> Passed(q, i)'
  BY DEF Passed, groupVars
<1>2. LogCalm' /\ NoneFailed' /\ OwnerProcesses'
  BY DEF PositionCalm, LogCalm, NoneFailed, OwnerProcesses, groupVars
<1>3. CommittedPassed' /\ ReaderPassed'
  BY <1>1 DEF PositionCalm, CommittedPassed, ReaderPassed, groupVars
<1>4. CommitPassed'
  BY <1>1 DEF PositionCalm, CommitPassed, groupVars
<1> QED
  BY <1>2, <1>3, <1>4 DEF PositionCalm

LEMMA PositionCalmStep ==
  ASSUME ~RecreateReader, TypeInv, SinkTypeOK, PositionCalm, [SinkNext]_sinkVars, disturbed' = {}
  PROVE  PositionCalm'
<1>0. NoneFailed /\ [GroupNext]_groupVars
  BY SinkStepIsGroupStep DEF PositionCalm
<1>1. ASSUME NEW w \in Worker, FetchMessage(w)
      PROVE  PositionCalm'
  BY <1>0, <1>1, CalmFetch
<1>2. ASSUME NEW w \in Worker, SkipDuplicate(w) \/ SkipInvalid(w) \/ MarkProcessed(w)
      PROVE  PositionCalm'
  BY <1>0, <1>2, CalmFinish
<1>3. ASSUME NEW w \in Worker, NotProcessed(w) \/ Write(w)
      PROVE  PositionCalm'
  BY <1>3, CalmSame DEF NotProcessed, Write, dbVars
<1>4. ASSUME NEW w \in Worker, Commit(w) \/ OnError(w) \/ CommitFails(w), UNCHANGED dbVars
      PROVE  PositionCalm'
  BY <1>4, CalmCommit DEF dbVars
<1>5. ASSUME NEW w \in Worker, Crash(w), Unfenced(Worker \ {w})
      PROVE  PositionCalm'
  <2>1. /\ Regroup /\ UNCHANGED <<log, committed, marked>>
        /\ pc' = [pc EXCEPT ![w] = "idle"] /\ cur' = [cur EXCEPT ![w] = NoRef]
    BY <1>5 DEF Crash, Done, Goto, Unfenced
  <2>2. \A v \in Worker \ {w} : pc[v] # "process"
    BY <1>5 DEF Unfenced
  <2>3. \A v \in Worker : \/ pc'[v] = "idle"
                          \/ pc'[v] = pc[v] /\ cur'[v] = cur[v] /\ pc[v] # "process"
    BY <2>1, <2>2 DEF TypeInv, GroupTypeOK
  <2> QED
    BY <2>1, <2>3, CalmRegroup
<1>6. CASE Rebalance /\ Unfenced(Worker)
  <2>1. Regroup /\ UNCHANGED <<log, committed, marked, cur, pc>>
    BY <1>6 DEF Rebalance, Unfenced
  <2>2. \A v \in Worker : pc[v] # "process"
    BY <1>6 DEF Unfenced
  <2> QED
    BY <2>1, <2>2, CalmRegroup
<1>7. CASE CdcRedeliver /\ UNCHANGED <<stage, dbVars>>
  BY <1>7, CalmCdc DEF dbVars
<1>8. CASE UNCHANGED sinkVars
  BY <1>8, CalmSame DEF sinkVars
<1> QED
  BY <1>0, <1>1, <1>2, <1>3, <1>4, <1>5, <1>6, <1>7, <1>8, StaysCalm

------------------------------------------------------------------------------
(* The event a replica has in hand is the backlog's at some place of a primary
   partition, and all the backlog before that place is passed. *)
LEMMA InHandPlace ==
  ASSUME TypeInv, PositionCalm, NEW w \in Worker, pc[w] = "process"
  PROVE  \E p \in Primary : \E i \in 1..Len(Backlog[p]) :
           /\ EventOf(cur[w]) = Backlog[p][i]
           /\ owner[p] = w
           /\ \A j \in 1..(i - 1) : Backlog[p][j] \in marked \cup Invalid
<1> USE DEF PositionCalm
<1>1. PICK p \in Partition : \E i \in 1..Len(log[p]) :
        cur[w] = <<p, i>> /\ EventOf(cur[w]) = log[p][i].ev
  BY InHand
<1>2. PICK n \in 1..Len(log[p]) : cur[w] = <<p, n>> /\ EventOf(cur[w]) = log[p][n].ev
  BY <1>1
<1>3. Len(log[p]) \in Nat
  BY DEF TypeInv, GroupTypeOK
<1>4. p \in Primary
  BY <1>2, <1>3 DEF LogCalm, Partition
<1>5. /\ Len(Backlog[p]) <= Len(log[p])
      /\ \A i \in 1..Len(Backlog[p]) : log[p][i].ev = Backlog[p][i]
  BY <1>4 DEF LogCalm
<1>6. PICK i \in 1..Len(Backlog[p]) : i <= n /\ log[p][n].ev = Backlog[p][i]
  BY <1>4 DEF LogCalm
<1>7. owner[p] = w /\ pos[p] = n
  BY <1>2 DEF OwnerProcesses
<1>8. Len(Backlog[p]) \in Nat
  BY <1>4, GroupAssumption DEF GroupAssumption
<1>9. ASSUME NEW j \in 1..(i - 1)
      PROVE  Backlog[p][j] \in marked \cup Invalid
  <2>1. j \in 1..pos[p] /\ j # pos[p] /\ j \in 1..Len(Backlog[p])
    BY <1>6, <1>7, <1>8
  <2>2. Passed(p, j)
    BY <2>1 DEF ReaderPassed
  <2> QED
    BY <2>1, <2>2, <1>5 DEF Passed
<1> QED
  BY <1>2, <1>4, <1>6, <1>7, <1>9

(* Two replicas never have the same event in hand. *)
LEMMA OneHand ==
  ASSUME TypeInv, PositionCalm, NEW v \in Worker, NEW w \in Worker,
         pc[v] = "process", pc[w] = "process", EventOf(cur[v]) = EventOf(cur[w])
  PROVE  v = w
<1>1. PICK p \in Primary : \E i \in 1..Len(Backlog[p]) :
           EventOf(cur[w]) = Backlog[p][i] /\ owner[p] = w
  BY InHandPlace
<1>2. PICK q \in Primary : \E i \in 1..Len(Backlog[q]) :
           EventOf(cur[v]) = Backlog[q][i] /\ owner[q] = v
  BY InHandPlace
<1>3. p = q
  BY <1>1, <1>2, BacklogAssumption DEF BacklogAssumption
<1> QED
  BY <1>1, <1>2, <1>3

LEMMA WriterAloneStep ==
  ASSUME TypeInv, SinkTypeOK, PositionCalm, WriterAlone, [SinkNext]_sinkVars, disturbed' = {}
  PROVE  WriterAlone'
<1>0. NoneFailed /\ [GroupNext]_groupVars
  BY SinkStepIsGroupStep DEF PositionCalm
<1>1. ASSUME NEW v \in Worker, pc[v] = "process", pc'[v] = "process", cur'[v] = cur[v],
             stage'[v] = stage[v] \/ EventOf(cur[v]) \notin marked,
             stage'[v] \in {"write", "mark"},
             \/ UNCHANGED marked
             \/ \E w \in Worker \ {v} : pc[w] = "process" /\ marked' = marked \cup {EventOf(cur[w])}
      PROVE  EventOf(cur[v])' \notin marked'
  <2>1. EventOf(cur[v])' = EventOf(cur[v])
    BY <1>0, <1>1, EventOfCurKept
  <2>2. EventOf(cur[v]) \notin marked
    BY <1>1 DEF WriterAlone
  <2>3. \A w \in Worker \ {v} : pc[w] = "process" => EventOf(cur[w]) # EventOf(cur[v])
    BY <1>1, OneHand
  <2> QED
    BY <1>1, <2>1, <2>2, <2>3
<1>2. ASSUME NEW w \in Worker, FetchMessage(w)
      PROVE  WriterAlone'
  <2>1. /\ stage'[w] = "check" /\ UNCHANGED marked
        /\ \A v \in Worker \ {w} : stage'[v] = stage[v] /\ pc'[v] = pc[v] /\ cur'[v] = cur[v]
    BY <1>2 DEF FetchMessage, Fetch, Goto, EnterStage, dbVars, SinkTypeOK, TypeInv, GroupTypeOK
  <2> QED
    BY <2>1, <1>1 DEF WriterAlone
<1>3. ASSUME NEW w \in Worker, NotProcessed(w) \/ Write(w)
      PROVE  WriterAlone'
  <2>1. /\ UNCHANGED <<marked, pc, cur>> /\ pc[w] = "process"
        /\ EventOf(cur[w]) \notin marked
        /\ \A v \in Worker \ {w} : stage'[v] = stage[v]
    BY <1>3 DEF NotProcessed, Write, At, EnterStage, dbVars, groupVars, SinkTypeOK, WriterAlone
  <2> QED
    BY <2>1, <1>1 DEF WriterAlone
<1>4. ASSUME NEW w \in Worker, SkipDuplicate(w) \/ SkipInvalid(w) \/ MarkProcessed(w)
      PROVE  WriterAlone'
  <2>1. /\ UNCHANGED <<stage, cur>> /\ pc[w] = "process" /\ pc'[w] = "commit"
        /\ UNCHANGED marked \/ marked' = marked \cup {EventOf(cur[w])}
        /\ \A v \in Worker \ {w} : pc'[v] = pc[v]
    BY <1>4 DEF SkipDuplicate, SkipInvalid, MarkProcessed, ProcessOk, InsertMarker, Goto, dbVars,
                TypeInv, GroupTypeOK
  <2> QED
    BY <2>1, <1>1 DEF WriterAlone
<1>5. ASSUME \A v \in Worker : pc'[v] = "process" => pc[v] = "process" /\ cur'[v] = cur[v],
             UNCHANGED <<stage, marked>>
      PROVE  WriterAlone'
  BY <1>5, <1>1 DEF WriterAlone
<1>6. ASSUME NEW w \in Worker, Commit(w) \/ OnError(w) \/ CommitFails(w) \/ Crash(w)
      PROVE  \A v \in Worker : pc'[v] = "process" => pc[v] = "process" /\ cur'[v] = cur[v]
  <2>1. \E s \in {"idle", "error"} : pc' = [pc EXCEPT ![w] = s]
    BY <1>6 DEF Commit, OnError, CommitFails, Crash, Done, Goto
  <2>2. UNCHANGED cur \/ cur' = [cur EXCEPT ![w] = NoRef]
    BY <1>6 DEF Commit, OnError, CommitFails, Crash, Done
  <2> QED
    BY <2>1, <2>2 DEF TypeInv, GroupTypeOK
<1>7. ASSUME NEW w \in Worker, (Commit(w) \/ OnError(w) \/ CommitFails(w)) /\ UNCHANGED <<stage, dbVars>>
      PROVE  WriterAlone'
  BY <1>5, <1>6, <1>7 DEF dbVars
<1>8. ASSUME NEW w \in Worker, Crash(w) /\ Unfenced(Worker \ {w})
      PROVE  WriterAlone'
  BY <1>5, <1>6, <1>8 DEF Unfenced
<1>9. CASE \/ Rebalance /\ Unfenced(Worker)
           \/ CdcRedeliver /\ UNCHANGED <<stage, dbVars>>
           \/ UNCHANGED sinkVars
  BY <1>5, <1>9 DEF Unfenced, Rebalance, CdcRedeliver, dbVars, sinkVars, groupVars
<1> QED
  BY <1>0, <1>2, <1>3, <1>4, <1>7, <1>8, <1>9, StaysCalm

(* Among undisturbed steps only Write changes the store. *)
LEMMA StoreStep ==
  ASSUME TypeInv, SinkTypeOK, NoneFailed, [SinkNext]_sinkVars, disturbed' = {}
  PROVE  UNCHANGED <<store, applied>> \/ \E w \in Worker : Write(w)
<1>1. ASSUME NEW w \in Worker, \/ FetchMessage(w) \/ SkipDuplicate(w) \/ SkipInvalid(w)
                               \/ NotProcessed(w) \/ MarkProcessed(w)
                               \/ Crash(w) /\ Unfenced(Worker \ {w})
      PROVE  UNCHANGED <<store, applied>>
  BY <1>1 DEF FetchMessage, SkipDuplicate, SkipInvalid, NotProcessed, MarkProcessed, Unfenced, dbVars
<1>2. CASE \/ Rebalance /\ Unfenced(Worker)
           \/ UNCHANGED dbVars
           \/ UNCHANGED sinkVars
  BY <1>2 DEF Unfenced, dbVars, sinkVars
<1> QED
  BY <1>1, <1>2, StaysCalm

(* Events of the backlog that were written before the one a replica writes now
   stand before it in their partition. *)
LEMMA WrittenBefore ==
  ASSUME TypeInv, SinkTypeOK, PositionCalm, WriterAlone, AppliedInTurn, StageInv,
         NEW w \in Worker, At(w, "write")
  PROVE  \E p \in Primary : \E n \in 1..Len(Backlog[p]) :
           /\ EventOf(cur[w]) = Backlog[p][n]
           /\ Backlog[p][n] \notin Invalid
           /\ \A j \in 1..(n - 1) : Backlog[p][j] \in marked \cup Invalid
           /\ \A i \in 1..Len(Backlog[p]) : Backlog[p][i] \in applied => i <= n
<1>1. PICK p \in Primary : \E i \in 1..Len(Backlog[p]) :
           /\ EventOf(cur[w]) = Backlog[p][i]
           /\ \A j \in 1..(i - 1) : Backlog[p][j] \in marked \cup Invalid
  BY InHandPlace DEF At
<1>2. PICK n \in 1..Len(Backlog[p]) :
           /\ EventOf(cur[w]) = Backlog[p][n]
           /\ \A j \in 1..(n - 1) : Backlog[p][j] \in marked \cup Invalid
  BY <1>1
<1>3. Backlog[p][n] \notin marked \cup Invalid
  BY <1>2 DEF WriterAlone, StageInv, At
<1>4. Len(Backlog[p]) \in Nat
  BY GroupAssumption DEF GroupAssumption
<1>5. ASSUME NEW i \in 1..Len(Backlog[p]), Backlog[p][i] \in applied, ~(i <= n)
      PROVE  FALSE
  <2>1. n \in 1..(i - 1)
    BY <1>4, <1>5
  <2> QED
    BY <2>1, <1>3, <1>5 DEF AppliedInTurn
<1> QED
  BY <1>2, <1>3, <1>5

LEMMA OrderCalmStep ==
  ASSUME TypeInv, SinkTypeOK, PositionCalm, OrderCalm, StageInv, [SinkNext]_sinkVars, disturbed' = {}
  PROVE  AppliedInTurn' /\ StoreLatest'
<1> USE DEF OrderCalm
<1>0. NoneFailed /\ marked \subseteq marked'
  BY StaysCalm DEF PositionCalm
<1>1. CASE UNCHANGED <<store, applied>>
  BY <1>0, <1>1 DEF AppliedInTurn, StoreLatest
<1>2. ASSUME NEW w \in Worker, Write(w)
      PROVE  AppliedInTurn' /\ StoreLatest'
  <2>0. /\ At(w, "write")
        /\ store' = [store EXCEPT ![KeyOf[EventOf(cur[w])]] = EventOf(cur[w])]
        /\ applied' = applied \cup {EventOf(cur[w])}
    BY <1>2 DEF Write, Apply
  <2>1. PICK p \in Primary : \E n \in 1..Len(Backlog[p]) :
           /\ EventOf(cur[w]) = Backlog[p][n]
           /\ Backlog[p][n] \notin Invalid
           /\ \A j \in 1..(n - 1) : Backlog[p][j] \in marked \cup Invalid
           /\ \A i \in 1..Len(Backlog[p]) : Backlog[p][i] \in applied => i <= n
    BY <2>0, WrittenBefore
  <2>2. PICK n \in 1..Len(Backlog[p]) :
           /\ EventOf(cur[w]) = Backlog[p][n]
           /\ Backlog[p][n] \notin Invalid
           /\ \A j \in 1..(n - 1) : Backlog[p][j] \in marked \cup Invalid
           /\ \A i \in 1..Len(Backlog[p]) : Backlog[p][i] \in applied => i <= n
    BY <2>1
  <2>3. \A q \in Primary : Len(Backlog[q]) \in Nat /\ \A i \in 1..Len(Backlog[q]) : Backlog[q][i] \in Event
    BY GroupAssumption DEF GroupAssumption
  <2>4. \A q \in Primary : \A i \in 1..Len(Backlog[q]) : KeyOf[Backlog[q][i]] \in Key
    BY <2>3, SinkAssumption DEF SinkAssumption
  <2>5. /\ store'[KeyOf[Backlog[p][n]]] = Backlog[p][n]
        /\ \A k \in Key : k # KeyOf[Backlog[p][n]] => store'[k] = store[k]
    BY <2>0, <2>2, <2>4 DEF SinkTypeOK
  <2>6. \A q \in Primary : \A i \in 1..Len(Backlog[q]) :
          Backlog[q][i] = Backlog[p][n] => q = p /\ i = n
    BY BacklogAssumption DEF BacklogAssumption
  <2>7. ASSUME NEW q \in Primary, NEW i \in 1..Len(Backlog[q]), Backlog[q][i] \in applied'
        PROVE  /\ \A j \in 1..(i - 1) : Backlog[q][j] \in marked \cup Invalid
               /\ \E j \in i..Len(Backlog[q]) :
                    /\ store'[KeyOf[Backlog[q][i]]] = Backlog[q][j]
                    /\ KeyOf[Backlog[q][j]] = KeyOf[Backlog[q][i]]
                    /\ Backlog[q][j] \notin Invalid
    <3>1. CASE KeyOf[Backlog[q][i]] = KeyOf[Backlog[p][n]]
      <4>1. q = p
        BY <3>1, BacklogAssumption DEF BacklogAssumption
      <4>2. i = n \/ Backlog[p][i] \in applied
        BY <4>1, <2>0, <2>2, <2>6, <2>7
      <4>3. i <= n /\ n \in i..Len(Backlog[p])
        BY <4>1, <4>2, <2>2, <2>3
      <4>4. \A j \in 1..(i - 1) : Backlog[p][j] \in marked \cup Invalid
        BY <4>1, <4>2, <2>2 DEF AppliedInTurn
      <4> QED
        BY <3>1, <4>1, <4>3, <4>4, <2>2, <2>5
    <3>2. CASE KeyOf[Backlog[q][i]] # KeyOf[Backlog[p][n]]
      <4>1. Backlog[q][i] \in applied
        BY <3>2, <2>0, <2>2, <2>7
      <4>2. store'[KeyOf[Backlog[q][i]]] = store[KeyOf[Backlog[q][i]]]
        BY <3>2, <2>4, <2>5
      <4> QED
        BY <4>1, <4>2 DEF AppliedInTurn, StoreLatest
    <3> QED
      BY <3>1, <3>2
  <2>8. AppliedInTurn'
    BY <2>7, <1>0 DEF AppliedInTurn
  <2>9. StoreLatest'
    BY <2>7 DEF StoreLatest
  <2> QED
    BY <2>8, <2>9
<1> QED
  BY <1>0, <1>1, <1>2, StoreStep

LEMMA CalmInit == SinkInit => CalmInv
<1> SUFFICES ASSUME SinkInit PROVE PositionCalm /\ OrderCalm
  BY DEF CalmInv
<1>0. /\ \A p \in Partition : committed[p] = 0 /\ pos[p] = 0
      /\ \A w \in Worker : pc[w] = "idle"
      /\ applied = {}
  BY DEF SinkInit, GroupInit
<1>1. /\ \A p \in Primary : /\ Len(log[p]) = Len(Backlog[p]) /\ Len(Backlog[p]) \in Nat
                            /\ \A i \in 1..Len(Backlog[p]) : log[p][i].ev = Backlog[p][i]
      /\ \A r \in Retry : Len(log[r]) = 0
  <2>1. ASSUME NEW p \in Primary
        PROVE  /\ Len(log[p]) = Len(Backlog[p]) /\ Len(Backlog[p]) \in Nat
               /\ \A i \in 1..Len(Backlog[p]) : log[p][i].ev = Backlog[p][i]
    <3>1. log[p] = [i \in 1..Len(Backlog[p]) |-> [ev |-> Backlog[p][i], count |-> 0]]
      BY DEF SinkInit, GroupInit, Partition
    <3>2. Len(Backlog[p]) \in Nat
      BY GroupAssumption DEF GroupAssumption
    <3> QED
      BY <3>1, <3>2
  <2>2. \A r \in Retry : log[r] = <<>>
    BY GroupAssumption DEF SinkInit, GroupInit, Partition, GroupAssumption
  <2> QED
    BY <2>1, <2>2
<1>2. LogCalm
  <2>1. \A p \in Primary : \A j \in 1..Len(log[p]) :
          \E i \in 1..Len(Backlog[p]) : i <= j /\ log[p][j].ev = Backlog[p][i]
    BY <1>1
  <2> QED
    BY <1>1, <2>1 DEF LogCalm
<1>3. \A p \in Partition : Len(log[p]) >= 0
  <2>1. \A p \in Partition : p \in Primary \/ p \in Retry
    BY DEF Partition
  <2> QED
    BY <2>1, <1>1
<1>4. NoneFailed /\ CommittedPassed /\ ReaderPassed /\ OwnerProcesses /\ CommitPassed
  BY <1>0, <1>3 DEF NoneFailed, CommittedPassed, ReaderPassed, OwnerProcesses, CommitPassed
<1>5. OrderCalm
  BY <1>0 DEF OrderCalm, WriterAlone, AppliedInTurn, StoreLatest
<1> QED
  BY <1>2, <1>4, <1>5 DEF PositionCalm

LEMMA CalmStep ==
  ASSUME ~RecreateReader, SinkInv, CalmInv, [SinkNext]_sinkVars
  PROVE  CalmInv'
<1> SUFFICES ASSUME disturbed' = {} PROVE PositionCalm' /\ OrderCalm'
  BY DEF CalmInv
<1>0. TypeInv /\ SinkTypeOK /\ StageInv
  BY DEF SinkInv, CompletionInv
<1>1. disturbed = {}
  <2>1. disturbed \subseteq disturbed'
    BY DEF SinkNext, SinkCycle, WrapperFault, FetchMessage, SkipDuplicate, SkipInvalid, NotProcessed,
           Write, MarkProcessed, StageFails, Wrapper, Unfenced, PurgeMarker, dbVars, sinkVars
  <2> QED
    BY <2>1
<1>2. PositionCalm /\ OrderCalm
  BY <1>1 DEF CalmInv
<1>3. PositionCalm'
  BY <1>0, <1>2, PositionCalmStep
<1>4. WriterAlone'
  BY <1>0, <1>2, WriterAloneStep DEF OrderCalm
<1>5. AppliedInTurn' /\ StoreLatest'
  BY <1>0, <1>2, OrderCalmStep
<1> QED
  BY <1>3, <1>4, <1>5 DEF OrderCalm

LEMMA CalmOrders == SinkInv /\ CalmInv => OrderWithoutFailures
<1> SUFFICES ASSUME SinkInv, CalmInv, disturbed = {}, Drained,
                    NEW e \in Event \ Invalid, Newest(KeyOf[e], e)
             PROVE  store[KeyOf[e]] = e
  BY DEF OrderWithoutFailures, PerEntityOrder
<1>0. PositionCalm /\ OrderCalm
  BY DEF CalmInv
<1>1. PICK p \in Primary : \E i \in 1..Len(Backlog[p]) :
        /\ Backlog[p][i] = e
        /\ \A j \in (i+1)..Len(Backlog[p]) : KeyOf[Backlog[p][j]] # KeyOf[e] \/ Backlog[p][j] \in Invalid
  BY DEF Newest
<1>2. PICK i \in 1..Len(Backlog[p]) :
        /\ Backlog[p][i] = e
        /\ \A j \in (i+1)..Len(Backlog[p]) : KeyOf[Backlog[p][j]] # KeyOf[e] \/ Backlog[p][j] \in Invalid
  BY <1>1
<1>3. Len(Backlog[p]) \in Nat /\ Len(log[p]) \in Nat
  BY GroupAssumption DEF GroupAssumption, SinkInv, TypeInv, GroupTypeOK, Partition
<1>4. /\ Len(Backlog[p]) <= Len(log[p]) /\ log[p][i].ev = e
  BY <1>0, <1>2 DEF PositionCalm, LogCalm
<1>5. i \in 1..committed[p]
  BY <1>2, <1>3, <1>4 DEF Drained, Partition
<1>6. e \in marked
  BY <1>0, <1>4, <1>5 DEF PositionCalm, CommittedPassed, Passed, Partition
<1>7. e \in applied
  BY <1>6 DEF SinkInv, CompletionInv, MarkerMeansApplied
<1>8. PICK j \in i..Len(Backlog[p]) :
        /\ store[KeyOf[e]] = Backlog[p][j]
        /\ KeyOf[Backlog[p][j]] = KeyOf[e]
        /\ Backlog[p][j] \notin Invalid
  BY <1>0, <1>2, <1>7 DEF OrderCalm, StoreLatest
<1>9. j = i
  BY <1>2, <1>3, <1>8
<1> QED
  BY <1>2, <1>8, <1>9

(* The order of each aggregate's states survives crashes, rebalances, failed
   publications and commits and redeliveries, for the loop of the sinks, as
   long as no event fails, loses its marker or is in hand when its partition
   moves. *)
THEOREM OrderKeptWithoutFailures ==
  ASSUME ~RecreateReader
  PROVE  SinkSpec => []OrderWithoutFailures
<1>1. SinkInit => CalmInv
  BY CalmInit
<1>2. SinkInv /\ CalmInv /\ [SinkNext]_sinkVars => CalmInv'
  BY CalmStep
<1>3. SinkSpec => []CalmInv
  BY <1>1, <1>2, SinkAlways, PTL DEF SinkSpec
<1>4. SinkInv /\ CalmInv => OrderWithoutFailures
  BY CalmOrders
<1> QED
  BY <1>3, <1>4, SinkAlways, PTL
=============================================================================
