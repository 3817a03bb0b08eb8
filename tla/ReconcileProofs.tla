-------------------------- MODULE ReconcileProofs --------------------------
(***************************************************************************)
(* Proofs about CanonicalStore and Reconcile, for any files, commands,     *)
(* entities, faults, purges, losses and jobs:                              *)
(*                                                                         *)
(*   StoreTypeCorrect, RowsAccounted, ReferencesKept                       *)
(*     one invariant, Inv: no row of PostgreSQL is unknown to a consumer   *)
(*     that must know of it, and the references hold.                      *)
(*   RepairReachesView                                                     *)
(*     RepairInv: a row the qdrant and opensearch jobs report as           *)
(*     republished reaches its view.                                       *)
(*   LastParseOnly                                                         *)
(*     the rows of an entity are those of the last command that wrote it.  *)
(*   DeadLettersHideNothing                                                *)
(*     LetterInv: without faults a dead letter hides no missing vector.    *)
(***************************************************************************)
EXTENDS Reconcile, TLAPS

-----------------------------------------------------------------------------
(* What the helpers do to the topics *)

Message(c) == [event : EventType(c), retries : 0 .. MaxRetries]
QueuesOK(q) == DOMAIN q = Consumer /\ \A c \in Consumer : q[c] \subseteq Message(c)

LEMMA Sorts ==
  /\ Sink \subseteq Consumer /\ "embedder" \in Consumer \ Sink
  /\ "graph" \in Sink /\ "search" \in Sink /\ "vector" \in Sink
  /\ \A c \in Consumer : c \in Sink \/ c = "embedder"
BY DEF Sink, Consumer

LEMMA RetriesNat == MaxRetries \in Nat /\ 0 \in 0 .. MaxRetries
BY StoreAssumption DEF StoreAssumption

LEMMA FreshTyped ==
  ASSUME NEW c \in Consumer, NEW S \in SUBSET EventType(c)
  PROVE  /\ Fresh(S) \in SUBSET Message(c)
         /\ \A e \in S : \E m \in Fresh(S) : m.event = e
         /\ \A m \in Fresh(S) : m.event \in S
<1>1. \A e \in S : [event |-> e, retries |-> 0] \in Message(c)
  BY RetriesNat DEF Message
<1>2. \A e \in S : [event |-> e, retries |-> 0] \in Fresh(S)
  BY DEF Fresh
<1>3. \A m \in Fresh(S) : \E e \in S : m = [event |-> e, retries |-> 0]
  BY DEF Fresh
<1>4. Fresh(S) \in SUBSET Message(c)
  BY <1>1, <1>3
<1>5. \A e \in S : \E m \in Fresh(S) : m.event = e
  BY <1>2
<1>6. \A m \in Fresh(S) : m.event \in S
  BY <1>3
<1> QED
  BY <1>4, <1>5, <1>6

(* A message is settled, or it stays for another delivery. *)
LEMMA SettleStep ==
  ASSUME NEW q, QueuesOK(q), NEW c \in Consumer, NEW m \in q[c],
         SettleIn(q, c, m)
  PROVE  /\ QueuesOK(pending')
         /\ \A d \in Consumer : pending'[d] \subseteq q[d]
         /\ \A d \in Consumer : d # c => pending'[d] = q[d]
         /\ \A x \in q[c] : x # m => x \in pending'[c]
BY DEF SettleIn, QueuesOK

(* A failed message is published again or dead-lettered: its event stays. *)
LEMMA RetryStep ==
  ASSUME NEW q, QueuesOK(q), NEW c \in Consumer, NEW m \in q[c],
         DOMAIN dead = Consumer, \A d \in Consumer : dead[d] \subseteq EventType(d),
         RetryOrDeadLetterIn(q, c, m)
  PROVE  /\ QueuesOK(pending')
         /\ \A d \in Consumer : d # c => pending'[d] = q[d]
         /\ \A x \in q[c] : \/ \E y \in pending'[c] : y.event = x.event
                            \/ x.event \in dead'[c]
         /\ \A y \in pending'[c] : \E x \in q[c] : y.event = x.event
         /\ DOMAIN dead' = Consumer
         /\ \A d \in Consumer : /\ dead[d] \subseteq dead'[d]
                                /\ dead'[d] \subseteq EventType(d)
                                /\ d # c => dead'[d] = dead[d]
         /\ dead'[c] \subseteq dead[c] \cup {m.event}
<1>1. m \in Message(c) /\ m.event \in EventType(c) /\ m.retries \in 0 .. MaxRetries
  BY DEF QueuesOK, Message
<1>2. CASE m.retries < MaxRetries /\ UNCHANGED dead
           /\ pending' = [q EXCEPT ![c] = (@ \ {m}) \cup {[m EXCEPT !.retries = @ + 1]}]
  <2> DEFINE again == [m EXCEPT !.retries = @ + 1]
  <2>1. again \in Message(c) /\ again.event = m.event
    BY <1>1, <1>2, RetriesNat DEF Message
  <2>2. pending' = [q EXCEPT ![c] = (@ \ {m}) \cup {again}]
    BY <1>2
  <2> HIDE DEF again
  <2>3. /\ pending'[c] = (q[c] \ {m}) \cup {again}
        /\ \A d \in Consumer : d # c => pending'[d] = q[d]
        /\ DOMAIN pending' = Consumer
    BY <2>2 DEF QueuesOK
  <2>4. QueuesOK(pending')
    BY <2>1, <2>3 DEF QueuesOK
  <2> QED
    BY <1>2, <2>1, <2>3, <2>4
<1>3. CASE m.retries = MaxRetries /\ pending' = [q EXCEPT ![c] = @ \ {m}]
           /\ dead' = [dead EXCEPT ![c] = @ \cup {m.event}]
  <2>1. /\ pending'[c] = q[c] \ {m}
        /\ \A d \in Consumer : d # c => pending'[d] = q[d]
        /\ DOMAIN pending' = Consumer
    BY <1>3 DEF QueuesOK
  <2>2. /\ dead'[c] = dead[c] \cup {m.event}
        /\ \A d \in Consumer : d # c => dead'[d] = dead[d]
        /\ DOMAIN dead' = Consumer
    BY <1>3
  <2> QED
    BY <1>1, <2>1, <2>2 DEF QueuesOK
<1> QED
  BY <1>2, <1>3 DEF RetryOrDeadLetterIn

(* A document is written under its key: what the view holds under the other
   keys stays, and the key is not a lost one any more. *)
LEMMA WriteStep ==
  ASSUME NEW s \in Sink, NEW row \in RowType(s), DOMAIN view = Sink, DOMAIN lost = Sink,
         \A t \in Sink : view[t] \subseteq RowType(t) /\ lost[t] \subseteq KeyType(t),
         WriteDocument(s, row)
  PROVE  /\ DOMAIN view' = Sink /\ DOMAIN lost' = Sink
         /\ \A t \in Sink : view'[t] \subseteq RowType(t) /\ lost'[t] \subseteq KeyType(t)
         /\ \A t \in Sink : t # s => view'[t] = view[t] /\ lost'[t] = lost[t]
         /\ row \in view'[s]
         /\ \A d \in view[s] : d \in view'[s] \/ DocumentKey(s, d) = DocumentKey(s, row)
         /\ \A d \in view'[s] : d \in view[s] \/ d = row
         /\ lost'[s] = lost[s] \ {DocumentKey(s, row)}
BY DEF WriteDocument

-----------------------------------------------------------------------------
(* What every step of the pipeline keeps *)

TablesTyped ==
  /\ applied \in [File -> Nat]
  /\ \A f \in File : applied[f] <= Len(Queue[f])
  /\ outcome \in [File -> {"none", "applied", "refused"}]
  /\ node \in [Entity -> Hash \cup {NoHash}]
  /\ chunk \subseteq RowType("search")
  /\ embedding \subseteq RowType("vector")
  /\ budget \in [{"faults", "purges", "losses"} -> Nat]
MarkersTyped == \A mk \in marker : mk[1] \in Consumer /\ mk[2] \in EventType(mk[1])
DeadTyped == DOMAIN dead = Consumer /\ \A c \in Consumer : dead[c] \subseteq EventType(c)
ViewsTyped ==
  /\ DOMAIN view = Sink /\ DOMAIN lost = Sink
  /\ \A s \in Sink : view[s] \subseteq RowType(s) /\ lost[s] \subseteq KeyType(s)

LEMMA TypeParts ==
  StoreTypeOK <=> /\ TablesTyped /\ MarkersTyped /\ DeadTyped /\ ViewsTyped
                  /\ QueuesOK(pending)
BY DEF StoreTypeOK, TablesTyped, MarkersTyped, DeadTyped, ViewsTyped, QueuesOK, Message

(* A marker stands for a row the consumer holds. *)
MarkedMeansHeld ==
  \A c \in Consumer : \A event \in EventType(c) :
    Marked(c, event) => Holds(c, event.row)

HoldsStays(c) == \A row \in RowType(c) : Holds(c, row) => Holds(c, row)'

(* A message leaves the topics when its event is dead-lettered, when its row is
   held, or when it has no labels. *)
Delivered(c) ==
  \A x \in pending[c] :
    \/ \E y \in pending'[c] : y.event = x.event
    \/ x.event \in dead'[c]
    \/ ~Labelled(c, x.event)
    \/ Holds(c, x.event.row)'

MarkersHeld ==
  \A c \in Consumer : \A event \in EventType(c) :
    Marked(c, event)' => Marked(c, event) \/ Holds(c, event.row)'

StepOK ==
  /\ StoreTypeOK'
  /\ \A c \in Consumer : HoldsStays(c) /\ Delivered(c) /\ dead[c] \subseteq dead'[c]
  /\ MarkersHeld

LEMMA HoldsByKey ==
  ASSUME NEW c \in Consumer, NEW r \in RowType(c), NEW q \in RowType(c),
         DocumentKey(c, r) = DocumentKey(c, q)
  PROVE  Holds(c, r) => Holds(c, q)
BY DEF Holds, DocumentKey

LEMMA HoldsByKeyNext ==
  ASSUME NEW c \in Consumer, NEW r \in RowType(c), NEW q \in RowType(c),
         DocumentKey(c, r) = DocumentKey(c, q)
  PROVE  Holds(c, r)' => Holds(c, q)'
BY DEF Holds, DocumentKey

(* The tables, the topics and the views change one at a time. *)
LEMMA HoldsFrame ==
  ASSUME embedding \subseteq embedding', UNCHANGED <<view, lost>>, NEW c \in Consumer
  PROVE  HoldsStays(c)
BY DEF HoldsStays, Holds

LEMMA QueuesFrame ==
  ASSUME NEW c \in Consumer, pending[c] \subseteq pending'[c]
  PROVE  Delivered(c)
BY DEF Delivered

LEMMA MarkersFrame == marker' \subseteq marker => MarkersHeld
BY DEF MarkersHeld, Marked

LEMMA SpendTyped ==
  ASSUME budget \in [{"faults", "purges", "losses"} -> Nat],
         NEW w \in {"faults", "purges", "losses"}, Spend(w) \/ UNCHANGED budget
  PROVE  budget' \in [{"faults", "purges", "losses"} -> Nat]
BY DEF Spend

-----------------------------------------------------------------------------
(* The transaction of persist.rs *)

LEMMA CommandFacts ==
  ASSUME StoreTypeOK, NEW f \in File, Waiting(f)
  PROVE  /\ Turn(f) \in Number(f) /\ Turn(f) \in Nat /\ Turn(f) = applied[f] + 1
         /\ Touched(f) \subseteq Entity
         /\ \A e \in Touched(f) : Queue[f][Turn(f)].ast[e] \in Hash
         /\ NewNodes(f) \subseteq RowType("graph")
         /\ NewChunks(f) \subseteq RowType("search")
         /\ \A r \in NewChunks(f) : r.entity \in Touched(f) /\ r.serial = Turn(f)
<1>1. applied[f] \in Nat /\ Len(Queue[f]) \in Nat /\ applied[f] < Len(Queue[f])
  BY StoreAssumption DEF StoreTypeOK, StoreAssumption, Waiting
<1>2. Turn(f) \in Number(f) /\ Turn(f) \in Nat
  BY <1>1 DEF Turn, Number
<1>3. /\ Touched(f) \subseteq Entity
      /\ \A e \in Touched(f) : Queue[f][Turn(f)].ast[e] \in Hash
      /\ \A ch \in Queue[f][Turn(f)].chunks :
           ch \in Entity \X Nat /\ ch[1] \in Touched(f)
  BY <1>2, CommandAssumption DEF CommandAssumption, Touched
<1>4. NewNodes(f) \subseteq RowType("graph")
  BY <1>3 DEF NewNodes, NodeRow, RowType
<1>5. /\ NewChunks(f) \subseteq RowType("search")
      /\ \A r \in NewChunks(f) : r.entity \in Touched(f) /\ r.serial = Turn(f)
  BY <1>2, <1>3 DEF NewChunks, ChunkRow, RowType
<1> QED
  BY <1>2, <1>3, <1>4, <1>5 DEF Turn

(* The rows the transaction announces to a consumer. *)
NewRows(f, c) == CASE c = "graph" -> NewNodes(f)
                   [] c = "vector" -> {}
                   [] OTHER -> NewChunks(f)

LEMMA PublishStep ==
  ASSUME StoreTypeOK, NEW f \in File, Waiting(f), PublishFile(f)
  PROVE  /\ QueuesOK(pending')
         /\ \A c \in Consumer : pending[c] \subseteq pending'[c]
         /\ \A c \in Consumer : \A r \in NewRows(f, c) :
              \E m \in pending'[c] : m.event = Event(r, "persist", Turn(f))
         /\ \A c \in Consumer : \A m \in pending'[c] :
              \/ m \in pending[c]
              \/ \E r \in NewRows(f, c) : m.event = Event(r, "persist", Turn(f))
<1> DEFINE Announce(c) == {Event(r, "persist", Turn(f)) : r \in NewRows(f, c)}
<1>1. \A c \in Consumer : Announce(c) \subseteq EventType(c)
  BY CommandFacts DEF NewRows, EventType, Origin, Event, RowType, Consumer, Sink
<1>2. \A c \in Consumer :
        /\ Fresh(Announce(c)) \subseteq Message(c)
        /\ \A e \in Announce(c) : \E m \in Fresh(Announce(c)) : m.event = e
        /\ \A m \in Fresh(Announce(c)) : m.event \in Announce(c)
  <2> HIDE DEF Announce
  <2> QED
    BY <1>1, FreshTyped
<1>3. QueuesOK(pending)
  BY TypeParts
<1>4. /\ DOMAIN pending' = Consumer
      /\ \A c \in Consumer :
           pending'[c] = IF c = "vector" THEN pending[c]
                         ELSE pending[c] \cup Fresh(Announce(c))
  <2>1. /\ Announce("graph") = {Event(r, "persist", Turn(f)) : r \in NewNodes(f)}
        /\ Announce("search") = {Event(r, "persist", Turn(f)) : r \in NewChunks(f)}
        /\ Announce("embedder") = {Event(r, "persist", Turn(f)) : r \in NewChunks(f)}
    BY DEF NewRows
  <2> HIDE DEF Announce
  <2>2. pending' = [pending EXCEPT
                      !["graph"] = @ \cup Fresh(Announce("graph")),
                      !["search"] = @ \cup Fresh(Announce("search")),
                      !["embedder"] = @ \cup Fresh(Announce("embedder"))]
    BY <2>1 DEF PublishFile
  <2> QED
    BY <2>2, <1>3 DEF QueuesOK, Consumer, Sink
<1>5. NewRows(f, "vector") = {}
  BY DEF NewRows
<1>6. QueuesOK(pending') /\ \A c \in Consumer : pending[c] \subseteq pending'[c]
  <2> HIDE DEF Announce
  <2> QED
    BY <1>2, <1>3, <1>4 DEF QueuesOK
<1>7. ASSUME NEW c \in Consumer, NEW r \in NewRows(f, c)
      PROVE  \E m \in pending'[c] : m.event = Event(r, "persist", Turn(f))
  <2>1. c # "vector"
    BY <1>5, <1>7
  <2>2. Event(r, "persist", Turn(f)) \in Announce(c)
    OBVIOUS
  <2> HIDE DEF Announce
  <2> QED
    BY <2>1, <2>2, <1>2, <1>4
<1>8. ASSUME NEW c \in Consumer, NEW m \in pending'[c]
      PROVE  \/ m \in pending[c]
             \/ \E r \in NewRows(f, c) : m.event = Event(r, "persist", Turn(f))
  <2>1. m \in pending[c] \/ m.event \in Announce(c)
    <3> HIDE DEF Announce
    <3> QED
      BY <1>2, <1>4
  <2> QED
    BY <2>1
<1> QED
  BY <1>6, <1>7, <1>8

LEMMA PersistOK ==
  ASSUME StoreTypeOK, ReferencesHold, NEW f \in File, Persist(f)
  PROVE  StepOK
<1>1. Waiting(f) /\ PublishFile(f)
  BY DEF Persist
<1>2. TablesTyped'
  <2>1. /\ Turn(f) \in Number(f) /\ Turn(f) = applied[f] + 1
        /\ \A e \in Touched(f) : Queue[f][Turn(f)].ast[e] \in Hash
        /\ NewChunks(f) \subseteq RowType("search")
    BY <1>1, CommandFacts
  <2>2. applied' \in [File -> Nat] /\ \A g \in File : applied'[g] <= Len(Queue[g])
    <3>1. applied[f] \in Nat /\ Len(Queue[f]) \in Nat /\ applied[f] < Len(Queue[f])
      BY <1>1, StoreAssumption DEF StoreTypeOK, StoreAssumption, Waiting
    <3> QED
      BY <3>1 DEF Persist, StoreTypeOK
  <2>3. node' \in [Entity -> Hash \cup {NoHash}]
    BY <2>1 DEF Persist, StoreTypeOK
  <2>4. chunk' \subseteq RowType("search")
    BY <2>1 DEF Persist, StoreTypeOK
  <2> QED
    BY <2>2, <2>3, <2>4 DEF Persist, StoreTypeOK, TablesTyped
<1>3. StoreTypeOK'
  <2>1. MarkersTyped' /\ DeadTyped' /\ ViewsTyped'
    BY TypeParts DEF Persist, MarkersTyped, DeadTyped, ViewsTyped
  <2>2. QueuesOK(pending')
    BY <1>1, PublishStep
  <2> QED
    BY <1>2, <2>1, <2>2, TypeParts DEF StoreTypeOK, TablesTyped, MarkersTyped, DeadTyped, ViewsTyped, QueuesOK, Message
<1>4. \A c \in Consumer : HoldsStays(c)
  BY HoldsFrame DEF Persist
<1>5. \A c \in Consumer : Delivered(c)
  BY <1>1, PublishStep, QueuesFrame
<1> QED
  BY <1>3, <1>4, <1>5, MarkersFrame DEF Persist, StepOK

LEMMA RefusedOK ==
  ASSUME StoreTypeOK, NEW f \in File, PersistRefused(f)
  PROVE  StepOK
<1>1. StoreTypeOK'
  BY DEF StoreTypeOK, PersistRefused
<1>2. \A c \in Consumer : HoldsStays(c) /\ Delivered(c)
  BY HoldsFrame, QueuesFrame DEF PersistRefused
<1> QED
  BY <1>1, <1>2, MarkersFrame DEF PersistRefused, StepOK

-----------------------------------------------------------------------------
(* The consumers *)

LEMMA TypePartsNext ==
  StoreTypeOK' <=> /\ TablesTyped' /\ MarkersTyped' /\ DeadTyped' /\ ViewsTyped'
                   /\ QueuesOK(pending')
BY DEF StoreTypeOK, TablesTyped, MarkersTyped, DeadTyped, ViewsTyped, QueuesOK, Message

LEMMA MessageTyped ==
  ASSUME StoreTypeOK, NEW c \in Consumer, NEW m \in pending[c]
  PROVE  m.event \in EventType(c) /\ m.event.row \in RowType(c)
BY DEF StoreTypeOK, EventType

LEMMA MarkTyped ==
  ASSUME MarkersTyped, NEW c \in Consumer, NEW e \in EventType(c), Mark(c, e)
  PROVE  MarkersTyped'
BY DEF MarkersTyped, Mark

LEMMA TablesFrame ==
  ASSUME TablesTyped, UNCHANGED tables,
         budget' \in [{"faults", "purges", "losses"} -> Nat]
  PROVE  TablesTyped'
BY DEF TablesTyped, tables

LEMMA SinkAppliesOK ==
  ASSUME StoreTypeOK, NEW s \in Sink, NEW m \in pending[s], SinkApplies(s, m)
  PROVE  StepOK
<1> DEFINE row == m.event.row
<1>1. /\ s \in Consumer /\ row \in RowType(s) /\ m.event \in EventType(s)
      /\ QueuesOK(pending) /\ TablesTyped /\ MarkersTyped /\ DeadTyped /\ ViewsTyped
  BY Sorts, MessageTyped, TypeParts
<1>2. SettleIn(pending, s, m) /\ WriteDocument(s, row) /\ Mark(s, m.event)
  BY DEF SinkApplies, Settle
<1>3. /\ QueuesOK(pending')
      /\ \A d \in Consumer : d # s => pending'[d] = pending[d]
      /\ \A x \in pending[s] : x # m => x \in pending'[s]
  <2> HIDE DEF row
  <2> QED
    BY <1>1, <1>2, SettleStep
<1>4. /\ ViewsTyped'
      /\ \A t \in Sink : t # s => view'[t] = view[t] /\ lost'[t] = lost[t]
      /\ row \in view'[s]
      /\ \A d \in view[s] : d \in view'[s] \/ DocumentKey(s, d) = DocumentKey(s, row)
      /\ lost'[s] = lost[s] \ {DocumentKey(s, row)}
  <2> HIDE DEF row
  <2> QED
    BY <1>1, <1>2, WriteStep DEF ViewsTyped
<1>5. s # "embedder" /\ Holds(s, row)'
  BY <1>4 DEF Holds, Sink
<1>6. StoreTypeOK'
  <2>1. budget' \in [{"faults", "purges", "losses"} -> Nat]
    BY <1>1, <1>2, SpendTyped DEF SettleIn, TablesTyped
  <2>2. TablesTyped'
    BY <2>1, <1>1, TablesFrame DEF SinkApplies
  <2>3. MarkersTyped'
    BY <1>1, <1>2, MarkTyped
  <2>4. DeadTyped'
    BY <1>1 DEF SinkApplies, DeadTyped
  <2> QED
    BY <2>2, <2>3, <2>4, <1>3, <1>4, TypePartsNext
<1>7. ASSUME NEW c \in Consumer PROVE HoldsStays(c)
  <2>1. ASSUME NEW r \in RowType(c), Holds(c, r) PROVE Holds(c, r)'
    <3>1. CASE c = s
      BY <2>1, <3>1, <1>4, <1>5 DEF Holds
    <3>2. CASE c # s
      BY <2>1, <3>2, <1>4, Sorts DEF Holds, SinkApplies, tables
    <3> QED
      BY <3>1, <3>2
  <2> QED
    BY <2>1 DEF HoldsStays
<1>8. \A c \in Consumer : Delivered(c)
  BY <1>3, <1>5 DEF Delivered
<1>9. MarkersHeld
  BY <1>2, <1>5 DEF MarkersHeld, Mark, Marked
<1> QED
  BY <1>6, <1>7, <1>8, <1>9 DEF StepOK, SinkApplies

LEMMA SinkSkipsOK ==
  ASSUME StoreTypeOK, MarkedMeansHeld, NEW s \in Sink, NEW m \in pending[s],
         SinkSkips(s, m)
  PROVE  StepOK
<1>1. /\ s \in Consumer /\ m.event.row \in RowType(s) /\ m.event \in EventType(s)
      /\ QueuesOK(pending) /\ TablesTyped /\ MarkersTyped /\ DeadTyped /\ ViewsTyped
  BY Sorts, MessageTyped, TypeParts
<1>2. SettleIn(pending, s, m)
  BY DEF SinkSkips, Settle
<1>3. /\ QueuesOK(pending')
      /\ \A d \in Consumer : d # s => pending'[d] = pending[d]
      /\ \A x \in pending[s] : x # m => x \in pending'[s]
  BY <1>1, <1>2, SettleStep
<1>4. StoreTypeOK'
  <2>1. budget' \in [{"faults", "purges", "losses"} -> Nat]
    BY <1>1, <1>2, SpendTyped DEF SettleIn, TablesTyped
  <2>2. TablesTyped'
    BY <2>1, <1>1, TablesFrame DEF SinkSkips
  <2>3. MarkersTyped' /\ DeadTyped' /\ ViewsTyped'
    BY <1>1 DEF SinkSkips, MarkersTyped, DeadTyped, ViewsTyped
  <2> QED
    BY <2>2, <2>3, <1>3, TypePartsNext
<1>5. \A c \in Consumer : HoldsStays(c)
  BY HoldsFrame DEF SinkSkips, tables
<1>6. ~Labelled(s, m.event) \/ Holds(s, m.event.row)'
  <2>1. ~Labelled(s, m.event) \/ Holds(s, m.event.row)
    BY <1>1 DEF SinkSkips, MarkedMeansHeld
  <2> QED
    BY <2>1, <1>1, <1>5 DEF HoldsStays
<1>7. \A c \in Consumer : Delivered(c)
  BY <1>3, <1>6 DEF Delivered
<1> QED
  BY <1>4, <1>5, <1>7, MarkersFrame DEF StepOK, SinkSkips

LEMMA SinkFailsOK ==
  ASSUME StoreTypeOK, NEW s \in Sink, NEW m \in pending[s], SinkFails(s, m)
  PROVE  StepOK
<1> DEFINE row == m.event.row
<1>1. /\ s \in Consumer /\ row \in RowType(s) /\ m.event \in EventType(s)
      /\ QueuesOK(pending) /\ TablesTyped /\ MarkersTyped /\ DeadTyped /\ ViewsTyped
  BY Sorts, MessageTyped, TypeParts
<1>2. RetryOrDeadLetterIn(pending, s, m)
  BY DEF SinkFails, RetryOrDeadLetter
<1>3. /\ QueuesOK(pending') /\ DeadTyped'
      /\ \A d \in Consumer : d # s => pending'[d] = pending[d]
      /\ \A x \in pending[s] : \/ \E y \in pending'[s] : y.event = x.event
                               \/ x.event \in dead'[s]
      /\ \A d \in Consumer : dead[d] \subseteq dead'[d]
  <2> HIDE DEF row
  <2> QED
    BY <1>1, <1>2, RetryStep DEF DeadTyped
<1>4. ASSUME WriteDocument(s, row)
      PROVE  ViewsTyped' /\ \A c \in Consumer : HoldsStays(c)
  <2>1. /\ ViewsTyped'
        /\ \A t \in Sink : t # s => view'[t] = view[t] /\ lost'[t] = lost[t]
        /\ row \in view'[s]
        /\ \A d \in view[s] : d \in view'[s] \/ DocumentKey(s, d) = DocumentKey(s, row)
        /\ lost'[s] = lost[s] \ {DocumentKey(s, row)}
    <3> HIDE DEF row
    <3> QED
      BY <1>1, <1>4, WriteStep DEF ViewsTyped
  <2>2. s # "embedder" /\ Holds(s, row)'
    BY <2>1 DEF Holds, Sink
  <2>3. ASSUME NEW c \in Consumer, NEW r \in RowType(c), Holds(c, r) PROVE Holds(c, r)'
    <3>1. CASE c = s
      BY <2>3, <3>1, <2>1, <2>2 DEF Holds
    <3>2. CASE c # s
      BY <2>3, <3>2, <2>1, Sorts DEF Holds, SinkFails, tables
    <3> QED
      BY <3>1, <3>2
  <2> QED
    BY <2>1, <2>3 DEF HoldsStays
<1>5. ASSUME UNCHANGED <<view, lost>>
      PROVE  ViewsTyped' /\ \A c \in Consumer : HoldsStays(c)
  <2>1. \A c \in Consumer : HoldsStays(c)
    BY <1>5, HoldsFrame DEF SinkFails, tables
  <2> QED
    BY <1>1, <1>5, <2>1 DEF ViewsTyped
<1>6. ViewsTyped' /\ \A c \in Consumer : HoldsStays(c)
  BY <1>4, <1>5 DEF SinkFails
<1>7. StoreTypeOK'
  <2>1. TablesTyped'
    BY <1>1, SpendTyped, TablesFrame DEF SinkFails, TablesTyped
  <2>2. MarkersTyped'
    BY <1>1 DEF SinkFails, MarkersTyped
  <2> QED
    BY <2>1, <2>2, <1>3, <1>6, TypePartsNext
<1>8. \A c \in Consumer : Delivered(c)
  BY <1>3 DEF Delivered
<1> QED
  BY <1>3, <1>6, <1>7, <1>8, MarkersFrame DEF StepOK, SinkFails

(* The outbox row of the embedding reaches the topic of sink-vector. *)
LEMMA AnnouncedStep ==
  ASSUME QueuesOK(pending), NEW row \in RowType("vector")
  PROVE  /\ QueuesOK(Announced(row))
         /\ Announced(row)["embedder"] = pending["embedder"]
         /\ \A c \in Consumer : pending[c] \subseteq Announced(row)[c]
         /\ \A c \in Consumer : c # "vector" => Announced(row)[c] = pending[c]
         /\ \E y \in Announced(row)["vector"] : y.event = Event(row, "embedder", 0)
         /\ \A y \in Announced(row)["vector"] :
              y \in pending["vector"] \/ y.event = Event(row, "embedder", 0)
<1> DEFINE e == Event(row, "embedder", 0)
<1>1. e \in EventType("vector") /\ "vector" \in Consumer /\ "embedder" \in Consumer
  BY DEF EventType, Event, Origin, Consumer, Sink
<1>2. /\ Fresh({e}) \subseteq Message("vector")
      /\ \E y \in Fresh({e}) : y.event = e
      /\ \A y \in Fresh({e}) : y.event = e
  <2> HIDE DEF e
  <2> QED
    BY <1>1, FreshTyped
<1>3. /\ DOMAIN Announced(row) = Consumer
      /\ Announced(row)["vector"] = pending["vector"] \cup Fresh({e})
      /\ \A c \in Consumer : c # "vector" => Announced(row)[c] = pending[c]
  BY <1>1 DEF Announced, QueuesOK
<1> HIDE DEF e
<1>4. QueuesOK(Announced(row))
  BY <1>1, <1>2, <1>3 DEF QueuesOK
<1>5. /\ \E y \in Announced(row)["vector"] : y.event = e
      /\ \A y \in Announced(row)["vector"] : y \in pending["vector"] \/ y.event = e
  BY <1>2, <1>3
<1> QED
  BY <1>1, <1>3, <1>4, <1>5 DEF e

LEMMA StoreEmbeddingOK ==
  ASSUME StoreTypeOK, NEW m \in pending["embedder"], StoreEmbedding(m)
  PROVE  /\ StepOK
         /\ \E y \in pending'["vector"] : y.event = Event(m.event.row, "embedder", 0)
<1> DEFINE row == m.event.row
           q == Announced(row)
<1>1. /\ "embedder" \in Consumer /\ "vector" \in Consumer /\ "embedder" # "vector"
      /\ row \in RowType("vector") /\ m.event \in EventType("embedder")
      /\ QueuesOK(pending) /\ TablesTyped /\ MarkersTyped /\ DeadTyped /\ ViewsTyped
  BY Sorts, MessageTyped, TypeParts DEF RowType
<1>2. /\ QueuesOK(q) /\ q["embedder"] = pending["embedder"] /\ m \in q["embedder"]
      /\ \A c \in Consumer : pending[c] \subseteq q[c]
      /\ \E y \in q["vector"] : y.event = Event(row, "embedder", 0)
  <2> HIDE DEF row
  <2> QED
    BY <1>1, AnnouncedStep
<1>3. /\ QueuesOK(pending') /\ DeadTyped'
      /\ \A d \in Consumer : d # "embedder" => pending'[d] = q[d]
      /\ \A x \in q["embedder"] : \/ \E y \in pending'["embedder"] : y.event = x.event
                                  \/ x.event \in dead'["embedder"]
                                  \/ x = m
      /\ \A d \in Consumer : dead[d] \subseteq dead'[d]
      /\ budget' \in [{"faults", "purges", "losses"} -> Nat]
  <2>1. \/ SettleIn(q, "embedder", m) /\ UNCHANGED dead
        \/ RetryOrDeadLetterIn(q, "embedder", m) /\ Spend("faults")
    BY DEF StoreEmbedding
  <2> HIDE DEF row, q
  <2>2. CASE SettleIn(q, "embedder", m) /\ UNCHANGED dead
    <3>1. /\ QueuesOK(pending')
          /\ \A d \in Consumer : d # "embedder" => pending'[d] = q[d]
          /\ \A x \in q["embedder"] : x # m => x \in pending'["embedder"]
      BY <1>1, <1>2, <2>2, SettleStep, q["embedder"] = pending["embedder"]
    <3>2. budget' \in [{"faults", "purges", "losses"} -> Nat]
      BY <1>1, <2>2, SpendTyped DEF SettleIn, TablesTyped
    <3> QED
      BY <1>1, <2>2, <3>1, <3>2 DEF DeadTyped
  <2>3. CASE RetryOrDeadLetterIn(q, "embedder", m) /\ Spend("faults")
    <3>1. budget' \in [{"faults", "purges", "losses"} -> Nat]
      BY <1>1, <2>3, SpendTyped DEF TablesTyped
    <3> QED
      BY <1>1, <1>2, <2>3, <3>1, RetryStep DEF DeadTyped
  <2> QED
    BY <2>1, <2>2, <2>3
<1>4. StoreTypeOK'
  <2>1. TablesTyped'
    BY <1>1, <1>3 DEF StoreEmbedding, TablesTyped
  <2>2. MarkersTyped'
    BY <1>1, MarkTyped DEF StoreEmbedding
  <2>3. ViewsTyped'
    BY <1>1 DEF StoreEmbedding, ViewsTyped
  <2> QED
    BY <2>1, <2>2, <2>3, <1>3, TypePartsNext
<1>5. \A c \in Consumer : HoldsStays(c)
  BY HoldsFrame DEF StoreEmbedding
<1>6. Holds("embedder", row)'
  BY DEF Holds, StoreEmbedding
<1>7. \A c \in Consumer : Delivered(c)
  <2> HIDE DEF row, q
  <2>1. ASSUME NEW c \in Consumer, c # "embedder" PROVE Delivered(c)
    BY <1>2, <1>3, <2>1, QueuesFrame
  <2>2. Delivered("embedder")
    BY <1>2, <1>3, <1>6 DEF Delivered, row
  <2> QED
    BY <2>1, <2>2
<1>8. MarkersHeld
  BY <1>6 DEF MarkersHeld, Mark, Marked, StoreEmbedding
<1> QED
  BY <1>1, <1>2, <1>3, <1>4, <1>5, <1>7, <1>8 DEF StepOK

LEMMA EmbedderSkipsOK ==
  ASSUME StoreTypeOK, MarkedMeansHeld, NEW m \in pending["embedder"], EmbedderSkips(m)
  PROVE  StepOK
<1> DEFINE c == "embedder"
<1>1. /\ c \in Consumer /\ m.event.row \in RowType(c) /\ m.event \in EventType(c)
      /\ QueuesOK(pending) /\ TablesTyped /\ MarkersTyped /\ DeadTyped /\ ViewsTyped
  BY Sorts, MessageTyped, TypeParts
<1>2. SettleIn(pending, c, m)
  BY DEF EmbedderSkips, Settle
<1>3. /\ QueuesOK(pending')
      /\ \A d \in Consumer : d # c => pending'[d] = pending[d]
      /\ \A x \in pending[c] : x # m => x \in pending'[c]
  BY <1>1, <1>2, SettleStep
<1>4. StoreTypeOK'
  <2>1. budget' \in [{"faults", "purges", "losses"} -> Nat]
    BY <1>1, <1>2, SpendTyped DEF SettleIn, TablesTyped
  <2>2. TablesTyped'
    BY <2>1, <1>1, TablesFrame DEF EmbedderSkips
  <2>3. MarkersTyped' /\ DeadTyped' /\ ViewsTyped'
    BY <1>1 DEF EmbedderSkips, MarkersTyped, DeadTyped, ViewsTyped
  <2> QED
    BY <2>2, <2>3, <1>3, TypePartsNext
<1>5. \A d \in Consumer : HoldsStays(d)
  BY HoldsFrame DEF EmbedderSkips, tables
<1>6. Holds(c, m.event.row)'
  BY <1>1, <1>5 DEF EmbedderSkips, MarkedMeansHeld, HoldsStays
<1>7. \A d \in Consumer : Delivered(d)
  BY <1>3, <1>6 DEF Delivered
<1> QED
  BY <1>4, <1>5, <1>7, MarkersFrame DEF StepOK, EmbedderSkips

(* An error of the embedding worker, whatever its cause: the message is
   published again or dead-lettered, the tables stay. *)
LEMMA EmbedderErrorOK ==
  ASSUME StoreTypeOK, NEW m \in pending["embedder"],
         RetryOrDeadLetter("embedder", m), Spend("faults") \/ UNCHANGED budget,
         UNCHANGED <<tables, marker, view, lost>>
  PROVE  StepOK
<1>1. /\ "embedder" \in Consumer
      /\ QueuesOK(pending) /\ TablesTyped /\ MarkersTyped /\ DeadTyped /\ ViewsTyped
  BY Sorts, TypeParts
<1>2. /\ QueuesOK(pending') /\ DeadTyped'
      /\ \A d \in Consumer : d # "embedder" => pending'[d] = pending[d]
      /\ \A x \in pending["embedder"] :
           \/ \E y \in pending'["embedder"] : y.event = x.event
           \/ x.event \in dead'["embedder"]
      /\ \A d \in Consumer : dead[d] \subseteq dead'[d]
  BY <1>1, RetryStep DEF DeadTyped, RetryOrDeadLetter
<1>3. StoreTypeOK'
  <2>1. TablesTyped'
    BY <1>1, SpendTyped, TablesFrame DEF TablesTyped
  <2>2. MarkersTyped' /\ ViewsTyped'
    BY <1>1 DEF MarkersTyped, ViewsTyped
  <2> QED
    BY <1>2, <2>1, <2>2, TypePartsNext
<1>4. \A c \in Consumer : HoldsStays(c)
  BY HoldsFrame DEF tables
<1>5. \A c \in Consumer : Delivered(c)
  BY <1>2 DEF Delivered
<1> QED
  BY <1>2, <1>3, <1>4, <1>5, MarkersFrame DEF StepOK

LEMMA EmbedderFailsOK ==
  ASSUME StoreTypeOK, NEW m \in pending["embedder"], EmbeddingRefused(m) \/ EmbedderFails(m)
  PROVE  StepOK
BY EmbedderErrorOK DEF EmbeddingRefused, EmbedderFails

-----------------------------------------------------------------------------
(* The rest of the environment, and the job *)

LEMMA PurgeOK == ASSUME StoreTypeOK, PurgeMarkers PROVE StepOK
<1>1. StoreTypeOK'
  <2>1. TablesTyped'
    BY TypeParts, SpendTyped, TablesFrame DEF PurgeMarkers, TablesTyped
  <2>2. MarkersTyped' /\ DeadTyped' /\ ViewsTyped' /\ QueuesOK(pending')
    BY TypeParts DEF PurgeMarkers, MarkersTyped, DeadTyped, ViewsTyped
  <2> QED
    BY <2>1, <2>2, TypePartsNext
<1>2. \A c \in Consumer : HoldsStays(c) /\ Delivered(c)
  BY HoldsFrame, QueuesFrame DEF PurgeMarkers, tables
<1>3. marker' \subseteq marker
  BY DEF PurgeMarkers
<1> QED
  BY <1>1, <1>2, <1>3, MarkersFrame DEF StepOK, PurgeMarkers

(* The document that is lost is on the list of lost keys: the consumer wrote
   it. *)
LEMMA LoseOK ==
  ASSUME StoreTypeOK, NEW s \in Sink, NEW row \in view[s], LoseDocument(s, row)
  PROVE  StepOK
<1>1. /\ s \in Consumer /\ row \in RowType(s) /\ TablesTyped /\ MarkersTyped
      /\ DeadTyped /\ ViewsTyped /\ QueuesOK(pending)
  BY Sorts, TypeParts DEF StoreTypeOK
<1>2. /\ view'[s] = view[s] \ {row} /\ lost'[s] = lost[s] \cup {DocumentKey(s, row)}
      /\ \A t \in Sink : t # s => view'[t] = view[t] /\ lost'[t] = lost[t]
      /\ DOMAIN view' = Sink /\ DOMAIN lost' = Sink
  BY <1>1 DEF LoseDocument, ViewsTyped
<1>3. StoreTypeOK'
  <2>1. TablesTyped'
    BY <1>1, SpendTyped, TablesFrame DEF LoseDocument, TablesTyped
  <2>2. MarkersTyped' /\ DeadTyped' /\ QueuesOK(pending')
    BY <1>1 DEF LoseDocument, MarkersTyped, DeadTyped
  <2>3. DocumentKey(s, row) \in KeyType(s)
    BY <1>1 DEF DocumentKey, KeyType, RowType
  <2>4. ViewsTyped'
    BY <1>1, <1>2, <2>3 DEF ViewsTyped
  <2> QED
    BY <2>1, <2>2, <2>4, TypePartsNext
<1>4. ASSUME NEW c \in Consumer PROVE HoldsStays(c)
  <2>1. ASSUME NEW r \in RowType(c), Holds(c, r) PROVE Holds(c, r)'
    <3>1. CASE c = "embedder"
      BY <2>1, <3>1 DEF Holds, LoseDocument, tables
    <3>2. CASE c \in Sink
      BY <2>1, <3>2, <1>2, Sorts DEF Holds
    <3> QED
      BY <3>1, <3>2, Sorts
  <2> QED
    BY <2>1 DEF HoldsStays
<1>5. \A c \in Consumer : Delivered(c)
  BY QueuesFrame DEF LoseDocument
<1> QED
  BY <1>3, <1>4, <1>5, MarkersFrame DEF StepOK, LoseDocument

(* One lemma for the steps of the pipeline. *)
LEMMA StoreOK ==
  ASSUME StoreTypeOK, ReferencesHold, MarkedMeansHeld, StoreNext
  PROVE  StepOK
<1>1. CASE \E f \in File : Persist(f) \/ PersistRefused(f)
  BY <1>1, PersistOK, RefusedOK
<1>2. CASE Deliver
  <2>1. CASE \E s \in Sink : \E m \in pending[s] :
               SinkApplies(s, m) \/ SinkSkips(s, m) \/ SinkFails(s, m)
    BY <2>1, SinkAppliesOK, SinkSkipsOK, SinkFailsOK
  <2>2. CASE \E m \in pending["embedder"] :
               \/ StoreEmbedding(m) \/ EmbedderSkips(m)
               \/ EmbeddingRefused(m) \/ EmbedderFails(m)
    BY <2>2, StoreEmbeddingOK, EmbedderSkipsOK, EmbedderFailsOK
  <2> QED
    BY <1>2, <2>1, <2>2 DEF Deliver
<1>3. CASE PurgeMarkers
  BY <1>3, PurgeOK
<1>4. CASE \E s \in Sink : \E row \in view[s] : LoseDocument(s, row)
  BY <1>4, LoseOK
<1> QED
  BY <1>1, <1>2, <1>3, <1>4 DEF StoreNext

(* The rows the job looks at are rows of the table of its target. *)
JobTypeOK ==
  /\ target \in Target \cup {"none"}
  /\ target = "none" => todo = {} /\ mismatched = {}
  /\ target # "none" =>
       todo \cup mismatched \subseteq RowType(ViewOf(target))
  /\ \A p \in repaired :
       p[1] \in Target /\ p[2] \in RowType(ViewOf(p[1]))
  /\ republished \in Nat

LEMMA TargetFacts ==
  ASSUME NEW t \in Target
  PROVE  /\ t \in {"neo4j", "qdrant", "opensearch"} /\ t # "none"
         /\ ViewOf(t) \in Sink /\ ViewOf(t) \in Consumer /\ ViewOf(t) \in Readers(t)
         /\ \A c \in Readers(t) : c \in Consumer /\ RowType(c) = RowType(ViewOf(t))
BY ReconcileAssumption DEF ReconcileAssumption, ViewOf, Readers, Sink, Consumer, RowType

LEMMA SourceTyped ==
  ASSUME StoreTypeOK, NEW c \in Consumer
  PROVE  SourceRows(c) \subseteq RowType(c)
<1>1. NodeRows \subseteq RowType("graph")
  BY DEF NodeRows, NodeRow, RowType, StoreTypeOK
<1> QED
  BY <1>1 DEF SourceRows, StoreTypeOK, RowType

(* What Republish publishes. *)
LEMMA RepublishStep ==
  ASSUME StoreTypeOK, JobTypeOK, NEW row \in todo \cup mismatched, Republish(row)
  PROVE  /\ target \in Target
         /\ QueuesOK(pending')
         /\ \A c \in Consumer : pending[c] \subseteq pending'[c]
         /\ \E current \in RowType(ViewOf(target)) :
              /\ repaired' = repaired \cup {<<target, current>>}
              /\ \E m \in pending'[ViewOf(target)] :
                   m.event = Event(current, target, republished)
              /\ \A c \in Consumer : \A m \in pending'[c] :
                   m \in pending[c] \/ m.event = Event(current, target, republished)
<1>1. target \in Target
  BY DEF JobTypeOK, Republish
<1>2. PICK current \in CurrentRow(target, row) :
        /\ pending' = [c \in Consumer |->
             IF c \in Readers(target)
             THEN pending[c] \cup Fresh({Event(current, target, republished)})
             ELSE pending[c]]
        /\ repaired' = repaired \cup {<<target, current>>}
  BY DEF Republish
<1>3. current \in RowType(ViewOf(target))
  <2>1. /\ SourceRows(ViewOf(target)) \subseteq RowType(ViewOf(target))
        /\ SourceRows("graph") = NodeRows
    BY <1>1, TargetFacts, SourceTyped DEF SourceRows
  <2> QED
    BY <2>1, <1>1, <1>2, TargetFacts DEF CurrentRow, ViewOf
<1> DEFINE e == Event(current, target, republished)
<1>4. \A c \in Readers(target) : c \in Consumer /\ e \in EventType(c)
  BY <1>1, <1>3, TargetFacts DEF EventType, Event, Origin, JobTypeOK
<1>5. \A c \in Consumer :
        pending'[c] = IF c \in Readers(target) THEN pending[c] \cup Fresh({e}) ELSE pending[c]
  BY <1>2
<1>6. DOMAIN pending' = Consumer
  BY <1>2
<1>7. QueuesOK(pending)
  BY TypeParts
<1> HIDE DEF e
<1>8. \A c \in Readers(target) : /\ Fresh({e}) \subseteq Message(c)
                                 /\ \E m \in Fresh({e}) : m.event = e
                                 /\ \A m \in Fresh({e}) : m.event = e
  BY <1>4, FreshTyped
<1>9. QueuesOK(pending') /\ \A c \in Consumer : pending[c] \subseteq pending'[c]
  BY <1>5, <1>6, <1>7, <1>8 DEF QueuesOK
<1>10. /\ \E m \in pending'[ViewOf(target)] : m.event = e
       /\ \A c \in Consumer : \A m \in pending'[c] : m \in pending[c] \/ m.event = e
  BY <1>1, <1>5, <1>8, TargetFacts
<1> QED
  BY <1>1, <1>2, <1>3, <1>9, <1>10 DEF e

LEMMA JobOK ==
  ASSUME StoreTypeOK, JobTypeOK, JobStep
  PROVE  StepOK /\ JobTypeOK'
<1>1. ASSUME NEW t \in Target, StartJob(t) PROVE StepOK /\ JobTypeOK'
  <2>1. StepOK
    BY <1>1, HoldsFrame, QueuesFrame, MarkersFrame
    DEF StartJob, storeVars, StepOK, StoreTypeOK
  <2>2. SourceRows(ViewOf(t)) \subseteq RowType(ViewOf(t))
    BY TargetFacts, SourceTyped
  <2>3. /\ target' = t /\ t # "none" /\ todo' = SourceRows(ViewOf(t))
        /\ mismatched' = {} /\ repaired' = repaired /\ republished' = republished
    BY <1>1, TargetFacts DEF StartJob, JobTypeOK
  <2>4. JobTypeOK'
    BY <2>2, <2>3 DEF JobTypeOK
  <2> QED
    BY <2>1, <2>4
<1>2. ASSUME NEW row \in todo \cup mismatched, CheckMatches(row) \/ CheckFails(row)
      PROVE  StepOK /\ JobTypeOK'
  <2>1. StepOK
    BY <1>2, HoldsFrame, QueuesFrame, MarkersFrame
    DEF CheckMatches, CheckFails, storeVars, StepOK, StoreTypeOK
  <2>2. JobTypeOK'
    BY <1>2 DEF CheckMatches, CheckFails, JobTypeOK
  <2> QED
    BY <2>1, <2>2
<1>3. ASSUME NEW row \in todo \cup mismatched, Republish(row)
      PROVE  StepOK /\ JobTypeOK'
  <2>1. PICK current \in RowType(ViewOf(target)) :
          repaired' = repaired \cup {<<target, current>>}
    BY <1>3, RepublishStep
  <2>2. /\ target \in Target /\ QueuesOK(pending')
        /\ \A c \in Consumer : pending[c] \subseteq pending'[c]
    BY <1>3, RepublishStep
  <2>3. StoreTypeOK'
    <3>1. TablesTyped' /\ MarkersTyped' /\ DeadTyped' /\ ViewsTyped'
      BY <1>3, TypeParts
      DEF Republish, TablesTyped, MarkersTyped, DeadTyped, ViewsTyped
    <3> QED
      BY <3>1, <2>2, TypePartsNext
  <2>4. StepOK
    BY <1>3, <2>2, <2>3, HoldsFrame, QueuesFrame, MarkersFrame DEF Republish, StepOK
  <2>5. JobTypeOK'
    <3>1. republished' \in Nat
      BY <1>3 DEF Republish, JobTypeOK
    <3>2. /\ target' = target /\ todo' = todo /\ mismatched' = {}
      BY <1>3 DEF Republish
    <3> QED
      BY <2>1, <2>2, <3>1, <3>2 DEF JobTypeOK
  <2> QED
    BY <2>4, <2>5
<1>4. ASSUME NEW row \in todo \cup mismatched, RowErrored(row)
      PROVE  StepOK /\ JobTypeOK'
  <2>1. Spend("faults") \/ UNCHANGED budget
    BY <1>4 DEF RowErrored
  <2>2. StoreTypeOK'
    <3>1. TablesTyped'
      BY <1>4, <2>1, TypeParts, SpendTyped DEF RowErrored, TablesTyped
    <3>2. MarkersTyped' /\ DeadTyped' /\ ViewsTyped' /\ QueuesOK(pending')
      BY <1>4, TypeParts DEF RowErrored, MarkersTyped, DeadTyped, ViewsTyped
    <3> QED
      BY <3>1, <3>2, TypePartsNext
  <2>3. StepOK
    BY <1>4, <2>2, HoldsFrame, QueuesFrame, MarkersFrame DEF RowErrored, StepOK
  <2>4. JobTypeOK'
    BY <1>4 DEF RowErrored, JobTypeOK
  <2> QED
    BY <2>3, <2>4
<1>5. ASSUME EndJob PROVE StepOK /\ JobTypeOK'
  <2>1. Spend("faults") \/ UNCHANGED budget
    BY <1>5 DEF EndJob
  <2>2. StoreTypeOK'
    <3>1. TablesTyped'
      BY <1>5, <2>1, TypeParts, SpendTyped DEF EndJob, TablesTyped
    <3>2. MarkersTyped' /\ DeadTyped' /\ ViewsTyped' /\ QueuesOK(pending')
      BY <1>5, TypeParts DEF EndJob, MarkersTyped, DeadTyped, ViewsTyped
    <3> QED
      BY <3>1, <3>2, TypePartsNext
  <2>3. StepOK
    BY <1>5, <2>2, HoldsFrame, QueuesFrame, MarkersFrame DEF EndJob, StepOK
  <2>4. JobTypeOK'
    BY <1>5 DEF EndJob, JobTypeOK
  <2> QED
    BY <2>3, <2>4
<1> QED
  BY <1>1, <1>2, <1>3, <1>4, <1>5 DEF JobStep

-----------------------------------------------------------------------------
(* The invariant *)

LEMMA AccountedKept ==
  ASSUME StoreTypeOK, StepOK, NEW c \in Consumer, NEW row \in RowType(c),
         Accounted(c, row)
  PROVE  Accounted(c, row)'
<1>1. HoldsStays(c) /\ Delivered(c) /\ dead[c] \subseteq dead'[c]
  BY DEF StepOK
<1>2. CASE Holds(c, row)
  BY <1>1, <1>2 DEF HoldsStays, Accounted
<1>3. CASE InFlight(c, row)
  <2>1. PICK x \in pending[c] : About(c, row, x.event)
    BY <1>3 DEF InFlight
  <2>2. /\ x.event.row \in RowType(c)
        /\ DocumentKey(c, x.event.row) = DocumentKey(c, row) /\ Labelled(c, x.event)
    BY <2>1, MessageTyped DEF About
  <2>3. CASE \E y \in pending'[c] : y.event = x.event
    BY <2>1, <2>3 DEF Accounted, InFlight
  <2>4. CASE x.event \in dead'[c]
    BY <2>1, <2>4 DEF Accounted, DeadLettered
  <2>5. CASE Holds(c, x.event.row)'
    BY <2>2, <2>5, HoldsByKeyNext DEF Accounted
  <2> QED
    BY <1>1, <2>1, <2>2, <2>3, <2>4, <2>5 DEF Delivered
<1>4. CASE DeadLettered(c, row)
  BY <1>1, <1>4 DEF Accounted, DeadLettered
<1> QED
  BY <1>2, <1>3, <1>4 DEF Accounted

(* A row announced by an event that carries labels is in flight. *)
LEMMA AnnouncedAccounted ==
  ASSUME NEW c \in Consumer, NEW row, NEW n, NEW origin, origin # "neo4j",
         \E m \in pending'[c] : m.event = Event(row, origin, n)
  PROVE  Accounted(c, row)'
BY DEF Accounted, InFlight, About, Labelled, Event

LEMMA MarkedKept ==
  ASSUME StoreTypeOK, MarkedMeansHeld, StepOK
  PROVE  MarkedMeansHeld'
<1>1. ASSUME NEW c \in Consumer, NEW event \in EventType(c), Marked(c, event)'
      PROVE  Holds(c, event.row)'
  <2>1. Marked(c, event) \/ Holds(c, event.row)'
    BY <1>1 DEF StepOK, MarkersHeld
  <2>2. event.row \in RowType(c)
    BY DEF EventType
  <2>3. Holds(c, event.row) => Holds(c, event.row)'
    BY <2>2 DEF StepOK, HoldsStays
  <2> QED
    BY <2>1, <2>3 DEF MarkedMeansHeld
<1> QED
  BY <1>1 DEF MarkedMeansHeld

LEMMA PersistRows ==
  ASSUME StoreTypeOK, ReferencesHold, EveryRowAccounted, StepOK,
         NEW f \in File, Persist(f)
  PROVE  ReferencesHold' /\ EveryRowAccounted'
<1>1. /\ Waiting(f) /\ PublishFile(f) /\ ~DeleteViolatesForeignKey(f)
      /\ chunk' = (chunk \ OldChunks(f)) \cup NewChunks(f) /\ embedding' = embedding
      /\ node' = [e \in Entity |->
                    IF e \in Touched(f) THEN Queue[f][Turn(f)].ast[e] ELSE node[e]]
  BY DEF Persist
<1>2. /\ \A r \in NewChunks(f) : r.entity \in Touched(f) /\ r.entity \in Entity
      /\ Touched(f) \subseteq Entity
      /\ \A e \in Touched(f) :
           Queue[f][Turn(f)].ast[e] \in Hash /\ Queue[f][Turn(f)].ast[e] # NoHash
  BY <1>1, CommandFacts, StoreAssumption DEF StoreAssumption
<1>3. ReferencesHold'
  <2>1. embedding' \subseteq chunk'
    BY <1>1 DEF ReferencesHold, DeleteViolatesForeignKey
  <2>2. ASSUME NEW r \in chunk' PROVE node'[r.entity] # NoHash
    <3>1. CASE r.entity \in Touched(f)
      BY <1>1, <1>2, <3>1
    <3>2. CASE r.entity \notin Touched(f)
      <4>1. r \in chunk /\ r.entity \in Entity
        BY <1>1, <1>2, <3>2 DEF StoreTypeOK, RowType
      <4> QED
        BY <4>1, <3>2, <1>1 DEF ReferencesHold
    <3> QED
      BY <3>1, <3>2
  <2> QED
    BY <2>1, <2>2 DEF ReferencesHold
<1>4. ASSUME NEW c \in Consumer, NEW row \in SourceRows(c)'
      PROVE  Accounted(c, row)'
  <2>1. row \in SourceRows(c) \/ row \in NewRows(f, c)
    <3>1. CASE c = "graph"
      <4>1. row \in NodeRows'
        BY <3>1, <1>4 DEF SourceRows
      <4>2. PICK e \in Entity : node'[e] # NoHash /\ row = NodeRow(e, node'[e])
        BY <4>1 DEF NodeRows
      <4>3. CASE e \in Touched(f)
        BY <4>2, <4>3, <1>1, <3>1 DEF NewRows, NewNodes
      <4>4. CASE e \notin Touched(f)
        BY <4>2, <4>4, <1>1, <3>1 DEF SourceRows, NodeRows
      <4> QED
        BY <4>3, <4>4
    <3>2. CASE c = "vector"
      BY <1>1, <1>4, <3>2 DEF SourceRows
    <3>3. CASE c # "graph" /\ c # "vector"
      BY <1>1, <1>4, <3>3 DEF SourceRows, NewRows
    <3> QED
      BY <3>1, <3>2, <3>3
  <2>2. CASE row \in SourceRows(c)
    BY <2>2, SourceTyped, AccountedKept DEF EveryRowAccounted
  <2>3. CASE row \in NewRows(f, c)
    <3>1. \E m \in pending'[c] : m.event = Event(row, "persist", Turn(f))
      BY <1>1, <2>3, PublishStep
    <3> QED
      BY <3>1, AnnouncedAccounted
  <2> QED
    BY <2>1, <2>2, <2>3
<1> QED
  BY <1>3, <1>4 DEF EveryRowAccounted

LEMMA EmbeddingRows ==
  ASSUME StoreTypeOK, ReferencesHold, EveryRowAccounted, StepOK,
         NEW m \in pending["embedder"], StoreEmbedding(m)
  PROVE  ReferencesHold' /\ EveryRowAccounted'
<1>1. /\ embedding' = embedding \cup {m.event.row} /\ m.event.row \in chunk
      /\ chunk' = chunk /\ node' = node
  BY DEF StoreEmbedding, InsertAccepted
<1>2. ReferencesHold'
  BY <1>1 DEF ReferencesHold
<1>3. ASSUME NEW c \in Consumer, NEW row \in SourceRows(c)'
      PROVE  Accounted(c, row)'
  <2>1. row \in SourceRows(c) \/ (c = "vector" /\ row = m.event.row)
    BY <1>1, <1>3 DEF SourceRows, NodeRows, NodeRow
  <2>2. CASE row \in SourceRows(c)
    BY <2>2, SourceTyped, AccountedKept DEF EveryRowAccounted
  <2>3. CASE c = "vector" /\ row = m.event.row
    BY <2>3, StoreEmbeddingOK, AnnouncedAccounted
  <2> QED
    BY <2>1, <2>2, <2>3
<1> QED
  BY <1>2, <1>3 DEF EveryRowAccounted

LEMMA OtherRows ==
  ASSUME StoreTypeOK, ReferencesHold, EveryRowAccounted, StepOK,
         UNCHANGED <<node, chunk, embedding>>
  PROVE  ReferencesHold' /\ EveryRowAccounted'
<1>1. ReferencesHold'
  BY DEF ReferencesHold
<1>2. ASSUME NEW c \in Consumer, NEW row \in SourceRows(c)'
      PROVE  Accounted(c, row)'
  <2>1. row \in SourceRows(c)
    BY <1>2 DEF SourceRows, NodeRows, NodeRow
  <2> QED
    BY <2>1, SourceTyped, AccountedKept DEF EveryRowAccounted
<1> QED
  BY <1>1, <1>2 DEF EveryRowAccounted

Inv == /\ StoreTypeOK /\ JobTypeOK
       /\ ReferencesHold /\ EveryRowAccounted /\ MarkedMeansHeld

LEMMA InitInv == Init => Inv
<1> SUFFICES ASSUME Init PROVE Inv
  OBVIOUS
<1> USE DEF Init, StoreInit
<1>1. StoreTypeOK
  BY StoreAssumption DEF StoreAssumption, StoreTypeOK
<1>2. JobTypeOK
  BY DEF JobTypeOK
<1>3. \A c \in Consumer : SourceRows(c) = {}
  BY DEF SourceRows, NodeRows
<1> QED
  BY <1>1, <1>2, <1>3
  DEF Inv, ReferencesHold, EveryRowAccounted, MarkedMeansHeld, Marked

(* The steps that leave the rows of the tables alone. *)
LEMMA StoreRows ==
  ASSUME StoreTypeOK, ReferencesHold, EveryRowAccounted, StepOK, StoreNext
  PROVE  ReferencesHold' /\ EveryRowAccounted'
<1>1. CASE \E f \in File : Persist(f) \/ PersistRefused(f)
  <2>1. ASSUME NEW f \in File, Persist(f) PROVE ReferencesHold' /\ EveryRowAccounted'
    BY <2>1, PersistRows
  <2>2. ASSUME NEW f \in File, PersistRefused(f) PROVE ReferencesHold' /\ EveryRowAccounted'
    BY <2>2, OtherRows DEF PersistRefused
  <2> QED
    BY <1>1, <2>1, <2>2
<1>2. CASE Deliver
  <2>1. ASSUME NEW s \in Sink, NEW m \in pending[s],
               SinkApplies(s, m) \/ SinkSkips(s, m) \/ SinkFails(s, m)
        PROVE  ReferencesHold' /\ EveryRowAccounted'
    BY <2>1, OtherRows DEF SinkApplies, SinkSkips, SinkFails, tables
  <2>2. ASSUME NEW m \in pending["embedder"], StoreEmbedding(m)
        PROVE  ReferencesHold' /\ EveryRowAccounted'
    BY <2>2, EmbeddingRows
  <2>3. ASSUME NEW m \in pending["embedder"],
               EmbedderSkips(m) \/ EmbeddingRefused(m) \/ EmbedderFails(m)
        PROVE  ReferencesHold' /\ EveryRowAccounted'
    BY <2>3, OtherRows DEF EmbedderSkips, EmbeddingRefused, EmbedderFails, tables
  <2> QED
    BY <1>2, <2>1, <2>2, <2>3 DEF Deliver
<1>3. CASE PurgeMarkers
  BY <1>3, OtherRows DEF PurgeMarkers, tables
<1>4. CASE \E s \in Sink : \E row \in view[s] : LoseDocument(s, row)
  BY <1>4, OtherRows DEF LoseDocument, tables
<1> QED
  BY <1>1, <1>2, <1>3, <1>4 DEF StoreNext

LEMMA JobFrame ==
  JobStep => UNCHANGED <<applied, outcome, node, chunk, embedding, marker, dead,
                         view, lost>>
BY DEF JobStep, StartJob, CheckMatches, CheckFails, Republish, RowErrored, EndJob,
       storeVars

LEMMA InvStep == Inv /\ [Next]_vars => Inv' /\ StepOK
<1> SUFFICES ASSUME Inv, [Next]_vars PROVE Inv' /\ StepOK
  OBVIOUS
<1>1. CASE StoreStep
  <2>1. StepOK
    BY <1>1, StoreOK DEF Inv, StoreStep
  <2>2. ReferencesHold' /\ EveryRowAccounted'
    BY <1>1, <2>1, StoreRows DEF Inv, StoreStep
  <2>3. JobTypeOK'
    BY <1>1 DEF Inv, StoreStep, JobTypeOK
  <2> QED
    BY <2>1, <2>2, <2>3, MarkedKept DEF Inv, StepOK
<1>2. CASE JobStep
  <2>1. StepOK /\ JobTypeOK'
    BY <1>2, JobOK DEF Inv
  <2>2. ReferencesHold' /\ EveryRowAccounted'
    BY <1>2, <2>1, JobFrame, OtherRows DEF Inv
  <2> QED
    BY <2>1, <2>2, MarkedKept DEF Inv, StepOK
<1>3. CASE UNCHANGED vars
  <2>1. StepOK
    BY <1>3, HoldsFrame, QueuesFrame, MarkersFrame
    DEF vars, storeVars, StepOK, StoreTypeOK, Inv
  <2>2. ReferencesHold' /\ EveryRowAccounted'
    BY <1>3, <2>1, OtherRows DEF Inv, vars, storeVars
  <2>3. JobTypeOK'
    BY <1>3 DEF Inv, JobTypeOK, vars, jobVars
  <2> QED
    BY <2>1, <2>2, <2>3, MarkedKept DEF Inv, StepOK
<1> QED
  BY <1>1, <1>2, <1>3 DEF Next

LEMMA Invariant == Spec => []Inv
<1>1. Inv /\ [Next]_vars => Inv'
  BY InvStep
<1> QED
  BY InitInv, <1>1, PTL DEF Spec

(* The type invariant: whatever the writers and the job do, no command beyond
   the queue is applied and no message is retried more than MaxRetries times. *)
THEOREM StoreTypeCorrect == Spec => []StoreTypeOK
BY Invariant, PTL DEF Inv

(* The transactional outbox end to end (persist.rs, consumer.go of the workers,
   framework.go of reconcile): every row is held by each consumer that must know
   of it, on its way to it, or in its dead-letter topic. *)
THEOREM RowsAccounted == Spec => []EveryRowAccounted
BY Invariant, PTL DEF Inv

(* The references of the schema, across persist.rs and storeEmbedding. *)
THEOREM ReferencesKept == Spec => []ReferencesHold
BY Invariant, PTL DEF Inv

-----------------------------------------------------------------------------
(* What the qdrant and opensearch jobs promise *)

(* The number of a republished event is new: no event in the topics and no
   marker has it. *)
OldNumber(event) ==
  event.origin \in Target => event.n \in Nat /\ event.n < republished
Numbered ==
  /\ \A c \in Consumer : \A m \in pending[c] : OldNumber(m.event)
  /\ \A mk \in marker : OldNumber(mk[2])

(* A lost document is not in the view, where documents have one version. *)
LostIsLost == \A s \in {"search", "vector"} : view[s] \cap lost[s] = {}

(* A repaired row is in the view, dead-lettered, or announced by an event no
   marker will discard. *)
Coming(s, row) ==
  \/ row \in view[s]
  \/ \E event \in dead[s] : event.row = row
  \/ \E m \in pending[s] : m.event.row = row /\ ~Marked(s, m.event)
RepairsComing == \A p \in repaired : Coming(ViewOf(p[1]), p[2])

RepairInv == Numbered /\ LostIsLost /\ RepairsComing

LEMMA SameKey ==
  ASSUME NEW s \in {"search", "vector"}, NEW row
  PROVE  DocumentKey(s, row) = row
BY DEF DocumentKey

(* Where the messages of a step come from. *)
FromTopics == \A c \in Consumer : \A m \in pending'[c] :
  \/ \E x \in pending[c] : m.event = x.event
  \/ m.event.origin \in {"persist", "embedder"}
MarkersFromTopics == \A mk \in marker' :
  mk \in marker \/ \E c \in Consumer : \E x \in pending[c] : mk[2] = x.event

LEMMA NumbersKept ==
  ASSUME Numbered, FromTopics, MarkersFromTopics, republished' = republished,
         Target \subseteq {"qdrant", "opensearch"}
  PROVE  Numbered'
<1>1. ASSUME NEW c \in Consumer, NEW m \in pending'[c] PROVE OldNumber(m.event)'
  BY DEF Numbered, FromTopics, OldNumber
<1>2. ASSUME NEW mk \in marker' PROVE OldNumber(mk[2])'
  BY DEF Numbered, MarkersFromTopics, OldNumber
<1> QED
  BY <1>1, <1>2 DEF Numbered

LEMMA StoreSources ==
  ASSUME StoreTypeOK, StoreNext
  PROVE  FromTopics /\ MarkersFromTopics
<1>1. QueuesOK(pending) /\ DOMAIN dead = Consumer
      /\ \A d \in Consumer : dead[d] \subseteq EventType(d)
  BY TypeParts DEF DeadTyped
<1>2. ASSUME NEW f \in File, Persist(f) PROVE FromTopics /\ MarkersFromTopics
  <2>1. Waiting(f) /\ PublishFile(f) /\ marker' = marker
    BY <1>2 DEF Persist
  <2>2. \A c \in Consumer : \A m \in pending'[c] :
          \/ m \in pending[c]
          \/ \E r \in NewRows(f, c) : m.event = Event(r, "persist", Turn(f))
    BY <2>1, PublishStep
  <2>3. \A r, n : Event(r, "persist", n).origin = "persist"
    BY DEF Event
  <2>4. FromTopics
    BY <2>2, <2>3 DEF FromTopics
  <2> QED
    BY <2>1, <2>4 DEF MarkersFromTopics
<1>3. ASSUME UNCHANGED <<pending, marker>> PROVE FromTopics /\ MarkersFromTopics
  BY <1>3 DEF FromTopics, MarkersFromTopics
<1>4. ASSUME NEW c \in Consumer, NEW m \in pending[c],
             Settle(c, m) \/ RetryOrDeadLetter(c, m)
      PROVE  FromTopics
  <2>1. \A d \in Consumer : \A y \in pending'[d] : \E x \in pending[d] : y.event = x.event
    <3>1. CASE Settle(c, m)
      BY <1>1, <3>1, SettleStep DEF Settle
    <3>2. CASE RetryOrDeadLetter(c, m)
      BY <1>1, <3>2, RetryStep DEF RetryOrDeadLetter
    <3> QED
      BY <1>4, <3>1, <3>2
  <2> QED
    BY <2>1 DEF FromTopics
<1>5. ASSUME NEW c \in Consumer, NEW m \in pending[c],
             Mark(c, m.event) \/ UNCHANGED marker
      PROVE  MarkersFromTopics
  BY <1>5 DEF Mark, MarkersFromTopics
<1>6. ASSUME NEW s \in Sink, NEW m \in pending[s],
             SinkApplies(s, m) \/ SinkSkips(s, m) \/ SinkFails(s, m)
      PROVE  FromTopics /\ MarkersFromTopics
  BY <1>6, <1>4, <1>5, Sorts DEF SinkApplies, SinkSkips, SinkFails
<1>7. ASSUME NEW m \in pending["embedder"], StoreEmbedding(m)
      PROVE  FromTopics /\ MarkersFromTopics
  <2> DEFINE q == Announced(m.event.row)
  <2>1. "embedder" \in Consumer /\ m.event.row \in RowType("vector")
    BY Sorts, MessageTyped DEF RowType
  <2>2. /\ QueuesOK(q) /\ q["embedder"] = pending["embedder"]
        /\ \A c \in Consumer : c # "vector" => q[c] = pending[c]
        /\ \A y \in q["vector"] :
             y \in pending["vector"] \/ y.event = Event(m.event.row, "embedder", 0)
    BY <1>1, <2>1, AnnouncedStep
  <2>3. SettleIn(q, "embedder", m) \/ RetryOrDeadLetterIn(q, "embedder", m)
    BY <1>7 DEF StoreEmbedding
  <2> HIDE DEF q
  <2>4. \A d \in Consumer : \A y \in pending'[d] : \E x \in q[d] : y.event = x.event
    <3>1. m \in q["embedder"]
      BY <2>2
    <3>2. CASE SettleIn(q, "embedder", m)
      BY <2>1, <2>2, <3>1, <3>2, SettleStep
    <3>3. CASE RetryOrDeadLetterIn(q, "embedder", m)
      BY <1>1, <2>1, <2>2, <3>1, <3>3, RetryStep
    <3> QED
      BY <2>3, <3>2, <3>3
  <2>5. FromTopics
    BY <2>2, <2>4 DEF FromTopics, Event
  <2>6. MarkersFromTopics
    BY <1>5, <1>7, <2>1 DEF StoreEmbedding
  <2> QED
    BY <2>5, <2>6
<1>8. ASSUME NEW m \in pending["embedder"],
             EmbedderSkips(m) \/ EmbeddingRefused(m) \/ EmbedderFails(m)
      PROVE  FromTopics /\ MarkersFromTopics
  BY <1>8, <1>4, <1>5, Sorts DEF EmbedderSkips, EmbeddingRefused, EmbedderFails
<1>9. ASSUME PurgeMarkers PROVE FromTopics /\ MarkersFromTopics
  BY <1>9 DEF PurgeMarkers, FromTopics, MarkersFromTopics
<1> QED
  BY <1>2, <1>3, <1>6, <1>7, <1>8, <1>9
  DEF StoreNext, Deliver, PersistRefused, LoseDocument

(* What one delivery does to a row on its way to a sink. *)
LEMMA ComingKept ==
  ASSUME NEW s \in {"search", "vector"}, NEW row, Coming(s, row),
         row \in view[s] => row \in view'[s],
         dead[s] \subseteq dead'[s],
         \A mk \in marker' : mk \in marker \/ mk[1] # s \/ mk[2].row \in view'[s],
         \A x \in pending[s] :
           \/ \E y \in pending'[s] : y.event = x.event
           \/ x.event \in dead'[s]
           \/ Marked(s, x.event)
           \/ x.event.row \in view'[s]
  PROVE  Coming(s, row)'
<1>1. CASE row \in view[s]
  BY <1>1 DEF Coming
<1>2. CASE \E event \in dead[s] : event.row = row
  BY <1>2 DEF Coming
<1>3. CASE \E m \in pending[s] : m.event.row = row /\ ~Marked(s, m.event)
  <2>1. PICK x \in pending[s] : x.event.row = row /\ ~Marked(s, x.event)
    BY <1>3
  <2>2. Marked(s, x.event)' => row \in view'[s]
    BY <2>1 DEF Marked
  <2>3. CASE \E y \in pending'[s] : y.event = x.event
    <3>1. PICK y \in pending'[s] : y.event = x.event
      BY <2>3
    <3>2. y.event.row = row /\ (~Marked(s, y.event)' \/ row \in view'[s])
      BY <2>1, <2>2, <3>1 DEF Marked
    <3> QED
      BY <3>1, <3>2 DEF Coming
  <2>4. CASE x.event \in dead'[s]
    BY <2>1, <2>4 DEF Coming
  <2>5. CASE x.event.row \in view'[s]
    BY <2>1, <2>5 DEF Coming
  <2> QED
    BY <2>1, <2>3, <2>4, <2>5
<1> QED
  BY <1>1, <1>2, <1>3 DEF Coming

(* A sink's step, for the sinks whose documents have one version. *)
DocumentsKept ==
  \A s \in {"search", "vector"} : view[s] \subseteq view'[s] /\ lost'[s] \subseteq lost[s]
                                  /\ view'[s] \cap lost'[s] = {}
DeliveredToSinks ==
  \A s \in {"search", "vector"} :
    /\ dead[s] \subseteq dead'[s]
    /\ \A mk \in marker' : mk \in marker \/ mk[1] # s \/ mk[2].row \in view'[s]
    /\ \A x \in pending[s] :
         \/ \E y \in pending'[s] : y.event = x.event
         \/ x.event \in dead'[s]
         \/ Marked(s, x.event)
         \/ x.event.row \in view'[s]

LEMMA DocumentWritten ==
  ASSUME StoreTypeOK, LostIsLost, NEW s \in Sink, NEW row \in RowType(s),
         WriteDocument(s, row)
  PROVE  DocumentsKept /\ row \in view'[s]
<1>1. /\ \A t \in Sink : t # s => view'[t] = view[t] /\ lost'[t] = lost[t]
      /\ row \in view'[s]
      /\ \A d \in view[s] : d \in view'[s] \/ DocumentKey(s, d) = DocumentKey(s, row)
      /\ \A d \in view'[s] : d \in view[s] \/ d = row
      /\ lost'[s] = lost[s] \ {DocumentKey(s, row)}
  BY WriteStep, TypeParts DEF ViewsTyped
<1>2. ASSUME NEW t \in {"search", "vector"}
      PROVE  view[t] \subseteq view'[t] /\ lost'[t] \subseteq lost[t]
             /\ view'[t] \cap lost'[t] = {}
  <2>1. CASE t = s
    BY <2>1, <1>1, SameKey DEF LostIsLost
  <2>2. CASE t # s
    BY <2>2, <1>1, Sorts DEF LostIsLost
  <2> QED
    BY <2>1, <2>2
<1> QED
  BY <1>1, <1>2 DEF DocumentsKept

LEMMA SinkDelivery ==
  ASSUME StoreTypeOK, LostIsLost, NEW s \in Sink, NEW m \in pending[s],
         SinkApplies(s, m) \/ SinkSkips(s, m) \/ SinkFails(s, m)
  PROVE  DocumentsKept /\ DeliveredToSinks
<1>1. /\ s \in Consumer /\ QueuesOK(pending) /\ m.event.row \in RowType(s)
      /\ DOMAIN dead = Consumer /\ \A d \in Consumer : dead[d] \subseteq EventType(d)
  BY Sorts, MessageTyped, TypeParts DEF DeadTyped
<1>2. CASE SinkApplies(s, m)
  <2>1. /\ WriteDocument(s, m.event.row) /\ SettleIn(pending, s, m) /\ dead' = dead
        /\ marker' = marker \cup {<<s, m.event>>}
    BY <1>2 DEF SinkApplies, Settle, Mark
  <2>2. DocumentsKept /\ m.event.row \in view'[s]
    BY <1>1, <2>1, DocumentWritten
  <2>3. /\ \A d \in Consumer : d # s => pending'[d] = pending[d]
        /\ \A x \in pending[s] : x # m => x \in pending'[s]
    BY <1>1, <2>1, SettleStep
  <2>4. DeliveredToSinks
    BY <2>1, <2>2, <2>3, Sorts DEF DeliveredToSinks
  <2> QED
    BY <2>2, <2>4
<1>3. CASE SinkSkips(s, m)
  <2>1. /\ SettleIn(pending, s, m) /\ UNCHANGED <<dead, marker, view, lost>>
        /\ ~Labelled(s, m.event) \/ Marked(s, m.event)
    BY <1>3 DEF SinkSkips, Settle
  <2>2. /\ \A d \in Consumer : d # s => pending'[d] = pending[d]
        /\ \A x \in pending[s] : x # m => x \in pending'[s]
    BY <1>1, <2>1, SettleStep
  <2>3. s # "graph" => Marked(s, m.event)
    BY <2>1 DEF Labelled
  <2>4. DeliveredToSinks
    BY <2>1, <2>2, <2>3, Sorts DEF DeliveredToSinks
  <2> QED
    BY <2>1, <2>4 DEF DocumentsKept, LostIsLost
<1>4. CASE SinkFails(s, m)
  <2>1. RetryOrDeadLetterIn(pending, s, m) /\ UNCHANGED marker
    BY <1>4 DEF SinkFails, RetryOrDeadLetter
  <2>2. /\ \A d \in Consumer : d # s => pending'[d] = pending[d]
        /\ \A x \in pending[s] : \/ \E y \in pending'[s] : y.event = x.event
                                 \/ x.event \in dead'[s]
        /\ \A d \in Consumer : dead[d] \subseteq dead'[d]
    BY <1>1, <2>1, RetryStep
  <2>3. DeliveredToSinks
    BY <2>1, <2>2, Sorts DEF DeliveredToSinks
  <2>4. DocumentsKept
    <3>1. CASE WriteDocument(s, m.event.row)
      BY <1>1, <3>1, DocumentWritten
    <3>2. CASE UNCHANGED <<view, lost>>
      BY <3>2 DEF DocumentsKept, LostIsLost
    <3> QED
      BY <1>4, <3>1, <3>2 DEF SinkFails
  <2> QED
    BY <2>3, <2>4
<1> QED
  BY <1>2, <1>3, <1>4

(* The steps that write no document leave the sinks' topics what they had. *)
LEMMA SinkFrame ==
  ASSUME LostIsLost, UNCHANGED <<view, lost>>,
         \A s \in {"search", "vector"} : pending[s] \subseteq pending'[s]
                                         /\ dead[s] \subseteq dead'[s],
         \A mk \in marker' : mk \in marker \/ mk[1] = "embedder"
  PROVE  DocumentsKept /\ DeliveredToSinks
BY DEF DocumentsKept, DeliveredToSinks, LostIsLost

LEMMA EmbedderDelivery ==
  ASSUME StoreTypeOK, LostIsLost, NEW m \in pending["embedder"],
         \/ StoreEmbedding(m) \/ EmbedderSkips(m)
         \/ EmbeddingRefused(m) \/ EmbedderFails(m)
  PROVE  DocumentsKept /\ DeliveredToSinks
<1> DEFINE q == Announced(m.event.row)
           c == "embedder"
<1>1. /\ c \in Consumer /\ m.event.row \in RowType("vector") /\ QueuesOK(pending)
      /\ DOMAIN dead = Consumer /\ \A d \in Consumer : dead[d] \subseteq EventType(d)
  BY Sorts, MessageTyped, TypeParts DEF DeadTyped, RowType
<1>2. /\ QueuesOK(q) /\ m \in q[c]
      /\ \A d \in Consumer : pending[d] \subseteq q[d]
  BY <1>1, AnnouncedStep
<1>3. /\ UNCHANGED <<view, lost>>
      /\ \A mk \in marker' : mk \in marker \/ mk[1] = "embedder"
      /\ \/ SettleIn(q, c, m) /\ dead' = dead
         \/ RetryOrDeadLetterIn(q, c, m)
         \/ SettleIn(pending, c, m) /\ dead' = dead
         \/ RetryOrDeadLetterIn(pending, c, m)
  BY DEF StoreEmbedding, EmbedderSkips, EmbeddingRefused, EmbedderFails, Mark,
         Settle, RetryOrDeadLetter
<1> HIDE DEF q
<1>4. \A d \in {"search", "vector"} : pending[d] \subseteq pending'[d]
                                      /\ dead[d] \subseteq dead'[d]
  <2>0. \A d \in {"search", "vector"} : d \in Consumer /\ d # c
    BY DEF Consumer, Sink
  <2>1. CASE SettleIn(q, c, m) /\ dead' = dead
    BY <1>1, <1>2, <2>0, <2>1, SettleStep
  <2>2. CASE RetryOrDeadLetterIn(q, c, m)
    BY <1>1, <1>2, <2>0, <2>2, RetryStep
  <2>3. CASE SettleIn(pending, c, m) /\ dead' = dead
    BY <1>1, <2>0, <2>3, SettleStep
  <2>4. CASE RetryOrDeadLetterIn(pending, c, m)
    BY <1>1, <2>0, <2>4, RetryStep
  <2> QED
    BY <1>3, <2>1, <2>2, <2>3, <2>4
<1> QED
  BY <1>3, <1>4, SinkFrame

LEMMA PipelineDelivery ==
  ASSUME StoreTypeOK, LostIsLost, StoreNext,
         ~\E s \in Sink : \E row \in view[s] : LoseDocument(s, row)
  PROVE  DocumentsKept /\ DeliveredToSinks
<1>1. ASSUME NEW f \in File, Persist(f) PROVE DocumentsKept /\ DeliveredToSinks
  <2>1. Waiting(f) /\ PublishFile(f) /\ UNCHANGED <<view, lost, dead, marker>>
    BY <1>1 DEF Persist
  <2>2. \A c \in Consumer : pending[c] \subseteq pending'[c]
    BY <2>1, PublishStep
  <2> QED
    BY <2>1, <2>2, Sorts, SinkFrame
<1>2. ASSUME NEW f \in File, PersistRefused(f) PROVE DocumentsKept /\ DeliveredToSinks
  BY <1>2, SinkFrame DEF PersistRefused
<1>3. ASSUME PurgeMarkers PROVE DocumentsKept /\ DeliveredToSinks
  BY <1>3, SinkFrame DEF PurgeMarkers
<1> QED
  BY <1>1, <1>2, <1>3, SinkDelivery, EmbedderDelivery DEF StoreNext, Deliver

LEMMA ViewOfRepair ==
  ASSUME JobTypeOK, Target \subseteq {"qdrant", "opensearch"}, NEW p \in repaired
  PROVE  /\ ViewOf(p[1]) \in {"search", "vector"}
         /\ DocumentKey(ViewOf(p[1]), p[2]) = p[2]
BY SameKey DEF JobTypeOK, ViewOf

LEMMA StoreRepairs ==
  ASSUME Inv, RepairInv, StoreStep, Target \subseteq {"qdrant", "opensearch"}
  PROVE  RepairInv'
<1>1. /\ StoreTypeOK /\ JobTypeOK /\ StoreNext /\ republished' = republished
      /\ repaired' = {p \in repaired :
           DocumentKey(ViewOf(p[1]), p[2]) \notin lost'[ViewOf(p[1])]
           \/ DocumentKey(ViewOf(p[1]), p[2]) \in lost[ViewOf(p[1])]}
  BY DEF Inv, StoreStep
<1>2. Numbered'
  BY <1>1, StoreSources, NumbersKept DEF RepairInv
<1>3. CASE ~\E s \in Sink : \E row \in view[s] : LoseDocument(s, row)
  <2>1. DocumentsKept /\ DeliveredToSinks
    BY <1>1, <1>3, PipelineDelivery DEF RepairInv
  <2>2. LostIsLost'
    BY <2>1 DEF DocumentsKept, LostIsLost
  <2>3. ASSUME NEW p \in repaired' PROVE Coming(ViewOf(p[1]), p[2])'
    <3>1. p \in repaired /\ Coming(ViewOf(p[1]), p[2])
      BY <1>1 DEF RepairInv, RepairsComing
    <3>2. ViewOf(p[1]) \in {"search", "vector"}
      BY <1>1, <3>1, ViewOfRepair
    <3> QED
      BY <2>1, <3>1, <3>2, ComingKept DEF DocumentsKept, DeliveredToSinks
  <2> QED
    BY <1>2, <2>2, <2>3 DEF RepairInv, RepairsComing
<1>4. CASE \E s \in Sink : \E row \in view[s] : LoseDocument(s, row)
  <2>1. PICK s \in Sink, row \in UNION {view[t] : t \in Sink} :
          row \in view[s] /\ LoseDocument(s, row)
    BY <1>4
  <2>2. /\ view'[s] = view[s] \ {row} /\ lost'[s] = lost[s] \cup {DocumentKey(s, row)}
        /\ \A t \in Sink : t # s => view'[t] = view[t] /\ lost'[t] = lost[t]
        /\ UNCHANGED <<marker, pending, dead>>
    BY <1>1, <2>1, TypeParts DEF LoseDocument, ViewsTyped
  <2>3. LostIsLost'
    BY <2>2, SameKey, Sorts DEF RepairInv, LostIsLost
  <2>4. ASSUME NEW p \in repaired' PROVE Coming(ViewOf(p[1]), p[2])'
    <3> DEFINE t == ViewOf(p[1])
    <3>1. p \in repaired /\ Coming(t, p[2])
      BY <1>1 DEF RepairInv, RepairsComing
    <3>2. t \in {"search", "vector"} /\ DocumentKey(t, p[2]) = p[2]
      BY <1>1, <3>1, ViewOfRepair
    <3>3. p[2] \notin lost'[t] \/ p[2] \in lost[t]
      BY <1>1, <3>2
    <3> HIDE DEF t
    <3>4. p[2] \in view[t] => p[2] \in view'[t]
      BY <2>1, <2>2, <3>2, <3>3, SameKey, Sorts DEF RepairInv, LostIsLost
    <3> QED
      BY <2>2, <3>1, <3>2, <3>4 DEF Coming, Marked, t
  <2> QED
    BY <1>2, <2>3, <2>4 DEF RepairInv, RepairsComing
<1> QED
  BY <1>3, <1>4

LEMMA JobRepairs ==
  ASSUME Inv, RepairInv, JobStep, Target \subseteq {"qdrant", "opensearch"}
  PROVE  RepairInv'
<1>1. StoreTypeOK /\ JobTypeOK /\ Numbered /\ LostIsLost /\ RepairsComing
      /\ UNCHANGED <<marker, dead, view, lost>>
  BY JobFrame DEF Inv, RepairInv
<1>2. LostIsLost'
  BY <1>1 DEF LostIsLost
<1>3. CASE \E row \in todo \cup mismatched : Republish(row)
  <2>1. PICK row \in todo \cup mismatched : Republish(row)
    BY <1>3
  <2>2. /\ target \in Target
        /\ \A c \in Consumer : pending[c] \subseteq pending'[c]
        /\ republished \in Nat /\ republished' = republished + 1
    BY <1>1, <2>1, RepublishStep DEF Republish, JobTypeOK
  <2>3. PICK e, s, current :
          /\ s \in Consumer /\ current \in RowType(ViewOf(target))
          /\ e.origin = target /\ e.n = republished /\ e.row = current
          /\ s = ViewOf(target)
          /\ repaired' = repaired \cup {<<target, current>>}
          /\ \E m \in pending'[s] : m.event = e
          /\ \A c \in Consumer : \A m \in pending'[c] : m \in pending[c] \/ m.event = e
    <3>1. PICK current \in RowType(ViewOf(target)) :
            /\ repaired' = repaired \cup {<<target, current>>}
            /\ \E m \in pending'[ViewOf(target)] :
                 m.event = Event(current, target, republished)
            /\ \A c \in Consumer : \A m \in pending'[c] :
                 m \in pending[c] \/ m.event = Event(current, target, republished)
      BY <1>1, <2>1, RepublishStep
    <3>2. ViewOf(target) \in Consumer
      BY <2>2, TargetFacts
    <3> DEFINE new == Event(current, target, republished)
    <3>3. new.origin = target /\ new.n = republished /\ new.row = current
      BY DEF Event
    <3> HIDE DEF new
    <3>4. /\ \E m \in pending'[ViewOf(target)] : m.event = new
          /\ \A c \in Consumer : \A m \in pending'[c] : m \in pending[c] \/ m.event = new
      BY <3>1 DEF new
    <3> QED
      BY <3>1, <3>2, <3>3, <3>4
  <2>5. ASSUME NEW event, OldNumber(event) PROVE OldNumber(event)'
    <3>1. ASSUME event.origin \in Target
          PROVE  event.n \in Nat /\ event.n < republished'
      <4>1. event.n \in Nat /\ event.n < republished
        BY <2>5, <3>1 DEF OldNumber
      <4> QED
        BY <4>1, <2>2
    <3> QED
      BY <3>1 DEF OldNumber
  <2>6. OldNumber(e)'
    BY <2>2, <2>3 DEF OldNumber
  <2>7. Numbered'
    BY <1>1, <2>3, <2>5, <2>6 DEF Numbered
  <2>8. ASSUME NEW c \in Consumer PROVE ~Marked(c, e)
    BY <1>1, <2>2, <2>3 DEF Marked, Numbered, OldNumber
  <2>9. ASSUME NEW p \in repaired' PROVE Coming(ViewOf(p[1]), p[2])'
    <3>1. CASE p \in repaired
      <4>1. ViewOf(p[1]) \in Consumer /\ Coming(ViewOf(p[1]), p[2])
        BY <1>1, <3>1, TargetFacts DEF JobTypeOK, RepairsComing
      <4> QED
        BY <1>1, <2>2, <4>1 DEF Coming, Marked
    <3>2. CASE p = <<target, current>>
      <4>1. PICK m \in pending'[s] : m.event = e
        BY <2>3
      <4>2. m.event.row = current /\ ~Marked(s, m.event)'
        BY <1>1, <2>3, <2>8, <4>1 DEF Marked
      <4>3. Coming(s, current)'
        BY <4>1, <4>2 DEF Coming
      <4> QED
        BY <3>2, <4>3, <2>3
    <3> QED
      BY <2>3, <3>1, <3>2
  <2> QED
    BY <1>2, <2>7, <2>9 DEF RepairInv, RepairsComing
<1>4. CASE ~\E row \in todo \cup mismatched : Republish(row)
  <2>1. UNCHANGED <<pending, repaired, republished>>
    BY <1>4 DEF JobStep, StartJob, CheckMatches, CheckFails, RowErrored, EndJob,
                storeVars
  <2> QED
    BY <1>1, <1>2, <2>1 DEF RepairInv, Numbered, OldNumber, RepairsComing, Coming, Marked
<1> QED
  BY <1>3, <1>4

(* What reconciliation is for, of the qdrant and opensearch jobs (framework.go,
   republishOne): once the topics are drained, a row reported as Republished is
   in the view, unless its event was dead-lettered or the view lost it again.
   The jobs announce the row with labels under a number no marker has. *)
THEOREM RepairReachesView ==
  ASSUME Target \subseteq {"qdrant", "opensearch"}
  PROVE  Spec => []RepairArrives
<1>1. Init => RepairInv
  BY DEF Init, StoreInit, RepairInv, Numbered, LostIsLost, RepairsComing, Sink, Consumer
<1>2. Inv /\ RepairInv /\ [Next]_vars => RepairInv'
  <2> SUFFICES ASSUME Inv, RepairInv, [Next]_vars PROVE RepairInv'
    OBVIOUS
  <2>1. CASE UNCHANGED vars
    BY <2>1
    DEF vars, storeVars, jobVars, RepairInv, Numbered, OldNumber, LostIsLost,
        RepairsComing, Coming, Marked
  <2> QED
    BY <2>1, StoreRepairs, JobRepairs DEF Next
<1>3. Inv /\ RepairInv => RepairArrives
  <2> SUFFICES ASSUME Inv, RepairInv, NEW p \in repaired,
                      pending[ViewOf(p[1])] = {},
                      \A event \in dead[ViewOf(p[1])] :
                        DocumentKey(ViewOf(p[1]), event.row) # DocumentKey(ViewOf(p[1]), p[2])
               PROVE  \E d \in view[ViewOf(p[1])] :
                        DocumentKey(ViewOf(p[1]), d) = DocumentKey(ViewOf(p[1]), p[2])
    BY DEF RepairArrives
  <2>1. Coming(ViewOf(p[1]), p[2])
    BY DEF RepairInv, RepairsComing
  <2> QED
    BY <2>1 DEF Coming
<1> QED
  BY <1>1, <1>2, <1>3, Invariant, PTL DEF Spec

-----------------------------------------------------------------------------
(* The rows of an entity are those of one command *)

(* Only the transaction of persist.rs changes the nodes and the chunks. *)
LEMMA OnlyPersistWrites ==
  ASSUME [Next]_vars
  PROVE  (\E f \in File : Persist(f)) \/ UNCHANGED <<applied, node, chunk>>
BY JobFrame
DEF Next, StoreStep, StoreNext, Deliver, PersistRefused, SinkApplies, SinkSkips,
    SinkFails, StoreEmbedding, EmbedderSkips, EmbeddingRefused, EmbedderFails,
    PurgeMarkers, LoseDocument, tables, vars, storeVars

(* Two files have no entity in common. *)
LEMMA OneFile ==
  ASSUME NEW f \in File, NEW g \in File, NEW m \in Number(f), NEW n \in Number(g),
         NEW e, e \in DOMAIN Queue[f][m].ast, e \in DOMAIN Queue[g][n].ast
  PROVE  f = g
BY CommandAssumption DEF CommandAssumption

LEMMA LastWriterIsNext ==
  ASSUME NEW f, NEW e, applied'[f] \in Nat,
         NEW n \in Writers(f, e)', \A m \in Writers(f, e)' : m <= n
  PROVE  LastWriter(f, e)' = n
<1>1. \A m \in Writers(f, e)' : m \in Nat
  BY DEF Writers
<1>2. \A m \in Writers(f, e)' : (\A k \in Writers(f, e)' : k <= m) => m = n
  BY <1>1
<1> QED
  BY <1>2 DEF LastWriter

RowsOf(e) == {r \in chunk : r.entity = e}
RowsOfCommand(f, n, e) ==
  {ChunkRow(ch[1], ch[2], n) : ch \in {x \in Queue[f][n].chunks : x[1] = e}}

(* The entities a command does not contain keep their rows and their writer. *)
LEMMA UntouchedKept ==
  ASSUME StoreTypeOK, NEW f \in File, Persist(f), NEW g \in File, NEW e \in Entity,
         e \notin Touched(f)
  PROVE  /\ Writers(g, e)' = Writers(g, e) /\ LastWriter(g, e)' = LastWriter(g, e)
         /\ node'[e] = node[e] /\ RowsOf(e)' = RowsOf(e)
<1>1. /\ Turn(f) \in Nat /\ Turn(f) = applied[f] + 1 /\ applied[f] \in Nat
      /\ \A r \in NewChunks(f) : r.entity \in Touched(f)
      /\ applied' = [applied EXCEPT ![f] = @ + 1] /\ f \in DOMAIN applied
  BY CommandFacts DEF Persist, StoreTypeOK
<1>2. Writers(g, e)' = Writers(g, e)
  <2>1. CASE g = f
    <3>1. applied'[g] = applied[g] + 1 /\ applied[g] \in Nat
      BY <1>1, <2>1
    <3>2. \A n \in 1 .. applied'[g] : n \in 1 .. applied[g] \/ n = Turn(f)
      BY <1>1, <2>1, <3>1
    <3>3. \A n \in 1 .. applied[g] : n \in 1 .. applied'[g]
      BY <3>1
    <3> QED
      BY <2>1, <3>2, <3>3 DEF Writers, Touched
  <2>2. CASE g # f
    BY <1>1, <2>2 DEF Writers
  <2> QED
    BY <2>1, <2>2
<1>3. LastWriter(g, e)' = LastWriter(g, e)
  BY <1>2 DEF LastWriter
<1>4. node'[e] = node[e]
  BY DEF Persist
<1>5. RowsOf(e)' = RowsOf(e)
  BY <1>1 DEF RowsOf, Persist, OldChunks
<1> QED
  BY <1>2, <1>3, <1>4, <1>5

(* Those it contains have exactly its rows. *)
LEMMA TouchedReplaced ==
  ASSUME StoreTypeOK, NEW f \in File, Persist(f), NEW g \in File, NEW e \in Touched(f),
         Writers(g, e)' # {}
  PROVE  /\ g = f /\ LastWriter(g, e)' = Turn(f)
         /\ node'[e] = Queue[f][Turn(f)].ast[e]
         /\ RowsOf(e)' = RowsOfCommand(f, Turn(f), e)
<1>1. /\ Turn(f) \in Number(f) /\ Turn(f) \in Nat /\ Turn(f) = applied[f] + 1
      /\ Touched(f) \subseteq Entity /\ e \in Entity
      /\ applied' = [applied EXCEPT ![f] = @ + 1] /\ f \in DOMAIN applied
      /\ applied[f] \in Nat /\ applied'[f] = Turn(f)
  BY CommandFacts DEF Persist, StoreTypeOK
<1>2. g = f
  <2>1. PICK n \in Writers(g, e)' : TRUE
    OBVIOUS
  <2>2. n \in 1 .. applied'[g] /\ e \in DOMAIN Queue[g][n].ast
    BY <2>1 DEF Writers
  <2>3. ASSUME g # f PROVE n \in Number(g)
    <3>1. applied'[g] = applied[g] /\ applied[g] \in Nat /\ applied[g] <= Len(Queue[g])
      BY <1>1, <2>3 DEF StoreTypeOK
    <3>2. Len(Queue[g]) \in Nat
      BY StoreAssumption DEF StoreAssumption
    <3> QED
      BY <2>2, <3>1, <3>2 DEF Number
  <2> QED
    BY <1>1, <2>2, <2>3, OneFile DEF Touched
<1>3. Turn(f) \in Writers(g, e)' /\ \A m \in Writers(g, e)' : m <= Turn(f)
  BY <1>1, <1>2 DEF Writers, Touched
<1>4. LastWriter(g, e)' = Turn(f)
  BY <1>1, <1>2, <1>3, LastWriterIsNext
<1>5. node'[e] = Queue[f][Turn(f)].ast[e]
  BY <1>1 DEF Persist
<1>6. RowsOf(e)' = {r \in NewChunks(f) : r.entity = e}
  BY DEF RowsOf, Persist, OldChunks
<1>7. {r \in NewChunks(f) : r.entity = e} = RowsOfCommand(f, Turn(f), e)
  BY DEF NewChunks, RowsOfCommand, ChunkRow
<1> QED
  BY <1>2, <1>4, <1>5, <1>6, <1>7

(* Whatever is interleaved with the transactions of persist.rs (embeddings, the
   sinks, the purge, the repair jobs), the rows of an entity are those of the
   last applied command that contains it: its hash, and exactly its chunks. *)
THEOREM LastParseOnly == Spec => []StoreIsLastParse
<1>1. Init => StoreIsLastParse
  BY StoreAssumption DEF Init, StoreInit, StoreIsLastParse, Writers, StoreAssumption
<1>2. Inv /\ StoreIsLastParse /\ [Next]_vars => StoreIsLastParse'
  <2> SUFFICES ASSUME Inv, StoreIsLastParse, [Next]_vars,
                      NEW g \in File, NEW e \in Entity, Writers(g, e)' # {}
               PROVE  /\ node'[e] = Queue[g][LastWriter(g, e)'].ast[e]
                      /\ RowsOf(e)' = RowsOfCommand(g, LastWriter(g, e)', e)
    BY DEF StoreIsLastParse, RowsOf, RowsOfCommand
  <2>1. Writers(g, e) # {} => /\ node[e] = Queue[g][LastWriter(g, e)].ast[e]
                              /\ RowsOf(e) = RowsOfCommand(g, LastWriter(g, e), e)
    BY DEF StoreIsLastParse, RowsOf, RowsOfCommand
  <2>2. CASE \E f \in File : Persist(f)
    <3>1. PICK f \in File : Persist(f)
      BY <2>2
    <3>2. CASE e \in Touched(f)
      BY <3>1, <3>2, TouchedReplaced DEF Inv
    <3>3. CASE e \notin Touched(f)
      BY <2>1, <3>1, <3>3, UntouchedKept DEF Inv
    <3> QED
      BY <3>2, <3>3
  <2>3. CASE UNCHANGED <<applied, node, chunk>>
    <3>1. /\ Writers(g, e)' = Writers(g, e) /\ LastWriter(g, e)' = LastWriter(g, e)
          /\ node'[e] = node[e] /\ RowsOf(e)' = RowsOf(e)
      BY <2>3 DEF Writers, LastWriter, RowsOf
    <3> QED
      BY <2>1, <3>1
  <2> QED
    BY <2>2, <2>3, OnlyPersistWrites
<1> QED
  BY <1>1, <1>2, Invariant, PTL DEF Spec

-----------------------------------------------------------------------------
(* What the dead-letter topic holds when nothing failed *)

(* The row is not one that a command still to be applied will insert. *)
Settled(row) ==
  \A f \in File : \A n \in Number(f) : \A ch \in Queue[f][n].chunks :
    n > applied[f] => row # ChunkRow(ch[1], ch[2], n)

RowsSettled ==
  /\ \A row \in chunk : Settled(row)
  /\ \A m \in pending["embedder"] : Settled(m.event.row)
  /\ \A event \in dead["embedder"] : Settled(event.row)

FaultsSpent == budget.faults <= MaxFaults

LetterInv == RowsSettled /\ FaultsSpent /\ DeadLetterHarmless

LEMMA SettledStays ==
  ASSUME NEW row, Settled(row),
         \A f \in File : applied[f] \in Nat /\ applied'[f] \in Nat
                         /\ applied[f] <= applied'[f]
  PROVE  Settled(row)'
BY DEF Settled, Number

(* The chunks a transaction inserts carry the number of its command, and no
   other file has their entity. *)
LEMMA NewChunksSettled ==
  ASSUME StoreTypeOK, NEW f \in File, Persist(f), NEW row \in NewChunks(f)
  PROVE  Settled(row)' /\ ~Settled(row)
<1>1. /\ Turn(f) \in Number(f) /\ Turn(f) \in Nat /\ Turn(f) = applied[f] + 1
      /\ row.entity \in Touched(f) /\ row.serial = Turn(f)
      /\ applied'[f] = applied[f] + 1 /\ Waiting(f) /\ applied[f] \in Nat
  BY CommandFacts DEF Persist, StoreTypeOK
<1>2. ~Settled(row)
  <2>1. PICK ch \in Queue[f][Turn(f)].chunks : row = ChunkRow(ch[1], ch[2], Turn(f))
    BY DEF NewChunks
  <2> QED
    BY <1>1, <2>1 DEF Settled
<1>3. ASSUME NEW g \in File, NEW n \in Number(g), NEW ch \in Queue[g][n].chunks,
             n > applied'[g], row = ChunkRow(ch[1], ch[2], n)
      PROVE  FALSE
  <2>1. row.entity = ch[1] /\ row.serial = n /\ ch[1] \in DOMAIN Queue[g][n].ast
    BY <1>3, CommandAssumption DEF ChunkRow, CommandAssumption
  <2>2. g = f
    BY <1>1, <2>1, OneFile DEF Touched
  <2> QED
    BY <1>1, <1>3, <2>1, <2>2
<1> QED
  BY <1>2, <1>3 DEF Settled

LEMMA AppliedGrows ==
  ASSUME StoreTypeOK, StoreTypeOK', [Next]_vars
  PROVE  \A f \in File : applied[f] \in Nat /\ applied'[f] \in Nat
                         /\ applied[f] <= applied'[f]
<1>1. CASE \E f \in File : Persist(f)
  BY <1>1 DEF Persist, StoreTypeOK
<1>2. CASE UNCHANGED applied
  BY <1>2 DEF StoreTypeOK
<1> QED
  BY <1>1, <1>2, OnlyPersistWrites

(* Where the events of the embedding worker's topics come from: those that
   were there, or the chunks of PostgreSQL after the step. *)
EmbedderSources ==
  /\ \A m \in pending'["embedder"] :
       \/ \E x \in pending["embedder"] : m.event.row = x.event.row
       \/ m.event.row \in chunk'
  /\ \A event \in dead'["embedder"] :
       \/ event \in dead["embedder"]
       \/ \E x \in pending["embedder"] : event = x.event

(* What a step may do to the budget and the dead-letter topics: to dead-letter
   costs a fault, but for an event whose chunk has gone or has its embedding. *)
LettersOK ==
  /\ budget'.faults <= budget.faults
  /\ budget'.faults = budget.faults =>
       /\ \A s \in Sink : dead'[s] = dead[s]
       /\ \A event \in dead'["embedder"] :
            event \in dead["embedder"] \/ event.row \notin chunk \/ event.row \in embedding

LEMMA SpendFaults ==
  ASSUME budget \in [{"faults", "purges", "losses"} -> Nat], Spend("faults")
  PROVE  budget'.faults \in Nat /\ budget'.faults < budget.faults
BY DEF Spend

LEMMA SpendOther ==
  ASSUME budget \in [{"faults", "purges", "losses"} -> Nat],
         NEW w \in {"purges", "losses"}, Spend(w)
  PROVE  budget'.faults = budget.faults
BY DEF Spend

LEMMA FaultLeft ==
  ASSUME StoreTypeOK
  PROVE  budget \in [{"faults", "purges", "losses"} -> Nat] /\ budget.faults \in Nat
BY DEF StoreTypeOK

LEMMA SettleLetters ==
  ASSUME StoreTypeOK, NEW q, QueuesOK(q), q["embedder"] = pending["embedder"],
         NEW c \in Consumer, NEW m \in q[c], SettleIn(q, c, m), dead' = dead
  PROVE  EmbedderSources /\ LettersOK
<1>1. \A m2 \in pending'["embedder"] : m2 \in pending["embedder"]
  BY SettleStep, Sorts
<1>2. budget'.faults <= budget.faults
  BY FaultLeft, SpendFaults DEF SettleIn
<1> QED
  BY <1>1, <1>2 DEF EmbedderSources, LettersOK

LEMMA RetryLetters ==
  ASSUME StoreTypeOK, NEW q, QueuesOK(q), q["embedder"] = pending["embedder"],
         NEW c \in Consumer, NEW m \in q[c], RetryOrDeadLetterIn(q, c, m)
  PROVE  /\ EmbedderSources
         /\ Spend("faults") => LettersOK
         /\ budget' = budget /\ c = "embedder"
            /\ (m.event.row \notin chunk \/ m.event.row \in embedding) => LettersOK
<1>1. /\ \A d \in Consumer : d # c => pending'[d] = q[d]
      /\ \A y \in pending'[c] : \E x \in q[c] : y.event = x.event
      /\ \A d \in Consumer : d # c => dead'[d] = dead[d]
      /\ dead'[c] \subseteq dead[c] \cup {m.event}
  BY RetryStep, TypeParts DEF DeadTyped
<1>2. EmbedderSources
  BY <1>1, Sorts DEF EmbedderSources
<1>3. ASSUME Spend("faults") PROVE LettersOK
  BY <1>3, FaultLeft, SpendFaults DEF LettersOK
<1>4. ASSUME budget' = budget, c = "embedder",
             m.event.row \notin chunk \/ m.event.row \in embedding
      PROVE  LettersOK
  <2>1. \A s \in Sink : dead'[s] = dead[s]
    BY <1>1, <1>4, Sorts
  <2> QED
    BY <1>1, <1>4, <2>1, FaultLeft DEF LettersOK
<1> QED
  BY <1>2, <1>3, <1>4

LEMMA StoreLetters ==
  ASSUME StoreTypeOK, StoreNext
  PROVE  EmbedderSources /\ LettersOK
<1>1. QueuesOK(pending) /\ budget \in [{"faults", "purges", "losses"} -> Nat]
      /\ budget.faults \in Nat
  BY TypeParts, FaultLeft
<1>2. ASSUME NEW f \in File, Persist(f) PROVE EmbedderSources /\ LettersOK
  <2>1. Waiting(f) /\ PublishFile(f) /\ UNCHANGED <<dead, budget>>
        /\ NewChunks(f) \subseteq chunk'
    BY <1>2 DEF Persist
  <2>2. \A m \in pending'["embedder"] :
          \/ m \in pending["embedder"]
          \/ \E r \in NewRows(f, "embedder") : m.event = Event(r, "persist", Turn(f))
    BY <2>1, PublishStep, Sorts
  <2>3. NewRows(f, "embedder") = NewChunks(f)
    BY DEF NewRows
  <2>4. \A r, n : Event(r, "persist", n).row = r
    BY DEF Event
  <2> QED
    BY <1>1, <2>1, <2>2, <2>3, <2>4 DEF EmbedderSources, LettersOK
<1>3. ASSUME UNCHANGED <<pending, dead>>, budget'.faults = budget.faults
      PROVE  EmbedderSources /\ LettersOK
  BY <1>1, <1>3 DEF EmbedderSources, LettersOK
<1>4. ASSUME NEW s \in Sink, NEW m \in pending[s],
             SinkApplies(s, m) \/ SinkSkips(s, m) \/ SinkFails(s, m)
      PROVE  EmbedderSources /\ LettersOK
  <2>1. s \in Consumer /\ \/ SettleIn(pending, s, m) /\ dead' = dead
                          \/ RetryOrDeadLetterIn(pending, s, m) /\ Spend("faults")
    BY <1>4, Sorts DEF SinkApplies, SinkSkips, SinkFails, Settle, RetryOrDeadLetter
  <2> QED
    BY <1>1, <2>1, SettleLetters, RetryLetters
<1>5. ASSUME NEW m \in pending["embedder"], StoreEmbedding(m)
      PROVE  EmbedderSources /\ LettersOK
  <2> DEFINE q == Announced(m.event.row)
  <2>1. "embedder" \in Consumer /\ m.event.row \in RowType("vector")
    BY Sorts, MessageTyped DEF RowType
  <2>2. QueuesOK(q) /\ q["embedder"] = pending["embedder"]
    BY <1>1, <2>1, AnnouncedStep
  <2>3. \/ SettleIn(q, "embedder", m) /\ dead' = dead
        \/ RetryOrDeadLetterIn(q, "embedder", m) /\ Spend("faults")
    BY <1>5 DEF StoreEmbedding
  <2> HIDE DEF q
  <2> QED
    BY <2>1, <2>2, <2>3, SettleLetters, RetryLetters
<1>6. ASSUME NEW m \in pending["embedder"],
             EmbedderSkips(m) \/ EmbeddingRefused(m) \/ EmbedderFails(m)
      PROVE  EmbedderSources /\ LettersOK
  <2>1. \/ SettleIn(pending, "embedder", m) /\ dead' = dead
        \/ /\ RetryOrDeadLetterIn(pending, "embedder", m)
           /\ \/ Spend("faults")
              \/ /\ budget' = budget
                 /\ m.event.row \notin chunk \/ m.event.row \in embedding
    BY <1>6 DEF EmbedderSkips, EmbeddingRefused, EmbedderFails, Settle,
                RetryOrDeadLetter, InsertAccepted
  <2> QED
    BY <1>1, <2>1, Sorts, SettleLetters, RetryLetters
<1>7. ASSUME PurgeMarkers PROVE EmbedderSources /\ LettersOK
  BY <1>1, <1>3, <1>7, SpendOther DEF PurgeMarkers
<1>8. ASSUME NEW s \in Sink, NEW row \in view[s], LoseDocument(s, row)
      PROVE  EmbedderSources /\ LettersOK
  BY <1>1, <1>3, <1>8, SpendOther DEF LoseDocument
<1>9. ASSUME NEW f \in File, PersistRefused(f) PROVE EmbedderSources /\ LettersOK
  BY <1>1, <1>3, <1>9 DEF PersistRefused
<1> QED
  BY <1>2, <1>4, <1>5, <1>6, <1>7, <1>8, <1>9 DEF StoreNext, Deliver

(* The opensearch job announces chunks to the embedding worker too. *)
LEMMA JobLetters ==
  ASSUME StoreTypeOK, JobTypeOK, JobStep
  PROVE  EmbedderSources /\ LettersOK
<1>1. /\ budget \in [{"faults", "purges", "losses"} -> Nat] /\ budget.faults \in Nat
      /\ dead' = dead
  BY FaultLeft, JobFrame
<1>2. LettersOK
  <2>1. budget' = budget \/ Spend("faults")
    BY DEF JobStep, StartJob, CheckMatches, CheckFails, Republish, RowErrored,
           EndJob, storeVars
  <2> QED
    BY <1>1, <2>1, SpendFaults DEF LettersOK
<1>3. CASE \E row \in todo \cup mismatched : Republish(row)
  <2>1. PICK row \in todo \cup mismatched : Republish(row)
    BY <1>3
  <2>2. PICK current \in CurrentRow(target, row) :
          pending' = [c \in Consumer |->
             IF c \in Readers(target)
             THEN pending[c] \cup Fresh({Event(current, target, republished)})
             ELSE pending[c]]
    BY <2>1 DEF Republish
  <2>3. CASE "embedder" \in Readers(target)
    <3>1. target = "opensearch"
      BY <2>1, <2>3, ReconcileAssumption
      DEF Readers, Republish, JobTypeOK, ReconcileAssumption
    <3>2. current \in chunk
      BY <2>2, <3>1 DEF CurrentRow, ViewOf, SourceRows
    <3> DEFINE new == Event(current, target, republished)
    <3>3. new.row = current
      BY DEF Event
    <3>4. \A m \in Fresh({new}) : m.event = new
      BY DEF Fresh
    <3> HIDE DEF new
    <3>5. \A m \in pending'["embedder"] : m \in pending["embedder"] \/ m.event = new
      BY <2>2, <2>3, <3>4, Sorts DEF new
    <3> QED
      BY <1>1, <1>2, <2>1, <3>2, <3>3, <3>5 DEF EmbedderSources, Republish
  <2>4. CASE "embedder" \notin Readers(target)
    BY <1>1, <1>2, <2>2, <2>4, Sorts DEF EmbedderSources
  <2> QED
    BY <2>3, <2>4
<1>4. CASE ~\E row \in todo \cup mismatched : Republish(row)
  <2>1. pending' = pending
    BY <1>4 DEF JobStep, StartJob, CheckMatches, CheckFails, RowErrored, EndJob, storeVars
  <2> QED
    BY <1>1, <1>2, <2>1 DEF EmbedderSources
<1> QED
  BY <1>3, <1>4

LEMMA RowsSettledKept ==
  ASSUME StoreTypeOK, StoreTypeOK', [Next]_vars, RowsSettled, EmbedderSources
  PROVE  RowsSettled'
<1>1. \A row : Settled(row) => Settled(row)'
  BY AppliedGrows, SettledStays
<1>2. \A row \in chunk' : row \in chunk \/ Settled(row)'
  <2>1. CASE \E f \in File : Persist(f)
    BY <2>1, NewChunksSettled DEF Persist
  <2>2. CASE UNCHANGED chunk
    BY <2>2
  <2> QED
    BY <2>1, <2>2, OnlyPersistWrites
<1>3. \A row \in chunk' : Settled(row)'
  BY <1>1, <1>2 DEF RowsSettled
<1>4. \A m \in pending'["embedder"] : Settled(m.event.row)'
  BY <1>1, <1>3 DEF RowsSettled, EmbedderSources
<1>5. \A event \in dead'["embedder"] : Settled(event.row)'
  BY <1>1 DEF RowsSettled, EmbedderSources
<1> QED
  BY <1>3, <1>4, <1>5 DEF RowsSettled

(* Without a failure of the infrastructure the sinks dead-letter nothing, and
   the embedding worker (consumer.go, storeEmbedding) only an event whose chunk
   was replaced meanwhile or has its embedding. A chunk that was replaced does
   not come back: the rows of later commands are new ones. *)
THEOREM DeadLettersHideNothing == Spec => []DeadLetterHarmless
<1>1. Init => LetterInv
  <2> SUFFICES ASSUME Init PROVE LetterInv
    OBVIOUS
  <2>1. budget.faults = MaxFaults /\ MaxFaults \in Nat /\ chunk = {}
        /\ \A c \in Consumer : pending[c] = {} /\ dead[c] = {}
    BY StoreAssumption DEF Init, StoreInit, StoreAssumption
  <2> QED
    BY <2>1, Sorts DEF LetterInv, RowsSettled, FaultsSpent, DeadLetterHarmless
<1>2. Inv /\ Inv' /\ LetterInv /\ [Next]_vars => LetterInv'
  <2> SUFFICES ASSUME Inv, Inv', LetterInv, [Next]_vars PROVE LetterInv'
    OBVIOUS
  <2>1. StoreTypeOK /\ StoreTypeOK' /\ JobTypeOK
    BY DEF Inv
  <2>2. EmbedderSources /\ LettersOK
    <3>1. CASE UNCHANGED vars
      BY <2>1, <3>1, FaultLeft DEF vars, storeVars, EmbedderSources, LettersOK
    <3> QED
      BY <2>1, <3>1, StoreLetters, JobLetters DEF Next, StoreStep
  <2>3. RowsSettled'
    BY <2>1, <2>2, RowsSettledKept DEF LetterInv
  <2>4. /\ budget.faults \in Nat /\ budget'.faults \in Nat /\ MaxFaults \in Nat
        /\ budget.faults <= MaxFaults /\ budget'.faults <= budget.faults
    BY <2>1, <2>2, StoreAssumption
    DEF StoreTypeOK, StoreAssumption, LetterInv, FaultsSpent, LettersOK
  <2>5. FaultsSpent'
    BY <2>4 DEF FaultsSpent
  <2>6. ASSUME budget'.faults = MaxFaults
        PROVE  /\ \A s \in Sink : dead'[s] = {}
               /\ \A event \in dead'["embedder"] :
                    event.row \notin chunk' \/ event.row \in embedding'
    <3>1. budget.faults = MaxFaults /\ budget'.faults = budget.faults
      BY <2>4, <2>6
    <3>2. \A s \in Sink : dead'[s] = {}
      BY <2>2, <3>1 DEF LetterInv, DeadLetterHarmless, LettersOK
    <3>3. embedding \subseteq embedding'
      BY JobFrame
      DEF Next, StoreStep, StoreNext, Deliver, Persist, PersistRefused, SinkApplies,
          SinkSkips, SinkFails, StoreEmbedding, EmbedderSkips, EmbeddingRefused,
          EmbedderFails, PurgeMarkers, LoseDocument, tables, vars, storeVars
    <3>4. ASSUME NEW row, Settled(row), row \notin chunk PROVE row \notin chunk'
      <4>1. CASE \E f \in File : Persist(f)
        BY <2>1, <3>4, <4>1, NewChunksSettled DEF Persist
      <4> QED
        BY <3>4, <4>1, OnlyPersistWrites
    <3>5. ASSUME NEW event \in dead'["embedder"]
          PROVE  event.row \notin chunk' \/ event.row \in embedding'
      <4>1. event.row \notin chunk \/ event.row \in embedding
        BY <2>2, <3>1 DEF LetterInv, DeadLetterHarmless, LettersOK
      <4>2. Settled(event.row)
        BY <2>2 DEF LetterInv, RowsSettled, EmbedderSources
      <4> QED
        BY <3>3, <3>4, <4>1, <4>2
    <3> QED
      BY <3>2, <3>5
  <2> QED
    BY <2>3, <2>5, <2>6 DEF LetterInv, DeadLetterHarmless
<1>3. LetterInv => DeadLetterHarmless
  BY DEF LetterInv
<1> QED
  BY <1>1, <1>2, <1>3, Invariant, PTL DEF Spec
=============================================================================
