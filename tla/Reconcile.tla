----------------------------- MODULE Reconcile -----------------------------
(***************************************************************************)
(* tools/reconcile beside the pipeline: the job reads the rows of one      *)
(* table, asks the view for each of them, and publishes again, through the *)
(* outbox, every row the view does not show as expected. Nothing is locked *)
(* between the three steps: the pipeline moves in between.                 *)
(***************************************************************************)
EXTENDS CanonicalStore

CONSTANTS
  Target,      \* the targets the operator runs the job for
  MaxRepublish \* bound: rows published again

ASSUME ReconcileAssumption ==
  /\ Target \subseteq {"neo4j", "qdrant", "opensearch"}
  /\ MaxRepublish \in Nat

(* The view a target compares with; its rows come from SourceRows(ViewOf). *)
ViewOf(t) == CASE t = "neo4j" -> "graph"
               [] t = "qdrant" -> "vector"
               [] t = "opensearch" -> "search"

(* The consumers of the topic a republished row is routed to. *)
Readers(t) == CASE t = "neo4j" -> {"graph"}
                [] t = "qdrant" -> {"vector"}
                [] t = "opensearch" -> {"search", "embedder"}

VARIABLES
  target,      \* target of the job in progress, or "none"
  todo,        \* rows of the snapshot not looked at yet
  mismatched,  \* the row whose check just failed: at most one
  repaired,    \* history: <<target, row>> the reports count as Republished
  republished  \* rows published again so far

jobVars == <<target, todo, mismatched, repaired, republished>>
vars == <<storeVars, jobVars>>

Init ==
  /\ StoreInit
  /\ target = "none" /\ todo = {} /\ mismatched = {}
  /\ repaired = {} /\ republished = 0

(* target.SourceRows *)
StartJob(t) ==
  /\ target = "none"
  /\ target' = t
  /\ todo' = SourceRows(ViewOf(t))
  /\ UNCHANGED <<storeVars, mismatched, repaired, republished>>

(* target.Check: the document is there with the fingerprint of the row, the
   ast_hash, the text or the node id. The last two never change under one id. *)
Matches(t, row) == row \in view[ViewOf(t)]

CheckMatches(row) ==
  /\ mismatched = {}
  /\ row \in todo
  /\ Matches(target, row)
  /\ todo' = todo \ {row}
  /\ UNCHANGED <<storeVars, target, mismatched, repaired, republished>>

CheckFails(row) ==
  /\ mismatched = {}
  /\ row \in todo
  /\ ~Matches(target, row)
  /\ todo' = todo \ {row}
  /\ mismatched' = {row}
  /\ UNCHANGED <<storeVars, target, repaired, republished>>

(* The row as it is now, read in the transaction of the outbox insert. *)
CurrentRow(t, row) ==
  IF t = "neo4j" THEN {r \in NodeRows : r.entity = row.entity}
  ELSE {row} \cap SourceRows(ViewOf(t))

(* Faulty variant: the event published first, published again as it was. *)
RepublishSameEvent(row) ==
  /\ mismatched = {row}
  /\ republished < MaxRepublish
  /\ \E current \in CurrentRow(target, row) :
       /\ pending' = [c \in Consumer |->
            IF c \in Readers(target)
            THEN pending[c] \cup Fresh({
                   IF target = "qdrant" THEN Event(current, "embedder", 0)
                   ELSE Event(current, "persist", current.serial)})
            ELSE pending[c]]
       /\ repaired' = repaired \cup {<<target, current>>}
  /\ republished' = republished + 1
  /\ mismatched' = {}
  /\ UNCHANGED <<applied, outcome, node, chunk, embedding, marker, dead, view,
                 lost, budget, target, todo>>

Republish(row) ==
  /\ mismatched = {row}
  /\ republished < MaxRepublish
  /\ \E current \in CurrentRow(target, row) :
       /\ pending' = [c \in Consumer |->
            IF c \in Readers(target)
            THEN pending[c] \cup Fresh({Event(current, target, republished)})
            ELSE pending[c]]
       /\ repaired' = repaired \cup {<<target, current>>}
  /\ republished' = republished + 1
  /\ mismatched' = {}
  /\ UNCHANGED <<applied, outcome, node, chunk, embedding, marker, dead, view,
                 lost, budget, target, todo>>

(* The row is gone, or PostgreSQL or the view does not answer: the row is
   reported in Errored and the job goes on with the next one. *)
RowErrored(row) ==
  /\ \/ /\ mismatched = {} /\ row \in todo
        /\ Spend("faults")
     \/ /\ mismatched = {row}
        /\ \/ CurrentRow(target, row) = {} /\ UNCHANGED budget
           \/ Spend("faults")
  /\ todo' = todo \ {row}
  /\ mismatched' = {}
  /\ UNCHANGED <<applied, outcome, node, chunk, embedding, marker, pending, dead,
                 view, lost, target, repaired, republished>>

(* The report is printed and the process exits; it may also be killed. *)
EndJob ==
  /\ target # "none"
  /\ \/ todo = {} /\ mismatched = {} /\ UNCHANGED budget
     \/ Spend("faults")
  /\ target' = "none" /\ todo' = {} /\ mismatched' = {}
  /\ UNCHANGED <<applied, outcome, node, chunk, embedding, marker, pending, dead,
                 view, lost, repaired, republished>>

JobStep ==
  \/ \E t \in Target : StartJob(t)
  \/ \E row \in todo \cup mismatched :
       CheckMatches(row) \/ CheckFails(row) \/ Republish(row) \/ RowErrored(row)
  \/ EndJob

(* A document the view loses after its repair is not repaired any more. *)
StoreStep ==
  /\ StoreNext
  /\ repaired' = {p \in repaired :
       DocumentKey(ViewOf(p[1]), p[2]) \notin lost'[ViewOf(p[1])]
       \/ DocumentKey(ViewOf(p[1]), p[2]) \in lost[ViewOf(p[1])]}
  /\ UNCHANGED <<target, todo, mismatched, republished>>

Next == StoreStep \/ JobStep
Spec == Init /\ [][Next]_vars

-----------------------------------------------------------------------------
(* Properties *)

(* What reconciliation is for: once the topics are drained, a row reported as
   Republished is in the view, unless its event was dead-lettered or the view
   lost the document again. *)
RepairArrives ==
  \A p \in repaired :
    LET s == ViewOf(p[1])
        key == DocumentKey(s, p[2])
    IN  /\ pending[s] = {}
        /\ \A event \in dead[s] : DocumentKey(s, event.row) # key
        => \E d \in view[s] : DocumentKey(s, d) = key

(* Consumers keep consuming. *)
Consume == StoreStep /\ Deliver
FairSpec == Spec /\ WF_vars(Consume)

(* Every chunk gets its embedding, unless it is replaced before, or its event
   is dead-lettered after MaxRetries failures. *)
EventuallyEmbedded ==
  \A f \in File : \A n \in Number(f) : \A ch \in Queue[f][n].chunks :
    LET row == ChunkRow(ch[1], ch[2], n)
    IN  row \in chunk ~> \/ row \notin chunk
                         \/ row \in embedding
                         \/ DeadLettered("embedder", row)
=============================================================================
