---------------------------- MODULE AtLeastOnce ----------------------------
(***************************************************************************)
(* What the pipeline promises for one consumer group, with Kafka, offsets, *)
(* retry topics and replicas abstracted away (ADR-0022: "a crash ... may   *)
(* cause a repeated write, never a loss"): the broker owes the group a set *)
(* of events, the group settles events, and the broker may stop owing only *)
(* what has been settled.                                                  *)
(***************************************************************************)
CONSTANT Event

VARIABLES
  owed,   \* events the broker will still (re)deliver to the group
  done    \* events processed, discarded as invalid, or dead-lettered

vars == <<owed, done>>

Init == owed \subseteq Event /\ done = {}

(* The group finishes with an event it is owed. *)
Settle(e) == e \in owed /\ done' = done \cup {e} /\ UNCHANGED owed

(* Offsets advance: the broker forgets events, settled ones only. *)
Forget(E) == E \subseteq done /\ owed' = owed \ E /\ UNCHANGED done

(* Offsets move back or CDC publishes again: the broker owes more. *)
Recall(E) == owed' = owed \cup E /\ UNCHANGED done

Next ==
  \/ \E e \in Event : Settle(e)
  \/ \E E \in SUBSET Event : Forget(E) \/ Recall(E)

Spec == Init /\ [][Next]_vars
============================================================================
