----------------------------- MODULE AtLeastOnce -----------------------------
(***************************************************************************)
(* What a pipeline component promises to its neighbours: a message leaves  *)
(* its input queue for good only when every part of its output has been    *)
(* published, or when it has been buried in the dead-letter queue.  Some   *)
(* output may be published more than once.                                 *)
(***************************************************************************)
CONSTANTS
  Msg, Part,  (* The messages, and the parts of the output of each.          *)
  Bad         (* Those that may be buried.                                  *)

VARIABLES
  waiting,    (* The messages that are still in the input queue.            *)
  produced    (* The <<message, part>> pairs already published.             *)

vars == <<waiting, produced>>

Init == waiting = Msg /\ produced = {}

Produce(m, p) ==
  /\ m \in waiting
  /\ produced' = produced \cup {<<m, p>>}
  /\ UNCHANGED waiting

Done(m) ==
  /\ m \in waiting
  /\ {m} \X Part \subseteq produced
  /\ waiting' = waiting \ {m}
  /\ UNCHANGED produced

Bury(m) ==
  /\ m \in waiting \cap Bad
  /\ waiting' = waiting \ {m}
  /\ UNCHANGED produced

Next ==
  \E m \in Msg : (\E p \in Part : Produce(m, p)) \/ Done(m) \/ Bury(m)

Spec == Init /\ [][Next]_vars

=============================================================================
