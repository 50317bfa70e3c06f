--------------------------- MODULE PublishingQueue ---------------------------
(***************************************************************************)
(* What AMQPThreadedPusher promises to those who push messages to it:      *)
(* every accepted message is dealt with, in the order of acceptance, and   *)
(* once a shutdown() has returned without an exception nothing is left     *)
(* undone and nothing more is accepted.                                    *)
(***************************************************************************)
EXTENDS Naturals

VARIABLES
  accepted,  (* The number of messages accepted by push().                  *)
  settled,   (* The number of those already dealt with: published, refused
                by the serializer, or reported as failures.                 *)
  closed     (* Whether some shutdown() has returned without an exception.  *)

vars == <<accepted, settled, closed>>

Init == accepted = 0 /\ settled = 0 /\ closed = FALSE

Accept ==
  /\ ~closed
  /\ accepted' = accepted + 1
  /\ UNCHANGED <<settled, closed>>

Settle ==
  /\ settled < accepted
  /\ settled' = settled + 1
  /\ UNCHANGED <<accepted, closed>>

Close ==
  /\ settled = accepted
  /\ closed' = TRUE
  /\ UNCHANGED <<accepted, settled>>

Next == Accept \/ Settle \/ Close

Spec == Init /\ [][Next]_vars

=============================================================================
