------------------------------- MODULE Promise -------------------------------
(***************************************************************************)
(* What a Future promises to those who call its result(): they are told    *)
(* the outcome as it is at some moment of the call, never before there is  *)
(* one, and surely once there is one.  The outcome of a repeated operation *)
(* may be replaced by a newer one, until it is a failure; and everything   *)
(* may be cancelled, for good.                                             *)
(***************************************************************************)
EXTENDS Naturals

CONSTANTS Reader, Version

VARIABLES
  outcome,  (* Its state and, if that is "successful", its value.            *)
  asking,   (* The readers that are calling result().                        *)
  told      (* told[r]: what r was told last.                                *)

vars == <<outcome, asking, told>>

Unfinished == [state |-> "unfinished", value |-> 0]
Successful(v) == [state |-> "successful", value |-> v]
Failed == [state |-> "failed", value |-> 0]
Cancelled == [state |-> "cancelled", value |-> 0]

Outcome ==
  {Unfinished, Failed, Cancelled} \cup {Successful(v) : v \in Version}

Init ==
  /\ outcome = Unfinished
  /\ asking = {}
  /\ told = [r \in Reader |-> Unfinished]

Open == outcome.state \in {"unfinished", "successful"}

Resolve(v) ==
  /\ Open
  /\ outcome.value <= v
  /\ outcome' = Successful(v)
  /\ UNCHANGED <<asking, told>>

Fail ==
  /\ Open
  /\ outcome' = Failed
  /\ UNCHANGED <<asking, told>>

Cancel ==
  /\ outcome' = Cancelled
  /\ UNCHANGED <<asking, told>>

Ask(r) ==
  /\ r \notin asking
  /\ asking' = asking \cup {r}
  /\ UNCHANGED <<outcome, told>>

Tell(r) ==
  /\ r \in asking
  /\ outcome # Unfinished
  /\ asking' = asking \ {r}
  /\ told' = [told EXCEPT ![r] = outcome]
  /\ UNCHANGED outcome

Next ==
  \/ \E v \in Version : Resolve(v)
  \/ Fail \/ Cancel
  \/ \E r \in Reader : Ask(r) \/ Tell(r)

Spec == Init /\ [][Next]_vars

FairSpec == Spec /\ \A r \in Reader : WF_vars(Tell(r))
=============================================================================
