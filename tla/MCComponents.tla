---------------------------- MODULE MCComponents ----------------------------
(***************************************************************************)
(* The two kinds of components that LegacyQueuedBase knows, for TLC: those *)
(* that take messages from an input queue (QueuedComponent), and those     *)
(* that publish iteratively (IterativePublishing, here as MispCollector).  *)
(* They share no variable, and no property is about variables of both; so  *)
(* in each behaviour only one of them leaves its initial state.            *)
(***************************************************************************)
EXTENDS QueuedComponent, MispCollector, TLC

CONSTANTS m1, m2, m3, e1, e2, s1, s2

(* One of the three messages cannot be processed. *)
ThreeMessages == {m1, m2, m3}
OneBad == {m2}

TwoEvents == {e1, e2}
TwoSamples == (e1 :> {s1}) @@ (e2 :> {s2})

allVars == <<vars, mispVars>>

QueuedRuns(A) == MispInit /\ A /\ UNCHANGED mispVars
MispRuns(A) == QueuedInit /\ A /\ UNCHANGED vars

MCInit == QueuedInit /\ MispInit
MCNext == QueuedRuns(QueuedNext) \/ MispRuns(MispNext)

(* QueuedFairness, and that of FairMispSpec. *)
MCFairness ==
  /\ WF_allVars(QueuedRuns(ComponentSteps))
  /\ WF_allVars(QueuedRuns(ComponentTimers))
  /\ WF_allVars(QueuedRuns(BrokerSteps))
  /\ \A m \in Msg : WF_allVars(QueuedRuns(Deliver(m)))
  /\ WF_allVars(MispRuns(RunSteps))
  /\ WF_allVars(MispRuns(IOLoop))

MCSpec == MCInit /\ [][MCNext]_allVars /\ MCFairness
=============================================================================
