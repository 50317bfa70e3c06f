-------------------------- MODULE MCThreadedPusher --------------------------
(* ThreadedPusher for model checking: one thread that pushes and one that shuts
   the pusher down, told apart, for the sake of the liveness properties. *)
EXTENDS ThreadedPusher

CONSTANTS p1, c1
OnePusher == {p1}
OneCloser == {c1}
=============================================================================
