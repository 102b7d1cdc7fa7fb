-------------------------- MODULE MCSessionTimeline --------------------------
(* SessionTimeline at two frames a tick. *)
EXTENDS SessionTimeline, TLC

CONSTANT one

TwoFrames == "own" :> 2 @@ "half" :> 1 @@ "shared" :> 2
=============================================================================
