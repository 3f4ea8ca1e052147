-------------------------- MODULE MCPolicyControl --------------------------
(***************************************************************************)
(* PolicyControl on a small plane (Policy*.cfg): two places on a line and  *)
(* quarter turns; and what the parameter file and the command shaper say   *)
(* of it that it does not do.                                              *)
(***************************************************************************)
EXTENDS PolicyControl

TwoPlaces == {0, 1}
MCDist(p, q) == IF p = q THEN 0 ELSE 2
MCBearing(p, q) == IF q < p THEN -Half ELSE 0
MCLatErr(ref, p, a) ==
  IF a = 1 THEN ref - p ELSE IF a = -1 THEN p - ref ELSE 0

(* Stand still, walk, and turn while asking for reverse                    *)
SomeCommands == {[vx |-> 0, wz |-> 0], [vx |-> 1, wz |-> 0], [vx |-> -1, wz |-> 2]}

(* "stale /cmd_vel -> command zeroed (safe stop)" (policy.yaml:47).  The   *)
(* moving gate looks at the turn command that was received, which nothing  *)
(* zeroes: after a turn command the gait goes on.                          *)
StaleMeansStop ==
  (Ready /\ stale) ~> \/ published.kind # "gait" \/ Displaced
                      \/ ~Ready \/ ~stale

(* "beyond the deadband, face it then walk back" (command_shaper.hpp:90-91)*)
(* A robot that has to turn first is given a turn command and no forward   *)
(* one; the moving gate does not see it, and the robot stands for ever.    *)
FacesThenWalksBack ==
  (Ready /\ stale /\ shaper_.prev_stale /\ Displaced)
    ~> \/ published.kind = "gait" \/ missed > 0
       \/ ~Ready \/ ~stale \/ ~Displaced
=============================================================================
