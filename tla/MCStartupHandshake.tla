------------------------- MODULE MCStartupHandshake -------------------------
(***************************************************************************)
(* StartupHandshake on small instances (Startup*.cfg), and what a comment  *)
(* of leg_odometry says of it that it does not do.                         *)
(***************************************************************************)
EXTENDS StartupHandshake

(* "Initial /joint_states publish breaks the policy<->leg_odometry         *)
(* deadlock" and "The stop condition is have_cmd_ alone"                   *)
(* (legged_odometry_node.cpp:134-143): two nodes that stay up get past     *)
(* each other's gates.  have_cmd_ belongs to leg_odometry's life, not to   *)
(* the policy's: a policy that restarts, or that starts after web_control  *)
(* has sent a command and gone, finds the timer cancelled for good.        *)
DeadlockBroken ==
  <>[](leg = "up" /\ policy = "up") => <>[]have_joints_
=============================================================================
