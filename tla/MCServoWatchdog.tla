-------------------------- MODULE MCServoWatchdog --------------------------
(***************************************************************************)
(* ServoWatchdog on a small instance (Watchdog*.cfg), and what the host    *)
(* prints of its reports that they do not mean.                            *)
(***************************************************************************)
EXTENDS ServoWatchdog

(* "MCU servo watchdog triggered - no commands for %.0f ms"                *)
(* (hardware_bridge_node.cpp:385): commands had stopped for as long as the *)
(* report states.  A command stamped by the background thread after loop() *)
(* read the clock makes the unsigned difference wrap.                      *)
NoCommandsForStatedTime == reports > 0 => value <= silence
=============================================================================
