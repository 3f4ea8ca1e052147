--------------------------- MODULE MCLaunchSystem ---------------------------
(***************************************************************************)
(* Every entry point of the repository with the arguments that change what *)
(* it starts.                                                              *)
(***************************************************************************)
EXTENDS LaunchSystem

Flag == {"true", "false"}
Launch(root, argsets) == [root : {root}, args : argsets]

MCInvocations == UNION {
  Launch("bringup", [slam : Flag, localization : {"amcl", "ground_truth"},
                     rviz : Flag, gui : Flag, x : {"-3.5", "1.0"}]),
  Launch("demo", [slam : Flag, patrol : Flag, localization : {"amcl", "ground_truth"}]),
  Launch("demo_straight", [show_map : Flag, rviz : {"false"}, yaw : {"0.0", "1.57"}]),
  Launch("simulation", [sim_drive : Flag, spawn_controllers : Flag]),
  Launch("big_bertha", [slam : Flag, mapping_autostart : Flag, x : {"0.0", "2.0"}]),
  Launch("composed_stack", [slam : Flag, mapping_autostart : Flag,
                            with_lidar : Flag, with_nav : Flag]),
  Launch("localization_demo", [with_lidar : Flag, x : {"2.0"}]),
  Launch("minimal_hardware", [start_enabled : Flag]),
  {[root |-> r, args |-> NoArgs] : r \in
     {"big_bertha", "web_control", "lidar", "nav_rviz", "plotjuggler", "rviz"}}}

MCBigBertha == {[root |-> "big_bertha", args |-> NoArgs]}
=============================================================================
