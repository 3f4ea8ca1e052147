------------------------ MODULE HardwareLaunchFiles ------------------------
(***************************************************************************)
(* The launch files of big_bertha_bringup, which run on the robot (and the *)
(* laptop beside it), entity by entity.  A component loaded into a         *)
(* container is a node like the others.                                    *)
(***************************************************************************)
EXTENDS SimLaunchFiles

\* Slips: the spawn pose of the simulator, one of three holds forgotten.
OriginOfSim == SpawnPose \o <<Declare("yaw", "0.0")>>
HoldsOffTwo == [heading_hold |-> F, position_hold |-> F]

WallTime == <<Declare("use_sim_time", "false")>>
Origin == <<Declare("x", "0.0"), Declare("y", "0.0"), Declare("yaw", "0.0")>>
HoldsOff == [heading_hold |-> F, position_hold |-> F, lateral_hold |-> F]

(* ---- hardware_bringup.launch.py ---- *)
HardwareBringupLaunch == WallTime \o <<
  Declare("params_file", "hardware_bridge.yaml"),
  Node("hardware_bridge", Pass({"params_file", "use_sim_time"})),
  Node("imu_filter_madgwick", Clock) >>

(* ---- big_bertha.launch.py ---- *)
BigBerthaArgs == <<
  Declare("mapping_autostart", "false"), Declare("slam", "true"),
  Declare("use_sim_time", "false"), Declare("map", "obstacle_world.yaml"),
  Declare("imu_topic", "/filtered/imu") >> \o Origin

BigBerthaControl == <<
  Include("rsp", Clock @@ [use_gz |-> F, publish_jsp |-> F]),
  Node("hardware_bridge", Clock @@ [params_file |-> Lit("hardware_bridge.yaml")]),
  Node("imu_filter_madgwick", Clock),
  Scoped(<<Include("policy_controller",
                   Pass({"use_sim_time", "imu_topic"}) @@ HoldsOff)>>),
  Include("legged_odometry", Pass({"imu_topic"})
          @@ [publish_joint_states |-> T, publish_tf |-> T]) >>

BigBerthaNavigation == <<
  If("slam", Include("slam", Pass({"use_sim_time", "x", "y", "yaw"})
                             @@ [autostart |-> Conf("mapping_autostart")])),
  Unless("slam", Include("localization",
                         Pass({"use_sim_time", "map", "x", "y", "yaw"})
                         @@ [localization |-> Lit("amcl")])),
  Node("scan_ground_filter", Pass({"use_sim_time", "imu_topic"})),
  Include("nav2", Clock) >>

BigBerthaLaunch == BigBerthaArgs \o BigBerthaControl \o BigBerthaNavigation

(* ---- composed_hardware.launch.py ---- *)
ComposedPolicy == Node("policy_controller",
  Pass({"use_sim_time", "imu_topic", "start_enabled"}) @@ HoldsOff
  @@ [params_file |-> Lit("policy.yaml"), model_path |-> Lit("policy.onnx")])

ComposedHardwareLaunch == WallTime \o <<
  Declare("imu_topic", "/filtered/imu"), Declare("start_enabled", "true"),
  Node("hardware_bridge", Clock @@ [params_file |-> Lit("hardware_bridge.yaml")]),
  Node("imu_filter_madgwick", Clock),
  Node("legged_odometry", Pass({"use_sim_time", "imu_topic"})
                          @@ [publish_joint_states |-> T, publish_tf |-> T]),
  ComposedPolicy,
  Node("scan_ground_filter", Pass({"use_sim_time", "imu_topic"})) >>

(* ---- composed_navigation.launch.py ---- *)
ComposedNavArgs == WallTime \o <<
  Declare("slam", "true"), Declare("map", ""), Declare("nav_speed", "0.29"),
  Declare("intra_process", "false") >>
  \o Origin \o <<Declare("mapping_autostart", "false")>>

\* A slip: the manager is not gated.
SlamContainerEager == <<
  If("slam", Node("slam_toolbox",
                  Pass({"use_sim_time", "x", "y", "yaw", "intra_process"}))),
  If("slam", Manager("lifecycle_manager_slam", T, <<"slam_toolbox">>)) >>
SlamContainer == <<
  If("slam", Node("slam_toolbox",
                  Pass({"use_sim_time", "x", "y", "yaw", "intra_process"}))),
  If("slam", Manager("lifecycle_manager_slam", Conf("mapping_autostart"),
                     <<"slam_toolbox">>)) >>

LocalizationContainer == <<
  Unless("slam", Node("map_server", Pass({"use_sim_time", "map", "intra_process"}))),
  Unless("slam", Node("amcl",
                      Pass({"use_sim_time", "x", "y", "yaw", "intra_process"}))),
  Unless("slam",
    Manager("lifecycle_manager_localization", T, <<"map_server", "amcl">>)) >>

\* A slip: both managers are gated.
NavContainerGated ==
  [i \in DOMAIN NavServers |->
     Node(NavServers[i], Pass({"use_sim_time", "nav_speed", "intra_process"})
                         @@ [params_file |-> Lit("nav2_params.yaml")])]
  \o <<Manager("lifecycle_manager_navigation", Conf("mapping_autostart"), NavServers)>>
NavContainer ==
  [i \in DOMAIN NavServers |->
     Node(NavServers[i], Pass({"use_sim_time", "nav_speed", "intra_process"})
                         @@ [params_file |-> Lit("nav2_params.yaml")])]
  \o <<Manager("lifecycle_manager_navigation", T, NavServers)>>

ComposedNavigationLaunch ==
  ComposedNavArgs \o SlamContainer \o LocalizationContainer \o NavContainer

(* ---- lidar.launch.py ---- *)
\* A slip: no respawn.
LidarLaunchOnce == WallTime \o <<
  Declare("params_file", "ydlidar_x2.yaml"), Declare("port", "/dev/ttyLIDAR"),
  Node("ydlidar_ros2_driver_node",
       Pass({"params_file", "use_sim_time", "port"}) @@ [respawn |-> F]) >>
LidarLaunch == WallTime \o <<
  Declare("params_file", "ydlidar_x2.yaml"), Declare("port", "/dev/ttyLIDAR"),
  Node("ydlidar_ros2_driver_node",
       Pass({"params_file", "use_sim_time", "port"}) @@ [respawn |-> T]) >>

(* ---- composed_stack.launch.py ---- *)
ComposedStackArgs == WallTime \o <<
  Declare("imu_topic", "/filtered/imu"), Declare("start_enabled", "true"),
  Declare("mapping_autostart", "false"), Declare("slam", "true"),
  Declare("map", ""), Declare("nav_speed", "0.29"),
  Declare("with_lidar", "true"), Declare("with_nav", "true") >> \o Origin

\* The description without Gazebo, its odometry or a joint publisher.
RspOnRobot == Include("rsp", Clock @@
  [use_gz |-> F, publish_odom |-> F, odom_tf |-> F, publish_jsp |-> F,
   sim_drive |-> F])

ComposedStackLaunch == ComposedStackArgs \o <<
  RspOnRobot,
  If("with_lidar", Include("lidar", Clock)),
  Include("composed_hardware",
          Pass({"use_sim_time", "imu_topic", "start_enabled"})),
  If("with_nav", Include("composed_navigation",
     Pass({"use_sim_time", "slam", "map", "nav_speed", "mapping_autostart",
           "x", "y", "yaw"}))) >>

(* ---- localization_demo.launch.py ---- *)
LocalizationDemoArgs ==
  <<Declare("map", "big_bertha_room.yaml")>> \o Origin \o <<
  Declare("start_enabled", "true"), Declare("with_lidar", "true"),
  Declare("nav_speed", "0.29") >>

LocalizationDemoLaunch == LocalizationDemoArgs \o <<
  Include("composed_stack",
          Pass({"map", "x", "y", "yaw", "start_enabled", "with_lidar", "nav_speed"})
          @@ [slam |-> F, with_nav |-> T]) >>

(* ---- minimal_hardware.launch.py ---- *)
MinimalHardwareLaunch == WallTime \o <<
  Declare("imu_topic", "/filtered/imu"), Declare("start_enabled", "true"),
  RspOnRobot,
  Include("hardware_bringup", Clock),
  Include("legged_odometry",
          Pass({"imu_topic"}) @@ [publish_joint_states |-> T]),
  Include("policy_controller",
          Pass({"use_sim_time", "imu_topic", "start_enabled"})) >>

(* ---- web_control.launch.py ---- *)
WebControlLaunch == WallTime \o <<
  Include("hardware_bringup", Clock),
  Include("legged_odometry", Clock @@ [imu_topic |-> Lit("/filtered/imu"),
                                       publish_joint_states |-> T]),
  Node("web_control_server", Clock) >>

(* ---- nav_rviz.launch.py ---- *)
NavRvizLaunch == WallTime \o <<
  Declare("rviz_config", "nav_hardware.rviz"),
  Node("rviz2", Pass({"use_sim_time", "rviz_config"})) >>
=============================================================================
