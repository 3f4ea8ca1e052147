--------------------------- MODULE SimLaunchFiles ---------------------------
(***************************************************************************)
(* The launch files of big_bertha_sim_bringup and the ones it takes from   *)
(* big_bertha_description, big_bertha_policy_controller and leg_odometry.  *)
(* Every operator is one generate_launch_description(), entity by entity   *)
(* in the order of its list.                                               *)
(***************************************************************************)
EXTENDS LaunchEntities

T == Lit("true")
F == Lit("false")
Clock == Pass({"use_sim_time"})
SpawnPose == <<Declare("x", "-3.5"), Declare("y", "-3.5")>>

(* ---- big_bertha_description/launch/rsp.launch.py ---- *)
RspLaunch == <<
  Declare("use_sim_time", "true"), Declare("use_gz", "true"),
  Declare("publish_jsp", "false"), Declare("publish_odom", "true"),
  Declare("odom_tf", "true"), Declare("sim_drive", "false"),
  Node("robot_state_publisher",
       Pass({"use_sim_time", "use_gz", "publish_odom", "odom_tf", "sim_drive"})),
  If("publish_jsp", Node("joint_state_publisher", Clock)) >>

(* ---- big_bertha_policy_controller/launch/policy_controller.launch.py ---- *)
PolicyLaunch == <<
  Declare("use_sim_time", "false"), Declare("model_path", "policy.onnx"),
  Declare("params_file", "policy.yaml"), Declare("start_enabled", "true"),
  Declare("heading_lock", "false"), Declare("heading_lock_yaw", "0.0"),
  Declare("heading_hold", "true"), Declare("steer_kp", "1.8"),
  Declare("steer_max", "0.26"), Declare("lateral_hold", "true"),
  Declare("position_hold", "true"), Declare("imu_topic", "/imu"),
  Node("policy_controller",
       Pass({"params_file", "use_sim_time", "model_path", "start_enabled",
             "heading_lock", "heading_lock_yaw", "heading_hold", "steer_kp",
             "steer_max", "lateral_hold", "position_hold", "imu_topic"})) >>

(* ---- leg_odometry/launch/legged_odometry.launch.py ---- *)
LegOdometryLaunch == <<
  Declare("imu_topic", "/imu"), Declare("publish_joint_states", "true"),
  Declare("publish_tf", "false"),
  Node("legged_odometry",
       Pass({"imu_topic", "publish_joint_states", "publish_tf"})) >>

(* ---- ros_gz_sim/launch/gz_sim.launch.py, as simulation.launch.py uses it ---- *)
GzSimLaunch == <<
  Declare("on_exit_shutdown", "false"),
  Node("gz", Pass({"gz_args", "on_exit_shutdown"})) >>

(* ---- simulation/simulation.launch.py ---- *)
SimulationArgs == <<
  Declare("gui", "false"), Declare("world", "obstacle_world.sdf"),
  Declare("use_sim_time", "true"), Declare("spawn_controllers", "true"),
  Declare("odom_tf", "true"), Declare("sim_drive", "false") >>
  \o SpawnPose \o <<Declare("z", "0.12"), Declare("yaw", "0.0")>>

\* The spawners are started by events: the first when the process that
\* creates the robot exits, the second when the first exits.
Spawners == <<
  OnExit("spawn_big_bertha",
    <<If("spawn_controllers", Node("joint_state_broadcaster_spawner", NoArgs))>>),
  OnExit("joint_state_broadcaster_spawner",
    <<If("spawn_controllers", Node("position_controller_spawner", NoArgs))>>) >>

SimulationLaunch == SimulationArgs \o <<
  Include("rsp", Pass({"use_sim_time", "odom_tf", "sim_drive"})
                 @@ [use_gz |-> T, publish_odom |-> T]),
  Include("gz_sim", [gz_args |-> Lit("server"), on_exit_shutdown |-> T]),
  If("gui", Include("gz_sim", [gz_args |-> Lit("gui")])),
  Node("ros_gz_bridge", Clock),
  If("sim_drive", Node("cmd_vel_bridge", Clock)),
  Node("spawn_big_bertha", Pass({"x", "y", "z", "yaw"})) >> \o Spawners

(* ---- state_estimation/ekf.launch.py ---- *)
EkfLaunch == <<
  Declare("use_sim_time", "true"), Declare("ekf_config", "ekf.yaml"),
  Node("ekf_filter_node", Pass({"ekf_config", "use_sim_time"})) >>

(* ---- mapping/slam.launch.py ---- *)
SlamLaunch ==
  <<Declare("use_sim_time", "true"), Declare("autostart", "true"),
    Declare("slam_config", "slam_toolbox.yaml")>>
  \o SpawnPose \o
  <<Declare("yaw", "0.0"),
    Node("slam_toolbox", Pass({"slam_config", "use_sim_time", "x", "y", "yaw"})),
    Manager("lifecycle_manager_slam", Conf("autostart"), <<"slam_toolbox">>)>>

(* ---- localization/localization.launch.py ---- *)
UseAmcl(entity) == When("localization", "amcl", entity)
UseGroundTruthAlways(entity) == entity   \* a slip: the condition is forgotten
UseGroundTruth(entity) == When("localization", "ground_truth", entity)

LocalizationLaunch ==
  <<Declare("use_sim_time", "true"), Declare("amcl_config", "amcl.yaml"),
    Declare("map", "obstacle_world.yaml"), Declare("localization", "ground_truth")>>
  \o SpawnPose \o
  <<Declare("yaw", "0.0"),
    Node("map_server", Pass({"amcl_config", "use_sim_time", "map"})),
    UseAmcl(Node("amcl", Pass({"amcl_config", "use_sim_time", "x", "y", "yaw"}))),
    UseGroundTruth(Node("map_to_odom_ground_truth", Clock)),
    UseAmcl(Manager("lifecycle_manager_localization", T, <<"map_server", "amcl">>)),
    UseGroundTruth(
      Manager("lifecycle_manager_localization", T, <<"map_server">>))>>

(* ---- planning/nav2.launch.py ---- *)
NavServers == <<"controller_server", "smoother_server", "planner_server",
                "behavior_server", "bt_navigator">>

Nav2Launch ==
  <<Declare("use_sim_time", "true"), Declare("params_file", "nav2_params.yaml"),
    Declare("autostart", "true"), Declare("nav_speed", "0.29")>>
  \o [i \in DOMAIN NavServers |->
        Node(NavServers[i], Pass({"params_file", "use_sim_time", "nav_speed"}))]
  \o <<Manager("lifecycle_manager_navigation", Conf("autostart"), NavServers)>>

(* ---- visualization/rviz.launch.py and plotjuggler.launch.py ---- *)
RvizLaunch == <<
  Declare("config", "integration"), Declare("use_sim_time", "true"),
  Node("rviz2", Pass({"config", "use_sim_time"})) >>

PlotJugglerLaunch == <<
  Declare("layout", "control"), Node("plotjuggler", Pass({"layout"})) >>

(* ---- bringup.launch.py ---- *)
BringupArgs == <<
  Declare("slam", "false"), Declare("localization", "ground_truth"),
  Declare("nav_speed", "0.29"), Declare("rviz", "false"),
  Declare("rviz_config", "integration"), Declare("use_sim_time", "true"),
  Declare("gui", "false"), Declare("world", "obstacle_world.sdf"),
  Declare("sim_drive", "false"), Declare("map", "obstacle_world.yaml") >>
  \o SpawnPose \o <<Declare("z", "0.12"), Declare("yaw", "0.0")>>

\* A slip: no scope.
LocomotionUnscoped == Include("policy_controller", Clock)
\* Scoped, so that the params_file of the policy stays its own.
Locomotion == Scoped(<<Include("policy_controller", Clock)>>)

BringupLaunch == BringupArgs \o <<
  Include("simulation",
          Pass({"use_sim_time", "gui", "world", "sim_drive", "x", "y", "z", "yaw"})
          @@ [odom_tf |-> F, spawn_controllers |-> T]),
  Locomotion,
  Include("ekf", Clock),
  Node("scan_ground_filter", Clock),
  If("slam", Include("slam", Clock)),
  Unless("slam",
    Include("localization",
            Pass({"use_sim_time", "map", "localization", "x", "y", "yaw"}))),
  Include("nav2", Pass({"use_sim_time", "nav_speed"})),
  If("rviz", Include("rviz", Clock @@ [config |-> Conf("rviz_config")])) >>

(* ---- demo.launch.py ---- *)
\* A slip: the arguments of the patrol are read but not declared.
DemoArgsOneGoal == <<
  Declare("slam", "false"), Declare("localization", "ground_truth"),
  Declare("rviz", "true"), Declare("rviz_config", "integration"),
  Declare("goal_x", "3.5"), Declare("goal_y", "-3.5"),
  Declare("goal_delay", "20.0"), Declare("patrol", "false") >>
DemoArgs == <<
  Declare("slam", "false"), Declare("localization", "ground_truth"),
  Declare("rviz", "true"), Declare("rviz_config", "integration"),
  Declare("goal_x", "3.5"), Declare("goal_y", "-3.5"),
  Declare("goal_delay", "20.0"), Declare("patrol", "false"),
  Declare("goal2_x", "3.5"), Declare("goal2_y", "3.5"),
  Declare("goal3_x", "-3.5"), Declare("goal3_y", "3.5"),
  Declare("start_x", "-3.5"), Declare("start_y", "-3.5") >>

\* One goal, or the three of the patrol, goal_delay seconds from now.
DemoGoals == <<
  Unless("patrol", Timer(<<Node("send_goal", Pass({"goal_x", "goal_y"}))>>)),
  If("patrol", Timer(<<Node("send_patrol",
    Pass({"goal2_x", "goal2_y", "goal3_x", "goal3_y", "start_x", "start_y"}))>>)) >>

DemoLaunch == DemoArgs
  \o <<Include("bringup", Pass({"slam", "localization", "rviz", "rviz_config"})
                          @@ [use_sim_time |-> T])>>
  \o DemoGoals

(* ---- demo_straight.launch.py ---- *)
StraightArgs == <<
  Declare("gui", "false"), Declare("rviz", "true"), Declare("show_map", "true"),
  Declare("use_sim_time", "true"), Declare("speed", "0.29"), Declare("vy", "0.0"),
  Declare("hip_bias", "0.0"), Declare("cmd_delay", "12.0"),
  Declare("heading_hold", "true"), Declare("steer_kp", "1.8"),
  Declare("steer_max", "0.26"), Declare("lateral_hold", "true"),
  Declare("heading_lock", "true") >>
  \o SpawnPose \o <<Declare("z", "0.12"), Declare("yaw", "0.0")>>

\* The saved map of the arena, its manager, and the map to odom identity.
StraightMap == <<
  If("show_map", Node("map_server", Clock)),
  If("show_map", Manager("lifecycle_manager_map", T, <<"map_server">>)),
  If("show_map", Node("map_to_odom_static", NoArgs)) >>

StraightDrive == <<
  Timer(<<Node("drive_straight", Pass({"speed", "vy"}))>>),
  Timer(<<Node("drift_trim", Pass({"hip_bias"}))>>) >>

DemoStraightLaunch == StraightArgs \o <<
  Include("simulation",
          Pass({"use_sim_time", "gui", "x", "y", "z", "yaw"})
          @@ [odom_tf |-> T, sim_drive |-> F, spawn_controllers |-> T]),
  Scoped(<<Include("policy_controller",
    Pass({"use_sim_time", "heading_lock", "heading_hold", "steer_kp", "steer_max",
          "lateral_hold"}) @@ [heading_lock_yaw |-> Conf("yaw")])>>) >>
  \o StraightMap
  \o <<If("rviz", Include("rviz", Clock @@ [config |-> Lit("straight")]))>>
  \o StraightDrive
=============================================================================
