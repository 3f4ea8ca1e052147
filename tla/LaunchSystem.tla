--------------------------- MODULE LaunchSystem ---------------------------
(***************************************************************************)
(* What `ros2 launch` makes of the launch files of the repository, and     *)
(* what the processes it starts do until the stack is up: the configuration*)
(* that declarations and includes fill, the scopes, the timers and exit    *)
(* handlers, the lifecycle managers, the operator's start_mapping.sh and   *)
(* the lidar driver that is started again whenever its port disappears.    *)
(* An included file shares the configuration of the file including it: a   *)
(* declaration only sets what is unset, so a value set once is seen by     *)
(* every file visited later, unless a scope takes it back.                 *)
(***************************************************************************)
EXTENDS HardwareLaunchFiles, Naturals, FiniteSets

CONSTANT Invocations    \* [root: a file, args: its arguments]

VARIABLES launched,     \* the invocation
          conf,         \* launch configurations set so far
          agenda,       \* entities still to visit
          saved,        \* configurations of the enclosing scopes
          deferred,     \* timers and exit handlers
          running,      \* processes with the parameters they were given
          exited,       \* exit status of the one-shot processes
          serving,      \* lifecycle managers that advertise manage_nodes
          ready,        \* ... and have discovered their nodes
          active,       \* lifecycle nodes brought up
          script,       \* scripts/start_mapping.sh
          port, lidar   \* the serial port and the lidar driver

visit == <<conf, agenda, saved, deferred, running>>
stack == <<exited, serving, ready, active, script, port, lidar>>
vars == <<launched, visit, stack>>

File == [rsp |-> RspLaunch, policy_controller |-> PolicyLaunch,
         legged_odometry |-> LegOdometryLaunch, gz_sim |-> GzSimLaunch,
         simulation |-> SimulationLaunch, ekf |-> EkfLaunch, slam |-> SlamLaunch,
         localization |-> LocalizationLaunch, nav2 |-> Nav2Launch,
         rviz |-> RvizLaunch, plotjuggler |-> PlotJugglerLaunch,
         bringup |-> BringupLaunch, demo |-> DemoLaunch,
         demo_straight |-> DemoStraightLaunch,
         hardware_bringup |-> HardwareBringupLaunch, lidar |-> LidarLaunch,
         big_bertha |-> BigBerthaLaunch,
         composed_hardware |-> ComposedHardwareLaunch,
         composed_navigation |-> ComposedNavigationLaunch,
         composed_stack |-> ComposedStackLaunch,
         localization_demo |-> LocalizationDemoLaunch,
         minimal_hardware |-> MinimalHardwareLaunch,
         web_control |-> WebControlLaunch, nav_rviz |-> NavRvizLaunch]

Init ==
  /\ launched \in Invocations
  /\ conf = launched.args /\ agenda = File[launched.root]
  /\ saved = <<>> /\ deferred = {} /\ running = {}
  /\ exited = [p \in {} |-> "ok"]
  /\ serving = {} /\ ready = {} /\ active = {}
  /\ script = "idle" /\ port = TRUE /\ lidar = "starting"

Named(name) == {p \in running : p.name = name}
IsUp(name) == Named(name) # {}
Evaluated(args) == [a \in DOMAIN args |-> Value(args[a], conf)]

(* ---- visiting the description ---- *)
Heading(op) == agenda # <<>> /\ Head(agenda).op = op
Rest == Tail(agenda)
LeaveScope == [op |-> "leave"]

VisitDeclare ==
  /\ Heading("declare")
  /\ conf' = conf @@ (Head(agenda).arg :> Head(agenda).default)
  /\ agenda' = Rest
  /\ UNCHANGED <<launched, saved, deferred, running, stack>>

VisitInclude ==
  /\ Heading("include")
  /\ conf' = Evaluated(Head(agenda).args) @@ conf
  /\ agenda' = File[Head(agenda).file] \o Rest
  /\ UNCHANGED <<launched, saved, deferred, running, stack>>

VisitScoped ==
  /\ Heading("scoped")
  /\ saved' = <<conf>> \o saved
  /\ agenda' = Head(agenda).body \o <<LeaveScope>> \o Rest
  /\ UNCHANGED <<launched, conf, deferred, running, stack>>

VisitLeave ==
  /\ Heading("leave")
  /\ conf' = Head(saved) /\ saved' = Tail(saved) /\ agenda' = Rest
  /\ UNCHANGED <<launched, deferred, running, stack>>

VisitNode ==
  /\ Heading("node")
  /\ running' = running \cup
       {[name |-> Head(agenda).name, par |-> Evaluated(Head(agenda).params)]}
  /\ agenda' = Rest
  /\ UNCHANGED <<launched, conf, saved, deferred, stack>>

VisitWhen ==
  /\ Heading("when")
  /\ agenda' = IF conf[Head(agenda).arg] = Head(agenda).value
               THEN <<Head(agenda).then>> \o Rest ELSE Rest
  /\ UNCHANGED <<launched, conf, saved, deferred, running, stack>>

\* A timer waits for "time", a handler for the exit of its target.
VisitHandler ==
  /\ Heading("timer") \/ Heading("onexit")
  /\ deferred' = deferred \cup
       {[on |-> IF Heading("timer") THEN "time" ELSE Head(agenda).target,
         body |-> Head(agenda).body]}
  /\ agenda' = Rest
  /\ UNCHANGED <<launched, conf, saved, running, stack>>

Visit == \/ VisitDeclare \/ VisitInclude \/ VisitScoped \/ VisitLeave
         \/ VisitNode \/ VisitWhen \/ VisitHandler

(* ---- events, handled once the visit is over ---- *)
Visited == agenda = <<>>

Handle(d) == agenda' = d.body /\ deferred' = deferred \ {d}

TimerFires ==
  /\ Visited
  /\ \E d \in deferred : d.on = "time" /\ Handle(d)
  /\ UNCHANGED <<launched, conf, saved, running, stack>>

OneShot == {"spawn_big_bertha", "joint_state_broadcaster_spawner",
            "position_controller_spawner"}

\* The handlers of a process run whatever its exit status.
ProcessExits(p, status) ==
  /\ Visited /\ IsUp(p) /\ p \notin DOMAIN exited
  /\ exited' = exited @@ (p :> status)
  /\ \/ \E d \in deferred : d.on = p /\ Handle(d)
     \/ (\A d \in deferred : d.on # p) /\ UNCHANGED <<agenda, deferred>>
  /\ UNCHANGED <<launched, conf, saved, running, serving, ready, active, script,
                 port, lidar>>

(* ---- lifecycle managers ---- *)
Managers == {p \in running : "node_names" \in DOMAIN p.par}
Managed(m) == {m.par.node_names[i] : i \in DOMAIN m.par.node_names}

ManagerServes(m) ==
  /\ Visited /\ serving' = serving \cup {m.name}
  /\ UNCHANGED <<launched, visit, exited, ready, active, script, port, lidar>>

\* The managed nodes are discovered some time later.
NodesFound(m) ==
  /\ m.name \in serving /\ \A n \in Managed(m) : IsUp(n)
  /\ ready' = ready \cup {m.name}
  /\ UNCHANGED <<launched, visit, exited, serving, active, script, port, lidar>>

Autostart(m) ==
  /\ m.name \in ready /\ m.par.autostart = "true"
  /\ active' = active \cup Managed(m)
  /\ UNCHANGED <<launched, visit, exited, serving, ready, script, port, lidar>>

(* ---- scripts/start_mapping.sh, run and run again by the operator ---- *)
SlamManager == "lifecycle_manager_slam"

ScriptStart ==
  /\ script \in {"idle", "failed"}
  /\ script' = IF "slam_toolbox" \in active THEN "done" ELSE "waiting"
  /\ UNCHANGED <<launched, visit, exited, serving, ready, active, port, lidar>>

\* Wait for the service; the deadline counts only while it is missing.
ScriptWait ==
  /\ script = "waiting"
  /\ script' = IF SlamManager \in serving THEN "calling" ELSE "failed"
  /\ UNCHANGED <<launched, visit, exited, serving, ready, active, port, lidar>>

\* A slip: the answer of the service is not looked at.
ScriptCallBlind ==
  /\ script = "calling" /\ script' = "done"
  /\ active' = active \cup (IF SlamManager \in ready THEN {"slam_toolbox"} ELSE {})
  /\ UNCHANGED <<launched, visit, exited, serving, ready, port, lidar>>
\* The manager refuses STARTUP until it knows its node; retried until the deadline.
ScriptCall ==
  /\ script = "calling" /\ SlamManager \in ready
  /\ active' = active \cup {"slam_toolbox"} /\ script' = "done"
  /\ UNCHANGED <<launched, visit, exited, serving, ready, port, lidar>>

ScriptGivesUp ==
  /\ script = "calling" /\ SlamManager \notin ready
  /\ script' = "failed"
  /\ UNCHANGED <<launched, visit, exited, serving, ready, active, port, lidar>>

Script == ScriptStart \/ ScriptWait \/ ScriptCall \/ ScriptGivesUp

(* ---- the lidar driver ---- *)
LidarDriver == "ydlidar_ros2_driver_node"

PortChanges ==
  /\ Visited /\ IsUp(LidarDriver) /\ port' = ~port
  /\ UNCHANGED <<launched, visit, exited, serving, ready, active, script, lidar>>

LidarOpens ==
  /\ Visited /\ IsUp(LidarDriver) /\ port /\ lidar = "starting"
  /\ lidar' = "scanning"
  /\ UNCHANGED <<launched, visit, exited, serving, ready, active, script, port>>

LidarExits ==
  /\ Visited /\ IsUp(LidarDriver) /\ ~port /\ lidar \in {"starting", "scanning"}
  /\ lidar' = "exited"
  /\ UNCHANGED <<launched, visit, exited, serving, ready, active, script, port>>

Respawn ==
  /\ lidar = "exited" /\ \A p \in Named(LidarDriver) : p.par.respawn = "true"
  /\ lidar' = "starting"
  /\ UNCHANGED <<launched, visit, exited, serving, ready, active, script, port>>

Bringup == \/ Visit \/ TimerFires
           \/ \E p \in OneShot, status \in {"ok", "failed"} : ProcessExits(p, status)
           \/ \E m \in Managers : ManagerServes(m) \/ NodesFound(m) \/ Autostart(m)
Lidar == LidarOpens \/ LidarExits \/ Respawn
Next == Bringup \/ Script \/ PortChanges \/ Lidar
Spec == Init /\ [][Next]_vars

\* Launch visits and handles its events, processes come up and exit, and the
\* operator runs the script again until it succeeds.
FairSpec ==
  /\ Spec
  /\ WF_vars(Visit) /\ WF_vars(TimerFires)
  /\ \A p \in OneShot : WF_vars(\E s \in {"ok", "failed"} : ProcessExits(p, s))
  /\ \A name \in {"lifecycle_manager_slam", "lifecycle_manager_navigation",
                   "lifecycle_manager_localization", "lifecycle_manager_map"} :
       WF_vars(\E m \in Named(name) : ManagerServes(m) \/ NodesFound(m) \/ Autostart(m))
  /\ WF_vars(Script) /\ WF_vars(Lidar)

-----------------------------------------------------------------------------
(* ---- roles: who publishes what ---- *)
Has(p, param, value) == param \in DOMAIN p.par /\ p.par[param] = value
Simulated == IsUp("gz")
OnRobot == IsUp("hardware_bridge")
Navigates == IsUp("lifecycle_manager_navigation")

\* odom to base_link: the EKF, leg odometry, or the model inside Gazebo.
OdomOwners ==
  Named("ekf_filter_node")
  \cup {p \in Named("legged_odometry") : Has(p, "publish_tf", "true")}
  \cup {p \in Named("robot_state_publisher") :
         \A a \in {"use_gz", "publish_odom", "odom_tf"} : Has(p, a, "true")}

MapOwners == UNION {Named(n) : n \in {"slam_toolbox", "amcl",
                      "map_to_odom_ground_truth", "map_to_odom_static"}}

JointSources ==
  Named("joint_state_broadcaster_spawner") \cup Named("joint_state_publisher")
  \cup {p \in Named("legged_odometry") : Has(p, "publish_joint_states", "true")}

(* ---- properties ---- *)
\* Every launch configuration is set before the entity that reads it is visited
\* (launch aborts on a LaunchConfiguration that is not): nothing depends on an
\* argument that only another entry point declares.
Resolved ==
  LET e == Head(agenda) IN
  agenda # <<>> =>
    CASE e.op = "when" -> e.arg \in DOMAIN conf
      [] e.op = "node" -> UNION {Reads(e.params[a]) : a \in DOMAIN e.params}
                            \subseteq DOMAIN conf
      [] e.op = "include" -> UNION {Reads(e.args[a]) : a \in DOMAIN e.args}
                               \subseteq DOMAIN conf
      [] OTHER -> TRUE

\* Each of the transforms odom to base_link and map to odom has at most one
\* publisher under every entry point and argument, and exactly one where Nav2
\* runs: mapping or localization, never both; EKF, leg odometry or Gazebo.  So
\* has /joint_states: the broadcaster in Gazebo, leg odometry on the robot, where
\* a second source would close a feedback loop around the policy.
OneOwnerEach ==
  /\ Cardinality(OdomOwners) <= 1 /\ Cardinality(MapOwners) <= 1
  /\ Cardinality(JointSources) <= 1
  /\ Visited /\ Navigates => OdomOwners # {} /\ MapOwners # {}
  /\ Visited /\ OnRobot => JointSources = Named("legged_odometry")

HoldsAreOff(p) ==
  \A a \in {"heading_hold", "position_hold", "lateral_hold"} : Has(p, a, "false")
RightClock(p) ==
  /\ Simulated => Has(p, "use_sim_time", "true")
  /\ OnRobot => Has(p, "use_sim_time", "false")
RightImu(p) ==
  Has(p, "imu_topic", IF IsUp("imu_filter_madgwick") THEN "/filtered/imu" ELSE "/imu")

\* Every node that takes them is on the clock and the IMU of the world it is in:
\* /clock and /imu in Gazebo, wall time and the filtered IMU on the robot; and
\* the policy of the robot never runs the loops that close on an odometry without
\* absolute yaw (minimal_hardware.launch.py, without Nav2, leaves them on).
MatchesWorld ==
  Visited => \A p \in running :
    /\ "use_sim_time" \in DOMAIN p.par => RightClock(p)
    /\ "imu_topic" \in DOMAIN p.par => RightImu(p)
    /\ OnRobot /\ p.name = "policy_controller" =>
         HoldsAreOff(p) \/ launched.root = "minimal_hardware"

\* The parameter file each node is meant to load.
OwnFile == [policy_controller |-> "policy.yaml",
            hardware_bridge |-> "hardware_bridge.yaml",
            ydlidar_ros2_driver_node |-> "ydlidar_x2.yaml"]
           @@ [n \in {NavServers[i] : i \in DOMAIN NavServers} |-> "nav2_params.yaml"]
OwnFiles(names) ==
  \A n \in names : \A p \in Named(n) : Has(p, "params_file", OwnFile[n])

\* Several launch files call their parameter file params_file; no node loads the
\* file of another.  minimal_hardware.launch.py is the exception for the policy.
FilesStayHome ==
  OwnFiles(DOMAIN OwnFile \ IF launched.root = "minimal_hardware"
                             THEN {"policy_controller"} ELSE {})

\* Mapping and AMCL start from the pose the robot was spawned at, or the pose
\* asked for on the robot, never from the spawn pose of the simulator there.
Given(a, default) ==
  IF a \in DOMAIN launched.args THEN launched.args[a] ELSE default
SeedsMatchStart ==
  \A p \in Named("slam_toolbox") \cup Named("amcl"), a \in {"x", "y", "yaw"} :
    IF Simulated
    THEN \A robot \in Named("spawn_big_bertha") : p.par[a] = robot.par[a]
    ELSE p.par[a] = Given(a, "0.0")

\* On the robot mapping starts by itself only when asked to; otherwise it waits
\* for the operator's script, whatever order managers and nodes come up in.
MappingWaitsForOperator ==
  OnRobot /\ "slam_toolbox" \in active =>
    script = "done" \/ Given("mapping_autostart", "false") = "true"

NavActive == {NavServers[i] : i \in DOMAIN NavServers} \subseteq active

\* big_bertha.launch.py hands mapping_autostart on as `autostart`, which Nav2
\* reads too.
GatedWithMapping ==
  /\ launched.root = "big_bertha" /\ Given("slam", "true") = "true"
  /\ Given("mapping_autostart", "false") = "false"

\* Whatever is launched with Nav2 brings its servers up without an operator.
NavStarts == Navigates ~> NavActive
NavComesUp == ~GatedWithMapping /\ Navigates ~> NavActive

\* An operator who runs start_mapping.sh until it succeeds gets a live map, even
\* if the manager's service or the node it manages appears late.
OperatorStartsMapping == IsUp(SlamManager) ~> "slam_toolbox" \in active

\* Once the lidar's port stays, scans come back and stay.
ScanComesBack == <>[](port /\ IsUp(LidarDriver)) => <>[](lidar = "scanning")
=============================================================================
