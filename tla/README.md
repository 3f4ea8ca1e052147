# TLA+ models of the Big Bertha spider robot stack

This directory holds TLA+ specifications of the parts of the repository whose
correctness depends on the order in which things happen: the firmware sketch on
the microcontroller, the link between it and the host, the ROS 2 nodes on the
host, the exploration scripts, and how the launch files start it all together.
TLC checks the specifications on small
instances; TLAPS proves the main safety properties for every value of the
constants. `PROJECT.json` maps every definition to the lines it models.

Short names used below: *sketch* is
`big_bertha_bringup/firmware/hardware_bridge_app/sketch/sketch.ino`, *client* is
`big_bertha_bringup/src/bridge_rpc_client.hpp`, *bridge* is
`big_bertha_bringup/src/hardware_bridge_node.cpp`, *policy* is
`big_bertha_policy_controller/src/policy_controller_node.cpp`, *shaper* is
`big_bertha_policy_controller/include/big_bertha_policy_controller/command_shaper.hpp`,
*leg_odometry* is
`leg_odometry/src/legged_odometry_node.cpp`, *web_control* is
`big_bertha_bringup/firmware/web_control/server.py`, *explorer* is
`big_bertha_sim_bringup/scripts/frontier_explore.py`, *frontier_lib* is
`frontier_lib.py` beside it.

## 1. Inventory

### 1.1 Components

| Component | State | Operations | Talks to |
|---|---|---|---|
| Sketch, servo path | `g_pwm`, `g_pwm_dirty`, the snapshot of `pca9685_write_servos`, `g_diag_pending/phase`, `g_i2c_fail_count`, the Wire transmit buffer; registers and sleep bit of the PCA9685 | `set_servo_pwms`, `on_scan_i2c`, `on_servo_diag` (background thread); deferred write, diagnostic, IMU read, 1 Hz health check (`loop`) | client over arduino-router; PCA9685 over I2C |
| Sketch, command watchdog | `g_last_servo_cmd`, `g_servo_timed_out`, `now` | stamp in `set_servo_pwms`, comparison in `loop` | client (`servo_timeout`) |
| Sketch, IMU | MPU9250/AK8963 registers, `g_ai_ok` | initialisation, 100 Hz read, `imu_diag` | client (`imu`) |
| Bridge RPC client | socket, `running_`, reader thread, parse buffer, handler table, two mutexes | `start`, `stop`, `provide`, `notify*`, `register_method`, reader with reconnect, parser, `dispatch` | router; handlers of the bridge |
| Hardware bridge, services | `i2c_gen_`, `i2c_scan_addrs_`, `servo_diag_gen_`, `servo_diag_str_` under `diag_mutex_` | `handle_scan_i2c`, `handle_servo_diag`, `handle_status`, `handle_imu_diag`, result handlers | client; service callers |
| Hardware bridge, calibration | accumulators, `calibration_done_`, the two enabling flags under `cal_mutex_`; bias | `on_imu`, `accumulate_calibration`, `finish_calibration`, `handle_recalibrate_imu`, `publish_imu` | client; `/imu/data` |
| Hardware bridge, commands | throttle stamp, `ServoConverter` state | `on_cmd` | client; `/position_controller/commands` |
| Policy controller | `session_`, `enabled_`, `have_odom/imu/joints_`, warm-up, decimation, `target_`, raw and shaped command | subscriptions, `set_enabled`, `load_policy`, `control_loop` | leg_odometry, bridge |
| Command shaper | hold point, heading latch, setpoint, lateral and steer outputs | `shape`, `reset` | policy |
| Legged odometry | `have_cmd_`, `init_timer_`, filtered joints, pose and velocity estimate, lidar correction | `on_cmd`, `publish_initial_joint_states`, `on_twist_cmd`, `on_imu` | policy, bridge, Nav2 |
| Web control | `last_angles_`; `sending` of the page | heartbeat, HTTP handlers, the page's Send and Home | bridge, leg_odometry |
| Frontier detection | the search's queue, cluster and set of seen cells | `find_frontiers`, `has_clearance` | explorer |
| Frontier exploration | blacklist, current goal, last map, start | `pick_goal`, `goto`, `run` | Nav2, map, TF |
| Scan ground filter | sensor mount, latest attitude | `onImu`, `onScan`, `resolveMount` | Nav2 |
| Joint effort PD controller | command buffer, gains, lifecycle state | configure, activate, deactivate, `update` | ros2_control |
| Launch files | launch configurations, shared by every included file; timers and exit handlers; processes | `generate_launch_description` of each, as launch visits it | lifecycle managers, every node |
| `start_mapping.sh` | waiting, calling, done | wait for the service, call STARTUP, retry | lifecycle manager of slam_toolbox |
| Other scripts, robot description, parameter files | - | - | read for which nodes run together, with which executors |
| Scanner firmwares, test scripts, `imu_parser.hpp` | - | bench tools; the header is included by no target | - |

### 1.2 How they interact

* Commands: policy or web_control publish twelve joint values on
  `/position_controller/commands`; bridge throttles, converts and sends them as
  `set_servo_pwms`; the sketch's RPC background thread copies them to RAM, and
  `loop()` writes them to the servo chip on its next pass. leg_odometry listens
  to the same topic and publishes the filtered command as `/joint_states`, which
  is the only joint feedback policy ever gets.
* Notifications of the sketch (`imu`, `servo_timeout`, results) go to the
  client's reader thread, which runs the handlers of bridge. Nothing on the link
  is acknowledged; a send on a closed socket is dropped silently.
* Services: one thread runs the callbacks of bridge. A diagnostic service blocks
  it in a condition variable until the reader thread stores a newer result or a
  timeout fires.

### 1.3 What is hard here, and what must hold

| Component | Hard behaviour | Must hold |
|---|---|---|
| Sketch, servo path | Two threads share `g_pwm`, the flag and the Wire buffer without a lock; some writes of a pose may fail; the chip may lose power | no accepted pose is lost, no torn pose stays, a failed write is retried with the latest pose, a sleeping chip wakes, a diagnostic ends and its verdict means something |
| Command watchdog | Stamp and clock reading come from two threads; unsigned difference, wrap-around, edge trigger | reports are of real stalls, once each, and no stall is missed |
| Startup | policy waits for joint states, leg_odometry for commands; processes restart; best-effort topics | the loop closes, and the start-up pose does not mix with feedback |
| Bridge services | late, lost and reordered answers; shared results | an answer heard is an answer given; success is of this call |
| Client | registration and reading share a byte stream and a socket; reconnect | after a reconnect everything is registered and framed again; no deadlock |
| Calibration | recalibration on one thread, samples on another | bias used is that of one whole window |
| Policy | staleness, gating, decimation, inference errors | no motion without fresh commands; always a command while armed |
| Legged odometry | estimate written by two paths | a correction is not undone |
| Web control | a thread per request and the heartbeat share a pose without a lock | the servos settle on the pose last set |
| Frontier detection | edges of the grid, cells queued twice, clusters beside walls | nothing worth a goal is missed or offered twice |
| Frontier exploration | goals fail, time out, are answered late; pose and map come and go | a failed place is not tried again, exploration ends, the robot is left without a goal |
| Launch files | included files share configurations; timers, exit handlers and lifecycle managers race | one owner per transform, the right parameters, clock and start pose everywhere, and everything meant to come up does |

The full list, with the line where each bites, is `hazards` in `PROJECT.json`. A
hazard names only the properties that would catch it going wrong; where the code
does go wrong, or a property excuses exactly the case, its note says so.

## 2. Modules

| Module | Models | Checked by | Proved in |
|---|---|---|---|
| `ServoDisplay` | abstract: the order in which the servos show poses | as the property of `ServoFirmware` | `ServoFirmwareProofs` |
| `ServoFirmware` | sketch, servo path | `servo_safety`, `servo_liveness` (through `MCServoFirmware`) | `ServoFirmwareProofs` |
| `ServoWatchdog` | sketch, command watchdog | `watchdog` (`MCServoWatchdog`) | `ServoWatchdogProofs` |
| `StartupHandshake` | policy, leg_odometry and web_control as far as their gates | `startup` (`MCStartupHandshake`) | `JointCommandProofs` |
| `BridgeServices` | bridge services, the reader's dispatch, and the sketch's side of them | `bridge_answers` (`MCBridgeServices`) | `HardwareBridgeProofs` |
| `HardwareBridge` | bridge: IMU calibration, beside the services; extends `BridgeServices` | `bridge_answers` | `HardwareBridgeProofs` |
| `BridgeClient` | client: connection, registration, reader, parser | `client` (`MCBridgeClient`) | `BridgeClientProofs` |
| `CommandShaper` | shaper: `shape()` as operators | as part of `PolicyControl` | lemmas of `PolicyControlProofs` |
| `PolicyControl` | policy, from its subscriptions to the joint targets; extends `CommandShaper` | `policy` (`MCPolicyControl`) | `PolicyControlProofs` |
| `WebControl` | web_control and its page | `web` | `JointCommandProofs` |
| `FrontierClusters` | abstract: what frontiers an explorer is promised | as the property of `FindFrontiers` | `FindFrontiersProofs` |
| `FindFrontiers` | frontier_lib: the search, cell by cell | `frontiers` (`MCFindFrontiers`) | `FindFrontiersProofs` |
| `FrontierExplore` | explorer and the action server it talks to | `explore` (`MCFrontierExplore`) | `FrontierExploreProofs` |
| `LaunchEntities` | the vocabulary of a launch file | as part of `LaunchSystem` | - |
| `SimLaunchFiles`, `HardwareLaunchFiles` | the launch files, one operator each | as part of `LaunchSystem` | - |
| `LaunchSystem` | what launch makes of them, lifecycle managers, `start_mapping.sh`, the lidar driver | `launch`, `launch_nav2_autostart` (`MCLaunchSystem`) | - |

An `MC` module extends the specification it is named after and adds only the
values of its constants and what a comment or document of the repository claims
and the code does not do. Every
constant whose name begins with `Max` bounds a counter and is not in the code.
Definitions whose comment begins "A slip" are variants of the definition after
them, with a plausible mistake; no specification uses them. They show that the
property they are meant for would catch the mistake.

### 2.1 ServoFirmware

Two threads. The handler thread is `hpc`: idle, copying (`CopyChannel`, one
channel a step), before raising the flag, or scanning (`ScanBegin`, any number of
`ScanProbe`, `ScanEnd`). `loop()` is `lpc`: each label is a place between two
accesses to what the handlers also touch, or two transactions on the bus.
`ClearDirty`, `SnapChannel`, `WriteChannel`, `WriteDone` are the deferred write:
the flag falls first, the snapshot is taken channel by channel, each channel is
written, and the flag is raised again if one of them failed. The diagnostic
writes its pattern the same way (`DiagStart`, `TestChannel`), waits while the
loop keeps running (`DiagSettling`), and reads back (`DiagReadback`) or gives up
(`DiagAbort`). The health check reads, initialises a chip that is asleep in two
writes (`InitSleep`, `InitWake`), reads again (`Reverify`), and re-initialises
after `FailLimit` failures.

Poses are numbers of messages: `Off` is 0, message *m* writes *m* to every
channel, `TestPose` is the diagnostic's, `Mixed` a count that is nobody's.
Whether the count of a pose, or of `Mixed`, is within two counts of the pattern
on a channel (sketch 710) is left open, channel by channel (`Passed`).

*The sleeping chip.* `awake` is what `pca9685_verify_init` reads: SLEEP clear and
auto-increment set. Both are lost together, at power-on and at the first write
of an initialisation. Without auto-increment the five bytes of a channel are
acknowledged and set no pose, so `WriteServo` leaves the registers as they are
and the write counts as good.

*The address scan.* `on_scan_i2c` calls `beginTransmission` and
`endTransmission` on the driver `loop()` uses. Nothing locks it, so they may come
between any two of the calls that make up a transaction of `loop()`. Such a data
race is modelled by its outcomes: a step of `loop()` that uses the bus while a
scan is in progress chooses any acknowledgement, any read, and any effect on the
chip that a lost, misdirected or cut frame can have (`Answers`, `WriteServo`,
`WriteMode`, `Garbled`), and once `loop()` has written during a scan (`raced`)
what it left in the buffer may also be sent by a later probe (`ScanProbe`).
`g_i2c_busy` is raised around reads only and looked at once, before the first
probe, so it keeps a scan from beginning in a read and nothing else; the model
does not rely on it. A cut frame can also reach `MODE2`, the prescaler or, with
another register number, another device; that is not modelled.

Environment: `BusDown`/`BusUp` (every transfer fails), `BrownOut` (the chip
loses power, forgets its registers and sleeps). The readback of all channels is
one step, and so is each register write of an initialisation, except that the
prescaler's falls together with the wake-up: an outage or a scan comes before or
after it. `unflushed` and `disturbed` are history variables of the properties.

`ServoDisplay` is what the path promises without threads, buffers and retries:
poses are numbered as they come, and a channel that has shown one never goes back
to an older one, also after a test pose, a power loss or a count that is
nobody's; such a count appears only while a scan is in progress (`Garble`). The
refinement maps `shown` to the chip's registers, `latest` to the last message
accepted, `scanning` to the handler being at a scan, and `newest` to the pose a
channel has reached (`Newest`): the one it shows, or, while it shows none, the
one in the snapshot, which comes next. A write is `Show` or `Test`, or `Garble`
during a scan, a brown-out `LosePower`; a snapshot taken while a channel shows no
pose passes poses over; everything else stutters. A snapshot that mixes two
messages is allowed, an older value on any one channel is not.

### 2.2 ServoWatchdog

The same handler and loop with time and without poses. `uptime` never wraps;
`millis` is `uptime % Wrap`. Whether `Bridge.begin()` started a background
thread depends on the core the sketch is built with, so `bgThread` is chosen
initially: with it a command may be stamped anywhere, without it only inside
`Bridge.update()`. The code reads the stamp three times in a pass, twice in the
test (650) and once for the time it reports (653), and a command may come between
any two of them: `SeesCommand`, `Compare`, `Report` are a step each. A compiler
may keep the stamp in a register; such a build takes the same steps with no
command in between. `silence` and `lastCmd` record the true times for the
properties. A rejected payload is stamped like a good one: the stamp comes
before the parse. The time is sent as a `float`; its rounding is left out.

### 2.3 StartupHandshake

Three processes and two topics. A publication may be lost (not discovered, best
effort) or delivered into a queue of the length the subscription declares.
Joint values are abstracted to which of leg_odometry's two publishers sent them
and in which of its lives. policy loads its model before it subscribes, so it
is `"loading"` for a while; loading may fail. Start and stop are the operator's
and are bounded; a stop is possible only while another start is left.

### 2.4 BridgeServices

The executor (`pc`) takes one service call at a time; the reader thread is
`Dispatch`; the link is two queues from which the head may be lost at any time,
and a request may also be lost as it is sent. Each critical section under
`diag_mutex_` is one step; the wait may end by an answer or, at any time at
which no newer result has come, by the timeout, because nothing bounds how long
the sketch takes. The sketch's side is reduced to what answers these requests:
scans ignored while a read is in progress, a diagnostic request that joins one
under way, the report, and the clearing of `g_diag_pending` after it.

`HardwareBridge` adds the calibration of the IMU, so that both threads are whole.
The reader thread adds a sample to the open window and, when it is full, takes
the bias from it (`OnImu`); the executor opens a new window (`Recalibrate`) between
two other calls. Both hold `cal_mutex_`, so each is one step. A sample is its
number, a sum the set of samples added up, and a bias the set it is the mean of;
whether a sample was zero is all that is kept of its value. `publish_imu` reads
the bias without the mutex, but on the thread that writes it, and is no step.

### 2.5 CommandShaper and PolicyControl

`CommandShaper` is `shape()` as an operator `Shape` from the loop state and the
inputs to the new loop state and the forward command, with one operator per
stage: `Envelope`, `StopPoint`, `WalkBack`, `Setpoint`, `Wind` (the integrator),
`Steer` (the rate limiter), `Throttled`. It is fixed point: angles are steps of
a circle, `wrap_pi` is `Wrap`, a gain times a value is a product of whole
numbers, and the plane is whatever distances, bearings and offsets the constants
`Dist`, `Bearing` and `LatErr` give. The lateral velocity and the yaw command
only feed the network and are left out.

`PolicyControl` has one action per callback, because the node's callbacks are in
one mutually exclusive group, and three for `control_loop`: a run holds the
default pose during the warm-up (`HoldDefault`), sends the last target again
(`RepeatTarget`), or is a policy step (`PolicyStep`), which shapes the command
and then stands, walks or fails in inference (`Stand`, `Walk`,
`InferenceError`). A target is its kind (zero-filled, default, stance, gait) and
the steering bias on the hips: what the network computes is left out, and so are
`/debug_hip_bias`, taken to be zero, and effort mode. A command goes stale, and
the warm-up ends, at any moment. Odometry may report any place and heading at any
time: the robot walks, drifts or is carried. `missed` counts policy steps that
failed since the last one that did not; it is not in the code.

With `heading_hold`, `position_hold` and `lateral_hold` on the model is the node
with the parameters of `policy.yaml`; `composed_hardware.launch.py` switches
them off, which `Unsteered` of the proofs and the case `~HeadingHold` cover.

### 2.6 BridgeClient

One thread runs `start()` and then the reader, so one `pc` is enough:
`Connect`; `RegisterSend`, `RegisterRead` and `RegisterGivesUp` for each method;
`Read`, `ParseOne`, `ParseEnd` and `EndOfStream`. The stream is a sequence of
tokens, one for the bytes of a MsgPack element and two for a value, so it can be
cut at every place the parser distinguishes. A token carries the method it
belongs to; the code under test never looks at that, `heard` does. `odd` stands
for the values the parser has no case for. `Used` is `try_parse_message`: how
many tokens a call takes, 0 for "incomplete". `Lose` takes the router down and
keeps any part of what it had written; registrations are forgotten with the
router. `cut` records that something was lost, was odd, or was eaten by a
registration: before that the parser must stay on the frames.

### 2.7 WebControl

Requests are numbered; a pose is the number of the request that brought it. The
page's Send raises `sending` until its answer comes, Home only looks at it. The
server starts a thread per request, which takes the pose (`Take`) and publishes
it (`Publish`) in two steps; the heartbeat reads (`BeatReads`) and publishes
(`BeatPublishes`) in two. `after` is what had been answered when a request was
made, which is what a user of the page can rely on.

### 2.8 FrontierClusters and FindFrontiers

`FrontierClusters` says what is promised without a search: components of the
frontier are the smallest sets closed under neighbourhood, and each is looked at
once (`Look`), in any order. `FindFrontiers` is the code: `SkipStart` and
`SeedStart` are the outer loop, `VisitCell` one turn of the inner one with its
neighbours in their order (`Unseen`, a column of three after the other),
`CloseCluster` what follows it. The refinement maps
`covered` to `seen` without the cluster being gathered and the queue: one whole
component enters `covered` in the step `CloseCluster`, everything else stutters.
Distances to the centroid are multiplied by the size of the cluster, so whole
numbers compare as the code's floats do.

### 2.9 FrontierExplore

The corridor is a line of places: what the code needs of the plane is which
frontier is nearest and whether one is within `blacklist_radius` of a failed
one. `map` is the last map received, `open` what the world would show now. The
stages of `run()` and `goto()` are `pc`; a time-out may pass at any step where the
code waits. Each goal keeps its state at the server, which handles requests in
order and aborts the goal a new one preempts. `abandoned` are goals whose
acceptance took longer than the explorer waited, `cancelling` the requests to
cancel under way. `tf` says whether the pose is known: without it the stuck
watchdog does not run and the explorer takes itself to be at its start.

### 2.10 The launch files and LaunchSystem

`SimLaunchFiles` and `HardwareLaunchFiles` write each
`generate_launch_description()` as a sequence of entities in the order of the
code, with the arguments that decide what is started and with which clock, IMU,
parameter file, pose and lifecycle node list; the text of commands, yaml and
remappings is left out. `LaunchSystem` visits them as `ros2 launch` does: a
declaration sets a configuration only if it is unset, an include sets the ones it
is given *in the configuration of the file that includes it*, and a scoped group
takes both back. Nothing takes back an include outside a group, which is what
most of the properties of this module are about. After the visit, timers and exit
handlers put their bodies on the agenda (`TimerFires`, `ProcessExits`), managers
advertise their service (`ManagerServes`), discover their nodes some time later
(`NodesFound`) and bring them up (`Autostart`), or wait for `start_mapping.sh`
(`Script...`). launch, Nav2's lifecycle manager and the lidar driver are
external: they are modelled from how the launch files and the script use them.

## 3. Runs, bounds and what they show

| Run | Bounds | Result |
|---|---|---|
| `servo_safety` | 2 channels, 2 messages, 1 diagnostic, 1 scan, 1 outage, 1 power loss; re-initialisation after 2 failures | 6.1 million states. `SettledPoseShown`: whenever both threads are at rest, the flag is down and the chip is awake, each channel shows the last accepted message or the test pose, whatever was written while the chip slept; excused are writes that raced with a scan and a wake-up whose check failed. `UndisturbedDiagPasses`: a diagnostic of an awake chip with no write, scan, outage or power loss in between passes. `NeverBack`: the servo path implements `ServoDisplay` |
| `servo_liveness` | 2 channels, 2 messages, 2 diagnostics, 1 outage, no scan; a chip that starts asleep or awake; re-initialisation after 2 failures | 0.45 million states. Every accepted pose reaches all servos or is superseded, unless a wake-up's check failed; what is pending as a diagnostic ends, also when a second request comes between the report and the clearing; a sleeping chip wakes |
| `watchdog` | clock wraps at 12, timeout 3, passes of at most 2, 20 ms of uptime: one wrap and most of a second | 25 thousand states. With handlers in `loop()` every report is true and comes once per stall shorter than a wrap; with the background thread a report that states more than 0 ms and less than a wrap minus one pass is of a real stall; every lasting stall is reported in either build |
| `startup` | queue 2, 2 lives of policy, 3 of leg_odometry, 1 of web_control | in policy's first life and without another commander the default pose is offered until a joint state was seen, and the loop closes on echoes; the default pose never follows an echo within one life of leg_odometry |
| `bridge_answers` | 3 calls of either service; windows of 2 samples, 4 samples, of which any may be zero | 1.2 million states. A call is answered by the last result of its kind heard since it began, and does not wait past one; a successful diagnostic heard a report during the call. `OneWindow`: wherever recalibrations fall between the samples, a bias is of one whole window, and of the latest once that is full |
| `client` | two methods, 6 tokens under way, one fault (a lost router or an odd value), the buffer dropped above 6 tokens and after more than one read without progress | 0.2 million states. `StaysOnFrames`: while nothing was cut the parser takes whole messages only, however reads split them. `HearsAgain`: once the router stays up every method is heard again and again, through a reconnection in the middle of a frame and registrations that gave up. `NobodyHangs`: a registration ends and `stop()` returns whatever the router leaves unanswered |
| `policy` | two places, quarter turns, three commands (stand, walk, turn while asking for reverse), 2 runs of the loop per policy step, limits of one or two units, 2 counted failures | 1.2 million states. The zero-filled target is never published; the hips move by at most one limiter step per policy step, through standing, disarming, stale commands and failures; a robot whose last command was no turn stands when commands stop, unless it has to walk back; an armed robot with a fresh command walks |
| `web` | two pages, three requests, of which any may be malformed | 0.15 million states. `PoseSettles`: when requests end the servos are kept at the pose last set, and no request made after that pose's answer is lost |
| `frontiers` | every 3 by 3 grid of unknown and free cells with at most one wall, clusters of at least 2 cells, clearance 1 | 41 thousand states. `ImplementsClusters`: the search implements `FrontierClusters`, fairness included. `EmptyMeansDone`: the list is empty exactly when no component is worth a goal, which is when the explorer stops |
| `explore` | places 0, 2, 3, 6, 7, of which 2, 3 and 7 are frontiers and 6 appears behind 3; radius 2; 5 goals with the one back to the start | 0.56 million states. `FailsOnce`: near a place whose goal failed no other goal is sent. `Ends`: exploration ends although Nav2 may never finish a goal or answer one and the pose may be lost. `QuietAfterExit`: no goal keeps moving the robot after the explorer is gone, unless an answer came too late |
| `launch` | every entry point of the repository with the arguments that change what it starts | 0.1 million states. `Resolved`: no configuration is read before it is set. `OneOwnerEach`: at most one publisher of odom to base_link, of map to odom and of `/joint_states`, and exactly one where it is needed. `MatchesWorld`, `FilesStayHome`, `SeedsMatchStart`: every node is on the clock, IMU, parameter file and start pose of its world. `MappingWaitsForOperator`, `OperatorStartsMapping`, `NavComesUp`, `ScanComesBack`: what must wait waits, what must come up does |
| `launch_nav2_autostart` | `big_bertha.launch.py` without arguments | `NavStarts` is violated, see 3.1 |

Why the bounds are enough. Two channels are the least with a torn pose, and
every channel is treated alike; the safety properties are proved for any
number. Two messages are the least where one supersedes another, before, during
and after the write of the first. One outage may begin and end at any step. The
watchdog compares two readings, so one wrap shows every case. Three calls let a
late answer skip a call, and two samples are the least a window can be cut in. Three lives of leg_odometry let it restart before and
after policy comes up. A demand on the hips of two limiter steps is the least
that the limiter cuts, and two places are the least with a stop point to walk
back to, straight or after turning around. Six tokens hold the longest message
whole, or the tail of one and the head of the next, and a buffer above six
tokens is one that holds more than a message. Two methods are the least where
one notifies while another registers. Three requests of two pages are the least
where a page's next request meets an older one of the other page and a heartbeat
holding a pose older than both. A 3 by 3 grid is the least with an inner cell,
components that touch only at a corner, and a last column next to the first of
the following row. Five goals let two frontiers within the radius of each other
fail and succeed in every order and still leave one to find behind. The launch
files have finitely many entry points; arguments that only hand a value on take
two values, the default and another.

Deadlock is checked except where a behaviour may end: the bounded calls of
`BridgeAnswers.cfg` and requests of `Web.cfg` are used up, the client was stopped
(`Client.cfg`), the search is done (`Frontiers.cfg`), the explorer has exited
(`Explore.cfg`), and everything launched is up (`Launch.cfg`, `LaunchNav.cfg`).

### 3.1 Divergences between code and documents

Run `launch_nav2_autostart` shows one. big_bertha.launch.py:168 gives `autostart`
to the mapping file as `mapping_autostart`, "false" by default, and nothing takes
it back; nav2.launch.py, included after it, reads `autostart` as well and its own
default (line 36: "default: `true`") never applies. So Nav2 does not come up either, also
after the operator has run `start_mapping.sh`. `NavComesUp` of run `launch` is
what remains true.

Seven more are stated as properties of the `MC` modules that the code violates; a
configuration with the constants of the passing run and that property alone
shows the trace:

* `ScanSparesServoWrites` (`MCServoFirmware`): `g_i2c_busy` is documented as the
  guard between the two threads (sketch 83), but only reads raise it and a scan
  tests it once. A probe can cut a servo write or send it elsewhere; the write may
  count as done all the same.
* `WakeFlushes` (`MCServoFirmware`): after a chip that was asleep is initialised
  "flush RAM state after sleep/wake reset" (sketch 782). If the read after the
  initialisation fails (781), nothing raises the flag, the next check finds the
  chip awake, and what was written and acknowledged while it slept is never
  written again: the servos stay off until a new message. `SettledPoseShown` and
  `AcceptedPoseShown` excuse this state (`unflushed`).
* `NoCommandsForStatedTime` (`MCServoWatchdog`): bridge prints "no commands for N
  ms" (385). A command stamped after `loop()` read the clock makes N about 2^32.
* `DeadlockBroken` (`MCStartupHandshake`): leg_odometry says its initial joint
  states break the deadlock with policy (134-143). `have_cmd_` outlives policy,
  so a policy that restarts beside it waits for ever.
* `DiagSuccessMeansCompleted` (`MCBridgeServices`): API.md:262 says success means
  the test completed. The report of an earlier call that timed out is accepted
  for the next.
* `StaleMeansStop` (`MCPolicyControl`): policy.yaml:47 says a stale command is a
  safe stop. The moving gate (policy 377) tests the turn command as it was
  received, and no time-out clears that: a robot that was turning walks on.
  `StandsWhenCommandsStop` of run `policy` is what remains true.
* `FacesThenWalksBack` (`MCPolicyControl`): shaper 91 says a displaced robot faces
  its stop point and walks back. Facing it is a turn command with no forward part,
  which the moving gate does not see: the robot stands where it is for ever.

Met while modelling, and described here only:

* Sketch: a snapshot of `g_pwm` can
  mix two messages although a comment (150-151) says it cannot, but the whole
  newer pose always follows (`NoLostUpdate`). A diagnostic fails on sound
  hardware when commands keep arriving while it settles, or reports some channels
  good where the pose commanded agrees with the pattern there
  (VALIDATION_CHECKLIST.md:389 blames the wiring), and after it the legs keep the
  test pose until a new command (VALIDATION_CHECKLIST.md:379 says "moved
  briefly"). A stall that outlasts a wrap of `millis()` is reported twice.
* Bridge: `~/scan_i2c` answers a timeout from the addresses of an earlier scan,
  with success true (API.md:219). A calibration window of zeros only switches
  calibration off for good, and `~/recalibrate_imu` is refused from then on, where
  hardware_bridge.yaml:163-164 says it re-opens the window without a restart.
  hardware_bridge.yaml:157 says "Set to false or 0 to disable", but a
  `gyro_calibration_samples` of 0 with a positive `accel_calibration_samples` still
  computes a gyro bias, from the longer window.
* Client: a first connection that fails is never retried, since the reader thread
  is not started (92). A value without a case in the parser, or a stream cut at an
  unlucky place, leaves the client deaf until more than 64 KB and 64 reads without
  progress have passed, where VALIDATION_CHECKLIST.md:435-443 expects the IMU
  back within 5 seconds, and a log line the code does not print.
* Web control: server.py:110-112 says the sketch parks the servos when commands
  stop; the sketch only reports (85). Home looks at `sending` but does not raise it, so
  Home and Send of one page can overtake each other.
* leg_odometry: `apply_lidar_correction` (319) moves `last_position_`, but `on_imu`
  computed `position` before, publishes it, and writes it back at its end, so no
  correction ever reaches `/odom` or the next sample, where legged_odometry.yaml
  says that it "pulls the dead-reckoned pose toward the scan-matched estimate".
  All callbacks of the node are in its one mutually exclusive group, so they do
  not run concurrently in the composed container, as a comment says they can.
* Explorer: a goal whose acceptance comes after the explorer stopped waiting has
  no handle and is never cancelled (`QuietAfterExit` excepts it). A result that
  arrives in the spin before the stuck check or the deadline counts as a failure
  (both are looked at first). "map complete" is printed also when every frontier left is
  blacklisted.
* Launch: minimal_hardware.launch.py hands its `params_file`,
  hardware_bridge.yaml, to the policy too (policy_controller.launch.py:18: "Loads
  config/policy.yaml"), which then runs on its built-in defaults, holds included;
  `FilesStayHome` and `MatchesWorld` except that entry point.

### 3.2 Fairness

* `ServoFirmware`: weak fairness of `loop()` (`LoopStep`) and of the handler thread, which
  run on a preemptive scheduler; the bus comes back (`BusUp`), because without
  it nothing can be written; and a diagnostic that may read back eventually
  does, since the settle time is bounded. Messages, scans, outages and power
  losses are never forced.
* `ServoWatchdog`: `loop()` keeps running (weak fairness of `LoopStep`) and passes at least once per
  `MaxPass`, less than a wrap minus the timeout. Nothing makes commands arrive
  or time pass.
* `StartupHandshake`: processes that are up run their callbacks; loading ends;
  a publisher that keeps publishing is heard again and again (strong fairness
  of the delivering branch), which is what best effort gives on a working
  network. Starting, stopping and arming are never forced.
* `BridgeServices` and `HardwareBridge` have safety properties only.
* `BridgeClient`: the reader runs, and the 3 s of a registration pass. `HearsAgain`
  also needs a router that answers and that lets each method's messages through
  again and again (strong fairness of `Answer` and of `Notify`, which a full
  stream disables). Faults, odd values and `stop()` are never forced.
* `PolicyControl`: the timer keeps running `control_loop` (weak fairness of
  `HoldDefault` and of `Counts`, a run that counts towards the next policy step)
  and the warm-up ends. Whether a policy step walks or fails is left open:
  `WalksWhenCommanded` excuses a failure. No message, time-out, arming or
  loading is forced.
* `WebControl`: the server's threads are scheduled and the 100 ms timer fires.
* `FindFrontiers`: the loops go on (weak fairness of `Next`).
* `FrontierExplore`: the explorer runs and its time-outs pass, maps are delivered,
  the server answers a request. That Nav2 ends a goal, or the pose comes back, is
  not assumed.
* `LaunchSystem`: launch visits and handles its events, timers fire, processes
  come up, the one-shot spawners exit, the lidar driver is scheduled, and the
  operator runs the script again until it succeeds. The port is never forced.
  `Autostart` is taken to succeed: Nav2 itself may give up activating while it
  waits for map to base_link before mapping runs, where the repository expects
  that it "still comes up and waits for a map" (composed_navigation.launch.py:227);
  `NavComesUp` says what the launch files bring about under that assumption.

## 4. Proofs

All proofs hold for every value of the constants that satisfies the named
assumptions (`ChannelsAssumption`, `FailLimitAssumption`, `TimeAssumption`,
`DepthAssumption`, `StartsAssumption`, `CallsAssumption`, `SamplesAssumption`,
`ExploreAssumption`,
`ClientAssumption`, `FrameFitsAssumption` (a whole message fits the parser's
buffer), `GridAssumption` (a grid has cells, and a value for each); `AngleAssumption`, `PlaneAssumption`, `GainAssumption`, `SwitchAssumption`,
`ControlAssumption`), without any bound on messages, outages or restarts beyond
the constants themselves.

`ServoFirmwareProofs`:

* `TypeCorrect`: `Spec => []TypeOK`.
* `Inductive`: `Spec => []IInv`. `SettledPoseShown` speaks only of states at
  rest, so it is not inductive. `IInv` says what every intermediate state owes
  it: `CopyInv` (how much of a message the handler has copied), `SnapshotInv` (a
  snapshot differs from what was accepted only where the flag is raised or about
  to be), `ShownInv` (a channel of an awake chip that does not show the last pose
  will be written: a write is due or under way, or the check after the wake-up is
  still to come or has failed) and `TestInv` (while nothing disturbs a diagnostic
  it is alone at work on an awake chip, and what it has written holds the
  pattern). `ServoWritten` and `ModeWritten` say what a transaction does to the
  chip, with and without a scan, awake or asleep.
* `NoLostUpdate`: `Spec => []SettledPoseShown`, from `ShownInv`.
* `UndisturbedDiagnosticPasses`: `Spec => UndisturbedDiagPasses`, from `TestInv`.
* `PosesKeepTheirOrder`: `Spec => NeverBack`, the refinement of `ServoDisplay`. On
  top of the types it needs `Ordered`: from the chip over the snapshot and `g_pwm`
  to the handler, poses on the way are in the order they came. `Moves` sorts the
  steps by where they move a pose (`Upstream`, `InChip`, `Elsewhere`), and
  `DisplayStep` maps each to a step of `ServoDisplay`.

`ServoWatchdogProofs`, for every wrap, timeout and length of a pass. The lemmas
`SinceEarlier` and `SinceLater` say what the unsigned difference of two stamps is
when the second is the earlier one and when it is the later. On them rests
`Inductive`, with `Stamps` (a stamp is the true time modulo the wrap), `Times` (how
far the true times can be apart, and that without the background thread no
command comes between reading and comparison), `Found` (what an earlier read of the
stamp found still holds of it, unless a command came since, which is then no
earlier than the reading of the clock), `Told` (what a report says of the
silence it is about) and `Latched` (a report within one wrap leaves a latch that
every later comparison of the stall keeps):

* `ReportsTellTheTruth`: `Spec => []ReportTellsSilence`.
* `StallsReportOnce`: `Spec => []ReportOncePerStall`.
* `PlausibleReportsAreGenuine`: `Spec => []PlausibleReportIsGenuine`.
* `StallsAreCaught`: `Spec => []NoStallMissed` if `MaxPass <= Timeout`, the safety part
  of `StallReported` and stronger than it: not some time, but in the first pass that
  reads the clock late enough the stall is reported. It is not inductive, because
  the latch may still be set from an earlier stall or a false report; `Watchful` adds
  that a pass which found no stall has cleared the latch since the last command,
  and that the first late reading is late by less than a wrap.

`JointCommandProofs`, about the start-up of the nodes that send joint commands:
`HandshakeStaysOpen`: `Spec => []HandshakeOpen`, from
`Counted` (the queue and its processes), `Started` (who has been started how
often) and `NoCommandYet` (nobody can have sent a command); `TypeCorrect`, with the
queue of joint states within its depth; and `EchoesAreNotOverwritten`:
`Spec => FeedbackStaysCommanded`, from `AllSent` (an echo of the current life is
proof that `have_cmd_` has latched, and a restart makes every joint state one of
an earlier life) and `InOrder` (in the queue, and behind what the policy acts on,
no default pose follows an echo of the same life).

The same module proves the safety part of `PoseSettles` of `WebControl`, for any pages
and any number of requests. What is shown may go back to an older pose at any
time, by a slow thread or a heartbeat; what is kept in `last_angles_` may not
(`LatestKept`, with `Requests` for the stages a request goes through and
`FromRequests`: nothing is shown that was not set):

* `PoseIsKept`: `WebSpec => []WebInv`, the three together.
* `NoneAfterTheOneShown`: once every thread has published and the heartbeat holds
  nothing older (`AllShown`), the pose shown is not superseded.
* `SettledPoseStays`: that state lasts until the next request.

Fairness is only needed to reach `AllShown`.

`HardwareBridgeProofs`, for any number of calls, from `Link` (requests and reports
under way are of calls that were made), `Host` (generations only grow), `Hearing`
(what was heard during the call is what the call would answer) and `Answers`:

* `RepliesAreAnswered`: `Spec => []NoReplyMissed`.
* `SuccessIsHeard`: `Spec => []DiagSuccessIsHeard`.

and for calibration windows of any length and any number of samples:

* `BiasOfOneWindow`: `NodeSpec => []OneWindow`. What is inductive is `CalInv`: the
  open window holds the samples since it was opened and is not full
  (`OpenWindow`), a closed one is the bias of every sensor still calibrated
  (`ClosedWindow`), and every bias is of some whole window (`WholeWindows`).
* `NodeRepliesAreAnswered`: `NodeSpec => []NoReplyMissed`. Calibration leaves the
  state of the services alone (lemma `NodeImplementsServices`), so what is proved
  of them holds of the node.

`FrontierExploreProofs`, for any places, frontiers, radius and number of goals:

* `TypeCorrect`: `Spec => []TypeOK`, with: at most one goal is live, and a goal that
  is watched was accepted.
* `FailedNotRetried`: `Spec => []FailsOnce`. A goal may fail after the explorer has
  left it, so what is inductive is `FailedAreListed`: every exploration goal that is
  behind and has not succeeded is on the blacklist. `Script` says at which stage
  there is a goal at all.
* `GoalsAreReleased`: `Spec => []NoneForgotten`, the safety part of
  `QuietAfterExit`: when the explorer is gone, every goal the server may still take
  up or drive is being cancelled or was given up unanswered. The invariant is
  `Released`: only accepted goals are cancelled, so a cancellation that arrives
  always ends its goal, and a goal behind that is neither cancelled nor given up
  is over. That the cancellations arrive is left to the run.

`PolicyControlProofs`, from lemmas that give the range of every operator of the
shaper (`WrapType` to `ShapeStep`; `SteerLimited` is the rate limiter):

* `TypeCorrect`: `Spec => []TypeOK`, for any plane, gains, limits and switches.
* `RawTargetNeverSent`: `Spec => []NoRawTarget`, from `Filled`: with a warm-up
  the run that stamps it is the one that overwrites the zero-filled target.
* `SteeringIsSmooth`: `Spec => SmoothSteering`. The published bias alone is not
  enough to go by, since the limiter also moves in steps that publish nothing.
  `Sent` says the hips have what `target_pos_` says, `Lag` that the limiter is at
  most one step per failure ahead of it, `Fresh` that the warm-up, which publishes
  a bias of 0, only runs while there is none, and `Unsteered` that without heading
  hold or odometry the limiter has not moved.
* `StaleCommandStops`: `Spec => WalksOnlyBack`. Wherever the robot is and whatever the
  holds are set to, a policy step with stale commands, of which the last was no
  turn, stands, unless the robot has left its stop point and faces it. This is
  what `StandsWhenCommandsStop` comes to at each step, and it excuses less.
* `FreshCommandMoves`: `Spec => NeverStandsWhenAsked`, the same for
  `WalksWhenCommanded`. Both rest on `ShapedSpeed` (what the throttle leaves of the
  speed the gate sees) and `ThrottleOf`.

`BridgeClientProofs`, for any methods, any length of the stream and wherever the
reads split it: `StreamIsFramed`: `Spec => []FrameInv`. As long as no message was
cut, the parser's buffer and what is still on the way make a row of whole messages
(`Framed`: there are places, the first of them 0, at each of which a message starts
and ends at the next); while a registration waits for its answer, that answer as
far as it was matched takes the place of the buffer (`Aligned`). From it
`ParserStaysOnFrames`: `Spec => StaysOnFrames`, with `TakesWhole`: standing on a
message, the parser takes all of it or waits.

`FindFrontiersProofs`, for any grid, minimal size and clearance:

* `FrontierIs`, `ClearanceIs`, `UnseenIs`: the index arithmetic of the loops is
  the neighbourhood of the plane, at the edges of the grid too. `IndexOf` is the
  fact about quotients they rest on.
* `KeyIs`: the running sums of the code are the sums over the set of cells of the
  abstract module, so both sort by the same distance. A sum is a recursive
  function; `SumExists` builds it, and `SameByRemoval` shows there is one, by
  induction in the form of a statement about a set of numbers (`AllNumbers`).
* `SearchIsComplete`: `Spec => []SearchInv`. That a cluster is a component is true
  only when the queue is empty. In between it is inductive that what was looked at
  is closed under neighbourhood, that whatever left the queue has no unseen
  neighbour, and that a closed set which holds one of the cells gathered holds
  them all (`Whole`); with `NoneLeftOut` for the outer loop and `Offered` for the
  list.
* `SearchKeepsPromise`: `Spec => Clusters!Safety`, the safety part of the refinement:
  initial states map to initial states, `CloseCluster` to `Look` of the component
  it closes, and the other steps to stuttering.
* `EmptyExactlyWhenDone`: `Spec => []EmptyMeansDone`; `TypeCorrect`:
  `Spec => []TypeOK`, with no cell queued twice.

Only model-checked: all liveness properties, with what fairness adds to
`QuietAfterExit`, `ImplementsClusters`, `PoseSettles`, `StallReported`,
`StandsWhenCommandsStop` and `WalksWhenCommanded`, and the invariants of `LaunchSystem`, whose constants
are the launch files themselves, so that the run is already exhaustive. Liveness
under fairness is out of reach of the prover.

## 5. Not modelled, and why

* IMU registers and scaling, the Madgwick filter, Nav2's planners and
  controllers, slam_toolbox, the robot description, the values in parameter
  files: numerical, external, or data.
* leg_odometry's estimate, the command path of bridge, the scan ground filter and
  the PD controller: not yet; see the plan.
* `on_ping`, `handle_status`, `handle_imu_diag`, logging and blinking: they
  change nothing another part acts on.
* The scanner firmwares, bench scripts and `imu_parser.hpp` are not part of the
  running stack.

## 6. Plan

In this order; each gets one module, one passing run with its properties, and
proofs where noted.

1. `LegOdometry`: the two writers of the pose estimate, the gate of an
   uncommanded robot, ZUPT, and the lidar correction that the next write-back
   discards.
2. `CommandPath`: publishers, throttle, link and sketch together, with service
   calls that block the executor, with `ServoDisplay` promised by the whole path.
3. `ServoConverter` in fixed point: slew limit, mapping and reset; proofs of the
   bounds.
4. The scan ground filter's attitude staleness and the PD controller's lifecycle.
