--------------------------- MODULE PolicyControl ---------------------------
(***************************************************************************)
(* The gait node policy_controller from its subscriptions to the joint     *)
(* targets it publishes: gates, start-up warm-up, decimation, the command  *)
(* shaper, the moving gate, inference and its failure.                     *)
(*                                                                         *)
(* All callbacks are in one mutually exclusive group, so each is one step. *)
(* control_loop runs at pd_rate; every Decimation-th run is a policy step. *)
(* Time: a command goes stale, and the warm-up ends, at any moment after   *)
(* it began.  Data: a target is the stance or whatever the network makes   *)
(* of the observation, plus the hip bias on the hips; the bias of          *)
(* /debug_hip_bias is 0.  The robot may be anywhere each time odometry     *)
(* reports: it walks, drifts, or is carried.                               *)
(***************************************************************************)
EXTENDS CommandShaper

CONSTANTS
  Commands,     (* the velocity commands that can arrive                   *)
  Origin,       (* where the odometry starts                               *)
  Decimation,   (* policy_decimation_: runs of the loop per policy step    *)
  HasWarmup,    (* warmup_sec is positive                                  *)
  StandYaw,     (* stand_yaw_thresh                                        *)
  MaxMissed     (* bound: failed policy steps that are counted             *)

ASSUME ControlAssumption ==
  /\ Commands \subseteq [vx : Int, wz : Int] /\ Origin \in Places
  /\ Decimation \in Nat \ {0} /\ HasWarmup \in BOOLEAN /\ StandYaw \in Nat
  /\ MaxMissed \in Nat

VARIABLES
  enabled_, session_, have_joints_,
  have_odom_yaw_, place, yaw,       (* latest odometry                     *)
  cmd, stale,                       (* latest command; it has timed out    *)
  warmup,                           (* "none", "running" or "over"         *)
  decim_count_,
  shaper_,
  target_pos_,
  published,                        (* the last target published           *)
  missed                            (* policy steps that failed since the  *)
                                    (* last one that did not               *)

inputVars  == <<have_joints_, have_odom_yaw_, place, yaw, cmd, stale>>
switchVars == <<enabled_, session_>>
loopVars   == <<warmup, decim_count_, shaper_, target_pos_, published, missed>>
vars == <<inputVars, switchVars, loopVars>>

Targets == [kind : {"zero", "default", "stance", "gait"}, steer : -SteerMax .. SteerMax]
Zero    == [kind |-> "zero", steer |-> 0]
Default == [kind |-> "default", steer |-> 0]
Nothing == [kind |-> "nothing", steer |-> 0]

(* now() - 0 exceeds the timeout unless simulated time has just begun.     *)
Init ==
  /\ enabled_ \in BOOLEAN /\ session_ \in BOOLEAN /\ have_joints_ = FALSE
  /\ have_odom_yaw_ = FALSE /\ place = Origin /\ yaw = 0
  /\ cmd = [vx |-> 0, wz |-> 0] /\ stale \in BOOLEAN
  /\ warmup = "none" /\ decim_count_ = 0
  /\ shaper_ = ShaperInit(Origin)
  /\ target_pos_ = Zero /\ published = Nothing /\ missed = 0

----------------------------------------------------------------------------
(* Subscriptions, services and the passing of time.                        *)

OnOdom(p, a) ==
  /\ have_odom_yaw_' = TRUE /\ place' = p /\ yaw' = a
  /\ UNCHANGED <<have_joints_, cmd, stale, switchVars, loopVars>>

OnJoints ==
  /\ have_joints_' = TRUE
  /\ UNCHANGED <<have_odom_yaw_, place, yaw, cmd, stale, switchVars, loopVars>>

OnCmd(c) ==
  /\ cmd' = c /\ stale' = FALSE
  /\ UNCHANGED <<have_joints_, have_odom_yaw_, place, yaw, switchVars, loopVars>>

Timeout ==
  /\ ~stale /\ stale' = TRUE
  /\ UNCHANGED <<have_joints_, have_odom_yaw_, place, yaw, cmd, switchVars, loopVars>>

WarmupOver ==
  /\ warmup = "running" /\ warmup' = "over"
  /\ UNCHANGED <<inputVars, switchVars, decim_count_, shaper_, target_pos_,
                 published, missed>>

OnSetEnabled ==
  /\ enabled_' \in BOOLEAN
  /\ UNCHANGED <<session_, inputVars, loopVars>>

(* A model that fails to load leaves the one in use.                       *)
OnLoadPolicy ==
  /\ session_' \in {session_, TRUE}
  /\ UNCHANGED <<enabled_, inputVars, loopVars>>

----------------------------------------------------------------------------
(* control_loop                                                            *)

Ready   == enabled_ /\ session_ /\ have_joints_

(* A slip: the first run looks before it stamps.                           *)
WarmingOnceStamped == HasWarmup /\ warmup = "running"
Warming == HasWarmup /\ warmup # "over"

(* The first run stamps the start of the warm-up.                          *)
StampWarmup ==
  warmup' = IF warmup # "none" THEN warmup ELSE IF HasWarmup THEN "running" ELSE "over"

(* The stance is held, so that the robot recovers from the drop.           *)
HoldDefault ==
  /\ Ready /\ Warming /\ StampWarmup
  /\ target_pos_' = Default /\ decim_count_' = 0
  /\ published' = Default
  /\ UNCHANGED <<inputVars, switchVars, shaper_, missed>>

(* Between policy steps the last target is sent again.                     *)
RepeatTarget ==
  /\ Ready /\ ~Warming /\ StampWarmup
  /\ decim_count_ + 1 < Decimation /\ decim_count_' = decim_count_ + 1
  /\ published' = target_pos_
  /\ UNCHANGED <<inputVars, switchVars, shaper_, target_pos_, missed>>

(* A slip: the gate wants both.  Then as in the code: the turn command it  *)
(* looks at is the one received, not the shaped one.                       *)
MovingBoth(out) == out.vx > StandVx /\ Abs(cmd.wz) > StandYaw
Moving(out) == out.vx > StandVx \/ Abs(cmd.wz) > StandYaw

(* Neither forward nor turn: stand, with the hips holding the heading.     *)
Stand(out) ==
  /\ ~Moving(out)
  /\ shaper_' = IF StationKeep THEN out.state ELSE [out.state EXCEPT !.steer_cmd = 0]
  /\ target_pos_' = [kind |-> "stance", steer |-> shaper_'.steer_cmd]
  /\ published' = target_pos_' /\ missed' = 0

Walk(out) ==
  /\ Moving(out)
  /\ shaper_' = out.state
  /\ target_pos_' = [kind |-> "gait", steer |-> out.state.steer_cmd]
  /\ published' = target_pos_' /\ missed' = 0

(* The network fails: the run returns before anything is published.        *)
InferenceError(out) ==
  /\ Moving(out)
  /\ shaper_' = out.state
  /\ missed' = IF missed < MaxMissed THEN missed + 1 ELSE missed
  /\ UNCHANGED <<target_pos_, published>>

PolicyStep ==
  /\ Ready /\ ~Warming /\ StampWarmup
  /\ decim_count_ + 1 >= Decimation /\ decim_count_' = 0
  /\ \E out \in {Shape(shaper_, cmd, stale, have_odom_yaw_, place, yaw)} :
       Stand(out) \/ Walk(out) \/ InferenceError(out)
  /\ UNCHANGED <<inputVars, switchVars>>

ControlLoop == HoldDefault \/ RepeatTarget \/ PolicyStep

Next ==
  \/ \E p \in Places, a \in Angles : OnOdom(p, a)
  \/ \E c \in Commands : OnCmd(c)
  \/ OnJoints \/ Timeout \/ WarmupOver \/ OnSetEnabled \/ OnLoadPolicy
  \/ ControlLoop

(* The timer keeps running the loop: while nothing stops it, each run      *)
(* either holds the default pose or counts towards the next policy step    *)
(* (fairness is stated on the count, which every such run changes if       *)
(* Decimation > 1).  The warm-up ends.                                     *)
Counts ==
  Ready /\ ~Warming /\ decim_count_' = (decim_count_ + 1) % Decimation

Spec ==
  /\ Init /\ [][Next]_vars
  /\ WF_vars(HoldDefault) /\ WF_decim_count_(Counts) /\ WF_vars(WarmupOver)

----------------------------------------------------------------------------
TypeOK ==
  /\ enabled_ \in BOOLEAN /\ session_ \in BOOLEAN /\ have_joints_ \in BOOLEAN
  /\ have_odom_yaw_ \in BOOLEAN /\ place \in Places /\ yaw \in Angles
  /\ cmd \in Commands \cup {[vx |-> 0, wz |-> 0]} /\ stale \in BOOLEAN
  /\ warmup \in {"none", "running", "over"}
  /\ decim_count_ \in 0 .. Decimation - 1
  /\ shaper_ \in ShaperState
  /\ target_pos_ \in Targets /\ published \in Targets \cup {Nothing}
  /\ missed \in 0 .. MaxMissed

(* The zero-filled target_pos_ of a new node never reaches the servos,     *)
(* whichever run of the loop is the first that may publish and whatever    *)
(* the count of the decimation is then.                                    *)
NoRawTarget == HasWarmup => published.kind # "zero"

(* "Prevents sudden hip jerks" (command_shaper.hpp:183-184): through       *)
(* standing, walking, disarming, loss of commands and the latching of a    *)
(* new heading, the hips move by at most MaxDelta per policy step.  A step *)
(* whose inference fails moves the limiter but not the hips, so the next   *)
(* one that works makes up for it.                                         *)
SmoothSteering ==
  [][StationKeep /\ missed < MaxMissed
       => Abs(published'.steer - published.steer) <= MaxDelta * (1 + missed)]_vars

(* The robot is out of the dead band around the point it stopped at.       *)
Displaced ==
  PositionHold /\ have_odom_yaw_ /\ Dist(place, shaper_.hold) > Deadband

(* "Stale /cmd_vel -> command zeroed (safe stop)" (policy.yaml:47) as far  *)
(* as it holds: when commands stop and the last one was no turn, an armed  *)
(* robot comes to stand, unless it has to walk back to its stop point.     *)
StandsWhenCommandsStop ==
  (Ready /\ stale /\ Abs(cmd.wz) <= StandYaw)
    ~> \/ published.kind # "gait" \/ Displaced
       \/ ~Ready \/ ~stale

(* An armed robot with a fresh command to walk or to turn starts to walk   *)
(* after the warm-up, unless its network fails (with fwd_min_scale at its  *)
(* 1.0 of policy.yaml: a stronger throttle may keep it standing).          *)
Asked == cmd.vx > StandVx \/ Abs(cmd.wz) > StandYaw
WalksWhenCommanded ==
  (Ready /\ ~stale /\ Asked)
    ~> \/ published.kind = "gait" \/ missed > 0
       \/ ~Ready \/ stale \/ ~Asked
=============================================================================
