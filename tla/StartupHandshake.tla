-------------------------- MODULE StartupHandshake --------------------------
(***************************************************************************)
(* How the control loop starts.  policy_controller sends joint commands    *)
(* only after it has seen a /joint_states message; leg_odometry publishes  *)
(* /joint_states as the echo of a command, and until its first command as  *)
(* the default pose, from a timer.  web_control, when it runs, sends       *)
(* commands as well.  The three processes start, stop and start again in   *)
(* any order.                                                              *)
(*                                                                         *)
(* Topics.  /position_controller/commands has a queue of one, /joint_states*)
(* a queue of Depth at the policy.  A message to a process that is not up, *)
(* or not discovered yet, is lost; /joint_states is best effort and may be *)
(* lost at any time.  Joint values are abstracted to which of the two      *)
(* publishers of leg_odometry they come from; a message with other than    *)
(* twelve joints changes nothing here.                                     *)
(***************************************************************************)
EXTENDS Naturals, Sequences

CONSTANTS
  Depth,            (* queue of the policy's /joint_states subscription      *)
  MaxPolicyStarts,  (* bound: starts of policy_controller                  *)
  MaxLegStarts,     (* bound: starts of leg_odometry                       *)
  MaxWebStarts      (* bound: starts of web_control                        *)

ASSUME DepthAssumption == Depth \in Nat \ {0}
ASSUME StartsAssumption ==
  MaxPolicyStarts \in Nat /\ MaxLegStarts \in Nat /\ MaxWebStarts \in Nat

VARIABLES
  leg,          (* leg_odometry: the process                               *)
  have_cmd_,    (* leg_odometry: a command has arrived                     *)
  init_timer_,  (* leg_odometry: the timer of the default pose runs        *)
  cmdQueue,     (* leg_odometry: a command waits                           *)
  policy,       (* policy_controller: the process; it loads the model      *)
                (* before it subscribes to anything                        *)
  session_,     (* policy_controller: a model is loaded                    *)
  enabled_,     (* policy_controller: armed                                *)
  have_joints_, (* policy_controller: a joint state has arrived            *)
  jointQueue,   (* policy_controller: joint states that wait               *)
  feedback,     (* policy_controller: the joint state it acts on           *)
  web,          (* web_control: the process                                *)
  policyStarts, legStarts, webStarts   (* how often each was started       *)

legVars    == <<leg, have_cmd_, init_timer_, cmdQueue, legStarts>>
policyVars == <<policy, session_, enabled_, have_joints_, jointQueue, feedback,
                policyStarts>>
webVars    == <<web, webStarts>>
vars       == <<legVars, policyVars, webVars>>

Process == {"down", "up"}
(* A joint state: what it shows, and which life of leg_odometry sent it.   *)
JointState == [pose : {"default", "echo"}, life : Nat]
NoState    == [pose |-> "none", life |-> 0]

Init ==
  /\ leg = "down" /\ have_cmd_ = FALSE /\ init_timer_ = FALSE /\ cmdQueue = FALSE
  /\ policy = "down" /\ session_ = FALSE /\ enabled_ = FALSE
  /\ have_joints_ = FALSE /\ jointQueue = <<>> /\ feedback = NoState
  /\ web = "down"
  /\ policyStarts = 0 /\ legStarts = 0 /\ webStarts = 0

----------------------------------------------------------------------------
(* Topics.                                                                 *)

(* KEEP_LAST: a full queue drops its oldest message.                       *)
Enqueue(m) ==
  jointQueue' = Append(IF Len(jointQueue) = Depth THEN Tail(jointQueue)
                                                  ELSE jointQueue, m)

DeliverJointState(pose) ==
  policy = "up" /\ Enqueue([pose |-> pose, life |-> legStarts])

PublishJointState(pose) == DeliverJointState(pose) \/ UNCHANGED jointQueue

DeliverCommand == leg = "up" /\ cmdQueue' = TRUE
PublishCommand == DeliverCommand \/ UNCHANGED cmdQueue

----------------------------------------------------------------------------
(* leg_odometry                                                            *)

LegStart ==
  /\ leg = "down" /\ legStarts < MaxLegStarts
  /\ leg' = "up" /\ have_cmd_' = FALSE /\ init_timer_' = TRUE /\ cmdQueue' = FALSE
  /\ legStarts' = legStarts + 1
  /\ UNCHANGED <<policyVars, webVars>>

LegStop ==
  /\ leg = "up" /\ legStarts < MaxLegStarts
  /\ leg' = "down" /\ init_timer_' = FALSE /\ cmdQueue' = FALSE
  /\ UNCHANGED <<have_cmd_, legStarts, policyVars, webVars>>

(* A slip: the command does not latch.                                     *)
OnCmdNoLatch ==
  /\ leg = "up" /\ cmdQueue
  /\ cmdQueue' = FALSE
  /\ PublishJointState("echo")
  /\ UNCHANGED <<leg, have_cmd_, init_timer_, legStarts, policy, session_,
                 enabled_, have_joints_, feedback, policyStarts, webVars>>

(* on_cmd: latch, then publish the filtered command as the joint state     *)
OnCmd ==
  /\ leg = "up" /\ cmdQueue
  /\ cmdQueue' = FALSE /\ have_cmd_' = TRUE
  /\ PublishJointState("echo")
  /\ UNCHANGED <<leg, init_timer_, legStarts, policy, session_, enabled_,
                 have_joints_, feedback, policyStarts, webVars>>

(* A slip: a timer that stops by itself after some ticks.                  *)
PublishInitialBounded ==
  /\ leg = "up" /\ init_timer_
  /\ init_timer_' \in {~have_cmd_, FALSE}
  /\ IF have_cmd_ THEN UNCHANGED jointQueue ELSE PublishJointState("default")
  /\ UNCHANGED <<leg, have_cmd_, cmdQueue, legStarts, policy, session_, enabled_,
                 have_joints_, feedback, policyStarts, webVars>>

(* publish_initial_joint_states: every 200 ms until the first command      *)
PublishInitial ==
  /\ leg = "up" /\ init_timer_
  /\ init_timer_' = ~have_cmd_
  /\ IF have_cmd_ THEN UNCHANGED jointQueue ELSE PublishJointState("default")
  /\ UNCHANGED <<leg, have_cmd_, cmdQueue, legStarts, policy, session_, enabled_,
                 have_joints_, feedback, policyStarts, webVars>>

----------------------------------------------------------------------------
(* policy_controller                                                       *)

PolicyStart ==
  /\ policy = "down" /\ policyStarts < MaxPolicyStarts
  /\ policy' = "loading" /\ policyStarts' = policyStarts + 1
  /\ UNCHANGED <<session_, enabled_, have_joints_, jointQueue, feedback, legVars,
                 webVars>>

(* The constructor's load_model may fail; then the node idles.             *)
PolicyLoaded ==
  /\ policy = "loading"
  /\ policy' = "up" /\ session_' \in BOOLEAN /\ enabled_' \in BOOLEAN
  /\ have_joints_' = FALSE /\ jointQueue' = <<>> /\ feedback' = NoState
  /\ UNCHANGED <<policyStarts, legVars, webVars>>

PolicyStop ==
  /\ policy # "down" /\ policyStarts < MaxPolicyStarts
  /\ policy' = "down" /\ session_' = FALSE /\ enabled_' = FALSE
  /\ have_joints_' = FALSE /\ jointQueue' = <<>> /\ feedback' = NoState
  /\ UNCHANGED <<policyStarts, legVars, webVars>>

OnJoints ==
  /\ policy = "up" /\ jointQueue # <<>>
  /\ have_joints_' = TRUE
  /\ feedback' = Head(jointQueue) /\ jointQueue' = Tail(jointQueue)
  /\ UNCHANGED <<policy, session_, enabled_, policyStarts, legVars, webVars>>

OnSetEnabled ==
  /\ policy = "up"
  /\ enabled_' \in BOOLEAN
  /\ UNCHANGED <<policy, session_, have_joints_, jointQueue, feedback,
                 policyStarts, legVars, webVars>>

(* A model that fails to load leaves the one in use.                       *)
OnLoadPolicy ==
  /\ policy = "up"
  /\ session_' \in {session_, TRUE}
  /\ UNCHANGED <<policy, enabled_, have_joints_, jointQueue, feedback,
                 policyStarts, legVars, webVars>>

(* A slip: the loop does not wait for joint states.                        *)
ControlLoopUngated ==
  /\ policy = "up" /\ enabled_ /\ session_
  /\ PublishCommand
  /\ UNCHANGED <<leg, have_cmd_, init_timer_, legStarts, policyVars, webVars>>

ControlLoop ==
  /\ policy = "up" /\ enabled_ /\ session_ /\ have_joints_
  /\ PublishCommand
  /\ UNCHANGED <<leg, have_cmd_, init_timer_, legStarts, policyVars, webVars>>

----------------------------------------------------------------------------
(* web_control: a heartbeat of the last pose from start to stop            *)

WebStart ==
  /\ web = "down" /\ webStarts < MaxWebStarts
  /\ web' = "up" /\ webStarts' = webStarts + 1
  /\ UNCHANGED <<legVars, policyVars>>

WebStop ==
  /\ web = "up" /\ web' = "down"
  /\ UNCHANGED <<webStarts, legVars, policyVars>>

Heartbeat ==
  /\ web = "up"
  /\ PublishCommand
  /\ UNCHANGED <<leg, have_cmd_, init_timer_, legStarts, policyVars, webVars>>

Next ==
  \/ LegStart \/ LegStop \/ OnCmd \/ PublishInitial
  \/ PolicyStart \/ PolicyLoaded \/ PolicyStop \/ OnJoints
  \/ OnSetEnabled \/ OnLoadPolicy \/ ControlLoop
  \/ WebStart \/ WebStop \/ Heartbeat

(* Processes that are up keep running their callbacks, a process that is   *)
(* loading gets done, and a topic whose publisher keeps publishing gets    *)
(* through again and again.  Starting and stopping is the operator's.      *)
Fairness ==
  /\ WF_vars(OnCmd) /\ WF_vars(OnJoints) /\ WF_vars(PolicyLoaded)
  /\ SF_vars(OnCmd /\ DeliverJointState("echo"))
  /\ SF_vars(PublishInitial /\ DeliverJointState("default"))
  /\ SF_vars(ControlLoop /\ DeliverCommand)

Spec == Init /\ [][Next]_vars
FairSpec == Spec /\ Fairness

----------------------------------------------------------------------------
TypeOK ==
  /\ leg \in Process /\ have_cmd_ \in BOOLEAN /\ init_timer_ \in BOOLEAN
  /\ cmdQueue \in BOOLEAN
  /\ policy \in {"down", "loading", "up"} /\ session_ \in BOOLEAN
  /\ enabled_ \in BOOLEAN /\ have_joints_ \in BOOLEAN
  /\ jointQueue \in Seq(JointState) /\ Len(jointQueue) <= Depth
  /\ feedback \in JointState \cup {NoState}
  /\ web \in Process
  /\ policyStarts \in Nat /\ legStarts \in Nat /\ webStarts \in Nat

(* The handshake stays open: while a policy that is up has seen no joint   *)
(* state, leg_odometry keeps offering the default pose, whichever of them  *)
(* starts first, however long the model takes to load and however often    *)
(* leg_odometry restarts, as long as this is the policy's first life and   *)
(* nobody else sends commands (legged_odometry_node.cpp:134-145).          *)
HandshakeOpen ==
  policyStarts <= 1 /\ webStarts = 0 /\ leg = "up" /\ policy = "up"
      /\ ~have_joints_
    => init_timer_ /\ ~have_cmd_

(* "no interleaved timer stream" (legged_odometry_node.cpp:143): once the  *)
(* policy has seen the echo of a command, the same leg_odometry never      *)
(* feeds it the default pose again.                                        *)
FeedbackStaysCommanded ==
  [][feedback.pose = "echo" /\ feedback'.life = feedback.life
       => feedback'.pose = "echo"]_vars

(* The loop closes: in the policy's first life and without other           *)
(* commanders, an armed policy with a model and a leg_odometry that stay   *)
(* up end with the policy acting on nothing but that leg_odometry's echo   *)
(* of commands, however often leg_odometry restarted before.               *)
Closing   == leg = "up" /\ policy = "up" /\ enabled_ /\ session_
Closed    == feedback.pose = "echo" /\ feedback.life = legStarts
Unrivaled == policyStarts <= 1 /\ webStarts = 0
LoopCloses == <>[]Closing /\ []Unrivaled => <>[]Closed
=============================================================================
