------------------------- MODULE JointCommandProofs -------------------------
(***************************************************************************)
(* Proofs about the nodes that send joint commands.                        *)
(*                                                                         *)
(* Their start-up (StartupHandshake), for every queue depth and every      *)
(* number of starts: type correctness, HandshakeOpen, and that the default *)
(* pose never follows the echo of a command (FeedbackStaysCommanded).      *)
(*                                                                         *)
(* The threads of web control (WebControl), for any pages and any number   *)
(* of requests: the safety part of PoseSettles.                            *)
(***************************************************************************)
EXTENDS StartupHandshake, WebControl, SequenceTheorems, TLAPS

(* What the argument needs of the types.                                   *)
Counted ==
  /\ policyStarts \in Nat /\ webStarts \in Nat
  /\ have_cmd_ \in BOOLEAN /\ cmdQueue \in BOOLEAN /\ init_timer_ \in BOOLEAN

(* A process that is not down has been started.                            *)
Started ==
  /\ policyStarts = 0 => policy = "down"
  /\ webStarts = 0 => web = "down"

(* The policy, in its first life at most, has seen no joint state.         *)
Waiting ==
  /\ policyStarts <= 1 /\ webStarts = 0
  /\ policyStarts = 0 \/ policy = "loading" \/ (policy = "up" /\ ~have_joints_)

(* Then nobody has ever sent a command, and none is under way.             *)
NoCommandYet ==
  Waiting => ~cmdQueue /\ ~have_cmd_ /\ (leg = "up" => init_timer_)

IInv == Counted /\ Started /\ NoCommandYet

----------------------------------------------------------------------------
(* Every step preserves the inductive invariant.                           *)
LEMMA Step == IInv /\ [Next]_vars => IInv'
<1> SUFFICES ASSUME IInv, [Next]_vars PROVE IInv'
  OBVIOUS
<1> USE DEF IInv, Counted, Started, Waiting, NoCommandYet, legVars, policyVars,
            webVars, PublishCommand, DeliverCommand
(* leg_odometry: only a command that waits sets the latch.                 *)
<1>1. CASE LegStart \/ LegStop
  <2>1. UNCHANGED <<policy, have_joints_, policyStarts, web, webStarts>>
    BY <1>1 DEF LegStart, LegStop
  <2>2. /\ cmdQueue' = FALSE /\ have_cmd_' \in {FALSE, have_cmd_}
        /\ init_timer_' \in BOOLEAN /\ (leg' = "up" => init_timer_')
    BY <1>1 DEF LegStart, LegStop
  <2>3. Counted' /\ Started'
    BY <2>1, <2>2
  <2>4. Waiting' => Waiting
    BY <2>1
  <2>5. Waiting' => ~cmdQueue' /\ ~have_cmd_' /\ (leg' = "up" => init_timer_')
    BY <2>2, <2>4
  <2>6. QED
    BY <2>3, <2>5
<1>2. CASE OnCmd
  BY <1>2 DEF OnCmd
<1>3. CASE PublishInitial
  BY <1>3 DEF PublishInitial
(* policy_controller: it sends only when it no longer waits.               *)
<1>4. CASE PolicyStart
  BY <1>4 DEF PolicyStart
<1>5. CASE PolicyLoaded \/ PolicyStop
  BY <1>5 DEF PolicyLoaded, PolicyStop
<1>6. CASE OnJoints
  BY <1>6 DEF OnJoints
<1>7. CASE OnSetEnabled \/ OnLoadPolicy \/ UNCHANGED vars
  <2>1. UNCHANGED <<leg, have_cmd_, init_timer_, cmdQueue, policy, have_joints_,
                    policyStarts, web, webStarts>>
    BY <1>7 DEF OnSetEnabled, OnLoadPolicy, vars
  <2>2. QED
    BY <2>1
<1>8. CASE ControlLoop
  <2>1. ~Waiting
    BY <1>8 DEF ControlLoop
  <2>2. UNCHANGED <<policyVars, webVars, have_cmd_, init_timer_>> /\ cmdQueue' \in BOOLEAN
    BY <1>8 DEF ControlLoop
  <2>3. ~Waiting'
    BY <2>1, <2>2
  <2>4. QED
    BY <2>2, <2>3
(* web_control: once it has been started nothing is claimed.               *)
<1>9. CASE WebStart \/ WebStop
  BY <1>9 DEF WebStart, WebStop
<1>10. CASE Heartbeat
  BY <1>10 DEF Heartbeat
<1>11. QED
  BY <1>1, <1>2, <1>3, <1>4, <1>5, <1>6, <1>7, <1>8, <1>9, <1>10 DEF Next

(* The startup handshake cannot close early: in the policy's first life,   *)
(* and while no one else commands the legs, leg_odometry keeps offering    *)
(* the default pose until the policy has seen a joint state.               *)
THEOREM HandshakeStaysOpen == Spec => []HandshakeOpen
<1>1. Init => IInv
  <2> SUFFICES ASSUME Init PROVE IInv
    OBVIOUS
  <2>1. /\ policyStarts = 0 /\ webStarts = 0
        /\ policy = "down" /\ web = "down" /\ leg = "down"
    BY DEF Init
  <2>2. cmdQueue = FALSE /\ have_cmd_ = FALSE /\ init_timer_ = FALSE
    BY DEF Init
  <2>3. QED
    BY <2>1, <2>2 DEF IInv, Counted, Started, NoCommandYet
<1>2. IInv => HandshakeOpen
  BY DEF IInv, Counted, Waiting, NoCommandYet, HandshakeOpen
<1>3. QED
  BY <1>1, <1>2, Step, PTL DEF Spec

-----------------------------------------------------------------------------
(* Topics.                                                                 *)
LEMMA EnqueueTypes ==
  ASSUME NEW m \in JointState, jointQueue \in Seq(JointState),
         Len(jointQueue) <= Depth, Enqueue(m)
  PROVE  jointQueue' \in Seq(JointState) /\ Len(jointQueue') <= Depth
<1>1. CASE Len(jointQueue) = Depth
  <2>1. jointQueue # <<>>
    BY <1>1, DepthAssumption
  <2>2. Tail(jointQueue) \in Seq(JointState) /\ Len(Tail(jointQueue)) = Depth - 1
    BY <1>1, <2>1, DepthAssumption
  <2> QED BY <1>1, <2>2, DepthAssumption DEF Enqueue
<1>2. CASE Len(jointQueue) # Depth
  BY <1>2, DepthAssumption DEF Enqueue
<1> QED BY <1>1, <1>2

LEMMA PublishTypes ==
  ASSUME TypeOK, NEW pose \in {"default", "echo"}, PublishJointState(pose)
  PROVE  jointQueue' \in Seq(JointState) /\ Len(jointQueue') <= Depth
<1>1. CASE UNCHANGED jointQueue
  BY <1>1 DEF TypeOK
<1>2. CASE DeliverJointState(pose)
  <2>1. [pose |-> pose, life |-> legStarts] \in JointState
    BY DEF TypeOK, JointState
  <2> QED BY <1>2, <2>1, EnqueueTypes DEF TypeOK, DeliverJointState
<1> QED BY <1>1, <1>2 DEF PublishJointState

(* Types hold at first, and every step keeps them.                         *)
LEMMA InitTypes == Init => TypeOK
<1> SUFFICES ASSUME Init PROVE TypeOK
  OBVIOUS
<1>1. jointQueue = <<>> /\ <<>> \in Seq(JointState) /\ Len(<<>>) = 0
  BY DEF Init
<1>2. have_cmd_ \in BOOLEAN /\ init_timer_ \in BOOLEAN /\ cmdQueue \in BOOLEAN
  BY DEF Init
<1>3. session_ \in BOOLEAN /\ enabled_ \in BOOLEAN /\ have_joints_ \in BOOLEAN
  BY DEF Init
<1>4. leg \in Process /\ policy \in {"down", "loading", "up"} /\ web \in Process
      /\ feedback \in JointState \cup {NoState}
      /\ policyStarts \in Nat /\ legStarts \in Nat /\ webStarts \in Nat
  BY DEF Init, Process
<1> QED BY <1>1, <1>2, <1>3, <1>4, DepthAssumption DEF TypeOK

(* One case per action; only a publication can lengthen the queue.         *)
LEMMA TypeStep == TypeOK /\ [Next]_vars => TypeOK'
<1> SUFFICES ASSUME TypeOK, [Next]_vars PROVE TypeOK'
  OBVIOUS
<1> USE DEF TypeOK, legVars, policyVars, webVars, Process
<1>0. <<>> \in Seq(JointState) /\ Len(<<>>) = 0 /\ 0 <= Depth
  BY DepthAssumption
<1>1. CASE LegStart \/ LegStop
  <2>1. have_cmd_' \in BOOLEAN /\ init_timer_' \in BOOLEAN /\ cmdQueue' \in BOOLEAN
    BY <1>1 DEF LegStart, LegStop
  <2>2. leg' \in Process /\ legStarts' \in Nat /\ UNCHANGED <<policyVars, webVars>>
    BY <1>1 DEF LegStart, LegStop
  <2> QED BY <2>1, <2>2
<1>2. CASE OnCmd
  <2>1. jointQueue' \in Seq(JointState) /\ Len(jointQueue') <= Depth
    BY <1>2, PublishTypes DEF OnCmd
  <2> QED BY <1>2, <2>1 DEF OnCmd
<1>3. CASE PublishInitial
  <2>1. jointQueue' \in Seq(JointState) /\ Len(jointQueue') <= Depth
    BY <1>3, PublishTypes DEF PublishInitial
  <2> QED BY <1>3, <2>1 DEF PublishInitial
<1>4. CASE PolicyStart
  BY <1>4 DEF PolicyStart
<1>5. CASE PolicyLoaded
  BY <1>0, <1>5 DEF PolicyLoaded
<1>6. CASE PolicyStop
  BY <1>0, <1>6 DEF PolicyStop
<1>7. CASE OnJoints
  <2>1. jointQueue' \in Seq(JointState) /\ Len(jointQueue') <= Depth
        /\ feedback' \in JointState
    BY <1>7, DepthAssumption DEF OnJoints
  <2> QED BY <1>7, <2>1 DEF OnJoints
<1>8. CASE OnSetEnabled \/ OnLoadPolicy
  BY <1>8 DEF OnSetEnabled, OnLoadPolicy
<1>9. CASE ControlLoop \/ Heartbeat
  <2>1. cmdQueue' \in BOOLEAN
    BY <1>9 DEF ControlLoop, Heartbeat, PublishCommand, DeliverCommand
  <2> QED BY <1>9, <2>1 DEF ControlLoop, Heartbeat
<1>10. CASE WebStart \/ WebStop
  BY <1>10 DEF WebStart, WebStop
<1>11. CASE UNCHANGED vars
  BY <1>11 DEF vars
<1> QED BY <1>1, <1>2, <1>3, <1>4, <1>5, <1>6, <1>7, <1>8, <1>9, <1>10, <1>11
      DEF Next

(* Type correctness, with: the policy's queue of joint states keeps its    *)
(* depth (KEEP_LAST), whatever is published while the policy does not spin.*)
THEOREM TypeCorrect == Spec => []TypeOK
BY InitTypes, TypeStep, PTL DEF Spec

-----------------------------------------------------------------------------
(* The order of joint states.                                              *)

(* A joint state on its way is of a life of leg_odometry that has begun;   *)
(* an echo of the current life is proof that a command has latched.        *)
Sent(m, lives, latched) ==
  /\ m \in JointState /\ m.life \in 1 .. lives
  /\ m.pose = "echo" /\ m.life = lives => latched

(* After an echo no default pose of the same life comes.                   *)
Follows(m, n) == m.pose = "echo" /\ n.life = m.life => n.pose = "echo"

AllSent ==
  /\ leg = "up" => legStarts > 0
  /\ \A i \in 1 .. Len(jointQueue) : Sent(jointQueue[i], legStarts, have_cmd_)
  /\ feedback = NoState \/ Sent(feedback, legStarts, have_cmd_)

InOrder ==
  /\ \A i, j \in 1 .. Len(jointQueue) : i < j => Follows(jointQueue[i], jointQueue[j])
  /\ \A i \in 1 .. Len(jointQueue) : Follows(feedback, jointQueue[i])

OrderInv == TypeOK /\ AllSent /\ InOrder

(* What was sent stays sent: by a latch that never falls within a life,    *)
(* and because a restart makes every joint state one of an earlier life.   *)
LEMMA SentStays ==
  ASSUME NEW m, NEW lives \in Nat, NEW latched, NEW lives2, NEW latched2,
         Sent(m, lives, latched),
         \/ lives2 = lives /\ (latched => latched2)
         \/ lives2 = lives + 1
  PROVE  Sent(m, lives2, latched2)
<1>1. CASE lives2 = lives /\ (latched => latched2)
  BY <1>1 DEF Sent
<1>2. CASE lives2 = lives + 1
  BY <1>2 DEF Sent
<1> QED BY <1>1, <1>2

(* A full queue loses its oldest joint state, then the new one is last.    *)
LEMMA EnqueueShape ==
  ASSUME NEW m \in JointState, jointQueue \in Seq(JointState), Enqueue(m)
  PROVE  \E d \in {0, 1} :
           /\ d <= Len(jointQueue) /\ Len(jointQueue') = Len(jointQueue) - d + 1
           /\ \A i \in 1 .. Len(jointQueue) - d : jointQueue'[i] = jointQueue[i + d]
           /\ jointQueue'[Len(jointQueue) - d + 1] = m
<1> DEFINE n == Len(jointQueue)
<1>1. n \in Nat
  OBVIOUS
<1>2. CASE n = Depth
  <2>1. n >= 1 /\ jointQueue # <<>>
    BY <1>2, DepthAssumption
  <2>2. /\ Tail(jointQueue) \in Seq(JointState) /\ Len(Tail(jointQueue)) = n - 1
        /\ \A i \in 1 .. n - 1 : Tail(jointQueue)[i] = jointQueue[i + 1]
    BY <2>1
  <2>3. jointQueue' = Append(Tail(jointQueue), m)
    BY <1>2 DEF Enqueue
  <2>4. /\ Len(jointQueue') = n - 1 + 1 /\ jointQueue'[n - 1 + 1] = m
        /\ \A i \in 1 .. n - 1 : jointQueue'[i] = jointQueue[i + 1]
    BY <1>1, <2>1, <2>2, <2>3
  <2> QED BY <2>1, <2>4
<1>3. CASE n # Depth
  <2>1. jointQueue' = Append(jointQueue, m)
    BY <1>3 DEF Enqueue
  <2>2. /\ Len(jointQueue') = n - 0 + 1 /\ jointQueue'[n - 0 + 1] = m
        /\ \A i \in 1 .. n - 0 : jointQueue'[i] = jointQueue[i + 0]
    BY <1>1, <2>1
  <2> QED BY <1>1, <2>2
<1> QED BY <1>2, <1>3

(* A publication is in order if the new joint state is sent, and follows   *)
(* all that are on their way.                                              *)
LEMMA PublishInOrder ==
  ASSUME OrderInv, NEW pose \in {"default", "echo"}, PublishJointState(pose),
         UNCHANGED <<feedback, legStarts, leg>>, have_cmd_ => have_cmd_', leg = "up",
         pose = "echo" => have_cmd_', pose = "default" => ~have_cmd_
  PROVE  AllSent' /\ InOrder'
<1> DEFINE m == [pose |-> pose, life |-> legStarts]
<1>1. jointQueue \in Seq(JointState) /\ legStarts \in Nat /\ legStarts > 0
  BY DEF OrderInv, TypeOK, AllSent
<1>2. m \in JointState /\ m.pose = pose /\ m.life = legStarts
  BY <1>1 DEF JointState
<1>3. Sent(m, legStarts', have_cmd_')
  BY <1>1, <1>2 DEF Sent
<1>4. \A x : Sent(x, legStarts, have_cmd_) =>
              Sent(x, legStarts', have_cmd_') /\ Follows(x, m)
  BY <1>1, <1>2, SentStays DEF Sent, Follows
<1>5. /\ feedback = NoState \/ Sent(feedback, legStarts', have_cmd_')
      /\ Follows(feedback, m)
  BY <1>4 DEF OrderInv, AllSent, Follows, NoState
<1>6. /\ \A i \in 1 .. Len(jointQueue) : Sent(jointQueue[i], legStarts', have_cmd_')
      /\ \A i \in 1 .. Len(jointQueue) : Follows(jointQueue[i], m)
  BY <1>4 DEF OrderInv, AllSent
<1>7. CASE UNCHANGED jointQueue
  BY <1>1, <1>5, <1>6, <1>7 DEF OrderInv, AllSent, InOrder
<1>8. CASE Enqueue(m)
  <2>1. PICK d \in {0, 1} :
          /\ d <= Len(jointQueue) /\ Len(jointQueue') = Len(jointQueue) - d + 1
          /\ \A i \in 1 .. Len(jointQueue) - d : jointQueue'[i] = jointQueue[i + d]
          /\ jointQueue'[Len(jointQueue) - d + 1] = m
    BY <1>1, <1>2, <1>8, EnqueueShape
  <2>2. Len(jointQueue) \in Nat
    BY <1>1
  <2>3. ASSUME NEW i \in 1 .. Len(jointQueue')
        PROVE  \/ i = Len(jointQueue) - d + 1 /\ jointQueue'[i] = m
               \/ /\ i \in 1 .. Len(jointQueue) - d /\ i + d \in 1 .. Len(jointQueue)
                  /\ jointQueue'[i] = jointQueue[i + d]
    BY <2>1, <2>2
  <2>4. ASSUME NEW i \in 1 .. Len(jointQueue')
        PROVE  Sent(jointQueue'[i], legStarts', have_cmd_') /\ Follows(feedback, jointQueue'[i])
    BY <1>3, <1>5, <1>6, <2>3 DEF OrderInv, InOrder
  <2>5. ASSUME NEW i \in 1 .. Len(jointQueue'), NEW j \in 1 .. Len(jointQueue'), i < j
        PROVE  Follows(jointQueue'[i], jointQueue'[j])
    <3>1. i \in 1 .. Len(jointQueue) - d /\ i + d \in 1 .. Len(jointQueue)
          /\ jointQueue'[i] = jointQueue[i + d]
      BY <2>1, <2>2, <2>3, <2>5
    <3>2. CASE jointQueue'[j] = m
      BY <1>6, <3>1, <3>2
    <3>3. CASE j + d \in 1 .. Len(jointQueue) /\ jointQueue'[j] = jointQueue[j + d]
      <4>1. i + d < j + d
        BY <2>1, <2>2, <2>5
      <4> QED BY <3>1, <3>3, <4>1 DEF OrderInv, InOrder
    <3> QED BY <2>3, <3>2, <3>3
  <2>6. AllSent'
    BY <1>1, <1>5, <2>4 DEF AllSent
  <2>7. InOrder'
    BY <2>4, <2>5 DEF InOrder
  <2> QED BY <2>6, <2>7
<1> QED BY <1>7, <1>8 DEF PublishJointState, DeliverJointState

(* Every step preserves the order.                                         *)
LEMMA OrderStep == OrderInv /\ [Next]_vars => AllSent' /\ InOrder'
<1> SUFFICES ASSUME OrderInv, [Next]_vars PROVE AllSent' /\ InOrder'
  OBVIOUS
<1> USE DEF legVars, policyVars, webVars
<1>1. CASE LegStart \/ LegStop
  <2>1. UNCHANGED <<jointQueue, feedback>> /\ legStarts \in Nat
    BY <1>1 DEF LegStart, LegStop, OrderInv, TypeOK
  <2>2. \/ legStarts' = legStarts /\ have_cmd_' = have_cmd_ /\ leg' = "down"
        \/ legStarts' = legStarts + 1
    BY <1>1 DEF LegStart, LegStop
  <2>3. \A x : Sent(x, legStarts, have_cmd_) => Sent(x, legStarts', have_cmd_')
    BY <2>1, <2>2, SentStays
  <2>4. leg' = "up" => legStarts' > 0
    BY <2>1, <2>2
  <2> QED BY <2>1, <2>3, <2>4 DEF OrderInv, AllSent, InOrder
<1>2. CASE OnCmd
  BY <1>2, PublishInOrder DEF OnCmd
<1>3. CASE PublishInitial
  <2>1. UNCHANGED <<feedback, legStarts, leg, have_cmd_>> /\ leg = "up"
    BY <1>3 DEF PublishInitial
  <2>2. CASE have_cmd_
    BY <1>3, <2>1, <2>2 DEF PublishInitial, OrderInv, AllSent, InOrder
  <2>3. CASE ~have_cmd_
    BY <1>3, <2>1, <2>3, PublishInOrder DEF PublishInitial
  <2> QED BY <2>2, <2>3
<1>4. CASE PolicyLoaded \/ PolicyStop
  <2>1. jointQueue' = <<>> /\ feedback' = NoState /\ UNCHANGED <<leg, legStarts, have_cmd_>>
    BY <1>4 DEF PolicyLoaded, PolicyStop
  <2>2. Len(jointQueue') = 0
    BY <2>1
  <2> QED BY <2>1, <2>2 DEF OrderInv, AllSent, InOrder
<1>5. CASE OnJoints
  <2>1. jointQueue \in Seq(JointState) /\ jointQueue # <<>>
    BY <1>5 DEF OnJoints, OrderInv, TypeOK
  <2>2. /\ feedback' = jointQueue[1] /\ 1 \in 1 .. Len(jointQueue) /\ Len(jointQueue) \in Nat
        /\ Len(jointQueue') = Len(jointQueue) - 1
        /\ \A i \in 1 .. Len(jointQueue) - 1 : jointQueue'[i] = jointQueue[i + 1]
    BY <1>5, <2>1 DEF OnJoints
  <2>3. UNCHANGED <<leg, legStarts, have_cmd_>>
    BY <1>5 DEF OnJoints
  <2>4. ASSUME NEW i \in 1 .. Len(jointQueue')
        PROVE  i + 1 \in 1 .. Len(jointQueue) /\ 1 < i + 1 /\ jointQueue'[i] = jointQueue[i + 1]
    BY <2>2
  <2>5. AllSent'
    BY <2>2, <2>3, <2>4 DEF OrderInv, AllSent
  <2>6. \A i \in 1 .. Len(jointQueue') : Follows(feedback', jointQueue'[i])
    BY <2>2, <2>4 DEF OrderInv, InOrder
  <2>7. ASSUME NEW i \in 1 .. Len(jointQueue'), NEW j \in 1 .. Len(jointQueue'), i < j
        PROVE  Follows(jointQueue'[i], jointQueue'[j])
    BY <2>2, <2>4, <2>7 DEF OrderInv, InOrder
  <2> QED BY <2>5, <2>6, <2>7 DEF InOrder
<1>6. CASE UNCHANGED <<leg, legStarts, have_cmd_, jointQueue, feedback>>
  BY <1>6 DEF OrderInv, AllSent, InOrder
<1>7. PolicyStart \/ OnSetEnabled \/ OnLoadPolicy \/ ControlLoop \/ WebStart \/ WebStop
        \/ Heartbeat \/ UNCHANGED vars
        => UNCHANGED <<leg, legStarts, have_cmd_, jointQueue, feedback>>
  BY DEF PolicyStart, OnSetEnabled, OnLoadPolicy, ControlLoop, WebStart, WebStop,
     Heartbeat, vars
<1> QED BY <1>1, <1>2, <1>3, <1>4, <1>5, <1>6, <1>7 DEF Next

(* "no interleaved timer stream" (legged_odometry_node.cpp:143), for every *)
(* queue depth, any losses and any restarts: after the echo of a command   *)
(* the same life of leg_odometry never feeds the policy the default pose.  *)
THEOREM EchoesAreNotOverwritten == Spec => FeedbackStaysCommanded
<1>1. Init => OrderInv
  <2> SUFFICES ASSUME Init PROVE OrderInv
    OBVIOUS
  <2>1. jointQueue = <<>> /\ Len(jointQueue) = 0 /\ feedback = NoState /\ leg = "down"
    BY DEF Init
  <2>2. AllSent /\ InOrder
    BY <2>1 DEF AllSent, InOrder
  <2> QED BY <2>2, InitTypes DEF OrderInv
<1>2. OrderInv /\ [Next]_vars => OrderInv'
  BY OrderStep, TypeStep DEF OrderInv
<1>3. OrderInv /\ [Next]_vars
        => [feedback.pose = "echo" /\ feedback'.life = feedback.life
              => feedback'.pose = "echo"]_vars
  <2> SUFFICES ASSUME OrderInv, [Next]_vars, feedback.pose = "echo",
                      feedback'.life = feedback.life
               PROVE  feedback'.pose = "echo"
    OBVIOUS
  <2>1. feedback.life > 0
    BY DEF OrderInv, AllSent, TypeOK, Sent, NoState
  <2>2. CASE PolicyLoaded \/ PolicyStop
    BY <2>1, <2>2 DEF PolicyLoaded, PolicyStop, NoState
  <2>3. CASE OnJoints
    <3>1. feedback' = jointQueue[1] /\ 1 \in 1 .. Len(jointQueue)
      BY <2>3 DEF OnJoints, OrderInv, TypeOK
    <3> QED BY <3>1 DEF OrderInv, InOrder, Follows
  <2>4. CASE UNCHANGED feedback
    BY <2>4
  <2> QED
    BY <2>2, <2>3, <2>4 DEF Next, vars, legVars, policyVars, webVars, LegStart, LegStop,
       OnCmd, PublishInitial, PolicyStart, OnSetEnabled, OnLoadPolicy, ControlLoop,
       WebStart, WebStop, Heartbeat
<1> QED BY <1>1, <1>2, <1>3, PTL DEF Spec, FeedbackStaysCommanded

-----------------------------------------------------------------------------
(***************************************************************************)
(* Web control.  Threads and heartbeat hold poses they took some time ago  *)
(* and publish them at any time, so what is shown may go back to an older  *)
(* pose.  What is kept in last_angles_ may not, and that brings it back.   *)
(***************************************************************************)
Stages == {"received", "refused", "taken", "published", "answered"}
Request == [page : Pages, path : {"/api/servos", "/api/home"}, valid : BOOLEAN,
            stage : Stages, after : SUBSET Nat]

(* The requests whose pose has been set.                                   *)
Taken == {r \in Accepted : posts[r].stage # "received"}

Requests ==
  /\ posts \in Seq(Request)
  /\ \A r \in DOMAIN posts :
       /\ posts[r].stage \in {"taken", "published"} => posts[r].valid
       /\ \A a \in posts[r].after : a \in DOMAIN posts /\ posts[a].stage = "answered"

(* The pose that is kept is not that of a request which had been answered  *)
(* before another one, whose pose was set since, was even made.            *)
LatestKept == \A q \in Taken : last_angles_ # 0 /\ last_angles_ \notin posts[q].after

(* What is kept or shown, or the heartbeat holds, was set by a request.    *)
FromRequests ==
  /\ last_angles_ \in {0} \cup Taken /\ shown \in {0} \cup Taken
  /\ beat = <<>> \/ \E r \in {0} \cup Taken : beat = <<r>>

WebInv == Requests /\ LatestKept /\ FromRequests

(* One thread goes from one stage to the next.                             *)
LEMMA StageChanges ==
  ASSUME posts \in Seq(Request), NEW r \in DOMAIN posts, NEW to \in Stages,
         posts' = [posts EXCEPT ![r].stage = to]
  PROVE  /\ posts' \in Seq(Request) /\ DOMAIN posts' = DOMAIN posts
         /\ Len(posts') = Len(posts)
         /\ \A q \in DOMAIN posts :
              /\ posts'[q].valid = posts[q].valid /\ posts'[q].after = posts[q].after
              /\ posts'[q].stage = IF q = r THEN to ELSE posts[q].stage
<1>1. /\ DOMAIN posts = 1 .. Len(posts) /\ Len(posts) \in Nat
      /\ \A q \in DOMAIN posts : posts[q] \in Request
  OBVIOUS
<1>2. posts' = [q \in 1 .. Len(posts) |->
                  IF q = r THEN [posts[r] EXCEPT !.stage = to] ELSE posts[q]]
  BY <1>1
<1>3. \A q \in DOMAIN posts :
        /\ posts'[q] \in Request
        /\ posts'[q].valid = posts[q].valid /\ posts'[q].after = posts[q].after
        /\ posts'[q].stage = IF q = r THEN to ELSE posts[q].stage
  BY <1>1, <1>2 DEF Request
<1>4. posts' \in [1 .. Len(posts) -> Request]
  BY <1>1, <1>2, <1>3
<1>5. posts' \in Seq(Request) /\ Len(posts') = Len(posts)
  BY <1>1, <1>4, IsASeq
<1> QED
  BY <1>1, <1>3, <1>5

(* A request that comes in changes none that is there.                     *)
LEMMA RequestComes ==
  ASSUME posts \in Seq(Request), NEW page \in Pages,
         NEW path \in {"/api/servos", "/api/home"}, NEW valid \in BOOLEAN,
         Post(page, path, valid)
  PROVE  /\ posts' \in Seq(Request)
         /\ Len(posts') = Len(posts) + 1 /\ DOMAIN posts' = 1 .. Len(posts) + 1
         /\ \A q \in DOMAIN posts : posts'[q] = posts[q]
         /\ posts'[Len(posts) + 1].stage = "received"
         /\ posts'[Len(posts) + 1].after = Answered
<1> DEFINE new == [page |-> page, path |-> path, valid |-> valid,
                   stage |-> "received", after |-> Answered]
<1>1. Answered \subseteq Nat
  BY DEF Answered
<1>2. new \in Request
  BY <1>1 DEF Request, Stages
<1>3. posts' = Append(posts, new)
  BY DEF Post
<1> HIDE DEF new
<1>4. /\ posts' \in Seq(Request) /\ Len(posts') = Len(posts) + 1
      /\ DOMAIN posts' = 1 .. Len(posts) + 1
      /\ \A q \in DOMAIN posts : posts'[q] = posts[q]
      /\ posts'[Len(posts) + 1] = new
  BY <1>2, <1>3, AppendProperties
<1> QED
  BY <1>4 DEF new

(* Every step of a page, a thread or the heartbeat keeps the invariant.    *)
LEMMA WebStep == WebInv /\ [WebNext]_pageVars => WebInv'
<1> SUFFICES ASSUME WebInv, [WebNext]_pageVars PROVE WebInv'
  OBVIOUS
<1>t. posts \in Seq(Request) /\ DOMAIN posts = 1 .. Len(posts) /\ Len(posts) \in Nat
  BY DEF WebInv, Requests
<1>1. ASSUME NEW p \in Pages, SendAngles(p) \/ HomeAll(p)
      PROVE  WebInv'
  <2>1. PICK path \in {"/api/servos", "/api/home"}, valid \in BOOLEAN :
          Post(p, path, valid)
    BY <1>1 DEF SendAngles, HomeAll
  <2>2. /\ posts' \in Seq(Request) /\ DOMAIN posts' = 1 .. Len(posts) + 1
        /\ \A q \in DOMAIN posts : posts'[q] = posts[q]
        /\ posts'[Len(posts) + 1].stage = "received"
        /\ posts'[Len(posts) + 1].after = Answered
    BY <1>t, <2>1, RequestComes
  <2>3. UNCHANGED <<last_angles_, beat, shown>>
    BY <2>1 DEF Post
  <2>4. Taken' = Taken
    BY <1>t, <2>2 DEF Taken, Accepted
  <2>5. \A q \in DOMAIN posts' : q \in DOMAIN posts \/ q = Len(posts) + 1
    BY <1>t, <2>2
  <2>6. Requests'
    BY <1>t, <2>2, <2>5 DEF WebInv, Requests, Answered
  <2>7. LatestKept'
    BY <2>2, <2>3, <2>4 DEF WebInv, LatestKept, Taken, Accepted
  <2>8. FromRequests'
    BY <2>3, <2>4 DEF WebInv, FromRequests
  <2> QED
    BY <2>6, <2>7, <2>8 DEF WebInv
<1>2. ASSUME NEW r \in DOMAIN posts, Refuse(r) \/ Publish(r) \/ Answer(r)
      PROVE  WebInv'
  <2>1. PICK to \in Stages \ {"received", "taken"} :
          posts' = [posts EXCEPT ![r].stage = to] /\ (to = "published" => Publish(r))
    BY <1>2 DEF Refuse, Publish, Answer, Stage, Stages
  <2>2. /\ posts' \in Seq(Request) /\ DOMAIN posts' = DOMAIN posts
        /\ \A q \in DOMAIN posts :
             /\ posts'[q].valid = posts[q].valid /\ posts'[q].after = posts[q].after
             /\ posts'[q].stage = IF q = r THEN to ELSE posts[q].stage
    BY <1>t, <2>1, StageChanges
  <2>3. posts[r].stage # "answered" /\ (posts[r].stage = "received" => ~posts[r].valid)
        /\ (Publish(r) => posts[r].stage = "taken")
    <3>1. CASE Refuse(r)
      BY <3>1 DEF Refuse, Publish, Stage
    <3>2. CASE Publish(r) \/ Answer(r)
      BY <3>2 DEF Publish, Answer, Stage
    <3> QED
      BY <1>2, <3>1, <3>2
  <2>4. Taken' = Taken
    BY <2>1, <2>2, <2>3 DEF Taken, Accepted
  <2>5. Requests'
    BY <2>1, <2>2, <2>3 DEF WebInv, Requests
  <2>6. last_angles_' = last_angles_ /\ beat' = beat
        /\ (shown' = shown \/ (shown' = r /\ Publish(r)))
    BY <1>2 DEF Refuse, Publish, Answer, Stage
  <2>7. shown' \in {0} \cup Taken
    BY <2>3, <2>6 DEF WebInv, Requests, FromRequests, Taken, Accepted
  <2>8. LatestKept'
    BY <2>2, <2>4, <2>6 DEF WebInv, LatestKept, Taken, Accepted
  <2>9. FromRequests'
    BY <2>4, <2>6, <2>7 DEF WebInv, FromRequests
  <2> QED
    BY <2>5, <2>8, <2>9 DEF WebInv
<1>3. ASSUME NEW r \in DOMAIN posts, Take(r)
      PROVE  WebInv'
  <2>1. /\ posts' = [posts EXCEPT ![r].stage = "taken"] /\ posts[r].stage = "received"
        /\ posts[r].valid /\ last_angles_' = r /\ UNCHANGED <<beat, shown>>
    BY <1>3 DEF Take, Stage
  <2>2. /\ posts' \in Seq(Request) /\ DOMAIN posts' = DOMAIN posts
        /\ \A q \in DOMAIN posts :
             /\ posts'[q].valid = posts[q].valid /\ posts'[q].after = posts[q].after
             /\ posts'[q].stage = IF q = r THEN "taken" ELSE posts[q].stage
    BY <1>t, <2>1, StageChanges DEF Stages
  <2>3. Taken' = Taken \cup {r}
    BY <2>1, <2>2 DEF Taken, Accepted
  <2>4. Requests'
    BY <2>1, <2>2 DEF WebInv, Requests
  <2>5. \A q \in DOMAIN posts : r \notin posts[q].after
    BY <2>1 DEF WebInv, Requests
  <2>6. LatestKept'
    BY <1>t, <2>1, <2>2, <2>5 DEF LatestKept, Taken, Accepted
  <2>7. FromRequests'
    BY <2>1, <2>3 DEF WebInv, FromRequests
  <2> QED
    BY <2>4, <2>6, <2>7 DEF WebInv
<1>4. ASSUME Repeat \/ UNCHANGED pageVars
      PROVE  WebInv'
  <2>1. posts' = posts /\ last_angles_' = last_angles_
    BY <1>4 DEF Repeat, BeatReads, BeatPublishes, pageVars
  <2>2. Taken' = Taken
    BY <2>1 DEF Taken, Accepted
  <2>3. Requests' /\ LatestKept'
    BY <2>1, <2>2 DEF WebInv, Requests, LatestKept
  <2>4. FromRequests'
    BY <1>4, <2>1, <2>2
       DEF Repeat, BeatReads, BeatPublishes, pageVars, WebInv, FromRequests
  <2> QED
    BY <2>3, <2>4 DEF WebInv
<1> QED
  BY <1>1, <1>2, <1>3, <1>4 DEF WebNext, Thread

(* The pose web control keeps and repeats is never that of a request which *)
(* had been answered before another accepted one, set since, was made:     *)
(* whichever of two threads sets last_angles_ last, a later request of a   *)
(* user who had seen his answer is not undone.                             *)
THEOREM PoseIsKept == WebSpec => []WebInv
<1>1. WebInit => WebInv
  BY DEF WebInit, WebInv, Requests, LatestKept, FromRequests, Taken, Accepted
<1> QED
  BY <1>1, WebStep, PTL DEF WebSpec

(* Every pose that came has been published or refused, and nothing older   *)
(* is shown or about to be.                                                *)
AllShown ==
  /\ \A r \in DOMAIN posts : posts[r].stage \notin {"received", "taken"}
  /\ beat \in {<<>>, <<last_angles_>>} /\ shown = last_angles_

(* The server then shows a pose that no later request has replaced.        *)
SettledOnLatest == AllShown => ~Superseded(shown)

(* Once every thread has published and the heartbeat holds no older pose,  *)
(* what the servos were given last is not superseded (the second half of   *)
(* PoseSettles).                                                           *)
THEOREM NoneAfterTheOneShown == WebSpec => []SettledOnLatest
<1>1. WebInv => SettledOnLatest
  BY DEF WebInv, SettledOnLatest, AllShown, Superseded, LatestKept, Taken, Accepted
<1> QED
  BY <1>1, PoseIsKept, PTL

(* Only a new request ends that: no thread or heartbeat holds another pose.*)
StaysSettled == [][AllShown /\ Len(posts') = Len(posts) => AllShown']_pageVars

(* The pose the servos were given stays until another request comes, so    *)
(* that PoseSettles needs fairness only to get there once.                 *)
THEOREM SettledPoseStays == WebSpec => StaysSettled
<1>1. WebInv /\ [WebNext]_pageVars
        => [AllShown /\ Len(posts') = Len(posts) => AllShown']_pageVars
  <2> SUFFICES ASSUME WebInv, WebNext, AllShown, Len(posts') = Len(posts)
               PROVE  AllShown'
    BY DEF pageVars
  <2>t. posts \in Seq(Request) /\ Len(posts) \in Nat
    BY DEF WebInv, Requests
  <2>1. ASSUME NEW p \in Pages, SendAngles(p) \/ HomeAll(p)
        PROVE  FALSE
    <3>1. PICK path \in {"/api/servos", "/api/home"}, valid \in BOOLEAN :
            Post(p, path, valid)
      BY <2>1 DEF SendAngles, HomeAll
    <3>2. Len(posts') = Len(posts) + 1
      BY <2>t, <3>1, RequestComes
    <3> QED
      BY <2>t, <3>2
  <2>2. ASSUME NEW r \in DOMAIN posts, Thread(r)
        PROVE  AllShown'
    <3>1. Answer(r)
      BY <2>2 DEF Thread, Refuse, Take, Publish, Stage, AllShown
    <3>2. posts' = [posts EXCEPT ![r].stage = "answered"]
          /\ UNCHANGED <<last_angles_, beat, shown>>
      BY <3>1 DEF Answer, Stage
    <3>3. DOMAIN posts' = DOMAIN posts
          /\ \A q \in DOMAIN posts :
               posts'[q].stage = IF q = r THEN "answered" ELSE posts[q].stage
      BY <2>t, <3>2, StageChanges DEF Stages
    <3> QED
      BY <3>2, <3>3 DEF AllShown
  <2>3. CASE Repeat
    BY <2>3 DEF Repeat, BeatReads, BeatPublishes, AllShown
  <2> QED
    BY <2>1, <2>2, <2>3 DEF WebNext
<1> QED
  BY <1>1, PoseIsKept, PTL DEF WebSpec, StaysSettled
=============================================================================
