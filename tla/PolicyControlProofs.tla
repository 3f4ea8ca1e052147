------------------------ MODULE PolicyControlProofs ------------------------
(***************************************************************************)
(* Proofs about PolicyControl: type correctness with the ranges of the     *)
(* command shaper, the zero-filled target, the slew of the hips, and what  *)
(* sets the legs going.                                                    *)
(***************************************************************************)
EXTENDS PolicyControl, TLAPS

USE AngleAssumption, PlaneAssumption, GainAssumption, SwitchAssumption,
    ControlAssumption

----------------------------------------------------------------------------
(* The arithmetic of the shaper.                                           *)

LEMMA WrapType == ASSUME NEW a \in Int PROVE Wrap(a) \in Angles
  BY DEF Wrap, Angles, Half

LEMMA LimitType ==
  ASSUME NEW a \in Int, NEW b \in Nat
  PROVE  Limit(a, b) \in -b .. b
  BY DEF Limit, Clamp

LEMMA ClampType ==
  ASSUME NEW a \in Int, NEW lo \in Int, NEW hi \in Int, lo <= hi
  PROVE  Clamp(a, lo, hi) \in lo .. hi
  BY DEF Clamp

(* The limiter: a call moves the hip bias by at most MaxDelta and keeps it *)
(* within SteerMax, whatever is demanded (command_shaper.hpp:183-192).     *)
LEMMA SteerLimited ==
  ASSUME NEW last \in -SteerMax .. SteerMax, NEW demand \in Int
  PROVE  /\ Steer(last, demand).steer_cmd \in -SteerMax .. SteerMax
         /\ Steer(last, demand).last_steer_cmd = Steer(last, demand).steer_cmd
         /\ Abs(Steer(last, demand).steer_cmd - last) <= MaxDelta
  BY DEF Steer, Limit, Clamp, Abs

LEMMA ThrottledType ==
  ASSUME NEW vx \in Int, NEW err \in Int
  PROVE  Throttled(vx, err) \in Int
<1> DEFINE full == FullScale - (FullScale * Abs(err)) \div SlowErr
<1>1. Abs(err) \in Int
  BY DEF Abs
<1>2. full \in Int
  BY <1>1
<1>3. Clamp(full, MinScale, FullScale) \in Int
  BY <1>2, ClampType
<1> HIDE DEF full
<1> QED
  BY <1>2, <1>3 DEF Throttled, full

Commanded == [vx : Int, wz : Int]

LEMMA SetpointType ==
  ASSUME NEW s \in ShaperState, NEW w \in Commanded, NEW relatch \in BOOLEAN,
         NEW a \in Angles
  PROVE  Setpoint(s, w, relatch, a) \in Angles
<1> DEFINE latched == IF relatch THEN a ELSE s.desired_yaw
           turned  == Wrap(latched + w.wz)
           aside   == Limit(Wrap(turned - a), ErrClamp)
<1>1. latched + w.wz \in Int
  BY DEF ShaperState, Commanded, Angles, Half
<1>2. turned \in Int
  BY <1>1, WrapType DEF Angles, Half
<1>3. turned - a \in Int
  BY <1>2 DEF Angles, Half
<1>4. Wrap(turned - a) \in Int
  BY <1>3, WrapType DEF Angles, Half
<1>5. aside \in Int
  BY <1>4, LimitType
<1>6. Wrap(a + aside) \in Angles
  BY <1>5, WrapType DEF Angles, Half
<1> QED
  BY <1>6 DEF Setpoint, Angles, Half

(* What the stages in front of the steering hand on                        *)
LEMMA EnvelopeType ==
  ASSUME NEW c \in Commanded, NEW stale_ \in BOOLEAN
  PROVE  Envelope(c, stale_) \in Commanded
<1>1. Clamp(c.vx, 0, MaxLinVel) \in Int
  BY ClampType DEF Commanded
<1>2. Limit(c.wz, MaxYawRate) \in Int
  BY LimitType DEF Commanded
<1> QED
  BY <1>1, <1>2 DEF Envelope, Commanded

LEMMA WalkBackType ==
  ASSUME NEW w \in Commanded, NEW p \in Places, NEW q \in Places,
         NEW stale_ \in BOOLEAN, NEW odom \in BOOLEAN, NEW a \in Angles
  PROVE  WalkBack(w, q, stale_, odom, p, a) \in Commanded
<1> DEFINE aside == Wrap(Bearing(p, q) - a)
<1>1. aside \in Int
  BY WrapType DEF Angles, Half
<1> HIDE DEF aside
<1>2. Limit(2 * aside, MaxYawRate) \in Int
  <2>1. 2 * aside \in Int
    BY <1>1
  <2>2. Limit(2 * aside, MaxYawRate) \in -MaxYawRate .. MaxYawRate
    BY <2>1, LimitType
  <2> QED
    BY <2>2
<1>3. Limit((3 * aside) \div 2, MaxYawRate) \in Int
  <2>1. (3 * aside) \div 2 \in Int
    BY <1>1
  <2>2. Limit((3 * aside) \div 2, MaxYawRate) \in -MaxYawRate .. MaxYawRate
    BY <2>1, LimitType
  <2> QED
    BY <2>2
<1>4. Clamp(Dist(p, q), StandVx + 1, HoldSpeed) \in Int
  <2>1. Dist(p, q) \in Int
    OBVIOUS
  <2> QED
    BY <2>1 DEF Clamp
<1> QED
  BY <1>2, <1>3, <1>4 DEF WalkBack, Commanded, aside

(* Heading hold, lateral hold and steering                                 *)
LEMMA HeldStep ==
  ASSUME NEW s \in ShaperState, NEW w \in Commanded, NEW p \in Places,
         NEW a \in Angles
  PROVE  LET out == Held(s, w, p, a)
         IN  /\ out.state \in ShaperState /\ out.vx \in Int
             /\ out.state.steer_cmd = out.state.last_steer_cmd
             /\ Abs(out.state.last_steer_cmd - s.last_steer_cmd) <= MaxDelta
             /\ out.state.hold = s.hold
             /\ \E e \in Int : out.vx = Throttled(w.vx, e)
<1> DEFINE idle    == w.vx = 0 /\ w.wz = 0
           relatch == ~s.heading_init \/ (idle /\ ~s.prev_idle) \/ (idle /\ ~StationKeep)
           desired == Setpoint(s, w, relatch, a)
           turning == Abs(w.wz) > TurnThresh
           ref     == IF relatch \/ (LateralHold /\ turning) THEN p ELSE s.ref
           cross   == IF LateralHold /\ ~turning
                      THEN Limit(-LatKp * LatErr(ref, p, desired), LatMax) ELSE 0
           err     == Limit(Wrap(desired - a), ErrClamp) + cross
           steer_i == Wind(IF relatch THEN 0 ELSE s.steer_i, err)
           steer   == Steer(s.last_steer_cmd, SteerKp * err + SteerKi * steer_i)
           vx      == Throttled(w.vx, err)
<1>1. relatch \in BOOLEAN
  BY DEF ShaperState
<1>2. desired \in Angles
  BY <1>1, SetpointType
<1>3. ref \in Places
  BY DEF ShaperState
<1>4. cross \in Int
  <2>1. -LatKp * LatErr(ref, p, desired) \in Int
    BY <1>2, <1>3 DEF Angles
  <2>2. Limit(-LatKp * LatErr(ref, p, desired), LatMax) \in -LatMax .. LatMax
    BY <2>1, LimitType
  <2> QED
    BY <2>2
<1>5. err \in Int
  <2>1. desired - a \in Int
    BY <1>2 DEF Angles, Half
  <2>2. Wrap(desired - a) \in Int
    BY <2>1, WrapType DEF Angles, Half
  <2>3. Limit(Wrap(desired - a), ErrClamp) \in -ErrClamp .. ErrClamp
    BY <2>2, LimitType
  <2> QED
    BY <1>4, <2>3
<1>6. steer_i \in -ILim .. ILim
  <2> DEFINE i == IF relatch THEN 0 ELSE s.steer_i
  <2>1. i \in -ILim .. ILim
    BY DEF ShaperState
  <2>2. i + err \in Int
    BY <2>1, <1>5
  <2>3. Limit(i + err, ILim) \in -ILim .. ILim
    BY <2>2, LimitType
  <2> HIDE DEF i, err
  <2> QED
    BY <2>1, <2>3 DEF Wind, i
<1>7. SteerKp * err + SteerKi * steer_i \in Int
  BY <1>5, <1>6
<1>8. /\ steer.steer_cmd \in -SteerMax .. SteerMax
      /\ steer.last_steer_cmd = steer.steer_cmd
      /\ Abs(steer.steer_cmd - s.last_steer_cmd) <= MaxDelta
  BY <1>7, SteerLimited DEF ShaperState
<1>9. vx \in Int
  BY <1>5, ThrottledType DEF Commanded
<1>e. \E e \in Int : vx = Throttled(w.vx, e)
  BY <1>5
<1>10. Held(s, w, p, a) =
         [state |-> [s EXCEPT !.desired_yaw = desired, !.heading_init = TRUE,
                              !.prev_idle = idle, !.ref = ref, !.steer_i = steer_i,
                              !.steer_cmd = steer.steer_cmd,
                              !.last_steer_cmd = steer.last_steer_cmd],
          vx |-> vx]
  BY DEF Held
<1>11. idle \in BOOLEAN
  OBVIOUS
<1> DEFINE state == [s EXCEPT !.desired_yaw = desired, !.heading_init = TRUE,
                              !.prev_idle = idle, !.ref = ref, !.steer_i = steer_i,
                              !.steer_cmd = steer.steer_cmd,
                              !.last_steer_cmd = steer.last_steer_cmd]
<1>12. Held(s, w, p, a).state = state /\ Held(s, w, p, a).vx = vx
  BY <1>10
<1> HIDE DEF idle, relatch, desired, turning, ref, cross, err, steer_i, steer, vx
<1>13. state \in ShaperState
  BY <1>2, <1>3, <1>6, <1>8, <1>11 DEF ShaperState
<1>14. /\ state.steer_cmd = steer.steer_cmd
       /\ state.last_steer_cmd = steer.last_steer_cmd /\ state.hold = s.hold
  BY DEF ShaperState
<1> HIDE DEF state
<1> QED
  BY <1>8, <1>9, <1>e, <1>12, <1>13, <1>14

(* One control period                                                      *)
LEMMA ShapeStep ==
  ASSUME NEW s \in ShaperState, NEW c \in Commanded, NEW stale_ \in BOOLEAN,
         NEW odom \in BOOLEAN, NEW p \in Places, NEW a \in Angles
  PROVE  LET out == Shape(s, c, stale_, odom, p, a)
         IN  /\ out.state \in ShaperState /\ out.vx \in Int
             /\ HeadingHold /\ odom =>
                  /\ out.state.steer_cmd = out.state.last_steer_cmd
                  /\ Abs(out.state.last_steer_cmd - s.last_steer_cmd) <= MaxDelta
             /\ ~(HeadingHold /\ odom) =>
                  /\ out.state.steer_cmd = 0
                  /\ out.state.last_steer_cmd = s.last_steer_cmd
<1> DEFINE hold == StopPoint(s, stale_, odom, p)
           w    == WalkBack(Envelope(c, stale_), hold, stale_, odom, p, a)
           t    == [s EXCEPT !.hold = hold, !.prev_stale = stale_]
<1>1. hold \in Places
  BY DEF StopPoint, ShaperState
<1>2. w \in Commanded
  BY <1>1, EnvelopeType, WalkBackType
<1>3. t \in ShaperState /\ t.last_steer_cmd = s.last_steer_cmd
  BY <1>1 DEF ShaperState
<1>4. Shape(s, c, stale_, odom, p, a) =
        IF HeadingHold /\ odom THEN Held(t, w, p, a)
        ELSE [state |-> [t EXCEPT !.steer_cmd = 0], vx |-> w.vx]
  BY DEF Shape
<1> HIDE DEF hold, w, t
<1>5. CASE HeadingHold /\ odom
  BY <1>2, <1>3, <1>4, <1>5, HeldStep
<1>6. CASE ~(HeadingHold /\ odom)
  <2>1. [t EXCEPT !.steer_cmd = 0] \in ShaperState
    BY <1>3 DEF ShaperState
  <2>2. /\ [t EXCEPT !.steer_cmd = 0].steer_cmd = 0
        /\ [t EXCEPT !.steer_cmd = 0].last_steer_cmd = s.last_steer_cmd
    BY <1>3 DEF ShaperState
  <2>3. w.vx \in Int
    BY <1>2 DEF Commanded
  <2> QED
    BY <1>4, <1>6, <2>1, <2>2, <2>3
<1> QED
  BY <1>5, <1>6

----------------------------------------------------------------------------
(* Without heading hold or odometry the limiter has not moved yet.         *)
Unsteered == ~(HeadingHold /\ have_odom_yaw_) => shaper_.last_steer_cmd = 0

(* What the hips were last sent is in target_pos_, repeated or not.        *)
Sent == published.steer = target_pos_.steer

(* Until the warm-up is over there is nothing to make up for.              *)
Fresh ==
  HasWarmup /\ warmup # "over" =>
    target_pos_.steer = 0 /\ shaper_.last_steer_cmd = 0 /\ missed = 0

(* The limiter runs ahead of the hips by MaxDelta per failed step.         *)
Lag ==
  StationKeep /\ missed < MaxMissed =>
    Abs(shaper_.last_steer_cmd - target_pos_.steer) <= MaxDelta * missed

(* The zero-filled target is overwritten by the run that stamps.           *)
Filled == HasWarmup /\ target_pos_.kind = "zero" => warmup = "none"

IInv == TypeOK /\ Unsteered /\ Sent /\ Fresh /\ Lag /\ Filled /\ NoRawTarget

LEMMA InitInv == Init => IInv
<1> SUFFICES ASSUME Init PROVE IInv
  OBVIOUS
<1>1. shaper_ \in ShaperState /\ shaper_.last_steer_cmd = 0
  BY DEF Init, ShaperInit, ShaperState, Angles, Half
<1>2. yaw \in Angles
  BY DEF Init, Angles, Half
<1>3. target_pos_ \in Targets /\ published \in Targets \cup {Nothing}
  BY DEF Init, Targets, Zero, Nothing
<1>4. TypeOK
  <2>1. decim_count_ \in 0 .. Decimation - 1 /\ missed \in 0 .. MaxMissed
    BY DEF Init
  <2>2. cmd \in Commands \cup {[vx |-> 0, wz |-> 0]}
    BY DEF Init
  <2>3. place \in Places /\ warmup \in {"none", "running", "over"}
    BY DEF Init
  <2> QED
    BY <1>1, <1>2, <1>3, <2>1, <2>2, <2>3 DEF Init, TypeOK
<1>5. Unsteered /\ Sent /\ Fresh /\ Filled /\ NoRawTarget
  BY <1>1 DEF Init, Unsteered, Sent, Fresh, Filled, NoRawTarget, Zero, Nothing
<1>6. Lag
  BY <1>1 DEF Init, Lag, Zero, Abs
<1> QED
  BY <1>4, <1>5, <1>6 DEF IInv

(* What a policy step hands to the hips                                    *)
LEMMA Shaped ==
  ASSUME IInv,
         NEW out, out = Shape(shaper_, cmd, stale, have_odom_yaw_, place, yaw)
  PROVE  /\ out.state \in ShaperState
         /\ ~(HeadingHold /\ have_odom_yaw_) => out.state.last_steer_cmd = 0
         /\ out.state.steer_cmd = out.state.last_steer_cmd
         /\ Abs(out.state.last_steer_cmd - shaper_.last_steer_cmd) <= MaxDelta
<1>1. /\ shaper_ \in ShaperState /\ cmd \in Commanded /\ stale \in BOOLEAN
      /\ have_odom_yaw_ \in BOOLEAN /\ place \in Places /\ yaw \in Angles
  BY DEF IInv, TypeOK, Commanded
<1>2. Unsteered /\ shaper_.last_steer_cmd \in Int
  BY <1>1 DEF IInv, ShaperState
<1>3. Abs(0) <= MaxDelta /\ shaper_.last_steer_cmd - shaper_.last_steer_cmd = 0
  BY <1>2 DEF Abs
<1>4. /\ out.state \in ShaperState
      /\ HeadingHold /\ have_odom_yaw_ =>
           /\ out.state.steer_cmd = out.state.last_steer_cmd
           /\ Abs(out.state.last_steer_cmd - shaper_.last_steer_cmd) <= MaxDelta
      /\ ~(HeadingHold /\ have_odom_yaw_) =>
           /\ out.state.steer_cmd = 0
           /\ out.state.last_steer_cmd = shaper_.last_steer_cmd
  BY <1>1, ShapeStep
<1>5. CASE HeadingHold /\ have_odom_yaw_
  BY <1>4, <1>5
<1>6. CASE ~(HeadingHold /\ have_odom_yaw_)
  BY <1>2, <1>3, <1>4, <1>6 DEF Unsteered
<1> QED
  BY <1>5, <1>6

(* A step of the limiter on top of a lag                                   *)
LEMMA LagGrows ==
  ASSUME NEW m \in Nat, NEW old \in Int, NEW new \in Int, NEW sent \in Int,
         Abs(old - sent) <= MaxDelta * m, Abs(new - old) <= MaxDelta
  PROVE  Abs(new - sent) <= MaxDelta * (m + 1)
<1> DEFINE lag == MaxDelta * m
<1>1. lag \in Nat /\ MaxDelta * (m + 1) = lag + MaxDelta
  OBVIOUS
<1>2. Abs(old - sent) <= lag
  OBVIOUS
<1> HIDE DEF lag
<1> QED
  BY <1>1, <1>2 DEF Abs

(* A policy step: it fails, or sends the limiter's new bias to the hips.   *)
LEMMA PolicyStepInv ==
  ASSUME IInv, PolicyStep
  PROVE  /\ IInv'
         /\ StationKeep =>
              \/ published' = published
              \/ /\ published'.steer = shaper_'.last_steer_cmd
                 /\ Abs(shaper_'.last_steer_cmd - shaper_.last_steer_cmd) <= MaxDelta
<1>1. PICK out \in {Shape(shaper_, cmd, stale, have_odom_yaw_, place, yaw)} :
         Stand(out) \/ Walk(out) \/ InferenceError(out)
  BY DEF PolicyStep
<1>2. /\ out.state \in ShaperState
      /\ ~(HeadingHold /\ have_odom_yaw_) => out.state.last_steer_cmd = 0
      /\ out.state.steer_cmd = out.state.last_steer_cmd
      /\ Abs(out.state.last_steer_cmd - shaper_.last_steer_cmd) <= MaxDelta
  BY <1>1, Shaped
<1>3. /\ TypeOK /\ Unsteered /\ Sent /\ Fresh /\ Lag /\ Filled /\ NoRawTarget
  BY DEF IInv
<1>4. /\ out.state.steer_cmd \in -SteerMax .. SteerMax
      /\ out.state.last_steer_cmd \in -SteerMax .. SteerMax
      /\ [out.state EXCEPT !.steer_cmd = 0] \in ShaperState
      /\ [out.state EXCEPT !.steer_cmd = 0].steer_cmd = 0
      /\ [out.state EXCEPT !.steer_cmd = 0].last_steer_cmd = out.state.last_steer_cmd
  BY <1>2 DEF ShaperState
<1>5. /\ UNCHANGED <<inputVars, switchVars>> /\ decim_count_' = 0
      /\ HasWarmup => warmup = "over"
      /\ warmup' = "over" \/ warmup' = warmup
  BY <1>3 DEF PolicyStep, StampWarmup, Warming, TypeOK
<1>6. HasWarmup => warmup' = "over"
  BY <1>5
<1>7. /\ shaper_' \in ShaperState
      /\ shaper_'.last_steer_cmd = out.state.last_steer_cmd
  BY <1>1, <1>2, <1>4 DEF Stand, Walk, InferenceError
<1>8. Unsteered' /\ Fresh'
  BY <1>2, <1>5, <1>6, <1>7 DEF Unsteered, Fresh, inputVars
<1>9. CASE InferenceError(out)
  <2>1. /\ UNCHANGED <<target_pos_, published>>
        /\ missed' = IF missed < MaxMissed THEN missed + 1 ELSE missed
    BY <1>9 DEF InferenceError
  <2>2. missed \in Nat /\ missed' \in 0 .. MaxMissed
    BY <1>3, <2>1 DEF TypeOK
  <2>3. TypeOK'
    BY <1>3, <1>5, <1>7, <2>1, <2>2 DEF TypeOK, inputVars, switchVars
  <2>4. Lag'
    <3> SUFFICES ASSUME StationKeep, missed' < MaxMissed
                 PROVE  Abs(shaper_'.last_steer_cmd - target_pos_.steer)
                          <= MaxDelta * missed'
      BY <2>1 DEF Lag
    <3>1. missed' = missed + 1 /\ missed < MaxMissed
      BY <2>1, <2>2
    <3>2. Abs(shaper_.last_steer_cmd - target_pos_.steer) <= MaxDelta * missed
      BY <1>3, <3>1 DEF Lag
    <3>3. target_pos_.steer \in Int /\ shaper_.last_steer_cmd \in Int
      BY <1>3 DEF TypeOK, Targets, ShaperState
    <3>4. out.state.last_steer_cmd \in Int
      BY <1>4
    <3> QED
      BY <1>2, <1>7, <2>2, <3>1, <3>2, <3>3, <3>4, LagGrows
  <2>5. Sent' /\ Filled' /\ NoRawTarget'
    BY <1>3, <1>5, <2>1 DEF Sent, Filled, NoRawTarget
  <2> QED
    BY <1>8, <2>1, <2>3, <2>4, <2>5 DEF IInv
<1>10. CASE Stand(out) \/ Walk(out)
  <2>1. \E kind \in {"stance", "gait"} :
           target_pos_' = [kind |-> kind, steer |-> shaper_'.steer_cmd]
    BY <1>10 DEF Stand, Walk
  <2>2. /\ shaper_'.steer_cmd \in -SteerMax .. SteerMax
        /\ StationKeep => shaper_'.steer_cmd = shaper_'.last_steer_cmd
    <3>1. \/ shaper_' = out.state
          \/ ~StationKeep /\ shaper_' = [out.state EXCEPT !.steer_cmd = 0]
      BY <1>10 DEF Stand, Walk
    <3>2. 0 \in -SteerMax .. SteerMax
      OBVIOUS
    <3>3. CASE shaper_' = out.state
      BY <1>2, <1>4, <3>3
    <3>4. CASE ~StationKeep /\ shaper_' = [out.state EXCEPT !.steer_cmd = 0]
      BY <1>4, <3>2, <3>4
    <3> QED
      BY <3>1, <3>3, <3>4
  <2>3. published' = target_pos_' /\ missed' = 0
    BY <1>10 DEF Stand, Walk
  <2>4. target_pos_' \in Targets /\ target_pos_'.kind # "zero"
        /\ target_pos_'.steer = shaper_'.steer_cmd
    BY <2>1, <2>2 DEF Targets
  <2>5. TypeOK'
    BY <1>3, <1>5, <1>7, <2>3, <2>4 DEF TypeOK, inputVars, switchVars
  <2>6. Sent' /\ Filled' /\ NoRawTarget'
    BY <2>3, <2>4 DEF Sent, Filled, NoRawTarget
  <2>7. Lag'
    <3> SUFFICES ASSUME StationKeep
                 PROVE  Abs(shaper_'.last_steer_cmd - target_pos_'.steer)
                          <= MaxDelta * missed'
      BY DEF Lag
    <3>1. shaper_'.last_steer_cmd - target_pos_'.steer = 0
      BY <1>4, <1>7, <2>2, <2>4
    <3> QED
      BY <2>3, <3>1 DEF Abs
  <2>8. StationKeep =>
          /\ published'.steer = shaper_'.last_steer_cmd
          /\ Abs(shaper_'.last_steer_cmd - shaper_.last_steer_cmd) <= MaxDelta
    BY <1>2, <1>7, <2>2, <2>3, <2>4
  <2> QED
    BY <1>8, <2>5, <2>6, <2>7, <2>8 DEF IInv
<1> QED
  BY <1>1, <1>9, <1>10

LEMMA StepInv == IInv /\ [Next]_vars => IInv'
<1> SUFFICES ASSUME IInv, [Next]_vars PROVE IInv'
  OBVIOUS
<1> USE DEF inputVars, switchVars, loopVars
<1>1. /\ TypeOK /\ Unsteered /\ Sent /\ Fresh /\ Lag /\ Filled /\ NoRawTarget
  BY DEF IInv
<1>2. ASSUME UNCHANGED loopVars, TypeOK',
             have_odom_yaw_' = have_odom_yaw_ \/ have_odom_yaw_' = TRUE
      PROVE  IInv'
  BY <1>1, <1>2 DEF IInv, Unsteered, Sent, Fresh, Lag, Filled, NoRawTarget
<1>3. ASSUME NEW p \in Places, NEW a \in Angles, OnOdom(p, a)
      PROVE  IInv'
  BY <1>1, <1>2, <1>3 DEF OnOdom, TypeOK
<1>4. ASSUME NEW c \in Commands, OnCmd(c)
      PROVE  IInv'
  BY <1>1, <1>2, <1>4 DEF OnCmd, TypeOK
<1>5. CASE OnJoints \/ Timeout
  BY <1>1, <1>2, <1>5 DEF OnJoints, Timeout, TypeOK
<1>6. CASE OnSetEnabled \/ OnLoadPolicy
  BY <1>1, <1>2, <1>6 DEF OnSetEnabled, OnLoadPolicy, TypeOK
<1>7. CASE WarmupOver
  BY <1>1, <1>7
     DEF WarmupOver, IInv, TypeOK, Unsteered, Sent, Fresh, Lag, Filled, NoRawTarget
<1>8. CASE HoldDefault
  <2>1. /\ target_pos_' = Default /\ published' = Default /\ decim_count_' = 0
        /\ UNCHANGED <<inputVars, switchVars, shaper_, missed>>
        /\ HasWarmup /\ warmup # "over" /\ warmup' = "running"
    BY <1>1, <1>8 DEF HoldDefault, Warming, StampWarmup, TypeOK
  <2>2. shaper_.last_steer_cmd = 0 /\ missed = 0
    BY <1>1, <2>1 DEF Fresh
  <2>3. Default \in Targets /\ Default.steer = 0 /\ Default.kind = "default"
    BY DEF Targets, Default
  <2>4. TypeOK'
    BY <1>1, <2>1, <2>3 DEF TypeOK
  <2>5. Lag'
    BY <2>1, <2>2, <2>3 DEF Lag, Abs
  <2> QED
    BY <1>1, <2>1, <2>2, <2>3, <2>4, <2>5
       DEF IInv, Unsteered, Sent, Fresh, Filled, NoRawTarget
<1>9. CASE RepeatTarget
  <2>1. /\ published' = target_pos_ /\ decim_count_' = decim_count_ + 1
        /\ decim_count_ + 1 < Decimation
        /\ UNCHANGED <<inputVars, switchVars, shaper_, target_pos_, missed>>
        /\ HasWarmup => warmup = "over" /\ warmup' = "over"
        /\ warmup' \in {"running", "over"}
    BY <1>1, <1>9 DEF RepeatTarget, Warming, StampWarmup, TypeOK
  <2>2. TypeOK'
    BY <1>1, <2>1 DEF TypeOK
  <2> QED
    BY <1>1, <2>1, <2>2
       DEF IInv, Unsteered, Sent, Fresh, Lag, Filled, NoRawTarget
<1>10. CASE PolicyStep
  BY <1>10, PolicyStepInv
<1>11. CASE UNCHANGED vars
  BY <1>1, <1>2, <1>11 DEF vars, TypeOK
<1> QED
  BY <1>3, <1>4, <1>5, <1>6, <1>7, <1>8, <1>9, <1>10, <1>11 DEF Next, ControlLoop

(* The node's variables keep their ranges: the hip bias is within          *)
(* SteerMax, the integrator within ILim, the angles on the circle.         *)
THEOREM TypeCorrect == Spec => []TypeOK
<1>1. IInv => TypeOK
  BY DEF IInv
<1> QED
  BY <1>1, InitInv, StepInv, PTL DEF Spec

(* The zero-filled target of a new node is never published.                *)
THEOREM RawTargetNeverSent == Spec => []NoRawTarget
<1>1. IInv => NoRawTarget
  BY DEF IInv
<1> QED
  BY <1>1, InitInv, StepInv, PTL DEF Spec

(* The hips move by at most MaxDelta per policy step since the last one    *)
(* that worked.                                                            *)
THEOREM SteeringIsSmooth == Spec => SmoothSteering
<1> DEFINE Smooth ==
      StationKeep /\ missed < MaxMissed
        => Abs(published'.steer - published.steer) <= MaxDelta * (1 + missed)
<1>1. ASSUME IInv, [Next]_vars PROVE [Smooth]_vars
  <2> SUFFICES ASSUME StationKeep, missed < MaxMissed, ~UNCHANGED vars
               PROVE  Abs(published'.steer - published.steer)
                        <= MaxDelta * (1 + missed)
    OBVIOUS
  <2>1. /\ TypeOK /\ Sent /\ Fresh /\ Lag
    BY <1>1 DEF IInv
  <2>2. /\ missed \in Nat /\ published.steer \in Int /\ target_pos_.steer \in Int
        /\ published.steer = target_pos_.steer
    BY <2>1 DEF TypeOK, Targets, Nothing, Sent
  <2>3. MaxDelta * (1 + missed) \in Nat
    BY <2>2
  <2>4. ASSUME published'.steer = published.steer
        PROVE  Abs(published'.steer - published.steer) <= MaxDelta * (1 + missed)
    <3>1. published'.steer - published.steer = 0
      BY <2>2, <2>4
    <3> QED
      BY <2>3, <3>1 DEF Abs
  <2>5. CASE UNCHANGED published
    BY <2>4, <2>5
  <2>6. CASE HoldDefault
    BY <2>1, <2>2, <2>4, <2>6 DEF HoldDefault, Warming, Fresh, Default
  <2>7. CASE RepeatTarget
    BY <2>2, <2>4, <2>7 DEF RepeatTarget
  <2>8. CASE PolicyStep
    <3>1. CASE published' = published
      BY <2>4, <3>1
    <3>2. CASE /\ published'.steer = shaper_'.last_steer_cmd
               /\ Abs(shaper_'.last_steer_cmd - shaper_.last_steer_cmd) <= MaxDelta
      <4>1. shaper_.last_steer_cmd \in Int /\ shaper_'.last_steer_cmd \in Int
        BY <1>1, <2>8, PolicyStepInv DEF IInv, TypeOK, ShaperState
      <4>2. Abs(shaper_.last_steer_cmd - published.steer) <= MaxDelta * missed
        BY <2>1, <2>2 DEF Lag
      <4>3. Abs(shaper_'.last_steer_cmd - published.steer) <= MaxDelta * (missed + 1)
        BY <2>2, <3>2, <4>1, <4>2, LagGrows
      <4> QED
        BY <2>2, <3>2, <4>3
    <3> QED
      BY <1>1, <2>8, <3>1, <3>2, PolicyStepInv
  <2>9. UNCHANGED published \/ HoldDefault \/ RepeatTarget \/ PolicyStep
    BY <1>1 DEF Next, ControlLoop, OnOdom, OnCmd, OnJoints, Timeout, WarmupOver,
           OnSetEnabled, OnLoadPolicy, loopVars
  <2> QED
    BY <2>5, <2>6, <2>7, <2>8, <2>9
<1> QED
  BY <1>1, InitInv, StepInv, PTL DEF Spec, SmoothSteering

----------------------------------------------------------------------------
(* ---- the moving gate ---- *)
(* The heading and the bearing of the point the robot stopped at agree.    *)
Facing == Abs(Wrap(Bearing(place, shaper_.hold) - yaw)) <= FaceTol

(* With stale commands, of which the last was no turn, a policy step       *)
(* stands or moves a robot that has left its stop point straight back to   *)
(* it: nothing else sets the legs going.                                   *)
WalksOnlyBack ==
  [][PolicyStep /\ stale /\ Abs(cmd.wz) <= StandYaw
       => published'.kind = "stance" \/ (Displaced' /\ Facing')]_vars

(* With a fresh command to walk or to turn no policy step stands, if the   *)
(* throttle is at its 1.0.                                                 *)
NeverStandsWhenAsked ==
  [][PolicyStep /\ ~stale /\ Asked /\ MinScale = FullScale /\ MaxMissed > 0
       => published'.kind = "gait" \/ missed' > 0]_vars

(* A full throttle lets the speed through, any throttle a speed of 0.      *)
LEMMA ThrottleOf ==
  ASSUME NEW vx \in Int, NEW err \in Int
  PROVE  /\ vx = 0 => Throttled(vx, err) = 0
         /\ MinScale = FullScale => Throttled(vx, err) = vx
<1> DEFINE full == FullScale - (FullScale * Abs(err)) \div SlowErr
           part == Clamp(full, MinScale, FullScale)
<1>1. Abs(err) \in Int
  BY DEF Abs
<1>2. full \in Int
  BY <1>1
<1>3. part \in MinScale .. FullScale
  <2>1. MinScale \in Int /\ FullScale \in Int /\ MinScale <= FullScale
    BY GainAssumption
  <2> HIDE DEF full
  <2> QED
    BY <1>2, <2>1, ClampType
<1>4. Throttled(vx, err) = (vx * part) \div FullScale
  BY DEF Throttled
<1> HIDE DEF full, part
<1>5. FullScale \in Nat \ {0} /\ MinScale \in Nat /\ part \in Int
  BY <1>3, GainAssumption
<1>6. ASSUME vx = 0 PROVE Throttled(vx, err) = 0
  <2>1. vx * part = 0
    BY <1>5, <1>6
  <2> QED
    BY <1>4, <1>5, <2>1
<1>7. ASSUME MinScale = FullScale PROVE Throttled(vx, err) = vx
  <2>1. part = FullScale
    BY <1>3, <1>5, <1>7
  <2>2. (vx * FullScale) \div FullScale = vx
    BY <1>5
  <2> QED
    BY <1>4, <2>1, <2>2
<1> QED
  BY <1>6, <1>7

(* The speed that a policy step gives the gate                             *)
LEMMA ShapedSpeed ==
  ASSUME IInv,
         NEW out, out = Shape(shaper_, cmd, stale, have_odom_yaw_, place, yaw)
  PROVE  LET hold == StopPoint(shaper_, stale, have_odom_yaw_, place)
             w    == WalkBack(Envelope(cmd, stale), hold, stale,
                              have_odom_yaw_, place, yaw)
         IN  /\ out.state.hold = hold /\ out.vx \in Int
             /\ w.vx = 0 => ~(out.vx > StandVx)
             /\ MinScale = FullScale => out.vx = w.vx
<1> DEFINE hold == StopPoint(shaper_, stale, have_odom_yaw_, place)
           w    == WalkBack(Envelope(cmd, stale), hold, stale,
                            have_odom_yaw_, place, yaw)
           t    == [shaper_ EXCEPT !.hold = hold, !.prev_stale = stale]
<1>1. /\ shaper_ \in ShaperState /\ cmd \in Commanded /\ stale \in BOOLEAN
      /\ have_odom_yaw_ \in BOOLEAN /\ place \in Places /\ yaw \in Angles
  BY DEF IInv, TypeOK, Commanded
<1>2. hold \in Places
  BY <1>1 DEF StopPoint, ShaperState
<1>3. w \in Commanded
  BY <1>1, <1>2, EnvelopeType, WalkBackType
<1>4. t \in ShaperState /\ t.hold = hold
  BY <1>1, <1>2 DEF ShaperState
<1>5. out = IF HeadingHold /\ have_odom_yaw_ THEN Held(t, w, place, yaw)
            ELSE [state |-> [t EXCEPT !.steer_cmd = 0], vx |-> w.vx]
  BY DEF Shape
<1> HIDE DEF hold, w, t
<1>6. w.vx \in Int /\ StandVx \in Nat
  BY <1>3, GainAssumption DEF Commanded
<1>7. CASE HeadingHold /\ have_odom_yaw_
  <2>1. out = Held(t, w, place, yaw)
    BY <1>5, <1>7
  <2>2. out.state.hold = hold /\ out.vx \in Int
        /\ \E e \in Int : out.vx = Throttled(w.vx, e)
    BY <1>1, <1>3, <1>4, <2>1, HeldStep
  <2> QED
    BY <1>6, <2>2, ThrottleOf DEF hold, w
<1>8. CASE ~(HeadingHold /\ have_odom_yaw_)
  <2>1. [t EXCEPT !.steer_cmd = 0].hold = hold
    BY <1>4 DEF ShaperState
  <2> QED
    BY <1>5, <1>6, <1>8, <2>1 DEF hold, w
<1> QED
  BY <1>7, <1>8

(* What the gate decides on                                                *)
LEMMA Gate ==
  ASSUME IInv, PolicyStep
  PROVE  \E out \in {Shape(shaper_, cmd, stale, have_odom_yaw_, place, yaw)} :
           /\ \/ out.vx > StandVx \/ published'.kind = "stance"
              \/ ~(Abs(cmd.wz) <= StandYaw)
           /\ Moving(out) => published'.kind = "gait" \/ (MaxMissed > 0 => missed' > 0)
           /\ shaper_'.hold = out.state.hold
           /\ UNCHANGED <<have_odom_yaw_, place, yaw>>
<1>1. PICK out \in {Shape(shaper_, cmd, stale, have_odom_yaw_, place, yaw)} :
         Stand(out) \/ Walk(out) \/ InferenceError(out)
  BY DEF PolicyStep
<1>2. out.state \in ShaperState
  BY <1>1, Shaped
<1>3. UNCHANGED <<have_odom_yaw_, place, yaw>>
  BY DEF PolicyStep, inputVars
<1>4. [out.state EXCEPT !.steer_cmd = 0].hold = out.state.hold
  BY <1>2 DEF ShaperState
<1>t. Abs(cmd.wz) \in Int /\ StandYaw \in Int
  <2>1. cmd \in Commands \cup {[vx |-> 0, wz |-> 0]}
    BY DEF IInv, TypeOK
  <2> QED
    BY <2>1, ControlAssumption DEF Abs
<1>m. Moving(out) => out.vx > StandVx \/ ~(Abs(cmd.wz) <= StandYaw)
  BY <1>t DEF Moving
<1>5. CASE Stand(out)
  <2>1. ~Moving(out) /\ published'.kind = "stance"
        /\ shaper_' \in {out.state, [out.state EXCEPT !.steer_cmd = 0]}
    BY <1>5 DEF Stand
  <2> QED
    BY <1>1, <1>3, <1>4, <2>1
<1>6. CASE Walk(out)
  <2>1. Moving(out) /\ published'.kind = "gait" /\ shaper_' = out.state
    BY <1>6 DEF Walk
  <2> QED
    BY <1>1, <1>3, <1>m, <2>1
<1>7. CASE InferenceError(out)
  <2>1. Moving(out) /\ shaper_' = out.state
    BY <1>7 DEF InferenceError
  <2>2. MaxMissed > 0 => missed' > 0
    BY <1>7, ControlAssumption DEF InferenceError, IInv, TypeOK
  <2> QED
    BY <1>1, <1>3, <1>m, <2>1, <2>2
<1> QED
  BY <1>1, <1>5, <1>6, <1>7

(* "Safe stop" (policy.yaml:47) as far as the code keeps it, at every      *)
(* policy step: when commands stop and the last was no turn, the robot     *)
(* stands, or walks straight back to where it stopped.                     *)
THEOREM StaleCommandStops == Spec => WalksOnlyBack
<1> DEFINE Back ==
      PolicyStep /\ stale /\ Abs(cmd.wz) <= StandYaw
        => published'.kind = "stance" \/ (Displaced' /\ Facing')
<1>1. ASSUME IInv PROVE Back
  <2> SUFFICES ASSUME PolicyStep, stale, Abs(cmd.wz) <= StandYaw,
                      published'.kind # "stance"
               PROVE  Displaced' /\ Facing'
    OBVIOUS
  <2>1. PICK out \in {Shape(shaper_, cmd, stale, have_odom_yaw_, place, yaw)} :
          /\ out.vx > StandVx /\ shaper_'.hold = out.state.hold
          /\ UNCHANGED <<have_odom_yaw_, place, yaw>>
    BY <1>1, Gate
  <2> DEFINE hold == StopPoint(shaper_, stale, have_odom_yaw_, place)
             w    == WalkBack(Envelope(cmd, stale), hold, stale,
                              have_odom_yaw_, place, yaw)
  <2>2. out.state.hold = hold /\ (w.vx = 0 => ~(out.vx > StandVx))
    BY <1>1, <2>1, ShapedSpeed
  <2>4. w.vx # 0
    <3> HIDE DEF w
    <3> QED
      BY <2>1, <2>2
  <2>5. Envelope(cmd, stale).vx = 0
    BY DEF Envelope
  <2>6. /\ PositionHold /\ have_odom_yaw_ /\ Dist(place, hold) > Deadband
        /\ ~(Abs(Wrap(Bearing(place, hold) - yaw)) > FaceTol)
    <3> HIDE DEF hold
    <3> QED
      BY <2>4, <2>5 DEF WalkBack
  <2> HIDE DEF hold
  <2>7. Displaced'
    BY <2>1, <2>2, <2>6 DEF Displaced
  <2>8. place \in Places /\ hold \in Places /\ yaw \in Angles
    BY <1>1 DEF IInv, TypeOK, hold, StopPoint, ShaperState
  <2>9. Abs(Wrap(Bearing(place, hold) - yaw)) \in Int
    <3>1. Bearing(place, hold) - yaw \in Int
      BY <2>8, PlaneAssumption DEF Angles, Half
    <3>2. Wrap(Bearing(place, hold) - yaw) \in Int
      BY <3>1, WrapType DEF Angles, Half
    <3> QED
      BY <3>2 DEF Abs
  <2>10. Facing'
    BY <2>1, <2>2, <2>6, <2>9, GainAssumption DEF Facing
  <2> QED
    BY <2>7, <2>10
<1>2. IInv /\ [Next]_vars => [Back]_vars
  BY <1>1
<1> QED
  BY <1>2, InitInv, StepInv, PTL DEF Spec, WalksOnlyBack

(* A fresh command to walk or to turn is never answered with the stance:   *)
(* what WalksWhenCommanded needs fairness for is to get to a policy step.  *)
THEOREM FreshCommandMoves == Spec => NeverStandsWhenAsked
<1> DEFINE Moves ==
      PolicyStep /\ ~stale /\ Asked /\ MinScale = FullScale /\ MaxMissed > 0
        => published'.kind = "gait" \/ missed' > 0
<1>1. ASSUME IInv PROVE Moves
  <2> SUFFICES ASSUME PolicyStep, ~stale, Asked, MinScale = FullScale, MaxMissed > 0
               PROVE  published'.kind = "gait" \/ missed' > 0
    OBVIOUS
  <2>1. PICK out \in {Shape(shaper_, cmd, stale, have_odom_yaw_, place, yaw)} :
          Moving(out) => published'.kind = "gait" \/ missed' > 0
    BY <1>1, Gate
  <2> DEFINE hold == StopPoint(shaper_, stale, have_odom_yaw_, place)
             w    == WalkBack(Envelope(cmd, stale), hold, stale,
                              have_odom_yaw_, place, yaw)
  <2>2. out.vx = w.vx
    BY <1>1, <2>1, ShapedSpeed
  <2>3. w.vx = Clamp(cmd.vx, 0, MaxLinVel)
    <3>1. Envelope(cmd, stale).vx = Clamp(cmd.vx, 0, MaxLinVel)
      BY DEF Envelope
    <3>2. w = Envelope(cmd, stale)
      BY DEF WalkBack
    <3> QED
      BY <3>1, <3>2
  <2> HIDE DEF w
  <2>4. cmd.vx \in Int
    <3>1. cmd \in Commands \cup {[vx |-> 0, wz |-> 0]}
      BY <1>1 DEF IInv, TypeOK
    <3> QED
      BY <3>1, ControlAssumption
  <2>5. cmd.vx > StandVx => out.vx > StandVx
    BY <2>2, <2>3, <2>4, GainAssumption DEF Clamp
  <2> QED
    BY <2>1, <2>5 DEF Moving, Asked
<1>2. IInv /\ [Next]_vars => [Moves]_vars
  BY <1>1
<1> QED
  BY <1>2, InitInv, StepInv, PTL DEF Spec, NeverStandsWhenAsked
=============================================================================
