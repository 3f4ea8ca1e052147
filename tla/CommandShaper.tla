--------------------------- MODULE CommandShaper ---------------------------
(***************************************************************************)
(* The command shaper of policy_controller (command_shaper.hpp): envelope, *)
(* safe stop, position hold, heading setpoint, lateral hold, and the       *)
(* rate-limited hip bias.  One call of shape() is the operator Shape, from *)
(* the loop state and the inputs to the new loop state and the command.    *)
(*                                                                         *)
(* Fixed point: angles count steps of a circle of Circle steps, velocities,*)
(* gains and the control period are whole numbers in units of the caller's *)
(* choice, and a gain times a value is a product.  The plane is given by   *)
(* its distances, bearings and offsets from a line.  The lateral velocity  *)
(* and the yaw command only feed the network and are left out.             *)
(***************************************************************************)
EXTENDS Integers

CONSTANTS
  Circle,                          (* steps of a full turn, even           *)
  Places,                          (* where odometry can put the robot     *)
  Dist(_, _), Bearing(_, _),       (* distance and direction to a place    *)
  LatErr(_, _, _),                 (* offset of a place from the line      *)
                                   (* through another, along a heading     *)
  MaxLinVel, MaxYawRate,           (* the trained envelope                 *)
  PositionHold, Deadband, FaceTol, HoldSpeed,
  StandVx,                         (* stand_vx_thresh                      *)
  HeadingHold, HeadingLock, LockYaw, ErrClamp,
  StationKeep,
  LateralHold, TurnThresh, LatKp, LatMax,
  SteerKp, SteerKi, ILim, SteerMax, MaxDelta,
  SlowErr, MinScale, FullScale     (* forward throttle, FullScale is 1.0   *)

Half == Circle \div 2

ASSUME AngleAssumption ==
  /\ Circle \in Nat /\ Circle = 2 * Half /\ 0 < Half
  /\ ErrClamp \in Nat /\ ErrClamp < Half
  /\ LockYaw \in -Half .. Half - 1
ASSUME PlaneAssumption ==
  \A p, q \in Places :
    /\ Dist(p, q) \in Nat /\ Dist(p, p) = 0 /\ Bearing(p, q) \in -Half .. Half - 1
    /\ \A a \in -Half .. Half - 1 : LatErr(p, q, a) \in Int
ASSUME GainAssumption ==
  /\ MaxLinVel \in Nat /\ MaxYawRate \in Nat
  /\ Deadband \in Nat /\ FaceTol \in Nat /\ HoldSpeed \in Nat /\ StandVx \in Nat
  /\ StandVx < HoldSpeed /\ HoldSpeed <= MaxLinVel
  /\ TurnThresh \in Nat /\ LatKp \in Nat /\ LatMax \in Nat
  /\ SteerKp \in Nat /\ SteerKi \in Nat /\ ILim \in Nat
  /\ SteerMax \in Nat /\ MaxDelta \in Nat
  /\ SlowErr \in Nat \ {0} /\ FullScale \in Nat \ {0} /\ MinScale \in 0 .. FullScale
ASSUME SwitchAssumption ==
  /\ PositionHold \in BOOLEAN /\ HeadingHold \in BOOLEAN /\ HeadingLock \in BOOLEAN
  /\ StationKeep \in BOOLEAN /\ LateralHold \in BOOLEAN

Angles == -Half .. Half - 1
Wrap(a) == ((a + Half) % Circle) - Half
Abs(a) == IF a < 0 THEN -a ELSE a
Clamp(a, lo, hi) == IF a < lo THEN lo ELSE IF a > hi THEN hi ELSE a
Limit(a, bound) == Clamp(a, -bound, bound)

----------------------------------------------------------------------------
(* Loop state; p0 is the origin of the odometry.                           *)
ShaperState ==
  [desired_yaw : Angles, heading_init : BOOLEAN, prev_idle : BOOLEAN,
   prev_stale : BOOLEAN, hold : Places, ref : Places, steer_i : -ILim .. ILim,
   steer_cmd : -SteerMax .. SteerMax, last_steer_cmd : -SteerMax .. SteerMax]

ShaperInit(p0) ==
  [desired_yaw |-> 0, heading_init |-> FALSE, prev_idle |-> FALSE,
   prev_stale |-> FALSE, hold |-> p0, ref |-> p0, steer_i |-> 0,
   steer_cmd |-> 0, last_steer_cmd |-> 0]

(* A slip: a stale command is shaped like a fresh one.                     *)
EnvelopeKeepsStale(cmd, stale) ==
  [vx |-> Clamp(cmd.vx, 0, MaxLinVel), wz |-> Limit(cmd.wz, MaxYawRate)]

(* Trained envelope; the gait has no reverse; a stale command is zero.     *)
Envelope(cmd, stale) ==
  IF stale THEN [vx |-> 0, wz |-> 0]
  ELSE [vx |-> Clamp(cmd.vx, 0, MaxLinVel), wz |-> Limit(cmd.wz, MaxYawRate)]

(* Position hold: the stop point is latched when the command goes stale.   *)
StopPoint(s, stale, odom, place) ==
  IF PositionHold /\ odom /\ stale /\ ~s.prev_stale THEN place ELSE s.hold

(* Out of the dead band: face the stop point first, then walk back to it.  *)
WalkBack(w, hold, stale, odom, place, yaw) ==
  LET aside == Wrap(Bearing(place, hold) - yaw)
  IN  IF ~(PositionHold /\ odom /\ stale /\ Dist(place, hold) > Deadband) THEN w
      ELSE IF Abs(aside) > FaceTol
      THEN [vx |-> 0, wz |-> Limit(2 * aside, MaxYawRate)]
      ELSE [vx |-> Clamp(Dist(place, hold), StandVx + 1, HoldSpeed),
            wz |-> Limit((3 * aside) \div 2, MaxYawRate)]

(* Heading setpoint: latched at the start and on moving to idle, turned by *)
(* the commanded rate, never further than ErrClamp from the measured yaw.  *)
Setpoint(s, w, relatch, yaw) ==
  LET latched == IF relatch THEN yaw ELSE s.desired_yaw
      turned  == Wrap(latched + w.wz)
  IN  IF HeadingLock THEN LockYaw
      ELSE Wrap(yaw + Limit(Wrap(turned - yaw), ErrClamp))

(* A slip: the limiter starts from the demand, not from what was applied.  *)
SteerUnlimited(last, demand) ==
  [steer_cmd |-> Limit(demand, SteerMax), last_steer_cmd |-> demand]

(* Rate limit, then the absolute limit                                     *)
Steer(last, demand) ==
  LET cmd == Limit(last + Limit(demand - last, MaxDelta), SteerMax)
  IN  [steer_cmd |-> cmd, last_steer_cmd |-> cmd]

(* Slow forward while a large heading error is being corrected.            *)
Throttled(vx, err) ==
  (vx * Clamp(FullScale - (FullScale * Abs(err)) \div SlowErr, MinScale, FullScale))
    \div FullScale

Wind(i, err)       == IF SteerKi = 0 THEN i ELSE Limit(i + err, ILim)

(* Heading hold, lateral hold and steering, from the command w             *)
Held(s, w, place, yaw) ==
  LET idle    == w.vx = 0 /\ w.wz = 0
      relatch == ~s.heading_init \/ (idle /\ ~s.prev_idle) \/ (idle /\ ~StationKeep)
      desired == Setpoint(s, w, relatch, yaw)
      turning == Abs(w.wz) > TurnThresh
      ref     == IF relatch \/ (LateralHold /\ turning) THEN place ELSE s.ref
      cross   == IF LateralHold /\ ~turning
                 THEN Limit(-LatKp * LatErr(ref, place, desired), LatMax) ELSE 0
      err     == Limit(Wrap(desired - yaw), ErrClamp) + cross
      steer_i == Wind(IF relatch THEN 0 ELSE s.steer_i, err)
      steer   == Steer(s.last_steer_cmd, SteerKp * err + SteerKi * steer_i)
  IN  [state |-> [s EXCEPT !.desired_yaw = desired, !.heading_init = TRUE,
                           !.prev_idle = idle, !.ref = ref, !.steer_i = steer_i,
                           !.steer_cmd = steer.steer_cmd,
                           !.last_steer_cmd = steer.last_steer_cmd],
       vx |-> Throttled(w.vx, err)]

(* shape(): one control period                                             *)
Shape(s, cmd, stale, odom, place, yaw) ==
  LET hold == StopPoint(s, stale, odom, place)
      w    == WalkBack(Envelope(cmd, stale), hold, stale, odom, place, yaw)
      t    == [s EXCEPT !.hold = hold, !.prev_stale = stale]
  IN  IF HeadingHold /\ odom THEN Held(t, w, place, yaw)
      ELSE [state |-> [t EXCEPT !.steer_cmd = 0], vx |-> w.vx]
=============================================================================
