--------------------------- MODULE HardwareBridge ---------------------------
(***************************************************************************)
(* The node hardware_bridge: the services of BridgeServices and the        *)
(* calibration of the IMU.  The reader thread adds samples to a window     *)
(* under cal_mutex_ and takes the bias from it when it is full; the        *)
(* executor opens a new window when ~/recalibrate_imu is called, which it  *)
(* does between two other calls.  A sample is its number; a sum is the set *)
(* of the samples added up, and a bias the set it is the mean of.          *)
(***************************************************************************)
EXTENDS BridgeServices

CONSTANTS
  gyro_samples, accel_samples,    (* ..._calibration_samples               *)
  MaxSamples                      (* bound: IMU samples                    *)

ASSUME SamplesAssumption ==
  gyro_samples \in Nat /\ accel_samples \in Nat /\ MaxSamples \in Nat

VARIABLES
  enabled,            (* gyro_ and accel_calibration_enabled_              *)
  calibration_done_,
  cal_sum_, cal_nonzero_, cal_collected_,   (* the open window, whether any*)
                                            (* of it is not zero           *)
  bias,               (* gyro_bias_ and accel_bias_, {} before the first   *)
  sample,             (* samples received                                  *)
  opened              (* ... when the window was opened                    *)

window  == <<cal_sum_, cal_nonzero_, cal_collected_>>
calVars == <<enabled, calibration_done_, window, bias, sample, opened>>

Sensors == {"gyro", "accel"}
AnyEnabled == \E k \in Sensors : enabled[k]
target == IF gyro_samples > accel_samples THEN gyro_samples ELSE accel_samples

CalInit ==
  /\ enabled \in [Sensors -> BOOLEAN] /\ calibration_done_ = FALSE
  /\ cal_sum_ = {} /\ cal_nonzero_ = FALSE /\ cal_collected_ = 0
  /\ bias = [k \in Sensors |-> {}] /\ sample = 0 /\ opened = 0

----------------------------------------------------------------------------
(* Reader thread.                                                          *)

(* A full window becomes the bias; one of zeros only is an IMU that is not *)
(* there, and ends calibration for good.                                   *)
FinishCalibration ==
  /\ calibration_done_' = TRUE
  /\ IF cal_nonzero_'
     THEN /\ bias' = [k \in Sensors |-> IF enabled[k] THEN cal_sum_' ELSE bias[k]]
          /\ UNCHANGED enabled
     ELSE enabled' = [k \in Sensors |-> FALSE] /\ UNCHANGED bias

AddToWindow(zero) ==
  /\ cal_sum_' = cal_sum_ \cup {sample'}
  /\ cal_nonzero_' = (cal_nonzero_ \/ ~zero)
  /\ cal_collected_' = cal_collected_ + 1
  /\ IF cal_collected_' >= target THEN FinishCalibration
     ELSE UNCHANGED <<enabled, calibration_done_, bias>>

(* on_imu of a well-formed payload: accumulate_calibration, under the mutex*)
OnImu(zero) ==
  /\ sample < MaxSamples /\ sample' = sample + 1
  /\ \/ ~calibration_done_ /\ AnyEnabled /\ target > 0 /\ AddToWindow(zero)
     \/ /\ ~calibration_done_ /\ AnyEnabled /\ target = 0
        /\ calibration_done_' = TRUE /\ UNCHANGED <<enabled, window, bias>>
     \/ /\ calibration_done_ \/ ~AnyEnabled
        /\ UNCHANGED <<enabled, calibration_done_, window, bias>>
  /\ UNCHANGED <<opened, vars>>

----------------------------------------------------------------------------
(* Executor.                                                               *)

(* A slip: the samples of the window before count for the new one.         *)
RecalibrateKeepsCount ==
  /\ pc = "idle" /\ AnyEnabled
  /\ cal_sum_' = {} /\ cal_nonzero_' = FALSE
  /\ calibration_done_' = FALSE /\ opened' = sample
  /\ UNCHANGED <<enabled, cal_collected_, bias, sample, vars>>

(* handle_recalibrate_imu, when it is not refused (calibration disabled)   *)
Recalibrate ==
  /\ pc = "idle" /\ AnyEnabled
  /\ cal_sum_' = {} /\ cal_nonzero_' = FALSE /\ cal_collected_' = 0
  /\ calibration_done_' = FALSE /\ opened' = sample
  /\ UNCHANGED <<enabled, bias, sample, vars>>

Calibration == (\E zero \in BOOLEAN : OnImu(zero)) \/ Recalibrate

NodeInit == Init /\ CalInit
NodeNext == (Next /\ UNCHANGED calVars) \/ Calibration
NodeSpec == NodeInit /\ [][NodeNext]_<<vars, calVars>>

----------------------------------------------------------------------------
(* Wherever recalibrations fall between the samples, a bias in use is that *)
(* of one whole window of consecutive samples, never a mix of before and   *)
(* after; and once a window's worth of samples has come since the last     *)
(* accepted recalibration, of exactly the samples since then, unless the   *)
(* IMU was found missing (hardware_bridge.yaml:163-164).                   *)
OneWindow ==
  \A k \in Sensors :
    /\ bias[k] # {} => \E first \in 0 .. sample : bias[k] = first + 1 .. first + target
    /\ enabled[k] /\ target > 0 /\ sample >= opened + target
         => bias[k] = opened + 1 .. opened + target
=============================================================================
