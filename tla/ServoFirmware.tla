--------------------------- MODULE ServoFirmware ---------------------------
(***************************************************************************)
(* The servo path of the microcontroller sketch                            *)
(* (firmware/hardware_bridge_app/sketch/sketch.ino).                       *)
(*                                                                         *)
(* Two threads share g_pwm, g_pwm_dirty, g_diag_pending and the I2C driver *)
(* with its transmit buffer: the Bridge RPC background thread, which runs  *)
(* one handler at a time (set_servo_pwms, on_servo_diag, on_scan_i2c), and *)
(* the Arduino loop(), which writes the PCA9685 servo chip, runs the       *)
(* servo diagnostic and checks the chip once a second.  A step is one      *)
(* access to a shared word or one I2C transaction; the two threads may     *)
(* interleave between any two steps.                                       *)
(*                                                                         *)
(* The address scan is the one handler that uses the bus, and nothing      *)
(* locks the driver: its begin and end may fall between the begin, the     *)
(* writes and the end of a transaction of loop().  That is a data race,    *)
(* and a step of loop() taken while a scan is in progress is a choice over *)
(* what it can produce: a frame lost, sent to another address, sent        *)
(* whole, or cut, which puts a stray count in the registers of a channel   *)
(* or a stray mode in MODE1; any acknowledgement and any read.  (A scan    *)
(* that begins or ends inside a transaction is one that begins just before *)
(* it or ends just after it: both steps change the handler's place only.   *)
(* A read, whose frame is a register number, leaves the chip as it is.)    *)
(*                                                                         *)
(* Data.  A pose is the number of the message it came in (1, 2, ... in the *)
(* order the handler accepts them); Off is the count 0 of a channel never  *)
(* commanded or cleared by a power loss, TestPose the diagnostic's pattern,*)
(* Mixed a count that is nobody's.  chip is what the registers of a channel*)
(* hold.  MODE2, the prescaler and the configuration of the other devices, *)
(* which a cut frame may also reach, are not modelled.                     *)
(* Time is abstract: the 1 Hz check, the 8 ms IMU read and the settle time *)
(* and timeout of the diagnostic may each be due, or not, on any pass.     *)
(* A payload that does not parse to twelve fields changes nothing here.    *)
(***************************************************************************)
EXTENDS Integers

CONSTANTS
  NumChannels,   (* servo channels in use (12 on the robot)                *)
  FailLimit,     (* failed reads in a row before re-initialisation         *)
  MaxMsgs,       (* bound: poses the host sends                            *)
  MaxDiags,      (* bound: diagnostics the host requests                   *)
  MaxScans,      (* bound: address scans the host requests                 *)
  MaxOutages,    (* bound: times the I2C bus stops answering               *)
  MaxBrownouts   (* bound: times the servo chip loses power                *)

ASSUME ChannelsAssumption == NumChannels \in Nat \ {0}
ASSUME FailLimitAssumption == FailLimit \in Nat \ {0}
ASSUME BoundsAssumption ==
  /\ MaxMsgs \in Nat /\ MaxDiags \in Nat /\ MaxScans \in Nat
  /\ MaxOutages \in Nat /\ MaxBrownouts \in Nat

VARIABLES
  g_pwm,            (* channel -> pose the host last put there             *)
  g_pwm_dirty,      (* g_pwm holds something loop() has yet to write       *)
  g_diag_pending,   (* a diagnostic is requested or running                *)
  g_diag_phase,     (* 0: test pose not written yet, 1: waiting to settle  *)
  fails,            (* g_i2c_consecutive_fails, saturating at FailLimit    *)
  hpc, hidx,        (* background thread: where it is, channel it copies   *)
  lpc, lidx,        (* loop(): where it is, channel it works on            *)
  snapshot,         (* pca9685_write_servos: its private copy of g_pwm     *)
  writeOk,          (* pca9685_write_servos: no channel has failed so far  *)
  chip, awake,      (* PCA9685: channel -> pose; MODE1 has SLEEP clear and *)
                    (* auto-increment (AI) set                             *)
  raced,            (* loop() has written to the chip during a scan        *)
  bus,              (* the I2C bus answers                                 *)
  report,           (* last servo_diag_result sent to the host             *)
  sent, diags, scans, outages, brownouts,  (* how often each has happened  *)
  unflushed,        (* history: a chip was woken, the check that it is     *)
                    (* awake failed, and no servo write has begun since    *)
  disturbed         (* history: since the diagnostic began its writes      *)
                    (* something else may have touched the chip            *)

vars == <<g_pwm, g_pwm_dirty, g_diag_pending, g_diag_phase, fails, hpc, hidx,
          lpc, lidx, snapshot, writeOk, chip, awake, raced, bus, report,
          sent, diags, scans, outages, brownouts, unflushed, disturbed>>

handlerVars == <<hpc, hidx>>
loopVars    == <<lpc, lidx, snapshot, writeOk>>
diagVars    == <<g_diag_pending, g_diag_phase, report>>
chipVars    == <<chip, awake, raced>>
counts      == <<sent, diags, scans, outages, brownouts>>
history     == <<unflushed, disturbed>>

Channels == 1 .. NumChannels
Off      == 0
TestPose == -1
Mixed    == -2
Pose     == {Mixed, TestPose} \cup Nat

HandlerPC == {"idle", "copy", "flag", "scan"}
LoopPC    == {"write", "snap", "send", "written", "diag", "test", "diagEnd", "imu",
              "status", "verify", "sleep", "wake", "reverify", "readback",
              "healSleep", "healWake"}
Reports   == {"none", "pass", "fail", "mixed", "abort"}

----------------------------------------------------------------------------
(* The bus during a transaction of loop().                                 *)

Scanning == hpc = "scan"

(* What endTransmission or a read may answer.                              *)
Answers == IF ~bus THEN {FALSE} ELSE IF Scanning THEN BOOLEAN ELSE {TRUE}

Races == raced' = (raced \/ Scanning)

(* Registers with stray counts in some channels.                           *)
Garbled(registers) ==
  {[c \in Channels |-> IF c \in hit THEN Mixed ELSE registers[c]]
     : hit \in SUBSET Channels}

(* The five bytes of channel lidx.  With AI off, in a chip that sleeps,    *)
(* they are acknowledged all the same, but go to one register one after    *)
(* the other and set no pose.  A stray mode may have AI and SLEEP set.     *)
WriteServo(pose) ==
  LET whole == [chip EXCEPT ![lidx] = pose]
  IN  /\ chip' \in IF ~bus THEN {chip}
                   ELSE IF Scanning THEN Garbled(chip) \cup Garbled(whole)
                   ELSE IF awake THEN {whole}
                   ELSE IF raced THEN {chip, whole} ELSE {chip}
      /\ awake' \in IF bus /\ Scanning THEN BOOLEAN ELSE {awake}
      /\ Races

(* i2c_write_byte to MODE1.                                                *)
WriteMode(wakes) ==
  /\ awake' \in IF ~bus THEN {awake}
                ELSE IF Scanning THEN {awake, wakes} ELSE {wakes}
  /\ Races

(* What g_i2c_consecutive_fails may be after some i2c_read_bytes: without  *)
(* an answer n of them fail, raced ones may end with up to tail failures   *)
(* after a success.                                                        *)
Failures(n, tail) ==
  LET capped(k) == IF k < FailLimit THEN k ELSE FailLimit
  IN  IF ~bus THEN {capped(fails + n)}
      ELSE IF Scanning THEN {capped(fails + n)} \cup {capped(k) : k \in 0 .. tail}
      ELSE {0}

CountReads(n, tail) == fails' \in Failures(n, tail)

(* pca9685_verify_init, whose one read succeeds iff it clears the count.   *)
Verify(ai) ==
  /\ CountReads(1, 0)
  /\ ai \in IF fails' # 0 THEN {FALSE} ELSE IF Scanning THEN BOOLEAN ELSE {awake}

GoTo(pc) == lpc' = pc /\ UNCHANGED <<lidx, snapshot, writeOk>>

Init ==
  /\ g_pwm = [c \in Channels |-> Off] /\ g_pwm_dirty = FALSE
  /\ g_diag_pending = FALSE /\ g_diag_phase = 0 /\ report = "none"
  /\ fails = 0
  /\ hpc = "idle" /\ hidx = 1
  /\ lpc = "write" /\ lidx = 1
  /\ snapshot = [c \in Channels |-> Off] /\ writeOk = TRUE
  /\ chip = [c \in Channels |-> Off] /\ awake \in BOOLEAN /\ bus = TRUE
  /\ raced = FALSE /\ unflushed = FALSE /\ disturbed = TRUE
  /\ sent = 0 /\ diags = 0 /\ scans = 0 /\ outages = 0 /\ brownouts = 0
----------------------------------------------------------------------------
(* Handlers, in the Bridge RPC background thread.                          *)

(* A slip: the poses are cleared before they are filled in.                *)
SetServoPwmsClears ==
  /\ hpc = "idle" /\ sent < MaxMsgs
  /\ sent' = sent + 1
  /\ hpc' = "copy" /\ hidx' = 1
  /\ g_pwm' = [c \in Channels |-> Off]
  /\ UNCHANGED <<g_pwm_dirty, fails, bus, diags, scans, outages, brownouts,
                 loopVars, diagVars, chipVars, history>>

(* set_servo_pwms: parse twelve fields, copy them, raise the flag.         *)
SetServoPwms ==
  /\ hpc = "idle" /\ sent < MaxMsgs
  /\ sent' = sent + 1
  /\ hpc' = "copy" /\ hidx' = 1
  /\ UNCHANGED <<g_pwm, g_pwm_dirty, fails, bus, diags, scans, outages,
                 brownouts, loopVars, diagVars, chipVars, history>>

CopyChannel ==
  /\ hpc = "copy"
  /\ g_pwm' = [g_pwm EXCEPT ![hidx] = sent]
  /\ IF hidx < NumChannels THEN hidx' = hidx + 1 /\ hpc' = hpc
                           ELSE hidx' = hidx /\ hpc' = "flag"
  /\ UNCHANGED <<g_pwm_dirty, fails, bus, loopVars, diagVars, chipVars, counts,
                 history>>

RaiseDirty ==
  /\ hpc = "flag"
  /\ g_pwm_dirty' = TRUE
  /\ hpc' = "idle" /\ hidx' = hidx
  /\ UNCHANGED <<g_pwm, fails, bus, loopVars, diagVars, chipVars, counts, history>>

(* on_servo_diag: leaves all the I2C work to loop()                        *)
OnServoDiag ==
  /\ hpc = "idle" /\ diags < MaxDiags
  /\ g_diag_pending' = TRUE
  /\ diags' = diags + 1
  /\ UNCHANGED <<g_pwm, g_pwm_dirty, fails, bus, g_diag_phase, report, sent,
                 scans, outages, brownouts, handlerVars, loopVars, chipVars, history>>

(* on_scan_i2c: one probe per address.  g_i2c_busy is raised only around   *)
(* reads and is tested once, before the first probe, so a scan may begin   *)
(* at any time.                                                            *)
ScanBegin ==
  /\ hpc = "idle" /\ scans < MaxScans
  /\ scans' = scans + 1
  /\ disturbed' = TRUE
  /\ hpc' = "scan" /\ hidx' = hidx
  /\ UNCHANGED <<g_pwm, g_pwm_dirty, fails, bus, sent, diags, outages,
                 brownouts, loopVars, diagVars, chipVars, unflushed>>

(* A probe has no bytes of its own.  One whose begin fell inside a         *)
(* transaction of loop() and whose end falls after it sends, to its own    *)
(* address, what that left in the buffer.                                  *)
ScanProbe ==
  /\ Scanning /\ raced /\ bus
  /\ chip' \in Garbled(chip) /\ awake' \in BOOLEAN
  /\ UNCHANGED <<g_pwm, g_pwm_dirty, fails, bus, raced, handlerVars, loopVars,
                 diagVars, counts, history>>

ScanEnd ==
  /\ Scanning
  /\ hpc' = "idle" /\ hidx' = hidx
  /\ UNCHANGED <<g_pwm, g_pwm_dirty, fails, bus, loopVars, diagVars, chipVars,
                 counts, history>>

HandlerStep == CopyChannel \/ RaiseDirty \/ ScanEnd

----------------------------------------------------------------------------
(* loop(): the deferred servo write.                                       *)

ClearDirty ==
  /\ lpc = "write" /\ g_pwm_dirty
  /\ g_pwm_dirty' = FALSE
  /\ lpc' = "snap" /\ lidx' = 1 /\ writeOk' = TRUE /\ snapshot' = snapshot
  /\ unflushed' = FALSE /\ disturbed' = TRUE
  /\ UNCHANGED <<g_pwm, fails, bus, handlerVars, diagVars, chipVars, counts>>

NothingToWrite ==
  /\ lpc = "write" /\ ~g_pwm_dirty
  /\ GoTo("diag")
  /\ UNCHANGED <<g_pwm, g_pwm_dirty, fails, bus, handlerVars, diagVars,
                 chipVars, counts, history>>

SnapChannel ==
  /\ lpc = "snap"
  /\ snapshot' = [snapshot EXCEPT ![lidx] = g_pwm[lidx]]
  /\ IF lidx < NumChannels THEN lidx' = lidx + 1 /\ lpc' = lpc
                           ELSE lidx' = 1 /\ lpc' = "send"
  /\ UNCHANGED <<g_pwm, g_pwm_dirty, writeOk, fails, bus, handlerVars, diagVars,
                 chipVars, counts, history>>

WriteChannel ==
  /\ lpc = "send"
  /\ WriteServo(snapshot[lidx])
  /\ \E acked \in Answers : writeOk' = (writeOk /\ acked)
  /\ IF lidx < NumChannels THEN lidx' = lidx + 1 /\ lpc' = lpc
                           ELSE lidx' = lidx /\ lpc' = "written"
  /\ UNCHANGED <<g_pwm, g_pwm_dirty, fails, bus, snapshot, handlerVars,
                 diagVars, counts, history>>

(* Two slips: the flag cleared after the write instead of before it, and   *)
(* no retry.                                                               *)
WriteDoneClears ==
  /\ lpc = "written"
  /\ g_pwm_dirty' = ~writeOk
  /\ GoTo("diag")
  /\ UNCHANGED <<g_pwm, fails, bus, handlerVars, diagVars, chipVars, counts, history>>

WriteDoneForgets ==
  /\ lpc = "written"
  /\ GoTo("diag")
  /\ UNCHANGED <<g_pwm, g_pwm_dirty, fails, bus, handlerVars, diagVars,
                 chipVars, counts, history>>

(* A failed write is retried on the next pass; a good one leaves the flag  *)
(* as it is now, which a message received meanwhile may have raised.       *)
WriteDone ==
  /\ lpc = "written"
  /\ g_pwm_dirty' = (g_pwm_dirty \/ ~writeOk)
  /\ GoTo("diag")
  /\ UNCHANGED <<g_pwm, fails, bus, handlerVars, diagVars, chipVars, counts, history>>
----------------------------------------------------------------------------
(* loop(): the deferred servo diagnostic.                                  *)

NoDiag ==
  /\ lpc = "diag" /\ ~g_diag_pending
  /\ GoTo("imu")
  /\ UNCHANGED <<g_pwm, g_pwm_dirty, fails, bus, handlerVars, diagVars,
                 chipVars, counts, history>>

(* Phase 0 writes the test pose past g_pwm, straight to the chip, and      *)
(* looks at no acknowledgement.                                            *)
DiagStart ==
  /\ lpc = "diag" /\ g_diag_pending /\ g_diag_phase = 0
  /\ lpc' = "test" /\ lidx' = 1 /\ UNCHANGED <<snapshot, writeOk>>
  /\ disturbed' = (~bus \/ ~awake \/ Scanning)
  /\ UNCHANGED <<g_pwm, g_pwm_dirty, fails, bus, handlerVars, diagVars,
                 chipVars, counts, unflushed>>

(* A slip: the test pose misses the last channel.                          *)
TestChannelShort ==
  /\ lpc = "test"
  /\ WriteServo(TestPose)
  /\ IF lidx + 1 < NumChannels
       THEN lidx' = lidx + 1 /\ lpc' = lpc /\ UNCHANGED g_diag_phase
       ELSE lidx' = lidx /\ lpc' = "imu" /\ g_diag_phase' = 1
  /\ UNCHANGED <<g_pwm, g_pwm_dirty, g_diag_pending, report, fails, bus,
                 snapshot, writeOk, handlerVars, counts, history>>

TestChannel ==
  /\ lpc = "test"
  /\ WriteServo(TestPose)
  /\ IF lidx < NumChannels
       THEN lidx' = lidx + 1 /\ lpc' = lpc /\ UNCHANGED g_diag_phase
       ELSE lidx' = lidx /\ lpc' = "imu" /\ g_diag_phase' = 1
  /\ UNCHANGED <<g_pwm, g_pwm_dirty, g_diag_pending, report, fails, bus,
                 snapshot, writeOk, handlerVars, counts, history>>

DiagSettling ==
  /\ lpc = "diag" /\ g_diag_pending /\ g_diag_phase = 1
  /\ GoTo("imu")
  /\ UNCHANGED <<g_pwm, g_pwm_dirty, fails, bus, handlerVars, diagVars,
                 chipVars, counts, history>>

DiagAbort ==
  /\ lpc = "diag" /\ g_diag_pending /\ g_diag_phase = 1
  /\ report' = "abort"
  /\ GoTo("diagEnd")
  /\ UNCHANGED <<g_pwm, g_pwm_dirty, g_diag_pending, g_diag_phase, fails, bus,
                 handlerVars, chipVars, counts, history>>

(* The sets of channels whose readback may be within 2 counts of the       *)
(* pattern.  A pose, and what a cut frame leaves, may or may not be; the   *)
(* count of a channel without power or never commanded is not.             *)
Passed ==
  IF ~bus THEN {{}}
  ELSE IF Scanning THEN SUBSET Channels
  ELSE {P \in SUBSET Channels :
          \A c \in Channels : /\ chip[c] = TestPose => c \in P
                              /\ chip[c] = Off => c \notin P}

Verdict(passed) ==
  IF passed = Channels THEN "pass" ELSE IF passed = {} THEN "fail" ELSE "mixed"

DiagReadback ==
  /\ lpc = "diag" /\ g_diag_pending /\ g_diag_phase = 1
  /\ \E passed \in Passed : report' = Verdict(passed)
  /\ CountReads(NumChannels + 1, NumChannels + 1)
  /\ GoTo("diagEnd")
  /\ UNCHANGED <<g_pwm, g_pwm_dirty, g_diag_pending, g_diag_phase, bus,
                 handlerVars, chipVars, counts, history>>

(* A slip: the request is never cleared.                                   *)
DiagEndKeepsRequest ==
  /\ lpc = "diagEnd"
  /\ g_diag_phase' = 0
  /\ GoTo("imu")
  /\ UNCHANGED <<g_pwm, g_pwm_dirty, g_diag_pending, report, fails, bus,
                 handlerVars, chipVars, counts, history>>

(* After the notify: a request handled in between is dropped here.         *)
DiagEnd ==
  /\ lpc = "diagEnd"
  /\ g_diag_pending' = FALSE /\ g_diag_phase' = 0
  /\ GoTo("imu")
  /\ UNCHANGED <<g_pwm, g_pwm_dirty, report, fails, bus, handlerVars, chipVars,
                 counts, history>>

----------------------------------------------------------------------------
(* loop(): the IMU read, whose only effect here is on the failure count.   *)

Imu ==
  /\ lpc = "imu"
  /\ CountReads(1, 1) \/ UNCHANGED fails
  /\ GoTo("status")
  /\ UNCHANGED <<g_pwm, g_pwm_dirty, bus, handlerVars, diagVars, chipVars,
                 counts, history>>

----------------------------------------------------------------------------
(* loop(): the 1 Hz status push and chip health check.                     *)

StatusUnchanged ==
  UNCHANGED <<g_pwm, chip, bus, handlerVars, diagVars, counts, disturbed>>

StatusNotDue ==
  /\ lpc = "status" /\ GoTo("write")
  /\ StatusUnchanged /\ UNCHANGED <<g_pwm_dirty, fails, awake, raced, unflushed>>

(* i2c_scan_devices: the chip is verified only when it answers its address *)
StatusScan ==
  /\ lpc = "status"
  /\ \E acked \in Answers : GoTo(IF acked THEN "verify" ELSE "readback")
  /\ StatusUnchanged /\ UNCHANGED <<g_pwm_dirty, fails, awake, raced, unflushed>>

(* A slip: an answer to the read is taken for an initialised chip.         *)
VerifyAnswerOnly ==
  /\ lpc = "verify" /\ CountReads(1, 0)
  /\ GoTo(IF fails' = 0 THEN "readback" ELSE "sleep")
  /\ StatusUnchanged /\ UNCHANGED <<g_pwm_dirty, awake, raced, unflushed>>

VerifyInit ==
  /\ lpc = "verify"
  /\ \E ai \in BOOLEAN : Verify(ai) /\ GoTo(IF ai THEN "readback" ELSE "sleep")
  /\ StatusUnchanged /\ UNCHANGED <<g_pwm_dirty, awake, raced, unflushed>>

(* pca9685_init: MODE1 to sleep, prescaler, MODE1 to awake; it stops at    *)
(* the first write that fails and so can leave the chip asleep.            *)
InitSleep ==
  /\ lpc = "sleep" /\ WriteMode(FALSE)
  /\ \E acked \in Answers : GoTo(IF acked THEN "wake" ELSE "readback")
  /\ StatusUnchanged /\ UNCHANGED <<g_pwm_dirty, fails, unflushed>>

InitWake ==
  /\ lpc = "wake" /\ WriteMode(TRUE)
  /\ \E acked \in Answers : GoTo(IF acked THEN "reverify" ELSE "readback")
  /\ StatusUnchanged /\ UNCHANGED <<g_pwm_dirty, fails, unflushed>>

(* The flag is raised only if the chip is found awake.                     *)
Reverify ==
  /\ lpc = "reverify" /\ GoTo("readback")
  /\ \E ai \in BOOLEAN : /\ Verify(ai)
                         /\ g_pwm_dirty' = (g_pwm_dirty \/ ai)
                         /\ unflushed' = (unflushed \/ (awake /\ ~ai))
  /\ StatusUnchanged /\ UNCHANGED <<awake, raced>>

Readback ==
  /\ lpc = "readback" /\ CountReads(1, 1)
  /\ GoTo(IF fails' >= FailLimit THEN "healSleep" ELSE "write")
  /\ StatusUnchanged /\ UNCHANGED <<g_pwm_dirty, awake, raced, unflushed>>

(* After FailLimit failures the chip is re-initialised; the outcome is     *)
(* ignored, the flag raised and the count cleared either way.              *)
HealSleep ==
  /\ lpc = "healSleep" /\ WriteMode(FALSE)
  /\ \E acked \in Answers :
       IF acked THEN GoTo("healWake") /\ UNCHANGED <<g_pwm_dirty, fails>>
                ELSE GoTo("write") /\ g_pwm_dirty' = TRUE /\ fails' = 0
  /\ StatusUnchanged /\ UNCHANGED unflushed

HealWake ==
  /\ lpc = "healWake" /\ GoTo("write")
  /\ WriteMode(TRUE)
  /\ g_pwm_dirty' = TRUE /\ fails' = 0
  /\ StatusUnchanged /\ UNCHANGED unflushed

LoopStep ==
  \/ ClearDirty \/ NothingToWrite \/ SnapChannel \/ WriteChannel \/ WriteDone
  \/ NoDiag \/ DiagStart \/ TestChannel
  \/ DiagSettling \/ DiagAbort \/ DiagReadback \/ DiagEnd
  \/ Imu
  \/ StatusNotDue \/ StatusScan \/ VerifyInit \/ InitSleep \/ InitWake
  \/ Reverify \/ Readback \/ HealSleep \/ HealWake

----------------------------------------------------------------------------
(* The board: the bus stops answering and answers again, the servo chip    *)
(* loses power (sensed by nobody; the next health check finds it asleep).  *)

BusDown ==
  /\ bus /\ outages < MaxOutages
  /\ bus' = FALSE /\ outages' = outages + 1
  /\ disturbed' = TRUE
  /\ UNCHANGED <<g_pwm, g_pwm_dirty, fails, handlerVars, loopVars, diagVars,
                 chipVars, sent, diags, scans, brownouts, unflushed>>

BusUp ==
  /\ ~bus /\ bus' = TRUE
  /\ UNCHANGED <<g_pwm, g_pwm_dirty, fails, handlerVars, loopVars, diagVars,
                 chipVars, counts, history>>

BrownOut ==
  /\ brownouts < MaxBrownouts
  /\ brownouts' = brownouts + 1
  /\ chip' = [c \in Channels |-> Off] /\ awake' = FALSE
  /\ disturbed' = TRUE
  /\ UNCHANGED <<g_pwm, g_pwm_dirty, fails, raced, bus, handlerVars, loopVars,
                 diagVars, sent, diags, scans, outages, unflushed>>

Next ==
  \/ SetServoPwms \/ OnServoDiag \/ ScanBegin \/ ScanProbe \/ HandlerStep
  \/ LoopStep
  \/ BusDown \/ BusUp \/ BrownOut

(* Both threads keep running and a bus that is down comes back.  The 1 Hz  *)
(* check and the settle time and timeout of the diagnostic are clocks: a   *)
(* loop that keeps passing them finds them due again and again.            *)
Fairness ==
  /\ WF_vars(HandlerStep) /\ WF_vars(LoopStep) /\ WF_vars(BusUp)
  /\ SF_vars(StatusScan) /\ SF_vars(DiagAbort \/ DiagReadback)

Spec == Init /\ [][Next]_vars
FairSpec == Spec /\ Fairness

----------------------------------------------------------------------------
TypeOK ==
  /\ g_pwm \in [Channels -> Nat] /\ snapshot \in [Channels -> Nat]
  /\ chip \in [Channels -> Pose]
  /\ g_pwm_dirty \in BOOLEAN /\ g_diag_pending \in BOOLEAN
  /\ g_diag_phase \in {0, 1} /\ report \in Reports
  /\ fails \in 0 .. FailLimit
  /\ hpc \in HandlerPC /\ hidx \in Channels
  /\ lpc \in LoopPC /\ lidx \in Channels /\ writeOk \in BOOLEAN
  /\ awake \in BOOLEAN /\ raced \in BOOLEAN /\ bus \in BOOLEAN
  /\ sent \in Nat /\ diags \in Nat /\ scans \in Nat
  /\ outages \in Nat /\ brownouts \in Nat
  /\ unflushed \in BOOLEAN /\ disturbed \in BOOLEAN

(* Nobody is in the middle of anything and nothing waits to be written.    *)
Settled == hpc = "idle" /\ lpc = "write" /\ ~g_pwm_dirty

(* No update is lost and no torn pose stays: whenever the sketch is at     *)
(* rest with an awake chip, every channel holds the last pose accepted or  *)
(* the diagnostic's, whatever the interleaving of the copy with the        *)
(* snapshot, whatever writes failed, however often the chip lost power and *)
(* whatever was written while it slept.  Two excuses: loop() wrote to the  *)
(* chip during an address scan, or the check after a wake-up failed and    *)
(* left the flag down (set_servo_pwms, pca9685_write_servos, loop()).      *)
SettledPoseShown ==
  Settled /\ awake /\ ~raced /\ ~unflushed
    => \A c \in Channels : chip[c] \in {sent, TestPose}

(* A diagnostic of a sound chip passes: if the bus answered and the chip   *)
(* was awake from its first write to its readback, and neither a scan nor  *)
(* a deferred servo write came in between, every channel is good, whatever *)
(* checks, IMU reads and messages the settle time was filled with          *)
(* (sketch.ino:671-741).                                                   *)
UndisturbedDiagPasses == [][DiagReadback /\ ~disturbed => report' = "pass"]_vars

(* A pose that is accepted gets to every channel, unless a newer one       *)
(* supersedes it, for as many outages as the bus has: failed writes are    *)
(* retried, and what was written to a sleeping chip is written again when  *)
(* it has been woken.  The excuse is again a wake-up whose check failed,   *)
(* with the flag left down.                                                *)
AcceptedPoseShown ==
  \A m \in 1 .. MaxMsgs :
    (hpc = "flag" /\ sent = m)
      ~> (sent > m \/ (\A c \in Channels : chip[c] = m) \/ (Settled /\ unflushed))

(* A chip that lost power or was left asleep by a failed initialisation is *)
(* awake again in the end: the health check keeps repairing it.            *)
SleepingChipWakes == ~awake ~> awake

(* The newest pose channel c has shown or passed over: the one it shows, or*)
(* while it shows none, the one in the private copy, the next to come.     *)
Newest(c) == IF chip[c] \in {Off, TestPose, Mixed} THEN snapshot[c] ELSE chip[c]

Display == INSTANCE ServoDisplay
             WITH latest <- sent, newest <- [c \in Channels |-> Newest(c)],
                  shown <- chip, scanning <- Scanning

(* No servo goes back to an older pose, whatever the interleaving of the   *)
(* copy, the snapshot, the writes, their retries, a diagnostic and a power *)
(* loss: the servo path implements ServoDisplay.  During an address scan,  *)
(* whose probes share the transmit buffer, a channel may come to hold a    *)
(* count that is nobody's, and only then; what is written after it is      *)
(* again no older than what came before it.                                *)
NeverBack == Display!Spec

(* A diagnostic that was started ends, and with it its hold on the legs.   *)
DiagEnds == g_diag_pending ~> ~g_diag_pending
=============================================================================
