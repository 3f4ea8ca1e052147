------------------------ MODULE ServoFirmwareProofs ------------------------
(***************************************************************************)
(* Proofs about ServoFirmware, for every number of channels, every failure *)
(* limit and every bound: type correctness, SettledPoseShown,              *)
(* UndisturbedDiagPasses and NeverBack.                                    *)
(***************************************************************************)
EXTENDS ServoFirmware, TLAPS

----------------------------------------------------------------------------
(* The inductive invariant.                                                *)

(* g_pwm holds the last pose accepted, except where it is being copied in. *)
CopyInv ==
  IF hpc = "copy" THEN \A c \in Channels : c < hidx => g_pwm[c] = sent
                  ELSE \A c \in Channels : g_pwm[c] = sent

(* The flag is up, or the handler is on its way to raise it.               *)
DirtySoon == g_pwm_dirty \/ hpc \in {"copy", "flag"}

(* A snapshot that is out of date implies another write.                   *)
SnapshotInv ==
  /\ lpc = "snap" =>
       DirtySoon \/ \A c \in Channels : c < lidx => snapshot[c] = sent
  /\ lpc = "send" => DirtySoon \/ \A c \in Channels : snapshot[c] = sent

Shown(c) == chip[c] \in {sent, TestPose}

(* An awake chip that does not hold the last pose will be written, unless  *)
(* the check after its wake-up is still to come or has failed.             *)
ShownInv ==
  ~raced =>
    \/ ~awake \/ unflushed \/ lpc = "reverify"
    \/ DirtySoon \/ lpc = "snap"
    \/ lpc \in {"send", "written"} /\ ~writeOk
    \/ \A c \in Channels : (lpc = "send" => c < lidx) => Shown(c)

(* While nothing disturbs it, the diagnostic alone is at work on an awake  *)
(* chip, and every channel it has written holds the pattern.               *)
TestInv ==
  ~disturbed =>
    /\ bus /\ awake /\ ~Scanning
    /\ lpc \notin {"snap", "send", "written", "sleep", "wake", "reverify",
                   "healSleep", "healWake"}
    /\ lpc = "test" => \A c \in Channels : c < lidx => chip[c] = TestPose
    /\ g_diag_phase = 1 => \A c \in Channels : chip[c] = TestPose

IInv == TypeOK /\ CopyInv /\ SnapshotInv /\ ShownInv /\ TestInv
----------------------------------------------------------------------------
(* The bus.                                                                *)

(* Stray counts fall on some channels and leave the others alone.          *)
LEMMA GarbledChannels ==
  ASSUME NEW f \in [Channels -> Pose], NEW g \in Garbled(f)
  PROVE  g \in [Channels -> Pose] /\ \A c \in Channels : g[c] \in {f[c], Mixed}
<1>1. PICK hit \in SUBSET Channels :
        g = [c \in Channels |-> IF c \in hit THEN Mixed ELSE f[c]]
  BY DEF Garbled
<1>2. QED
  BY <1>1 DEF Pose

(* What five bytes on their way to the chip do to its registers: without a *)
(* scan all or nothing, during one any of the outcomes of a race.          *)
LEMMA ServoWritten ==
  ASSUME TypeOK, NEW p \in Pose, WriteServo(p)
  PROVE  /\ chip' \in [Channels -> Pose] /\ awake' \in BOOLEAN /\ raced' \in BOOLEAN
         /\ \/ chip' = chip
            \/ chip' = [chip EXCEPT ![lidx] = p]
            \/ /\ Scanning
               /\ \A c \in Channels :
                    chip'[c] \in {chip[c], Mixed} \cup (IF c = lidx THEN {p} ELSE {})
         /\ ~raced' => /\ ~raced /\ awake' = awake
                       /\ bus /\ awake => chip' = [chip EXCEPT ![lidx] = p]
         /\ ~Scanning /\ bus /\ awake
              => chip' = [chip EXCEPT ![lidx] = p] /\ awake'
<1> DEFINE whole == [chip EXCEPT ![lidx] = p]
<1>1. /\ chip \in [Channels -> Pose] /\ whole \in [Channels -> Pose]
      /\ \A c \in Channels : whole[c] \in {chip[c]} \cup (IF c = lidx THEN {p} ELSE {})
  BY DEF TypeOK
<1>2. awake' \in BOOLEAN /\ raced' \in BOOLEAN
  BY DEF WriteServo, Races, TypeOK
<1>3. CASE bus /\ Scanning
  <2>1. chip' \in Garbled(chip) \cup Garbled(whole) /\ raced'
    BY <1>3 DEF WriteServo, Races
  <2>2. /\ chip' \in [Channels -> Pose]
        /\ \A c \in Channels : chip'[c] \in {chip[c], Mixed, whole[c]}
    BY <1>1, <2>1, GarbledChannels
  <2>3. QED
    BY <1>1, <1>2, <1>3, <2>1, <2>2
<1>4. CASE ~(bus /\ Scanning)
  <2>1. chip' \in {chip, whole} /\ awake' = awake
    BY <1>4 DEF WriteServo
  <2>2. bus /\ awake => chip' = whole
    BY <1>4 DEF WriteServo
  <2>3. ~raced' => ~raced
    BY DEF WriteServo, Races
  <2>4. QED
    BY <1>1, <1>2, <2>1, <2>2, <2>3 DEF TypeOK
<1>5. QED
  BY <1>3, <1>4

(* What a write to MODE1 does.                                             *)
LEMMA ModeWritten ==
  ASSUME TypeOK, NEW v \in BOOLEAN, WriteMode(v)
  PROVE  /\ awake' \in BOOLEAN /\ raced' \in BOOLEAN
         /\ awake' \in {awake, v}
         /\ ~raced' => ~raced /\ ~Scanning
         /\ ~Scanning /\ bus => awake' = v
BY DEF WriteMode, Races, TypeOK

(* The count of failed reads stays within the limit; an answering bus      *)
(* without a scan clears it.                                               *)
LEMMA ReadsCounted ==
  ASSUME TypeOK, NEW n \in Nat, NEW tail \in Nat, CountReads(n, tail)
  PROVE  fails' \in 0 .. FailLimit /\ (bus /\ ~Scanning => fails' = 0)
BY FailLimitAssumption DEF CountReads, Failures, TypeOK

----------------------------------------------------------------------------
(* Type correctness.                                                       *)

(* The initial state has the types of the variables' declarations.         *)
LEMMA TypeInit == Init => TypeOK
<1> SUFFICES ASSUME Init PROVE TypeOK
  OBVIOUS
<1> USE ChannelsAssumption, FailLimitAssumption DEF Channels, Pose, Off, TestPose,
        HandlerPC, LoopPC, Reports
<1>1. /\ g_pwm \in [Channels -> Nat] /\ snapshot \in [Channels -> Nat]
      /\ chip \in [Channels -> Pose]
  BY DEF Init
<1>2. /\ g_pwm_dirty \in BOOLEAN /\ g_diag_pending \in BOOLEAN
      /\ writeOk \in BOOLEAN /\ awake \in BOOLEAN /\ bus \in BOOLEAN
      /\ raced \in BOOLEAN /\ unflushed \in BOOLEAN /\ disturbed \in BOOLEAN
  BY Zenon DEF Init
<1>3. QED
  BY <1>1, <1>2 DEF Init, TypeOK

(* Every step of either thread and of the board keeps the types.           *)
LEMMA TypeStep == TypeOK /\ [Next]_vars => TypeOK'
<1> SUFFICES ASSUME TypeOK, [Next]_vars PROVE TypeOK'
  OBVIOUS
<1> USE ChannelsAssumption, FailLimitAssumption DEF Channels, Pose, Off, TestPose,
        HandlerPC, LoopPC, Reports
<1> USE DEF TypeOK, GoTo, handlerVars, loopVars, diagVars, chipVars, counts, history
<1>1. CASE SetServoPwms
  BY <1>1 DEF SetServoPwms
<1>2. CASE CopyChannel
  BY <1>2 DEF CopyChannel
<1>3. CASE RaiseDirty
  BY <1>3 DEF RaiseDirty
<1>4. CASE OnServoDiag
  BY <1>4 DEF OnServoDiag
<1>5. CASE ScanBegin
  BY <1>5 DEF ScanBegin
<1>6. CASE ScanProbe
  <2>1. chip' \in [Channels -> Pose] /\ awake' \in BOOLEAN
    BY <1>6, GarbledChannels DEF ScanProbe
  <2>2. QED
    BY <1>6, <2>1 DEF ScanProbe
<1>7. CASE ScanEnd
  BY <1>7 DEF ScanEnd
<1>8. CASE ClearDirty
  <2>1. /\ g_pwm_dirty' \in BOOLEAN /\ writeOk' \in BOOLEAN
        /\ unflushed' \in BOOLEAN /\ disturbed' \in BOOLEAN
    BY <1>8 DEF ClearDirty
  <2>2. QED
    BY <1>8, <2>1 DEF ClearDirty
<1>9. CASE NothingToWrite
  BY <1>9 DEF NothingToWrite
<1>10. CASE SnapChannel
  BY <1>10 DEF SnapChannel
<1>11. CASE WriteChannel
  <2>1. snapshot[lidx] \in Pose /\ WriteServo(snapshot[lidx])
    BY <1>11 DEF WriteChannel
  <2>2. chip' \in [Channels -> Pose] /\ awake' \in BOOLEAN /\ raced' \in BOOLEAN
    BY <2>1, ServoWritten
  <2>3. writeOk' \in BOOLEAN
    BY <1>11 DEF WriteChannel, Answers
  <2>4. QED
    BY <1>11, <2>2, <2>3 DEF WriteChannel
<1>12. CASE WriteDone
  BY <1>12 DEF WriteDone
<1>13. CASE NoDiag
  BY <1>13 DEF NoDiag
<1>14. CASE DiagStart
  BY <1>14 DEF DiagStart
<1>15. CASE TestChannel
  <2>1. TestPose \in Pose /\ WriteServo(TestPose)
    BY <1>15 DEF TestChannel
  <2>2. chip' \in [Channels -> Pose] /\ awake' \in BOOLEAN /\ raced' \in BOOLEAN
    BY <2>1, ServoWritten
  <2>3. QED
    BY <1>15, <2>2 DEF TestChannel
<1>16. CASE DiagSettling
  BY <1>16 DEF DiagSettling
<1>17. CASE DiagAbort
  BY <1>17 DEF DiagAbort
<1>18. CASE DiagReadback
  <2>1. fails' \in 0 .. FailLimit
    BY <1>18, ReadsCounted DEF DiagReadback
  <2>2. report' \in Reports
    BY <1>18 DEF DiagReadback, Verdict
  <2>3. QED
    BY <1>18, <2>1, <2>2 DEF DiagReadback
<1>19. CASE DiagEnd
  BY <1>19 DEF DiagEnd
<1>20. CASE Imu
  <2>1. fails' \in 0 .. FailLimit
    BY <1>20, ReadsCounted DEF Imu
  <2>2. QED
    BY <1>20, <2>1 DEF Imu
<1>21. CASE StatusNotDue
  BY <1>21 DEF StatusNotDue, StatusUnchanged
<1>22. CASE StatusScan
  BY <1>22 DEF StatusScan, StatusUnchanged
<1>23. CASE VerifyInit
  <2>1. fails' \in 0 .. FailLimit
    BY <1>23, ReadsCounted DEF VerifyInit, Verify
  <2>2. QED
    BY <1>23, <2>1 DEF VerifyInit, StatusUnchanged
<1>24. CASE InitSleep
  <2>1. awake' \in BOOLEAN /\ raced' \in BOOLEAN
    BY <1>24, ModeWritten DEF InitSleep
  <2>2. QED
    BY <1>24, <2>1 DEF InitSleep, StatusUnchanged
<1>25. CASE InitWake
  <2>1. awake' \in BOOLEAN /\ raced' \in BOOLEAN
    BY <1>25, ModeWritten DEF InitWake
  <2>2. QED
    BY <1>25, <2>1 DEF InitWake, StatusUnchanged
<1>26. CASE Reverify
  <2>1. fails' \in 0 .. FailLimit
    BY <1>26, ReadsCounted DEF Reverify, Verify
  <2>2. g_pwm_dirty' \in BOOLEAN /\ unflushed' \in BOOLEAN
    BY <1>26 DEF Reverify
  <2>3. QED
    BY <1>26, <2>1, <2>2 DEF Reverify, StatusUnchanged
<1>27. CASE Readback
  <2>1. fails' \in 0 .. FailLimit
    BY <1>27, ReadsCounted DEF Readback
  <2>2. QED
    BY <1>27, <2>1 DEF Readback, StatusUnchanged
<1>28. CASE HealSleep
  <2>1. awake' \in BOOLEAN /\ raced' \in BOOLEAN
    BY <1>28, ModeWritten DEF HealSleep
  <2>2. g_pwm_dirty' \in BOOLEAN
    BY <1>28 DEF HealSleep
  <2>3. fails' \in 0 .. FailLimit /\ lpc' \in LoopPC
    BY <1>28 DEF HealSleep
  <2>4. UNCHANGED <<lidx, snapshot, writeOk>>
    BY <1>28 DEF HealSleep
  <2>5. QED
    BY <1>28, <2>1, <2>2, <2>3, <2>4 DEF HealSleep, StatusUnchanged
<1>29. CASE HealWake
  <2>1. awake' \in BOOLEAN /\ raced' \in BOOLEAN
    BY <1>29, ModeWritten DEF HealWake
  <2>2. QED
    BY <1>29, <2>1 DEF HealWake, StatusUnchanged
<1>30. CASE BusDown
  <2>1. bus' \in BOOLEAN /\ disturbed' \in BOOLEAN
    BY <1>30 DEF BusDown
  <2>2. outages' \in Nat
    BY <1>30 DEF BusDown
  <2>3. QED
    BY <1>30, <2>1, <2>2 DEF BusDown
<1>31. CASE BusUp
  BY <1>31 DEF BusUp
<1>32. CASE BrownOut
  <2>1. awake' \in BOOLEAN /\ disturbed' \in BOOLEAN
    BY <1>32 DEF BrownOut
  <2>2. brownouts' \in Nat
    BY <1>32 DEF BrownOut
  <2>3. chip' \in [Channels -> Pose]
    BY <1>32 DEF BrownOut
  <2>4. QED
    BY <1>32, <2>1, <2>2, <2>3 DEF BrownOut
<1>33. CASE UNCHANGED vars
  BY <1>33 DEF vars
<1>34. QED
  BY <1>1, <1>2, <1>3, <1>4, <1>5, <1>6, <1>7, <1>8, <1>9, <1>10, <1>11, <1>12,
    <1>13, <1>14, <1>15, <1>16, <1>17, <1>18, <1>19, <1>20, <1>21, <1>22,
    <1>23, <1>24, <1>25, <1>26, <1>27, <1>28, <1>29, <1>30, <1>31, <1>32,
    <1>33 DEF Next, HandlerStep, LoopStep

(* Type correctness of the servo path.                                     *)
THEOREM TypeCorrect == Spec => []TypeOK
<1>1. QED
  BY TypeInit, TypeStep, PTL DEF Spec

----------------------------------------------------------------------------
(* The parts of the inductive invariant, one lemma each.                   *)

(* set_servo_pwms leaves g_pwm with the last pose.                         *)
LEMMA CopyStep == TypeOK /\ CopyInv /\ [Next]_vars => CopyInv'
<1> SUFFICES ASSUME TypeOK, CopyInv, [Next]_vars PROVE CopyInv'
  OBVIOUS
<1> USE ChannelsAssumption DEF CopyInv, TypeOK, Channels, HandlerPC, handlerVars, counts
<1>1. CASE SetServoPwms
  BY <1>1 DEF SetServoPwms
<1>2. CASE CopyChannel
  BY <1>2 DEF CopyChannel
<1>3. CASE RaiseDirty
  BY <1>3 DEF RaiseDirty
<1>4. CASE OnServoDiag \/ ScanBegin \/ ScanProbe \/ ScanEnd
  BY <1>4 DEF OnServoDiag, ScanBegin, ScanProbe, ScanEnd, Scanning
<1>5. CASE LoopStep
  <2>1. UNCHANGED <<g_pwm, hpc, hidx, sent>>
    BY <1>5 DEF LoopStep, StatusUnchanged, ClearDirty, NothingToWrite, SnapChannel,
      WriteChannel, WriteDone, NoDiag, DiagStart, TestChannel, DiagSettling,
      DiagAbort, DiagReadback, DiagEnd, Imu, StatusNotDue, StatusScan,
      VerifyInit, InitSleep, InitWake, Reverify, Readback, HealSleep, HealWake
  <2>2. QED
    BY <2>1
<1>6. CASE BusDown \/ BusUp \/ BrownOut \/ UNCHANGED vars
  BY <1>6 DEF BusDown, BusUp, BrownOut, vars
<1>7. QED
  BY <1>1, <1>2, <1>3, <1>4, <1>5, <1>6 DEF Next, HandlerStep

(* A snapshot that misses an update is followed by another write, because *)
(* loop() clears the flag before it copies and the handler raises it after.*)
LEMMA SnapshotStep ==
  SnapshotInv /\ CopyInv /\ TypeOK /\ [Next]_vars => SnapshotInv'
<1> SUFFICES ASSUME SnapshotInv, CopyInv, TypeOK, [Next]_vars PROVE SnapshotInv'
  OBVIOUS
<1> USE ChannelsAssumption DEF SnapshotInv, CopyInv, DirtySoon, TypeOK, Channels
(* A handler that changes the last pose is on its way to raise the flag.   *)
<1>1. CASE SetServoPwms
  BY <1>1 DEF SetServoPwms
<1>2. CASE CopyChannel \/ RaiseDirty
  BY <1>2 DEF CopyChannel, RaiseDirty, loopVars, counts
<1>3. CASE OnServoDiag \/ ScanBegin \/ ScanProbe \/ ScanEnd
  BY <1>3 DEF OnServoDiag, ScanBegin, ScanProbe, ScanEnd, Scanning, handlerVars,
    loopVars, counts
<1>4. CASE ClearDirty
  BY <1>4 DEF ClearDirty
<1>5. CASE SnapChannel
  BY <1>5 DEF SnapChannel, handlerVars, counts
<1>6. CASE WriteChannel
  BY <1>6 DEF WriteChannel, handlerVars, counts
<1>7. CASE LoopStep /\ ~(ClearDirty \/ SnapChannel \/ WriteChannel)
  <2>1. lpc' \notin {"snap", "send"}
    BY <1>7 DEF LoopStep, GoTo, NothingToWrite, WriteDone, NoDiag, DiagStart,
      TestChannel, DiagSettling, DiagAbort, DiagReadback, DiagEnd, Imu,
      StatusNotDue, StatusScan, VerifyInit, InitSleep, InitWake, Reverify,
      Readback, HealSleep, HealWake
  <2>2. QED
    BY <2>1
<1>8. CASE BusDown \/ BusUp \/ BrownOut \/ UNCHANGED vars
  BY <1>8 DEF BusDown, BusUp, BrownOut, handlerVars, loopVars, counts, vars
<1>9. QED
  BY <1>1, <1>2, <1>3, <1>4, <1>5, <1>6, <1>7, <1>8 DEF Next, HandlerStep

(* Whatever an awake chip does not hold yet is still to be written.        *)
LEMMA ShownStep ==
  ShownInv /\ CopyInv /\ SnapshotInv /\ TypeOK /\ [Next]_vars => ShownInv'
<1> SUFFICES ASSUME ShownInv, CopyInv, SnapshotInv, TypeOK, [Next]_vars, ~raced'
             PROVE  ShownInv'
  BY DEF ShownInv
<1> USE ChannelsAssumption DEF ShownInv, DirtySoon, Shown, TypeOK
(* The handler.                                                            *)
<1>1. CASE SetServoPwms
  BY <1>1 DEF SetServoPwms
<1>2. CASE CopyChannel \/ RaiseDirty
  BY <1>2 DEF CopyChannel, RaiseDirty, loopVars, chipVars, counts, history
<1>3. CASE OnServoDiag \/ ScanBegin
  BY <1>3 DEF OnServoDiag, ScanBegin, handlerVars, loopVars, chipVars, history
<1>4. CASE ScanProbe
  BY <1>4 DEF ScanProbe
<1>5. CASE ScanEnd
  BY <1>5 DEF ScanEnd, Scanning, loopVars, chipVars, counts, history
(* The servo write.                                                        *)
<1>6. CASE ClearDirty \/ NothingToWrite
  BY <1>6 DEF ClearDirty, NothingToWrite, GoTo, handlerVars, chipVars, counts, history
<1>7. CASE SnapChannel
  BY <1>7 DEF SnapChannel, handlerVars, chipVars, counts, history, Channels
<1>8. CASE WriteChannel
  <2>1. /\ lpc = "send" /\ snapshot[lidx] \in Pose /\ WriteServo(snapshot[lidx])
        /\ UNCHANGED <<g_pwm_dirty, hpc, sent, snapshot, unflushed>>
    BY <1>8 DEF WriteChannel, handlerVars, counts, history, Pose
  <2>2. /\ ~raced /\ awake' = awake /\ chip' \in [Channels -> Pose]
        /\ bus /\ awake => chip' = [chip EXCEPT ![lidx] = snapshot[lidx]]
    BY <2>1, ServoWritten
  <2>3. \/ lidx < NumChannels /\ lidx' = lidx + 1 /\ lpc' = "send"
        \/ lidx = NumChannels /\ lidx' = lidx /\ lpc' = "written"
    BY <1>8 DEF WriteChannel, Channels
  <2>4. CASE ~bus
    BY <1>8, <2>3, <2>4 DEF WriteChannel, Answers
  <2>5. CASE ~awake \/ unflushed \/ DirtySoon
    BY <2>1, <2>2, <2>5
  <2>6. CASE ~writeOk
    BY <1>8, <2>3, <2>6 DEF WriteChannel
  <2>7. CASE bus /\ awake /\ ~unflushed /\ ~DirtySoon /\ writeOk
    <3>1. snapshot[lidx] = sent /\ \A c \in Channels : c < lidx => Shown(c)
      BY <2>1, <2>2, <2>7 DEF SnapshotInv
    <3>2. \A c \in Channels : c <= lidx => Shown(c)'
      BY <2>1, <2>2, <2>7, <3>1 DEF Channels
    <3>3. \A c \in Channels : (lpc' = "send" => c < lidx') => c <= lidx
      BY <2>3 DEF Channels
    <3>4. QED
      BY <3>2, <3>3
  <2>8. QED
    BY <2>4, <2>5, <2>6, <2>7
<1>9. CASE WriteDone
  BY <1>9 DEF WriteDone, GoTo, handlerVars, chipVars, counts, history
(* The diagnostic.                                                         *)
<1>10. CASE TestChannel
  <2>1. /\ lpc = "test" /\ lpc' \in {"test", "imu"} /\ WriteServo(TestPose)
        /\ UNCHANGED <<g_pwm_dirty, hpc, sent, unflushed>> /\ TestPose \in Pose
    BY <1>10 DEF TestChannel, handlerVars, counts, history, Pose
  <2>2. /\ ~raced /\ awake' = awake /\ chip' \in [Channels -> Pose]
        /\ chip' = chip \/ chip' = [chip EXCEPT ![lidx] = TestPose] \/ Scanning
        /\ bus /\ awake => chip' = [chip EXCEPT ![lidx] = TestPose]
    BY <2>1, ServoWritten
  <2>3. ~Scanning
    BY <2>1 DEF WriteServo, Races
  <2>4. (\A c \in Channels : Shown(c)) => \A c \in Channels : Shown(c)'
    BY <2>1, <2>2, <2>3
  <2>5. QED
    BY <2>1, <2>2, <2>4
<1>11. CASE NoDiag \/ DiagStart \/ DiagSettling \/ DiagAbort \/ DiagReadback
            \/ DiagEnd \/ Imu
  BY <1>11 DEF NoDiag, DiagStart, DiagSettling, DiagAbort, DiagReadback, DiagEnd,
    Imu, GoTo, handlerVars, chipVars, counts, history
(* The 1 Hz check: it wakes a chip only to check it, or raises the flag.   *)
<1>12. CASE StatusNotDue \/ StatusScan \/ VerifyInit \/ Readback
  <2>1. /\ UNCHANGED <<g_pwm_dirty, hpc, sent, chip, awake, raced, unflushed>>
        /\ lpc \notin {"snap", "send", "written", "reverify"}
        /\ lpc' \notin {"snap", "send", "written", "reverify"}
    BY <1>12 DEF StatusNotDue, StatusScan, VerifyInit, Readback, StatusUnchanged,
      GoTo, handlerVars, counts
  <2>2. QED
    BY <2>1
<1>13. CASE InitSleep
  <2>1. /\ WriteMode(FALSE) /\ lpc = "sleep" /\ lpc' \notin {"send", "written"}
        /\ UNCHANGED <<g_pwm_dirty, hpc, sent, chip, unflushed>>
    BY <1>13 DEF InitSleep, StatusUnchanged, GoTo, handlerVars, counts
  <2>2. ~raced /\ awake' \in {awake, FALSE}
    BY <2>1, ModeWritten
  <2>3. QED
    BY <2>1, <2>2
<1>14. CASE InitWake
  <2>1. /\ WriteMode(TRUE) /\ lpc = "wake"
        /\ UNCHANGED <<g_pwm_dirty, hpc, sent, chip, unflushed>>
    BY <1>14 DEF InitWake, StatusUnchanged, handlerVars, counts
  <2>2. ~raced /\ ~Scanning
    BY <2>1, ModeWritten
  <2>3. CASE bus
    BY <1>14, <2>2, <2>3 DEF InitWake, Answers, GoTo
  <2>4. CASE ~bus
    <3>1. awake' = awake /\ lpc' = "readback"
      BY <1>14, <2>4 DEF InitWake, WriteMode, Answers, GoTo
    <3>2. QED
      BY <2>1, <2>2, <3>1
  <2>5. QED
    BY <2>3, <2>4
<1>15. CASE Reverify
  <2>1. /\ UNCHANGED awake
        /\ g_pwm_dirty' \/ unflushed' \/ ~awake
    BY <1>15 DEF Reverify
  <2>2. QED
    BY <2>1
<1>16. CASE HealSleep
  <2>1. /\ WriteMode(FALSE) /\ lpc = "healSleep"
        /\ UNCHANGED <<hpc, sent, chip, unflushed>>
        /\ g_pwm_dirty' \/ (lpc' = "healWake" /\ g_pwm_dirty' = g_pwm_dirty)
    BY <1>16 DEF HealSleep, StatusUnchanged, GoTo, handlerVars, counts
  <2>2. ~raced /\ awake' \in {awake, FALSE}
    BY <2>1, ModeWritten
  <2>3. CASE g_pwm_dirty'
    BY <2>3
  <2>4. CASE lpc' = "healWake" /\ g_pwm_dirty' = g_pwm_dirty
    <3>1. CASE ~awake \/ unflushed \/ DirtySoon
      BY <2>1, <2>2, <2>4, <3>1
    <3>2. CASE \A c \in Channels : Shown(c)
      BY <2>1, <2>4, <3>2
    <3>3. QED
      BY <2>1, <2>2, <3>1, <3>2
  <2>5. QED
    BY <2>1, <2>3, <2>4
<1>17. CASE HealWake
  BY <1>17 DEF HealWake
(* The board.                                                              *)
<1>18. CASE BusDown \/ BusUp
  BY <1>18 DEF BusDown, BusUp, handlerVars, loopVars, chipVars, counts, history
<1>19. CASE BrownOut
  BY <1>19 DEF BrownOut
<1>20. CASE UNCHANGED vars
  BY <1>20 DEF vars
<1>21. QED
  BY <1>1, <1>2, <1>3, <1>4, <1>5, <1>6, <1>7, <1>8, <1>9, <1>10, <1>11, <1>12,
    <1>13, <1>14, <1>15, <1>16, <1>17, <1>18, <1>19, <1>20 DEF Next,
    HandlerStep, LoopStep

(* Undisturbed, the diagnostic's writes arrive and stay.                   *)
LEMMA TestStep == TestInv /\ TypeOK /\ [Next]_vars => TestInv'
<1> SUFFICES ASSUME TestInv, TypeOK, [Next]_vars, ~disturbed'
             PROVE  TestInv'
  BY DEF TestInv
<1> USE ChannelsAssumption DEF TestInv, TypeOK
<1>1. CASE ScanBegin \/ ClearDirty \/ BusDown \/ BrownOut
  BY <1>1 DEF ScanBegin, ClearDirty, BusDown, BrownOut
<1>2. CASE SetServoPwms \/ CopyChannel \/ RaiseDirty \/ OnServoDiag
  BY <1>2 DEF SetServoPwms, CopyChannel, RaiseDirty, OnServoDiag, Scanning,
    handlerVars, loopVars, diagVars, chipVars, history
<1>3. CASE ScanProbe \/ ScanEnd \/ BusUp
  BY <1>3 DEF ScanProbe, ScanEnd, BusUp, history
<1>4. CASE SnapChannel \/ WriteChannel \/ WriteDone
  BY <1>4 DEF SnapChannel, WriteChannel, WriteDone, history
<1>5. CASE DiagStart
  BY <1>5 DEF DiagStart, Scanning, handlerVars, diagVars, chipVars, Channels
<1>6. CASE TestChannel
  <2>1. /\ lpc = "test" /\ ~disturbed /\ WriteServo(TestPose) /\ TestPose \in Pose
        /\ UNCHANGED <<bus, hpc>>
    BY <1>6 DEF TestChannel, history, handlerVars, Pose
  <2>2. chip' = [chip EXCEPT ![lidx] = TestPose] /\ awake'
    BY <2>1, ServoWritten
  <2>3. \A c \in Channels : c <= lidx => chip'[c] = TestPose
    BY <2>1, <2>2 DEF Channels
  <2>4. \/ lidx' = lidx + 1 /\ lpc' = "test" /\ g_diag_phase' = g_diag_phase
        \/ lidx = NumChannels /\ lpc' = "imu"
    BY <1>6, <2>1 DEF TestChannel, Channels
  <2>5. CASE lidx' = lidx + 1 /\ lpc' = "test" /\ g_diag_phase' = g_diag_phase
    <3>1. \A c \in Channels : c < lidx' => chip'[c] = TestPose
      BY <2>3, <2>5 DEF Channels
    <3>2. g_diag_phase' = 1 => \A c \in Channels : chip'[c] = TestPose
      BY <2>1, <2>2, <2>5
    <3>3. QED
      BY <2>1, <2>2, <2>5, <3>1, <3>2 DEF Scanning
  <2>6. CASE lidx = NumChannels /\ lpc' = "imu"
    <3>1. \A c \in Channels : chip'[c] = TestPose
      BY <2>3, <2>6 DEF Channels
    <3>2. QED
      BY <2>1, <2>2, <2>6, <3>1 DEF Scanning
  <2>7. QED
    BY <2>4, <2>5, <2>6
<1>7. CASE NothingToWrite \/ NoDiag \/ DiagSettling \/ DiagAbort \/ DiagReadback
           \/ DiagEnd \/ Imu
  <2>1. /\ UNCHANGED <<bus, awake, hpc, chip, disturbed>> /\ lpc # "test"
        /\ lpc' \in {"diag", "imu", "diagEnd", "status"}
        /\ g_diag_phase' \in {0, g_diag_phase}
    BY <1>7 DEF NothingToWrite, NoDiag, DiagSettling, DiagAbort, DiagReadback,
      DiagEnd, Imu, GoTo, handlerVars, diagVars, chipVars, history
  <2>2. QED
    BY <2>1 DEF Scanning
<1>8. CASE StatusNotDue \/ StatusScan \/ VerifyInit \/ Readback
  <2>1. /\ UNCHANGED <<bus, awake, hpc, chip, disturbed, g_diag_phase>>
        /\ bus /\ awake /\ ~Scanning
    BY <1>8 DEF StatusNotDue, StatusScan, VerifyInit, Readback, StatusUnchanged,
      handlerVars, diagVars
  <2>2. CASE StatusNotDue \/ StatusScan
    BY <2>1, <2>2 DEF StatusNotDue, StatusScan, Answers, GoTo, Scanning
  <2>3. CASE VerifyInit
    <3>1. lpc' = "readback"
      BY <2>1, <2>3, ReadsCounted DEF VerifyInit, Verify, GoTo
    <3>2. QED
      BY <2>1, <3>1 DEF Scanning
  <2>4. CASE Readback
    <3>1. fails' = 0
      BY <2>1, <2>4, ReadsCounted DEF Readback
    <3>2. lpc' = "write"
      BY <2>4, <3>1, FailLimitAssumption DEF Readback, GoTo
    <3>3. QED
      BY <2>1, <3>2 DEF Scanning
  <2>5. QED
    BY <1>8, <2>2, <2>3, <2>4
<1>9. CASE InitSleep \/ InitWake \/ Reverify \/ HealSleep \/ HealWake
  BY <1>9 DEF InitSleep, InitWake, Reverify, HealSleep, HealWake, StatusUnchanged
<1>10. CASE UNCHANGED vars
  BY <1>10 DEF vars, Scanning
<1>11. QED
  BY <1>1, <1>2, <1>3, <1>4, <1>5, <1>6, <1>7, <1>8, <1>9, <1>10 DEF Next,
    HandlerStep, LoopStep

----------------------------------------------------------------------------
(* The theorems.                                                           *)

(* The initial state satisfies the inductive invariant.                    *)
LEMMA InitEstablishes == Init => IInv
<1> SUFFICES ASSUME Init PROVE IInv
  OBVIOUS
<1>1. TypeOK
  BY TypeInit
<1>2. CopyInv /\ SnapshotInv
  BY DEF Init, CopyInv, SnapshotInv, Off
<1>3. ShownInv /\ TestInv
  BY DEF Init, ShownInv, Shown, TestInv, Off
<1>4. QED
  BY <1>1, <1>2, <1>3 DEF IInv

(* The inductive invariant of the servo path: the handler's copy, the flag,*)
(* the snapshot and the registers of the chip agree at every interleaving  *)
(* of the threads, in a chip that may be asleep and loses what it is sent, *)
(* up to a servo write cut by an address scan.                             *)
THEOREM Inductive == Spec => []IInv
<1>1. IInv /\ [Next]_vars => IInv'
  BY TypeStep, CopyStep, SnapshotStep, ShownStep, TestStep DEF IInv
<1>2. QED
  BY InitEstablishes, <1>1, PTL DEF Spec

(* No update is lost and no torn pose stays in an awake chip at rest,      *)
(* whatever failed, slept or lost power, unless a servo write was raced by *)
(* an address scan or the check after a wake-up failed.                    *)
THEOREM NoLostUpdate == Spec => []SettledPoseShown
<1>1. IInv => SettledPoseShown
  BY DEF IInv, ShownInv, SettledPoseShown, Settled, DirtySoon, Shown
<1>2. QED
  BY Inductive, <1>1, PTL

(* A diagnostic that nothing else on the bus disturbs passes on every      *)
(* channel, however long it settles.                                       *)
THEOREM UndisturbedDiagnosticPasses == Spec => UndisturbedDiagPasses
<1>1. IInv /\ [Next]_vars => [DiagReadback /\ ~disturbed => report' = "pass"]_vars
  <2> SUFFICES ASSUME IInv, DiagReadback, ~disturbed PROVE report' = "pass"
    OBVIOUS
  <2>1. bus /\ ~Scanning /\ \A c \in Channels : chip[c] = TestPose
    BY DEF IInv, TestInv, DiagReadback
  <2>2. \A P \in Passed : P = Channels
    BY <2>1 DEF Passed
  <2>3. QED
    BY <2>2 DEF DiagReadback, Verdict
<1>2. QED
  BY Inductive, <1>1, PTL DEF Spec, UndisturbedDiagPasses

----------------------------------------------------------------------------
(* ServoDisplay is implemented.                                            *)

(* A pose travels from the handler's array over the private copy to the    *)
(* chip, and is overtaken by none: what is further on the way is never     *)
(* newer than what comes behind it.                                        *)
Ordered ==
  \A c \in Channels :
    chip[c] <= snapshot[c] /\ snapshot[c] <= g_pwm[c] /\ g_pwm[c] <= sent

(* The numbers these proofs are about.                                     *)
Numbers ==
  /\ sent \in Nat /\ TestPose = -1 /\ Off = 0 /\ Mixed = -2
  /\ Pose = {-2, -1} \cup Nat /\ Channels \subseteq Nat
  /\ chip \in [Channels -> Pose] /\ snapshot \in [Channels -> Nat]
  /\ g_pwm \in [Channels -> Nat] /\ lidx \in Channels

LEMMA NumbersTyped == TypeOK => Numbers
BY DEF TypeOK, Numbers, Pose, Off, TestPose, Mixed, Channels

(* What may happen to the poses on their way.                              *)
Upstream ==   \* on the host's side of the chip
  /\ UNCHANGED <<chip, Scanning>>
  /\ \/ sent' = sent + 1 /\ UNCHANGED <<g_pwm, snapshot>>
     \/ g_pwm' = [g_pwm EXCEPT ![hidx] = sent] /\ UNCHANGED <<sent, snapshot>>
     \/ snapshot' = [snapshot EXCEPT ![lidx] = g_pwm[lidx]] /\ UNCHANGED <<sent, g_pwm>>

InChip ==     \* in the registers
  /\ UNCHANGED <<sent, g_pwm, snapshot, Scanning>>
  /\ \/ chip' = [c \in Channels |-> Off]
     \/ \E p \in {snapshot[lidx], TestPose} : chip' = [chip EXCEPT ![lidx] = p]
     \/ /\ Scanning
        /\ \A c \in Channels :
             chip'[c] \in {chip[c], snapshot[c], TestPose, Mixed}

Elsewhere == UNCHANGED <<sent, g_pwm, snapshot, chip>>

(* Every step moves a pose in one of these ways, or none.                  *)
LEMMA Moves ==
  ASSUME TypeOK, [Next]_vars
  PROVE  Upstream \/ InChip \/ Elsewhere
<1> USE DEF GoTo, handlerVars, loopVars, chipVars, counts
<1>1. CASE SetServoPwms \/ CopyChannel \/ SnapChannel
  BY <1>1 DEF SetServoPwms, CopyChannel, SnapChannel, Upstream, Scanning
<1>2. CASE BrownOut
  BY <1>2 DEF BrownOut, InChip, Scanning
<1>3. CASE ScanProbe
  <2>1. \A c \in Channels : chip'[c] \in {chip[c], Mixed}
    BY <1>3, GarbledChannels DEF ScanProbe, TypeOK
  <2>2. QED
    BY <1>3, <2>1 DEF ScanProbe, InChip, Scanning
<1>4. CASE WriteChannel
  <2>1. snapshot[lidx] \in Pose /\ WriteServo(snapshot[lidx])
    BY <1>4 DEF WriteChannel, TypeOK, Pose
  <2>2. UNCHANGED <<sent, g_pwm, snapshot, Scanning>>
    BY <1>4 DEF WriteChannel, Scanning
  <2>3. \/ chip' = chip
        \/ chip' = [chip EXCEPT ![lidx] = snapshot[lidx]]
        \/ /\ Scanning
           /\ \A c \in Channels :
                chip'[c] \in {chip[c], snapshot[c], TestPose, Mixed}
    BY <2>1, ServoWritten
  <2>4. QED
    BY <2>2, <2>3 DEF InChip, Elsewhere
<1>5. CASE TestChannel
  <2>1. TestPose \in Pose /\ WriteServo(TestPose)
    BY <1>5 DEF TestChannel, Pose
  <2>2. UNCHANGED <<sent, g_pwm, snapshot, Scanning>>
    BY <1>5 DEF TestChannel, Scanning
  <2>3. \/ chip' = chip
        \/ chip' = [chip EXCEPT ![lidx] = TestPose]
        \/ /\ Scanning
           /\ \A c \in Channels :
                chip'[c] \in {chip[c], snapshot[c], TestPose, Mixed}
    BY <2>1, ServoWritten
  <2>4. QED
    BY <2>2, <2>3 DEF InChip, Elsewhere
<1>6. CASE OnServoDiag \/ ScanBegin \/ RaiseDirty \/ ScanEnd \/ BusDown \/ BusUp
           \/ UNCHANGED vars
  BY <1>6 DEF OnServoDiag, ScanBegin, RaiseDirty, ScanEnd, BusDown, BusUp, vars,
    Elsewhere
<1>7. CASE ClearDirty \/ NothingToWrite \/ WriteDone \/ NoDiag \/ DiagStart
           \/ DiagSettling \/ DiagAbort \/ DiagReadback \/ DiagEnd \/ Imu
  BY <1>7 DEF ClearDirty, NothingToWrite, WriteDone, NoDiag, DiagStart,
    DiagSettling, DiagAbort, DiagReadback, DiagEnd, Imu, Elsewhere
<1>8. CASE StatusNotDue \/ StatusScan \/ VerifyInit \/ InitSleep \/ InitWake
           \/ Reverify \/ Readback \/ HealSleep \/ HealWake
  BY <1>8 DEF StatusNotDue, StatusScan, VerifyInit, InitSleep, InitWake, Reverify,
    Readback, HealSleep, HealWake, StatusUnchanged, Elsewhere
<1>9. QED
  BY <1>1, <1>2, <1>3, <1>4, <1>5, <1>6, <1>7, <1>8 DEF Next, HandlerStep, LoopStep

(* No step lets a pose overtake another, and what a channel shows, or is to*)
(* show next, only gets newer.                                             *)
LEMMA OrderedStep ==
  ASSUME Numbers, Ordered, Numbers', Upstream \/ InChip \/ Elsewhere
  PROVE  Ordered' /\ \A c \in Channels : Newest(c)' >= Newest(c)
<1> USE DEF Numbers, Ordered, Newest
<1>1. CASE Upstream
  <2>1. CASE sent' = sent + 1 /\ UNCHANGED <<g_pwm, snapshot, chip>>
    BY <2>1
  <2>2. CASE g_pwm' = [g_pwm EXCEPT ![hidx] = sent] /\ UNCHANGED <<sent, snapshot, chip>>
    BY <2>2
  <2>3. CASE /\ snapshot' = [snapshot EXCEPT ![lidx] = g_pwm[lidx]]
             /\ UNCHANGED <<sent, g_pwm, chip>>
    <3>1. \A c \in Channels : snapshot'[c] = IF c = lidx THEN g_pwm[c] ELSE snapshot[c]
      BY <2>3
    <3>2. \A c \in Channels : snapshot[c] <= snapshot'[c] /\ snapshot'[c] <= g_pwm[c]
      BY <3>1
    <3>3. QED
      BY <2>3, <3>2
  <2>4. QED
    BY <1>1, <2>1, <2>2, <2>3 DEF Upstream
<1>2. CASE InChip
  <2>1. /\ UNCHANGED <<sent, g_pwm, snapshot>>
        /\ \A c \in Channels :
             chip'[c] \in {chip[c], snapshot[c], TestPose, Mixed, Off}
    BY <1>2 DEF InChip
  <2>2. QED
    BY <2>1
<1>3. CASE Elsewhere
  BY <1>3 DEF Elsewhere
<1>4. QED
  BY <1>1, <1>2, <1>3

(* It is a pose that was accepted.                                         *)
LEMMA NewestAccepted ==
  ASSUME Numbers, Ordered
  PROVE  \A c \in Channels : Newest(c) \in 0 .. sent
BY DEF Newest, Numbers, Ordered

(* Every step is one of ServoDisplay, or one it does not see.              *)
LEMMA DisplayStep ==
  ASSUME TypeOK, Numbers, Ordered, Numbers', Ordered', [Next]_vars
  PROVE  [Display!Next]_(Display!vars)
<1>0. Upstream \/ InChip \/ Elsewhere
  BY Moves
<1>1. \A c \in Channels : Newest(c)' \in 0 .. sent' /\ Newest(c)' >= Newest(c)
  <2>1. \A c \in Channels : Newest(c)' \in 0 .. sent'
    BY NewestAccepted DEF Newest, Numbers, Ordered
  <2>2. QED
    BY <1>0, <2>1, OrderedStep
<1>2. sent' = sent /\ Scanning' = Scanning => Display!PassOver
  <2>1. HAVE sent' = sent /\ Scanning' = Scanning
  <2>2. [c \in Channels |-> Newest(c)'] \in [Channels -> 0 .. sent]
    BY <1>1, <2>1
  <2>3. QED
    BY <1>1, <2>1, <2>2 DEF Display!PassOver
<1>3. CASE Upstream
  <2>1. CASE sent' = sent + 1 /\ UNCHANGED <<g_pwm, snapshot, chip, Scanning>>
    <3>1. [c \in Channels |-> Newest(c)'] = [c \in Channels |-> Newest(c)]
      BY <2>1 DEF Newest
    <3>2. QED
      BY <2>1, <3>1 DEF Display!Next, Display!Accept
  <2>2. CASE sent' = sent /\ chip' = chip /\ Scanning' = Scanning
    BY <1>2, <2>2 DEF Display!Next
  <2>3. QED
    BY <1>3, <2>1, <2>2 DEF Upstream
<1>4. CASE InChip
  <2>1. Display!PassOver
    BY <1>2, <1>4 DEF InChip
  <2>2. CASE chip' = [c \in Channels |-> Off]
    BY <2>1, <2>2 DEF Display!Next, Display!LosePower
  <2>3. CASE chip' = [chip EXCEPT ![lidx] = TestPose]
    BY <2>1, <2>3 DEF Display!Next, Display!Test, Numbers
  <2>4. CASE chip' = [chip EXCEPT ![lidx] = snapshot[lidx]]
    <3>1. PICK c \in Channels : c = lidx
      BY DEF Numbers
    <3>2. Newest(c)' = snapshot[c]
      BY <1>4, <2>4, <3>1 DEF InChip, Newest, Numbers
    <3>3. Display!Show(c)
      BY <2>1, <2>4, <3>1, <3>2 DEF Display!Show, Numbers
    <3>4. QED
      BY <3>3 DEF Display!Next
  <2>5. CASE /\ Scanning
             /\ \A c \in Channels :
                  chip'[c] \in {chip[c], snapshot[c], TestPose, Mixed}
    <3>1. snapshot' = snapshot /\ sent' = sent
      BY <1>4 DEF InChip
    <3>2. \A c \in Channels :
            chip'[c] \in {chip[c], Newest(c)', TestPose, Mixed}
      BY <2>5, <3>1 DEF Newest, Numbers
    <3>3. \A c \in Channels : chip'[c] \in {Off, TestPose, Mixed} \cup 0 .. sent
      BY <3>1 DEF Numbers, Ordered
    <3>4. chip' \in [Channels -> {Off, TestPose, Mixed} \cup 0 .. sent]
      BY <3>3 DEF Numbers
    <3>5. Display!Garble
      BY <2>1, <2>5, <3>2, <3>4 DEF Display!Garble
    <3>6. QED
      BY <3>5 DEF Display!Next
  <2>6. QED
    BY <1>4, <2>2, <2>3, <2>4, <2>5 DEF InChip
<1>5. CASE Elsewhere
  <2>1. [c \in Channels |-> Newest(c)'] = [c \in Channels |-> Newest(c)]
    BY <1>5 DEF Elsewhere, Newest
  <2>2. CASE Scanning' = Scanning
    BY <1>5, <2>1, <2>2 DEF Elsewhere, Display!vars
  <2>3. CASE Scanning' # Scanning
    BY <1>5, <2>1, <2>3 DEF Elsewhere, Display!Next, Display!Scan, Scanning
  <2>4. QED
    BY <2>2, <2>3
<1>6. QED
  BY <1>0, <1>3, <1>4, <1>5

(* No servo ever goes back to an older pose: the threads, the failing      *)
(* writes, the diagnostic and the power losses implement ServoDisplay, in  *)
(* which counts that are nobody's appear during an address scan only.      *)
THEOREM PosesKeepTheirOrder == Spec => NeverBack
<1>1. Init => Display!Init /\ Ordered
  <2> SUFFICES ASSUME Init PROVE Display!Init /\ Ordered
    OBVIOUS
  <2>1. [c \in Channels |-> Newest(c)] = [c \in Channels |-> 0]
    BY DEF Init, Newest, Off, Channels
  <2>2. QED
    BY <2>1 DEF Init, Display!Init, Ordered, Off, Channels, Scanning
<1>2. TypeOK => Numbers
  BY NumbersTyped
<1>3. TypeOK /\ Numbers /\ Numbers' /\ Ordered /\ [Next]_vars
        => Ordered' /\ [Display!Next]_(Display!vars)
  BY Moves, OrderedStep, DisplayStep
<1>4. QED
  BY <1>1, <1>2, <1>3, TypeCorrect, PTL DEF Spec, NeverBack, Display!Spec
=============================================================================
