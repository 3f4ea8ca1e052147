------------------------ MODULE ServoWatchdogProofs ------------------------
(***************************************************************************)
(* Proofs about ServoWatchdog, for every period of the clock, time-out and *)
(* length of a pass: what the unsigned difference of two stamps says about *)
(* the time between them, from it what a report tells, and that no stall   *)
(* goes unreported.                                                        *)
(***************************************************************************)
EXTENDS ServoWatchdog, TLAPS

(* ---- the clock ---- *)
LEMMA Division ==
  ASSUME NEW n \in Int
  PROVE  n % Wrap \in 0 .. Wrap - 1 /\ \E k \in Int : n % Wrap = n - Wrap * k
<1>1. Wrap \in Nat /\ Wrap > 0
  BY TimeAssumption
<1>2. n % Wrap \in 0 .. Wrap - 1 /\ n \div Wrap \in Int
      /\ n = Wrap * (n \div Wrap) + (n % Wrap)
  BY <1>1
<1>3. n % Wrap = n - Wrap * (n \div Wrap)
  BY <1>1, <1>2
<1> QED BY <1>2, <1>3

(* The difference of two stamps is that of the times, but for whole wraps. *)
LEMMA ElapsedIsDifference ==
  ASSUME NEW a \in Nat, NEW b \in Nat
  PROVE  /\ Elapsed(a % Wrap, b % Wrap) \in 0 .. Wrap - 1
         /\ \E t \in Int : Elapsed(a % Wrap, b % Wrap) = a - b + Wrap * t
<1>1. PICK p \in Int : a % Wrap = a - Wrap * p
  BY Division
<1>2. PICK q \in Int : b % Wrap = b - Wrap * q
  BY Division
<1> DEFINE d == (a % Wrap) - (b % Wrap)
<1>3. d \in Int
  BY Division
<1> HIDE DEF d
<1>4. PICK m \in Int : d % Wrap = d - Wrap * m
  BY <1>3, Division
<1>5. Wrap \in Nat
  BY TimeAssumption
<1>6. d % Wrap = a - b + Wrap * (q - p - m)
  <2>1. d % Wrap = (a - Wrap * p) - (b - Wrap * q) - Wrap * m
    BY <1>1, <1>2, <1>4 DEF d
  <2>2. \A w, x, y, z \in Int : w * (x - y - z) = w * x - w * y - w * z
    OBVIOUS
  <2>3. Wrap * (q - p - m) = Wrap * q - Wrap * p - Wrap * m
    BY <1>5, <2>2
  <2>4. Wrap * q \in Int /\ Wrap * p \in Int /\ Wrap * m \in Int
    BY <1>5
  <2> QED BY <2>1, <2>3, <2>4
<1>7. d % Wrap \in 0 .. Wrap - 1
  BY <1>3, Division
<1> QED BY <1>6, <1>7 DEF d, Elapsed

LEMMA WholeWraps ==
  ASSUME NEW t \in Int
  PROVE  (t >= 1 => Wrap * t >= Wrap) /\ (t <= -1 => Wrap * t <= -Wrap)
         /\ (t = 0 => Wrap * t = 0) /\ Wrap * t \in Int
BY TimeAssumption

(* A stamp not later than the reading: never more than the time between,   *)
(* and exactly that within one wrap.                                       *)
LEMMA SinceEarlier ==
  ASSUME NEW a \in Nat, NEW b \in Nat, b <= a
  PROVE  /\ Elapsed(a % Wrap, b % Wrap) <= a - b
         /\ a - b < Wrap => Elapsed(a % Wrap, b % Wrap) = a - b
<1>1. PICK t \in Int : Elapsed(a % Wrap, b % Wrap) = a - b + Wrap * t
  BY ElapsedIsDifference
<1>2. a - b + Wrap * t \in 0 .. Wrap - 1
  BY <1>1, ElapsedIsDifference
<1>3. Wrap \in Nat
  BY TimeAssumption
<1>4. t <= 0
  BY <1>2, <1>3, WholeWraps
<1>5. t = 0 \/ t <= -1
  BY <1>4
<1>6. Wrap * t <= 0
  BY <1>3, <1>5, WholeWraps
<1>7. a - b < Wrap => Wrap * t = 0
  BY <1>2, <1>3, <1>5, WholeWraps
<1> QED BY <1>1, <1>2, <1>3, <1>6, <1>7, WholeWraps

(* A stamp later than the reading, by less than a wrap: almost a whole one.*)
LEMMA SinceLater ==
  ASSUME NEW a \in Nat, NEW b \in Nat, a < b, b - a < Wrap
  PROVE  Elapsed(a % Wrap, b % Wrap) = Wrap - (b - a)
<1>1. PICK t \in Int : Elapsed(a % Wrap, b % Wrap) = a - b + Wrap * t
  BY ElapsedIsDifference
<1>2. a - b + Wrap * t \in 0 .. Wrap - 1
  BY <1>1, ElapsedIsDifference
<1>3. Wrap \in Nat
  BY TimeAssumption
<1>4. t >= 1
  BY <1>2, <1>3, WholeWraps
<1>5. t = 1 \/ t >= 2
  BY <1>4
<1>6. t >= 2 => Wrap * t >= 2 * Wrap
  BY <1>3
<1>7. t = 1
  BY <1>2, <1>3, <1>5, <1>6, WholeWraps
<1> QED BY <1>1, <1>3, <1>7

-----------------------------------------------------------------------------
(* ---- the invariant ---- *)
(* The stamps are of the true times.                                       *)
Stamps ==
  /\ g_last_servo_cmd = lastCmd % Wrap
  /\ lpc # "update" => now = readAt % Wrap

(* The clock, the last reading of it and the last command.  loop() passes  *)
(* once per MaxPass; without the background thread a command never comes   *)
(* between the reading and the comparison.                                 *)
Times ==
  /\ lastCmd <= uptime /\ readAt <= uptime /\ uptime - readAt <= MaxPass
  /\ lpc # "update" /\ ~bgThread => lastCmd <= readAt

(* What the earlier reads of the stamp found still holds of it, unless a   *)
(* command came since: only the background thread can bring one, and it is *)
(* then no earlier than the reading of the clock.                          *)
Found ==
  /\ lpc \in {"compare", "report"} /\ ~bgThread => g_last_servo_cmd # 0
  /\ lpc = "report" /\ (~bgThread \/ lastCmd < readAt) => Stalled
  /\ lpc = "report" => g_servo_timed_out = TRUE

(* What a report says of the silence it is about.                          *)
Told ==
  reports > 0 =>
    /\ ~bgThread => lastCmd > 0 /\ Timeout < value /\ value <= silence
    /\ 0 < value /\ value < Wrap - MaxPass => Timeout < silence /\ Timeout < value

(* Within one wrap of the last command a report has set the latch, and     *)
(* every later comparison of the stall finds it stalled.                   *)
Latched ==
  ~bgThread /\ uptime - lastCmd < Wrap /\ reports >= 1 =>
    /\ reports = 1 /\ g_servo_timed_out = TRUE /\ g_last_servo_cmd # 0
    /\ Timeout < uptime - lastCmd
    /\ lpc # "report"
    /\ lpc # "update" => Timeout < readAt - lastCmd

IInv == TypeOK /\ Stamps /\ Times /\ Found /\ Told /\ Latched

LEMMA Constants ==
  /\ Wrap \in Nat /\ Timeout \in Nat /\ MaxUptime \in Nat /\ MaxPass \in Nat
  /\ 0 < MaxUptime /\ 0 < MaxPass /\ 0 < Timeout /\ Timeout + MaxPass < Wrap
BY TimeAssumption

(* What a read of the stamp within a pass finds.                           *)
LEMMA Comparison ==
  ASSUME TypeOK, Stamps, Times, lpc # "update"
  PROVE  /\ Elapsed(now, g_last_servo_cmd) \in 0 .. Wrap - 1
         /\ g_last_servo_cmd # 0 => lastCmd > 0
         /\ lastCmd <= readAt =>
              /\ Elapsed(now, g_last_servo_cmd) <= readAt - lastCmd
              /\ uptime - lastCmd < Wrap =>
                   Elapsed(now, g_last_servo_cmd) = readAt - lastCmd
         /\ lastCmd > readAt => Elapsed(now, g_last_servo_cmd) >= Wrap - MaxPass
<1>1. readAt \in Nat /\ lastCmd \in Nat /\ uptime \in Nat
      /\ readAt <= uptime /\ lastCmd <= uptime /\ uptime - readAt <= MaxPass
  BY DEF TypeOK, Times
<1>2. now = readAt % Wrap /\ g_last_servo_cmd = lastCmd % Wrap
  BY DEF Stamps
<1>3. Elapsed(now, g_last_servo_cmd) \in 0 .. Wrap - 1
  BY <1>1, <1>2, ElapsedIsDifference
<1>4. 0 % Wrap = 0
  BY Constants
<1>5. g_last_servo_cmd # 0 => lastCmd > 0
  BY <1>1, <1>2, <1>4
<1>6. ASSUME lastCmd <= readAt
      PROVE  /\ Elapsed(now, g_last_servo_cmd) <= readAt - lastCmd
             /\ uptime - lastCmd < Wrap =>
                  Elapsed(now, g_last_servo_cmd) = readAt - lastCmd
  <2>1. Elapsed(now, g_last_servo_cmd) <= readAt - lastCmd
        /\ (readAt - lastCmd < Wrap => Elapsed(now, g_last_servo_cmd) = readAt - lastCmd)
    BY <1>1, <1>2, <1>6, SinceEarlier
  <2>2. uptime - lastCmd < Wrap => readAt - lastCmd < Wrap
    BY <1>1, Constants
  <2> QED BY <2>1, <2>2
<1>7. ASSUME lastCmd > readAt
      PROVE  Elapsed(now, g_last_servo_cmd) >= Wrap - MaxPass
  <2>1. readAt < lastCmd /\ lastCmd - readAt < Wrap /\ lastCmd - readAt <= MaxPass
    BY <1>1, <1>7, Constants
  <2>2. Elapsed(now, g_last_servo_cmd) = Wrap - (lastCmd - readAt)
    BY <1>1, <1>2, <2>1, SinceLater
  <2> QED BY <1>1, <2>1, <2>2, Constants
<1> QED BY <1>3, <1>5, <1>6, <1>7

LEMMA TickStep ==
  ASSUME IInv, Tick PROVE IInv'
<1> USE DEF Tick, said
<1>1. TypeOK'
  BY Constants DEF IInv, TypeOK
<1>2. Stamps' /\ Times'
  BY Constants DEF IInv, TypeOK, Stamps, Times
<1>3. Found' /\ Told'
  BY DEF IInv, Found, Stalled, Told
<1>4. Latched'
  BY Constants DEF IInv, TypeOK, Latched
<1> QED BY <1>1, <1>2, <1>3, <1>4 DEF IInv

LEMMA CommandStep ==
  ASSUME IInv, Command PROVE IInv'
<1> USE DEF Command, millis
<1>1. uptime % Wrap \in 0 .. Wrap - 1
  BY Division DEF IInv, TypeOK
<1>2. TypeOK'
  BY <1>1, Constants DEF IInv, TypeOK
<1>3. Stamps' /\ Times'
  BY Constants DEF IInv, TypeOK, Stamps, Times
<1>4. Told' /\ Latched'
  BY DEF Told, Latched
<1>5. Found'
  <2>1. ~(lastCmd' < readAt') /\ (lpc' # "update" => bgThread')
    BY DEF IInv, TypeOK, Times
  <2> QED BY <2>1 DEF IInv, Found
<1> QED BY <1>2, <1>3, <1>4, <1>5 DEF IInv

LEMMA ReadStep ==
  ASSUME IInv, ReadMillis PROVE IInv'
<1> USE DEF ReadMillis, millis, said
<1>1. uptime % Wrap \in 0 .. Wrap - 1
  BY Division DEF IInv, TypeOK
<1>2. TypeOK'
  BY <1>1, Constants DEF IInv, TypeOK
<1>3. Stamps' /\ Times'
  BY Constants DEF IInv, TypeOK, Stamps, Times
<1>4. Found' /\ Told'
  BY DEF IInv, Found, Told
<1>5. Latched'
  BY Constants DEF IInv, TypeOK, Latched
<1> QED BY <1>2, <1>3, <1>4, <1>5 DEF IInv

LEMMA SeesCommandStep ==
  ASSUME IInv, SeesCommand PROVE IInv'
<1>1. /\ lpc = "watchdog"
      /\ \/ lpc' = "update" /\ g_servo_timed_out' = FALSE /\ g_last_servo_cmd = 0
         \/ lpc' = "compare" /\ g_servo_timed_out' = g_servo_timed_out
              /\ g_last_servo_cmd # 0
      /\ UNCHANGED <<bgThread, uptime, g_last_servo_cmd, now, readAt, lastCmd,
                     reports, value, silence>>
  BY DEF SeesCommand, said
<1>2. TypeOK'
  <2>1. g_servo_timed_out' \in BOOLEAN
    BY <1>1 DEF IInv, TypeOK
  <2> QED BY <1>1, <2>1 DEF IInv, TypeOK
<1>3. Stamps' /\ Times' /\ Found' /\ Told'
  BY <1>1 DEF IInv, Stamps, Times, Found, Told
<1>4. Latched'
  BY <1>1 DEF IInv, Latched
<1> QED BY <1>2, <1>3, <1>4 DEF IInv

LEMMA CompareStep ==
  ASSUME IInv, Compare PROVE IInv'
<1> DEFINE e == Elapsed(now, g_last_servo_cmd)
<1>1. /\ lpc = "compare" /\ e \in 0 .. Wrap - 1
      /\ lastCmd <= readAt =>
           e <= readAt - lastCmd /\ (uptime - lastCmd < Wrap => e = readAt - lastCmd)
  BY Comparison DEF IInv, Compare
<1>2. Stalled <=> e > Timeout
  BY DEF Stalled
<1>3. /\ g_servo_timed_out' = Stalled
      /\ \/ lpc' = "report" /\ Stalled /\ ~g_servo_timed_out
         \/ lpc' = "update" /\ (~Stalled \/ g_servo_timed_out)
      /\ UNCHANGED <<bgThread, uptime, g_last_servo_cmd, now, readAt, lastCmd,
                     reports, value, silence>>
  BY DEF Compare, said
<1>4. TypeOK'
  <2>1. g_servo_timed_out' \in BOOLEAN
    BY <1>3 DEF Stalled
  <2> QED BY <1>3, <2>1 DEF IInv, TypeOK
<1>5. Stamps' /\ Times' /\ Told'
  BY <1>1, <1>3 DEF IInv, Stamps, Times, Told
<1>6. Found'
  <2>1. Stalled' = Stalled
    BY <1>3 DEF Stalled
  <2>2. lpc' = "report" => Stalled /\ g_servo_timed_out' = TRUE
    BY <1>3
  <2>3. ~bgThread => g_last_servo_cmd # 0
    BY <1>1 DEF IInv, Found
  <2> QED BY <1>3, <2>1, <2>2, <2>3 DEF Found
<1> HIDE DEF e
<1>7. Latched'
  <2> SUFFICES ASSUME ~bgThread, uptime - lastCmd < Wrap, reports >= 1
               PROVE  /\ reports = 1 /\ g_servo_timed_out' = TRUE
                      /\ g_last_servo_cmd # 0 /\ Timeout < uptime - lastCmd
                      /\ lpc' = "update"
    BY <1>3 DEF Latched
  <2>1. /\ reports = 1 /\ g_last_servo_cmd # 0 /\ Timeout < uptime - lastCmd
        /\ g_servo_timed_out = TRUE /\ Timeout < readAt - lastCmd
    BY <1>1 DEF IInv, Latched
  <2>2. lastCmd <= readAt
    BY <1>1 DEF IInv, Times
  <2>3. Stalled
    BY <1>1, <1>2, <2>1, <2>2
  <2> QED BY <1>3, <2>1, <2>3
<1> QED BY <1>4, <1>5, <1>6, <1>7 DEF IInv

LEMMA ReportStep ==
  ASSUME IInv, Report PROVE IInv'
<1> DEFINE e == Elapsed(now, g_last_servo_cmd)
<1>1. /\ lpc = "report" /\ e \in 0 .. Wrap - 1 /\ (g_last_servo_cmd # 0 => lastCmd > 0)
      /\ lastCmd <= readAt => e <= readAt - lastCmd
      /\ lastCmd > readAt => e >= Wrap - MaxPass
  BY Comparison DEF IInv, Report
<1>2. Stalled <=> e > Timeout
  BY DEF Stalled
<1>3. /\ uptime \in 1 .. MaxUptime /\ lastCmd \in 0 .. MaxUptime /\ readAt \in 1 .. MaxUptime
      /\ reports \in 0 .. 2 /\ lastCmd <= uptime /\ readAt <= uptime
      /\ (~bgThread => lastCmd <= readAt)
  BY <1>1 DEF IInv, TypeOK, Times
<1>4. /\ lpc' = "update" /\ value' = e /\ silence' = uptime - lastCmd
      /\ reports' \in {1, 2} /\ (reports = 0 => reports' = 1)
      /\ UNCHANGED <<bgThread, uptime, g_last_servo_cmd, now, readAt, lastCmd,
                     g_servo_timed_out>>
  BY <1>3 DEF Report
<1>5. /\ ~bgThread => g_last_servo_cmd # 0
      /\ ~bgThread \/ lastCmd < readAt => e > Timeout
      /\ g_servo_timed_out = TRUE
  BY <1>1, <1>2 DEF IInv, Found
<1> HIDE DEF e
<1>6. TypeOK'
  <2>1. value' \in 0 .. Wrap - 1 /\ reports' \in 0 .. 2
    BY <1>1, <1>4
  <2>2. uptime - lastCmd \in 0 .. MaxUptime
    BY <1>3, Constants
  <2>3. silence' \in 0 .. MaxUptime
    BY <1>4, <2>2
  <2> QED BY <1>4, <2>1, <2>3 DEF IInv, TypeOK
<1>7. Stamps' /\ Times' /\ Found'
  BY <1>1, <1>4 DEF IInv, Stamps, Times, Found
<1>8. Told'
  <2>1. ~bgThread => lastCmd > 0 /\ Timeout < e /\ e <= uptime - lastCmd
    BY <1>1, <1>3, <1>5
  <2>2. ASSUME 0 < e, e < Wrap - MaxPass
        PROVE  Timeout < uptime - lastCmd /\ Timeout < e
    <3>1. lastCmd <= readAt
      BY <1>1, <1>3, <2>2, Constants
    <3>2. lastCmd < readAt
      BY <1>1, <1>3, <2>2, <3>1
    <3> QED BY <1>1, <1>3, <1>5, <3>1, <3>2, Constants
  <2> QED BY <1>4, <2>1, <2>2 DEF Told
<1>9. Latched'
  <2> SUFFICES ASSUME ~bgThread, uptime - lastCmd < Wrap
               PROVE  reports = 0 /\ g_last_servo_cmd # 0 /\ Timeout < uptime - lastCmd
    BY <1>4, <1>5 DEF Latched
  <2>1. ~(reports >= 1)
    BY <1>1 DEF IInv, Latched
  <2> QED BY <1>1, <1>3, <1>5, <2>1, Constants
<1> QED BY <1>6, <1>7, <1>8, <1>9 DEF IInv

-----------------------------------------------------------------------------
(* The stamps, the latch and what was said agree with the true times at    *)
(* every interleaving of handlers, of the separate reads of the stamp in   *)
(* loop() and of the clock.                                                *)
THEOREM Inductive == Spec => []IInv
<1>1. Init => IInv
  <2> SUFFICES ASSUME Init PROVE IInv
    OBVIOUS
  <2>1. 0 % Wrap = 0
    BY Constants
  <2>2. TypeOK
    <3>1. bgThread \in BOOLEAN /\ g_servo_timed_out = FALSE
      BY DEF Init
    <3>2. /\ uptime = 1 /\ lastCmd = 0 /\ readAt = 1 /\ g_last_servo_cmd = 0
          /\ now = 0 /\ lpc = "update" /\ reports = 0 /\ value = 0 /\ silence = 0
      BY DEF Init
    <3>3. 0 \in 0 .. Wrap - 1 /\ 1 \in 1 .. MaxUptime /\ 0 \in 0 .. MaxUptime
      BY Constants
    <3>4. g_servo_timed_out \in BOOLEAN
      BY <3>1
    <3>5. /\ uptime \in 1 .. MaxUptime /\ lastCmd \in 0 .. MaxUptime
          /\ g_last_servo_cmd \in 0 .. Wrap - 1 /\ now \in 0 .. Wrap - 1
          /\ readAt \in 1 .. MaxUptime /\ lpc \in {"update", "watchdog", "compare", "report"}
          /\ reports \in 0 .. 2 /\ value \in 0 .. Wrap - 1
          /\ silence \in 0 .. MaxUptime
      BY <3>2, <3>3
    <3> QED BY <3>1, <3>4, <3>5 DEF TypeOK
  <2>3. Stamps /\ Times
    BY <2>1, Constants DEF Init, Stamps, Times
  <2>4. Found /\ Told /\ Latched
    BY DEF Init, Found, Told, Latched
  <2> QED BY <2>2, <2>3, <2>4 DEF IInv
<1>2. IInv /\ [Next]_vars => IInv'
  <2> SUFFICES ASSUME IInv, [Next]_vars PROVE IInv'
    OBVIOUS
  <2>1. CASE UNCHANGED vars
    BY <2>1 DEF vars, said, IInv, TypeOK, Stamps, Times, Found, Stalled,
                 Told, Latched
  <2> QED BY <2>1, TickStep, CommandStep, ReadStep, SeesCommandStep, CompareStep,
             ReportStep DEF Next, LoopStep
<1> QED BY <1>1, <1>2, PTL DEF Spec

(* With handlers run by loop() a report tells the truth (sketch.ino:650).  *)
THEOREM ReportsTellTheTruth == Spec => []ReportTellsSilence
<1>1. IInv => ReportTellsSilence
  BY DEF IInv, Told, ReportTellsSilence
<1> QED BY <1>1, Inductive, PTL

(* One stall reports once (sketch.ino:89).                                 *)
THEOREM StallsReportOnce == Spec => []ReportOncePerStall
<1>1. IInv => ReportOncePerStall
  BY DEF IInv, TypeOK, Latched, ReportOncePerStall
<1> QED BY <1>1, Inductive, PTL

(* The background thread, which may stamp a command between any two of the *)
(* three reads of sketch.ino:650-653, can spoil no report but one of 0 ms  *)
(* or of a time within a pass of a whole wrap.                             *)
THEOREM PlausibleReportsAreGenuine == Spec => []PlausibleReportIsGenuine
<1>1. IInv => PlausibleReportIsGenuine
  BY DEF IInv, Told, PlausibleReportIsGenuine
<1> QED BY <1>1, Inductive, PTL

-----------------------------------------------------------------------------
(***************************************************************************)
(* No stall is missed: the safety part of StallReported, where loop()      *)
(* passes at least once per timeout.                                       *)
(***************************************************************************)
(* A report was of the stall there is.                                     *)
Caught == reports > 0 /\ silence > Timeout

(* A pass that has read the clock more than the timeout after the last     *)
(* command does not end without the stall having been reported.            *)
NoStallMissed ==
  lpc = "update" /\ g_last_servo_cmd # 0 /\ readAt - lastCmd > Timeout => Caught

(* The first reading that is late enough is late by less than a wrap, and  *)
(* finds the latch clear: some pass since the command has found no stall.  *)
Watchful ==
  /\ lpc \in {"watchdog", "compare"} /\ g_last_servo_cmd # 0
       /\ readAt - lastCmd > Timeout =>
       Caught \/ (~g_servo_timed_out /\ readAt - lastCmd <= Timeout + MaxPass)
  /\ lpc = "update" /\ g_last_servo_cmd # 0 /\ lastCmd < readAt
       /\ readAt - lastCmd <= Timeout => ~g_servo_timed_out

(* What the comparison does to the latch, and when it leads to a report.   *)
LEMMA Verdict ==
  ASSUME IInv, Compare, lastCmd <= readAt
  PROVE  /\ readAt - lastCmd <= Timeout => ~g_servo_timed_out'
         /\ Timeout < readAt - lastCmd /\ readAt - lastCmd < Wrap /\ ~g_servo_timed_out
              => lpc' = "report"
<1> DEFINE e == Elapsed(now, g_last_servo_cmd)
<1>1. /\ now = readAt % Wrap /\ g_last_servo_cmd = lastCmd % Wrap
      /\ readAt \in Nat /\ lastCmd \in Nat
  BY DEF IInv, TypeOK, Stamps, Compare
<1>2. e \in Int /\ e <= readAt - lastCmd
      /\ (readAt - lastCmd < Wrap => e = readAt - lastCmd)
  BY <1>1, SinceEarlier, ElapsedIsDifference
<1>3. /\ g_servo_timed_out' = (e > Timeout)
      /\ e > Timeout /\ ~g_servo_timed_out => lpc' = "report"
  BY DEF Compare, Stalled
<1> HIDE DEF e
<1>4. readAt - lastCmd <= Timeout => ~(e > Timeout)
  BY <1>1, <1>2, Constants
<1>5. Timeout < readAt - lastCmd /\ readAt - lastCmd < Wrap => e > Timeout
  BY <1>1, <1>2, Constants
<1> QED
  BY <1>3, <1>4, <1>5

(* Every step of loop(), of a handler and of the clock stays watchful.     *)
LEMMA WatchfulStep ==
  ASSUME MaxPass <= Timeout, IInv, NoStallMissed, Watchful, [Next]_vars
  PROVE  NoStallMissed' /\ Watchful'
<1>t. /\ uptime \in Nat /\ lastCmd \in Nat /\ readAt \in Nat
      /\ lastCmd <= uptime /\ readAt <= uptime /\ uptime - readAt <= MaxPass
  BY DEF IInv, TypeOK, Times
<1>1. CASE Tick \/ UNCHANGED vars
  BY <1>1 DEF Tick, vars, said, NoStallMissed, Watchful, Caught
<1>2. CASE Command
  <2>1. readAt' - lastCmd' <= 0 /\ ~(lastCmd' < readAt')
    BY <1>t, <1>2 DEF Command
  <2>2. ~(readAt' - lastCmd' > Timeout)
    BY <1>t, <1>2, <2>1, Constants DEF Command
  <2> QED
    BY <2>1, <2>2 DEF NoStallMissed, Watchful
<1>3. CASE ReadMillis
  <2>1. /\ lpc = "update" /\ lpc' = "watchdog" /\ readAt' = uptime
        /\ UNCHANGED <<g_last_servo_cmd, lastCmd, g_servo_timed_out>>
        /\ Caught' = Caught
    BY <1>3 DEF ReadMillis, said, Caught
  <2>2. ASSUME g_last_servo_cmd # 0, uptime - lastCmd > Timeout, ~Caught
        PROVE  ~g_servo_timed_out /\ uptime - lastCmd <= Timeout + MaxPass
    <3>1. readAt - lastCmd <= Timeout
      BY <1>t, <2>1, <2>2, Constants DEF NoStallMissed
    <3>2. lastCmd < readAt /\ uptime - lastCmd <= Timeout + MaxPass
      BY <1>t, <2>2, <3>1, Constants
    <3> QED
      BY <2>1, <2>2, <3>1, <3>2 DEF Watchful
  <2> QED
    BY <2>1, <2>2 DEF NoStallMissed, Watchful
<1>4. CASE SeesCommand
  BY <1>4 DEF SeesCommand, said, NoStallMissed, Watchful, Caught
<1>5. CASE Compare
  <2>1. /\ lpc = "compare" /\ lpc' \in {"update", "report"}
        /\ UNCHANGED <<g_last_servo_cmd, lastCmd, readAt>> /\ Caught' = Caught
    BY <1>5 DEF Compare, said, Caught
  <2>2. ASSUME g_last_servo_cmd # 0, readAt - lastCmd > Timeout
        PROVE  lpc' = "report" \/ Caught'
    <3>1. lastCmd <= readAt
      BY <1>t, <2>2, Constants
    <3>2. Caught \/ (~g_servo_timed_out /\ readAt - lastCmd < Wrap)
      BY <1>t, <2>1, <2>2, Constants DEF Watchful
    <3> QED
      BY <1>5, <2>1, <2>2, <3>1, <3>2, Verdict
  <2>3. ASSUME lastCmd < readAt, readAt - lastCmd <= Timeout
        PROVE  ~g_servo_timed_out'
    BY <1>t, <1>5, <2>3, Verdict
  <2> QED
    BY <2>1, <2>2, <2>3 DEF NoStallMissed, Watchful
<1>6. CASE Report
  <2>1. /\ lpc = "report" /\ lpc' = "update"
        /\ reports' > 0 /\ silence' = uptime - lastCmd
        /\ UNCHANGED <<g_last_servo_cmd, lastCmd, readAt>>
    BY <1>6 DEF Report, IInv, TypeOK
  <2>2. readAt - lastCmd > Timeout => Caught'
    BY <1>t, <2>1, Constants DEF Caught
  <2>3. lastCmd < readAt => readAt - lastCmd > Timeout
    <3>1. lastCmd < readAt => Elapsed(now, g_last_servo_cmd) > Timeout
      BY <2>1 DEF IInv, Found, Stalled
    <3>2. /\ Elapsed(now, g_last_servo_cmd) \in 0 .. Wrap - 1
          /\ lastCmd <= readAt => Elapsed(now, g_last_servo_cmd) <= readAt - lastCmd
      BY <2>1, Comparison DEF IInv
    <3> QED
      BY <1>t, <3>1, <3>2, Constants
  <2> QED
    BY <1>t, <2>1, <2>2, <2>3, Constants DEF NoStallMissed, Watchful
<1> QED
  BY <1>1, <1>2, <1>3, <1>4, <1>5, <1>6 DEF Next, LoopStep

(* The first pass that could see a stall reports it, in either build and   *)
(* across wraps, whatever earlier stalls and false reports left in the     *)
(* latch, if loop() passes once per timeout (sketch.ino:650-658).          *)
THEOREM StallsAreCaught ==
  ASSUME MaxPass <= Timeout
  PROVE  Spec => []NoStallMissed
<1>1. Init => NoStallMissed /\ Watchful
  BY DEF Init, NoStallMissed, Watchful
<1>2. IInv /\ NoStallMissed /\ Watchful /\ [Next]_vars => NoStallMissed' /\ Watchful'
  BY WatchfulStep
<1> QED
  BY <1>1, <1>2, Inductive, PTL DEF Spec
=============================================================================
