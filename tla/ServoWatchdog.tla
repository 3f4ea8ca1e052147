--------------------------- MODULE ServoWatchdog ---------------------------
(***************************************************************************)
(* The servo command watchdog of the sketch: set_servo_pwms stamps the     *)
(* time a command arrives, loop() compares the stamp with a time it read   *)
(* earlier in the same pass and tells the host when commands have stopped. *)
(*                                                                         *)
(* ServoFirmware models the same handler and loop without time; this       *)
(* module keeps time and drops the poses.  millis() counts modulo Wrap     *)
(* (2^32 on the board).  The stamp is taken before the payload is parsed,  *)
(* so a payload that is then rejected feeds the watchdog as well: Command  *)
(* stands for both.                                                        *)
(***************************************************************************)
EXTENDS Integers

CONSTANTS
  Wrap,       (* millis() wraps around here                                *)
  Timeout,    (* SERVO_TIMEOUT_MS                                          *)
  MaxUptime,  (* bound: milliseconds since boot                            *)
  MaxPass     (* milliseconds between two readings of the clock by loop()  *)

ASSUME TimeAssumption ==
  /\ Wrap \in Nat /\ Timeout \in Nat /\ MaxUptime \in Nat \ {0}
  /\ MaxPass \in Nat /\ 0 < MaxPass
  /\ 0 < Timeout /\ Timeout + MaxPass < Wrap

VARIABLES
  bgThread,            (* Bridge.begin() started the background thread;    *)
                       (* without it handlers run only in loop()'s own     *)
                       (* Bridge.update()                                  *)
  uptime,              (* milliseconds since boot, never wrapping          *)
  g_last_servo_cmd,    (* stamp of the last command, 0: none ever          *)
  now,                 (* loop()'s reading of millis()                     *)
  readAt,              (* uptime at that reading                           *)
  g_servo_timed_out,   (* this stall has been reported                     *)
  lpc,                 (* where loop() is                                  *)
  lastCmd,             (* uptime at the last command, 0: none ever         *)
  reports,             (* servo_timeout messages since that command        *)
  value,               (* milliseconds the last of them states             *)
  silence              (* milliseconds it should have stated               *)

said == <<reports, value, silence>>
vars == <<bgThread, uptime, g_last_servo_cmd, now, readAt, g_servo_timed_out,
          lpc, lastCmd, said>>

millis == uptime % Wrap

(* The difference of two stamps, unsigned                                  *)
Elapsed(a, b) == (a - b) % Wrap

Init ==
  /\ bgThread \in BOOLEAN
  /\ uptime = 1 /\ lastCmd = 0 /\ readAt = 1
  /\ g_last_servo_cmd = 0 /\ now = 0 /\ g_servo_timed_out = FALSE
  /\ lpc = "update"
  /\ reports = 0 /\ value = 0 /\ silence = 0

Tick ==
  /\ uptime < MaxUptime /\ uptime - readAt < MaxPass
  /\ uptime' = uptime + 1
  /\ UNCHANGED <<bgThread, g_last_servo_cmd, now, readAt, g_servo_timed_out,
                 lpc, lastCmd, said>>

(* set_servo_pwms, as far as its time stamp                                *)
Command ==
  /\ bgThread \/ lpc = "update"
  /\ g_last_servo_cmd' = millis
  /\ lastCmd' = uptime
  /\ reports' = 0 /\ value' = 0 /\ silence' = 0
  /\ UNCHANGED <<bgThread, uptime, now, readAt, g_servo_timed_out, lpc>>

(* loop(): Bridge.update(), then one reading of the clock for the pass     *)
ReadMillis ==
  /\ lpc = "update"
  /\ now' = millis /\ readAt' = uptime
  /\ lpc' = "watchdog"
  /\ UNCHANGED <<bgThread, uptime, g_last_servo_cmd, g_servo_timed_out,
                 lastCmd, said>>

(* The test of sketch.ino:650 and the report of 653 read the stamp three   *)
(* times, which the background thread may change in between.  A build that *)
(* keeps it in a register takes the same steps with no command in between. *)

(* A slip: the first command need not have come.                           *)
SeesCommandAtBoot ==
  /\ lpc = "watchdog"
  /\ lpc' = "compare"
  /\ UNCHANGED <<bgThread, uptime, g_last_servo_cmd, now, readAt,
                 g_servo_timed_out, lastCmd, said>>

SeesCommand ==
  /\ lpc = "watchdog"
  /\ IF g_last_servo_cmd = 0 THEN lpc' = "update" /\ g_servo_timed_out' = FALSE
                             ELSE lpc' = "compare" /\ UNCHANGED g_servo_timed_out
  /\ UNCHANGED <<bgThread, uptime, g_last_servo_cmd, now, readAt, lastCmd, said>>

(* A slip: the timeout is one millisecond short.                           *)
StalledEarly == Elapsed(now, g_last_servo_cmd) >= Timeout

Stalled == Elapsed(now, g_last_servo_cmd) > Timeout

(* Two slips: every pass of a stall reports it; the latch is never reset.  *)
CompareEveryPass ==
  /\ lpc = "compare"
  /\ lpc' = IF Stalled THEN "report" ELSE "update"
  /\ g_servo_timed_out' = Stalled
  /\ UNCHANGED <<bgThread, uptime, g_last_servo_cmd, now, readAt, lastCmd, said>>

CompareLatched ==
  /\ lpc = "compare"
  /\ lpc' = IF Stalled /\ ~g_servo_timed_out THEN "report" ELSE "update"
  /\ g_servo_timed_out' = (g_servo_timed_out \/ Stalled)
  /\ UNCHANGED <<bgThread, uptime, g_last_servo_cmd, now, readAt, lastCmd, said>>

(* Edge-triggered: the first pass that sees a stall reports it.            *)
Compare ==
  /\ lpc = "compare"
  /\ lpc' = IF Stalled /\ ~g_servo_timed_out THEN "report" ELSE "update"
  /\ g_servo_timed_out' = Stalled
  /\ UNCHANGED <<bgThread, uptime, g_last_servo_cmd, now, readAt, lastCmd, said>>

(* The time that is sent is computed here.                                 *)
Report ==
  /\ lpc = "report"
  /\ lpc' = "update"
  /\ reports' = IF reports < 2 THEN reports + 1 ELSE reports
  /\ value' = Elapsed(now, g_last_servo_cmd)
  /\ silence' = uptime - lastCmd
  /\ UNCHANGED <<bgThread, uptime, g_last_servo_cmd, now, readAt,
                 g_servo_timed_out, lastCmd>>

LoopStep == ReadMillis \/ SeesCommand \/ Compare \/ Report

Next == Tick \/ Command \/ LoopStep

(* loop() keeps running; nothing makes commands arrive.                    *)
Spec == Init /\ [][Next]_vars /\ WF_vars(LoopStep)

----------------------------------------------------------------------------
TypeOK ==
  /\ bgThread \in BOOLEAN
  /\ uptime \in 1 .. MaxUptime /\ lastCmd \in 0 .. MaxUptime
  /\ g_last_servo_cmd \in 0 .. Wrap - 1 /\ now \in 0 .. Wrap - 1
  /\ readAt \in 1 .. MaxUptime /\ g_servo_timed_out \in BOOLEAN
  /\ lpc \in {"update", "watchdog", "compare", "report"}
  /\ reports \in 0 .. 2 /\ value \in 0 .. Wrap - 1 /\ silence \in 0 .. MaxUptime

(* With handlers run by loop() itself a report tells the truth: commands   *)
(* had stopped for longer than the timeout and for at least the time it    *)
(* states (sketch.ino:650-654).                                            *)
ReportTellsSilence ==
  reports > 0 /\ ~bgThread =>
    lastCmd > 0 /\ Timeout < value /\ value <= silence

(* "Latch so one stall reports once" (sketch.ino:89), as long as the stall *)
(* is shorter than one wrap of millis(): the difference is small again     *)
(* after that, which clears the latch.                                     *)
ReportOncePerStall ==
  ~bgThread /\ uptime - lastCmd < Wrap => reports <= 1

(* The background thread may stamp a command after loop() has read the     *)
(* clock, also between the test of the stamp and the report.  The only     *)
(* reports this can spoil state 0 ms or a time within one pass of a whole  *)
(* wrap, 49 days on the board; every other one is of a real stall, and no  *)
(* report states a time up to the timeout but 0.                           *)
PlausibleReportIsGenuine ==
  reports > 0 /\ 0 < value /\ value < Wrap - MaxPass
    => Timeout < silence /\ Timeout < value

(* A stall that lasts is reported, also after an earlier one has ended and *)
(* whatever false reports came between, as long as loop() passes more      *)
(* often than the timeout.  A command stamped 0 counts as none.            *)
StallReported ==
  \A c \in {u \in 1 .. MaxUptime : u % Wrap # 0} :
    (lastCmd = c /\ uptime - lastCmd > Timeout)
      ~> (lastCmd # c \/ (reports > 0 /\ silence > Timeout))
=============================================================================
