--------------------------- MODULE BridgeServices ---------------------------
(***************************************************************************)
(* The request and answer services of the hardware bridge, ~/scan_i2c and  *)
(* ~/servo_diag, over the lossy link to the sketch.                        *)
(*                                                                         *)
(* On the host two threads share the latest results under diag_mutex_: the *)
(* executor, which runs one service callback at a time (the node has one,  *)
(* mutually exclusive, callback group) and blocks in it until an answer or *)
(* a timeout, and the reader of BridgeRPCClient, which runs the handlers   *)
(* of incoming messages.  A critical section is one step.  The link keeps  *)
(* the order of messages but may hold them for any time and lose them: a   *)
(* send on a closed socket is dropped silently.                            *)
(*                                                                         *)
(* Data.  A result is named by the call whose request led to it, and a     *)
(* scan also by whether it found any device; 0 stands for no result, as an *)
(* empty string or list does in the code.  Timeouts (2 s and 5 s) may fire *)
(* at any time: the sketch bounds neither a scan nor a readback.           *)
(***************************************************************************)
EXTENDS Naturals, Sequences

CONSTANT MaxCalls   (* bound: service calls                                *)

ASSUME CallsAssumption == MaxCalls \in Nat

VARIABLES
  call, kind, pc, before,        (* executor: the call, its service, where *)
                                 (* it is, the generation it started from  *)
  i2c_gen_, i2c_scan_addrs_,     (* latest scan and how many there were    *)
  servo_diag_gen_, servo_diag_str_,   (* latest diagnostic, likewise       *)
  requests, replies,             (* the link, in each direction            *)
  g_diag_pending, tested, notified,   (* sketch: a diagnostic is under way,*)
                                 (* for which call, result already sent    *)
  heard,                         (* last result of its kind since the call *)
                                 (* began                                  *)
  answers                        (* what was answered to each call         *)

callVars  == <<call, kind, pc, before, heard, answers>>
scanVars  == <<i2c_gen_, i2c_scan_addrs_>>
diagVars  == <<servo_diag_gen_, servo_diag_str_>>
sketchVars == <<g_diag_pending, tested, notified>>
vars == <<callVars, scanVars, diagVars, requests, replies, sketchVars>>

Calls  == 1 .. MaxCalls
Kinds  == {"scan", "diag"}
Result == [kind : Kinds \cup {"abort"}, of : 0 .. MaxCalls, found : BOOLEAN]
None   == [kind |-> "scan", of |-> 0, found |-> FALSE]
Report(c) == [kind |-> "diag", of |-> c, found |-> TRUE]

Init ==
  /\ call = 0 /\ kind = "scan" /\ pc = "idle" /\ before = 0
  /\ heard = None /\ answers = <<>>
  /\ i2c_gen_ = 0 /\ i2c_scan_addrs_ = None
  /\ servo_diag_gen_ = 0 /\ servo_diag_str_ = 0
  /\ requests = <<>> /\ replies = <<>>
  /\ g_diag_pending = FALSE /\ tested = 0 /\ notified = FALSE

----------------------------------------------------------------------------
(* Service callbacks.                                                      *)

Gen(k) == IF k = "scan" THEN i2c_gen_ ELSE servo_diag_gen_

(* A slip: the previous report is left where it is.                        *)
BeginKeepsReport(k) ==
  /\ pc = "idle" /\ call < MaxCalls
  /\ call' = call + 1 /\ kind' = k /\ before' = Gen(k) /\ heard' = None
  /\ pc' = "send"
  /\ UNCHANGED <<answers, scanVars, diagVars, requests, replies, sketchVars>>

(* The generation is read, and the old report cleared, under the mutex.    *)
Begin(k) ==
  /\ pc = "idle" /\ call < MaxCalls
  /\ call' = call + 1 /\ kind' = k /\ before' = Gen(k) /\ heard' = None
  /\ servo_diag_str_' = IF k = "diag" THEN 0 ELSE servo_diag_str_
  /\ pc' = "send"
  /\ UNCHANGED <<answers, scanVars, servo_diag_gen_, requests, replies, sketchVars>>

(* A slip: the generation is read once more, to wait for the next one.     *)
SendRereads ==
  /\ pc = "send" /\ pc' = "wait" /\ before' = Gen(kind)
  /\ requests' \in {requests, Append(requests, [kind |-> kind, of |-> call])}
  /\ UNCHANGED <<call, kind, heard, answers, scanVars, diagVars, replies, sketchVars>>

(* bridge_->notify: may be lost, and nobody is told                        *)
Send ==
  /\ pc = "send" /\ pc' = "wait"
  /\ requests' \in {requests, Append(requests, [kind |-> kind, of |-> call])}
  /\ UNCHANGED <<call, kind, before, heard, answers, scanVars, diagVars,
                 replies, sketchVars>>

(* What the callback answers from, whichever way the wait ended.           *)
Latest == IF kind = "scan" THEN i2c_scan_addrs_
          ELSE IF servo_diag_str_ = 0 THEN None ELSE Report(servo_diag_str_)

Answer ==
  /\ pc = "wait" /\ pc' = "idle"
  /\ answers' = Append(answers, [kind |-> kind, success |-> Latest.found,
                                 result |-> Latest, heard |-> heard])
  /\ UNCHANGED <<call, kind, before, heard, scanVars, diagVars, requests,
                 replies, sketchVars>>

Answered == Gen(kind) > before /\ Answer
TimedOut == Gen(kind) <= before /\ Answer

----------------------------------------------------------------------------
(* Reader thread.                                                          *)

Hear(m) == heard' = IF pc # "idle" /\ m.kind = kind THEN m ELSE heard

OnServoDiagResult(m) ==
  /\ m.kind = "diag"
  /\ servo_diag_str_' = m.of /\ servo_diag_gen_' = servo_diag_gen_ + 1
  /\ UNCHANGED scanVars

OnI2cScan(m) ==
  /\ m.kind = "scan"
  /\ i2c_scan_addrs_' = m /\ i2c_gen_' = i2c_gen_ + 1
  /\ UNCHANGED diagVars

(* The sketch reports an aborted diagnostic by numbers; only a string      *)
(* handler is registered under that name.                                  *)
NoHandler(m) == m.kind = "abort" /\ UNCHANGED <<scanVars, diagVars>>

Dispatch ==
  /\ replies # <<>> /\ replies' = Tail(replies)
  /\ LET m == Head(replies)
     IN  /\ OnI2cScan(m) \/ OnServoDiagResult(m) \/ NoHandler(m)
         /\ Hear(m)
  /\ UNCHANGED <<call, kind, pc, before, answers, requests, sketchVars>>

ReplyLost ==
  /\ replies # <<>> /\ replies' = Tail(replies)
  /\ UNCHANGED <<callVars, scanVars, diagVars, requests, sketchVars>>

----------------------------------------------------------------------------
(* The sketch.                                                             *)

Reply(m) == replies' = Append(replies, m)

RequestLost ==
  /\ requests # <<>> /\ requests' = Tail(requests)
  /\ UNCHANGED <<callVars, scanVars, diagVars, replies, sketchVars>>

(* on_scan_i2c: ignored while loop() is inside a read (g_i2c_busy)         *)
OnScanI2c ==
  /\ requests # <<>> /\ Head(requests).kind = "scan"
  /\ requests' = Tail(requests)
  /\ UNCHANGED replies
       \/ \E f \in BOOLEAN :
            Reply([kind |-> "scan", of |-> Head(requests).of, found |-> f])
  /\ UNCHANGED <<callVars, scanVars, diagVars, sketchVars>>

(* on_servo_diag: a request during a diagnostic joins it                   *)
OnServoDiag ==
  /\ requests # <<>> /\ Head(requests).kind = "diag"
  /\ requests' = Tail(requests)
  /\ g_diag_pending' = TRUE
  /\ tested' = IF g_diag_pending THEN tested ELSE Head(requests).of
  /\ UNCHANGED <<callVars, scanVars, diagVars, replies, notified>>

(* loop(): the report, or numbers when the settling took too long; then    *)
(* the request is cleared, and with it one that came in between.           *)
DiagNotify ==
  /\ g_diag_pending /\ ~notified /\ notified' = TRUE
  /\ Reply(Report(tested)) \/ Reply([Report(tested) EXCEPT !.kind = "abort"])
  /\ UNCHANGED <<callVars, scanVars, diagVars, requests, g_diag_pending, tested>>

DiagClear ==
  /\ notified
  /\ g_diag_pending' = FALSE /\ notified' = FALSE
  /\ UNCHANGED <<callVars, scanVars, diagVars, requests, replies, tested>>

Next ==
  \/ \E k \in Kinds : Begin(k)
  \/ Send \/ Answered \/ TimedOut
  \/ Dispatch \/ ReplyLost
  \/ RequestLost \/ OnScanI2c \/ OnServoDiag \/ DiagNotify \/ DiagClear

Spec == Init /\ [][Next]_vars

----------------------------------------------------------------------------
TypeOK ==
  /\ call \in 0 .. MaxCalls /\ kind \in Kinds /\ pc \in {"idle", "send", "wait"}
  /\ i2c_gen_ \in Nat /\ servo_diag_gen_ \in Nat
  /\ before \in 0 .. Gen(kind)
  /\ i2c_scan_addrs_ \in Result /\ servo_diag_str_ \in 0 .. MaxCalls
  /\ heard \in Result
  /\ \A i \in 1 .. Len(requests) :
       requests[i] \in [kind : Kinds, of : Calls]
  /\ \A i \in 1 .. Len(replies) : replies[i] \in Result
  /\ g_diag_pending \in BOOLEAN /\ notified \in BOOLEAN /\ tested \in 0 .. MaxCalls
  /\ Len(answers) = IF pc = "idle" THEN call ELSE call - 1

(* No reply is missed, also one dispatched before the callback starts to   *)
(* wait or when its timeout fires: a call is answered by the last result   *)
(* of its kind that arrived since it began, and does not wait on for more. *)
NoReplyMissed ==
  /\ \A c \in 1 .. Len(answers) :
       answers[c].heard # None => answers[c].result = answers[c].heard
  /\ pc = "wait" /\ heard # None => Gen(kind) > before

(* A diagnostic that succeeds answers from a report that arrived during    *)
(* the call, never from one of an earlier call (handle_servo_diag clears   *)
(* the old one, and reads its generation in the same critical section).    *)
DiagSuccessIsHeard ==
  \A c \in 1 .. Len(answers) :
    answers[c].kind = "diag" /\ answers[c].success => answers[c].heard # None
=============================================================================
