------------------------ MODULE HardwareBridgeProofs ------------------------
(***************************************************************************)
(* Proofs about BridgeServices and HardwareBridge, for any window lengths  *)
(* and any number of samples, recalibrations and calls: an answer is the   *)
(* last reply that arrived during its call, a bias is of one whole window, *)
(* and calibration beside them leaves the services what they were.         *)
(***************************************************************************)
EXTENDS HardwareBridge, SequenceTheorems, TLAPS

(* Requests and replies on the link name calls that were made; a diagnostic*)
(* under way has one.                                                      *)
Request == [kind : Kinds, of : Calls]
Link ==
  /\ requests \in Seq(Request) /\ replies \in Seq(Result)
  /\ \A i \in DOMAIN replies : replies[i].kind = "diag" =>
       replies[i].of \in Calls /\ replies[i] = Report(replies[i].of)
  /\ g_diag_pending \in BOOLEAN /\ notified \in BOOLEAN /\ tested \in 0 .. MaxCalls
  /\ g_diag_pending => tested \in Calls

Host ==
  /\ call \in 0 .. MaxCalls /\ kind \in Kinds /\ pc \in {"idle", "send", "wait"}
  /\ pc # "idle" => call \in Calls
  /\ i2c_gen_ \in Nat /\ servo_diag_gen_ \in Nat /\ before \in 0 .. Gen(kind)
  /\ i2c_scan_addrs_ \in Result /\ servo_diag_str_ \in 0 .. MaxCalls
  /\ heard \in Result

(* During a call: what was heard is what it would be answered, and has     *)
(* moved the generation on; a diagnostic that heard nothing has nothing.   *)
Hearing ==
  pc # "idle" =>
    /\ heard # None => Latest = heard /\ Gen(kind) > before
    /\ heard = None /\ kind = "diag" => servo_diag_str_ = 0

Answers ==
  /\ answers \in Seq([kind : Kinds, success : BOOLEAN, result : Result, heard : Result])
  /\ Len(answers) = IF pc = "idle" THEN call ELSE call - 1
  /\ \A c \in DOMAIN answers :
       /\ answers[c].heard # None => answers[c].result = answers[c].heard
       /\ answers[c].kind = "diag" /\ answers[c].success => answers[c].heard # None

IInv == Link /\ Host /\ Hearing /\ Answers

LEMMA Reports ==
  ASSUME NEW c \in 0 .. MaxCalls PROVE Report(c) \in Result
BY DEF Report, Result, Kinds

LEMMA NoneIsResult == None \in Result
BY CallsAssumption DEF None, Result, Kinds

-----------------------------------------------------------------------------
(* The executor.                                                           *)
LEMMA BeginStep ==
  ASSUME IInv, NEW k \in Kinds, Begin(k) PROVE IInv'
<1>1. Link'
  BY DEF IInv, Link, Begin, sketchVars
<1>2. Host'
  BY NoneIsResult, CallsAssumption DEF IInv, Host, Begin, scanVars, Gen, Calls, Kinds
<1>3. Hearing'
  BY DEF IInv, Hearing, Begin
<1>4. Answers'
  BY CallsAssumption DEF IInv, Answers, Host, Begin
<1> QED BY <1>1, <1>2, <1>3, <1>4 DEF IInv

LEMMA SendStep == ASSUME IInv, Send PROVE IInv'
<1>1. [kind |-> kind, of |-> call] \in Request
  BY DEF IInv, Host, Send, Request
<1>2. Link'
  BY <1>1, AppendProperties DEF IInv, Link, Send, sketchVars
<1>3. Host' /\ Hearing' /\ Answers'
  BY DEF IInv, Host, Hearing, Answers, Send, scanVars, diagVars, Gen, Latest
<1> QED BY <1>2, <1>3 DEF IInv

LEMMA AnswerStep == ASSUME IInv, Answer PROVE IInv'
<1> DEFINE a == [kind |-> kind, success |-> Latest.found, result |-> Latest,
                 heard |-> heard]
           A == [kind : Kinds, success : BOOLEAN, result : Result, heard : Result]
<1>1. Latest \in Result
  BY Reports, NoneIsResult DEF Latest, IInv, Host
<1>2. a \in A
  BY <1>1 DEF IInv, Host, Result
<1>3. /\ heard # None => Latest = heard
      /\ kind = "diag" /\ Latest.found => heard # None
  BY DEF IInv, Hearing, Latest, Answer, None
<1>4. answers' = Append(answers, a) /\ pc = "wait" /\ pc' = "idle" /\ call' = call
  BY DEF Answer, callVars
<1>5. Answers'
  <2>1. /\ answers' \in Seq(A) /\ Len(answers') = Len(answers) + 1
        /\ \A c \in 1 .. Len(answers) : answers'[c] = answers[c]
        /\ answers'[Len(answers) + 1] = a
    BY <1>2, <1>4, AppendProperties DEF IInv, Answers
  <2>2. Len(answers') = call /\ call \in Nat
    BY <1>4, <2>1 DEF IInv, Answers, Host
  <2>3. \A c \in DOMAIN answers' : c \in DOMAIN answers \/ answers'[c] = a
    BY <2>1, LenProperties DEF IInv, Answers
  <2> QED BY <1>3, <1>4, <2>1, <2>2, <2>3 DEF IInv, Answers
<1>6. Link' /\ Host' /\ Hearing'
  BY DEF IInv, Link, Host, Hearing, Answer, scanVars, diagVars, sketchVars, Gen
<1> QED BY <1>5, <1>6 DEF IInv

(* The reader.                                                             *)
LEMMA DispatchStep == ASSUME IInv, Dispatch PROVE IInv'
<1> DEFINE m == Head(replies)
<1>1. /\ m \in Result /\ Tail(replies) \in Seq(Result)
      /\ m.kind = "diag" => m.of \in Calls /\ m = Report(m.of)
      /\ \A i \in DOMAIN Tail(replies) : \E j \in DOMAIN replies :
           Tail(replies)[i] = replies[j]
  BY HeadTailProperties, LenProperties DEF IInv, Link, Dispatch
<1>2. Link'
  BY <1>1 DEF IInv, Link, Dispatch, sketchVars
<1>3. UNCHANGED <<call, kind, pc, before, answers>>
      /\ heard' = IF pc # "idle" /\ m.kind = kind THEN m ELSE heard
  BY DEF Dispatch, Hear
<1>4. CASE OnI2cScan(m)
  <2>1. m.kind = "scan" /\ i2c_scan_addrs_' = m /\ i2c_gen_' = i2c_gen_ + 1
        /\ UNCHANGED diagVars
    BY <1>4 DEF OnI2cScan
  <2>2. Host'
    BY <1>1, <1>3, <2>1 DEF IInv, Host, diagVars, Gen
  <2>3. Hearing'
    BY <1>1, <1>3, <2>1 DEF IInv, Host, Hearing, diagVars, Gen, Latest, Kinds
  <2> QED BY <1>2, <1>3, <2>2, <2>3 DEF IInv, Answers
<1>5. CASE OnServoDiagResult(m)
  <2>1. m.kind = "diag" /\ servo_diag_str_' = m.of
        /\ servo_diag_gen_' = servo_diag_gen_ + 1 /\ UNCHANGED scanVars
    BY <1>5 DEF OnServoDiagResult
  <2>2. m.of \in Calls /\ m = Report(m.of) /\ m.of # 0 /\ m # None
    BY <1>1, <2>1 DEF Calls, Report, None
  <2>3. Host'
    BY <1>1, <1>3, <2>1, <2>2 DEF IInv, Host, scanVars, Gen, Calls
  <2>4. Hearing'
    BY <1>1, <1>3, <2>1, <2>2 DEF IInv, Host, Hearing, scanVars, Gen, Latest, Kinds
  <2> QED BY <1>2, <1>3, <2>3, <2>4 DEF IInv, Answers
<1>6. CASE NoHandler(m)
  <2>1. m.kind = "abort" /\ UNCHANGED <<scanVars, diagVars>> /\ heard' = heard
    BY <1>3, <1>6 DEF NoHandler, IInv, Host, Kinds
  <2> QED BY <1>2, <1>3, <2>1 DEF IInv, Host, Hearing, Answers, scanVars, diagVars,
             Gen, Latest
<1> QED BY <1>4, <1>5, <1>6 DEF Dispatch

(* The link and the sketch, which do not touch the host.                   *)
LEMMA HostAlone ==
  ASSUME IInv, Link', UNCHANGED <<callVars, scanVars, diagVars>> PROVE IInv'
BY DEF IInv, Host, Hearing, Answers, callVars, scanVars, diagVars, Gen, Latest

LEMMA SketchStep ==
  ASSUME IInv,
         ReplyLost \/ RequestLost \/ OnScanI2c \/ OnServoDiag \/ DiagNotify \/ DiagClear
  PROVE  IInv'
<1>r. replies # <<>> => /\ Tail(replies) \in Seq(Result)
                        /\ \A i \in DOMAIN Tail(replies) : \E j \in DOMAIN replies :
                             Tail(replies)[i] = replies[j]
  BY HeadTailProperties, LenProperties DEF IInv, Link
<1>q. requests # <<>> => /\ Tail(requests) \in Seq(Request)
                         /\ Head(requests).of \in Calls
  <2>1. requests \in Seq(Request)
    BY DEF IInv, Link
  <2>2. requests # <<>> => Head(requests) \in Request /\ Tail(requests) \in Seq(Request)
    BY <2>1, HeadTailProperties
  <2> QED BY <2>2 DEF Request
<1>a. ASSUME NEW m \in Result, Reply(m), m.kind = "diag" => m.of \in Calls /\ m = Report(m.of)
      PROVE  /\ replies' \in Seq(Result)
             /\ \A i \in DOMAIN replies' : replies'[i].kind = "diag" =>
                  replies'[i].of \in Calls /\ replies'[i] = Report(replies'[i].of)
  <2>1. replies \in Seq(Result) /\ replies' = Append(replies, m)
    BY <1>a DEF IInv, Link, Reply
  <2>2. \A i \in DOMAIN replies' : replies'[i] = m \/ (i \in DOMAIN replies /\ replies'[i] = replies[i])
    BY <2>1, AppendProperties, LenProperties
  <2> QED BY <1>a, <2>1, <2>2, AppendProperties DEF IInv, Link
<1>1. CASE ReplyLost
  <2>1. Link'
    BY <1>1, <1>r DEF ReplyLost, IInv, Link, sketchVars
  <2> QED BY <1>1, <2>1, HostAlone DEF ReplyLost
<1>2. CASE RequestLost
  <2>1. Link'
    BY <1>2, <1>q DEF RequestLost, IInv, Link, sketchVars
  <2> QED BY <1>2, <2>1, HostAlone DEF RequestLost
<1>3. CASE OnScanI2c
  <2>1. requests # <<>> /\ requests' = Tail(requests)
        /\ UNCHANGED <<callVars, scanVars, diagVars, sketchVars>>
    BY <1>3 DEF OnScanI2c
  <2>2. CASE UNCHANGED replies
    BY <1>q, <2>1, <2>2, HostAlone DEF IInv, Link, sketchVars
  <2>3. CASE \E f \in BOOLEAN :
               Reply([kind |-> "scan", of |-> Head(requests).of, found |-> f])
    <3>1. PICK f \in BOOLEAN :
            Reply([kind |-> "scan", of |-> Head(requests).of, found |-> f])
      BY <2>3
    <3>2. [kind |-> "scan", of |-> Head(requests).of, found |-> f] \in Result
      BY <1>q, <2>1 DEF Result, Kinds, Calls
    <3>3. /\ replies' \in Seq(Result)
          /\ \A i \in DOMAIN replies' : replies'[i].kind = "diag" =>
               replies'[i].of \in Calls /\ replies'[i] = Report(replies'[i].of)
      BY <1>a, <3>1, <3>2
    <3>4. Link'
      BY <1>q, <2>1, <3>3 DEF IInv, Link, sketchVars
    <3> QED BY <2>1, <3>4, HostAlone
  <2> QED BY <1>3, <2>2, <2>3 DEF OnScanI2c
<1>4. CASE OnServoDiag
  <2>1. Link'
    BY <1>4, <1>q DEF OnServoDiag, IInv, Link, Calls
  <2> QED BY <1>4, <2>1, HostAlone DEF OnServoDiag
<1>5. CASE DiagNotify
  <2>1. tested \in Calls /\ tested \in 0 .. MaxCalls
    BY <1>5 DEF DiagNotify, IInv, Link
  <2>2. /\ replies' \in Seq(Result)
        /\ \A i \in DOMAIN replies' : replies'[i].kind = "diag" =>
             replies'[i].of \in Calls /\ replies'[i] = Report(replies'[i].of)
    <3>1. Report(tested) \in Result /\ Report(tested).of = tested
          /\ [Report(tested) EXCEPT !.kind = "abort"] \in Result
          /\ [Report(tested) EXCEPT !.kind = "abort"].kind = "abort"
      BY <2>1 DEF Report, Result, Kinds
    <3> QED BY <1>5, <1>a, <2>1, <3>1 DEF DiagNotify
  <2>3. Link'
    BY <1>5, <2>2 DEF DiagNotify, IInv, Link
  <2> QED BY <1>5, <2>3, HostAlone DEF DiagNotify
<1>6. CASE DiagClear
  <2>1. Link'
    BY <1>6 DEF DiagClear, IInv, Link
  <2> QED BY <1>6, <2>1, HostAlone DEF DiagClear
<1> QED BY <1>1, <1>2, <1>3, <1>4, <1>5, <1>6

-----------------------------------------------------------------------------
(* Host and sketch agree at every interleaving of calls, notifications and *)
(* aborts about which call the sketch works on and what was answered.      *)
THEOREM Inductive == Spec => []IInv
<1>1. Init => IInv
  <2> SUFFICES ASSUME Init PROVE IInv
    OBVIOUS
  <2>1. requests = <<>> /\ replies = <<>> /\ answers = <<>>
        /\ \A S : <<>> \in Seq(S)
        /\ DOMAIN <<>> = {} /\ Len(<<>>) = 0
    BY DEF Init
  <2>3. Link
    <3>1. requests \in Seq(Request) /\ replies \in Seq(Result) /\ DOMAIN replies = {}
      BY <2>1
    <3>2. g_diag_pending = FALSE /\ notified = FALSE /\ tested = 0
      BY DEF Init
    <3>3. 0 \in 0 .. MaxCalls
      BY CallsAssumption
    <3>4. tested \in 0 .. MaxCalls
      BY <3>2, <3>3
    <3>5. ~g_diag_pending /\ g_diag_pending \in BOOLEAN /\ notified \in BOOLEAN
      BY <3>2
    <3> QED BY <3>1, <3>4, <3>5 DEF Link
  <2>4. Answers
    BY <2>1, CallsAssumption DEF Init, Answers
  <2>2. Host /\ Hearing
    BY NoneIsResult, CallsAssumption DEF Init, Host, Hearing, Gen, Kinds
  <2> QED BY <2>2, <2>3, <2>4 DEF IInv
<1>2. IInv /\ [Next]_vars => IInv'
  <2> SUFFICES ASSUME IInv, [Next]_vars PROVE IInv'
    OBVIOUS
  <2>1. CASE UNCHANGED vars
    BY <2>1, HostAlone DEF vars, IInv, Link, sketchVars
  <2> QED BY <2>1, BeginStep, SendStep, AnswerStep, DispatchStep, SketchStep
          DEF Next, Answered, TimedOut
<1> QED BY <1>1, <1>2, PTL DEF Spec

(* Type correctness of the host, the link and the sketch.                  *)
THEOREM TypeCorrect == Spec => []TypeOK
<1>1. IInv => TypeOK
  <2> SUFFICES ASSUME IInv PROVE TypeOK
    OBVIOUS
  <2>1. /\ \A i \in 1 .. Len(requests) : requests[i] \in [kind : Kinds, of : Calls]
        /\ \A i \in 1 .. Len(replies) : replies[i] \in Result
    BY ElementOfSeq DEF IInv, Link, Request
  <2> QED BY <2>1 DEF IInv, Link, Host, Answers, TypeOK
<1> QED BY <1>1, Inductive, PTL

(* Whatever the link loses or delays, a call is answered by the last reply *)
(* that came while it ran, and a wait ends once there is one.              *)
THEOREM RepliesAreAnswered == Spec => []NoReplyMissed
<1>1. IInv => NoReplyMissed
  BY LenProperties DEF IInv, Answers, Hearing, NoReplyMissed
<1> QED BY <1>1, Inductive, PTL

(* A diagnostic never succeeds on a report of before the call.             *)
THEOREM SuccessIsHeard == Spec => []DiagSuccessIsHeard
<1>1. IInv => DiagSuccessIsHeard
  BY LenProperties DEF IInv, Answers, DiagSuccessIsHeard
<1> QED BY <1>1, Inductive, PTL

-----------------------------------------------------------------------------
(* ---- calibration beside the services ---- *)
CalTypes ==
  /\ enabled \in [Sensors -> BOOLEAN] /\ calibration_done_ \in BOOLEAN
  /\ cal_nonzero_ \in BOOLEAN /\ cal_collected_ \in Nat
  /\ sample \in Nat /\ opened \in 0 .. sample
  /\ DOMAIN bias = Sensors

(* The open window holds the samples since it was opened; it is not full,  *)
(* or it was closed.                                                       *)
OpenWindow ==
  /\ cal_sum_ = opened + 1 .. opened + cal_collected_
  /\ AnyEnabled /\ ~calibration_done_ =>
       /\ sample = opened + cal_collected_
       /\ target > 0 => cal_collected_ < target

(* A sensor that is still calibrated has, once the window was closed, the  *)
(* bias of that window.                                                    *)
ClosedWindow ==
  calibration_done_ /\ target > 0 =>
    \A k \in Sensors : enabled[k] => bias[k] = opened + 1 .. opened + target

WholeWindows ==
  \A k \in Sensors :
    bias[k] # {} => \E first \in 0 .. sample : bias[k] = first + 1 .. first + target

CalInv == CalTypes /\ OpenWindow /\ ClosedWindow /\ WholeWindows

LEMMA TargetIsNat == target \in Nat
BY SamplesAssumption DEF target

-----------------------------------------------------------------------------
(* The reader.                                                             *)
LEMMA FinishStep ==
  ASSUME CalInv, NEW zero \in BOOLEAN, sample' = sample + 1, opened' = opened,
         ~calibration_done_, AnyEnabled, target > 0, AddToWindow(zero),
         cal_collected_' >= target
  PROVE  CalInv'
<1> USE TargetIsNat
<1>1. /\ cal_collected_' = cal_collected_ + 1 /\ cal_collected_' = target
      /\ sample = opened + cal_collected_ /\ sample' = opened + target
      /\ opened \in Nat /\ sample \in Nat /\ cal_collected_ \in Nat
  BY DEF CalInv, CalTypes, OpenWindow, AddToWindow
<1>2. cal_sum_' = opened + 1 .. opened + target
  <2>1. cal_sum_' = (opened + 1 .. opened + cal_collected_) \cup {opened + cal_collected_ + 1}
    BY <1>1 DEF CalInv, OpenWindow, AddToWindow
  <2> QED BY <1>1, <2>1
<1>3. calibration_done_' = TRUE /\ FinishCalibration
  BY DEF AddToWindow, FinishCalibration
<1>4. cal_nonzero_' \in BOOLEAN
  BY DEF AddToWindow, CalInv, CalTypes
<1>5. OpenWindow'
  BY <1>1, <1>2, <1>3 DEF OpenWindow
<1>6. opened \in 0 .. sample'
  BY <1>1
<1>7. CASE cal_nonzero_'
  <2>1. /\ bias' = [k \in Sensors |-> IF enabled[k] THEN cal_sum_' ELSE bias[k]]
        /\ enabled' = enabled
    BY <1>3, <1>7 DEF FinishCalibration
  <2>2. CalTypes'
    BY <1>1, <1>3, <1>4, <1>6, <2>1 DEF CalInv, CalTypes
  <2>3. ClosedWindow'
    BY <1>2, <2>1 DEF ClosedWindow
  <2>4. WholeWindows'
    <3> SUFFICES ASSUME NEW k \in Sensors, bias'[k] # {}
                 PROVE  \E first \in 0 .. sample' : bias'[k] = first + 1 .. first + target
      BY DEF WholeWindows
    <3>1. CASE enabled[k]
      BY <1>2, <1>6, <2>1, <3>1
    <3>2. CASE ~enabled[k]
      <4>1. bias'[k] = bias[k]
        BY <2>1, <3>2
      <4>2. PICK first \in 0 .. sample : bias[k] = first + 1 .. first + target
        BY <4>1 DEF CalInv, WholeWindows
      <4> QED BY <1>1, <4>1, <4>2
    <3> QED BY <3>1, <3>2
  <2> QED BY <1>5, <2>2, <2>3, <2>4 DEF CalInv
<1>8. CASE ~cal_nonzero_'
  <2>1. enabled' = [k \in Sensors |-> FALSE] /\ bias' = bias
    BY <1>3, <1>8 DEF FinishCalibration
  <2>2. CalTypes'
    BY <1>1, <1>3, <1>4, <1>6, <2>1 DEF CalInv, CalTypes
  <2>3. ClosedWindow'
    BY <2>1 DEF ClosedWindow
  <2>4. WholeWindows'
    BY <1>1, <2>1 DEF CalInv, WholeWindows
  <2> QED BY <1>5, <2>2, <2>3, <2>4 DEF CalInv
<1> QED BY <1>7, <1>8

LEMMA ImuStep ==
  ASSUME CalInv, NEW zero \in BOOLEAN, OnImu(zero) PROVE CalInv'
<1> USE TargetIsNat
<1>1. sample' = sample + 1 /\ opened' = opened /\ opened \in 0 .. sample'
      /\ sample \in Nat /\ sample' \in Nat
  BY DEF OnImu, CalInv, CalTypes
<1>2. CASE ~calibration_done_ /\ AnyEnabled /\ target > 0 /\ AddToWindow(zero)
  <2>1. CASE cal_collected_' >= target
    BY <1>1, <1>2, <2>1, FinishStep
  <2>2. CASE ~(cal_collected_' >= target)
    <3>1. /\ cal_collected_' = cal_collected_ + 1 /\ cal_collected_' \in Nat
          /\ cal_collected_' < target
          /\ UNCHANGED <<enabled, calibration_done_, bias>>
      BY <1>2, <2>2 DEF AddToWindow, CalInv, CalTypes
    <3>2. cal_nonzero_' \in BOOLEAN
      BY <1>2 DEF AddToWindow, CalInv, CalTypes
    <3>3. CalTypes'
      BY <1>1, <3>1, <3>2 DEF CalInv, CalTypes
    <3>4. sample = opened + cal_collected_ /\ opened \in Nat /\ cal_collected_ \in Nat
      BY <1>2 DEF CalInv, CalTypes, OpenWindow
    <3>5. cal_sum_' = (opened + 1 .. opened + cal_collected_) \cup {opened + cal_collected_ + 1}
      BY <1>1, <1>2, <3>4 DEF CalInv, OpenWindow, AddToWindow
    <3>6. OpenWindow'
      BY <1>1, <3>1, <3>4, <3>5 DEF OpenWindow
    <3>7. ClosedWindow'
      BY <1>2, <3>1 DEF ClosedWindow
    <3>8. WholeWindows'
      BY <1>1, <3>1 DEF CalInv, WholeWindows
    <3> QED BY <3>3, <3>6, <3>7, <3>8 DEF CalInv
  <2> QED BY <2>1, <2>2
<1>3. CASE /\ ~calibration_done_ /\ AnyEnabled /\ target = 0
           /\ calibration_done_' = TRUE /\ UNCHANGED <<enabled, window, bias>>
  <2>1. CalTypes' /\ OpenWindow' /\ ClosedWindow'
    BY <1>1, <1>3 DEF CalInv, CalTypes, OpenWindow, ClosedWindow, window
  <2>2. WholeWindows'
    BY <1>1, <1>3 DEF CalInv, WholeWindows
  <2> QED BY <2>1, <2>2 DEF CalInv
<1>4. CASE /\ calibration_done_ \/ ~AnyEnabled
           /\ UNCHANGED <<enabled, calibration_done_, window, bias>>
  <2>1. CalTypes' /\ OpenWindow' /\ ClosedWindow'
    BY <1>1, <1>4 DEF CalInv, CalTypes, OpenWindow, ClosedWindow, window, AnyEnabled
  <2>2. WholeWindows'
    BY <1>1, <1>4 DEF CalInv, WholeWindows
  <2> QED BY <2>1, <2>2 DEF CalInv
<1> QED BY <1>2, <1>3, <1>4 DEF OnImu

(* The executor.                                                           *)
LEMMA RecalibrateStep ==
  ASSUME CalInv, Recalibrate PROVE CalInv'
<1>1. /\ opened' = sample /\ sample' = sample /\ sample \in Nat
      /\ cal_collected_' = 0 /\ cal_sum_' = {} /\ calibration_done_' = FALSE
      /\ cal_nonzero_' = FALSE /\ UNCHANGED <<enabled, bias>>
  BY DEF Recalibrate, CalInv, CalTypes
<1>2. CalTypes'
  <2>1. opened' \in 0 .. sample' /\ sample' \in Nat /\ cal_collected_' \in Nat
    BY <1>1
  <2>2. calibration_done_' \in BOOLEAN /\ cal_nonzero_' \in BOOLEAN
    BY <1>1
  <2> QED BY <1>1, <2>1, <2>2 DEF CalInv, CalTypes
<1>3. OpenWindow'
  BY <1>1, TargetIsNat DEF OpenWindow
<1>4. ClosedWindow' /\ WholeWindows'
  BY <1>1 DEF CalInv, ClosedWindow, WholeWindows
<1> QED BY <1>2, <1>3, <1>4 DEF CalInv

(* A bias in use is of one whole window, and a window's worth of samples   *)
(* after an accepted recalibration of exactly those                        *)
(* (hardware_bridge_node.cpp:390-417, 607-632).                            *)
THEOREM BiasOfOneWindow == NodeSpec => []OneWindow
<1>1. CalInit => CalInv
  <2> SUFFICES ASSUME CalInit PROVE CalInv
    OBVIOUS
  <2>1. /\ sample = 0 /\ opened = 0 /\ cal_sum_ = {} /\ cal_collected_ = 0
        /\ bias = [k \in Sensors |-> {}]
    BY DEF CalInit
  <2>2. enabled \in [Sensors -> BOOLEAN] /\ calibration_done_ = FALSE /\ cal_nonzero_ = FALSE
    BY DEF CalInit
  <2>3. CalTypes
    <3>1. opened \in 0 .. sample /\ sample \in Nat /\ cal_collected_ \in Nat
          /\ DOMAIN bias = Sensors
      BY <2>1
    <3>2. calibration_done_ \in BOOLEAN /\ cal_nonzero_ \in BOOLEAN
      BY <2>2
    <3> QED BY <2>2, <3>1, <3>2 DEF CalTypes
  <2>4. OpenWindow /\ ClosedWindow /\ WholeWindows
    BY <2>1, <2>2, TargetIsNat DEF OpenWindow, ClosedWindow, WholeWindows
  <2> QED BY <2>3, <2>4 DEF CalInv
<1>2. CalInv /\ [NodeNext]_<<vars, calVars>> => CalInv'
  <2> SUFFICES ASSUME CalInv, [NodeNext]_<<vars, calVars>> PROVE CalInv'
    OBVIOUS
  <2>1. CASE UNCHANGED calVars
    BY <2>1 DEF calVars, window, CalInv, CalTypes, OpenWindow, ClosedWindow,
       WholeWindows, AnyEnabled
  <2>2. CASE Calibration
    BY <2>2, ImuStep, RecalibrateStep DEF Calibration
  <2> QED BY <2>1, <2>2 DEF NodeNext
<1>3. CalInv => OneWindow
  <2> SUFFICES ASSUME CalInv, NEW k \in Sensors, enabled[k], target > 0,
                      sample >= opened + target
               PROVE  bias[k] = opened + 1 .. opened + target
    BY DEF OneWindow, CalInv, WholeWindows
  <2>1. calibration_done_
    <3> SUFFICES ASSUME ~calibration_done_ PROVE FALSE
      OBVIOUS
    <3>1. sample = opened + cal_collected_ /\ cal_collected_ < target
      BY DEF CalInv, OpenWindow, AnyEnabled
    <3> QED BY <3>1, TargetIsNat DEF CalInv, CalTypes
  <2> QED BY <2>1 DEF CalInv, ClosedWindow
<1> QED BY <1>1, <1>2, <1>3, PTL DEF NodeSpec, NodeInit

(* Calibration leaves the state of the services alone, so what is proved   *)
(* of BridgeServices holds of the node.                                    *)
LEMMA NodeImplementsServices == NodeSpec => Spec
<1>1. [NodeNext]_<<vars, calVars>> => [Next]_vars
  BY DEF NodeNext, Calibration, OnImu, Recalibrate
<1> QED BY <1>1, PTL DEF NodeSpec, NodeInit, Spec

(* A reply that arrives during a call of the node is what the call answers.*)
THEOREM NodeRepliesAreAnswered == NodeSpec => []NoReplyMissed
BY NodeImplementsServices, RepliesAreAnswered, PTL
=============================================================================
