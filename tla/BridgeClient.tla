---------------------------- MODULE BridgeClient ----------------------------
(***************************************************************************)
(* BridgeRPCClient (bridge_rpc_client.hpp): connecting to the router,      *)
(* registering the methods, the reader thread with its parser, and the     *)
(* reconnection after a loss.                                              *)
(*                                                                         *)
(* The stream is cut anywhere: by a read, by a lost connection, by the end *)
(* of a registration.  A token stands for the bytes of one MsgPack element,*)
(* a value for two (its header and the rest); it carries the method whose  *)
(* message it is part of, which the code cannot see.  A value the parser   *)
(* has no case for (an unsigned integer above 127, a nested array) is odd. *)
(***************************************************************************)
EXTENDS Naturals, Sequences, SequencesExt

CONSTANTS
  Methods,                  \* in the order of the handler maps
  MaxStream,                \* bound: tokens under way
  MaxFaults,                \* bound: lost connections and odd values
  MaxBuffer, MaxStalled     \* the limits of the parser, 65536 bytes and 64 reads

ASSUME ClientAssumption ==
  /\ Methods \in Seq(STRING) /\ Methods # <<>>
  /\ MaxStream \in Nat /\ MaxFaults \in Nat /\ MaxStalled \in Nat

(* Every message fits into the buffer: the longest is of six tokens.       *)
ASSUME FrameFitsAssumption == MaxBuffer \in Nat /\ MaxBuffer >= 6

VARIABLES
  up, registered, requests, stream, faults,  \* the router and the sketch
  sock,                     \* "none", "open", or "closed" by the router
  running_, stopping, pc,   \* the thread that registers and reads; stop() called
  todo, matched,            \* methods to register; tokens of the answer seen
  buf, progress, stalled,   \* reader_loop()
  heard, cut                \* last message dispatched whole; the stream was cut

router == <<up, registered, requests, faults>>
registering == <<todo, matched>>
thread == <<running_, stopping>>
parser == <<buf, progress, stalled>>
vars == <<router, stream, sock, thread, pc, registering, parser, heard, cut>>

Tagged(m, classes) == [i \in DOMAIN classes |-> <<classes[i], m>>]
Notification(m) == Tagged(m, <<"arr3", "two", "name", "arr1", "head", "body">>)
OddOne(m) == Tagged(m, <<"arr3", "two", "name", "arr1", "odd">>)
Response(m) == Tagged(m, <<"arr4", "one", "one", "nil", "true">>)

Init ==
  /\ up \in BOOLEAN /\ registered = {} /\ requests = <<>> /\ faults = 0
  /\ stream = <<>> /\ sock = "none" /\ running_ = FALSE /\ stopping = FALSE
  /\ pc = "start"
  /\ todo = <<>> /\ matched = 0 /\ buf = <<>> /\ progress = FALSE /\ stalled = 0
  /\ heard = "none" /\ cut = FALSE

(* ---- the router and the sketch ---- *)
Write(tokens) == Len(stream) + Len(tokens) <= MaxStream /\ stream' = stream \o tokens

Answer ==
  /\ sock = "open" /\ requests # <<>>
  /\ requests' = Tail(requests) /\ registered' = registered \cup {Head(requests)}
  /\ Write(Response(Head(requests)))
  /\ UNCHANGED <<up, faults, sock, thread, pc, registering, parser, heard, cut>>

Notify(m) ==
  /\ sock = "open" /\ m \in registered /\ Write(Notification(m))
  /\ UNCHANGED <<router, sock, thread, pc, registering, parser, heard, cut>>

NotifyOdd(m) ==
  /\ sock = "open" /\ m \in registered /\ faults < MaxFaults /\ Write(OddOne(m))
  /\ faults' = faults + 1 /\ cut' = TRUE
  /\ UNCHANGED <<up, registered, requests, sock, thread, pc, registering,
                 parser, heard>>

(* The router goes down; what it had written may arrive in part.           *)
Lose ==
  /\ up /\ faults < MaxFaults
  /\ up' = FALSE /\ faults' = faults + 1 /\ cut' = TRUE
  /\ sock' = IF sock = "open" THEN "closed" ELSE sock
  /\ \E k \in 0 .. Len(stream) : stream' = SubSeq(stream, 1, k)
  /\ registered' = {} /\ requests' = <<>>
  /\ UNCHANGED <<thread, pc, registering, parser, heard>>

ComeUp ==
  /\ ~up /\ up' = TRUE
  /\ UNCHANGED <<registered, requests, faults, stream, sock, thread, pc,
                 registering, parser, heard, cut>>

(* ---- start() and connect_socket() ---- *)
Connect ==
  /\ up /\ sock = "none"
  /\ sock' = "open" /\ todo' = Methods /\ matched' = 0 /\ pc' = "register"
  /\ UNCHANGED <<router, stream, thread, parser, heard, cut>>

Start == pc = "start" /\ Connect

(* The reader thread is not even started.                                  *)
StartFails ==
  /\ pc = "start" /\ ~up /\ pc' = "off"
  /\ UNCHANGED <<router, stream, sock, thread, registering, parser, heard, cut>>

(* A slip: a new connection is taken to know the methods.                  *)
ReconnectOnly ==
  /\ pc = "loop" /\ running_ /\ up /\ sock = "none" /\ sock' = "open"
  /\ UNCHANGED <<router, stream, thread, pc, registering, parser, heard, cut>>
Reconnect == pc = "loop" /\ running_ /\ Connect

(* ---- register_method(), one method after the other ---- *)
RegisterSend ==
  /\ pc = "register" /\ todo # <<>> /\ pc' = "answer" /\ matched' = 0
  /\ requests' = IF sock = "open" THEN Append(requests, Head(todo)) ELSE requests
  /\ UNCHANGED <<up, registered, faults, stream, sock, thread, todo, parser,
                 heard, cut>>

(* An answer is recognised only if it is the first thing to arrive: a      *)
(* notification before it is taken for the answer and read to no end.      *)
Never == 9
Matches(token) ==
  matched < 5 /\ token[1] = Response(token[2])[matched + 1][1]

RegisterRead ==
  /\ pc = "answer" /\ stream # <<>> /\ stream' = Tail(stream)
  /\ IF Matches(Head(stream))
     THEN matched' = matched + 1 /\ UNCHANGED cut
     ELSE matched' = Never /\ cut' = TRUE
  /\ IF matched' = 5 THEN pc' = "register" /\ todo' = Tail(todo)
     ELSE UNCHANGED <<pc, todo>>
  /\ UNCHANGED <<router, sock, thread, parser, heard>>

(* The 3 s pass, or the connection is closed.  What was read is gone, and  *)
(* the stream goes on wherever it was.                                     *)
RegisterGivesUp ==
  /\ pc = "answer" /\ pc' = "register" /\ todo' = Tail(todo) /\ cut' = TRUE
  /\ UNCHANGED <<router, stream, sock, thread, matched, parser, heard>>
(* A slip: no deadline.                                                    *)
RegisterEndless == sock = "closed" /\ stream = <<>> /\ RegisterGivesUp
Unanswered == RegisterGivesUp

Registered ==
  /\ pc = "register" /\ todo = <<>> /\ pc' = "loop" /\ running_' = ~stopping
  /\ UNCHANGED <<router, stream, sock, stopping, registering, parser, heard, cut>>

(* ---- reader_loop() ---- *)
Read ==
  /\ pc = "loop" /\ running_ /\ sock # "none"
  /\ \E k \in 1 .. Len(stream) :
       buf' = buf \o SubSeq(stream, 1, k) /\ stream' = SubSeq(stream, k + 1, Len(stream))
  /\ progress' = FALSE /\ pc' = "parse" /\ heard' = "none"
  /\ UNCHANGED <<router, sock, thread, registering, stalled, cut>>

(* The buffer is kept for the next connection.                             *)
EndOfStream ==
  /\ pc = "loop" /\ running_ /\ sock = "closed" /\ stream = <<>> /\ sock' = "none"
  /\ UNCHANGED <<router, stream, thread, pc, registering, parser, heard, cut>>

(* ---- try_parse_message(): tokens used, 0 for "incomplete" ---- *)
At(i) == IF i <= Len(buf) THEN buf[i][1] ELSE "end"
ArrayLength == [arr1 |-> 1, arr3 |-> 3, arr4 |-> 4]
Arrays == DOMAIN ArrayLength
Ints == {"one", "two", "body"}      \* the rest of a value may look like anything

ParamEnd(i) ==
  CASE At(i) \in Ints \cup {"name"} -> i + 1
    [] At(i) = "head" /\ At(i + 1) # "end" -> i + 2
    [] OTHER -> 0
ParamsEnd(n) ==
  LET end[k \in 0 .. n] ==
        IF k = 0 THEN 5 ELSE IF end[k - 1] = 0 THEN 0 ELSE ParamEnd(end[k - 1])
  IN  end[n]

ResponseUsed == IF At(3) \in Ints /\ At(5) # "end" THEN 5 ELSE 0
NotificationUsed ==
  CASE At(2) \notin Ints -> 0
    [] At(2) \in Ints \ {"two"} -> 2
    [] At(2) = "two" /\ (At(3) # "name" \/ At(4) = "end") -> 0
    [] At(2) = "two" /\ At(3) = "name" /\ At(4) \notin Arrays \cup {"end"} -> 4
    [] OTHER -> LET end == ParamsEnd(ArrayLength[At(4)])
                IN  IF end = 0 THEN 0 ELSE end - 1
Used ==
  CASE At(1) = "end" -> 0
    [] At(1) = "arr4" -> ResponseUsed
    [] At(1) = "arr3" -> NotificationUsed
    [] OTHER -> 1

Taken == SubSeq(buf, 1, Used)

ParseOne ==
  /\ pc = "parse" /\ Used > 0
  /\ buf' = SubSeq(buf, Used + 1, Len(buf)) /\ progress' = TRUE
  /\ heard' = IF Taken \in {Notification(m) : m \in ToSet(Methods)} THEN Taken[1][2]
              ELSE heard
  /\ UNCHANGED <<router, stream, sock, thread, pc, registering, stalled, cut>>

(* A slip: either limit is enough to drop the buffer.                      *)
DropEither(n) == Len(buf) > MaxBuffer \/ n > MaxStalled
Drop(n) == Len(buf) > MaxBuffer /\ n > MaxStalled

ParseEnd ==
  /\ pc = "parse" /\ Used = 0 /\ pc' = "loop"
  /\ LET n == IF progress THEN 0 ELSE IF buf # <<>> THEN stalled + 1 ELSE stalled
     IN  /\ buf' = IF Drop(n) THEN <<>> ELSE buf
         /\ stalled' = IF Drop(n) THEN 0 ELSE n
  /\ UNCHANGED <<router, stream, sock, thread, registering, progress, heard, cut>>

(* ---- stop(), of a client that was constructed, joins the reader ---- *)
Stop ==
  /\ running_ \/ pc = "off"
  /\ running_' = FALSE /\ stopping' = TRUE
  /\ UNCHANGED <<router, stream, sock, pc, registering, parser, heard, cut>>

Stopped ==
  /\ stopping /\ pc \in {"loop", "off"} /\ pc' = "stopped" /\ sock' = "none"
  /\ UNCHANGED <<router, stream, thread, registering, parser, heard, cut>>

Reader == \/ Start \/ StartFails \/ Reconnect
          \/ RegisterSend \/ RegisterRead \/ Registered
          \/ Read \/ EndOfStream \/ ParseOne \/ ParseEnd \/ Stopped
Sketch == \E m \in ToSet(Methods) : Notify(m) \/ NotifyOdd(m)
Next == \/ Answer \/ Sketch \/ Lose \/ ComeUp
        \/ Reader \/ Unanswered \/ Stop

(* The threads run, deadlines pass, the router answers and lets every      *)
(* method's messages through.                                              *)
Spec ==
  /\ Init /\ [][Next]_vars
  /\ WF_vars(Reader) /\ WF_vars(Unanswered) /\ SF_vars(Answer)
  /\ \A i \in DOMAIN Methods : SF_vars(Notify(Methods[i]))

-----------------------------------------------------------------------------
(* As long as nothing was cut away or odd, the parser stays on the frames  *)
(* whatever the reads split: it takes whole messages and nothing else.     *)
StaysOnFrames ==
  [][pc = "parse" /\ Used > 0 /\ ~cut
     => \E m \in ToSet(Methods) : Taken \in {Notification(m), Response(m)}]_vars

(* Once the router stays up, the messages of every method are heard again  *)
(* and again: all are registered on the connection, and a parser thrown off*)
(* by a cut or an odd value finds the frames again.  A client whose first  *)
(* connection failed is excepted: it never tries again.                    *)
HearsAgain ==
  <>[](up /\ running_)
    => \A i \in DOMAIN Methods : []<>(heard = Methods[i])

(* A registration, which holds sock_mutex_ so that every servo command     *)
(* waits behind it, ends, and stop(), which joins the reader, returns,     *)
(* whatever the router leaves unanswered.                                  *)
NobodyHangs ==
  /\ pc = "answer" ~> pc = "loop"
  /\ stopping ~> pc = "stopped"
=============================================================================
