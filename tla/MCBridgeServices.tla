-------------------------- MODULE MCBridgeServices --------------------------
(***************************************************************************)
(* HardwareBridge, and with it BridgeServices, on small instances          *)
(* (BridgeAnswers.cfg), and what the API documentation says of             *)
(* ~/servo_diag that it does not do.                                       *)
(***************************************************************************)
EXTENDS HardwareBridge

(* "success: true if test completed, false if timeout" (API.md:262).  The  *)
(* report of a call that has timed out counts as that of the next one.     *)
DiagSuccessMeansCompleted ==
  \A c \in 1 .. Len(answers) :
    answers[c].kind = "diag" /\ answers[c].success => answers[c].result.of = c
=============================================================================
