---------------------------- MODULE ServoDisplay ----------------------------
(***************************************************************************)
(* What the servo path promises whoever sends it poses, without its        *)
(* threads, buffers, flags and retries: the poses are numbered as they     *)
(* come, and each channel shows them in that order.  It may pass poses     *)
(* over and show one again, but having shown a pose it never goes back to  *)
(* an older one, not even when the pattern of a diagnostic, a power loss or*)
(* a count that is nobody's came in between.  Such a count appears only    *)
(* while an address scan is in progress.                                   *)
(***************************************************************************)
EXTENDS Integers

CONSTANTS Channels, Off, TestPose, Mixed

VARIABLES latest,   \* the last pose accepted
          newest,   \* per channel: nothing older is shown any more
          shown,    \* per channel: what the servo gets
          scanning  \* an address scan is in progress

vars == <<latest, newest, shown, scanning>>

Init ==
  /\ latest = 0 /\ scanning = FALSE
  /\ newest = [c \in Channels |-> 0] /\ shown = [c \in Channels |-> Off]

Accept == latest' = latest + 1 /\ UNCHANGED <<newest, shown, scanning>>

Scan == scanning' = ~scanning /\ UNCHANGED <<latest, newest, shown>>

(* Any channel may pass poses over at any time.                            *)
PassOver ==
  /\ newest' \in [Channels -> 0 .. latest]
  /\ \A c \in Channels : newest'[c] >= newest[c]
  /\ UNCHANGED <<latest, scanning>>

Show(c) == PassOver /\ shown' = [shown EXCEPT ![c] = newest'[c]]
Test(c) == PassOver /\ shown' = [shown EXCEPT ![c] = TestPose]
LosePower == PassOver /\ shown' = [c \in Channels |-> Off]

(* The scan garbles some channels and lets others keep or get their pose.  *)
Garble ==
  /\ scanning /\ PassOver
  /\ shown' \in [Channels -> {Off, TestPose, Mixed} \cup 0 .. latest]
  /\ \A c \in Channels : shown'[c] \in {shown[c], newest'[c], TestPose, Mixed}

Next ==
  \/ Accept \/ Scan
  \/ PassOver /\ UNCHANGED shown
  \/ \E c \in Channels : Show(c) \/ Test(c)
  \/ LosePower \/ Garble

Spec == Init /\ [][Next]_vars
=============================================================================
