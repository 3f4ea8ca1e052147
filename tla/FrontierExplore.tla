-------------------------- MODULE FrontierExplore --------------------------
(***************************************************************************)
(* scripts/frontier_explore.py against the NavigateToPose action server:   *)
(* the explorer sends a goal at a time, to the frontier nearest to the     *)
(* robot that is not near a failed one, watches it, gives up when the robot*)
(* is stuck or the goal is overdue, and returns to its start at the end.   *)
(* Places are points of a corridor.  Time is left out: a time-out may pass *)
(* at any moment, and passes in the end.  The server handles requests in   *)
(* the order they were sent; a goal it accepts preempts the one before.    *)
(***************************************************************************)
EXTENDS Integers, Sequences, FiniteSets

CONSTANTS Places, Home,         \* of the corridor, where the robot starts
          Seen,                 \* frontiers of the first map
          Reveals,              \* what becomes a frontier when one is reached
          blacklist_radius,
          MaxGoals              \* bound on the goals the budget allows

ASSUME ExploreAssumption ==
  /\ Places \subseteq Int /\ Home \in Places /\ Seen \subseteq Places
  /\ Reveals \in [Places -> SUBSET Places]
  /\ blacklist_radius \in Nat /\ MaxGoals \in Nat \ {0}

VARIABLES pc, start, blacklist, spent, returning,   \* run() and goto()
          map,                          \* <<>>, or the frontiers of the last map received
          goals,                        \* every goal sent, with its state at the server
          abandoned, cancelling,        \* gave up waiting for an answer; cancel sent
          robot, tf, open               \* the world: its pose, whether TF knows it

explorer == <<pc, start, blacklist, spent, returning>>
server == <<goals, abandoned, cancelling>>
world == <<robot, tf, open>>
vars == <<explorer, map, server, world>>

Running == pc # "exit"
Last == Len(goals)
State(g) == goals[g].state
Done == {"succeeded", "aborted", "cancelled"}
Apart(a, b) == IF a < b THEN b - a ELSE a - b

Init ==
  /\ pc = "server" /\ start = Home /\ robot = Home
  /\ blacklist = {} /\ spent = FALSE /\ returning = FALSE
  /\ map = <<>> /\ goals = <<>> /\ abandoned = {} /\ cancelling = {}
  /\ tf \in BOOLEAN /\ open = Seen

(* ---- run() ---- *)
WaitForServer ==
  /\ pc = "server" /\ pc' \in {"map", "exit"}
  /\ UNCHANGED <<start, blacklist, spent, returning, map, server, world>>

WaitForMap ==
  /\ pc = "map" /\ map # <<>> /\ pc' = "pose"
  /\ UNCHANGED <<start, blacklist, spent, returning, map, server, world>>

WaitForPose ==
  /\ pc = "pose" /\ tf
  /\ pc' = "loop" /\ start' = robot
  /\ UNCHANGED <<blacklist, spent, returning, map, server, world>>

(* robot_xy() or start: without TF the robot counts as being at its start. *)
Here == IF tf THEN robot ELSE start

Candidates ==
  {f \in map[1] : \A b \in blacklist : Apart(f, b) >= blacklist_radius}
Nearest(f) ==
  \A c \in Candidates :
    \/ Apart(f, Here) < Apart(c, Here)
    \/ Apart(f, Here) = Apart(c, Here) /\ f <= c

Send(place) ==
  /\ goals' = Append(goals, [at |-> place, state |-> "request"])
  /\ pc' = "sending"
  /\ UNCHANGED <<start, blacklist, spent, map, abandoned, cancelling, world>>

PickGoal ==
  /\ pc = "loop" /\ ~spent /\ Last + 1 < MaxGoals
  /\ \E f \in Candidates : Nearest(f) /\ Send(f)
  /\ UNCHANGED returning

(* No candidate left, or the budget spent.                                 *)
GoBack ==
  /\ pc = "loop" /\ (spent \/ Candidates = {})
  /\ returning' = TRUE /\ Send(start)

BudgetPasses ==
  /\ pc \in {"loop", "sending", "watch"} /\ ~spent /\ spent' = TRUE
  /\ UNCHANGED <<pc, start, blacklist, returning, map, server, world>>

(* ---- goto() ---- *)
(* A slip: goto() leaves, run() keeps the place in play.                   *)
LeaveAndForget(ok) ==
  /\ pc' = IF returning THEN "exit" ELSE "loop"
  /\ UNCHANGED <<start, blacklist, spent, returning, map, world>>

(* goto() returns; run() blacklists the place unless it was reached.       *)
Leave(ok) ==
  /\ pc' = IF returning THEN "exit" ELSE "loop"
  /\ blacklist' = IF ok \/ returning THEN blacklist ELSE blacklist \cup {goals[Last].at}
  /\ UNCHANGED <<start, spent, returning, map, world>>

Accepted ==
  /\ pc = "sending" /\ State(Last) \notin {"request", "rejected"}
  /\ pc' = "watch"
  /\ UNCHANGED <<start, blacklist, spent, returning, map, server, world>>

Refused ==
  /\ pc = "sending" /\ State(Last) = "rejected" /\ Leave(FALSE)
  /\ UNCHANGED server

(* A slip: an answer that did not come is taken for an acceptance.         *)
NoAnswerWatched ==
  /\ pc = "sending" /\ pc' = "watch"
  /\ UNCHANGED <<start, blacklist, spent, returning, map, server, world>>

(* No answer within 15 s.  The goal is not cancelled: there is no handle.  *)
NoAnswer ==
  /\ pc = "sending" /\ Leave(FALSE)
  /\ abandoned' = abandoned \cup {Last}
  /\ UNCHANGED <<goals, cancelling>>

ResultSeen ==
  /\ pc = "watch" /\ State(Last) \in Done
  /\ Leave(State(Last) = "succeeded")
  /\ UNCHANGED server

(* A slip: the goal is given up but not cancelled.                         *)
CancelNot == Leave(FALSE) /\ UNCHANGED server
Cancel ==
  /\ cancelling' = cancelling \cup {Last} /\ Leave(FALSE)
  /\ UNCHANGED <<goals, abandoned>>

(* The watchdog needs a pose; the deadline does not.  Both are looked at   *)
(* after a spin that may have brought the result.                          *)
Stuck == pc = "watch" /\ tf /\ Cancel
OverdueWithPose == pc = "watch" /\ tf /\ Cancel     \* a slip
Overdue == pc = "watch" /\ Cancel

(* ---- callbacks of spin_once ---- *)
OnMap ==
  /\ Running /\ map # <<open>> /\ map' = <<open>>
  /\ UNCHANGED <<explorer, server, world>>

(* ---- the action server, Nav2 and the robot ---- *)
Turn(g) == \A h \in 1 .. g - 1 : State(h) # "request"

Accept(g) ==
  /\ State(g) = "request" /\ Turn(g)
  /\ goals' = [h \in DOMAIN goals |->
                 CASE h = g -> [goals[h] EXCEPT !.state = "live"]
                   [] State(h) = "live" -> [goals[h] EXCEPT !.state = "aborted"]
                   [] OTHER -> goals[h]]
  /\ UNCHANGED <<explorer, map, abandoned, cancelling, world>>

Reject(g) ==
  /\ State(g) = "request" /\ Turn(g)
  /\ goals' = [goals EXCEPT ![g].state = "rejected"]
  /\ UNCHANGED <<explorer, map, abandoned, cancelling, world>>

CancelArrives(g) ==
  /\ g \in cancelling /\ cancelling' = cancelling \ {g}
  /\ goals' = IF State(g) = "live" THEN [goals EXCEPT ![g].state = "cancelled"]
              ELSE goals
  /\ UNCHANGED <<explorer, map, abandoned, world>>

(* A frontier that is reached may stay one: the lidar did not see past it. *)
Arrive(g) ==
  /\ State(g) = "live"
  /\ goals' = [goals EXCEPT ![g].state = "succeeded"] /\ robot' = goals[g].at
  /\ open' \in {open, (open \ {robot'}) \cup Reveals[robot']}
  /\ UNCHANGED <<explorer, map, abandoned, cancelling, tf>>

Abort(g) ==
  /\ State(g) = "live"
  /\ goals' = [goals EXCEPT ![g].state = "aborted"] /\ robot' \in {robot, goals[g].at}
  /\ UNCHANGED <<explorer, map, abandoned, cancelling, tf, open>>

TfChanges ==
  /\ Running /\ tf' = ~tf
  /\ UNCHANGED <<explorer, map, server, robot, open>>

Run == WaitForServer \/ WaitForMap \/ WaitForPose \/ PickGoal \/ GoBack
Answer == Accepted \/ Refused \/ NoAnswer
Result == ResultSeen \/ Overdue
Serve == \E g \in DOMAIN goals : Accept(g) \/ Reject(g) \/ CancelArrives(g)
Nav == \E g \in DOMAIN goals : Arrive(g) \/ Abort(g)
Next == \/ Run \/ BudgetPasses \/ Answer \/ Result \/ Stuck
        \/ OnMap \/ Serve \/ Nav \/ TfChanges

(* The explorer runs, its time-outs pass, maps are delivered and the server*)
(* answers.  That a goal ends is not assumed.                              *)
Fairness ==
  /\ WF_vars(Run) /\ WF_vars(BudgetPasses) /\ WF_vars(Answer) /\ WF_vars(Result)
  /\ WF_vars(OnMap) /\ WF_vars(Serve)
Spec == Init /\ [][Next]_vars /\ Fairness

-----------------------------------------------------------------------------
(* Types, and: only the last goal is waited for or watched, at most one    *)
(* goal is live, and what is cancelled or abandoned was sent.              *)
TypeOK ==
  /\ pc \in {"server", "map", "pose", "loop", "sending", "watch", "exit"}
  /\ start \in Places /\ blacklist \subseteq Places
  /\ spent \in BOOLEAN /\ returning \in BOOLEAN
  /\ map = <<>> \/ map[1] \subseteq Places
  /\ goals \in Seq([at : Places, state : Done \cup {"request", "live", "rejected"}])
  /\ Len(goals) <= MaxGoals
  /\ abandoned \subseteq DOMAIN goals /\ cancelling \subseteq DOMAIN goals
  /\ \A g, h \in DOMAIN goals : State(g) = "live" /\ State(h) = "live" => g = h
  /\ pc = "watch" => State(Last) \notin {"request", "rejected"}
  /\ robot \in Places /\ tf \in BOOLEAN /\ open \subseteq Places

(* A failed goal costs one goal: when an exploration goal that the server  *)
(* has not brought to success is behind, no goal goes near that place      *)
(* again, whatever maps, poses and late answers come in between.           *)
FailsOnce ==
  \A g, h \in DOMAIN goals :
    /\ g < h /\ (h < Last \/ ~returning)
    /\ State(g) # "succeeded"
    => Apart(goals[g].at, goals[h].at) >= blacklist_radius

(* Exploration ends once it has begun, even if Nav2 never finishes a goal, *)
(* never answers one, and the pose is lost.                                *)
Ends == pc = "loop" ~> pc = "exit"

(* No goal keeps the robot moving after the explorer is gone, unless an    *)
(* answer came too late for the explorer to have a handle.                 *)
QuietAfterExit ==
  pc = "exit" /\ abandoned = {} ~> \A g \in DOMAIN goals : State(g) # "live"
=============================================================================
