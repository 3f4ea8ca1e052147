----------------------- MODULE FrontierExploreProofs -----------------------
(***************************************************************************)
(* Proofs about FrontierExplore, for any places, frontiers, radius and     *)
(* number of goals.                                                        *)
(***************************************************************************)
EXTENDS FrontierExplore, SequenceTheorems, TLAPS

Goal == [at : Places, state : Done \cup {"request", "live", "rejected"}]

(* A distance has no direction.                                            *)
LEMMA ApartSymmetric ==
  ASSUME NEW a \in Int, NEW b \in Int
  PROVE  Apart(a, b) = Apart(b, a)
BY DEF Apart

(* Where the explorer is in its script: a goal is watched only if there is *)
(* one, it returns only once, and one goal of the bound is kept for that.  *)
Script ==
  /\ pc \in {"server", "map", "pose"} => goals = <<>>
  /\ pc \in {"sending", "watch"} => Last > 0
  /\ returning => pc \in {"sending", "watch", "exit"}
  /\ ~returning => Last < MaxGoals
  /\ pc \in {"pose", "loop", "sending", "watch"} => map # <<>>

(* An exploration goal that is behind and has not succeeded is blacklisted.*)
FailedAreListed ==
  \A g \in DOMAIN goals :
    (g < Last \/ pc = "loop") /\ State(g) # "succeeded" => goals[g].at \in blacklist

IInv == TypeOK /\ Script /\ FailedAreListed /\ FailsOnce

(* What the server may do to the goals: it changes states, of which the    *)
(* final ones stay, an answer stays an answer and one goal at most is live.*)
Progressed ==
  /\ goals' \in Seq(Goal) /\ Len(goals') = Len(goals)
  /\ \A g \in DOMAIN goals :
       /\ goals'[g].at = goals[g].at
       /\ State(g) \in Done \cup {"rejected"} => goals'[g].state = State(g)
       /\ State(g) \notin {"request", "rejected"} =>
            goals'[g].state \notin {"request", "rejected"}
  /\ \A g, h \in DOMAIN goals :
       goals'[g].state = "live" /\ goals'[h].state = "live" => g = h

LEMMA GoalFunction ==
  ASSUME goals \in Seq(Goal)
  PROVE  /\ DOMAIN goals = 1 .. Last /\ Last \in Nat
         /\ \A g \in DOMAIN goals : goals[g] \in Goal
BY DEF Last

(* One goal changes its state, as the server may change it.                *)
LEMMA OneChanges ==
  ASSUME TypeOK, NEW g \in DOMAIN goals, NEW new \in Done \cup {"live", "rejected"},
         goals' = [goals EXCEPT ![g].state = new],
         State(g) \in {"request", "live"}, new = "rejected" => State(g) = "request",
         new # "live"
  PROVE  Progressed
<1>1. /\ DOMAIN goals = 1 .. Last /\ Last \in Nat /\ Last = Len(goals)
      /\ \A h \in DOMAIN goals : goals[h] \in Goal
  BY GoalFunction DEF TypeOK, Goal, Last
<1>2. goals' = [h \in 1 .. Last |->
                  IF h = g THEN [goals[g] EXCEPT !.state = new] ELSE goals[h]]
  BY <1>1
<1>3. \A h \in DOMAIN goals :
        goals'[h] \in Goal /\ goals'[h].at = goals[h].at
        /\ goals'[h].state = IF h = g THEN new ELSE State(h)
  BY <1>1, <1>2 DEF Goal, State
<1>4. goals' \in Seq(Goal) /\ Len(goals') = Last
  <2>1. goals' \in [1 .. Last -> Goal]
    BY <1>1, <1>2, <1>3
  <2> QED BY <1>1, <2>1, IsASeq
<1>5. \A h, k \in DOMAIN goals :
        State(h) = "live" /\ State(k) = "live" => h = k
  BY DEF TypeOK
<1> QED BY <1>1, <1>3, <1>4, <1>5 DEF Progressed, Done, State

LEMMA Final == {"succeeded", "aborted", "cancelled"} \subseteq Done
BY DEF Done

LEMMA ServerProgress ==
  ASSUME TypeOK, NEW g \in DOMAIN goals,
         Accept(g) \/ Reject(g) \/ CancelArrives(g) \/ Arrive(g) \/ Abort(g)
  PROVE  Progressed
<1>1. CASE Accept(g)
  <2>1. /\ DOMAIN goals = 1 .. Last /\ Last \in Nat /\ Last = Len(goals)
        /\ \A h \in DOMAIN goals : goals[h] \in Goal
    BY GoalFunction DEF TypeOK, Goal, Last
  <2>2. State(g) = "request"
        /\ \A h \in DOMAIN goals :
             goals'[h] = IF h = g THEN [goals[h] EXCEPT !.state = "live"]
                         ELSE IF State(h) = "live"
                              THEN [goals[h] EXCEPT !.state = "aborted"]
                              ELSE goals[h]
    BY <1>1 DEF Accept
  <2>3. \A h \in DOMAIN goals :
          goals'[h] \in Goal /\ goals'[h].at = goals[h].at
          /\ goals'[h].state = IF h = g THEN "live"
                               ELSE IF State(h) = "live" THEN "aborted" ELSE State(h)
    BY <2>1, <2>2 DEF Goal, State, Done
  <2>4. goals' \in Seq(Goal) /\ Len(goals') = Last
    BY <1>1, <2>1, <2>3 DEF Accept
  <2> QED BY <2>1, <2>2, <2>3, <2>4 DEF Progressed, State, Done
<1>2. CASE Reject(g)
  BY <1>2, OneChanges DEF Reject
<1>3. CASE CancelArrives(g)
  <2>1. CASE State(g) = "live"
    <3>1. goals' = [goals EXCEPT ![g].state = "cancelled"]
      BY <1>3, <2>1 DEF CancelArrives
    <3> QED BY <2>1, <3>1, Final, OneChanges
  <2>2. CASE State(g) # "live"
    BY <1>3, <2>2, GoalFunction DEF CancelArrives, Progressed, TypeOK, Goal, State
  <2> QED BY <2>1, <2>2
<1>4. CASE Arrive(g)
  <2>1. State(g) = "live" /\ goals' = [goals EXCEPT ![g].state = "succeeded"]
    BY <1>4 DEF Arrive
  <2> QED BY <2>1, Final, OneChanges
<1>5. CASE Abort(g)
  <2>1. State(g) = "live" /\ goals' = [goals EXCEPT ![g].state = "aborted"]
    BY <1>5 DEF Abort
  <2> QED BY <2>1, Final, OneChanges
<1> QED BY <1>1, <1>2, <1>3, <1>4, <1>5

-----------------------------------------------------------------------------
(* Whatever the server does, the explorer's invariant stands.              *)
LEMMA ServerStep ==
  ASSUME IInv, Progressed, UNCHANGED <<explorer, map, abandoned>>,
         cancelling' \subseteq cancelling, robot' \in Places,
         tf' \in BOOLEAN, open' \subseteq Places
  PROVE  IInv'
<1>1. /\ DOMAIN goals = 1 .. Last /\ DOMAIN goals' = 1 .. Last
      /\ Last \in Nat /\ Last' = Last /\ goals' \in Seq(Goal)
      /\ goals = <<>> => goals' = <<>>
  BY GoalFunction DEF IInv, TypeOK, Progressed, Goal, Last
<1>2. TypeOK'
  <2>1. pc = "watch" => Last \in DOMAIN goals
    BY <1>1 DEF IInv, Script
  <2> QED BY <1>1, <2>1 DEF IInv, TypeOK, Progressed, Goal, State, explorer, Last
<1>3. Script'
  BY <1>1 DEF IInv, Script, explorer
<1>4. \A g \in DOMAIN goals : State(g)' # "succeeded" => State(g) # "succeeded"
  BY DEF Progressed, State, Done
<1>5. FailedAreListed'
  BY <1>1, <1>4 DEF IInv, FailedAreListed, Progressed, explorer
<1>6. FailsOnce'
  BY <1>1, <1>4 DEF IInv, FailsOnce, Progressed, explorer
<1> QED BY <1>2, <1>3, <1>5, <1>6 DEF IInv

(* goto() returns: a place that was not reached is listed.                 *)
LEMMA LeaveStep ==
  ASSUME IInv, NEW ok \in BOOLEAN, Leave(ok), pc \in {"sending", "watch"},
         ok => State(Last) = "succeeded", goals' = goals,
         abandoned' \subseteq DOMAIN goals, cancelling' \subseteq DOMAIN goals
  PROVE  IInv'
<1>1. /\ DOMAIN goals = 1 .. Last /\ Last \in DOMAIN goals /\ Last' = Last
      /\ goals[Last].at \in Places
  BY GoalFunction DEF IInv, TypeOK, Goal, Script, Last
<1>2. TypeOK'
  BY <1>1 DEF IInv, TypeOK, Leave, world, State
<1>3. Script'
  BY <1>1 DEF IInv, Script, Leave
<1>4. blacklist \subseteq blacklist'
  BY DEF Leave
<1>5. pc' = "loop" /\ State(Last) # "succeeded" => goals[Last].at \in blacklist'
  BY DEF Leave
<1>6. FailedAreListed'
  BY <1>1, <1>4, <1>5 DEF IInv, FailedAreListed, State
<1>7. FailsOnce'
  BY <1>1 DEF IInv, FailsOnce, Leave, State
<1> QED BY <1>2, <1>3, <1>6, <1>7 DEF IInv

(* A goal is sent at one end of the list.                                  *)
LEMMA Sent ==
  ASSUME TypeOK, NEW place \in Places, Send(place)
  PROVE  /\ goals' \in Seq(Goal) /\ Last' = Last + 1 /\ DOMAIN goals' = 1 .. Last + 1
         /\ \A g \in 1 .. Last : goals'[g] = goals[g]
         /\ goals'[Last + 1] = [at |-> place, state |-> "request"]
<1>1. goals \in Seq(Goal) /\ [at |-> place, state |-> "request"] \in Goal
  BY DEF TypeOK, Goal
<1> QED BY <1>1, AppendProperties DEF Send, Last

LEMMA SentTyped ==
  ASSUME IInv, NEW place \in Places, Send(place), pc = "loop", returning' \in BOOLEAN
  PROVE  TypeOK'
<1>1. /\ goals' \in Seq(Goal) /\ Last' = Last + 1 /\ DOMAIN goals' = 1 .. Last + 1
      /\ \A g \in 1 .. Last : goals'[g] = goals[g]
      /\ goals'[Last + 1] = [at |-> place, state |-> "request"]
  BY Sent DEF IInv
<1>2. DOMAIN goals = 1 .. Last /\ Last \in Nat
  BY GoalFunction DEF IInv, TypeOK, Goal
<1>3. Len(goals') <= MaxGoals
  BY <1>1, <1>2, ExploreAssumption DEF IInv, Script, Last
<1>4. \A g, h \in DOMAIN goals' : State(g)' = "live" /\ State(h)' = "live" => g = h
  BY <1>1, <1>2 DEF IInv, TypeOK, State
<1> QED BY <1>1, <1>2, <1>3, <1>4 DEF IInv, TypeOK, Send, Goal, world

(* Every step preserves the invariant.                                     *)
LEMMA Step == IInv /\ [Next]_vars => IInv'
<1> SUFFICES ASSUME IInv, [Next]_vars PROVE IInv'
  OBVIOUS
<1>t. /\ DOMAIN goals = 1 .. Last /\ Last \in Nat /\ goals \in Seq(Goal)
      /\ \A g \in DOMAIN goals : goals[g] \in Goal
  BY GoalFunction DEF IInv, TypeOK, Goal
<1>1. CASE WaitForServer \/ WaitForMap \/ WaitForPose
  <2>1. UNCHANGED <<blacklist, spent, returning, map, server, world>>
        /\ start' \in Places /\ pc' \in {"map", "exit", "pose", "loop"}
        /\ (pc' \in {"pose", "loop"} => map # <<>>) /\ goals = <<>> /\ ~returning
    BY <1>1 DEF WaitForServer, WaitForMap, WaitForPose, IInv, TypeOK, Script
  <2>2. goals' = <<>> /\ DOMAIN goals = {} /\ DOMAIN goals' = {} /\ Last' = Last
    BY <2>1 DEF server, Last
  <2>3. TypeOK'
    BY <2>1, <2>2 DEF IInv, TypeOK, server, world, Last
  <2>4. Script'
    BY <2>1, <2>2 DEF IInv, Script
  <2> QED BY <2>2, <2>3, <2>4 DEF IInv, FailedAreListed, FailsOnce
<1>2. CASE PickGoal
  <2>1. PICK f \in Candidates : Send(f)
    BY <1>2 DEF PickGoal
  <2>2. pc = "loop" /\ returning' = returning /\ ~returning /\ Last + 1 < MaxGoals
        /\ f \in Places /\ blacklist' = blacklist
    BY <1>2, <2>1 DEF PickGoal, Candidates, IInv, TypeOK, Script, Send
  <2>3. /\ Last' = Last + 1 /\ DOMAIN goals' = 1 .. Last + 1
        /\ \A g \in 1 .. Last : goals'[g] = goals[g]
        /\ goals'[Last + 1] = [at |-> f, state |-> "request"]
    BY <2>1, <2>2, Sent DEF IInv
  <2>4. TypeOK'
    BY <2>1, <2>2, SentTyped DEF IInv, TypeOK
  <2>5. Script'
    BY <1>t, <2>1, <2>2, <2>3 DEF Script, Send, IInv
  <2>6. FailedAreListed'
    BY <1>t, <2>1, <2>2, <2>3 DEF IInv, FailedAreListed, Send, State
  <2>7. \A g \in 1 .. Last : State(g) # "succeeded" =>
          Apart(goals[g].at, f) >= blacklist_radius
    <3>1. SUFFICES ASSUME NEW g \in 1 .. Last, State(g) # "succeeded"
                   PROVE  Apart(goals[g].at, f) >= blacklist_radius
      OBVIOUS
    <3>2. goals[g].at \in blacklist /\ goals[g].at \in Int /\ f \in Int
      BY <1>t, <2>2, <3>1, ExploreAssumption DEF IInv, FailedAreListed, Goal
    <3>3. Apart(f, goals[g].at) >= blacklist_radius
      BY <2>1, <3>2 DEF Candidates
    <3> QED BY <3>2, <3>3, ApartSymmetric
  <2>8. FailsOnce'
    BY <1>t, <2>2, <2>3, <2>7 DEF IInv, FailsOnce, State
  <2> QED BY <2>4, <2>5, <2>6, <2>8 DEF IInv
<1>3. CASE GoBack
  <2>1. Send(start) /\ pc = "loop" /\ returning' = TRUE /\ ~returning
        /\ start \in Places /\ blacklist' = blacklist
    BY <1>3 DEF GoBack, IInv, TypeOK, Script, Send
  <2>2. /\ Last' = Last + 1 /\ DOMAIN goals' = 1 .. Last + 1
        /\ \A g \in 1 .. Last : goals'[g] = goals[g]
        /\ goals'[Last + 1] = [at |-> start, state |-> "request"]
    BY <2>1, Sent DEF IInv
  <2>3. TypeOK'
    BY <2>1, SentTyped
  <2>4. Script'
    BY <1>t, <2>1, <2>2 DEF Script, Send, IInv
  <2>5. FailedAreListed'
    BY <1>t, <2>1, <2>2 DEF IInv, FailedAreListed, Send, State
  <2>6. FailsOnce'
    BY <1>t, <2>1, <2>2 DEF IInv, FailsOnce, State
  <2> QED BY <2>3, <2>4, <2>5, <2>6 DEF IInv
<1>4. CASE BudgetPasses \/ OnMap \/ TfChanges
  <2>1. /\ UNCHANGED <<pc, start, blacklist, returning, goals, abandoned, cancelling,
                        robot, open>>
        /\ spent' \in BOOLEAN /\ tf' \in BOOLEAN /\ map' \in {map, <<open>>}
    BY <1>4 DEF BudgetPasses, OnMap, TfChanges, explorer, server, world, IInv, TypeOK
  <2>2. map' = <<>> \/ map'[1] \subseteq Places
    BY <2>1 DEF IInv, TypeOK
  <2>3. TypeOK'
    BY <2>1, <2>2 DEF IInv, TypeOK, State, Last
  <2>4. Script'
    BY <2>1 DEF IInv, Script, Last
  <2>5. FailedAreListed' /\ FailsOnce'
    BY <2>1 DEF IInv, FailedAreListed, FailsOnce, State, Last
  <2> QED BY <2>3, <2>4, <2>5 DEF IInv
<1>5. CASE Accepted
  <2>1. /\ pc = "sending" /\ pc' = "watch" /\ State(Last) \notin {"request", "rejected"}
        /\ UNCHANGED <<start, blacklist, spent, returning, map, goals, abandoned,
                       cancelling, robot, tf, open>>
    BY <1>5 DEF Accepted, server, world
  <2>2. TypeOK'
    BY <2>1 DEF IInv, TypeOK, State, Last
  <2>3. Script'
    BY <2>1 DEF IInv, Script, Last
  <2>4. FailedAreListed' /\ FailsOnce'
    BY <2>1 DEF IInv, FailedAreListed, FailsOnce, State, Last
  <2> QED BY <2>2, <2>3, <2>4 DEF IInv
<1>6. CASE Refused \/ NoAnswer \/ ResultSeen \/ Stuck \/ Overdue
  <2>1. pc \in {"sending", "watch"} /\ Last \in DOMAIN goals
    <3>1. pc \in {"sending", "watch"}
      BY <1>6 DEF Refused, NoAnswer, ResultSeen, Stuck, Overdue
    <3> QED BY <3>1, <1>t DEF IInv, Script
  <2>2. goals' = goals /\ abandoned' \subseteq DOMAIN goals
        /\ cancelling' \subseteq DOMAIN goals
    BY <1>6, <2>1 DEF Refused, NoAnswer, ResultSeen, Stuck, Overdue, Cancel, server,
       IInv, TypeOK
  <2>3. Leave(FALSE) \/ (State(Last) = "succeeded" /\ Leave(TRUE))
    BY <1>6 DEF Refused, NoAnswer, ResultSeen, Stuck, Overdue, Cancel, Leave
  <2> QED BY <2>1, <2>2, <2>3, LeaveStep
<1>7. CASE Serve \/ Nav
  <2>1. PICK g \in DOMAIN goals :
          Accept(g) \/ Reject(g) \/ CancelArrives(g) \/ Arrive(g) \/ Abort(g)
    BY <1>7 DEF Serve, Nav
  <2>2. Progressed
    BY <2>1, ServerProgress DEF IInv
  <2>3. UNCHANGED <<explorer, map, abandoned>> /\ cancelling' \subseteq cancelling
        /\ tf' = tf
    BY <2>1 DEF Accept, Reject, CancelArrives, Arrive, Abort, world
  <2>4. goals[g].at \in Places
    BY <1>t DEF Goal
  <2>5. robot' \in Places /\ open' \subseteq Places
    BY <2>1, <2>4, ExploreAssumption
       DEF Accept, Reject, CancelArrives, Arrive, Abort, world, IInv, TypeOK
  <2> QED BY <2>2, <2>3, <2>5, ServerStep DEF IInv, TypeOK
<1>8. CASE UNCHANGED vars
  BY <1>8 DEF vars, explorer, server, world, IInv, TypeOK, Script, FailedAreListed,
     FailsOnce, State, Last
<1> QED BY <1>1, <1>2, <1>3, <1>4, <1>5, <1>6, <1>7, <1>8 DEF Next, Run, Answer, Result

(* The explorer's list, the goals it has sent and the state it is in agree *)
(* at every interleaving with the action server.                           *)
THEOREM Inductive == Spec => []IInv
<1>1. Init => IInv
  <2> SUFFICES ASSUME Init PROVE IInv
    OBVIOUS
  <2>1. goals = <<>> /\ Len(goals) = 0 /\ DOMAIN goals = {} /\ Last = 0
    BY DEF Init, Last
  <2>2. TypeOK
    <3>1. goals \in Seq(Goal) /\ Len(goals) <= MaxGoals
      BY <2>1, ExploreAssumption
    <3> QED BY <2>1, <3>1, ExploreAssumption DEF Init, TypeOK, Goal
  <2>3. Script
    BY <2>1, ExploreAssumption DEF Init, Script
  <2> QED BY <2>1, <2>2, <2>3 DEF IInv, FailedAreListed, FailsOnce
<1> QED BY <1>1, Step, PTL DEF Spec

(* Type correctness, with: one live goal at most.                          *)
THEOREM TypeCorrect == Spec => []TypeOK
<1>1. IInv => TypeOK
  BY DEF IInv
<1> QED BY <1>1, Inductive, PTL

(* A place where a goal failed is not tried again, nor its surroundings.   *)
THEOREM FailedNotRetried == Spec => []FailsOnce
<1>1. IInv => FailsOnce
  BY DEF IInv
<1> QED BY <1>1, Inductive, PTL

-----------------------------------------------------------------------------
(* What the explorer has left behind: a goal it cancels is one the server  *)
(* has accepted, and a goal that is behind is over unless its cancellation *)
(* is on its way or its answer did not come in time.                       *)
Released ==
  /\ \A g \in cancelling : State(g) \notin {"request", "rejected"}
  /\ \A g \in DOMAIN goals \ (abandoned \cup cancelling) :
       g < Last \/ pc \in {"loop", "exit"} => State(g) \in Done \cup {"rejected"}

(* What the server does releases goals and takes none up again: a goal that*)
(* leaves the cancelled ones has been ended by it.                         *)
LEMMA ServerReleases ==
  ASSUME IInv, Released, NEW g \in DOMAIN goals,
         Accept(g) \/ Reject(g) \/ CancelArrives(g) \/ Arrive(g) \/ Abort(g)
  PROVE  Released'
<1>1. /\ DOMAIN goals = 1 .. Last /\ goals \in Seq(Goal)
      /\ \A h \in DOMAIN goals : goals[h] \in Goal
      /\ cancelling \subseteq DOMAIN goals
  BY GoalFunction DEF IInv, TypeOK, Goal
<1>2. Progressed
  BY ServerProgress DEF IInv
<1>3. DOMAIN goals' = DOMAIN goals /\ Last' = Last
  BY <1>1, <1>2 DEF Progressed, Last
<1>4. UNCHANGED <<pc, abandoned>> /\ cancelling' \subseteq cancelling
  BY DEF Accept, Reject, CancelArrives, Arrive, Abort, explorer
<1>5. \A h \in cancelling' : State(h)' \notin {"request", "rejected"}
  BY <1>1, <1>2, <1>4 DEF Released, Progressed, State
<1>6. \A h \in cancelling \ cancelling' : State(h)' \in Done
  <2>1. SUFFICES ASSUME NEW h \in cancelling \ cancelling'
                 PROVE  State(h)' \in Done
    OBVIOUS
  <2>2. h = g /\ CancelArrives(g)
    BY <2>1 DEF Accept, Reject, CancelArrives, Arrive, Abort
  <2>3. State(g) \in Done \cup {"live"}
    BY <1>1, <2>1, <2>2 DEF Released, Goal, State
  <2>4. CASE State(g) = "live"
    BY <1>1, <2>2, <2>4 DEF CancelArrives, State, Done, Goal
  <2>5. CASE State(g) \in Done
    BY <1>2, <2>2, <2>5 DEF Progressed, State
  <2> QED BY <2>3, <2>4, <2>5
<1>7. \A h \in DOMAIN goals' \ (abandoned' \cup cancelling') :
        h < Last' \/ pc' \in {"loop", "exit"} => State(h)' \in Done \cup {"rejected"}
  BY <1>2, <1>3, <1>4, <1>6 DEF Released, Progressed, State
<1> QED BY <1>5, <1>7 DEF Released

LEMMA ReleasedStep == IInv /\ Released /\ [Next]_vars => Released'
<1> SUFFICES ASSUME IInv, Released, [Next]_vars PROVE Released'
  OBVIOUS
<1>t. /\ DOMAIN goals = 1 .. Last /\ Last \in Nat
      /\ \A g \in DOMAIN goals : goals[g] \in Goal
      /\ cancelling \subseteq DOMAIN goals
  BY GoalFunction DEF IInv, TypeOK, Goal
<1>1. CASE WaitForServer \/ WaitForMap \/ WaitForPose
  <2>1. goals = <<>> /\ goals' = goals /\ cancelling' = cancelling
    BY <1>1 DEF WaitForServer, WaitForMap, WaitForPose, IInv, Script, server
  <2> QED BY <1>t, <2>1 DEF Released
<1>2. CASE PickGoal \/ GoBack
  <2>1. PICK f \in Places : Send(f)
    BY <1>2 DEF PickGoal, GoBack, Candidates, IInv, TypeOK, Script
  <2>2. pc = "loop" /\ pc' = "sending" /\ UNCHANGED <<abandoned, cancelling>>
    BY <1>2, <2>1 DEF PickGoal, GoBack, Send
  <2>3. /\ Last' = Last + 1 /\ DOMAIN goals' = 1 .. Last + 1
        /\ \A g \in 1 .. Last : goals'[g] = goals[g]
    BY <2>1, Sent DEF IInv
  <2>4. \A g \in 1 .. Last : State(g)' = State(g)
    BY <2>3 DEF State
  <2> QED BY <1>t, <2>2, <2>3, <2>4 DEF Released
<1>3. CASE BudgetPasses \/ OnMap \/ TfChanges \/ UNCHANGED vars
  <2>1. UNCHANGED <<pc, goals, abandoned, cancelling>>
    BY <1>3 DEF BudgetPasses, OnMap, TfChanges, vars, explorer, server
  <2> QED BY <2>1 DEF Released, State, Last
<1>4. CASE Accepted
  <2>1. pc = "sending" /\ pc' = "watch" /\ UNCHANGED <<goals, abandoned, cancelling>>
    BY <1>4 DEF Accepted, server
  <2> QED BY <2>1 DEF Released, State, Last
<1>5. CASE Refused \/ NoAnswer \/ ResultSeen \/ Stuck \/ Overdue
  <2>1. Last \in DOMAIN goals /\ goals' = goals /\ Last' = Last
        /\ abandoned \subseteq abandoned' /\ cancelling \subseteq cancelling'
    <3>1. pc \in {"sending", "watch"} /\ goals' = goals
          /\ abandoned \subseteq abandoned' /\ cancelling \subseteq cancelling'
      BY <1>5 DEF Refused, NoAnswer, ResultSeen, Stuck, Overdue, Cancel, server
    <3>2. Last' = Last
      BY <3>1 DEF Last
    <3> QED BY <1>t, <3>1, <3>2 DEF IInv, Script
  <2>2. cancelling' \subseteq cancelling \cup {Last}
        /\ (Last \in cancelling' \ cancelling =>
              State(Last) \notin {"request", "rejected"})
    BY <1>5 DEF Refused, NoAnswer, ResultSeen, Stuck, Overdue, Cancel, server,
       IInv, TypeOK
  <2>3. Last \in abandoned' \cup cancelling' \/ State(Last) \in Done \cup {"rejected"}
    BY <1>5 DEF Refused, NoAnswer, ResultSeen, Stuck, Overdue, Cancel
  <2>4. \A g \in DOMAIN goals : State(g)' = State(g)
    BY <2>1 DEF State
  <2>5. \A g \in cancelling' : State(g)' \notin {"request", "rejected"}
    BY <1>t, <2>1, <2>2, <2>4 DEF Released
  <2>6. \A g \in DOMAIN goals' \ (abandoned' \cup cancelling') :
          State(g)' \in Done \cup {"rejected"}
    BY <1>t, <2>1, <2>3, <2>4 DEF Released
  <2> QED BY <2>5, <2>6 DEF Released
<1>6. CASE Serve \/ Nav
  BY <1>6, ServerReleases DEF Serve, Nav
<1> QED BY <1>1, <1>2, <1>3, <1>4, <1>5, <1>6 DEF Next, Run, Answer, Result

(* The explorer leaves no goal to itself: when it is gone, a goal that the *)
(* server may still take up or drive has its cancellation on its way, or is*)
(* one whose answer came too late for the explorer to have a handle.       *)
NoneForgotten ==
  pc = "exit" =>
    \A g \in DOMAIN goals :
      State(g) \in {"request", "live"} => g \in abandoned \cup cancelling

(* No interleaving of time-outs, answers, results and cancellations makes  *)
(* the explorer forget a goal: the safety part of QuietAfterExit, of which *)
(* that the cancellations arrive is the rest.                              *)
THEOREM GoalsAreReleased == Spec => []NoneForgotten
<1>1. Init => Released
  BY DEF Init, Released
<1>2. Released => NoneForgotten
  BY DEF Released, NoneForgotten, Done
<1> QED BY <1>1, <1>2, Inductive, ReleasedStep, PTL DEF Spec
=============================================================================
