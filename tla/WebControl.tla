----------------------------- MODULE WebControl -----------------------------
(***************************************************************************)
(* firmware/web_control: pages with their Send and Home buttons, a thread  *)
(* of the HTTP server per request, and the heartbeat of the node's executor*)
(* that repeats the last pose every 100 ms.  Threads and heartbeat share   *)
(* last_angles_ without a lock: each takes or sets it in one step and      *)
(* publishes in another.  A pose is known by the request that brought it;  *)
(* 0 is the centre pose of the start.                                      *)
(***************************************************************************)
EXTENDS Naturals, Sequences

CONSTANTS Pages, MaxPosts   \* bound on the requests of all pages

ASSUME WebAssumption == MaxPosts \in Nat

VARIABLES sending,          \* per page: a Send has not been answered
          posts,            \* every request, with the state of its thread
          last_angles_,
          beat,             \* the pose the heartbeat is about to publish
          shown             \* the last pose published

pageVars == <<sending, posts, last_angles_, beat, shown>>

WebInit ==
  /\ sending = [p \in Pages |-> FALSE] /\ posts = <<>>
  /\ last_angles_ = 0 /\ beat = <<>> /\ shown = 0

Answered == {r \in DOMAIN posts : posts[r].stage = "answered"}

(* ---- static/app.js ---- *)
Post(page, path, valid) ==
  /\ Len(posts) < MaxPosts
  /\ posts' = Append(posts, [page |-> page, path |-> path, valid |-> valid,
                             stage |-> "received", after |-> Answered])
  /\ UNCHANGED <<last_angles_, beat, shown>>

(* Another client than the page may send a body that is not twelve numbers.*)
SendAngles(page) ==
  /\ ~sending[page] /\ sending' = [sending EXCEPT ![page] = TRUE]
  /\ \E valid \in BOOLEAN : Post(page, "/api/servos", valid)

(* Home looks at the flag but does not raise it.                           *)
HomeAll(page) ==
  ~sending[page] /\ Post(page, "/api/home", TRUE) /\ UNCHANGED sending

(* ---- a thread of the server: do_POST ---- *)
Stage(r, from, to) ==
  /\ posts[r].stage = from
  /\ posts' = [posts EXCEPT ![r].stage = to]

Refuse(r) ==
  /\ ~posts[r].valid /\ Stage(r, "received", "refused")
  /\ UNCHANGED <<sending, last_angles_, beat, shown>>

(* A slip: the pose is published but not kept.                             *)
TakeNot(r) ==
  /\ posts[r].valid /\ Stage(r, "received", "taken")
  /\ UNCHANGED <<sending, last_angles_, beat, shown>>
(* send_servo_angles() and send_home() set last_angles_ first ...          *)
Take(r) ==
  /\ posts[r].valid /\ Stage(r, "received", "taken")
  /\ last_angles_' = r
  /\ UNCHANGED <<sending, beat, shown>>

(* ... and publish what they were given.                                   *)
Publish(r) ==
  /\ Stage(r, "taken", "published") /\ shown' = r
  /\ UNCHANGED <<sending, last_angles_, beat>>

Answer(r) ==
  /\ Stage(r, "published", "answered") \/ Stage(r, "refused", "answered")
  /\ sending' = IF posts[r].path = "/api/servos"
                THEN [sending EXCEPT ![posts[r].page] = FALSE] ELSE sending
  /\ UNCHANGED <<last_angles_, beat, shown>>

(* ---- the heartbeat ---- *)
BeatReads ==
  /\ beat = <<>> /\ beat' = <<last_angles_>>
  /\ UNCHANGED <<sending, posts, last_angles_, shown>>
BeatPublishes ==
  /\ beat # <<>> /\ shown' = beat[1] /\ beat' = <<>>
  /\ UNCHANGED <<sending, posts, last_angles_>>
Repeat == BeatReads \/ BeatPublishes

Thread(r) == Refuse(r) \/ Take(r) \/ Publish(r) \/ Answer(r)
WebNext ==
  \/ \E p \in Pages : SendAngles(p) \/ HomeAll(p)
  \/ \E r \in DOMAIN posts : Thread(r)
  \/ Repeat

(* Threads are scheduled and the timer fires.                              *)
WebSpec ==
  /\ WebInit /\ [][WebNext]_pageVars
  /\ WF_pageVars(\E r \in DOMAIN posts : Thread(r)) /\ WF_pageVars(Repeat)

-----------------------------------------------------------------------------
Accepted == {r \in DOMAIN posts : posts[r].valid}
Superseded(r) == \E q \in Accepted : r = 0 \/ r \in posts[q].after

(* Whatever the threads and a heartbeat holding an older pose publish in   *)
(* between, once no more requests come the servos are given, and kept at,  *)
(* the pose last set; and that is the pose of an accepted request after    *)
(* whose answer no other accepted request was made.                        *)
PoseSettles ==
  [](Len(posts) = MaxPosts => <>[](shown = last_angles_ /\ ~Superseded(shown)))
=============================================================================
