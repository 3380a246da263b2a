-------------------------- MODULE SessionRotation --------------------------
(***************************************************************************)
(* Signing in, refreshing and signing out: ApiClient and SessionStore of   *)
(* the clients against the sessions of the server (server/internal/session *)
(* and the handlers of server/internal/httpapi).  The web client and the   *)
(* WeChat client (webgame/js, wechat/js) have the same code here, and the  *)
(* Godot client (client/scripts/api, client/scripts/storage) the same      *)
(* steps.                                                                  *)
(*                                                                         *)
(* A client has one session store and many coroutines that use it: the     *)
(* home scene loads the catalogue while the queue and the events are sent. *)
(* Each of them is a task.  A task's request goes out, is served, and is   *)
(* answered; it may also time out at any moment, after which it may still  *)
(* reach the server.  A request to a session's own routes is a             *)
(* transaction of the server; any other request only asks whether its      *)
(* access token is good.                                                   *)
(***************************************************************************)
EXTENDS Naturals, FiniteSets

CONSTANTS
    Sessions,   \* the sessions the server can issue, each one with its tokens
    Tasks,
    MaxLate,    \* bounds late
    None

\* What a task waits for, and what it does when a refresh has succeeded.
Calls == {"refresh", "ask", "logout", "login"}
Follow == {"stop", "ask", "ask once more"}
Verdicts == {"ok", "denied", "invalid"}

Row == [root : Sessions, from : Sessions \cup {None},
        revoked : BOOLEAN, access : BOOLEAN, refresh : BOOLEAN]
Task == [does : Calls \cup {"idle"}, of : Sessions \cup {None},
         follow : Follow, heard : Sessions \cup Verdicts \cup {None}]
Late == [does : {"refresh", "logout"}, of : Sessions]

ASSUME SessionAssumption ==
    /\ MaxLate \in Nat
    /\ None \notin Sessions
    /\ None \notin Row
    /\ None \notin Verdicts
    /\ Sessions \cap Verdicts = {}

VARIABLES
    rows,    \* user_sessions; access and refresh: the token has not expired
    held,    \* the session whose tokens SessionStore has, or None
    fresh,   \* hasValidToken
    tasks,
    late     \* the calls that timed out, each of which may still be served:
             \* an ask changes nothing, and a login that is served late leaves
             \* what one whose answer is lost does

vars == <<rows, held, fresh, tasks, late>>

Idle == [does |-> "idle", of |-> None, follow |-> "stop", heard |-> None]

Init ==
    /\ rows = [s \in Sessions |-> None]
    /\ held = None
    /\ fresh = FALSE
    /\ tasks = [t \in Tasks |-> Idle]
    /\ late = {}

Become(t, task) == tasks' = [tasks EXCEPT ![t] = task]

-----------------------------------------------------------------------------
(* The server                                                              *)

Issued(s) == IF s = None THEN FALSE ELSE rows[s] # None

Unrevoked(s) == Issued(s) /\ ~rows[s].revoked

\* Authenticate: the access token is good.
Authentic(s) == Unrevoked(s) /\ rows[s].access

\* Mutant: revoked_at is not looked at.
UnexpiredRefresh(s) == Issued(s) /\ rows[s].refresh

\* The refresh token is good.
Refreshable(s) == Unrevoked(s) /\ rows[s].refresh

NewRow(root, from) ==
    [root |-> root, from |-> from,
     revoked |-> FALSE, access |-> TRUE, refresh |-> TRUE]

\* Issue
Issue(n) ==
    /\ rows[n] = None
    /\ rows' = [rows EXCEPT ![n] = NewRow(n, None)]

\* Mutant: the old session is not revoked.
RotateOnly(s, n) ==
    /\ Refreshable(s)
    /\ rows[n] = None
    /\ rows' = [rows EXCEPT ![n] = NewRow(rows[s].root, s)]

\* Refresh of the MySQL service: SELECT ... FOR UPDATE makes it one step.
Rotate(s, n) ==
    /\ Refreshable(s)
    /\ rows[n] = None
    /\ rows' = [rows EXCEPT ![s].revoked = TRUE, ![n] = NewRow(rows[s].root, s)]

\* logoutSession behind requireAuth.
Revoke(s) ==
    /\ Authentic(s)
    /\ rows' = [rows EXCEPT ![s].revoked = TRUE]

\* What the server does with a call and what it answers.
Serve(does, of, answer) ==
    \/ /\ does = "refresh"
       /\ answer \in Sessions
       /\ Rotate(of, answer)
    \/ /\ does = "refresh"
       /\ answer = "invalid"
       /\ ~Refreshable(of)
       /\ UNCHANGED rows
    \/ /\ does = "ask"
       /\ answer = IF Authentic(of) THEN "ok" ELSE "denied"
       /\ UNCHANGED rows
    \/ /\ does = "logout"
       /\ answer = "ok"
       /\ Revoke(of)
    \/ /\ does = "logout"
       /\ answer = "denied"
       /\ ~Authentic(of)
       /\ UNCHANGED rows
    \/ /\ does = "login"
       /\ answer \in Sessions
       /\ Issue(answer)

ServeTask(t, answer) ==
    /\ tasks[t].does # "idle"
    /\ tasks[t].heard = None
    /\ Serve(tasks[t].does, tasks[t].of, answer)
    /\ tasks' = [tasks EXCEPT ![t].heard = answer]
    /\ UNCHANGED <<held, fresh, late>>

ServeLate(call, answer) ==
    /\ Serve(call.does, call.of, answer)
    /\ UNCHANGED <<held, fresh, tasks, late>>

\* 15 minutes after it was issued.
AccessExpires(s) ==
    /\ Unrevoked(s)
    /\ rows[s].access
    /\ rows' = [rows EXCEPT ![s].access = FALSE]
    /\ UNCHANGED <<held, fresh, tasks, late>>

\* 30 days after it was issued.
RefreshExpires(s) ==
    /\ Unrevoked(s)
    /\ ~rows[s].access
    /\ rows[s].refresh
    /\ rows' = [rows EXCEPT ![s].refresh = FALSE]
    /\ UNCHANGED <<held, fresh, tasks, late>>

-----------------------------------------------------------------------------
(* The client                                                              *)

Call(does, of, follow) ==
    [does |-> does, of |-> of, follow |-> follow, heard |-> None]

\* refreshSession with the token that is stored now; without one it fails.
Refreshing(follow) ==
    IF held = None THEN Idle ELSE Call("refresh", held, follow)

\* By the device's clock, 30 seconds before it expires.
BecomesStale ==
    /\ fresh
    /\ fresh' = FALSE
    /\ UNCHANGED <<rows, held, tasks, late>>

\* request, authenticated.
Ask(t) ==
    /\ tasks[t] = Idle
    /\ held # None
    /\ Become(t, IF fresh THEN Call("ask", held, "ask") ELSE Refreshing("ask"))
    /\ UNCHANGED <<rows, held, fresh, late>>

\* The bootstrap and the login scene restore a session they find.
Restore(t) ==
    /\ tasks[t] = Idle
    /\ held # None
    /\ ~fresh
    /\ Become(t, Refreshing("stop"))
    /\ UNCHANGED <<rows, held, fresh, late>>

Logout(t) ==
    /\ tasks[t] = Idle
    /\ held # None
    /\ Become(t, Call("logout", held, "stop"))
    /\ UNCHANGED <<rows, held, fresh, late>>

\* exchangeUserToken, at the end of every way to sign in.
Login(t) ==
    /\ tasks[t] = Idle
    /\ Become(t, Call("login", None, "stop"))
    /\ UNCHANGED <<rows, held, fresh, late>>

Hears(t, does, answers) ==
    /\ tasks[t].does = does
    /\ tasks[t].heard \in answers

Install(s) ==
    /\ held' = s
    /\ fresh' = TRUE

\* Mutant: access_expires_at is left as it is.
ClearTokens ==
    /\ held' = None
    /\ UNCHANGED fresh

ClearSession ==
    /\ held' = None
    /\ fresh' = FALSE

\* Mutant: the new tokens are used for the request and not stored.
RefreshedUnsaved(t) ==
    /\ Hears(t, "refresh", Sessions)
    /\ fresh' = TRUE
    /\ Become(t, IF tasks[t].follow = "stop" THEN Idle
                 ELSE Call("ask", tasks[t].heard, tasks[t].follow))
    /\ UNCHANGED <<rows, held, late>>

\* The request that waited for the refresh is sent with the new token.
Refreshed(t) ==
    /\ Hears(t, "refresh", Sessions)
    /\ Install(tasks[t].heard)
    /\ Become(t, IF tasks[t].follow = "stop" THEN Idle
                 ELSE Call("ask", tasks[t].heard, tasks[t].follow))
    /\ UNCHANGED <<rows, late>>

\* Whatever is stored is cleared, be it what the task refreshed or not.
RefreshInvalid(t) ==
    /\ Hears(t, "refresh", {"invalid"})
    /\ ClearSession
    /\ Become(t, Idle)
    /\ UNCHANGED <<rows, late>>

Answered(t) ==
    /\ Hears(t, "ask", {"ok"})
    /\ Become(t, Idle)
    /\ UNCHANGED <<rows, held, fresh, late>>

\* 401: a request that may refresh does, once.
Denied(t) ==
    /\ Hears(t, "ask", {"denied"})
    /\ Become(t, IF tasks[t].follow = "ask"
                 THEN Refreshing("ask once more") ELSE Idle)
    /\ UNCHANGED <<rows, held, fresh, late>>

\* The outcome of the call does not matter to the client.
LoggedOut(t) ==
    /\ Hears(t, "logout", {"ok", "denied"})
    /\ ClearSession
    /\ Become(t, Idle)
    /\ UNCHANGED <<rows, late>>

LoggedIn(t) ==
    /\ Hears(t, "login", Sessions)
    /\ Install(tasks[t].heard)
    /\ Become(t, Idle)
    /\ UNCHANGED <<rows, late>>

\* No answer in time, or a 5xx: the task goes on without one.
Lapse(t, next) ==
    /\ late' = late \cup ({[does |-> tasks[t].does, of |-> tasks[t].of]} \cap Late)
    /\ Cardinality(late') <= MaxLate
    /\ Become(t, next)
    /\ UNCHANGED rows

\* Of the calls that are given up only the logout has an effect.
Timeout(t) ==
    /\ tasks[t].does # "idle"
    /\ IF tasks[t].does = "logout" THEN ClearSession ELSE UNCHANGED <<held, fresh>>
    /\ Lapse(t, Idle)

\* request calls itself again, with the tokens that are stored now.
Retry(t) ==
    /\ tasks[t].does = "ask"
    /\ held # None
    /\ Lapse(t, IF fresh \/ tasks[t].follow # "ask"
                THEN Call("ask", held, tasks[t].follow) ELSE Refreshing("ask"))
    /\ UNCHANGED <<held, fresh>>

-----------------------------------------------------------------------------

ClientStep(t) ==
    \/ Ask(t)
    \/ Restore(t)
    \/ Logout(t)
    \/ Login(t)
    \/ Refreshed(t)
    \/ RefreshInvalid(t)
    \/ Answered(t)
    \/ Denied(t)
    \/ LoggedOut(t)
    \/ LoggedIn(t)
    \/ Timeout(t)
    \/ Retry(t)

Answers == Sessions \cup Verdicts

Next ==
    \/ BecomesStale
    \/ \E t \in Tasks : ClientStep(t)
    \/ \E t \in Tasks, answer \in Answers : ServeTask(t, answer)
    \/ \E call \in late, answer \in Answers : ServeLate(call, answer)
    \/ \E s \in Sessions : AccessExpires(s) \/ RefreshExpires(s)

Spec == Init /\ [][Next]_vars

-----------------------------------------------------------------------------
(* Properties                                                              *)

\* The tables, the store and the tasks have their types; an answer is one the
\* server gives to that call.
TypeOK ==
    /\ rows \in [Sessions -> Row \cup {None}]
    /\ held \in Sessions \cup {None}
    /\ fresh \in BOOLEAN
    /\ tasks \in [Tasks -> Task]
    /\ late \subseteq Late
    /\ fresh => held # None

\* A refresh token is used once (docs/.../04_api_and_data.md:9), however many
\* coroutines, retries or late copies present it: no two sessions were rotated
\* from the same one, and that one is revoked.
SingleUse ==
    \A s, t \in Sessions :
        (Issued(s) /\ Issued(t) /\ rows[s].from # None) =>
            /\ ~Unrevoked(rows[s].from)
            /\ rows[s].from = rows[t].from => s = t

\* Of all the sessions that descend from one login at most one is not revoked:
\* rotation never forks a login.
OneLivePerLogin ==
    \A s, t \in Sessions :
        (Unrevoked(s) /\ Unrevoked(t) /\ rows[s].root = rows[t].root) => s = t

\* A login that has ended stays ended: once no session of it is unrevoked, none
\* ever is again, whatever calls of it are still on their way.
Ended(r) ==
    /\ Issued(r)
    /\ \A s \in Sessions : Unrevoked(s) => rows[s].root # r

EndedStaysEnded ==
    [][\A r \in Sessions : Ended(r) => Ended(r)']_vars

\* The device holds a revoked session only while a call of its own that revokes
\* it is unanswered or after one was never answered: it never falls back to a
\* session that was rotated or logged out by a call it has heard the answer of.
Revoking(s) ==
    \/ \E t \in Tasks :
        tasks[t].does \in {"refresh", "logout"} /\ tasks[t].of = s
    \/ \E call \in late : call.does \in {"refresh", "logout"} /\ call.of = s

HeldIsLive ==
    held # None => Unrevoked(held) \/ Revoking(held)

\* Claim (docs/issues/game-odd-spot-code-fix-plan.md:216, on refresh_session):
\* the session is cleared only when its refresh token is certainly invalid.
ClearsOnlyInvalid ==
    [][(held # None /\ held' = None /\ Refreshable(held)) =>
            \E t \in Tasks : tasks[t].does = "logout" /\ tasks'[t] = Idle]_vars
=============================================================================
