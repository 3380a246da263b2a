---------------------------- MODULE OfflineSync ----------------------------
(***************************************************************************)
(* One device of the Godot client (client/scripts/storage/sync_queue.gd,   *)
(* progress_store.gd, session_store.gd, client/scripts/api/api_client.gd   *)
(* and client/scenes/game/game.gd) talking to the level service.           *)
(*                                                                         *)
(* The client is single threaded; its actions are the stretches of code    *)
(* between two awaits.  Two things outlive a crash: the files it saves     *)
(* (items, dead, store, who) and the copies of requests it sent (late).    *)
(* The coroutines (flight: the flush loop; game: the game scene) do not.   *)
(*                                                                         *)
(* A queued write is a request of LevelService whose user is the owner the *)
(* queue recorded.  The service does not see that owner: it acts for the   *)
(* session whose token the copy carries, so a copy is sent As(who, item).  *)
(* What is submitted while nobody is signed in is left out of the queue:   *)
(* no flush ever picks an item without an owner (there is no token then,   *)
(* and no user matches it later), and _load drops it.                      *)
(***************************************************************************)
EXTENDS LevelService, Sequences

CONSTANTS
    MaxTries,    \* MAX_REQUEST_ATTEMPTS
    MaxItems,    \* bound: a level is opened only while fewer writes wait
    MaxLate,     \* bound: delayed copies at a time, further ones are lost
    Expires,     \* whether tokens expire in this run
    Retires      \* whether versions are published and retired in this run

ASSUME SyncAssumption ==
    /\ MaxTries \in Nat \ {0}
    /\ MaxItems \in Nat \ {0}
    /\ MaxLate \in Nat
    /\ Expires \in BOOLEAN
    /\ Retires \in BOOLEAN
    /\ Keys = Attempts \X (Diffs \cup {None})
    /\ None \notin Handlers
    /\ None \notin Diffs
    /\ Resets = {}     \* no client calls the reset route

VARIABLES
    who,     \* SessionStore: the user signed in, or None
    items,   \* SyncQueue._items, saved before it is sent
    dead,    \* SyncQueue._dead_letters
    flight,  \* the flush loop, or None: item_index, item, copy sent, answer
    late,    \* copies the client no longer waits for that may still arrive
    store,   \* ProgressStore: the saved attempt of a user on a level
    game,    \* the game scene, or None
    used     \* attempt ids handed out by new_request_id

device == <<who, items, dead, flight, late, store, game, used>>
syncVars == <<vars, device>>

Owners == Users \cup {None}
Saved == [attempt : Attempts, version : Versions,
          state : {"in_progress", "sync_queued", "synced", "rejected"},
          found : SUBSET Diffs, hints : HintCount]
Game == [mine : Saved, phase : {"play", "feedback", "submitted", "done", "stuck"},
         result : {"sync_queued", "synced", "rejected"}]

-----------------------------------------------------------------------------
(* The writes a game scene queues.                                         *)

Write(route, u, a, step, v, found, hints) ==
    [route |-> route, user |-> u, key |-> <<a, step>>, level |-> LevelOf[v],
     attempt |-> a, version |-> v, found |-> found, hints |-> hints,
     solved |-> FALSE]

StartItem(u, a, v) == Write("level_start", u, a, None, v, {}, 0)

ProgressItem(u, mine, d) ==
    Write("level_progress", u, mine.attempt, d, mine.version, {d}, mine.hints)

CompleteItem(u, mine) ==
    Write("level_complete", u, mine.attempt, None, mine.version, mine.found,
          mine.hints)

\* The access token is read for every try, never kept with the item.
As(u, item) == [item EXCEPT !.user = u]

\* Every request the device can send, for the constant Requests.
ClientRequests ==
    LET mines == [attempt : Attempts, version : Versions,
                  found : SUBSET Diffs, hints : HintCount]
    IN  {StartItem(u, a, v) : u \in Users, a \in Attempts, v \in Versions}
        \cup {ProgressItem(u, mine, d) : u \in Users, mine \in mines, d \in Diffs}
        \cup {CompleteItem(u, mine) : u \in Users, mine \in mines}

Flight == [pos : Nat \ {0}, item : ClientRequests, sent : ClientRequests,
           tries : 1 .. MaxTries, renewed : BOOLEAN, by : Handlers \cup {None},
           reply : {"none", "ok", "rejected", "failed", "denied"}]

ASSUME RequestsAssumption == ClientRequests \subseteq Requests

ASSUME SyncNoneAssumption ==
    /\ None \notin Saved
    /\ None \notin Flight
    /\ None \notin Game

-----------------------------------------------------------------------------
(* ProgressStore                                                           *)

\* _save_levels drops everything while nobody is signed in.
Save(saves, mine) ==
    IF who = None THEN saves
    ELSE [saves EXCEPT ![who][LevelOf[mine.version]] = mine]

\* update_sync_state: whatever attempt the level of the current user is at.
WithState(level, state) ==
    IF who = None THEN store
    ELSE IF store[who][level] = None THEN store
    ELSE [store EXCEPT ![who][level].state = state]

\* get_or_create goes on with the saved attempt.
Resumes(saved, v) ==
    /\ saved.state # "synced"
    /\ NumberOf[saved.version] = NumberOf[v]

Fresh(a, v) ==
    [attempt |-> a, version |-> v, state |-> "in_progress", found |-> {},
     hints |-> 0]

-----------------------------------------------------------------------------
(* SyncQueue                                                               *)

\* Mutant: the newest write of the player goes first.
LastOf(queue, u) == Max({i \in DOMAIN queue : queue[i].user = u})

FirstOf(queue, u) == Min({i \in DOMAIN queue : queue[i].user = u})

\* What the flush loop does next: send the first write of the player.
Sending(queue, u) ==
    IF \A i \in DOMAIN queue : queue[i].user # u THEN None
    ELSE LET i == FirstOf(queue, u)
         IN  [pos |-> i, item |-> queue[i], sent |-> As(u, queue[i]), tries |-> 1,
              renewed |-> FALSE, by |-> None, reply |-> "none"]

Busy == flight # None

\* submit: the write is saved, then flush runs unless it runs already.
Submit(item) ==
    IF who = None THEN UNCHANGED <<items, flight>>
    ELSE /\ items' = Append(items, item)
         /\ flight' = IF Busy THEN flight
                      ELSE Sending(Append(items, item), who)

\* Mutant: a resolved write stays in the queue.
Kept(queue, i) == queue

Without(queue, i) == SubSeq(queue, 1, i - 1) \o SubSeq(queue, i + 1, Len(queue))

\* The copies that may still arrive once nobody waits for the current one.
Delayed ==
    IF ~Busy THEN late
    ELSE IF flight.by # None \/ flight.reply # "none" THEN late
    ELSE IF Cardinality(late) < MaxLate THEN late \cup {flight.sent} ELSE late

-----------------------------------------------------------------------------
(* The game scene                                                          *)

Playing(phase) == IF game = None THEN FALSE ELSE game.phase = phase

\* _finish_level after its await: nothing is left of it once the scene is gone.
Finished(mine, result) ==
    [mine |-> [mine EXCEPT !.state = result],
     phase |-> IF result = "rejected" THEN "stuck" ELSE "done",
     result |-> result]

\* Home, bootstrap: flush.
Flush ==
    /\ game = None
    /\ ~Busy
    /\ flight' = Sending(items, who)
    /\ flight' # None
    /\ UNCHANGED <<vars, who, items, dead, late, store, game, used>>

\* _load_level: the attempt is looked up or created, and its start submitted.
OpenLevel(v) ==
    LET level == LevelOf[v]
        saved == store[who][level]
        resumed == IF saved = None THEN FALSE ELSE Resumes(saved, v)
    IN
    /\ game = None
    /\ who # None
    /\ v \in published
    /\ Len(items) < MaxItems
    /\ \E a \in Attempts :
        LET mine == IF resumed THEN saved ELSE Fresh(a, v) IN
        /\ IF resumed THEN a = saved.attempt ELSE a \notin used
        /\ used' = used \cup {a}
        /\ game' = [mine |-> mine, phase |-> "play", result |-> "sync_queued"]
        /\ store' = Save(store, mine)
        /\ Submit(StartItem(who, a, v))
    /\ UNCHANGED <<vars, who, dead, late>>

\* Mutant: a press counts as a hint.
FoundByHint(mine, d, hinted) ==
    [mine EXCEPT !.found = @ \cup {d}, !.hints = @ + 1]

\* _mark_found, by a press or by a hint.
Found(mine, d, hinted) ==
    [mine EXCEPT !.found = @ \cup {d},
                 !.hints = IF hinted THEN @ + 1 ELSE @]

MayFind(d, hinted) ==
    /\ Playing("play")
    /\ d \in DiffsOf[game.mine.version] \ game.mine.found
    /\ hinted => game.mine.hints < MaxHints

MarkFound(d, hinted) ==
    LET mine == Found(game.mine, d, hinted) IN
    /\ MayFind(d, hinted)
    /\ store' = Save(store, mine)
    /\ Submit(ProgressItem(who, mine, d))
    /\ game' = [game EXCEPT !.mine = mine,
            !.phase = IF mine.found = DiffsOf[mine.version]
                      THEN "feedback" ELSE "play"]
    /\ UNCHANGED <<vars, who, dead, late, used>>

\* _finish_level, 1.8 s later: its submit either runs the flush and waits for
\* the end of it, or finds it running (or nobody signed in) and goes on.
FinishLevel ==
    /\ Playing("feedback")
    /\ Submit(CompleteItem(who, game.mine))
    /\ IF Busy \/ who = None
       THEN /\ game' = Finished(game.mine, "sync_queued")
            /\ store' = Save(store, [game.mine EXCEPT !.state = "sync_queued"])
       ELSE /\ game' = [game EXCEPT !.phase = "submitted"]
            /\ UNCHANGED store
    /\ UNCHANGED <<vars, who, dead, late, used>>

\* A zoom, a pan or a resize saves the attempt of the scene (_save_view).
SaveView ==
    /\ game # None
    /\ store' = Save(store, game.mine)
    /\ store' # store
    /\ UNCHANGED <<vars, who, items, dead, flight, late, game, used>>

Leave ==
    /\ game # None
    /\ game' = None
    /\ UNCHANGED <<vars, who, items, dead, flight, late, store, used>>

\* _replay_level: clear_level, and the scene is loaded anew (OpenLevel).
Replay ==
    /\ Playing("done")
    /\ store' = IF who = None THEN store
                ELSE [store EXCEPT ![who][LevelOf[game.mine.version]] = None]
    /\ game' = None
    /\ UNCHANGED <<vars, who, items, dead, flight, late, used>>

-----------------------------------------------------------------------------
(* One write of the flush loop (ApiClient._request_json).                  *)

\* The client gives up waiting, or the connection fails: the copy may have
\* been received, may still be received, or may be lost.
Timeout ==
    /\ Busy
    /\ flight.reply = "none"
    /\ flight' = [flight EXCEPT !.reply = "failed", !.by = None]
    /\ late' = Delayed
    /\ UNCHANGED <<vars, who, items, dead, store, game, used>>

\* The server does not accept the access token, or it had to be refreshed
\* before the request was sent.
Deny ==
    /\ Expires
    /\ Busy
    /\ flight.reply = "none"
    /\ flight.by = None
    /\ flight' = [flight EXCEPT !.reply = "denied"]
    /\ UNCHANGED <<vars, who, items, dead, late, store, game, used>>

Again(tries, renewed) ==
    [flight EXCEPT !.sent = As(who, flight.item), !.tries = tries,
                   !.renewed = renewed, !.by = None, !.reply = "none"]

\* _retry_or_return: the token is read again.
Retry ==
    /\ Busy
    /\ flight.reply = "failed"
    /\ flight.tries < MaxTries
    /\ who # None
    /\ flight' = Again(flight.tries + 1, flight.renewed)
    /\ UNCHANGED <<vars, who, items, dead, late, store, game, used>>

\* The token was refreshed: one more request, counted from the first try.
Renew ==
    /\ Busy
    /\ flight.reply = "denied"
    /\ ~flight.renewed
    /\ who # None
    /\ flight' = Again(1, TRUE)
    /\ UNCHANGED <<vars, who, items, dead, late, store, game, used>>

IsComplete == flight.item.route = "level_complete"

\* The end of flush resumes the submit of FinishLevel that waits for it.
EndOfFlush(saves, result) ==
    IF Playing("submitted")
    THEN /\ game' = Finished(game.mine, result)
         /\ store' = Save(saves, [game.mine EXCEPT !.state = result])
    ELSE store' = saves /\ UNCHANGED game

\* Mutant: a write is given up with the loop.
DropOnFailure ==
    /\ Busy
    /\ flight.reply = "failed" \/ flight.reply = "denied"
    /\ flight' = None
    /\ items' = Without(items, flight.pos)
    /\ EndOfFlush(store, game.result)
    /\ UNCHANGED <<vars, who, dead, late, used>>

\* The loop breaks and leaves its items for later.
GiveUp ==
    /\ Busy
    /\ \/ flight.reply = "failed" /\ (flight.tries = MaxTries \/ who = None)
       \/ flight.reply = "denied"
    /\ flight' = None
    /\ EndOfFlush(store, game.result)
    /\ UNCHANGED <<vars, who, items, dead, late, used>>

\* Mutant: the result of the last item is taken for one's own.
AnyRecent(state) == state

\* _recent_results: what the submit that waits will find.
Recent(state) ==
    IF IsComplete /\ flight.item.attempt = game.mine.attempt
    THEN state ELSE game.result

\* item_resolved tells ProgressStore the result of a complete.
Marked(state) ==
    IF IsComplete THEN WithState(flight.item.level, state) ELSE store

\* A resolved item leaves the queue and the loop goes on with the next one; at
\* its end the submit that waits is resumed in the same callback.
Resolve(state) ==
    LET rest == Without(items, flight.pos) IN
    /\ items' = rest
    /\ flight' = Sending(rest, who)
    /\ IF flight' = None THEN EndOfFlush(Marked(state), Recent(state))
       ELSE /\ store' = Marked(state)
            /\ game' = IF Playing("submitted")
                       THEN [game EXCEPT !.result = Recent(state)] ELSE game

Accepted ==
    /\ Busy
    /\ flight.reply = "ok"
    /\ Resolve("synced")
    /\ UNCHANGED <<vars, who, dead, late, used>>

\* Mutant: 401 counts as a refusal.
RejectedOn401 ==
    /\ Busy
    /\ flight.reply \in {"rejected", "denied"}
    /\ dead' = dead \cup {flight.item}
    /\ Resolve("rejected")
    /\ UNCHANGED <<vars, who, late, used>>

\* A 4xx other than 401, 408 and 429.
Rejected ==
    /\ Busy
    /\ flight.reply = "rejected"
    /\ dead' = dead \cup {flight.item}
    /\ Resolve("rejected")
    /\ UNCHANGED <<vars, who, late, used>>

-----------------------------------------------------------------------------
(* The server's side.                                                      *)

Arrive(h) ==
    /\ Busy
    /\ flight.reply = "none"
    /\ flight.by = None
    /\ Receive(h, flight.sent)
    /\ flight' = [flight EXCEPT !.by = h]
    /\ UNCHANGED <<who, items, dead, late, store, game, used>>

ArriveLate(h) ==
    \E r \in late :
        /\ Receive(h, r)
        /\ late' = late \ {r}
        /\ UNCHANGED <<who, items, dead, flight, store, game, used>>

\* The client hears of it only if it still waits for this copy.
Answer(h, reply) ==
    /\ flight' = IF Busy /\ (IF Busy THEN flight.by = h ELSE FALSE)
                 THEN [flight EXCEPT !.reply = reply, !.by = None]
                 ELSE flight
    /\ UNCHANGED <<who, items, dead, late, store, game, used>>

Look(h) == Miss(h) /\ UNCHANGED device

Accept(h) ==
    /\ \/ Hit(h)
       \/ CommitStart(h)
       \/ CommitProgress(h)
       \/ CommitComplete(h)
       \/ CommitCompleteAgain(h)
    /\ Answer(h, "ok")

\* 404, 409 and 400.  (Nothing is reset, so the unique key of a best score,
\* which would be a 500, never fails.)
Reject(h) == (Conflict(h) \/ Refuse(h)) /\ Answer(h, "rejected")

\* A 500, or no answer.
Fail(h) == (LoseKeyRace(h) \/ Abort(h)) /\ Answer(h, "failed")

Publish(v) == Retires /\ Transition(v) /\ UNCHANGED device

-----------------------------------------------------------------------------
(* Sessions and crashes.                                                   *)

\* A refresh anywhere in the client is answered REFRESH_TOKEN_INVALID.
Expire ==
    /\ Expires
    /\ who # None
    /\ who' = None
    /\ UNCHANGED <<vars, items, dead, flight, late, store, game, used>>

\* Mutant: signing out empties the queue.
LogoutForgetting ==
    /\ game = None
    /\ who # None
    /\ who' = None
    /\ items' = <<>>
    /\ UNCHANGED <<vars, dead, flight, late, store, game, used>>

\* The settings scene.
Logout ==
    /\ game = None
    /\ who # None
    /\ who' = None
    /\ UNCHANGED <<vars, items, dead, flight, late, store, game, used>>

Login(u) ==
    /\ game = None
    /\ who = None
    /\ who' = u
    /\ UNCHANGED <<vars, items, dead, flight, late, store, game, used>>

\* Mutant: the queue is not saved.
DieForgetting(queue, saves) ==
    /\ items' = <<>>
    /\ store' = saves
    /\ flight' = None
    /\ game' = None
    /\ late' = Delayed
    /\ UNCHANGED <<vars, who, dead>>

\* The process ends, with these two files saved.
Die(queue, saves) ==
    /\ items' = queue
    /\ store' = saves
    /\ flight' = None
    /\ game' = None
    /\ late' = Delayed
    /\ UNCHANGED <<vars, who, dead>>

Crash == Die(items, store) /\ UNCHANGED used

\* Between the two files a callback saves: the found difference is saved and
\* its progress is not queued; the item is gone and its result not noted.
CrashFinding ==
    \E d \in Diffs, hinted \in BOOLEAN :
        /\ MayFind(d, hinted)
        /\ Die(items, Save(store, Found(game.mine, d, hinted)))
        /\ UNCHANGED used

CrashResolving ==
    /\ Busy
    /\ flight.reply = "ok"
    /\ Die(Without(items, flight.pos), store)
    /\ UNCHANGED used

-----------------------------------------------------------------------------

SyncInit ==
    /\ Init
    /\ who \in Owners
    /\ items = <<>>
    /\ dead = {}
    /\ flight = None
    /\ late = {}
    /\ store = [u \in Users |-> [l \in Levels |-> None]]
    /\ game = None
    /\ used = {}

Scene ==
    \/ \E v \in Versions : OpenLevel(v)
    \/ \E d \in Diffs, hinted \in BOOLEAN : MarkFound(d, hinted)
    \/ FinishLevel
    \/ SaveView
    \/ Leave
    \/ Replay

Client == Timeout \/ Deny \/ Retry \/ Renew \/ GiveUp \/ Accepted \/ Rejected

Server ==
    \/ \E h \in Handlers :
        \/ Arrive(h)
        \/ ArriveLate(h)
        \/ Look(h)
        \/ Accept(h)
        \/ Reject(h)
        \/ Fail(h)
    \/ \E v \in Versions : Publish(v)

SyncNext ==
    \/ Scene
    \/ Flush
    \/ Client
    \/ Server
    \/ Expire
    \/ Logout
    \/ \E u \in Users : Login(u)
    \/ Crash
    \/ CrashFinding
    \/ CrashResolving

SyncSpec == SyncInit /\ [][SyncNext]_syncVars

-----------------------------------------------------------------------------
(* Invariants                                                              *)

\* Saved files, coroutines and copies hold records of their kind; a copy on its
\* way is a request the service knows.
DeviceTypeOK ==
    /\ who \in Owners
    /\ items \in Seq(ClientRequests)
    /\ dead \subseteq ClientRequests
    /\ flight \in Flight \cup {None}
    /\ late \subseteq ClientRequests
    /\ store \in [Users -> [Levels -> Saved \cup {None}]]
    /\ game \in Game \cup {None}
    /\ used \subseteq Attempts

SyncTypeOK == TypeOK /\ DeviceTypeOK

\* The loop removes an item by the index it had before the await: that index
\* still holds the write that was sent when its answer comes, whatever was
\* queued and whoever signed in or out meanwhile (sync_queue.gd:51-62).  It is
\* sent as its owner; only a further try, whose token is read again, may go out
\* as another account (api_client.gd:433).
ResolvesWhatItSent ==
    Busy => /\ flight.pos \in DOMAIN items
            /\ items[flight.pos] = flight.item
            /\ flight.sent = As(flight.sent.user, flight.item)
            /\ \/ flight.sent.user = flight.item.user
               \/ flight.tries > 1 \/ flight.renewed

Seen(item) == idem[Id(item)] # None

Queued(item) == \E i \in DOMAIN items : items[i] = item

\* "The queue is replayed strictly in order" (client/README.md:21): of the
\* writes a player has waiting, none but the first has taken effect, whatever
\* was retried, delayed or cut off by a crash.  Only a start may be queued
\* again, each time its level is opened.
InOrder ==
    \A i, j \in DOMAIN items :
        /\ i < j
        /\ items[i].user = items[j].user
        /\ items[j].route # "level_start"
        => ~Seen(items[j])

\* A level saved as finished and waiting for the server really waits, or was
\* answered: the complete is queued, known to the server or a dead letter.
WaitingIsQueued ==
    \A u \in Users, l \in Levels :
        store[u][l] # None /\ store[u][l].state = "sync_queued" =>
            LET item == CompleteItem(u, store[u][l]) IN
            Queued(item) \/ Seen(item) \/ item \in dead

\* A level saved as synced has been credited to that player by the server, if
\* perhaps for an earlier attempt; no answer to another write, and no refusal,
\* is taken for it.
SyncedIsCredited ==
    \A u \in Users, l \in Levels :
        store[u][l] # None /\ store[u][l].state = "synced" =>
            lifetime[u][l] # None

\* The panel "all found" means that the server has completed this very attempt;
\* any other end of the submit shows "waiting" or the refusal.
ShownSyncedIsCompleted ==
    game # None /\ game.mine.state = "synced" => IsCompleted(game.mine.attempt)

\* The two together: "synced" is true, where it is saved and where it is shown.
SyncedIsTrue == SyncedIsCredited /\ ShownSyncedIsCompleted

\* A progress or a complete is refused only if the start of its attempt was (a
\* version retired before the start arrived): the writes of an attempt arrive
\* in an order in which each is acceptable.
RefusedHasCause ==
    \A item \in dead :
        StartItem(item.user, item.attempt, item.version) \in dead

\* Claim (sync_queue.gd:106): a write is never submitted as another account.
SentAsOwner == Busy => flight.sent.user = flight.item.user

\* Claim (game-odd-spot-code-fix-plan.md:110): "synced" means that the server
\* has confirmed it, so the saved attempt is one the server completed.
SyncedIsCompleted ==
    \A u \in Users, l \in Levels :
        store[u][l] # None /\ store[u][l].state = "synced" =>
            IsCompleted(store[u][l].attempt)

-----------------------------------------------------------------------------
(* Liveness and refinement                                                 *)

\* The client runs its code; the player comes back to the home scene and signs
\* in again; a request sent again and again is heard and answered in time, and
\* the process lives long enough to note it.
SyncFairness ==
    /\ WF_syncVars(Retry \/ Renew \/ GiveUp)
    /\ SF_syncVars(Accepted)
    /\ SF_syncVars(Rejected)
    /\ WF_syncVars(Leave)
    /\ SF_syncVars(\E u \in Users : Login(u))
    /\ SF_syncVars(Flush)
    /\ \A h \in Handlers :
        /\ WF_syncVars(Look(h) \/ Accept(h) \/ Reject(h) \/ Fail(h))
        /\ SF_syncVars(Arrive(h))
        /\ SF_syncVars(Look(h) /\ flight # None /\ flight.by = h)
        /\ SF_syncVars((Accept(h) \/ Reject(h)) /\ flight # None /\ flight.by = h)

FairSyncSpec == SyncSpec /\ SyncFairness

Holds(queue, a) ==
    \E item \in queue : item.route = "level_complete" /\ item.attempt = a

Fate(a) ==
    IF IsCompleted(a) THEN "counted"
    ELSE IF Holds({items[i] : i \in DOMAIN items}, a) THEN "waiting"
    ELSE IF Holds(dead, a) THEN "refused"
    ELSE "open"

Outbox == INSTANCE CompletionOutbox WITH fate <- [a \in Attempts |-> Fate(a)]

\* A completion handed to the queue of a signed-in player is never dropped: the
\* only ends it can take are the service's count or a dead letter, and a counted
\* one stays counted, whatever copies are still on their way.
NeverGivenUp == Outbox!Safety

\* ... and it does come to one of these ends, so the device and the service
\* together keep the promise of CompletionOutbox.
KeepsPromise == Outbox!Spec

=============================================================================
