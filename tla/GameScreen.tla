---------------------------- MODULE GameScreen ----------------------------
(***************************************************************************)
(* The game screen of the WeChat client: OddSpotApp (wechat/js/app.js)     *)
(* with ProgressStore and SyncQueue, for levels of differences.            *)
(*                                                                         *)
(* The app has one object this.game, and everything that waits for         *)
(* something reads it again afterwards: a load waits for the level and for *)
(* its image, the feedback waits 1.8 seconds, the report of a finished     *)
(* level waits for the queue.  Meanwhile the player may leave, replay or   *)
(* open another level, which replaces the object.  The fields "mine" and   *)
(* the variable strayed record, for the properties only, whether what      *)
(* waited belongs to the game it finds.                                    *)
(***************************************************************************)
EXTENDS Naturals, Sequences, FiniteSets, SequencesExt

CONSTANTS
    Levels,         \* 1 .. n, in the order of their series
    DiffsOf,        \* the ids of the differences of a level
    Timed,          \* the levels with a time limit
    FreeHints,      \* DAILY_FREE_HINTS
    MaxAttempts,    \* bounds the attempts that are created
    MaxLoads,       \* bounds the loads in flight
    MaxItems,       \* bounds the queue
    None

Ids == 1 .. MaxAttempts
States == {"in_progress", "sync_queued", "synced", "rejected", "timed_out"}
Diffs == UNION {DiffsOf[l] : l \in Levels}

Saved == [id : Ids, state : States, ever : BOOLEAN, found : SUBSET Diffs]

Game == [loading : BOOLEAN, level : Levels \cup {None},
         attempt : Saved \cup {None}, found : SUBSET Diffs,
         complete : BOOLEAN, finishing : BOOLEAN, timedOut : BOOLEAN]

Load == [at : {"level", "image"}, want : Levels, fresh : BOOLEAN,
         attempt : Saved \cup {None}, mine : BOOLEAN]

Item == [route : {"start", "progress", "complete"}, level : Levels,
         attempt : Ids, found : SUBSET Diffs]

\* watch: where in the queue the item is whose result is waited for, 0 for none
Flush == [watch : 0 .. MaxItems, level : Levels \cup {None},
          outcome : {"synced", "rejected", "queued"}, mine : BOOLEAN]

ASSUME GameAssumption ==
    /\ Levels \subseteq Nat
    /\ Timed \subseteq Levels
    /\ \A l \in Levels : IsFiniteSet(DiffsOf[l])
    /\ {FreeHints, MaxAttempts, MaxLoads, MaxItems} \subseteq Nat
    /\ None \notin Levels \cup Saved \cup Game \cup Flush

VARIABLES
    scene,     \* "game" or any "other"
    game,      \* this.game
    loads,     \* the loadGame calls that wait
    timers,    \* the finishLevel timers that are set, each with its "mine"
    store,     \* ProgressStore: what is saved of each level
    items,     \* SyncQueue.items
    flush,     \* the flush that runs, or None
    hints,     \* the free hints used today
    made,      \* attempts created
    started,   \* <<attempt, level>> whose start the server has accepted
    counted,   \* ... whose complete the server has accepted
    handed,    \* ... whose complete was submitted with every difference
    strayed    \* something has acted on a game it did not belong to

vars == <<scene, game, loads, timers, store, items, flush, hints, made,
          started, counted, handed, strayed>>

NewGame == [loading |-> TRUE, level |-> None, attempt |-> None, found |-> {},
            complete |-> FALSE, finishing |-> FALSE, timedOut |-> FALSE]

Init ==
    /\ scene = "other"
    /\ game = None
    /\ loads = <<>>
    /\ timers = <<>>
    /\ store = [l \in Levels |-> None]
    /\ items = <<>>
    /\ flush = None
    /\ hints = 0
    /\ made = 0
    /\ started = {}
    /\ counted = {}
    /\ handed = {}
    /\ strayed = FALSE

-----------------------------------------------------------------------------
(* ProgressStore                                                           *)

Done == {"sync_queued", "synced"}

WasCompleted(saved) == saved # None /\ (saved.ever \/ saved.state \in Done)

IsCompleted(l) == WasCompleted(store[l])

\* restart, and getOrCreate when it cannot resume
Fresh(l) == [id |-> made + 1, state |-> "in_progress",
             ever |-> WasCompleted(store[l]), found |-> {}]

Resumes(l) == store[l] # None /\ store[l].state # "synced"

Settled(saved, state) ==
    [saved EXCEPT !.state = state, !.ever = saved.ever \/ state \in Done]

\* Mutant: the attempt is not looked at.
SetAnyState(l, state, id) ==
    [store EXCEPT ![l] = IF @ = None THEN @ ELSE Settled(@, state)]

\* setState
SetState(l, state, id) ==
    [store EXCEPT ![l] = IF @ = None \/ @.id # id THEN @ ELSE Settled(@, state)]

\* saveAttempt, in memory and in the store
Savable(g) == g # None /\ g.level # None /\ g.attempt # None

Kept(g) == IF Savable(g) THEN [g EXCEPT !.attempt.found = g.found] ELSE g

StoredBy(g) ==
    IF Savable(g) THEN [store EXCEPT ![g.level] = Kept(g).attempt] ELSE store

SaveAttempt(g) ==
    /\ game' = Kept(g)
    /\ store' = StoredBy(g)

-----------------------------------------------------------------------------
(* SyncQueue                                                               *)

Write(route, level, attempt, found) ==
    [route |-> route, level |-> level, attempt |-> attempt, found |-> found]

Room == Len(items) < MaxItems

\* A flush for the sake of no result, or for that of the last item.
Watching(watch, level) ==
    [watch |-> watch, level |-> level, outcome |-> "queued", mine |-> TRUE]

\* submit when nothing is done with the result
Submit(item) ==
    /\ Room
    /\ items' = Append(items, item)
    /\ flush' = IF flush = None THEN Watching(0, None) ELSE flush

\* What finishLevel does with the result of its submit, in the game it finds.
\* saved is the store once the queue has noted its own results.
Finish(level, result, saved) ==
    LET state == IF result = "queued" THEN "sync_queued" ELSE result
        played == game.attempt # None
        attempt == IF played THEN [game.attempt EXCEPT !.state = state] ELSE None
    IN  /\ game' = [game EXCEPT !.complete = @ \/ result # "rejected",
                                !.attempt = attempt]
        /\ store' = IF played THEN [saved EXCEPT ![level] = attempt] ELSE saved

\* The loop ends, on an empty queue or a failure, and the submit returns.
EndFlush(f, saved) ==
    /\ flush' = None
    /\ strayed' = (strayed \/ (f.level # None /\ ~f.mine))
    /\ IF f.level # None
       THEN Finish(f.level, f.outcome, saved)
       ELSE store' = saved /\ game' = game

\* onResolved and the removal of the item
Noted(item, outcome) ==
    IF item.route = "complete"
    THEN SetState(item.level, outcome, item.attempt) ELSE store

Resolve(outcome) ==
    LET f == [flush EXCEPT !.watch = IF @ = 0 THEN 0 ELSE @ - 1,
                           !.outcome = IF flush.watch = 1 THEN outcome ELSE @]
        saved == Noted(Head(items), outcome)
    IN  /\ items' = Tail(items)
        /\ IF Len(items) = 1
           THEN EndFlush(f, saved)
           ELSE /\ flush' = f
                /\ store' = saved
                /\ UNCHANGED <<game, strayed>>

\* The server, as LevelService has it: a complete needs its start, for the same
\* level, and every difference.
Accepts(item) ==
    LET pair == <<item.attempt, item.level>>
    IN  CASE item.route = "start" -> TRUE
          [] item.route = "progress" -> pair \in started
          [] item.route = "complete" ->
                pair \in started /\ item.found = DiffsOf[item.level]

Serve(item) ==
    LET pair == <<item.attempt, item.level>>
    IN  /\ Accepts(item)
        /\ started' = IF item.route = "start" THEN started \cup {pair} ELSE started
        /\ counted' = IF item.route = "complete" THEN counted \cup {pair} ELSE counted

Accepted ==
    /\ flush # None
    /\ Serve(Head(items))
    /\ Resolve("synced")
    /\ UNCHANGED <<scene, loads, timers, hints, made, handed>>

\* Refused for want of something, or because the version was retired.
Rejected ==
    /\ flush # None
    /\ <<Head(items).attempt, Head(items).level>> \notin counted
    /\ Resolve("rejected")
    /\ UNCHANGED <<scene, loads, timers, hints, made, started, counted, handed>>

\* No answer after every try: the server may have served it all the same.
Failed ==
    /\ flush # None
    /\ Serve(Head(items)) \/ UNCHANGED <<started, counted>>
    /\ EndFlush(flush, store)
    /\ UNCHANGED <<scene, loads, timers, items, hints, made, handed>>

\* bootstrap and showHome
FlushQueue ==
    /\ scene = "other"
    /\ flush = None
    /\ items # <<>>
    /\ flush' = Watching(0, None)
    /\ UNCHANGED <<scene, game, loads, timers, store, items, hints, made,
                   started, counted, handed, strayed>>

-----------------------------------------------------------------------------
(* Opening a level                                                         *)

Disowned(s) == [i \in DOMAIN s |-> [s[i] EXCEPT !.mine = FALSE]]

\* Mutant: the differences found in the last game are kept.
OpenedOver(l, fresh) == [NewGame EXCEPT !.found = IF game = None THEN {} ELSE game.found]

Opened(l, fresh) == NewGame

\* loadGame up to its first await
LoadGame(l, fresh) ==
    /\ Len(loads) < MaxLoads
    /\ scene' = "game"
    /\ game' = Opened(l, fresh)
    /\ loads' = Append(Disowned(loads),
                       [at |-> "level", want |-> l, fresh |-> fresh,
                        attempt |-> None, mine |-> TRUE])
    /\ timers' = Disowned(timers)
    /\ flush' = IF flush = None THEN None ELSE [flush EXCEPT !.mine = FALSE]
    /\ UNCHANGED <<items, hints, made, started, counted, handed, strayed>>

\* renderLevels; the catalogue brings what the server has counted.
Unlocked(l) ==
    \A k \in Levels : k < l =>
        IsCompleted(k) \/ \E i \in Ids : <<i, k>> \in counted

OpenLevel(l) ==
    /\ scene = "other"
    /\ IsCompleted(l) \/ Unlocked(l)
    /\ LoadGame(l, FALSE)
    /\ UNCHANGED store

\* Every touch on the screen saves the attempt before it is handled.
Replay ==
    /\ scene = "game"
    /\ game.level # None
    /\ store' = StoredBy(game)
    /\ LoadGame(game.level, TRUE)

NextLevel(l) ==
    /\ scene = "game"
    /\ game.complete
    /\ game.level # None
    /\ l = game.level + 1
    /\ store' = StoredBy(game)
    /\ LoadGame(l, FALSE)

\* What is saved of the level is resumed, or a new attempt is begun.
Attempt(load) ==
    IF ~load.fresh /\ Resumes(load.want) THEN store[load.want] ELSE Fresh(load.want)

\* Mutant: the game has its attempt before its image, and before what was found
\* of it (the order of webgame/js/app.js:246).
EarlyAttempt(i) ==
    LET load == loads[i]
        attempt == Attempt(load)
    IN  /\ load.at = "level"
        /\ made' = IF attempt.id > made THEN made + 1 ELSE made
        /\ made' <= MaxAttempts
        /\ store' = [store EXCEPT ![load.want] = attempt]
        /\ game' = [game EXCEPT !.level = load.want, !.attempt = attempt]
        /\ loads' = [loads EXCEPT ![i].at = "image", ![i].attempt = attempt]
        /\ strayed' = (strayed \/ ~load.mine)
        /\ UNCHANGED <<scene, timers, items, flush, hints, started, counted, handed>>

\* The level arrives.
LevelArrives(i) ==
    LET load == loads[i]
        attempt == Attempt(load)
    IN  /\ load.at = "level"
        /\ made' = IF attempt.id > made THEN made + 1 ELSE made
        /\ made' <= MaxAttempts
        /\ store' = [store EXCEPT ![load.want] = attempt]
        /\ game' = [game EXCEPT !.level = load.want]
        /\ loads' = [loads EXCEPT ![i].at = "image", ![i].attempt = attempt]
        /\ strayed' = (strayed \/ ~load.mine)
        /\ UNCHANGED <<scene, timers, items, flush, hints, started, counted, handed>>

\* The image arrives: what was found is restored and the start is sent.
ImageArrives(i) ==
    LET load == loads[i]
        restored == load.attempt.found \cap DiffsOf[load.want]
    IN  /\ load.at = "image"
        /\ game' = [game EXCEPT !.attempt = load.attempt,
                                !.found = @ \cup restored,
                                !.loading = FALSE]
        /\ loads' = RemoveAt(loads, i)
        /\ Submit(Write("start", load.want, load.attempt.id, {}))
        /\ strayed' = (strayed \/ ~load.mine)
        /\ UNCHANGED <<scene, timers, store, hints, made, started, counted, handed>>

\* The level or its image cannot be loaded: the game stays as it is.
LoadFails(i) ==
    /\ loads' = RemoveAt(loads, i)
    /\ UNCHANGED <<scene, game, timers, store, items, flush, hints, made,
                   started, counted, handed, strayed>>

-----------------------------------------------------------------------------
(* Playing                                                                 *)

Playing ==
    /\ scene = "game"
    /\ game.level # None
    /\ ~game.loading
    /\ ~game.complete
    /\ ~game.timedOut

\* Mutant: a difference that is marked can be found again.
AnyDifference(g) == DiffsOf[g.level]

Undiscovered(g) == DiffsOf[g.level] \ g.found

\* markFound, with finishAfterFeedback when it is the last one
MarkFound(d) ==
    LET found == game.found \cup {d}
        last == Cardinality(found) = Cardinality(DiffsOf[game.level])
    IN  /\ SaveAttempt([game EXCEPT !.found = found, !.finishing = @ \/ last])
        /\ Submit(Write("progress", game.level, game.attempt.id, {}))
        /\ timers' = IF last /\ ~game.finishing
                     THEN Append(timers, [mine |-> TRUE]) ELSE timers
        /\ UNCHANGED <<scene, loads, made, started, counted, handed, strayed>>

\* pressGameImage
Press(d) ==
    /\ Playing
    /\ d \in Undiscovered(game)
    /\ MarkFound(d)
    /\ UNCHANGED hints

\* Mutant: the hints of the day are not counted up to the limit.
UnlimitedHint ==
    /\ Playing
    /\ hints' = hints + 1
    /\ \E d \in Undiscovered(game) : MarkFound(d)

\* useHint: the first difference that is left
UseHint ==
    /\ Playing
    /\ hints < FreeHints
    /\ hints' = hints + 1
    /\ \E d \in Undiscovered(game) :
        /\ \A e \in Undiscovered(game) : d <= e
        /\ MarkFound(d)

\* A touch that finds nothing, a zoom, or the app going to the background.
SaveView ==
    /\ game # None
    /\ SaveAttempt(game)
    /\ UNCHANGED <<scene, loads, timers, items, flush, hints, made,
                   started, counted, handed, strayed>>

\* checkTimeLimit and failByTimeout
TimeUp ==
    /\ Playing
    /\ ~game.finishing
    /\ game.level \in Timed
    /\ LET attempt == [game.attempt EXCEPT !.state = "timed_out"]
       IN  /\ game' = [game EXCEPT !.timedOut = TRUE, !.finishing = TRUE,
                                   !.attempt = attempt]
           /\ store' = [store EXCEPT ![game.level] = attempt]
    /\ UNCHANGED <<scene, loads, timers, items, flush, hints, made,
                   started, counted, handed, strayed>>

\* The timer fires: finishLevel of whatever game there is.  One without an
\* attempt makes it throw.  When a flush runs, the submit returns at once.
FinishLevel ==
    /\ timers # <<>>
    /\ timers' = Tail(timers)
    /\ strayed' = (strayed \/ ~Head(timers).mine)
    /\ IF ~Savable(game)
       THEN UNCHANGED <<game, store, items, flush, handed>>
       ELSE /\ Room
            /\ items' = Append(items, Write("complete", game.level,
                                            game.attempt.id, game.found))
            /\ handed' = IF game.found = DiffsOf[game.level]
                         THEN handed \cup {<<game.attempt.id, game.level>>}
                         ELSE handed
            /\ IF flush = None
               THEN /\ flush' = Watching(Len(items) + 1, game.level)
                    /\ UNCHANGED <<game, store>>
               ELSE /\ Finish(game.level, "queued", store)
                    /\ UNCHANGED flush
    /\ UNCHANGED <<scene, loads, hints, made, started, counted>>

\* Back and map.
Leave ==
    /\ scene = "game"
    /\ scene' = "other"
    /\ SaveAttempt(game)
    /\ UNCHANGED <<loads, timers, items, flush, hints, made,
                   started, counted, handed, strayed>>

\* The app is ended and started again: the storage is what is left.
Crash ==
    /\ scene' = "other"
    /\ game' = None
    /\ loads' = <<>>
    /\ timers' = <<>>
    /\ flush' = None
    /\ UNCHANGED <<store, items, hints, made, started, counted, handed, strayed>>

-----------------------------------------------------------------------------

Next ==
    \/ \E l \in Levels : OpenLevel(l) \/ NextLevel(l)
    \/ Replay
    \/ \E i \in DOMAIN loads : LevelArrives(i) \/ ImageArrives(i) \/ LoadFails(i)
    \/ \E d \in Diffs : Press(d)
    \/ UseHint
    \/ SaveView
    \/ TimeUp
    \/ FinishLevel
    \/ Leave
    \/ Crash
    \/ Accepted
    \/ Rejected
    \/ Failed
    \/ FlushQueue

Spec == Init /\ [][Next]_vars

-----------------------------------------------------------------------------
(* Properties                                                              *)

\* What waits, what is saved and what is queued have their types.
GameTypeOK ==
    /\ scene \in {"game", "other"}
    /\ game \in Game \cup {None}
    /\ loads \in Seq(Load)
    /\ timers \in Seq([mine : BOOLEAN])
    /\ store \in [Levels -> Saved \cup {None}]
    /\ items \in Seq(Item)
    /\ flush \in Flush \cup {None}
    /\ hints \in 0 .. FreeHints
    /\ made \in 0 .. MaxAttempts
    /\ {started, counted, handed} \subseteq SUBSET (Ids \X Levels)
    /\ strayed \in BOOLEAN

\* Claim (wechat/tests/run-tests.js:78: "a previous attempt must not overwrite
\* the active replay"): an attempt is saved as queued, synced or rejected only
\* when its own complete was submitted, and as synced only when the server has
\* counted it.
StateIsEarned ==
    \A l \in Levels : store[l] # None =>
        LET pair == <<store[l].id, l>>
        IN  /\ store[l].state \in {"sync_queued", "rejected"} => pair \in handed
            /\ store[l].state = "synced" => pair \in counted

\* As long as nothing acts on a game it does not belong to, that is so, whatever
\* the queue, the clock and the player do meanwhile.
EarnedUnlessStrayed == ~strayed => StateIsEarned

\* The game that is played is the attempt that is saved for its level, and
\* shows what was found of it and nothing else.
GameIsSaved ==
    (~strayed /\ game # None /\ game.attempt # None) =>
        /\ game.level # None
        /\ store[game.level] # None
        /\ store[game.level].id = game.attempt.id
        /\ ~game.loading => game.found = store[game.level].found

\* A finished level is reported once per attempt, with everything found, and
\* never for a game that is timed out, also when the attempt is resumed after a
\* restart, a refusal or a return from the map.
ReportedOnce ==
    [][\A i \in Len(items) + 1 .. Len(items') :
        (items'[i].route = "complete" /\ ~strayed') =>
            LET pair == <<items'[i].attempt, items'[i].level>>
            IN  pair \notin handed /\ pair \in handed' /\ ~game.timedOut]_vars

\* What is saved as found of an attempt stays saved.
FoundStaysFound ==
    [][~strayed' =>
        \A l \in Levels :
            (store[l] # None /\ store'[l].id = store[l].id) =>
                store[l].found \subseteq store'[l].found]_vars
=============================================================================
