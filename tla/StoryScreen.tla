---------------------------- MODULE StoryScreen ----------------------------
(***************************************************************************)
(* Interactive stories of the web client: StoryRuntime                     *)
(* (webgame/js/core/story.js), the screen of OddSpotApp that plays it      *)
(* (webgame/js/app.js) and what is saved of it.                            *)
(*                                                                         *)
(* The runtime enters the next node at once; the picture of the node, its  *)
(* puzzle and the save of the step wait for a download.  In between, the   *)
(* player sees the new node over what is there of the old one, and may go  *)
(* on, leave or open the story again.  As in GameScreen, "mine" and        *)
(* strayed record, for the properties only, whether what waited belongs to *)
(* the game it finds.  The queue that takes the report is OfflineSync's.   *)
(***************************************************************************)
EXTENDS PuzzleOrders, Sequences, SequencesExt

CONSTANTS
    Nodes, Start,   \* story.nodes, story.start_node
    Kind,           \* the type of a node: "hotspot", "puzzle", "choice",
                    \* "sequence", "ending" or another one
    NextNode,       \* node.next, or None
    Options,        \* where the choices of a node lead
    Spots,          \* the hotspots of a node
    Required,       \* how many of them it requires
    Answer,         \* the right order of a node's items
    Shuffles,       \* the orders a puzzle may begin with
    MaxAttempts,    \* bounds the attempts that are created
    MaxLoads,       \* bounds the loads in flight
    MaxReports,     \* bounds the timers and reports that wait
    None

\* validateStory; the author has given every node a picture and a way on.
ValidStory ==
    /\ Start \in Nodes
    /\ \A n \in Nodes :
        /\ NextNode[n] \in Nodes \cup {None}
        /\ Options[n] \subseteq Nodes
        /\ Kind[n] = "choice" => Options[n] # {}
        /\ Kind[n] \notin {"choice", "ending"} => NextNode[n] \in Nodes
        /\ Required[n] \in 0 .. Cardinality(Spots[n])
        /\ Kind[n] = "sequence" => /\ Answer[n] \in Seq(Range(Answer[n]))
                                   /\ IsInjective(Answer[n]) /\ Answer[n] # <<>>

Items == UNION {Range(Answer[n]) : n \in Nodes}

\* state of StoryRuntime; an attempt as it is saved; this.game; a download
Story == [node : Nodes, spots : [Nodes -> SUBSET UNION Range(Spots)],
          picked : [Nodes -> Seq(Items)], board : [Nodes -> Orders \cup {None}],
          completed : BOOLEAN]
AttemptRec == [id : Nat, state : {"in_progress", "synced", "rejected", "sync_queued"},
               story : Story \cup {None}]
GameRec == [story : Story \cup {None}, attempt : AttemptRec \cup {None},
            image : Nodes \cup {None}, key : Nodes \cup {None},
            puzzle : Orders \cup {None}, drawn : BOOLEAN, complete : BOOLEAN,
            finishing : BOOLEAN]
LoadRec == [by : {"open", "action"}, node : Nodes \cup {None}, fresh : BOOLEAN,
            ended : BOOLEAN, mine : BOOLEAN]

ASSUME StoryAssumption ==
    /\ ValidStory
    /\ Shuffles \subseteq Shuffled
    /\ {MaxAttempts, MaxLoads, MaxReports} \subseteq Nat

ASSUME NoneAssumption ==
    /\ None \notin Nodes
    /\ None \notin Orders
    /\ None \notin Story
    /\ None \notin AttemptRec
    /\ None \notin GameRec

VARIABLES
    scene,     \* "game" or any "other"
    game,      \* this.game, None before the first
    loads,     \* the downloads that wait
    timers,    \* the finishLevel timers that are set, each with its "mine"
    answers,   \* the reports whose result is waited for, each with its "mine"
    saved,     \* ProgressStore: the attempt that is saved of the story
    made,      \* attempts created
    reported,  \* the attempts whose complete was submitted
    strayed    \* something has acted on a game it did not belong to

vars == <<scene, game, loads, timers, answers, saved, made, reported, strayed>>

\* level and attempt are set with the story
NewGame == [story |-> None, attempt |-> None, image |-> None, key |-> None,
            puzzle |-> None, drawn |-> FALSE, complete |-> FALSE, finishing |-> FALSE]

Init ==
    /\ scene = "other"
    /\ game = None
    /\ loads = <<>>
    /\ timers = <<>>
    /\ answers = <<>>
    /\ saved = None
    /\ made = 0
    /\ reported = {}
    /\ strayed = FALSE

-----------------------------------------------------------------------------
(* StoryRuntime.  A puzzle that was completed has no order any more.       *)

Begun == [node |-> Start, spots |-> [n \in Nodes |-> {}],
          picked |-> [n \in Nodes |-> <<>>],
          board |-> [n \in Nodes |-> None], completed |-> Kind[Start] = "ending"]

\* createStoryState
Restored(story) == IF story = None THEN Begun ELSE story

Enter(story, n) ==
    [story EXCEPT !.node = n, !.completed = @ \/ Kind[n] = "ending"]

FindHotspot(story, spot) == [story EXCEPT !.spots[story.node] = @ \cup {spot}]

\* Mutant: a wrong order stays.
StaysWrong(story, item) ==
    LET picked == Append(story.picked[story.node], item)
        chosen == [story EXCEPT !.picked[story.node] = picked]
    IN  IF picked = Answer[story.node] THEN Enter(chosen, NextNode[story.node]) ELSE chosen

\* selectSequence, of an item that is not selected
SelectSequence(story, item) ==
    LET picked == Append(story.picked[story.node], item)
        chosen == [story EXCEPT !.picked[story.node] = picked]
    IN  IF Len(picked) < Len(Answer[story.node]) THEN chosen
        ELSE IF picked = Answer[story.node] THEN Enter(chosen, NextNode[story.node])
        ELSE [story EXCEPT !.picked[story.node] = <<>>]

CompletePuzzle(story) ==
    IF Kind[story.node] = "puzzle"
    THEN Enter([story EXCEPT !.board[story.node] = None], NextNode[story.node])
    ELSE story

-----------------------------------------------------------------------------
(* The screen                                                              *)

\* renderStoryGame: what the player can press
Offered(g) ==
    IF g.story = None THEN {"levels"}
    ELSE LET n == g.story.node
             enough == Cardinality(g.story.spots[n]) >= Required[n]
         IN  {"levels"} \cup
             CASE Kind[n] \in {"choice", "sequence"} -> {Kind[n]}
               [] Kind[n] = "hotspot" -> (IF g.image = None THEN {} ELSE {"hotspot"})
                                         \cup (IF enough THEN {"story next"} ELSE {})
               [] Kind[n] = "ending" -> {"story finish"}
               [] Kind[n] = "puzzle" /\ g.puzzle # None /\ g.image # None -> {}
               [] OTHER -> {"story next"}

\* handleAction, once the level is complete
AfterTheEnd == {"replay", "map", "next"}

Offers(button) ==
    /\ scene = "game"
    /\ button \in Offered(game)
    /\ game.complete => button \in AfterTheEnd

\* The place of a puzzle, once drawn, takes the touches on it for as long as
\* there is a puzzle, shown or not.
Drawn(g) ==
    [g EXCEPT !.drawn = @ \/ (/\ g.story # None
                              /\ Kind[g.story.node] = "puzzle"
                              /\ g.puzzle # None
                              /\ g.image # None)]

Captures(g) == g.puzzle # None /\ g.drawn

\* saveAttempt, in memory and in the store
Kept(g) == IF g.story = None THEN g ELSE [g EXCEPT !.attempt.story = g.story]
StoredBy(g) == IF g.story = None THEN saved ELSE Kept(g).attempt

\* finishAfterFeedback of whatever game there is
FinishAfterFeedback(g) ==
    /\ g.finishing \/ Len(timers) + Len(answers) < MaxReports
    /\ game' = Drawn([g EXCEPT !.finishing = TRUE])
    /\ timers' = IF g.finishing THEN timers ELSE Append(timers, [mine |-> TRUE])

-----------------------------------------------------------------------------
(* Opening the story                                                       *)

Disowned(s) == [i \in DOMAIN s |-> [s[i] EXCEPT !.mine = FALSE]]

\* A download keeps the runtime it was begun for.
DisownedLoads ==
    [i \in DOMAIN loads |->
        IF loads[i].mine
        THEN [loads[i] EXCEPT !.mine = FALSE,
                              !.ended = game.story # None /\ game.story.completed]
        ELSE loads[i]]

\* handleAction level (afresh) and continueCase; loadGame up to its first await
LoadGame(fresh) ==
    /\ scene = "other"
    /\ Len(loads) < MaxLoads
    /\ scene' = "game"
    /\ game' = NewGame
    /\ loads' = Append(DisownedLoads,
                       [by |-> "open", node |-> None, fresh |-> fresh,
                        ended |-> FALSE, mine |-> TRUE])
    /\ timers' = Disowned(timers)
    /\ answers' = Disowned(answers)
    /\ UNCHANGED <<saved, made, reported, strayed>>

\* getOrCreate and restart
Attempt(fresh) ==
    IF ~fresh /\ saved # None /\ saved.state # "synced" THEN saved
    ELSE [id |-> made + 1, state |-> "in_progress", story |-> None]

\* The level arrives: the attempt, its runtime, and the first picture begins.
LevelArrives(i) ==
    LET load == loads[i]
        attempt == Attempt(load.fresh)
        story == Restored(attempt.story)
    IN  /\ load.node = None
        /\ made' = IF attempt.id > made THEN made + 1 ELSE made
        /\ made' <= MaxAttempts
        /\ saved' = attempt
        /\ game' = [game EXCEPT !.attempt = attempt, !.story = story,
                                !.image = None, !.key = story.node]
        /\ loads' = [loads EXCEPT ![i].node = story.node]
        /\ strayed' = (strayed \/ ~load.mine)
        /\ UNCHANGED <<scene, timers, answers, reported>>

LevelFails(i) ==
    /\ loads[i].node = None
    /\ loads' = RemoveAt(loads, i)
    /\ UNCHANGED <<scene, game, timers, answers, saved, made, reported, strayed>>

\* The rest of loadStoryNodeMedia, when the picture has come or has not, and of
\* what waited for it.  A game without its level makes it throw.
MediaArrives(i, comes, shuffle) ==
    LET load == loads[i]
        board == game.story.board[game.story.node]
        shown == [game EXCEPT
            !.image = IF comes /\ game.key = load.node THEN load.node ELSE @,
            !.puzzle = IF Kind[load.node] # "puzzle" THEN None
                       ELSE IF board # None THEN board ELSE shuffle]
        ended == IF load.mine THEN game.story.completed ELSE load.ended
    IN  /\ load.node # None
        /\ loads' = RemoveAt(loads, i)
        /\ strayed' = (strayed \/ ~load.mine)
        /\ IF game.story = None
           THEN UNCHANGED <<game, timers, saved>>
           ELSE IF load.by = "open"
           THEN game' = Drawn(shown) /\ UNCHANGED <<timers, saved>>
           ELSE /\ saved' = StoredBy(shown)
                /\ IF ended THEN FinishAfterFeedback(Kept(shown))
                   ELSE game' = Drawn(Kept(shown)) /\ UNCHANGED timers
        /\ UNCHANGED <<scene, answers, made, reported>>

-----------------------------------------------------------------------------
(* Playing                                                                 *)

\* storyAction.  The touch has saved the game as it was; a step to another node
\* is saved with its picture, any other at once.
StoryAction(story) ==
    LET acted == [Kept(game) EXCEPT !.story = story]
    IN  /\ IF story.node # game.story.node
           THEN /\ Len(loads) < MaxLoads
                /\ loads' = Append(loads, [by |-> "action", node |-> story.node,
                                           fresh |-> FALSE, ended |-> FALSE, mine |-> TRUE])
                /\ game' = Drawn([acted EXCEPT !.image = None, !.key = story.node])
                /\ saved' = StoredBy(game)
           ELSE /\ game' = Kept(acted)
                /\ saved' = StoredBy(acted)
                /\ UNCHANGED loads
        /\ UNCHANGED <<scene, timers, answers, made, reported, strayed>>

Continue ==
    /\ Offers("story next")
    /\ StoryAction(Enter(game.story, NextNode[game.story.node]))

Choose(n) ==
    /\ Offers("choice")
    /\ n \in Options[game.story.node]
    /\ StoryAction(Enter(game.story, n))

PressSpot(spot) ==
    /\ Offers("hotspot")
    /\ ~Captures(game)
    /\ spot \in Spots[game.story.node] \ game.story.spots[game.story.node]
    /\ StoryAction(FindHotspot(game.story, spot))

PressItem(item) ==
    /\ Offers("sequence")
    /\ item \in Range(Answer[game.story.node]) \ Range(game.story.picked[game.story.node])
    /\ StoryAction(SelectSequence(game.story, item))

\* movePuzzle: the save comes before the solved puzzle is completed, and the
\* action "refresh" that follows is none of storyAction's.
MovePuzzle ==
    /\ scene = "game"
    /\ ~game.complete
    /\ Captures(game)
    /\ \E order \in Moves(game.puzzle) :
        LET moved == [game EXCEPT !.puzzle = order,
                                  !.story.board[game.story.node] = order]
            kept == Kept(moved)
        IN  /\ saved' = StoredBy(moved)
            /\ game' = IF Solved(order)
                       THEN [kept EXCEPT !.story = CompletePuzzle(@)] ELSE kept
    /\ UNCHANGED <<scene, loads, timers, answers, made, reported, strayed>>

\* Mutant: a touch does not save.
FinishUnsaved ==
    /\ Offers("story finish")
    /\ FinishAfterFeedback(game)
    /\ UNCHANGED <<scene, loads, answers, saved, made, reported, strayed>>

PressFinish ==
    /\ Offers("story finish")
    /\ FinishAfterFeedback(Kept(game))
    /\ saved' = StoredBy(game)
    /\ UNCHANGED <<scene, loads, answers, made, reported, strayed>>

\* A touch elsewhere, or the page is hidden.
SaveView ==
    /\ game # None
    /\ game' = Kept(game)
    /\ saved' = StoredBy(game)
    /\ UNCHANGED <<scene, loads, timers, answers, made, reported, strayed>>

\* The timer fires: finishLevel, of whatever game there is, up to its await
FinishLevel ==
    /\ timers # <<>>
    /\ timers' = Tail(timers)
    /\ strayed' = (strayed \/ ~Head(timers).mine)
    /\ IF game.attempt = None THEN UNCHANGED <<answers, reported>>
       ELSE /\ reported' = reported \cup {game.attempt.id}
            /\ answers' = Append(answers, [mine |-> TRUE])
    /\ UNCHANGED <<scene, game, loads, saved, made>>

\* ... and after it
Answered(state) ==
    /\ answers # <<>>
    /\ answers' = Tail(answers)
    /\ strayed' = (strayed \/ ~Head(answers).mine)
    /\ LET done == [game EXCEPT !.complete = @ \/ state # "rejected"]
       IN  IF game.attempt = None THEN game' = done /\ UNCHANGED saved
           ELSE /\ game' = [done EXCEPT !.attempt.state = state]
                /\ saved' = game'.attempt
    /\ UNCHANGED <<scene, loads, timers, made, reported>>

\* Back to the levels.
Leave ==
    /\ Offers("levels")
    /\ scene' = "other"
    /\ game' = Kept(game)
    /\ saved' = StoredBy(game)
    /\ UNCHANGED <<loads, timers, answers, made, reported, strayed>>

\* The page is closed and opened again: the storage is what is left.
Crash ==
    /\ scene' = "other"
    /\ game' = None
    /\ loads' = <<>>
    /\ timers' = <<>>
    /\ answers' = <<>>
    /\ UNCHANGED <<saved, made, reported, strayed>>

-----------------------------------------------------------------------------

Next ==
    \/ \E fresh \in BOOLEAN : LoadGame(fresh)
    \/ \E i \in DOMAIN loads :
        \/ LevelArrives(i)
        \/ LevelFails(i)
        \/ \E comes \in BOOLEAN, shuffle \in Shuffles : MediaArrives(i, comes, shuffle)
    \/ Continue
    \/ \E n \in Nodes : Choose(n)
    \/ \E spot \in UNION Range(Spots) : PressSpot(spot)
    \/ \E item \in Items : PressItem(item)
    \/ MovePuzzle
    \/ PressFinish
    \/ SaveView
    \/ FinishLevel
    \/ \E state \in {"synced", "rejected", "sync_queued"} : Answered(state)
    \/ Leave
    \/ Crash

Spec == Init /\ [][Next]_vars

-----------------------------------------------------------------------------
(* Properties                                                              *)

StoryTypeOK ==
    /\ scene \in {"game", "other"}
    /\ game \in GameRec \cup {None}
    /\ loads \in Seq(LoadRec)
    /\ timers \in Seq([mine : BOOLEAN])
    /\ answers \in Seq([mine : BOOLEAN])
    /\ saved \in AttemptRec \cup {None}
    /\ made \in Nat
    /\ reported \in SUBSET Nat
    /\ strayed \in BOOLEAN

\* An author's part, which validateStory leaves open: no story leads back to a
\* sequence it has solved.  The items stay selected, so there would be none to
\* press (selectSequence).
Closed(nodes) ==
    \A n \in nodes : Options[n] \cup {NextNode[n]} \subseteq nodes \cup {None}
SequencesOnce ==
    \A n \in Nodes : Kind[n] = "sequence" =>
        \E beyond \in SUBSET Nodes :
            NextNode[n] \in beyond /\ n \notin beyond /\ Closed(beyond)

\* No move of the grid spoils a board that can be put together (true of 2 x 3, not
\* of 3 x 3).
MovesSpoilNothing == \A step \in Steps : step[1] \in Solvable => step[2] \in Solvable

\* A puzzle that is shown can be put together, whatever was moved before.
BoardSolvable ==
    (game # None /\ game.puzzle # None) => game.puzzle \in Solvable

\* The screen shows the node that is played, with its picture and its puzzle.
Current(g) ==
    /\ g.image = g.story.node
    /\ g.puzzle # None <=> Kind[g.story.node] = "puzzle"

\* When a node is shown with its picture and nothing is waited for, the player
\* can go on: there is a button, a hotspot, an item or a move that changes the
\* story (a solved puzzle that is opened again has none, see the README).
GoesOn ==
    (/\ scene = "game" /\ game.story # None /\ loads = <<>>
     /\ ~game.finishing /\ Current(game)) =>
        LET n == game.story.node
        IN  \/ Offered(game) \cap {"story next", "story finish", "choice"} # {}
            \/ Kind[n] = "hotspot" /\ Spots[n] # game.story.spots[n]
            \/ Kind[n] = "sequence" /\ Range(Answer[n]) # Range(game.story.picked[n])
            \/ Kind[n] = "puzzle" /\ (Solved(game.puzzle) \/ Moves(game.puzzle) # {})

\* An attempt that is reported as complete is saved at its ending, so that a
\* restart while the report is waited for does not bring back an earlier node.
ReportedAtEnd ==
    (~strayed /\ saved # None /\ saved.id \in reported) =>
        saved.story # None /\ saved.story.completed

\* The puzzle on the screen, if there is one, is that of the node that is played.
\* (Until the picture of a node has come, the puzzle of an earlier one can be moved.)
InPlace == game # None /\ game.story # None => game.image = game.story.node

\* What is saved of an attempt is not lost by resuming it, restarting or a late
\* download: the hotspots found, the ending reached, and until a puzzle is solved
\* the pieces of it that were put together.
StoryIsKept ==
    [][(saved # None /\ saved'.id = saved.id /\ saved.story # None) =>
        /\ saved'.story # None
        /\ saved.story.completed => saved'.story.completed
        /\ \A n \in Nodes : saved.story.spots[n] \subseteq saved'.story.spots[n]
        /\ InPlace => \A n \in Nodes :
            LET board == saved.story.board[n]
                next == saved'.story.board[n]
            IN  board \notin {None, next} /\ ~Solved(board) =>
                    next # None /\ Pieces(board) \subseteq Pieces(next)]_vars
=============================================================================
