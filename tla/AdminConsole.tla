---------------------------- MODULE AdminConsole ----------------------------
(***************************************************************************)
(* Editors in front of the content console (admin/app.js), the versions of *)
(* one level that they write on the server (catalog/service.go), and the   *)
(* reviewers who move the same versions through the content state machine  *)
(* (content/service.go).                                                   *)
(*                                                                         *)
(* Each console keeps a copy of the level, a number it gives to the next   *)
(* version, and a flag that asks before edits are dropped.  Nothing in the *)
(* console waits for a request: a handler that awaits one is cut where it  *)
(* waits, and the editor may edit, save again, leave or reload meanwhile.  *)
(***************************************************************************)
EXTENDS Naturals, FiniteSets

CONSTANTS
    Consoles,
    Contents,      \* what a level can hold
    Complete,      \* the contents that may be published
    Blank,         \* the content of a new level
    MaxVersion,    \* bounds the versions
    MaxOpening,    \* bounds how often the editor is opened
    MaxInFlight,   \* bounds the requests a console has in flight
    Reviewed,      \* bounds the versions that reviewers move
    None

ASSUME ConsoleAssumption ==
    /\ Complete \subseteq Contents
    /\ Blank \in Contents
    /\ None \notin Contents
    /\ None \notin Consoles
    /\ MaxVersion \in Nat \ {0}
    /\ MaxOpening \in Nat
    /\ MaxInFlight \in Nat
    /\ Reviewed \subseteq 1..MaxVersion

VARIABLES
    rows,      \* level_versions of the level
    bound,     \* the level is in content_series_levels
    born,      \* newLevel has made the level's id
    con,       \* the consoles
    posts,     \* the saves in flight
    openings   \* how often the editor was opened, by anybody

vars == <<rows, bound, born, con, posts, openings>>

Versions == 1..MaxVersion
Statuses == {"draft", "generated", "auto_review_failed", "pending_review", "approved",
             "staging", "published", "disabled"}

-----------------------------------------------------------------------------
(* The versions                                                            *)

Stored == {v \in Versions : rows[v] # None}
Newest == CHOOSE v \in Stored : \A w \in Stored : w <= v
Published == {v \in Stored : rows[v].status = "published"}

\* What the public catalogue offers: the newest published version.
Served == IF bound THEN Published ELSE {}

\* What the admin catalogue shows of the newest version, if it is listed at all: the
\* table's buttons tell only these apart.
Listed ==
    IF ~bound \/ Stored = {} \/ rows[Newest].status \in {"generated", "auto_review_failed"}
    THEN "none"
    ELSE IF rows[Newest].status \in {"published", "disabled"} THEN rows[Newest].status
    ELSE "other"

\* content.allowed
Allowed ==
    {<<"draft", "generated">>, <<"generated", "auto_review_failed">>,
     <<"generated", "pending_review">>, <<"auto_review_failed", "draft">>,
     <<"pending_review", "approved">>, <<"pending_review", "auto_review_failed">>,
     <<"approved", "staging">>, <<"staging", "published">>, <<"staging", "disabled">>,
     <<"published", "disabled">>, <<"disabled", "staging">>}

-----------------------------------------------------------------------------
(* A console.  kept is what its copy was when last loaded or acknowledged, *)
(* slipped that an edit may have escaped the flag, waits the one request   *)
(* besides saves that it has in flight (one, to bound the model).          *)

Requests == {"nothing", "level", "size", "upload", "listing", "published", "disabled",
             "delete", "counted"}

Fresh == [view |-> "signin", copy |-> None, version |-> 0, opening |-> 0, dirty |-> FALSE,
          listed |-> "none", waits |-> "nothing", kept |-> None, slipped |-> FALSE]

\* The buttons of a level's row, by the status in the table.
TableButtons(listed) ==
    {"edit", "remove"}
    \cup (IF listed = "published" THEN {"disabled"} ELSE {"delete"})
    \cup (IF listed = "disabled" THEN {"published"} ELSE {})

\* What the editors draw below the level, and what is added to them afterwards.
EditorButtons == {"field", "draft", "publish"}
AddedButtons == {"back", "pick", "upload"}

Buttons(r) ==
    IF r.view = "editor" THEN EditorButtons \cup AddedButtons
    ELSE IF r.view = "list" /\ r.listed # "none" THEN TableButtons(r.listed)
    ELSE {}

\* The catalogue as loadData brings it, and the table drawn over what is shown.
Loaded(r) == [r EXCEPT !.listed = Listed]
TableShown(r) == [r EXCEPT !.view = "list"]

Update(c, r) == con' = [con EXCEPT ![c] = r]

Own(c) == {p \in posts : p.console = c}

\* Nothing in the code keeps a request from being sent while others are in flight.
MaySend(c) ==
    Cardinality(Own(c)) + (IF con[c].waits = "nothing" THEN 0 ELSE 1) < MaxInFlight
Asks(c, request) ==
    /\ con[c].waits = "nothing"
    /\ MaySend(c)
    /\ Update(c, [con[c] EXCEPT !.waits = request])

\* openEditorById and newLevel: another level takes the copy's place
OpenedWith(r, content, version) ==
    [r EXCEPT !.view = "editor", !.copy = content, !.version = version,
              !.opening = openings + 1, !.kept = content, !.slipped = FALSE]

Init ==
    /\ rows = [v \in Versions |-> None]
    /\ bound = FALSE
    /\ born = FALSE
    /\ con = [c \in Consoles |-> Fresh]
    /\ posts = {}
    /\ openings = 0

-----------------------------------------------------------------------------
(* Signing in, looking and leaving                                         *)

\* The token is good and loadData gets both its answers.
SignIn(c) ==
    /\ con[c].view = "signin"
    /\ Update(c, TableShown(Loaded(con[c])))
    /\ UNCHANGED <<rows, bound, born, posts, openings>>

\* The page goes, by logout or by the browser; a save that was sent may still arrive.
Unload(c) ==
    /\ con[c].view # "signin"
    /\ Update(c, Fresh)
    /\ posts' = {p \in posts : p.console # c}
                  \cup {[p EXCEPT !.console = None] : p \in {q \in Own(c) : q.at = "sent"}}
    /\ UNCHANGED <<rows, bound, born, openings>>

\* The table comes back over whatever is shown, the editor included, and asks nothing.
RefreshData(c) ==
    /\ con[c].view # "signin"
    /\ Update(c, TableShown(Loaded(con[c])))
    /\ UNCHANGED <<rows, bound, born, posts, openings>>

\* The menu: it asks when the flag is up, and leaves the flag as it is.
Navigate(c) ==
    /\ con[c].view = "editor"
    /\ Update(c, TableShown(con[c]))
    /\ UNCHANGED <<rows, bound, born, posts, openings>>

\* The button above the editor: it asks too, and lowers the flag.
ReturnFromEditor(c) ==
    /\ "back" \in Buttons(con[c])
    /\ Update(c, TableShown([con[c] EXCEPT !.dirty = FALSE]))
    /\ UNCHANGED <<rows, bound, born, posts, openings>>

NewLevel(c) ==
    /\ con[c].view = "list"
    /\ ~born
    /\ openings < MaxOpening
    /\ born' = TRUE
    /\ openings' = openings + 1
    /\ Update(c, OpenedWith(con[c], Blank, 1))
    /\ UNCHANGED <<rows, bound, posts>>

\* openEditorById asks for the level, and goes on with what it is by then.
OpenEditor(c) ==
    /\ "edit" \in Buttons(con[c])
    /\ Asks(c, "level")
    /\ UNCHANGED <<rows, bound, born, posts, openings>>

EditorOpens(c) ==
    /\ con[c].waits = "level"
    /\ \/ /\ Stored # {}
          /\ openings < MaxOpening
          /\ openings' = openings + 1
          /\ Update(c, [OpenedWith(con[c], rows[Newest].content, Newest)
                          EXCEPT !.waits = "nothing", !.dirty = FALSE])
       \/ /\ Update(c, [con[c] EXCEPT !.waits = "nothing"])
          /\ UNCHANGED openings
    /\ UNCHANGED <<rows, bound, born, posts>>

-----------------------------------------------------------------------------
(* Editing                                                                 *)

\* markDirty
Marked(c, r, content) ==
    [r EXCEPT !.copy = content, !.dirty = TRUE, !.slipped = @ \/ Own(c) # {}]

\* Every field and hotspot of the editors changes the copy and marks it.
Edit(c) ==
    /\ "field" \in Buttons(con[c])
    /\ \E content \in Contents \ {con[c].copy} : Update(c, Marked(c, con[c], content))
    /\ UNCHANGED <<rows, bound, born, posts, openings>>

\* selectLevelAsset asks for the size of the picture, and puts it into the level that
\* is open by then.
PickAsset(c) ==
    /\ "pick" \in Buttons(con[c])
    /\ Asks(c, "size")
    /\ UNCHANGED <<rows, bound, born, posts, openings>>

AssetPicked(c) ==
    /\ con[c].waits = "size"
    /\ LET r == [con[c] EXCEPT !.waits = "nothing"] IN
       \/ \E content \in Contents \ {r.copy} :
            Update(c, [Marked(c, r, content) EXCEPT !.view = "editor"])
       \/ Update(c, r)
    /\ UNCHANGED <<rows, bound, born, posts, openings>>

UploadLevelImage(c) ==
    /\ "upload" \in Buttons(con[c])
    /\ Asks(c, "upload")
    /\ UNCHANGED <<rows, bound, born, posts, openings>>

\* The image goes into the level that is open by then; the flag waits for the catalogue.
UploadArrives(c) ==
    /\ con[c].waits = "upload"
    /\ \E content \in Contents \ {con[c].copy} :
         Update(c, [con[c] EXCEPT !.copy = content, !.waits = "listing", !.slipped = TRUE])
    /\ UNCHANGED <<rows, bound, born, posts, openings>>

\* The catalogue is loaded, or is not: then the image stays and nothing is flagged.
UploadEnds(c) ==
    /\ con[c].waits \in {"upload", "listing"}
    /\ \/ /\ con[c].waits = "listing"
          /\ Update(c, [Loaded(con[c]) EXCEPT !.waits = "nothing", !.dirty = TRUE,
                                              !.view = "editor"])
       \/ Update(c, [con[c] EXCEPT !.waits = "nothing"])
    /\ UNCHANGED <<rows, bound, born, posts, openings>>

-----------------------------------------------------------------------------
(* Saving.  The flag goes down and the number goes up before the request,  *)
(* and the number stays up if the request fails.                           *)

Bumped(r) == [r EXCEPT !.version = @ + 1]

\* showPublishModal and saveLevel refuse to publish what is not complete.
Publishable(content, status) == status = "published" => content \in Complete

SaveLevel(c, status) ==
    /\ {"draft", "publish"} \subseteq Buttons(con[c])
    /\ MaySend(c)
    /\ IF Publishable(con[c].copy, status)
       THEN LET r == Bumped(con[c]) IN
            /\ r.version \in Versions
            /\ Update(c, [r EXCEPT !.dirty = FALSE, !.slipped = @ /\ Own(c) # {}])
            /\ posts' = posts \cup {[console |-> c, opening |-> r.opening,
                                     version |-> r.version, status |-> status,
                                     content |-> r.copy, at |-> "sent"]}
       ELSE /\ Update(c, [con[c] EXCEPT !.dirty = TRUE])
            /\ UNCHANGED posts
    /\ UNCHANGED <<rows, bound, born, openings>>

Becomes(p, at) == posts' = (posts \ {p}) \cup {[p EXCEPT !.at = at]}

\* UpsertLevel: the version is written, over one of the same number if there is one.
UpsertLevel(p) ==
    /\ p.at = "sent"
    /\ rows' = [rows EXCEPT ![p.version] =
                  [status |-> p.status, content |-> p.content, by |-> p.opening]]
    /\ bound' = TRUE
    /\ IF p.console = None THEN posts' = posts \ {p} ELSE Becomes(p, "stored")
    /\ UNCHANGED <<born, con, openings>>

\* Mutant: a save that fails leaves the flag as it is.
FailsQuietly(r) == r

\* Mutant: a save that fails takes its number back.
RolledBack(r) == [r EXCEPT !.dirty = TRUE, !.version = @ - 1]

SaveFailed(r) == [r EXCEPT !.dirty = TRUE]

\* The request or its answer is lost, or is refused.
SaveFails(p) ==
    /\ p.at \in {"sent", "stored"}
    /\ posts' = posts \ {p}
    /\ IF p.console = None THEN UNCHANGED con
       ELSE Update(p.console, SaveFailed(con[p.console]))
    /\ UNCHANGED <<rows, bound, born, openings>>

\* The flag goes down, whatever was edited since.
SaveAnswered(p) ==
    /\ p.at = "stored"
    /\ LET r == con[p.console] IN
       Update(p.console,
              [r EXCEPT !.dirty = FALSE,
                        !.kept = IF r.opening = p.opening THEN p.content ELSE @])
    /\ Becomes(p, "answered")
    /\ UNCHANGED <<rows, bound, born, openings>>

\* The catalogue is loaded and the editor drawn, wherever the user is by then.
SaveEnds(p) ==
    /\ p.at = "answered"
    /\ posts' = posts \ {p}
    /\ LET r == con[p.console] IN
       \/ Update(p.console, [Loaded(r) EXCEPT !.view = "editor"])
       \/ Update(p.console, SaveFailed(r))
    /\ UNCHANGED <<rows, bound, born, openings>>

-----------------------------------------------------------------------------
(* Publishing and taking down from the table, and deleting                 *)

\* The buttons go by the status in the table.
SetLevelStatus(c) ==
    /\ \E status \in {"published", "disabled"} \cap Buttons(con[c]) : Asks(c, status)
    /\ UNCHANGED <<rows, bound, born, posts, openings>>

\* The server writes the newest version, whatever it is by then.
StatusSet(c) ==
    /\ con[c].waits \in {"published", "disabled"}
    /\ rows' = IF Stored = {} THEN rows ELSE [rows EXCEPT ![Newest].status = con[c].waits]
    /\ Update(c, [con[c] EXCEPT !.waits = "nothing"])
    /\ UNCHANGED <<bound, born, posts, openings>>

RemoveLevelFromSeries(c) ==
    /\ "remove" \in Buttons(con[c])
    /\ bound' = FALSE
    /\ Update(c, [con[c] EXCEPT !.listed = "none"])
    /\ UNCHANGED <<rows, born, posts, openings>>

DeleteLevel(c) ==
    /\ "delete" \in Buttons(con[c])
    /\ Asks(c, "delete")
    /\ UNCHANGED <<rows, bound, born, posts, openings>>

\* The transaction counts what is published, without a lock.
DeleteCounts(c) ==
    /\ con[c].waits = "delete"
    /\ Update(c, [con[c] EXCEPT !.waits =
                    IF Stored = {} \/ Published # {} THEN "nothing" ELSE "counted"])
    /\ UNCHANGED <<rows, bound, born, posts, openings>>

DeleteRuns(c) ==
    /\ con[c].waits = "counted"
    /\ rows' = [v \in Versions |-> None]
    /\ bound' = FALSE
    /\ Update(c, [con[c] EXCEPT !.waits = "nothing", !.listed = "none"])
    /\ UNCHANGED <<born, posts, openings>>

\* Transition: a reviewer's request, under a lock on the version.
Transition(v, to) ==
    /\ v \in Reviewed
    /\ rows[v] # None
    /\ <<rows[v].status, to>> \in Allowed
    /\ rows' = [rows EXCEPT ![v].status = to]
    /\ UNCHANGED <<bound, born, con, posts, openings>>

-----------------------------------------------------------------------------
Console(c) ==
    \/ SignIn(c) \/ Unload(c) \/ RefreshData(c) \/ Navigate(c) \/ ReturnFromEditor(c)
    \/ NewLevel(c) \/ OpenEditor(c) \/ EditorOpens(c)
    \/ Edit(c) \/ PickAsset(c) \/ AssetPicked(c) \/ UploadLevelImage(c) \/ UploadArrives(c) \/ UploadEnds(c)
    \/ \E status \in {"draft", "published"} : SaveLevel(c, status)
    \/ SetLevelStatus(c) \/ StatusSet(c) \/ RemoveLevelFromSeries(c)
    \/ DeleteLevel(c) \/ DeleteCounts(c) \/ DeleteRuns(c)

Next ==
    \/ \E c \in Consoles : Console(c)
    \/ \E p \in posts : UpsertLevel(p) \/ SaveFails(p) \/ SaveAnswered(p) \/ SaveEnds(p)
    \/ \E v \in Versions, to \in Statuses : Transition(v, to)

Spec == Init /\ [][Next]_vars

-----------------------------------------------------------------------------
(* Properties                                                              *)

ConsoleTypeOK ==
    /\ rows \in [Versions -> [status : Statuses, content : Contents, by : 1..MaxOpening]
                              \cup {None}]
    /\ bound \in BOOLEAN
    /\ born \in BOOLEAN
    /\ con \in [Consoles ->
         [view : {"signin", "list", "editor"}, copy : Contents \cup {None},
          version : 0..MaxVersion, opening : 0..MaxOpening, dirty : BOOLEAN,
          listed : {"none", "published", "disabled", "other"}, waits : Requests,
          kept : Contents \cup {None}, slipped : BOOLEAN]]
    /\ posts \subseteq
         [console : Consoles \cup {None}, opening : 1..MaxOpening, version : Versions,
          status : {"draft", "published"}, content : Contents,
          at : {"sent", "stored", "answered"}]
    /\ openings \in 0..MaxOpening

\* What one opening of the editor has stored under a number, no later save of the
\* same opening writes over: a player may already have begun that version, and the
\* save may be a second try whose first one landed (level_version goes up before
\* the request and is not taken back, admin/app.js saveLevel).
VersionsStand ==
    [][\A v \in Versions :
         rows[v] # None /\ rows'[v] # None /\ rows'[v].content # rows[v].content
           => rows'[v].by # rows[v].by]_vars

\* An editor that would be left without a question shows what the server has
\* acknowledged, or what a save in flight carries, unless it was edited during a
\* save or an upload placed its image (setSave, markDirty).
CleanIsKept ==
    \A c \in Consoles :
      con[c].view = "editor" /\ ~con[c].dirty /\ ~con[c].slipped =>
        \/ con[c].copy = con[c].kept
        \/ \E p \in Own(c) :
             p.opening = con[c].opening /\ p.content = con[c].copy

\* Taking the level down leaves nothing of it for the players (the question that the
\* console asks first, admin/app.js setLevelStatus).
DownHides ==
    [][\A c \in Consoles :
         con[c].waits = "disabled" /\ StatusSet(c) => Served' = {}]_vars
=============================================================================
