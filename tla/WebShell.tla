------------------------------ MODULE WebShell ------------------------------
(***************************************************************************)
(* The shell of the web client: the sign-in panel (webgame/js/ui/login.js) *)
(* over the screens of OddSpotApp (webgame/js/app.js), and the session     *)
(* that the requests of both read and write (webgame/js/services/api.js,   *)
(* core/storage.js).                                                       *)
(*                                                                         *)
(* Every function that awaits a request is a task; what it does after the  *)
(* await is a step of its own, taken in the shell as it is by then.  Any   *)
(* request that carries the session may find it expired: it is renewed, or *)
(* is refused, which clears it and shows the panel.  Of a level there is   *)
(* only whether it is over; GameScreen and StoryScreen play it.            *)
(***************************************************************************)
CONSTANTS
    Accounts,
    Slots,      \* bounds the tasks in flight
    None

Scenes == {"loading", "login", "home", "museum", "levels", "settings", "game"}
Modals == {"", "locked", "hintLimit", "privacy", "knowledge"}
Modes == {"phone", "email"}
Forms == {"login", "code", "profile"}
Phases == {"loading", "playing", "finishing", "intro", "complete", "timedOut"}

\* What makes or ends a session, and what only uses it
Requested == {"account", "verify", "register", "refused", "token", "carrier", "consent",
              "one tap", "naming", "profile", "refresh", "config", "flush", "logout"}
Asked == {"code", "catalog", "level", "request"}

\* A task, and whose session or, of one-tap sign-in, whose button it goes by
Task == [at : Requested \cup Asked, by : {None} \cup Accounts \cup Forms]
Level == [phase : Phases, story : BOOLEAN]

ASSUME ShellAssumption == None \notin Accounts \cup Task \cup Level

VARIABLES
    ui,       \* scene, failed (this.error), modal, level, catalog (catalogData)
    panel,    \* the sign-in panel
    session,  \* SessionStore: whose tokens and whose name it holds
    tasks,    \* what is awaited, by slot
    chosen,   \* the account the player signed in to last
    crossed   \* two sign-ins overlapped, or the session was changed with
              \* something else in flight

vars == <<ui, panel, session, tasks, chosen, crossed>>

-----------------------------------------------------------------------------
(* SessionStore                                                            *)

NoSession == [user |-> None, name |-> None]

\* update with the answer to a sign-in: a name that is empty leaves the old one.
Updated(user, named) ==
    [user |-> user, name |-> IF named THEN user ELSE session.name]

\* Mutant: the name stays.
KeepsName(s) == [s EXCEPT !.user = None]

Cleared(s) == NoSession

-----------------------------------------------------------------------------
(* The panel.  The probe for one-tap sign-in runs when the phone tab is     *)
(* shown and is not awaited.                                               *)

NewPanel == [shown |-> FALSE, forms |-> {"login"}, mode |-> "phone", ticket |-> None,
             tap |-> "asking", button |-> FALSE]

WithMode(p, mode) ==
    [p EXCEPT !.mode = mode,
              !.button = IF mode = "email" THEN FALSE
                         ELSE IF p.tap = "asking" THEN @
                         ELSE p.tap = "ready"]

LoginForm(p) == [p EXCEPT !.ticket = None, !.forms = {"login"}]

Shown(p) == LoginForm(WithMode([p EXCEPT !.shown = TRUE], p.mode))
Hidden(p) == [p EXCEPT !.shown = FALSE]

-----------------------------------------------------------------------------
(* Screens                                                                 *)

NewLevel(story) == [phase |-> "loading", story |-> story]
Over(l) == l # None /\ l.phase \in {"complete", "timedOut"}

Opened == [scene |-> "loading", failed |-> FALSE, modal |-> "", level |-> None,
           catalog |-> FALSE]

LoginScreen(u) ==
    [u EXCEPT !.scene = "login", !.failed = FALSE, !.modal = "", !.level = None]
HomeScreen(u) ==
    [u EXCEPT !.scene = "home", !.modal = "", !.catalog = FALSE, !.level = None]
BootstrapError(u) == [u EXCEPT !.scene = "loading", !.failed = TRUE, !.level = None]

Navigation == {"home", "museum", "leaderboard", "profile"}
HomeButtons(u) ==
    {"settings", "continueCase"} \cup Navigation
    \cup (IF u.catalog THEN {"daily", "series"} ELSE {})
LevelsButtons(u) ==
    {"home", "settings"} \cup (IF u.catalog THEN {"level", "locked"} ELSE {})
SettingsButtons == {"toggle", "language", "privacy", "logout", "home"}
OverButtons(l) ==
    CASE l.story -> {}
      [] l.phase = "complete" -> {"replay", "map", "next"}
      [] l.phase = "timedOut" -> {"replay", "map"}
      [] OTHER -> {}
GameButtons(l) ==
    {"levels"} \cup (IF l.story THEN {"story"} ELSE {"replay", "hint", "knowledge"})
    \cup OverButtons(l)

Drawn(u) ==
    CASE u.scene = "loading" -> (IF u.failed THEN {"retry"} ELSE {})
      [] u.scene = "login" -> {}
      [] u.scene = "home" -> HomeButtons(u)
      [] u.scene = "museum" -> Navigation
      [] u.scene = "levels" -> LevelsButtons(u)
      [] u.scene = "settings" -> SettingsButtons
      [] u.scene = "game" -> GameButtons(u.level)

\* onTouchEnd and handleAction: what is pressed and heard
Heard(u) ==
    (IF u.modal = "" THEN Drawn(u) ELSE {"modalClose"})
    \cap (IF u.scene = "game" /\ Over(u.level) THEN {"replay", "map", "next"}
          ELSE Drawn(u) \cup {"modalClose"})

\* A tap during the introduction ends it, wherever it is.
Presses(button) ==
    /\ button \in Heard(ui)
    /\ ui.level # None => ui.level.phase # "intro"

-----------------------------------------------------------------------------
(* Tasks                                                                   *)

InFlight(at) == {i \in Slots : tasks[i] # None /\ tasks[i].at = at}
Idle == \A i \in Slots : tasks[i] = None

Goes(i, at, by) == tasks' = [tasks EXCEPT ![i] = [at |-> at, by |-> by]]
Ends(i) == tasks' = [tasks EXCEPT ![i] = None]

\* What makes or ends a session is begun.
Contends == crossed' = (crossed \/ \E at \in Requested : InFlight(at) # {})

\* What becomes of the session, and who was in flight then.
Holds(i, s) ==
    /\ session' = s
    /\ crossed' = (crossed \/ (s # session /\ \E j \in Slots \ {i} : tasks[j] # None))

\* The ways a request that carries the session is answered.  Without a session
\* there is nothing to renew.
Answers(i) ==
    {"ok", "failed"} \cup (IF tasks[i].by = None THEN {} ELSE {"renewed", "ended"})

\* refreshSession and its callers' await: the shell it leaves behind.
Carried(i, answer) ==
    \/ /\ answer = "renewed"
       /\ Holds(i, [session EXCEPT !.user = tasks[i].by])
       /\ UNCHANGED chosen
    \/ /\ answer = "ended"
       /\ Holds(i, Cleared(session))
       /\ chosen' = None
    \/ /\ answer \notin {"renewed", "ended"}
       /\ UNCHANGED <<session, chosen, crossed>>

UiAfter(answer) == IF answer = "ended" THEN LoginScreen(ui) ELSE ui
PanelAfter(answer) == IF answer = "ended" THEN Shown(panel) ELSE panel

Accepted(answer) == answer \in {"ok", "renewed"}

\* bootstrap up to its first await, of a task or of a new one
Bootstrap(i, s) ==
    IF s.user = None
    THEN /\ ui' = LoginScreen(ui)
         /\ panel' = Shown(panel)
         /\ Ends(i)
    ELSE /\ ui' = [ui EXCEPT !.scene = "loading", !.failed = FALSE, !.level = None]
         /\ panel' = Hidden(panel)
         /\ \E at \in {"refresh", "config"} : Goes(i, at, s.user)

-----------------------------------------------------------------------------
(* Start                                                                   *)

\* The page with what the storage holds: start and bootstrap
Started(s, first) ==
    IF s.user = None
    THEN [ui |-> LoginScreen(Opened), panel |-> Shown(NewPanel), task |-> None]
    ELSE [ui |-> Opened, panel |-> NewPanel, task |-> [at |-> first, by |-> s.user]]

Init ==
    /\ session \in {NoSession} \cup {[user |-> a, name |-> a] : a \in Accounts}
    /\ chosen = session.user
    /\ crossed = FALSE
    /\ \E i \in Slots, first \in {"refresh", "config"} :
        LET begun == Started(session, first)
        IN  /\ ui = begun.ui
            /\ panel = begun.panel
            /\ tasks = [j \in Slots |-> IF j = i THEN begun.task ELSE None]

-----------------------------------------------------------------------------
(* bootstrap after each await                                              *)

Refreshed(i, answer) ==
    /\ tasks[i].at = "refresh"
    /\ answer \in {"failed", "renewed", "ended"}
    /\ Carried(i, answer)
    /\ IF answer = "renewed"
       THEN Goes(i, "config", session'.user) /\ UNCHANGED <<ui, panel>>
       ELSE /\ Ends(i)
            /\ IF session'.user # None
               THEN ui' = BootstrapError(ui) /\ UNCHANGED panel
               ELSE ui' = LoginScreen(ui) /\ panel' = Shown(panel)

Configured(i, answer) ==
    /\ tasks[i].at = "config"
    /\ answer \in Answers(i)
    /\ Carried(i, answer)
    /\ panel' = PanelAfter(answer)
    /\ IF Accepted(answer)
       THEN Goes(i, "flush", session'.user) /\ UNCHANGED ui
       ELSE Ends(i) /\ ui' = BootstrapError(UiAfter(answer))

\* Whatever has become of the flush, home is shown.
Flushed(i, answer) ==
    /\ tasks[i].at = "flush"
    /\ answer \in Answers(i)
    /\ Carried(i, answer)
    /\ panel' = PanelAfter(answer)
    /\ ui' = HomeScreen(UiAfter(answer))
    /\ Goes(i, "catalog", session'.user)

\* CatalogRepository: the catalogue that was kept stands in for one that does not
\* come.
Gets(answer, kept) == Accepted(answer) \/ kept

\* The catalogue of showHome and showLevelSelect
CatalogArrives(i, answer, kept) ==
    /\ tasks[i].at = "catalog"
    /\ answer \in Answers(i)
    /\ Carried(i, answer)
    /\ panel' = PanelAfter(answer)
    /\ ui' = [UiAfter(answer) EXCEPT !.catalog = @ \/ Gets(answer, kept)]
    /\ Ends(i)

\* loadGame
LevelArrives(i, answer) ==
    /\ tasks[i].at = "level"
    /\ answer \in Answers(i)
    /\ Carried(i, answer)
    /\ panel' = PanelAfter(answer)
    /\ LET after == UiAfter(answer)
       IN  ui' = IF Accepted(answer) /\ after.level # None /\ after.level.phase = "loading"
                 THEN [after EXCEPT !.level.phase = "playing"] ELSE after
    /\ Ends(i)

\* Any other request of the screens: the queue, hashes, locale, events
Ask(i) ==
    /\ session.user # None
    /\ Goes(i, "request", session.user)
    /\ UNCHANGED <<ui, panel, session, chosen, crossed>>

AskAnswered(i, answer) ==
    /\ tasks[i].at = "request"
    /\ answer \in Answers(i)
    /\ Carried(i, answer)
    /\ panel' = PanelAfter(answer)
    /\ ui' = UiAfter(answer)
    /\ Ends(i)

-----------------------------------------------------------------------------
(* Signing in                                                              *)

OnPanel(form) == panel.shown /\ form \in panel.forms

\* A change of the panel alone
Turns(p) ==
    /\ panel.shown
    /\ panel' = p
    /\ UNCHANGED <<ui, session, tasks, chosen, crossed>>

SetMode(mode) == Turns(WithMode(panel, mode))
ShowLogin == panel.forms # {"login"} /\ Turns(LoginForm(panel))
ShowRegistration == OnPanel("login") /\ Turns([panel EXCEPT !.forms = {"code"}])

\* tryEnableH5OneClick; its answer does not ask for the tab that is shown.
Probed(ready) ==
    /\ panel.tap = "asking"
    /\ panel' = [panel EXCEPT !.tap = IF ready THEN "ready" ELSE "failed", !.button = ready]
    /\ UNCHANGED <<ui, session, tasks, chosen, crossed>>

\* A form is sent: by its button, or by Enter, which does not mind that the
\* button is disabled.
Submits(i, at) ==
    /\ Goes(i, at, None)
    /\ Contends
    /\ UNCHANGED <<ui, panel, session, chosen>>

Login(i) == OnPanel("login") /\ Submits(i, "account")

\* The button is disabled until the code is sent or refused.
SendCode(i) ==
    /\ OnPanel("code")
    /\ InFlight("code") = {}
    /\ Goes(i, "code", None)
    /\ UNCHANGED <<ui, panel, session, chosen, crossed>>

CodeSent(i) ==
    /\ tasks[i].at = "code"
    /\ Ends(i)
    /\ UNCHANGED <<ui, panel, session, chosen, crossed>>

VerifyCode(i) ==
    /\ OnPanel("code")
    /\ InFlight("verify") = {} \/ panel.forms = {"code"}
    /\ Submits(i, "verify")
\* The server takes a ticket only on the route of the tab it was given for.
CompleteRegistration(i) ==
    /\ OnPanel("profile")
    /\ InFlight("register") = {} \/ "login" \notin panel.forms
    /\ Submits(i, IF panel.ticket = panel.mode THEN "register" ELSE "refused")

Denied(i) ==
    /\ tasks[i].at \in {"account", "verify", "register", "refused"}
    /\ Ends(i)
    /\ UNCHANGED <<ui, panel, session, chosen, crossed>>

\* The token of the user server is exchanged for a session of the game.
ExchangeUserToken(i, account, named) ==
    /\ Holds(i, Updated(account, named))
    /\ chosen' = account
    /\ UNCHANGED <<ui, panel>>

AccountSignsIn(i, account, named) ==
    /\ tasks[i].at = "account"
    /\ ExchangeUserToken(i, account, named)
    /\ Goes(i, "profile", account)

\* verifyEmailCode, verifyPhoneCode, of a contact that has an account
CodeSignsIn(i, account, named) ==
    /\ tasks[i].at = "verify"
    /\ ExchangeUserToken(i, account, named)
    /\ Goes(i, "profile", account)

\* completeEmailRegistration, completePhoneRegistration
Registers(i, account, named) ==
    /\ tasks[i].at = "register"
    /\ ExchangeUserToken(i, account, named)
    /\ \E at \in {"naming", "profile"} : Goes(i, at, account)

TapSignsIn(i, account, named) ==
    /\ tasks[i].at = "one tap"
    /\ ExchangeUserToken(i, account, named)
    /\ Goes(i, "profile", account)

\* The picture and the nickname of a new account are stored, or not.
NicknameSaved(i) ==
    /\ tasks[i].at = "naming"
    /\ Goes(i, "profile", tasks[i].by)
    /\ UNCHANGED <<ui, panel, session, chosen, crossed>>

\* verifyCode, of a contact without an account
TicketGiven(i, mode) ==
    /\ tasks[i].at = "verify"
    /\ Ends(i)
    /\ panel' = [panel EXCEPT !.ticket = mode,
                              !.forms = (@ \ {"code"}) \cup {"profile"}]
    /\ UNCHANGED <<ui, session, chosen, crossed>>

\* The contact is verified, and no ticket comes with it.
TicketMissing(i) ==
    /\ tasks[i].at = "verify"
    /\ Ends(i)
    /\ panel' = [panel EXCEPT !.ticket = None]
    /\ UNCHANGED <<ui, session, chosen, crossed>>

\* refreshUserProfile, and then bootstrap
ProfileArrives(i, comes) ==
    /\ tasks[i].at = "profile"
    /\ IF comes THEN Holds(i, [session EXCEPT !.name = tasks[i].by])
       ELSE UNCHANGED <<session, crossed>>
    /\ Bootstrap(i, session')
    /\ UNCHANGED chosen

\* runH5OneClick: a fresh token, the carrier's check, the consent page, which has
\* the panel hidden, and the sign-in
OneTap(i, form) ==
    /\ OnPanel(form) /\ form \in {"login", "code"}
    /\ panel.button
    /\ \A j \in Slots : tasks[j] # None => tasks[j].by # form
    /\ IF panel.tap = "ready" THEN Goes(i, "token", form) /\ UNCHANGED panel
       ELSE panel' = [panel EXCEPT !.button = FALSE] /\ UNCHANGED tasks
    /\ Contends
    /\ UNCHANGED <<ui, session, chosen>>

AuthInfoFetched(i) ==
    /\ tasks[i].at = "token"
    /\ Goes(i, "carrier", tasks[i].by)
    /\ UNCHANGED <<ui, panel, session, chosen, crossed>>

\* checkLoginAvailable succeeds and getLoginToken shows its page.
LoginAvailable(i) ==
    /\ tasks[i].at = "carrier"
    /\ Goes(i, "consent", tasks[i].by)
    /\ panel' = Hidden(panel)
    /\ UNCHANGED <<ui, session, chosen, crossed>>

LoginTokenGiven(i) ==
    /\ tasks[i].at = "consent"
    /\ Goes(i, "one tap", tasks[i].by)
    /\ panel' = [panel EXCEPT !.shown = TRUE]
    /\ UNCHANGED <<ui, session, chosen, crossed>>

\* Mutant: the panel does not come back.
TapFailsHidden(i) ==
    /\ tasks[i].at \in {"token", "carrier", "consent", "one tap"}
    /\ panel' = [panel EXCEPT !.button = FALSE]
    /\ Ends(i)
    /\ UNCHANGED <<ui, session, chosen, crossed>>

\* An error or the timer of the step
TapFails(i) ==
    /\ tasks[i].at \in {"token", "carrier", "consent", "one tap"}
    /\ panel' = [panel EXCEPT !.button = FALSE,
                              !.shown = @ \/ tasks[i].at \in {"carrier", "consent"}]
    /\ Ends(i)
    /\ UNCHANGED <<ui, session, chosen, crossed>>

\* logout, with its requests; neither renews a session.
Logout(i) ==
    /\ Presses("logout")
    /\ Goes(i, "logout", session.user)
    /\ Contends
    /\ UNCHANGED <<ui, panel, session, chosen>>

LoggedOut(i) ==
    /\ tasks[i].at = "logout"
    /\ Holds(i, Cleared(session))
    /\ chosen' = None
    /\ ui' = LoginScreen(ui)
    /\ panel' = Shown(panel)
    /\ Ends(i)

-----------------------------------------------------------------------------
(* Pressing the screens                                                    *)

\* A change of the screen alone
Shows(u) == ui' = u /\ UNCHANGED <<panel, session, tasks, chosen, crossed>>

\* ... and one that begins a task
ShowsAwaiting(i, u, at) ==
    /\ ui' = u
    /\ Goes(i, at, session.user)
    /\ UNCHANGED <<panel, session, chosen, crossed>>

Retry(i) ==
    /\ Presses("retry")
    /\ Bootstrap(i, session)
    /\ Contends
    /\ UNCHANGED <<session, chosen>>

ShowHome(i) == Presses("home") /\ ShowsAwaiting(i, HomeScreen(ui), "catalog")

ShowMuseum == Presses("museum") /\ Shows([ui EXCEPT !.scene = "museum", !.modal = ""])

ShowSettings ==
    /\ \E button \in {"settings", "leaderboard", "profile"} : Presses(button)
    /\ Shows([ui EXCEPT !.scene = "settings", !.modal = ""])

LevelSelect == [ui EXCEPT !.scene = "levels", !.modal = "", !.level = None]
ShowLevelSelect(i) ==
    /\ \E button \in {"series", "levels", "map", "next"} : Presses(button)
    /\ \/ ui.catalog /\ Shows(LevelSelect)
       \/ ~ui.catalog /\ ShowsAwaiting(i, LevelSelect, "catalog")

LoadGame(i, story) ==
    ShowsAwaiting(i, [ui EXCEPT !.scene = "game", !.modal = "",
                                !.level = NewLevel(story)], "level")

OpenLevel(i, story) ==
    /\ ui.catalog
    /\ \E button \in {"continueCase", "level"} : Presses(button)
    /\ LoadGame(i, story)

\* The first level of the daily series, when there is one
OpenDaily(i, story) ==
    /\ ui.catalog
    /\ Presses("daily")
    /\ LoadGame(i, story)

\* replay and nextLevel, of a level that is there
PlayOn(i, story) ==
    /\ \/ Presses("replay") /\ ui.level.phase # "loading" /\ story = ui.level.story
       \/ Presses("next")
    /\ LoadGame(i, story)

\* hint with none left, knowledge, privacy and locked
OpenModal(button, modal) ==
    /\ <<button, modal>> \in {<<"hint", "hintLimit">>, <<"knowledge", "knowledge">>,
                              <<"privacy", "privacy">>, <<"locked", "locked">>}
    /\ Presses(button)
    /\ modal = "hintLimit" => ui.level.phase # "loading"
    /\ Shows([ui EXCEPT !.modal = modal])

CloseModal == Presses("modalClose") /\ Shows([ui EXCEPT !.modal = ""])

\* toggleLanguage forgets the catalogue.
ToggleLanguage(i) ==
    /\ Presses("language")
    /\ ShowsAwaiting(i, [ui EXCEPT !.catalog = FALSE], "request")

-----------------------------------------------------------------------------
(* The level on the screen, whatever is over it                            *)

PhaseTurns(from, to) ==
    /\ ui.scene = "game"
    /\ ui.level.phase = from
    /\ Shows([ui EXCEPT !.level.phase = to])

FoundLast == ui.modal = "" /\ PhaseTurns("playing", "finishing")
Completes == \E to \in {"intro", "complete"} : PhaseTurns("finishing", to)
EndIntro == PhaseTurns("intro", "complete")
TimeUp == PhaseTurns("playing", "timedOut")

\* The page is closed and opened again.
Reload(i, first) ==
    LET begun == Started(session, first)
    IN  /\ ui' = begun.ui
        /\ panel' = begun.panel
        /\ tasks' = [j \in Slots |-> IF j = i THEN begun.task ELSE None]
        /\ crossed' = (crossed \/ \E j \in Slots : tasks[j] # None)
        /\ UNCHANGED <<session, chosen>>

-----------------------------------------------------------------------------

Begin(i) ==
    \/ Ask(i)
    \/ Login(i) \/ SendCode(i) \/ VerifyCode(i) \/ CompleteRegistration(i) \/ Logout(i)
    \/ \E form \in Forms : OneTap(i, form)
    \/ Retry(i) \/ ShowHome(i) \/ ShowLevelSelect(i) \/ ToggleLanguage(i)
    \/ \E story \in BOOLEAN : OpenLevel(i, story) \/ OpenDaily(i, story) \/ PlayOn(i, story)

Resume(i) ==
    \/ \E answer \in Answers(i) :
        \/ Refreshed(i, answer) \/ Configured(i, answer) \/ Flushed(i, answer)
        \/ LevelArrives(i, answer) \/ AskAnswered(i, answer)
        \/ \E kept \in BOOLEAN : CatalogArrives(i, answer, kept)
    \/ CodeSent(i) \/ Denied(i)
    \/ \E account \in Accounts, named \in BOOLEAN :
        \/ AccountSignsIn(i, account, named) \/ CodeSignsIn(i, account, named)
        \/ Registers(i, account, named) \/ TapSignsIn(i, account, named)
    \/ NicknameSaved(i) \/ TicketMissing(i)
    \/ \E mode \in Modes : TicketGiven(i, mode)
    \/ \E comes \in BOOLEAN : ProfileArrives(i, comes)
    \/ AuthInfoFetched(i) \/ LoginAvailable(i) \/ LoginTokenGiven(i) \/ TapFails(i)
    \/ LoggedOut(i)

Next ==
    \/ \E i \in Slots : (tasks[i] = None /\ Begin(i)) \/ (tasks[i] # None /\ Resume(i))
    \/ \E i \in Slots, first \in {"refresh", "config"} : Reload(i, first)
    \/ \E mode \in Modes : SetMode(mode)
    \/ ShowLogin \/ ShowRegistration
    \/ \E ready \in BOOLEAN : Probed(ready)
    \/ ShowMuseum \/ ShowSettings \/ CloseModal
    \/ \E button \in {"hint", "knowledge", "privacy", "locked"}, modal \in Modals :
        OpenModal(button, modal)
    \/ FoundLast \/ Completes \/ EndIntro \/ TimeUp

Spec == Init /\ [][Next]_vars

-----------------------------------------------------------------------------
(* Properties                                                              *)

ShellTypeOK ==
    /\ ui \in [scene : Scenes, failed : BOOLEAN, modal : Modals, catalog : BOOLEAN,
               level : {None} \cup Level]
    /\ ui.scene = "game" <=> ui.level # None
    /\ panel \in [shown : BOOLEAN, forms : SUBSET Forms, mode : Modes,
                  ticket : {None} \cup Modes, tap : {"asking", "ready", "failed"},
                  button : BOOLEAN]
    /\ session \in [user : Accounts \cup {None}, name : Accounts \cup {None}]
    /\ chosen \in Accounts \cup {None}
    /\ crossed \in BOOLEAN

\* A level that is over hears replay, map and next alone: a story draws none of them,
\* and a dialog that is open covers them.
Stranded(u) == u.scene = "game" /\ Over(u.level) /\ (u.level.story \/ u.modal # "")

\* Whatever fails, expires, crosses or arrives late: once nothing is awaited, a
\* player who is not signed in has the panel with a form in front of him, and one
\* who is signed in has that or a button that is heard; the one dead end is a level
\* that is over, of a story or under a dialog.
CanGoOn ==
    Idle => \/ panel.shown /\ panel.forms # {}
            \/ session.user # None /\ (Heard(ui) # {} \/ Stranded(ui))

\* A player who is signed in then has the game, not the panel, and the account that
\* he signed in to, under its own name, unless sign-ins overlapped or the session
\* was changed while something else was in flight.
SignedInPlays ==
    (Idle /\ session.user # None /\ ~crossed) =>
        /\ ~panel.shown
        /\ ui.scene # "login" /\ (ui.scene = "loading" => ui.failed)
        /\ session.user = chosen
        /\ session.name \in {None, chosen}

\* Claim (webgame/js/core/i18n.js:35, "You ran out of time — try again"): a level
\* that is over leaves the player a button that is heard.
OverCanGoOn ==
    (ui.scene = "game" /\ Over(ui.level)) => Heard(ui) # {}
=============================================================================
