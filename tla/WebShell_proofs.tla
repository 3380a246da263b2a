--------------------------- MODULE WebShell_proofs ---------------------------
(***************************************************************************)
(* Proofs about WebShell: for any accounts and any number of tasks in      *)
(* flight, the shell keeps its types, and the player always has a way on.  *)
(* The panel may be hidden while nobody is signed in only behind the       *)
(* carrier's consent page, and the loading screen is without a button only *)
(* while bootstrap is on its way; whatever ends these shows the panel, the *)
(* error or another screen.                                                *)
(***************************************************************************)
EXTENDS WebShell, TLAPS

TapSteps == {"token", "carrier", "consent", "one tap"}
Boot == {"refresh", "config", "flush"}

\* A task that carries a session knows whose it is.
TaskOK(t) ==
    t # None =>
        /\ t \in Task
        /\ t.at \notin TapSteps => t.by \in {None} \cup Accounts
        /\ t.at \in {"naming", "profile", "refresh"} => t.by \in Accounts

UiOK(u) ==
    /\ u \in [scene : Scenes, failed : BOOLEAN, modal : Modals, catalog : BOOLEAN,
              level : {None} \cup Level]
    /\ u.scene = "game" <=> u.level # None

PanelOK(p) ==
    /\ p \in [shown : BOOLEAN, forms : SUBSET Forms, mode : Modes,
              ticket : {None} \cup Modes, tap : {"asking", "ready", "failed"},
              button : BOOLEAN]
    /\ p.forms # {}

SessionOK(s) == s \in [user : Accounts \cup {None}, name : Accounts \cup {None}]

Typed ==
    /\ UiOK(ui)
    /\ PanelOK(panel)
    /\ SessionOK(session)
    /\ tasks = [i \in Slots |-> tasks[i]]
    /\ \A i \in Slots : TaskOK(tasks[i])
    /\ chosen \in Accounts \cup {None}
    /\ crossed \in BOOLEAN

Hid == \E i \in Slots : tasks[i] # None /\ tasks[i].at = "consent"
Boots == \E i \in Slots : tasks[i] # None /\ tasks[i].at \in Boot

\* Where the panel is not shown, something else is, or is on its way.
WayOn ==
    panel.shown \/
        /\ session.user = None => Hid
        /\ ui.scene = "login" => Hid
        /\ ui.scene = "loading" => ui.failed \/ Hid \/ Boots

Inv == Typed /\ WayOn

-----------------------------------------------------------------------------
(* What screens and the panel become                                       *)

LEMMA Screens ==
    ASSUME NEW u, UiOK(u)
    PROVE  /\ UiOK(LoginScreen(u)) /\ LoginScreen(u).scene = "login"
           /\ UiOK(HomeScreen(u)) /\ HomeScreen(u).scene = "home"
           /\ UiOK(BootstrapError(u))
           /\ BootstrapError(u).scene = "loading" /\ BootstrapError(u).failed
BY DEF UiOK, LoginScreen, HomeScreen, BootstrapError, Scenes, Modals

LEMMA Panels ==
    ASSUME NEW p, PanelOK(p)
    PROVE  /\ PanelOK(Shown(p)) /\ Shown(p).shown
           /\ PanelOK(Hidden(p))
           /\ PanelOK(LoginForm(p))
           /\ \A mode \in Modes : PanelOK(WithMode(p, mode)) /\ WithMode(p, mode).shown = p.shown
           /\ LoginForm(p).shown = p.shown
<1>1. \A q : PanelOK(q) => PanelOK(LoginForm(q)) /\ LoginForm(q).shown = q.shown
  BY DEF PanelOK, LoginForm, Forms
<1>2. \A q : \A mode \in Modes :
        PanelOK(q) => PanelOK(WithMode(q, mode)) /\ WithMode(q, mode).shown = q.shown
  BY DEF PanelOK, WithMode
<1>3. PanelOK(Hidden(p))
  BY DEF PanelOK, Hidden
<1>4. PanelOK([p EXCEPT !.shown = TRUE]) /\ [p EXCEPT !.shown = TRUE].shown /\ p.mode \in Modes
  BY DEF PanelOK
<1> QED
  BY <1>1, <1>2, <1>3, <1>4 DEF Shown

LEMMA Answered ==
    ASSUME Inv, NEW i \in Slots, tasks[i] # None, tasks[i].at \notin TapSteps,
           NEW answer \in {"ok", "failed", "renewed", "ended"},
           answer \in Answers(i), Carried(i, answer)
    PROVE  /\ SessionOK(session') /\ chosen' \in Accounts \cup {None} /\ crossed' \in BOOLEAN
           /\ answer = "renewed" => session'.user \in Accounts
           /\ answer = "ended" => session'.user = None
           /\ answer \notin {"renewed", "ended"} => session' = session
           /\ UiOK(UiAfter(answer)) /\ PanelOK(PanelAfter(answer))
           /\ answer = "ended" => PanelAfter(answer).shown /\ UiAfter(answer).scene = "login"
           /\ answer # "ended" => PanelAfter(answer) = panel /\ UiAfter(answer) = ui
<1>1. SessionOK(Cleared(session)) /\ Cleared(session).user = None
  BY DEF SessionOK, Cleared, NoSession
<1>2. answer = "renewed" => tasks[i].by \in Accounts
  BY DEF Answers, Inv, Typed, TaskOK
<1>3. answer = "renewed" => SessionOK([session EXCEPT !.user = tasks[i].by])
                            /\ [session EXCEPT !.user = tasks[i].by].user = tasks[i].by
  BY <1>2 DEF SessionOK, Inv, Typed
<1>4. SessionOK(session') /\ chosen' \in Accounts \cup {None} /\ crossed' \in BOOLEAN
  BY <1>1, <1>3 DEF Carried, Holds, Inv, Typed
<1>5. /\ answer = "renewed" => session'.user \in Accounts
      /\ answer = "ended" => session'.user = None
      /\ answer \notin {"renewed", "ended"} => session' = session
  BY <1>1, <1>2, <1>3 DEF Carried, Holds
<1>6. UiOK(UiAfter(answer)) /\ PanelOK(PanelAfter(answer))
  BY Screens, Panels DEF UiAfter, PanelAfter, Inv, Typed
<1> QED
  BY <1>4, <1>5, <1>6, Screens, Panels DEF UiAfter, PanelAfter, Inv, Typed

\* What becomes of the tasks when one of them begins, goes on or ends.
LEMMA TaskTurns ==
    ASSUME Inv, NEW i \in Slots, NEW t, TaskOK(t), tasks' = [tasks EXCEPT ![i] = t]
    PROVE  /\ tasks' = [j \in Slots |-> tasks'[j]]
           /\ \A j \in Slots : TaskOK(tasks'[j])
           /\ tasks[i] = None \/ tasks[i].at # "consent" => (Hid => Hid')
           /\ tasks[i] = None \/ tasks[i].at \notin Boot => (Boots => Boots')
           /\ t # None /\ t.at = "consent" => Hid'
           /\ t # None /\ t.at \in Boot => Boots'
<1>1. /\ tasks' = [j \in Slots |-> tasks'[j]]
      /\ tasks'[i] = t
      /\ \A j \in Slots \ {i} : tasks'[j] = tasks[j]
  BY DEF Inv, Typed
<1>2. \A j \in Slots : TaskOK(tasks'[j])
  BY <1>1 DEF Inv, Typed
<1> QED
  BY <1>1, <1>2 DEF Hid, Boots

\* ... with a name and an owner
LEMMA TaskGoes ==
    ASSUME Inv, NEW i \in Slots, NEW at, NEW by, Goes(i, at, by),
           at \in Requested \cup Asked,
           \/ by \in Accounts
           \/ by \in {None} \cup Accounts /\ at \notin {"naming", "profile", "refresh"}
           \/ by \in Forms /\ at \in TapSteps
    PROVE  /\ tasks' = [j \in Slots |-> tasks'[j]]
           /\ \A j \in Slots : TaskOK(tasks'[j])
           /\ tasks[i] = None \/ tasks[i].at # "consent" => (Hid => Hid')
           /\ tasks[i] = None \/ tasks[i].at \notin Boot => (Boots => Boots')
           /\ at = "consent" => Hid'
           /\ at \in Boot => Boots'
<1> DEFINE t == [at |-> at, by |-> by]
<1>1. t.at = at /\ t.by = by /\ t \in Task
  BY DEF Task
<1>2. TaskOK(t)
  BY <1>1 DEF TaskOK, TapSteps
<1>3. t # None
  BY <1>1, ShellAssumption
<1> QED
  BY <1>1, <1>2, <1>3, TaskTurns DEF Goes

\* The fields that the screens and the panel are asked for
LEMMA Fields ==
    ASSUME Inv
    PROVE  /\ ui.scene \in Scenes /\ ui.failed \in BOOLEAN
           /\ panel.shown \in BOOLEAN /\ panel.mode \in Modes /\ panel.ticket \in {None} \cup Modes
           /\ session.user \in Accounts \cup {None}
           /\ ui.level # None => ui.level \in Level
BY DEF Inv, Typed, UiOK, PanelOK, SessionOK

-----------------------------------------------------------------------------
(* Bootstrap and the requests of the screens                               *)

LEMMA BootstrapStep ==
    ASSUME Inv, NEW i \in Slots, NEW s, SessionOK(s), session' = s, Bootstrap(i, s),
           tasks[i] = None \/ tasks[i].at \in {"profile"},
           chosen' \in Accounts \cup {None}, crossed' \in BOOLEAN
    PROVE  Inv'
<1>1. CASE s.user = None
  <2>1. UiOK(ui') /\ PanelOK(panel') /\ panel'.shown
    BY <1>1, Screens, Panels DEF Bootstrap, Inv, Typed
  <2>2. tasks' = [j \in Slots |-> tasks'[j]] /\ \A j \in Slots : TaskOK(tasks'[j])
    BY <1>1, TaskTurns DEF Bootstrap, Ends, TaskOK
  <2> QED
    BY <2>1, <2>2 DEF Inv, Typed, WayOn
<1>2. CASE s.user # None
  <2>1. s.user \in Accounts
    BY <1>2 DEF SessionOK
  <2>2. UiOK(ui') /\ ui'.scene = "loading"
    BY <1>2 DEF Bootstrap, Inv, Typed, UiOK, Scenes
  <2>3. PanelOK(panel')
    BY <1>2, Panels DEF Bootstrap, Inv, Typed
  <2>4. PICK at \in {"refresh", "config"} : Goes(i, at, s.user)
    BY <1>2 DEF Bootstrap
  <2>5. /\ tasks' = [j \in Slots |-> tasks'[j]]
        /\ \A j \in Slots : TaskOK(tasks'[j])
        /\ Boots'
    BY <2>1, <2>4, TaskGoes DEF Boot, Requested
  <2> QED
    BY <1>2, <2>2, <2>3, <2>5 DEF Inv, Typed, WayOn
<1> QED
  BY <1>1, <1>2

LEMMA RefreshedStep ==
    ASSUME Inv, NEW i \in Slots, tasks[i] # None, NEW answer \in Answers(i), Refreshed(i, answer)
    PROVE  Inv'
<1>1. tasks[i].at = "refresh" /\ tasks[i].at \notin TapSteps /\ Carried(i, answer)
      /\ answer \in {"failed", "renewed", "ended"}
  BY DEF Refreshed, TapSteps
<1>2. /\ SessionOK(session') /\ chosen' \in Accounts \cup {None} /\ crossed' \in BOOLEAN
      /\ answer = "renewed" => session'.user \in Accounts
      /\ answer = "ended" => session'.user = None
  BY <1>1, Answered
<1>3. CASE answer = "renewed"
  <2>1. ui' = ui /\ panel' = panel /\ Goes(i, "config", session'.user)
    BY <1>3 DEF Refreshed
  <2>2. /\ tasks' = [j \in Slots |-> tasks'[j]] /\ \A j \in Slots : TaskOK(tasks'[j])
        /\ Boots'
        /\ Hid => Hid'
    BY <1>1, <1>2, <1>3, <2>1, TaskGoes DEF Boot, Requested
  <2>3. session'.user # None
    BY <1>2, <1>3, ShellAssumption
  <2>4. WayOn'
    BY <2>1, <2>2, <2>3 DEF Inv, WayOn
  <2> QED
    BY <1>2, <2>1, <2>2, <2>4 DEF Inv, Typed
<1>4. CASE answer # "renewed"
  <2>1. /\ tasks' = [j \in Slots |-> tasks'[j]] /\ \A j \in Slots : TaskOK(tasks'[j])
        /\ Hid => Hid'
    BY <1>1, <1>4, TaskTurns DEF Refreshed, Ends, TaskOK
  <2>2. CASE session'.user # None
    <3>1. ui' = BootstrapError(ui) /\ panel' = panel
      BY <1>4, <2>2 DEF Refreshed
    <3>2. UiOK(ui') /\ ui'.scene = "loading" /\ ui'.failed
      BY <3>1, Screens DEF Inv, Typed
    <3> QED
      BY <1>2, <2>1, <2>2, <3>1, <3>2 DEF Inv, Typed, WayOn
  <2>3. CASE session'.user = None
    <3>1. UiOK(ui') /\ PanelOK(panel') /\ panel'.shown
      BY <1>4, <2>3, Screens, Panels DEF Refreshed, Inv, Typed
    <3> QED
      BY <1>2, <2>1, <3>1 DEF Inv, Typed, WayOn
  <2> QED
    BY <2>2, <2>3
<1> QED
  BY <1>3, <1>4

LEMMA ConfiguredStep ==
    ASSUME Inv, NEW i \in Slots, tasks[i] # None, NEW answer \in Answers(i), Configured(i, answer)
    PROVE  Inv'
<1>1. /\ tasks[i].at = "config" /\ tasks[i].at \notin TapSteps /\ Carried(i, answer)
      /\ answer \in {"ok", "failed", "renewed", "ended"} /\ panel' = PanelAfter(answer)
  BY DEF Configured, TapSteps, Answers
<1>2. /\ SessionOK(session') /\ chosen' \in Accounts \cup {None} /\ crossed' \in BOOLEAN
      /\ answer = "renewed" => session'.user \in Accounts
      /\ answer \notin {"renewed", "ended"} => session' = session
      /\ UiOK(UiAfter(answer)) /\ PanelOK(PanelAfter(answer))
      /\ answer = "ended" => PanelAfter(answer).shown
      /\ answer # "ended" => PanelAfter(answer) = panel /\ UiAfter(answer) = ui
  BY <1>1, Answered
<1>3. session'.user \in Accounts \cup {None}
  BY <1>2 DEF SessionOK
<1>4. answer # "ended" /\ session'.user = None => session.user = None
  BY <1>1, <1>2, ShellAssumption
<1>5. CASE Accepted(answer)
  <2>1. answer \in {"ok", "renewed"} /\ ui' = ui /\ Goes(i, "flush", session'.user)
    BY <1>5 DEF Configured, Accepted
  <2>2. /\ tasks' = [j \in Slots |-> tasks'[j]] /\ \A j \in Slots : TaskOK(tasks'[j])
        /\ Boots'
        /\ Hid => Hid'
    BY <1>1, <1>3, <2>1, TaskGoes DEF Boot, Requested
  <2>3. WayOn'
    BY <1>1, <1>2, <1>4, <2>1, <2>2 DEF Inv, WayOn
  <2> QED
    BY <1>1, <1>2, <2>1, <2>2, <2>3 DEF Inv, Typed
<1>6. CASE ~Accepted(answer)
  <2>1. ui' = BootstrapError(UiAfter(answer)) /\ Ends(i)
    BY <1>6 DEF Configured
  <2>2. UiOK(ui') /\ ui'.scene = "loading" /\ ui'.failed
    BY <1>2, <2>1, Screens
  <2>3. /\ tasks' = [j \in Slots |-> tasks'[j]] /\ \A j \in Slots : TaskOK(tasks'[j])
        /\ Hid => Hid'
    BY <1>1, <2>1, TaskTurns DEF Ends, TaskOK
  <2>4. WayOn'
    BY <1>1, <1>2, <1>4, <2>2, <2>3 DEF Inv, WayOn
  <2> QED
    BY <1>1, <1>2, <2>2, <2>3, <2>4 DEF Inv, Typed
<1> QED
  BY <1>5, <1>6

LEMMA FlushedStep ==
    ASSUME Inv, NEW i \in Slots, tasks[i] # None, NEW answer \in Answers(i), Flushed(i, answer)
    PROVE  Inv'
<1>1. /\ tasks[i].at = "flush" /\ tasks[i].at \notin TapSteps /\ Carried(i, answer)
      /\ answer \in {"ok", "failed", "renewed", "ended"}
      /\ panel' = PanelAfter(answer) /\ ui' = HomeScreen(UiAfter(answer))
      /\ Goes(i, "catalog", session'.user)
  BY DEF Flushed, TapSteps, Answers
<1>2. /\ SessionOK(session') /\ chosen' \in Accounts \cup {None} /\ crossed' \in BOOLEAN
      /\ answer = "renewed" => session'.user \in Accounts
      /\ answer \notin {"renewed", "ended"} => session' = session
      /\ UiOK(UiAfter(answer)) /\ PanelOK(PanelAfter(answer))
      /\ answer = "ended" => PanelAfter(answer).shown
      /\ answer # "ended" => PanelAfter(answer) = panel /\ UiAfter(answer) = ui
  BY <1>1, Answered
<1>3. session'.user \in Accounts \cup {None}
  BY <1>2 DEF SessionOK
<1>4. answer # "ended" /\ session'.user = None => session.user = None
  BY <1>1, <1>2, ShellAssumption
<1>5. UiOK(ui') /\ ui'.scene = "home"
  BY <1>1, <1>2, Screens
<1>6. /\ tasks' = [j \in Slots |-> tasks'[j]] /\ \A j \in Slots : TaskOK(tasks'[j])
      /\ Hid => Hid'
  BY <1>1, <1>3, TaskGoes DEF Asked
<1>7. WayOn'
  BY <1>1, <1>2, <1>4, <1>5, <1>6 DEF Inv, WayOn
<1> QED
  BY <1>1, <1>2, <1>5, <1>6, <1>7 DEF Inv, Typed

\* What the other requests do: they end, and may leave the screen behind changed in
\* its catalogue or its level only.
LEMMA RequestStep ==
    ASSUME Inv, NEW i \in Slots, tasks[i] # None, NEW answer \in Answers(i),
           tasks[i].at \in Asked, Carried(i, answer), Ends(i),
           panel' = PanelAfter(answer), UiOK(ui'),
           ui'.scene = UiAfter(answer).scene, ui'.failed = UiAfter(answer).failed
    PROVE  Inv'
<1>1. tasks[i].at \notin TapSteps \cup Boot /\ answer \in {"ok", "failed", "renewed", "ended"}
  BY DEF Asked, TapSteps, Boot, Answers
<1>2. /\ SessionOK(session') /\ chosen' \in Accounts \cup {None} /\ crossed' \in BOOLEAN
      /\ answer = "renewed" => session'.user \in Accounts
      /\ answer \notin {"renewed", "ended"} => session' = session
      /\ PanelOK(PanelAfter(answer))
      /\ answer = "ended" => PanelAfter(answer).shown
      /\ answer # "ended" => PanelAfter(answer) = panel /\ UiAfter(answer) = ui
  BY <1>1, Answered
<1>3. answer # "ended" /\ session'.user = None => session.user = None
  BY <1>1, <1>2, ShellAssumption
<1>4. /\ tasks' = [j \in Slots |-> tasks'[j]] /\ \A j \in Slots : TaskOK(tasks'[j])
      /\ Hid => Hid'
      /\ Boots => Boots'
  BY <1>1, TaskTurns DEF Ends, TaskOK, TapSteps
<1>5. WayOn'
  BY <1>1, <1>2, <1>3, <1>4 DEF Inv, WayOn
<1> QED
  BY <1>2, <1>4, <1>5 DEF Inv, Typed

LEMMA Arrivals ==
    ASSUME Inv, NEW i \in Slots, tasks[i] # None, NEW answer \in Answers(i),
           \/ \E kept \in BOOLEAN : CatalogArrives(i, answer, kept)
           \/ LevelArrives(i, answer) \/ AskAnswered(i, answer)
    PROVE  Inv'
<1>1. /\ tasks[i].at \in {"catalog", "level", "request"} /\ Carried(i, answer) /\ Ends(i)
      /\ panel' = PanelAfter(answer)
  BY DEF CatalogArrives, LevelArrives, AskAnswered
<1>2. tasks[i].at \in Asked /\ tasks[i].at \notin TapSteps
      /\ answer \in {"ok", "failed", "renewed", "ended"}
  BY <1>1 DEF Asked, TapSteps, Answers
<1>3. UiOK(UiAfter(answer))
  BY <1>1, <1>2, Answered
<1> DEFINE u == UiAfter(answer)
<1>4. CASE \E kept \in BOOLEAN : CatalogArrives(i, answer, kept)
  <2>1. PICK kept \in BOOLEAN : ui' = [u EXCEPT !.catalog = @ \/ Gets(answer, kept)]
    BY <1>4 DEF CatalogArrives
  <2>2. (u.catalog \/ Gets(answer, kept)) \in BOOLEAN
    OBVIOUS
  <2>3. UiOK(ui') /\ ui'.scene = u.scene /\ ui'.failed = u.failed
    BY <1>3, <2>1, <2>2 DEF UiOK
  <2> QED
    BY <1>1, <1>2, <2>3, RequestStep
<1>5. CASE LevelArrives(i, answer)
  <2>1. CASE Accepted(answer) /\ u.level # None /\ u.level.phase = "loading"
    <3>1. ui' = [u EXCEPT !.level.phase = "playing"]
      BY <1>5, <2>1 DEF LevelArrives
    <3>2. u.level \in Level /\ [u.level EXCEPT !.phase = "playing"] \in Level
      BY <1>3, <2>1 DEF UiOK, Level, Phases
    <3>3. [u.level EXCEPT !.phase = "playing"] # None
      BY <3>2, ShellAssumption
    <3>4. ui' = [u EXCEPT !.level = [u.level EXCEPT !.phase = "playing"]]
      BY <3>1
    <3>5. UiOK(ui') /\ ui'.scene = u.scene /\ ui'.failed = u.failed
      BY <1>3, <2>1, <3>2, <3>3, <3>4 DEF UiOK
    <3> QED
      BY <1>1, <1>2, <3>5, RequestStep
  <2>2. CASE ~(Accepted(answer) /\ u.level # None /\ u.level.phase = "loading")
    <3>1. ui' = u
      BY <1>5, <2>2 DEF LevelArrives
    <3> QED
      BY <1>1, <1>2, <1>3, <3>1, RequestStep
  <2> QED
    BY <2>1, <2>2
<1>6. CASE AskAnswered(i, answer)
  BY <1>1, <1>2, <1>3, <1>6, RequestStep DEF AskAnswered
<1> QED
  BY <1>4, <1>5, <1>6

-----------------------------------------------------------------------------
(* Signing in and out                                                      *)

\* The panel changes and a task may end or go on, while nobody signs in or out.
LEMMA PanelStep ==
    ASSUME Inv, PanelOK(panel'), panel.shown => panel'.shown \/ Hid',
           tasks' = [j \in Slots |-> tasks'[j]], \A j \in Slots : TaskOK(tasks'[j]),
           Hid => Hid' \/ panel'.shown, Boots => Boots',
           UNCHANGED <<ui, session, chosen>>, crossed' \in BOOLEAN
    PROVE  Inv'
<1>1. WayOn'
  BY Fields DEF Inv, WayOn
<1> QED
  BY <1>1 DEF Inv, Typed

LEMMA OnThePanel ==
    ASSUME Inv,
           \/ \E mode \in Modes : SetMode(mode)
           \/ ShowLogin \/ ShowRegistration
           \/ \E ready \in BOOLEAN : Probed(ready)
    PROVE  Inv'
<1>1. /\ UNCHANGED <<ui, session, tasks, chosen, crossed>>
      /\ PanelOK(panel') /\ panel'.shown = panel.shown
  <2>1. CASE \E mode \in Modes : SetMode(mode)
    BY <2>1, Panels DEF SetMode, Turns, Inv, Typed
  <2>2. CASE ShowLogin
    BY <2>2, Panels DEF ShowLogin, Turns, Inv, Typed
  <2>3. CASE ShowRegistration
    <3>1. panel' = [panel EXCEPT !.forms = {"code"}] /\ UNCHANGED <<ui, session, tasks, chosen, crossed>>
      BY <2>3 DEF ShowRegistration, Turns
    <3> QED
      BY <3>1 DEF Inv, Typed, PanelOK, Forms
  <2>4. CASE \E ready \in BOOLEAN : Probed(ready)
    BY <2>4 DEF Probed, Inv, Typed, PanelOK
  <2> QED
    BY <2>1, <2>2, <2>3, <2>4
<1>2. /\ tasks' = [j \in Slots |-> tasks'[j]] /\ \A j \in Slots : TaskOK(tasks'[j])
      /\ Hid => Hid'
      /\ Boots => Boots'
      /\ crossed' \in BOOLEAN
  BY <1>1 DEF Inv, Typed, Hid, Boots
<1> QED
  BY <1>1, <1>2, PanelStep

\* The forms are sent.
LEMMA Submissions ==
    ASSUME Inv, NEW i \in Slots, tasks[i] = None,
           Login(i) \/ SendCode(i) \/ VerifyCode(i) \/ CompleteRegistration(i) \/ Ask(i)
    PROVE  Inv'
<1>1. \E at \in {"account", "code", "verify", "register", "refused", "request"},
         by \in {None, session.user} : Goes(i, at, by)
  BY DEF Login, SendCode, VerifyCode, CompleteRegistration, Submits, Ask
<1>2. UNCHANGED <<ui, panel, session, chosen>> /\ crossed' \in BOOLEAN
  BY DEF Login, SendCode, VerifyCode, CompleteRegistration, Submits, Contends, Ask, Inv, Typed
<1>3. /\ tasks' = [j \in Slots |-> tasks'[j]] /\ \A j \in Slots : TaskOK(tasks'[j])
      /\ Hid => Hid'
      /\ Boots => Boots'
  BY <1>1, Fields, TaskGoes DEF Requested, Asked
<1> QED
  BY <1>2, <1>3, PanelStep DEF Inv, Typed

\* A task of the panel ends or goes on without a change to the panel that hides it.
LEMMA PanelTasks ==
    ASSUME Inv, NEW i \in Slots, tasks[i] # None,
           \/ CodeSent(i) \/ Denied(i) \/ NicknameSaved(i) \/ TicketMissing(i)
           \/ \E mode \in Modes : TicketGiven(i, mode)
           \/ AuthInfoFetched(i) \/ LoginAvailable(i) \/ LoginTokenGiven(i) \/ TapFails(i)
    PROVE  Inv'
<1>1. TaskOK(tasks[i]) /\ tasks[i] \in Task
  BY DEF Inv, Typed, TaskOK
<1>2. UNCHANGED <<ui, session, chosen>> /\ crossed' \in BOOLEAN
  BY DEF CodeSent, Denied, NicknameSaved, TicketMissing, TicketGiven, AuthInfoFetched,
         LoginAvailable, LoginTokenGiven, TapFails, Inv, Typed
<1>3. CASE CodeSent(i) \/ Denied(i)
  <2>1. /\ tasks' = [j \in Slots |-> tasks'[j]] /\ \A j \in Slots : TaskOK(tasks'[j])
        /\ Hid => Hid'
        /\ Boots => Boots'
    BY <1>3, TaskTurns DEF CodeSent, Denied, Ends, TaskOK, Boot
  <2>2. panel' = panel
    BY <1>3 DEF CodeSent, Denied
  <2> QED
    BY <1>2, <2>1, <2>2, PanelStep DEF Inv, Typed
<1>4. CASE NicknameSaved(i)
  <2>1. tasks[i].at = "naming" /\ Goes(i, "profile", tasks[i].by) /\ panel' = panel
    BY <1>4 DEF NicknameSaved
  <2>2. tasks[i].by \in Accounts
    BY <1>1, <2>1 DEF TaskOK
  <2>3. /\ tasks' = [j \in Slots |-> tasks'[j]] /\ \A j \in Slots : TaskOK(tasks'[j])
        /\ Hid => Hid'
        /\ Boots => Boots'
    BY <2>1, <2>2, TaskGoes DEF Requested, Boot
  <2> QED
    BY <1>2, <2>1, <2>3, PanelStep DEF Inv, Typed
<1>5. CASE TicketMissing(i) \/ \E mode \in Modes : TicketGiven(i, mode)
  <2>1. tasks[i].at = "verify" /\ Ends(i)
    BY <1>5 DEF TicketMissing, TicketGiven
  <2>2. /\ tasks' = [j \in Slots |-> tasks'[j]] /\ \A j \in Slots : TaskOK(tasks'[j])
        /\ Hid => Hid'
        /\ Boots => Boots'
    BY <2>1, TaskTurns DEF Ends, TaskOK, Boot
  <2>3. PanelOK(panel') /\ panel'.shown = panel.shown
    <3>1. CASE TicketMissing(i)
      BY <3>1 DEF TicketMissing, Inv, Typed, PanelOK
    <3>2. CASE \E mode \in Modes : TicketGiven(i, mode)
      <4> DEFINE forms == (panel.forms \ {"code"}) \cup {"profile"}
      <4>1. PICK mode \in Modes : panel' = [panel EXCEPT !.ticket = mode, !.forms = forms]
        BY <3>2 DEF TicketGiven
      <4>2. PanelOK(panel)
        BY DEF Inv, Typed
      <4>3. forms \in SUBSET Forms /\ forms # {}
        BY <4>2 DEF PanelOK, Forms
      <4> HIDE DEF forms
      <4> QED
        BY <4>1, <4>2, <4>3 DEF PanelOK
    <3> QED
      BY <1>5, <3>1, <3>2
  <2> QED
    BY <1>2, <2>2, <2>3, PanelStep
<1>6. CASE AuthInfoFetched(i) \/ LoginAvailable(i) \/ LoginTokenGiven(i)
  <2>1. /\ \/ tasks[i].at = "token" /\ Goes(i, "carrier", tasks[i].by) /\ panel' = panel
           \/ tasks[i].at = "carrier" /\ Goes(i, "consent", tasks[i].by) /\ panel' = Hidden(panel)
           \/ /\ tasks[i].at = "consent" /\ Goes(i, "one tap", tasks[i].by)
              /\ panel' = [panel EXCEPT !.shown = TRUE]
    BY <1>6 DEF AuthInfoFetched, LoginAvailable, LoginTokenGiven
  <2> DEFINE back == [panel EXCEPT !.shown = TRUE]
  <2>a. PanelOK(panel) /\ PanelOK(Hidden(panel))
    BY Panels DEF Inv, Typed
  <2>b. PanelOK(back) /\ back.shown
    BY <2>a DEF PanelOK
  <2>2. PanelOK(panel') /\ PanelOK(back) /\ back.shown
    BY <2>1, <2>a, <2>b
  <2>3. tasks[i].by \in {None} \cup Accounts \cup Forms
    BY <1>1 DEF Task
  <2>4. \A at \in TapSteps :
          Goes(i, at, tasks[i].by) =>
            /\ tasks' = [j \in Slots |-> tasks'[j]] /\ \A j \in Slots : TaskOK(tasks'[j])
            /\ tasks[i].at # "consent" => (Hid => Hid')
            /\ tasks[i].at \notin Boot => (Boots => Boots')
            /\ at = "consent" => Hid'
    BY <2>3, TaskGoes DEF TapSteps, Requested
  <2>5. CASE tasks[i].at = "token" /\ Goes(i, "carrier", tasks[i].by) /\ panel' = panel
    BY <1>2, <2>2, <2>4, <2>5, PanelStep DEF TapSteps, Boot
  <2>6. CASE /\ tasks[i].at = "carrier" /\ Goes(i, "consent", tasks[i].by)
             /\ panel' = Hidden(panel)
    BY <1>2, <2>2, <2>4, <2>6, PanelStep DEF TapSteps, Boot
  <2>7. CASE /\ tasks[i].at = "consent" /\ Goes(i, "one tap", tasks[i].by)
             /\ panel' = [panel EXCEPT !.shown = TRUE]
    BY <1>2, <2>2, <2>4, <2>7, PanelStep DEF TapSteps, Boot
  <2> QED
    BY <2>1, <2>5, <2>6, <2>7
<1>7. CASE TapFails(i)
  <2>1. /\ tasks[i].at \in TapSteps /\ Ends(i)
        /\ panel' = [panel EXCEPT !.button = FALSE,
                                  !.shown = @ \/ tasks[i].at \in {"carrier", "consent"}]
    BY <1>7 DEF TapFails, TapSteps
  <2>2. /\ PanelOK(panel')
        /\ panel.shown => panel'.shown
        /\ tasks[i].at = "consent" => panel'.shown
    BY <2>1 DEF Inv, Typed, PanelOK
  <2>3. /\ tasks' = [j \in Slots |-> tasks'[j]] /\ \A j \in Slots : TaskOK(tasks'[j])
        /\ tasks[i].at # "consent" => (Hid => Hid')
        /\ Boots => Boots'
    BY <2>1, TaskTurns DEF Ends, TaskOK, TapSteps, Boot
  <2> QED
    BY <1>2, <2>2, <2>3, PanelStep
<1> QED
  BY <1>3, <1>4, <1>5, <1>6, <1>7

\* Who signs in has a session, whatever the screen shows by then.
LEMMA SignIns ==
    ASSUME Inv, NEW i \in Slots, tasks[i] # None, NEW account \in Accounts, NEW named \in BOOLEAN,
           \/ AccountSignsIn(i, account, named) \/ CodeSignsIn(i, account, named)
           \/ Registers(i, account, named) \/ TapSignsIn(i, account, named)
    PROVE  Inv'
<1>1. /\ ExchangeUserToken(i, account, named)
      /\ tasks[i].at \in {"account", "verify", "register", "one tap"}
      /\ \E at \in {"naming", "profile"} : Goes(i, at, account)
  BY DEF AccountSignsIn, CodeSignsIn, Registers, TapSignsIn
<1>2. /\ tasks' = [j \in Slots |-> tasks'[j]] /\ \A j \in Slots : TaskOK(tasks'[j])
      /\ Hid => Hid'
      /\ Boots => Boots'
  BY <1>1, TaskGoes DEF Requested, Boot
<1>3. SessionOK(session') /\ session'.user = account
  BY <1>1 DEF ExchangeUserToken, Holds, Updated, Inv, Typed, SessionOK
<1>4. UNCHANGED <<ui, panel>> /\ chosen' = account /\ crossed' \in BOOLEAN
  BY <1>1 DEF ExchangeUserToken, Holds, Inv, Typed
<1>5. WayOn'
  BY <1>2, <1>3, <1>4, ShellAssumption DEF Inv, WayOn
<1> QED
  BY <1>2, <1>3, <1>4, <1>5 DEF Inv, Typed

LEMMA ProfileStep ==
    ASSUME Inv, NEW i \in Slots, tasks[i] # None, NEW comes \in BOOLEAN, ProfileArrives(i, comes)
    PROVE  Inv'
<1>1. tasks[i].at = "profile" /\ tasks[i].by \in Accounts
  BY DEF ProfileArrives, Inv, Typed, TaskOK
<1>2. SessionOK(session') /\ crossed' \in BOOLEAN
  <2>1. CASE comes
    <3>1. Holds(i, [session EXCEPT !.name = tasks[i].by])
      BY <2>1 DEF ProfileArrives
    <3> QED
      BY <1>1, <3>1 DEF Holds, Inv, Typed, SessionOK
  <2>2. CASE ~comes
    BY <2>2 DEF ProfileArrives, Inv, Typed
  <2> QED
    BY <2>1, <2>2
<1>3. Bootstrap(i, session') /\ chosen' \in Accounts \cup {None}
  BY DEF ProfileArrives, Inv, Typed
<1> QED
  BY <1>1, <1>2, <1>3, BootstrapStep

LEMMA OneTapStep ==
    ASSUME Inv, NEW i \in Slots, tasks[i] = None, NEW form \in Forms, OneTap(i, form)
    PROVE  Inv'
<1>1. UNCHANGED <<ui, session, chosen>> /\ crossed' \in BOOLEAN
  BY DEF OneTap, Contends, Inv, Typed
<1>2. CASE panel.tap = "ready"
  <2>1. Goes(i, "token", form) /\ panel' = panel
    BY <1>2 DEF OneTap
  <2>2. /\ tasks' = [j \in Slots |-> tasks'[j]] /\ \A j \in Slots : TaskOK(tasks'[j])
        /\ Hid => Hid'
        /\ Boots => Boots'
    BY <2>1, TaskGoes DEF Requested, TapSteps
  <2> QED
    BY <1>1, <2>1, <2>2, PanelStep DEF Inv, Typed
<1>3. CASE panel.tap # "ready"
  <2>1. panel' = [panel EXCEPT !.button = FALSE] /\ tasks' = tasks
    BY <1>3 DEF OneTap
  <2>2. PanelOK(panel') /\ panel'.shown = panel.shown
    BY <2>1 DEF Inv, Typed, PanelOK
  <2>3. /\ tasks' = [j \in Slots |-> tasks'[j]] /\ \A j \in Slots : TaskOK(tasks'[j])
        /\ Hid => Hid'
        /\ Boots => Boots'
    BY <2>1 DEF Inv, Typed, Hid, Boots
  <2> QED
    BY <1>1, <2>2, <2>3, PanelStep
<1> QED
  BY <1>2, <1>3

LEMMA LogoutSteps ==
    ASSUME Inv, NEW i \in Slots,
           \/ tasks[i] = None /\ Logout(i)
           \/ tasks[i] # None /\ LoggedOut(i)
    PROVE  Inv'
<1>1. CASE tasks[i] = None /\ Logout(i)
  <2>1. Goes(i, "logout", session.user) /\ UNCHANGED <<ui, panel, session, chosen>>
        /\ crossed' \in BOOLEAN
    BY <1>1 DEF Logout, Contends, Inv, Typed
  <2>2. /\ tasks' = [j \in Slots |-> tasks'[j]] /\ \A j \in Slots : TaskOK(tasks'[j])
        /\ Hid => Hid'
        /\ Boots => Boots'
    BY <1>1, <2>1, Fields, TaskGoes DEF Requested
  <2> QED
    BY <2>1, <2>2, PanelStep DEF Inv, Typed
<1>2. CASE tasks[i] # None /\ LoggedOut(i)
  <2>1. UiOK(ui') /\ PanelOK(panel') /\ panel'.shown
    BY <1>2, Screens, Panels DEF LoggedOut, Inv, Typed
  <2>2. tasks' = [j \in Slots |-> tasks'[j]] /\ \A j \in Slots : TaskOK(tasks'[j])
    BY <1>2, TaskTurns DEF LoggedOut, Ends, TaskOK
  <2>3. SessionOK(session') /\ chosen' = None /\ crossed' \in BOOLEAN
    BY <1>2 DEF LoggedOut, Holds, Cleared, NoSession, SessionOK, Inv, Typed
  <2> QED
    BY <2>1, <2>2, <2>3 DEF Inv, Typed, WayOn
<1> QED
  BY <1>1, <1>2

-----------------------------------------------------------------------------
(* The screens                                                             *)

\* The screen changes and a task may begin, while nobody signs in or out.
LEMMA ScreenStep ==
    ASSUME Inv, UiOK(ui'),
           \/ ui'.scene \in {"home", "museum", "levels", "settings", "game"}
           \/ ui'.scene = ui.scene /\ ui'.failed = ui.failed,
           tasks' = [j \in Slots |-> tasks'[j]], \A j \in Slots : TaskOK(tasks'[j]),
           Hid => Hid', Boots => Boots',
           UNCHANGED <<panel, session, chosen, crossed>>
    PROVE  Inv'
<1>1. WayOn'
  BY Fields DEF Inv, WayOn
<1> QED
  BY <1>1 DEF Inv, Typed

\* A task of the screens begins.
LEMMA ScreenTask ==
    ASSUME Inv, NEW i \in Slots, tasks[i] = None, NEW u, UiOK(u), NEW at \in Asked,
           \/ u.scene \in {"home", "museum", "levels", "settings", "game"}
           \/ u.scene = ui.scene /\ u.failed = ui.failed,
           ShowsAwaiting(i, u, at)
    PROVE  Inv'
<1>1. ui' = u /\ Goes(i, at, session.user) /\ UNCHANGED <<panel, session, chosen, crossed>>
  BY DEF ShowsAwaiting
<1>2. /\ tasks' = [j \in Slots |-> tasks'[j]] /\ \A j \in Slots : TaskOK(tasks'[j])
      /\ Hid => Hid'
      /\ Boots => Boots'
  BY <1>1, Fields, TaskGoes DEF Asked
<1> QED
  BY <1>1, <1>2, ScreenStep

LEMMA ScreenAlone ==
    ASSUME Inv, NEW u, UiOK(u),
           \/ u.scene \in {"home", "museum", "levels", "settings", "game"}
           \/ u.scene = ui.scene /\ u.failed = ui.failed,
           Shows(u)
    PROVE  Inv'
<1>1. ui' = u /\ UNCHANGED <<panel, session, tasks, chosen, crossed>>
  BY DEF Shows
<1>2. /\ tasks' = [j \in Slots |-> tasks'[j]] /\ \A j \in Slots : TaskOK(tasks'[j])
      /\ Hid => Hid'
      /\ Boots => Boots'
  BY <1>1 DEF Inv, Typed, Hid, Boots
<1> QED
  BY <1>1, <1>2, ScreenStep

LEMMA LevelOpens ==
    ASSUME Inv, NEW i \in Slots, tasks[i] = None, NEW story \in BOOLEAN,
           OpenLevel(i, story) \/ OpenDaily(i, story) \/ PlayOn(i, story)
    PROVE  Inv'
<1> DEFINE u == [ui EXCEPT !.scene = "game", !.modal = "", !.level = NewLevel(story)]
<1>1. ShowsAwaiting(i, u, "level")
  BY DEF OpenLevel, OpenDaily, PlayOn, LoadGame
<1>2. NewLevel(story) \in Level /\ NewLevel(story) # None
  <2>1. NewLevel(story) \in Level
    BY DEF NewLevel, Level, Phases
  <2> QED
    BY <2>1, ShellAssumption
<1>3. UiOK(u) /\ u.scene = "game"
  BY <1>2 DEF Inv, Typed, UiOK, Scenes, Modals
<1> QED
  BY <1>1, <1>3, ScreenTask DEF Asked

LEMMA ScreensTurn ==
    ASSUME Inv, NEW i \in Slots, tasks[i] = None,
           ShowHome(i) \/ ShowLevelSelect(i) \/ ToggleLanguage(i)
    PROVE  Inv'
<1>1. CASE ShowHome(i)
  <2>1. ShowsAwaiting(i, HomeScreen(ui), "catalog")
    BY <1>1 DEF ShowHome
  <2> QED
    BY <2>1, Screens, ScreenTask DEF Asked, Inv, Typed
<1>2. CASE ShowLevelSelect(i)
  <2>1. Shows(LevelSelect) \/ ShowsAwaiting(i, LevelSelect, "catalog")
    BY <1>2 DEF ShowLevelSelect
  <2>2. UiOK(LevelSelect) /\ LevelSelect.scene = "levels"
    BY DEF LevelSelect, Inv, Typed, UiOK, Scenes, Modals
  <2> QED
    BY <2>1, <2>2, ScreenTask, ScreenAlone DEF Asked
<1>3. CASE ToggleLanguage(i)
  <2> DEFINE u == [ui EXCEPT !.catalog = FALSE]
  <2>1. ShowsAwaiting(i, u, "request")
    BY <1>3 DEF ToggleLanguage
  <2>2. UiOK(u) /\ u.scene = ui.scene /\ u.failed = ui.failed
    BY DEF Inv, Typed, UiOK
  <2> QED
    BY <2>1, <2>2, ScreenTask DEF Asked
<1> QED
  BY <1>1, <1>2, <1>3

\* The buttons of the other screens are not heard over a level.
LEMMA PressedOutside ==
    ASSUME Inv, NEW button \in {"museum", "settings", "leaderboard", "profile"}, Presses(button)
    PROVE  ui.scene # "game"
<1>1. ui.scene = "game" => Drawn(ui) = GameButtons(ui.level)
  BY DEF Drawn
<1>2. \A l : OverButtons(l) \subseteq {"replay", "map", "next"}
  BY DEF OverButtons
<1> QED
  BY <1>1, <1>2 DEF Presses, Heard, GameButtons

LEMMA ScreenPresses ==
    ASSUME Inv,
           \/ ShowMuseum \/ ShowSettings \/ CloseModal
           \/ \E button \in {"hint", "knowledge", "privacy", "locked"}, modal \in Modals :
                OpenModal(button, modal)
    PROVE  Inv'
<1>1. \A modal \in Modals :
        UiOK([ui EXCEPT !.modal = modal])
  BY DEF Inv, Typed, UiOK
<1>2. CASE ShowMuseum
  <2> DEFINE u == [ui EXCEPT !.scene = "museum", !.modal = ""]
  <2>1. Presses("museum") /\ Shows(u)
    BY <1>2 DEF ShowMuseum
  <2>2. ui.scene # "game"
    BY <2>1, PressedOutside
  <2>3. UiOK(u) /\ u.scene = "museum"
    BY <2>2 DEF Inv, Typed, UiOK, Scenes, Modals
  <2> QED
    BY <2>1, <2>3, ScreenAlone
<1>3. CASE ShowSettings
  <2> DEFINE u == [ui EXCEPT !.scene = "settings", !.modal = ""]
  <2>1. (Presses("settings") \/ Presses("leaderboard") \/ Presses("profile")) /\ Shows(u)
    BY <1>3 DEF ShowSettings
  <2>2. ui.scene # "game"
    BY <2>1, PressedOutside
  <2>3. UiOK(u) /\ u.scene = "settings"
    BY <2>2 DEF Inv, Typed, UiOK, Scenes, Modals
  <2> QED
    BY <2>1, <2>3, ScreenAlone
<1>4. CASE CloseModal \/ \E button \in {"hint", "knowledge", "privacy", "locked"}, modal \in Modals :
                            OpenModal(button, modal)
  <2>1. PICK modal \in Modals : Shows([ui EXCEPT !.modal = modal])
    BY <1>4 DEF CloseModal, OpenModal, Modals
  <2>2. [ui EXCEPT !.modal = modal].scene = ui.scene
        /\ [ui EXCEPT !.modal = modal].failed = ui.failed
    BY DEF Inv, Typed, UiOK
  <2> QED
    BY <1>1, <2>1, <2>2, ScreenAlone
<1> QED
  BY <1>2, <1>3, <1>4

LEMMA LevelTurns ==
    ASSUME Inv, FoundLast \/ Completes \/ EndIntro \/ TimeUp
    PROVE  Inv'
<1>1. PICK from \in Phases, to \in Phases : PhaseTurns(from, to)
  BY DEF FoundLast, Completes, EndIntro, TimeUp, Phases
<1> DEFINE l == [ui.level EXCEPT !.phase = to]
           u == [ui EXCEPT !.level = l]
<1>2. ui.scene = "game" /\ Shows(u)
  BY <1>1 DEF PhaseTurns
<1>3. ui.level # None /\ ui.level \in Level
  BY <1>2, Fields DEF Inv, Typed, UiOK
<1>4. l \in Level /\ l # None
  <2>1. l \in Level
    BY <1>3 DEF Level
  <2> QED
    BY <2>1, ShellAssumption
<1> HIDE DEF l
<1>5. UiOK(u) /\ u.scene = "game"
  BY <1>2, <1>4 DEF Inv, Typed, UiOK
<1> QED
  BY <1>2, <1>5, ScreenAlone

LEMMA RetryStep ==
    ASSUME Inv, NEW i \in Slots, tasks[i] = None, Retry(i)
    PROVE  Inv'
<1>1. Bootstrap(i, session) /\ session' = session /\ chosen' = chosen /\ crossed' \in BOOLEAN
  BY DEF Retry, Contends, Inv, Typed
<1> QED
  BY <1>1, BootstrapStep DEF Inv, Typed

\* The page as it is opened.
LEMMA Opening ==
    ASSUME NEW s, SessionOK(s), NEW first \in {"refresh", "config"}, NEW i \in Slots,
           NEW ts, ts = [j \in Slots |-> IF j = i THEN Started(s, first).task ELSE None]
    PROVE  /\ UiOK(Started(s, first).ui) /\ PanelOK(Started(s, first).panel)
           /\ \A j \in Slots : TaskOK(ts[j])
           /\ \/ Started(s, first).panel.shown
              \/ /\ s.user # None /\ Started(s, first).ui.scene = "loading"
                 /\ ts[i] # None /\ ts[i].at \in Boot
<1>1. UiOK(Opened) /\ PanelOK(NewPanel) /\ Opened.scene = "loading"
  BY DEF UiOK, PanelOK, Opened, NewPanel, Scenes, Modals, Forms, Modes
<1>2. CASE s.user = None
  <2>1. Started(s, first) = [ui |-> LoginScreen(Opened), panel |-> Shown(NewPanel), task |-> None]
    BY <1>2 DEF Started
  <2>2. \A j \in Slots : ts[j] = None
    BY <2>1
  <2> QED
    BY <1>1, <2>1, <2>2, Screens, Panels DEF TaskOK
<1>3. CASE s.user # None
  <2> DEFINE t == [at |-> first, by |-> s.user]
  <2>1. Started(s, first) = [ui |-> Opened, panel |-> NewPanel, task |-> t]
    BY <1>3 DEF Started
  <2>2. t \in Task /\ t.at = first /\ t.by \in Accounts
    BY <1>3 DEF SessionOK, Task, Requested
  <2>3. t # None /\ TaskOK(t)
    BY <2>2, ShellAssumption DEF TaskOK, TapSteps
  <2>4. ts[i] = t /\ \A j \in Slots \ {i} : ts[j] = None
    BY <2>1
  <2>5. \A j \in Slots : TaskOK(ts[j])
    BY <2>3, <2>4 DEF TaskOK
  <2> QED
    BY <1>1, <1>3, <2>1, <2>2, <2>3, <2>4, <2>5 DEF Boot
<1> QED
  BY <1>2, <1>3

LEMMA ReloadStep ==
    ASSUME Inv, NEW i \in Slots, NEW first \in {"refresh", "config"}, Reload(i, first)
    PROVE  Inv'
<1>1. /\ ui' = Started(session, first).ui /\ panel' = Started(session, first).panel
      /\ tasks' = [j \in Slots |-> IF j = i THEN Started(session, first).task ELSE None]
      /\ UNCHANGED <<session, chosen>> /\ crossed' \in BOOLEAN
  BY DEF Reload, Inv, Typed
<1>2. SessionOK(session)
  BY DEF Inv, Typed
<1>3. /\ UiOK(ui') /\ PanelOK(panel') /\ \A j \in Slots : TaskOK(tasks'[j])
      /\ \/ panel'.shown
         \/ /\ session.user # None /\ ui'.scene = "loading"
            /\ tasks'[i] # None /\ tasks'[i].at \in Boot
  BY <1>1, <1>2, Opening
<1>4. tasks' = [j \in Slots |-> tasks'[j]]
  BY <1>1
<1>5. WayOn'
  BY <1>1, <1>3 DEF WayOn, Boots
<1> QED
  BY <1>1, <1>3, <1>4, <1>5 DEF Inv, Typed

LEMMA InvInit ==
    Init => Inv
<1> SUFFICES ASSUME Init
             PROVE  Inv
  OBVIOUS
<1>1. SessionOK(session) /\ chosen \in Accounts \cup {None} /\ crossed = FALSE
  BY DEF Init, SessionOK, NoSession
<1>2. PICK i \in Slots, first \in {"refresh", "config"} :
        /\ ui = Started(session, first).ui /\ panel = Started(session, first).panel
        /\ tasks = [j \in Slots |-> IF j = i THEN Started(session, first).task ELSE None]
  BY DEF Init
<1>3. /\ UiOK(ui) /\ PanelOK(panel) /\ \A j \in Slots : TaskOK(tasks[j])
      /\ \/ panel.shown
         \/ /\ session.user # None /\ ui.scene = "loading"
            /\ tasks[i] # None /\ tasks[i].at \in Boot
  BY <1>1, <1>2, Opening
<1>4. tasks = [j \in Slots |-> tasks[j]]
  BY <1>2
<1>5. WayOn
  BY <1>3 DEF WayOn, Boots
<1> QED
  BY <1>1, <1>3, <1>4, <1>5 DEF Inv, Typed

LEMMA BeginStep ==
    ASSUME Inv, NEW i \in Slots, tasks[i] = None, Begin(i)
    PROVE  Inv'
<1>1. CASE Login(i) \/ SendCode(i) \/ VerifyCode(i) \/ CompleteRegistration(i) \/ Ask(i)
  BY <1>1, Submissions
<1>2. CASE Logout(i)
  BY <1>2, LogoutSteps
<1>3. CASE \E form \in Forms : OneTap(i, form)
  BY <1>3, OneTapStep
<1>4. CASE Retry(i)
  BY <1>4, RetryStep
<1>5. CASE ShowHome(i) \/ ShowLevelSelect(i) \/ ToggleLanguage(i)
  BY <1>5, ScreensTurn
<1>6. CASE \E story \in BOOLEAN : OpenLevel(i, story) \/ OpenDaily(i, story) \/ PlayOn(i, story)
  BY <1>6, LevelOpens
<1> QED
  BY <1>1, <1>2, <1>3, <1>4, <1>5, <1>6 DEF Begin

LEMMA ResumeStep ==
    ASSUME Inv, NEW i \in Slots, tasks[i] # None, Resume(i)
    PROVE  Inv'
<1>1. ASSUME NEW answer \in Answers(i),
             \/ Refreshed(i, answer) \/ Configured(i, answer) \/ Flushed(i, answer)
             \/ LevelArrives(i, answer) \/ AskAnswered(i, answer)
             \/ \E kept \in BOOLEAN : CatalogArrives(i, answer, kept)
      PROVE  Inv'
  BY <1>1, RefreshedStep, ConfiguredStep, FlushedStep, Arrivals
<1>2. CASE \/ CodeSent(i) \/ Denied(i) \/ NicknameSaved(i) \/ TicketMissing(i)
           \/ \E mode \in Modes : TicketGiven(i, mode)
           \/ AuthInfoFetched(i) \/ LoginAvailable(i) \/ LoginTokenGiven(i) \/ TapFails(i)
  BY <1>2, PanelTasks
<1>3. CASE \E account \in Accounts, named \in BOOLEAN :
             \/ AccountSignsIn(i, account, named) \/ CodeSignsIn(i, account, named)
             \/ Registers(i, account, named) \/ TapSignsIn(i, account, named)
  BY <1>3, SignIns
<1>4. CASE \E comes \in BOOLEAN : ProfileArrives(i, comes)
  BY <1>4, ProfileStep
<1>5. CASE LoggedOut(i)
  BY <1>5, LogoutSteps
<1> QED
  BY <1>1, <1>2, <1>3, <1>4, <1>5 DEF Resume

LEMMA InvStep ==
    Inv /\ [Next]_vars => Inv'
<1> SUFFICES ASSUME Inv, [Next]_vars
             PROVE  Inv'
  OBVIOUS
<1>1. CASE \E i \in Slots : (tasks[i] = None /\ Begin(i)) \/ (tasks[i] # None /\ Resume(i))
  BY <1>1, BeginStep, ResumeStep
<1>2. CASE \E i \in Slots, first \in {"refresh", "config"} : Reload(i, first)
  BY <1>2, ReloadStep
<1>3. CASE \/ \E mode \in Modes : SetMode(mode)
           \/ ShowLogin \/ ShowRegistration
           \/ \E ready \in BOOLEAN : Probed(ready)
  BY <1>3, OnThePanel
<1>4. CASE \/ ShowMuseum \/ ShowSettings \/ CloseModal
           \/ \E button \in {"hint", "knowledge", "privacy", "locked"}, modal \in Modals :
                OpenModal(button, modal)
  BY <1>4, ScreenPresses
<1>5. CASE FoundLast \/ Completes \/ EndIntro \/ TimeUp
  BY <1>5, LevelTurns
<1>6. CASE UNCHANGED vars
  BY <1>6 DEF vars, Inv, Typed, WayOn, Hid, Boots
<1> QED
  BY <1>1, <1>2, <1>3, <1>4, <1>5, <1>6 DEF Next

-----------------------------------------------------------------------------
(* What the invariant gives                                                *)

\* Every screen but the sign-in panel's own has a button, and the window over it has
\* one too.
LEMMA ButtonsHeard ==
    ASSUME Inv, ui.scene \notin {"login", "game"}, ui.scene = "loading" => ui.failed
    PROVE  Heard(ui) # {}
<1>1. Drawn(ui) # {}
  <2>1. ui.scene \in {"loading", "home", "museum", "levels", "settings"}
    BY Fields DEF Scenes
  <2> QED
    BY <2>1 DEF Drawn, HomeButtons, LevelsButtons, SettingsButtons, Navigation
<1>2. CASE ui.modal = ""
  BY <1>1, <1>2 DEF Heard
<1>3. CASE ui.modal # ""
  BY <1>3 DEF Heard
<1> QED
  BY <1>2, <1>3

\* A level has a button that is heard, or is over.
LEMMA LevelHeard ==
    ASSUME Inv, ui.scene = "game"
    PROVE  Heard(ui) # {} \/ Stranded(ui)
<1>1. "levels" \in Drawn(ui) /\ (~ui.level.story => "replay" \in Drawn(ui))
  BY DEF Drawn, GameButtons
<1>2. CASE ~Over(ui.level) /\ ui.modal = ""
  BY <1>1, <1>2 DEF Heard
<1>3. CASE ~Over(ui.level) /\ ui.modal # ""
  BY <1>3 DEF Heard
<1>4. CASE Over(ui.level) /\ ui.modal = "" /\ ~ui.level.story
  <2>1. "replay" \in Heard(ui)
    BY <1>1, <1>4 DEF Heard
  <2> QED
    BY <2>1
<1> QED
  BY <1>2, <1>3, <1>4 DEF Stranded

LEMMA InvGives ==
    ASSUME Inv
    PROVE  ShellTypeOK /\ CanGoOn
<1>1. ShellTypeOK
  BY DEF Inv, Typed, UiOK, PanelOK, SessionOK, ShellTypeOK
<1>2. CanGoOn
  <2> SUFFICES ASSUME Idle, ~panel.shown
               PROVE  session.user # None /\ (Heard(ui) # {} \/ Stranded(ui))
    BY DEF CanGoOn, Inv, Typed, PanelOK
  <2>1. ~Hid /\ ~Boots
    BY DEF Idle, Hid, Boots
  <2>2. session.user # None /\ ui.scene # "login" /\ (ui.scene = "loading" => ui.failed)
    BY <2>1 DEF Inv, WayOn
  <2> QED
    BY <2>2, ButtonsHeard, LevelHeard
<1> QED
  BY <1>1, <1>2

LEMMA InvAlways ==
    Spec => []Inv
BY InvInit, InvStep, PTL DEF Spec

\* The shell's state keeps its types: a level is there exactly on the screen that
\* plays it, the panel's forms and ticket, the session's owner and name.
THEOREM ShellTypeCorrect ==
    Spec => []ShellTypeOK
<1>1. Inv => ShellTypeOK
  BY InvGives
<1> QED
  BY <1>1, InvAlways, PTL

\* Whatever requests fail, expire, cross or arrive late, for any number of them in
\* flight: once nothing is awaited, the player has the sign-in panel with a form, or is
\* signed in and has a button that is heard, unless a level is over that is a story's
\* or lies under a dialog.
THEOREM AlwaysCanGoOn ==
    Spec => []CanGoOn
<1>1. Inv => CanGoOn
  BY InvGives
<1> QED
  BY <1>1, InvAlways, PTL

-----------------------------------------------------------------------------
(* Who has signed in.  As long as no two sign-ins overlapped and nothing   *)
(* else was in flight when the session changed, what is in flight goes by  *)
(* the session there is: nobody is signing in once somebody is signed in,  *)
(* and the panel is left over the game only until the bootstrap of who     *)
(* just signed in.                                                         *)

SignIn == {"account", "verify", "register", "refused"} \cup TapSteps

SessionIs(s, account) ==
    /\ s.user = None => s.name = None
    /\ s.user # None => s.user = account /\ s.name \in {None, account}

TaskIs(t, s) ==
    t # None =>
        /\ t.at \notin SignIn \cup {"code"} => t.by = s.user
        /\ s.user # None => t.at \notin SignIn

Named == \E i \in Slots : tasks[i] # None /\ tasks[i].at \in {"naming", "profile"}
Waiting == ui.scene = "loading" /\ ~ui.failed

Covered ==
    session.user # None =>
        /\ panel.shown \/ ui.scene = "login" => Named
        /\ Waiting => Named \/ Boots

Orderly ==
    /\ SessionIs(session, chosen)
    /\ \A i \in Slots : TaskIs(tasks[i], session)
    /\ Covered

Uncrossed == ~crossed => Orderly

\* A step of one task that leaves the session alone
LEMMA SameSession ==
    ASSUME Inv, Orderly, NEW i \in Slots, NEW t, tasks' = [tasks EXCEPT ![i] = t],
           TaskIs(t, session), UNCHANGED <<session, chosen>>,
           session.user # None =>
               /\ tasks[i] # None /\ tasks[i].at \in {"naming", "profile"} =>
                    t # None /\ t.at \in {"naming", "profile"}
               /\ panel'.shown => panel.shown
               /\ ui'.scene = "login" => ui.scene = "login"
               /\ Waiting' => \/ Waiting /\ (tasks[i] # None => tasks[i].at \notin Boot)
                              \/ t # None /\ t.at \in Boot
    PROVE  Orderly'
<1>1. tasks'[i] = t /\ \A j \in Slots \ {i} : tasks'[j] = tasks[j]
  BY DEF Inv, Typed
<1>2. SessionIs(session', chosen') /\ \A j \in Slots : TaskIs(tasks'[j], session')
  BY <1>1 DEF Orderly
<1>3. session.user # None /\ Named => Named'
  BY <1>1 DEF Named
<1>4. session.user # None /\ Waiting' => Named' \/ Boots'
  BY <1>1, <1>3 DEF Orderly, Covered, Boots
<1>5. Covered'
  BY <1>3, <1>4 DEF Orderly, Covered
<1> QED
  BY <1>2, <1>5 DEF Orderly

\* ... and one of the screen and the panel alone
LEMMA SameTasks ==
    ASSUME Inv, Orderly, UNCHANGED <<session, tasks, chosen>>,
           panel'.shown => panel.shown,
           ui'.scene = "login" => ui.scene = "login",
           Waiting' => Waiting
    PROVE  Orderly'
BY DEF Orderly, Covered, Named, Boots

\* The session is given up by one task, the others being idle.
LEMMA SessionEnds ==
    ASSUME Inv, Orderly, NEW i \in Slots, NEW t, tasks' = [tasks EXCEPT ![i] = t],
           t # None => t.at \notin SignIn /\ t.by = None,
           session' = NoSession, chosen' = None,
           session' # session => \A j \in Slots \ {i} : tasks[j] = None
    PROVE  Orderly'
<1>1. session'.user = None /\ session'.name = None
  BY DEF NoSession
<1>2. tasks'[i] = t /\ \A j \in Slots \ {i} : tasks'[j] = tasks[j]
  BY DEF Inv, Typed
<1>3. TaskIs(t, session')
  BY <1>1 DEF TaskIs
<1>4. \A j \in Slots \ {i} : TaskIs(tasks'[j], session')
  <2>1. CASE session' = session
    BY <1>2, <2>1 DEF Orderly
  <2>2. CASE session' # session
    BY <1>2, <2>2 DEF TaskIs
  <2> QED
    BY <2>1, <2>2
<1>5. SessionIs(session', chosen') /\ Covered'
  BY <1>1 DEF SessionIs, Covered
<1> QED
  BY <1>2, <1>3, <1>4, <1>5 DEF Orderly

\* An answer renews the session there is, or ends it while nothing else is in flight.
LEMMA CarriedInOrder ==
    ASSUME Inv, Orderly, NEW i \in Slots, tasks[i] # None,
           tasks[i].at \notin SignIn \cup {"code"},
           NEW answer \in Answers(i), Carried(i, answer), ~crossed'
    PROVE  /\ tasks[i].by = session.user
           /\ answer # "ended" => session' = session /\ chosen' = chosen
           /\ answer = "ended" => /\ session' = NoSession /\ chosen' = None
                                  /\ \A j \in Slots \ {i} : tasks[j] = None
<1>1. tasks[i].by = session.user
  BY DEF Orderly, TaskIs
<1>2. [session EXCEPT !.user = session.user] = session
  BY DEF Inv, Typed, SessionOK
<1>3. answer = "renewed" => session' = session /\ chosen' = chosen
  BY <1>1, <1>2 DEF Carried, Holds
<1>4. CASE answer = "ended"
  <2>1. session' = NoSession /\ chosen' = None
        /\ crossed' = (crossed \/ (session' # session /\ \E j \in Slots \ {i} : tasks[j] # None))
    BY <1>4 DEF Carried, Holds, Cleared
  <2>2. session.user # None
    BY <1>1, <1>4 DEF Answers
  <2>3. session' # session
    BY <2>1, <2>2 DEF NoSession
  <2> QED
    BY <1>1, <1>4, <2>1, <2>3
<1>5. answer \notin {"renewed", "ended"} => session' = session /\ chosen' = chosen
  BY DEF Carried
<1> QED
  BY <1>1, <1>3, <1>4, <1>5

\* A task of the session goes on as such.
LEMMA OwnTask ==
    ASSUME NEW at, NEW s, at \notin SignIn
    PROVE  TaskIs([at |-> at, by |-> s.user], s)
BY DEF TaskIs

LEMMA OtherTasks ==
    \A at \in Boot \cup Asked \cup {"naming", "profile", "logout"} : at \notin SignIn
BY DEF Boot, Asked, SignIn, TapSteps

LEMMA BootTask ==
    ASSUME NEW at \in Boot \cup {"naming", "profile"}, NEW by \in Accounts
    PROVE  [at |-> at, by |-> by] # None
<1>1. [at |-> at, by |-> by] \in Task
  BY DEF Task, Requested, Boot
<1> QED
  BY <1>1, ShellAssumption

LEMMA BootingInOrder ==
    ASSUME Inv, Orderly, NEW i \in Slots, tasks[i] # None, NEW answer \in Answers(i), ~crossed',
           Refreshed(i, answer) \/ Configured(i, answer) \/ Flushed(i, answer)
    PROVE  Orderly'
<1>1. Carried(i, answer) /\ tasks[i].at \in Boot /\ tasks[i].at \notin SignIn \cup {"code"}
  BY DEF Refreshed, Configured, Flushed, Boot, SignIn, TapSteps
<1>2. /\ tasks[i].by = session.user
      /\ answer # "ended" => session' = session /\ chosen' = chosen
      /\ answer = "ended" => /\ session' = NoSession /\ chosen' = None
                             /\ \A j \in Slots \ {i} : tasks[j] = None
  BY <1>1, CarriedInOrder
<1>3. CASE answer = "ended"
  <2>1. PICK t : tasks' = [tasks EXCEPT ![i] = t] /\ (t # None => t = [at |-> "catalog", by |-> session'.user])
    BY <1>3 DEF Refreshed, Configured, Flushed, Accepted, Ends, Goes
  <2>2. session'.user = None /\ "catalog" \notin SignIn
    BY <1>2, <1>3 DEF NoSession, SignIn, TapSteps
  <2>3. t # None => t.at \notin SignIn /\ t.by = None
    BY <2>1, <2>2
  <2> QED
    BY <1>2, <1>3, <2>1, <2>3, SessionEnds
<1>4. CASE answer # "ended" /\ Flushed(i, answer)
  <2> DEFINE t == [at |-> "catalog", by |-> session.user]
  <2>1. tasks' = [tasks EXCEPT ![i] = t] /\ panel' = panel /\ ui' = HomeScreen(ui)
    BY <1>2, <1>4 DEF Flushed, Goes, PanelAfter, UiAfter
  <2>2. ui'.scene = "home"
    BY <2>1, Screens DEF Inv, Typed
  <2>3. TaskIs(t, session)
    <3>1. "catalog" \notin SignIn
      BY DEF SignIn, TapSteps
    <3> QED
      BY <3>1, OwnTask
  <2>4. tasks[i].at \notin {"naming", "profile"}
    BY <1>1 DEF Boot
  <2> HIDE DEF t
  <2> QED
    BY <1>2, <1>4, <2>1, <2>2, <2>3, <2>4, SameSession DEF Waiting
<1>5. CASE answer # "ended" /\ ~Flushed(i, answer)
  <2>1. CASE Accepted(answer)
    <3>1. PICK at \in {"config", "flush"} : Goes(i, at, session.user)
      BY <1>2, <1>5, <2>1 DEF Refreshed, Configured, Accepted
    <3> DEFINE t == [at |-> at, by |-> session.user]
    <3>2. tasks' = [tasks EXCEPT ![i] = t] /\ panel' = panel /\ ui' = ui
      BY <1>5, <2>1, <3>1 DEF Goes, Refreshed, Configured, Accepted, PanelAfter
    <3>3. TaskIs(t, session)
      BY OwnTask DEF SignIn, TapSteps
    <3>4. session.user # None => t # None /\ t.at \in Boot
      BY Fields, BootTask DEF Boot
    <3>5. tasks[i].at \notin {"naming", "profile"}
      BY <1>1 DEF Boot
    <3> HIDE DEF t
    <3> QED
      BY <1>2, <1>5, <3>2, <3>3, <3>4, <3>5, SameSession
  <2>2. CASE ~Accepted(answer)
    <3>1. Ends(i) /\ panel' = panel /\ ui' = BootstrapError(ui)
      <4>1. CASE Configured(i, answer)
        BY <1>5, <2>2, <4>1 DEF Configured, PanelAfter, UiAfter
      <4>2. CASE Refreshed(i, answer)
        <5>1. session'.user # None
          BY <1>2, <1>5, <4>2, ShellAssumption DEF Refreshed, Inv, Typed, TaskOK
        <5> QED
          BY <2>2, <4>2, <5>1 DEF Refreshed, Accepted
      <4> QED
        BY <1>5, <4>1, <4>2
    <3>2. ui'.scene = "loading" /\ ui'.failed
      BY <3>1, Screens DEF Inv, Typed
    <3>3. TaskIs(None, session)
      BY DEF TaskIs
    <3>4. tasks[i].at \notin {"naming", "profile"}
      BY <1>1 DEF Boot
    <3> QED
      BY <1>2, <1>5, <3>1, <3>2, <3>3, <3>4, SameSession DEF Ends, Waiting
  <2> QED
    BY <2>1, <2>2
<1> QED
  BY <1>3, <1>4, <1>5

LEMMA ArrivalsInOrder ==
    ASSUME Inv, Orderly, NEW i \in Slots, tasks[i] # None, NEW answer \in Answers(i), ~crossed',
           \/ \E kept \in BOOLEAN : CatalogArrives(i, answer, kept)
           \/ LevelArrives(i, answer) \/ AskAnswered(i, answer)
    PROVE  Orderly'
<1>1. /\ Carried(i, answer) /\ tasks[i].at \in Asked \ {"code"}
      /\ tasks[i].at \notin {"naming", "profile"} \cup Boot
      /\ tasks' = [tasks EXCEPT ![i] = None]
      /\ panel' = PanelAfter(answer)
  BY DEF CatalogArrives, LevelArrives, AskAnswered, Asked, Boot, Ends
<1>2. /\ answer # "ended" => session' = session /\ chosen' = chosen
      /\ answer = "ended" => /\ session' = NoSession /\ chosen' = None
                             /\ \A j \in Slots \ {i} : tasks[j] = None
  BY <1>1, OtherTasks, CarriedInOrder
<1>3. CASE answer = "ended"
  BY <1>1, <1>2, <1>3, SessionEnds
<1>4. CASE answer # "ended"
  <2>1. panel' = panel /\ UiAfter(answer) = ui
    BY <1>1, <1>4 DEF PanelAfter, UiAfter
  <2>2. ui'.scene = ui.scene /\ ui'.failed = ui.failed
    <3>1. UiOK(ui)
      BY DEF Inv, Typed
    <3>2. CASE \E kept \in BOOLEAN : CatalogArrives(i, answer, kept)
      BY <2>1, <3>1, <3>2 DEF CatalogArrives, UiOK
    <3>3. CASE LevelArrives(i, answer) \/ AskAnswered(i, answer)
      BY <2>1, <3>1, <3>3 DEF LevelArrives, AskAnswered, UiOK
    <3> QED
      BY <3>2, <3>3
  <2>3. TaskIs(None, session)
    BY DEF TaskIs
  <2> QED
    BY <1>1, <1>2, <1>4, <2>1, <2>2, <2>3, SameSession DEF Waiting
<1> QED
  BY <1>3, <1>4

\* While the panel is shown to who is signed in, his profile is on its way, and
\* whatever he sends from the panel crosses it.
LEMMA SubmissionsInOrder ==
    ASSUME Inv, Orderly, NEW i \in Slots, tasks[i] = None, ~crossed',
           \/ Login(i) \/ SendCode(i) \/ VerifyCode(i) \/ CompleteRegistration(i) \/ Ask(i)
           \/ \E form \in Forms : OneTap(i, form)
           \/ Logout(i)
    PROVE  Orderly'
<1>1. panel.shown /\ Contends => session.user = None
  BY DEF Contends, InFlight, Orderly, Covered, Named, Requested
<1>2. UNCHANGED <<ui, session, chosen>> /\ panel'.shown = panel.shown
  <2>1. PanelOK(panel)
    BY DEF Inv, Typed
  <2>2. CASE Login(i) \/ SendCode(i) \/ VerifyCode(i) \/ CompleteRegistration(i) \/ Ask(i) \/ Logout(i)
    BY <2>2 DEF Login, SendCode, VerifyCode, CompleteRegistration, Submits, Ask, Logout
  <2>3. CASE \E form \in Forms : OneTap(i, form)
    BY <2>1, <2>3 DEF OneTap, PanelOK
  <2> QED
    BY <2>2, <2>3
<1>3. CASE Login(i) \/ VerifyCode(i) \/ CompleteRegistration(i)
  <2>1. PICK at \in SignIn : Goes(i, at, None)
    BY <1>3 DEF Login, VerifyCode, CompleteRegistration, Submits, SignIn
  <2>2. session.user = None
    BY <1>1, <1>3 DEF Login, VerifyCode, CompleteRegistration, Submits, OnPanel
  <2>3. TaskIs([at |-> at, by |-> None], session)
    BY <2>1, <2>2 DEF TaskIs
  <2> QED
    BY <1>2, <2>1, <2>2, <2>3, SameSession DEF Goes
<1>4. CASE \E form \in Forms : OneTap(i, form)
  <2>1. PICK form \in Forms : OneTap(i, form)
    BY <1>4
  <2>2. session.user = None
    BY <1>1, <2>1 DEF OneTap, OnPanel
  <2>3. CASE Goes(i, "token", form)
    <3>1. "token" \in SignIn
      BY DEF SignIn, TapSteps
    <3>2. TaskIs([at |-> "token", by |-> form], session)
      BY <2>2, <3>1 DEF TaskIs
    <3> QED
      BY <1>2, <2>2, <2>3, <3>2, SameSession DEF Goes
  <2>4. CASE tasks' = tasks
    BY <1>2, <2>4, SameTasks DEF Waiting
  <2> QED
    BY <2>1, <2>3, <2>4 DEF OneTap
<1>5. CASE SendCode(i)
  <2>1. Goes(i, "code", None)
    BY <1>5 DEF SendCode
  <2>2. TaskIs([at |-> "code", by |-> None], session)
    BY OtherTasks DEF TaskIs, Asked
  <2> QED
    BY <1>2, <2>1, <2>2, SameSession DEF Goes, Waiting
<1>6. CASE Ask(i) \/ Logout(i)
  <2>1. PICK at \in {"request", "logout"} : Goes(i, at, session.user)
    BY <1>6 DEF Ask, Logout
  <2>2. at \notin SignIn
    BY OtherTasks DEF Asked
  <2>3. TaskIs([at |-> at, by |-> session.user], session)
    BY <2>2, OwnTask
  <2> QED
    BY <1>2, <2>1, <2>3, SameSession DEF Goes, Waiting
<1> QED
  BY <1>3, <1>4, <1>5, <1>6

LEMMA PanelTasksInOrder ==
    ASSUME Inv, Orderly, NEW i \in Slots, tasks[i] # None,
           \/ CodeSent(i) \/ Denied(i) \/ NicknameSaved(i) \/ TicketMissing(i)
           \/ \E mode \in Modes : TicketGiven(i, mode)
           \/ AuthInfoFetched(i) \/ LoginAvailable(i) \/ LoginTokenGiven(i) \/ TapFails(i)
    PROVE  Orderly'
<1>1. UNCHANGED <<ui, session, chosen>>
  BY DEF CodeSent, Denied, NicknameSaved, TicketMissing, TicketGiven, AuthInfoFetched,
         LoginAvailable, LoginTokenGiven, TapFails
<1>2. CASE CodeSent(i)
  <2>1. tasks[i].at = "code" /\ tasks' = [tasks EXCEPT ![i] = None] /\ panel' = panel
    BY <1>2 DEF CodeSent, Ends
  <2>2. TaskIs(None, session)
    BY DEF TaskIs
  <2> QED
    BY <1>1, <2>1, <2>2, SameSession DEF Boot, Waiting
<1>3. CASE NicknameSaved(i)
  <2>1. tasks[i].at = "naming" /\ Goes(i, "profile", tasks[i].by) /\ panel' = panel
    BY <1>3 DEF NicknameSaved
  <2>2. tasks[i].by = session.user /\ tasks[i].by \in Accounts
    BY <2>1, OtherTasks DEF Orderly, TaskIs, Inv, Typed, TaskOK
  <2> DEFINE t == [at |-> "profile", by |-> tasks[i].by]
  <2>3. TaskIs(t, session)
    BY <2>2, OtherTasks, OwnTask
  <2>4. t # None /\ t.at = "profile"
    BY <2>2, BootTask
  <2>5. tasks' = [tasks EXCEPT ![i] = t]
    BY <2>1 DEF Goes
  <2> HIDE DEF t
  <2> QED
    BY <1>1, <2>1, <2>3, <2>4, <2>5, SameSession DEF Boot, Waiting
<1>4. CASE ~CodeSent(i) /\ ~NicknameSaved(i)
  <2>1. tasks[i].at \in SignIn
    BY <1>4 DEF Denied, TicketMissing, TicketGiven, AuthInfoFetched, LoginAvailable,
                LoginTokenGiven, TapFails, SignIn, TapSteps
  <2>2. session.user = None
    BY <2>1 DEF Orderly, TaskIs
  <2>3. PICK t : tasks' = [tasks EXCEPT ![i] = t] /\ (t # None => t.at \in SignIn)
    <3>1. CASE Ends(i)
      BY <3>1 DEF Ends
    <3>2. CASE \E at \in TapSteps : Goes(i, at, tasks[i].by)
      <4>1. PICK at \in TapSteps : Goes(i, at, tasks[i].by)
        BY <3>2
      <4> DEFINE t == [at |-> at, by |-> tasks[i].by]
      <4>2. tasks' = [tasks EXCEPT ![i] = t] /\ t.at \in SignIn
        BY <4>1 DEF Goes, SignIn
      <4> QED
        BY <4>2
    <3> QED
      BY <1>4, <3>1, <3>2 DEF Denied, TicketMissing, TicketGiven, AuthInfoFetched,
                              LoginAvailable, LoginTokenGiven, TapFails, TapSteps
  <2>4. TaskIs(t, session)
    BY <2>2, <2>3 DEF TaskIs
  <2> QED
    BY <1>1, <2>2, <2>3, <2>4, SameSession
<1> QED
  BY <1>2, <1>3, <1>4

\* Who signs in was not signed in, and was alone.
LEMMA SignInsInOrder ==
    ASSUME Inv, Orderly, NEW i \in Slots, tasks[i] # None, ~crossed',
           NEW account \in Accounts, NEW named \in BOOLEAN,
           \/ AccountSignsIn(i, account, named) \/ CodeSignsIn(i, account, named)
           \/ Registers(i, account, named) \/ TapSignsIn(i, account, named)
    PROVE  Orderly'
<1>1. ExchangeUserToken(i, account, named) /\ tasks[i].at \in SignIn
  BY DEF AccountSignsIn, CodeSignsIn, Registers, TapSignsIn, SignIn, TapSteps
<1>2. PICK at \in {"naming", "profile"} : Goes(i, at, account)
  BY DEF AccountSignsIn, CodeSignsIn, Registers, TapSignsIn
<1>3. session.user = None /\ session.name = None
  BY <1>1 DEF Orderly, TaskIs, SessionIs
<1>4. session'.user = account /\ session'.name \in {None, account} /\ chosen' = account
  BY <1>1, <1>3 DEF ExchangeUserToken, Holds, Updated
<1>5. \A j \in Slots \ {i} : tasks[j] = None
  BY <1>1, <1>3, <1>4, ShellAssumption DEF ExchangeUserToken, Holds
<1> DEFINE t == [at |-> at, by |-> account]
<1>6. t # None /\ t.at \in {"naming", "profile"} /\ t.by = account
  BY BootTask
<1>7. tasks' = [tasks EXCEPT ![i] = t]
  BY <1>2 DEF Goes
<1> HIDE DEF t
<1>8. tasks'[i] = t /\ \A j \in Slots \ {i} : tasks'[j] = None
  BY <1>5, <1>7 DEF Inv, Typed
<1>9. TaskIs(t, session')
  BY <1>4, <1>6, OtherTasks DEF TaskIs
<1>10. \A j \in Slots : TaskIs(tasks'[j], session')
  BY <1>8, <1>9 DEF TaskIs
<1>11. SessionIs(session', chosen')
  BY <1>4, ShellAssumption DEF SessionIs
<1>12. Covered'
  BY <1>6, <1>8 DEF Covered, Named
<1> QED
  BY <1>10, <1>11, <1>12 DEF Orderly

\* Bootstrap hides the panel from who is signed in, and loads.
LEMMA BootstrapInOrder ==
    ASSUME Inv, NEW i \in Slots, Bootstrap(i, session'), SessionIs(session', chosen'),
           session'.user \in Accounts \cup {None},
           \A j \in Slots \ {i} : TaskIs(tasks[j], session')
    PROVE  Orderly'
<1>1. CASE session'.user = None
  <2>1. tasks' = [tasks EXCEPT ![i] = None]
    BY <1>1 DEF Bootstrap, Ends
  <2>2. \A j \in Slots : TaskIs(tasks'[j], session')
    BY <2>1 DEF TaskIs, Inv, Typed
  <2> QED
    BY <1>1, <2>2 DEF Orderly, Covered
<1>2. CASE session'.user # None
  <2>1. PICK at \in {"refresh", "config"} : Goes(i, at, session'.user)
    BY <1>2 DEF Bootstrap
  <2> DEFINE t == [at |-> at, by |-> session'.user]
  <2>2. t # None /\ t.at \in Boot
    BY <1>2, BootTask DEF Boot
  <2>3. TaskIs(t, session')
    <3>1. at \notin SignIn
      BY OtherTasks DEF Boot
    <3> QED
      BY <3>1, OwnTask
  <2>4. tasks' = [tasks EXCEPT ![i] = t]
    BY <2>1 DEF Goes
  <2> HIDE DEF t
  <2>5. tasks'[i] = t /\ \A j \in Slots \ {i} : tasks'[j] = tasks[j]
    BY <2>4 DEF Inv, Typed
  <2>6. \A j \in Slots : TaskIs(tasks'[j], session')
    BY <2>3, <2>5
  <2>7. ui'.scene = "loading" /\ ~panel'.shown
    BY <1>2 DEF Bootstrap, Hidden, Inv, Typed, UiOK, PanelOK
  <2>8. Covered'
    BY <2>2, <2>5, <2>7 DEF Covered, Boots
  <2> QED
    BY <2>6, <2>8 DEF Orderly
<1> QED
  BY <1>1, <1>2

LEMMA ProfileInOrder ==
    ASSUME Inv, Orderly, NEW i \in Slots, tasks[i] # None, NEW comes \in BOOLEAN,
           ProfileArrives(i, comes)
    PROVE  Orderly'
<1>1. tasks[i].by = session.user /\ tasks[i].by \in Accounts
  BY OtherTasks DEF ProfileArrives, Orderly, TaskIs, Inv, Typed, TaskOK
<1>2. session.user # None /\ session.user = chosen /\ session.name \in {None, chosen}
  BY <1>1, ShellAssumption DEF Orderly, SessionIs
<1>3. session'.user = session.user /\ session'.name \in {None, chosen} /\ chosen' = chosen
  <2>1. CASE comes
    <3>1. session' = [session EXCEPT !.name = tasks[i].by] /\ chosen' = chosen
      BY <2>1 DEF ProfileArrives, Holds
    <3> QED
      BY <1>1, <1>2, <3>1 DEF Inv, Typed, SessionOK
  <2>2. CASE ~comes
    BY <1>2, <2>2 DEF ProfileArrives
  <2> QED
    BY <2>1, <2>2
<1>4. SessionIs(session', chosen')
  BY <1>2, <1>3 DEF SessionIs
<1>5. \A j \in Slots : TaskIs(tasks[j], session')
  BY <1>3 DEF Orderly, TaskIs
<1> QED
  BY <1>1, <1>3, <1>4, <1>5, BootstrapInOrder DEF ProfileArrives

LEMMA RetryInOrder ==
    ASSUME Inv, Orderly, NEW i \in Slots, Retry(i)
    PROVE  Orderly'
<1>1. session' = session /\ chosen' = chosen /\ Bootstrap(i, session')
  BY DEF Retry
<1> QED
  BY <1>1, Fields, BootstrapInOrder DEF Orderly

LEMMA LoggedOutInOrder ==
    ASSUME Inv, Orderly, NEW i \in Slots, tasks[i] # None, LoggedOut(i), ~crossed'
    PROVE  Orderly'
<1>1. /\ session' = NoSession /\ chosen' = None /\ tasks' = [tasks EXCEPT ![i] = None]
      /\ session' # session => \A j \in Slots \ {i} : tasks[j] = None
  BY DEF LoggedOut, Holds, Cleared, Ends
<1> QED
  BY <1>1, SessionEnds

\* The page opens with at most one task, of the session that is kept.
LEMMA OpeningInOrder ==
    ASSUME NEW s, SessionOK(s), NEW first \in {"refresh", "config"}, NEW i \in Slots,
           NEW ts, ts = [j \in Slots |-> IF j = i THEN Started(s, first).task ELSE None]
    PROVE  /\ \A j \in Slots : TaskIs(ts[j], s)
           /\ s.user # None => /\ ~Started(s, first).panel.shown
                               /\ Started(s, first).ui.scene = "loading"
                               /\ ts[i] # None /\ ts[i].at \in Boot
<1>1. CASE s.user = None
  <2>1. Started(s, first).task = None
    BY <1>1 DEF Started
  <2>2. \A j \in Slots : ts[j] = None
    BY <2>1
  <2> QED
    BY <1>1, <2>2 DEF TaskIs
<1>2. CASE s.user # None
  <2> DEFINE t == [at |-> first, by |-> s.user]
  <2>1. Started(s, first) = [ui |-> Opened, panel |-> NewPanel, task |-> t]
    BY <1>2 DEF Started
  <2>2. t # None /\ t.at \in Boot
    BY <1>2, BootTask DEF SessionOK, Boot
  <2>3. TaskIs(t, s)
    <3>1. first \notin SignIn
      BY OtherTasks DEF Boot
    <3> QED
      BY <3>1, OwnTask
  <2> HIDE DEF t
  <2>4. ts[i] = t /\ \A j \in Slots \ {i} : ts[j] = None
    BY <2>1
  <2>5. ~Started(s, first).panel.shown /\ Started(s, first).ui.scene = "loading"
    <3>1. Started(s, first).panel = NewPanel /\ Started(s, first).ui = Opened
      BY <2>1
    <3>2. ~NewPanel.shown /\ Opened.scene = "loading"
      BY DEF Opened, NewPanel
    <3> QED
      BY <3>1, <3>2
  <2>6. \A j \in Slots : TaskIs(ts[j], s)
    BY <2>3, <2>4 DEF TaskIs
  <2> QED
    BY <2>2, <2>4, <2>5, <2>6
<1> QED
  BY <1>1, <1>2

LEMMA ReloadInOrder ==
    ASSUME Inv, Orderly, NEW i \in Slots, NEW first \in {"refresh", "config"}, Reload(i, first)
    PROVE  Orderly'
<1>1. /\ ui' = Started(session, first).ui /\ panel' = Started(session, first).panel
      /\ tasks' = [j \in Slots |-> IF j = i THEN Started(session, first).task ELSE None]
      /\ UNCHANGED <<session, chosen>>
  BY DEF Reload
<1>2. /\ \A j \in Slots : TaskIs(tasks'[j], session)
      /\ session.user # None => /\ ~panel'.shown /\ ui'.scene = "loading"
                                /\ tasks'[i] # None /\ tasks'[i].at \in Boot
  BY <1>1, OpeningInOrder DEF Inv, Typed
<1>3. Covered'
  BY <1>1, <1>2 DEF Covered, Boots
<1> QED
  BY <1>1, <1>2, <1>3 DEF Orderly

\* What is done on the screens neither shows the panel nor the loading screen.
LEMMA ScreensInOrder ==
    ASSUME Inv, Orderly,
           \/ ShowMuseum \/ ShowSettings \/ CloseModal
           \/ \E button \in {"hint", "knowledge", "privacy", "locked"}, modal \in Modals :
                OpenModal(button, modal)
           \/ FoundLast \/ Completes \/ EndIntro \/ TimeUp
           \/ \E mode \in Modes : SetMode(mode)
           \/ ShowLogin \/ ShowRegistration
           \/ \E ready \in BOOLEAN : Probed(ready)
    PROVE  Orderly'
<1>1. UiOK(ui) /\ PanelOK(panel)
  BY DEF Inv, Typed
<1>2. CASE \/ \E mode \in Modes : SetMode(mode)
           \/ ShowLogin \/ ShowRegistration
           \/ \E ready \in BOOLEAN : Probed(ready)
  <2>1. UNCHANGED <<ui, session, tasks, chosen>>
    BY <1>2 DEF SetMode, ShowLogin, ShowRegistration, Probed, Turns
  <2>2. panel'.shown = panel.shown
    <3>1. CASE (\E mode \in Modes : SetMode(mode)) \/ ShowLogin
      BY <1>1, <3>1, Panels DEF SetMode, ShowLogin, Turns
    <3>2. CASE ShowRegistration
      <4>1. panel' = [panel EXCEPT !.forms = {"code"}]
        BY <3>2 DEF ShowRegistration, Turns
      <4> QED
        BY <1>1, <4>1 DEF PanelOK
    <3>3. CASE \E ready \in BOOLEAN : Probed(ready)
      BY <1>1, <3>3 DEF Probed, PanelOK
    <3> QED
      BY <1>2, <3>1, <3>2, <3>3
  <2> QED
    BY <2>1, <2>2, SameTasks DEF Waiting
<1>3. CASE \/ ShowMuseum \/ ShowSettings \/ CloseModal
           \/ \E button \in {"hint", "knowledge", "privacy", "locked"}, modal \in Modals :
                OpenModal(button, modal)
           \/ FoundLast \/ Completes \/ EndIntro \/ TimeUp
  <2>1. UNCHANGED <<panel, session, tasks, chosen>>
    BY <1>3 DEF ShowMuseum, ShowSettings, CloseModal, OpenModal, FoundLast, Completes, EndIntro,
                TimeUp, PhaseTurns, Shows
  <2>2. ui'.scene \in {"museum", "settings"} \/ (ui'.scene = ui.scene /\ ui'.failed = ui.failed)
    <3>1. CASE ShowMuseum \/ ShowSettings
      BY <1>1, <3>1 DEF ShowMuseum, ShowSettings, Shows, UiOK
    <3>2. CASE CloseModal \/ \E button \in {"hint", "knowledge", "privacy", "locked"}, modal \in Modals :
                               OpenModal(button, modal)
      <4>1. PICK modal : ui' = [ui EXCEPT !.modal = modal]
        BY <3>2 DEF CloseModal, OpenModal, Shows
      <4> QED
        BY <1>1, <4>1 DEF UiOK
    <3>3. CASE FoundLast \/ Completes \/ EndIntro \/ TimeUp
      <4>1. PICK to : ui' = [ui EXCEPT !.level.phase = to]
        BY <3>3 DEF FoundLast, Completes, EndIntro, TimeUp, PhaseTurns, Shows
      <4> QED
        BY <1>1, <4>1 DEF UiOK
    <3> QED
      BY <1>3, <3>1, <3>2, <3>3
  <2> QED
    BY <2>1, <2>2, SameTasks DEF Waiting
<1> QED
  BY <1>2, <1>3

\* ... nor do the buttons that ask for something.
LEMMA ScreenTasksInOrder ==
    ASSUME Inv, Orderly, NEW i \in Slots, tasks[i] = None,
           \/ ShowHome(i) \/ ShowLevelSelect(i) \/ ToggleLanguage(i)
           \/ \E story \in BOOLEAN : OpenLevel(i, story) \/ OpenDaily(i, story) \/ PlayOn(i, story)
    PROVE  Orderly'
<1>1. UiOK(ui)
  BY DEF Inv, Typed
<1> DEFINE Away(u) == \/ u.scene \in {"home", "levels", "game"}
                      \/ u.scene = ui.scene /\ u.failed = ui.failed
<1>2. PICK u : Away(u) /\ (Shows(u) \/ \E at \in Asked : ShowsAwaiting(i, u, at))
  <2>1. CASE ShowHome(i)
    BY <1>1, <2>1, Screens DEF ShowHome, Asked
  <2>2. CASE ShowLevelSelect(i)
    <3>1. LevelSelect.scene = "levels"
      BY <1>1 DEF LevelSelect, UiOK
    <3> QED
      BY <2>2, <3>1 DEF ShowLevelSelect, Asked
  <2>3. CASE ToggleLanguage(i)
    <3> DEFINE u == [ui EXCEPT !.catalog = FALSE]
    <3>1. u.scene = ui.scene /\ u.failed = ui.failed
      BY <1>1 DEF UiOK
    <3>2. ShowsAwaiting(i, u, "request")
      BY <2>3 DEF ToggleLanguage
    <3> QED
      BY <3>1, <3>2 DEF Asked
  <2>4. CASE \E story \in BOOLEAN : OpenLevel(i, story) \/ OpenDaily(i, story) \/ PlayOn(i, story)
    <3>1. PICK story \in BOOLEAN : LoadGame(i, story)
      BY <2>4 DEF OpenLevel, OpenDaily, PlayOn
    <3> DEFINE u == [ui EXCEPT !.scene = "game", !.modal = "", !.level = NewLevel(story)]
    <3>2. u.scene = "game"
      BY <1>1 DEF UiOK
    <3>3. ShowsAwaiting(i, u, "level")
      BY <3>1 DEF LoadGame
    <3> QED
      BY <3>2, <3>3 DEF Asked
  <2> QED
    BY <2>1, <2>2, <2>3, <2>4
<1>3. ui' = u /\ UNCHANGED <<panel, session, chosen>>
  BY <1>2 DEF Shows, ShowsAwaiting
<1>4. CASE Shows(u)
  BY <1>2, <1>3, <1>4, SameTasks DEF Shows, Waiting
<1>5. CASE \E at \in Asked : ShowsAwaiting(i, u, at)
  <2>1. PICK at \in Asked : Goes(i, at, session.user)
    BY <1>5 DEF ShowsAwaiting
  <2>2. TaskIs([at |-> at, by |-> session.user], session)
    BY OtherTasks, OwnTask
  <2> QED
    BY <1>2, <1>3, <2>1, <2>2, SameSession DEF Goes, Waiting
<1> QED
  BY <1>2, <1>4, <1>5

LEMMA OrderlyInit ==
    Init => Uncrossed
<1> SUFFICES ASSUME Init
             PROVE  Orderly
  BY DEF Uncrossed
<1>1. SessionOK(session) /\ chosen = session.user
  BY DEF Init, SessionOK, NoSession
<1>2. PICK i \in Slots, first \in {"refresh", "config"} :
        /\ ui = Started(session, first).ui /\ panel = Started(session, first).panel
        /\ tasks = [j \in Slots |-> IF j = i THEN Started(session, first).task ELSE None]
  BY DEF Init
<1>3. /\ \A j \in Slots : TaskIs(tasks[j], session)
      /\ session.user # None => /\ ~panel.shown /\ ui.scene = "loading"
                                /\ tasks[i] # None /\ tasks[i].at \in Boot
  BY <1>1, <1>2, OpeningInOrder
<1>4. SessionIs(session, chosen)
  BY <1>1 DEF Init, NoSession, SessionIs
<1>5. Covered
  BY <1>3 DEF Covered, Boots
<1> QED
  BY <1>3, <1>4, <1>5 DEF Orderly

\* What has crossed is not uncrossed again.
LEMMA CrossedStays ==
    ASSUME crossed, [Next]_vars
    PROVE  crossed'
<1> USE DEF Contends, Holds
<1>1. ASSUME NEW i \in Slots, Begin(i)
      PROVE  crossed'
  BY <1>1 DEF Begin, Ask, Login, SendCode, VerifyCode, CompleteRegistration, Submits, Logout, OneTap,
              Retry, ShowHome, ShowLevelSelect, ToggleLanguage, OpenLevel, OpenDaily, PlayOn,
              LoadGame, ShowsAwaiting, Shows
<1>2. ASSUME NEW i \in Slots, Resume(i)
      PROVE  crossed'
  <2>1. ASSUME NEW answer \in Answers(i), Carried(i, answer)
        PROVE  crossed'
    BY <2>1 DEF Carried
  <2>2. CASE \E answer \in Answers(i) :
               \/ Refreshed(i, answer) \/ Configured(i, answer) \/ Flushed(i, answer)
               \/ LevelArrives(i, answer) \/ AskAnswered(i, answer)
               \/ \E kept \in BOOLEAN : CatalogArrives(i, answer, kept)
    BY <2>1, <2>2 DEF Refreshed, Configured, Flushed, LevelArrives, AskAnswered, CatalogArrives
  <2>3. CASE ~ \E answer \in Answers(i) :
                 \/ Refreshed(i, answer) \/ Configured(i, answer) \/ Flushed(i, answer)
                 \/ LevelArrives(i, answer) \/ AskAnswered(i, answer)
                 \/ \E kept \in BOOLEAN : CatalogArrives(i, answer, kept)
    BY <1>2, <2>3 DEF Resume, CodeSent, Denied, AccountSignsIn, CodeSignsIn, Registers, TapSignsIn,
              ExchangeUserToken, NicknameSaved, TicketMissing, TicketGiven, ProfileArrives,
              AuthInfoFetched, LoginAvailable, LoginTokenGiven, TapFails, LoggedOut
  <2> QED
    BY <2>2, <2>3
<1>3. ASSUME NEW i \in Slots, NEW first \in {"refresh", "config"}, Reload(i, first)
      PROVE  crossed'
  BY <1>3 DEF Reload
<1>4. CASE \/ \E mode \in Modes : SetMode(mode)
           \/ ShowLogin \/ ShowRegistration
           \/ \E ready \in BOOLEAN : Probed(ready)
           \/ ShowMuseum \/ ShowSettings \/ CloseModal
           \/ \E button \in {"hint", "knowledge", "privacy", "locked"}, modal \in Modals :
                OpenModal(button, modal)
           \/ FoundLast \/ Completes \/ EndIntro \/ TimeUp
  BY <1>4 DEF SetMode, ShowLogin, ShowRegistration, Turns, Probed, ShowMuseum, ShowSettings,
              CloseModal, OpenModal, FoundLast, Completes, EndIntro, TimeUp, PhaseTurns, Shows
<1>5. CASE UNCHANGED vars
  BY <1>5 DEF vars
<1> QED
  BY <1>1, <1>2, <1>3, <1>4, <1>5 DEF Next

LEMMA OrderlyBegins ==
    ASSUME Inv, Orderly, NEW i \in Slots, tasks[i] = None, Begin(i), ~crossed'
    PROVE  Orderly'
<1>1. CASE \/ Login(i) \/ SendCode(i) \/ VerifyCode(i) \/ CompleteRegistration(i) \/ Ask(i)
           \/ \E form \in Forms : OneTap(i, form)
           \/ Logout(i)
  BY <1>1, SubmissionsInOrder
<1>2. CASE Retry(i)
  BY <1>2, RetryInOrder
<1>3. CASE \/ ShowHome(i) \/ ShowLevelSelect(i) \/ ToggleLanguage(i)
           \/ \E story \in BOOLEAN : OpenLevel(i, story) \/ OpenDaily(i, story) \/ PlayOn(i, story)
  BY <1>3, ScreenTasksInOrder
<1> QED
  BY <1>1, <1>2, <1>3 DEF Begin

LEMMA OrderlyResumes ==
    ASSUME Inv, Orderly, NEW i \in Slots, tasks[i] # None, Resume(i), ~crossed'
    PROVE  Orderly'
<1>1. ASSUME NEW answer \in Answers(i),
             \/ Refreshed(i, answer) \/ Configured(i, answer) \/ Flushed(i, answer)
             \/ LevelArrives(i, answer) \/ AskAnswered(i, answer)
             \/ \E kept \in BOOLEAN : CatalogArrives(i, answer, kept)
      PROVE  Orderly'
  BY <1>1, BootingInOrder, ArrivalsInOrder
<1>2. CASE \/ CodeSent(i) \/ Denied(i) \/ NicknameSaved(i) \/ TicketMissing(i)
           \/ \E mode \in Modes : TicketGiven(i, mode)
           \/ AuthInfoFetched(i) \/ LoginAvailable(i) \/ LoginTokenGiven(i) \/ TapFails(i)
  BY <1>2, PanelTasksInOrder
<1>3. CASE \E account \in Accounts, named \in BOOLEAN :
             \/ AccountSignsIn(i, account, named) \/ CodeSignsIn(i, account, named)
             \/ Registers(i, account, named) \/ TapSignsIn(i, account, named)
  BY <1>3, SignInsInOrder
<1>4. CASE \E comes \in BOOLEAN : ProfileArrives(i, comes)
  BY <1>4, ProfileInOrder
<1>5. CASE LoggedOut(i)
  BY <1>5, LoggedOutInOrder
<1> QED
  BY <1>1, <1>2, <1>3, <1>4, <1>5 DEF Resume

LEMMA OrderlyStep ==
    Inv /\ Uncrossed /\ [Next]_vars => Uncrossed'
<1> SUFFICES ASSUME Inv, Uncrossed, [Next]_vars, ~crossed'
             PROVE  Orderly'
  BY DEF Uncrossed
<1>1. Orderly
  BY CrossedStays DEF Uncrossed
<1>2. CASE \E i \in Slots : (tasks[i] = None /\ Begin(i)) \/ (tasks[i] # None /\ Resume(i))
  BY <1>1, <1>2, OrderlyBegins, OrderlyResumes
<1>3. CASE \E i \in Slots, first \in {"refresh", "config"} : Reload(i, first)
  BY <1>1, <1>3, ReloadInOrder
<1>4. CASE \/ ShowMuseum \/ ShowSettings \/ CloseModal
           \/ \E button \in {"hint", "knowledge", "privacy", "locked"}, modal \in Modals :
                OpenModal(button, modal)
           \/ FoundLast \/ Completes \/ EndIntro \/ TimeUp
           \/ \E mode \in Modes : SetMode(mode)
           \/ ShowLogin \/ ShowRegistration
           \/ \E ready \in BOOLEAN : Probed(ready)
  BY <1>1, <1>4, ScreensInOrder
<1>5. CASE UNCHANGED vars
  BY <1>1, <1>5, SameTasks DEF vars, Waiting
<1> QED
  BY <1>2, <1>3, <1>4, <1>5 DEF Next

\* Once nothing is awaited, who is signed in has the game and not the panel, and the
\* account that he signed in to under its own name, unless sign-ins overlapped or the
\* session was changed while something else was in flight (login.js, app.js, api.js).
THEOREM PlaysAsChosen ==
    Spec => []SignedInPlays
<1>1. Inv /\ Uncrossed => SignedInPlays
  <2> SUFFICES ASSUME Inv, Uncrossed, Idle, session.user # None, ~crossed
               PROVE  /\ ~panel.shown
                      /\ ui.scene # "login" /\ (ui.scene = "loading" => ui.failed)
                      /\ session.user = chosen
                      /\ session.name \in {None, chosen}
    BY DEF SignedInPlays
  <2>1. ~Named /\ ~Boots
    BY DEF Idle, Named, Boots
  <2> QED
    BY <2>1 DEF Uncrossed, Orderly, Covered, SessionIs, Waiting
<1>2. Spec => [](Inv /\ Uncrossed)
  BY InvAlways, OrderlyInit, OrderlyStep, PTL DEF Spec
<1> QED
  BY <1>1, <1>2, PTL
=============================================================================
