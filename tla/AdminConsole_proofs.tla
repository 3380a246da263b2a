------------------------- MODULE AdminConsole_proofs -------------------------
(***************************************************************************)
(* Proofs about AdminConsole, for any number of consoles, contents and     *)
(* requests in flight.  Every opening of an editor has a number of its     *)
(* own, and its version number never falls behind what it has sent or      *)
(* stored: so no save of it takes a number twice (VersionsStand).  While   *)
(* no edit has escaped the flag, every save in flight carries the copy or  *)
(* belongs to an earlier opening (CleanIsKept).                            *)
(***************************************************************************)
EXTENDS AdminConsole, FiniteSetTheorems, WellFoundedInduction, TLAPS

RowRec == [status : Statuses, content : Contents, by : 1..MaxOpening]
ConsoleRec ==
    [view : {"signin", "list", "editor"}, copy : Contents \cup {None},
     version : 0..MaxVersion, opening : 0..MaxOpening, dirty : BOOLEAN,
     listed : {"none", "published", "disabled", "other"}, waits : Requests,
     kept : Contents \cup {None}, slipped : BOOLEAN]
PostRec ==
    [console : Consoles \cup {None}, opening : 1..MaxOpening, version : Versions,
     status : {"draft", "published"}, content : Contents,
     at : {"sent", "stored", "answered"}]

-----------------------------------------------------------------------------
(* The inductive invariant                                                 *)

\* An editor is open, and its copy is a level, once something was opened.
OpenOK(r) ==
    /\ r.opening = 0 =>
         r.view # "editor" /\ r.waits \notin {"size", "upload", "listing"}
    /\ r.opening # 0 => r.copy \in Contents /\ r.kept \in Contents

Known ==
    /\ \A c, d \in Consoles :
         con[c].opening = con[d].opening => c = d \/ con[c].opening = 0
    /\ \A c \in Consoles : con[c].opening <= openings /\ OpenOK(con[c])
    /\ \A p \in posts :
         /\ p.opening <= openings
         /\ p.at # "sent" => p.console # None
         /\ p.console # None => con[p.console].opening # 0
    /\ \A v \in Versions : rows[v] # None => rows[v].by <= openings

\* The number of an editor is not behind what its opening sent and stored.
Ahead(r) ==
    /\ \A p \in posts : p.opening = r.opening => p.version <= r.version
    /\ \A v \in Versions : rows[v] # None /\ rows[v].by = r.opening => v <= r.version

SentOnce == \A p, q \in posts : p.opening = q.opening /\ p.version = q.version => p = q
SentIsNew ==
    \A p \in posts :
        p.at = "sent" /\ rows[p.version] # None => rows[p.version].by # p.opening

Numbered ==
    /\ \A c \in Consoles : Ahead(con[c])
    /\ SentOnce
    /\ SentIsNew

\* What the saves in flight carry, and what a clean editor shows
Held(r, own) ==
    ~r.slipped =>
        /\ \A p \in own :
             /\ p.opening = r.opening => p.content = r.copy
             /\ p.opening # r.opening => r.kept = r.copy
             /\ p.at = "answered" => r.kept = r.copy
        /\ r.view = "editor" /\ ~r.dirty /\ own = {} => r.kept = r.copy

Copied == \A c \in Consoles : Held(con[c], Own(c))

Inv == ConsoleTypeOK /\ Known /\ Numbered /\ Copied

-----------------------------------------------------------------------------

LEMMA Types ==
    ConsoleTypeOK <=>
        /\ rows \in [Versions -> RowRec \cup {None}]
        /\ bound \in BOOLEAN
        /\ born \in BOOLEAN
        /\ con \in [Consoles -> ConsoleRec]
        /\ posts \subseteq PostRec
        /\ openings \in 0..MaxOpening
BY DEF ConsoleTypeOK, RowRec, ConsoleRec, PostRec

\* The newest version is one of those that are stored.
LEMMA NewestStored ==
    ASSUME Stored # {}
    PROVE  Newest \in Stored
<1> DEFINE Above == {v .. MaxVersion : v \in Stored}
           R == StrictSubsetOrdering(Nat)
<1>0. Stored \subseteq 1..MaxVersion /\ MaxVersion \in Nat
  BY ConsoleAssumption DEF Stored, Versions
<1>1. IsWellFoundedOn(R, FiniteSubsetsOf(Nat))
  BY FS_StrictSubsetOrderingWellFounded
<1>2. Above \subseteq FiniteSubsetsOf(Nat)
  <2> SUFFICES ASSUME NEW v \in Stored PROVE v .. MaxVersion \in FiniteSubsetsOf(Nat)
    OBVIOUS
  <2>1. v \in Int /\ MaxVersion \in Int /\ v .. MaxVersion \subseteq Nat
    BY <1>0
  <2>2. IsFiniteSet(v .. MaxVersion)
    BY <2>1, FS_Interval
  <2> QED BY <2>1, <2>2 DEF FiniteSubsetsOf
<1>3. PICK b \in Above : \A a \in Above : ~(<<a, b>> \in R)
  <2>1. Above # {}
    OBVIOUS
  <2> HIDE DEF Above, R
  <2> QED BY <1>1, <1>2, <2>1, WFMin
<1>4. PICK v \in Stored : b = v .. MaxVersion
  OBVIOUS
<1>5. ASSUME NEW w \in Stored, v < w PROVE FALSE
  <2>1. w .. MaxVersion \subseteq v .. MaxVersion /\ v \in v .. MaxVersion
        /\ v \notin w .. MaxVersion /\ v .. MaxVersion \subseteq Nat
    BY <1>0, <1>5
  <2>2. <<w .. MaxVersion, b>> \in R
    BY <1>4, <2>1 DEF StrictSubsetOrdering
  <2> QED BY <2>2, <1>3
<1>6. \A w \in Stored : w <= v
  BY <1>0, <1>5
<1> QED BY <1>6 DEF Newest

LEMMA ListedType ==
    Listed \in {"none", "published", "disabled", "other"}
BY DEF Listed

-----------------------------------------------------------------------------
(* What a console does besides opening and saving                          *)

\* The versions may lose rows or change in status.
Lesser(old, new) ==
    /\ new \in [Versions -> RowRec \cup {None}]
    /\ \A v \in Versions : new[v] # None => old[v] # None /\ new[v].by = old[v].by

\* A console turns to r, with the same opening and the same number.
LEMMA ConsoleStep ==
    ASSUME Inv, NEW c \in Consoles, NEW r \in ConsoleRec, con' = [con EXCEPT ![c] = r],
           r.opening = con[c].opening, r.version = con[c].version,
           OpenOK(r), Held(r, Own(c)),
           Lesser(rows, rows'), bound' \in BOOLEAN, UNCHANGED <<born, posts, openings>>
    PROVE  Inv'
<1>1. con \in [Consoles -> ConsoleRec] /\ posts \subseteq PostRec
  BY Types DEF Inv
<1>2. con'[c] = r /\ \A d \in Consoles \ {c} : con'[d] = con[d]
  BY <1>1
<1>3. con' \in [Consoles -> ConsoleRec]
  BY <1>1
<1>4. \A d \in Consoles : con'[d].opening = con[d].opening /\ con'[d].version = con[d].version
  BY <1>2
<1>5. ConsoleTypeOK'
  BY <1>3, Types DEF Inv, Lesser, ConsoleTypeOK, RowRec, ConsoleRec
<1>6. Known'
  <2>1. \A p \in posts : p.console # None => p.console \in Consoles
    BY <1>1 DEF PostRec
  <2> QED
    BY <1>2, <1>4, <2>1 DEF Inv, Known, Lesser
<1>7. Numbered'
  BY <1>1, <1>4 DEF Inv, Numbered, Ahead, SentOnce, SentIsNew, Lesser, PostRec
<1>8. Copied'
  <2>1. \A d \in Consoles : Own(d)' = Own(d)
    BY DEF Own
  <2> QED
    BY <1>2, <2>1 DEF Inv, Copied
<1> QED
  BY <1>5, <1>6, <1>7, <1>8 DEF Inv

\* ... when nothing but the console changes.
LEMMA ConsoleAlone ==
    ASSUME Inv, NEW c \in Consoles, NEW r \in ConsoleRec, con' = [con EXCEPT ![c] = r],
           r.opening = con[c].opening, r.version = con[c].version,
           OpenOK(r), Held(r, Own(c)),
           UNCHANGED <<rows, bound, born, posts, openings>>
    PROVE  Inv'
<1>1. Lesser(rows, rows') /\ bound' \in BOOLEAN
  BY Types DEF Inv, Lesser
<1> QED
  BY <1>1, ConsoleStep

LEMMA ConsoleIs ==
    ASSUME Inv, NEW c \in Consoles
    PROVE  con[c] \in ConsoleRec /\ OpenOK(con[c]) /\ Held(con[c], Own(c))
BY Types DEF Inv, Known, Copied

\* The table, and the requests that are sent: what is shown changes, and what is waited for.
LEMMA Looks ==
    ASSUME Inv, NEW c \in Consoles,
           \/ SignIn(c) \/ RefreshData(c) \/ Navigate(c) \/ ReturnFromEditor(c)
           \/ OpenEditor(c) \/ PickAsset(c) \/ UploadLevelImage(c)
           \/ SetLevelStatus(c) \/ DeleteLevel(c)
    PROVE  Inv'
<1> DEFINE q == con[c]
<1>1. q \in ConsoleRec /\ OpenOK(q) /\ Held(q, Own(c))
  BY ConsoleIs
<1>2. CASE SignIn(c) \/ RefreshData(c)
  <2> DEFINE r == TableShown(Loaded(q))
  <2>1. r \in ConsoleRec /\ r = [q EXCEPT !.listed = Listed, !.view = "list"]
    BY <1>1, ListedType DEF TableShown, Loaded, ConsoleRec
  <2>2. r.opening = q.opening /\ r.version = q.version /\ OpenOK(r) /\ Held(r, Own(c))
    BY <1>1, <2>1 DEF ConsoleRec, OpenOK, Held
  <2>3. con' = [con EXCEPT ![c] = r] /\ UNCHANGED <<rows, bound, born, posts, openings>>
    BY <1>2 DEF SignIn, RefreshData, Update
  <2> HIDE DEF r
  <2> QED
    BY <2>1, <2>2, <2>3, ConsoleAlone
<1>3. CASE Navigate(c) \/ ReturnFromEditor(c)
  <2> DEFINE r1 == [q EXCEPT !.view = "list"]
             r2 == [q EXCEPT !.view = "list", !.dirty = FALSE]
  <2>1. /\ r1 \in ConsoleRec /\ r1.opening = q.opening /\ r1.version = q.version
        /\ r2 \in ConsoleRec /\ r2.opening = q.opening /\ r2.version = q.version
    BY <1>1 DEF ConsoleRec
  <2>2. OpenOK(r1) /\ Held(r1, Own(c)) /\ OpenOK(r2) /\ Held(r2, Own(c))
    BY <1>1 DEF ConsoleRec, OpenOK, Held
  <2>3. /\ con' = [con EXCEPT ![c] = r1] \/ con' = [con EXCEPT ![c] = r2]
        /\ UNCHANGED <<rows, bound, born, posts, openings>>
    BY <1>1, <1>3 DEF Navigate, ReturnFromEditor, Update, TableShown, ConsoleRec
  <2> HIDE DEF r1, r2
  <2> QED
    BY <2>1, <2>2, <2>3, ConsoleAlone
<1>4. CASE OpenEditor(c) \/ PickAsset(c) \/ UploadLevelImage(c) \/ SetLevelStatus(c) \/ DeleteLevel(c)
  <2>1. PICK request \in Requests :
          /\ Asks(c, request)
          /\ request \in {"size", "upload", "listing"} => q.view = "editor"
    BY <1>4 DEF OpenEditor, PickAsset, UploadLevelImage, SetLevelStatus, DeleteLevel, Requests,
       Buttons, TableButtons
  <2> DEFINE r == [q EXCEPT !.waits = request]
  <2>2. r \in ConsoleRec /\ r.opening = q.opening /\ r.version = q.version
    BY <1>1 DEF ConsoleRec
  <2>3. OpenOK(r) /\ Held(r, Own(c))
    BY <1>1, <2>1 DEF ConsoleRec, OpenOK, Held
  <2>4. con' = [con EXCEPT ![c] = r] /\ UNCHANGED <<rows, bound, born, posts, openings>>
    BY <1>4, <2>1 DEF Asks, Update, OpenEditor, PickAsset, UploadLevelImage, SetLevelStatus,
       DeleteLevel
  <2> HIDE DEF r
  <2> QED
    BY <2>2, <2>3, <2>4, ConsoleAlone
<1> QED
  BY <1>2, <1>3, <1>4

\* Edits, uploads and what comes of them
LEMMA Edits ==
    ASSUME Inv, NEW c \in Consoles,
           Edit(c) \/ AssetPicked(c) \/ UploadArrives(c) \/ UploadEnds(c)
    PROVE  Inv'
<1> DEFINE q == con[c]
           idle == [q EXCEPT !.waits = "nothing"]
<1>1. q \in ConsoleRec /\ OpenOK(q) /\ Held(q, Own(c))
  BY ConsoleIs
<1>2. /\ idle \in ConsoleRec /\ idle.opening = q.opening /\ idle.version = q.version
      /\ OpenOK(idle) /\ Held(idle, Own(c)) /\ idle.copy = q.copy
  BY <1>1 DEF ConsoleRec, OpenOK, Held, Requests
<1>3. UNCHANGED <<rows, bound, born, posts, openings>>
  BY DEF Edit, AssetPicked, UploadArrives, UploadEnds
<1>4. CASE con' = [con EXCEPT ![c] = idle]
  <2> HIDE DEF idle
  <2> QED
    BY <1>2, <1>3, <1>4, ConsoleAlone
<1>5. CASE \E content \in Contents : con' = [con EXCEPT ![c] = Marked(c, q, content)] /\ q.view = "editor"
  <2>1. PICK content \in Contents : con' = [con EXCEPT ![c] = Marked(c, q, content)] /\ q.view = "editor"
    BY <1>5
  <2> DEFINE r == Marked(c, q, content)
  <2>2. r = [q EXCEPT !.copy = content, !.dirty = TRUE, !.slipped = q.slipped \/ Own(c) # {}]
    BY DEF Marked
  <2>5. con' = [con EXCEPT ![c] = r]
    BY <2>1
  <2> HIDE DEF r
  <2>3. r \in ConsoleRec /\ r.opening = q.opening /\ r.version = q.version
    BY <1>1, <2>2 DEF ConsoleRec
  <2>4. OpenOK(r) /\ Held(r, Own(c))
    BY <1>1, <2>2 DEF ConsoleRec, OpenOK, Held
  <2> QED
    BY <2>3, <2>4, <2>5, <1>3, ConsoleAlone
<1>6. CASE \E content \in Contents :
             /\ con' = [con EXCEPT ![c] = [Marked(c, idle, content) EXCEPT !.view = "editor"]]
             /\ q.waits = "size"
  <2>1. PICK content \in Contents :
             /\ con' = [con EXCEPT ![c] = [Marked(c, idle, content) EXCEPT !.view = "editor"]]
             /\ q.waits = "size"
    BY <1>6
  <2> DEFINE r == [Marked(c, idle, content) EXCEPT !.view = "editor"]
  <2>2. r = [q EXCEPT !.waits = "nothing", !.copy = content, !.dirty = TRUE,
                      !.slipped = q.slipped \/ Own(c) # {}, !.view = "editor"]
    BY <1>1 DEF Marked, ConsoleRec
  <2>5. con' = [con EXCEPT ![c] = r]
    BY <2>1
  <2> HIDE DEF r
  <2>3. r \in ConsoleRec /\ r.opening = q.opening /\ r.version = q.version
    BY <1>1, <2>2 DEF ConsoleRec, Requests
  <2>4. OpenOK(r) /\ Held(r, Own(c))
    BY <1>1, <2>1, <2>2 DEF ConsoleRec, OpenOK, Held
  <2> QED
    BY <2>3, <2>4, <2>5, <1>3, ConsoleAlone
<1>7. CASE UploadArrives(c)
  <2>1. PICK content \in Contents :
          con' = [con EXCEPT ![c] = [q EXCEPT !.copy = content, !.waits = "listing",
                                             !.slipped = TRUE]]
    BY <1>7 DEF UploadArrives, Update
  <2> DEFINE r == [q EXCEPT !.copy = content, !.waits = "listing", !.slipped = TRUE]
  <2>2. r \in ConsoleRec /\ r.opening = q.opening /\ r.version = q.version
    BY <1>1 DEF ConsoleRec, Requests
  <2>3. OpenOK(r) /\ Held(r, Own(c))
    BY <1>1, <1>7 DEF ConsoleRec, OpenOK, Held, UploadArrives
  <2>4. con' = [con EXCEPT ![c] = r]
    BY <2>1
  <2> HIDE DEF r
  <2> QED
    BY <1>3, <2>2, <2>3, <2>4, ConsoleAlone
<1>8. CASE /\ con' = [con EXCEPT ![c] = [Loaded(q) EXCEPT !.waits = "nothing", !.dirty = TRUE,
                                                          !.view = "editor"]]
           /\ q.waits = "listing"
  <2> DEFINE r == [Loaded(q) EXCEPT !.waits = "nothing", !.dirty = TRUE, !.view = "editor"]
  <2>1. r = [q EXCEPT !.listed = Listed, !.waits = "nothing", !.dirty = TRUE, !.view = "editor"]
    BY <1>1 DEF Loaded, ConsoleRec
  <2>4. con' = [con EXCEPT ![c] = r]
    BY <1>8
  <2> HIDE DEF r
  <2>2. r \in ConsoleRec /\ r.opening = q.opening /\ r.version = q.version
    BY <1>1, <2>1, ListedType DEF ConsoleRec, Requests
  <2>3. OpenOK(r) /\ Held(r, Own(c))
    BY <1>1, <1>8, <2>1 DEF ConsoleRec, OpenOK, Held
  <2> QED
    BY <1>3, <2>2, <2>3, <2>4, ConsoleAlone
<1> QED
  BY <1>4, <1>5, <1>6, <1>7, <1>8
     DEF Edit, AssetPicked, UploadEnds, Update, Buttons, TableButtons

\* The versions are taken down, taken up or deleted.
LEMMA Lists ==
    ASSUME Inv, NEW c \in Consoles,
           StatusSet(c) \/ RemoveLevelFromSeries(c) \/ DeleteCounts(c) \/ DeleteRuns(c)
    PROVE  Inv'
<1> DEFINE q == con[c]
<1>1. q \in ConsoleRec /\ OpenOK(q) /\ Held(q, Own(c))
  BY ConsoleIs
<1>2. UNCHANGED <<born, posts, openings>> /\ bound' \in BOOLEAN
  BY Types DEF StatusSet, RemoveLevelFromSeries, DeleteCounts, DeleteRuns, Inv
<1>3. Lesser(rows, rows')
  <2>1. rows \in [Versions -> RowRec \cup {None}]
    BY Types DEF Inv
  <2>2. CASE rows' = rows
    BY <2>1, <2>2 DEF Lesser
  <2>3. CASE rows' = [v \in Versions |-> None]
    BY <2>3 DEF Lesser
  <2>4. CASE StatusSet(c) /\ Stored # {}
    <3>1. Newest \in Versions /\ rows[Newest] # None
      BY <2>4, NewestStored DEF Stored
    <3>2. con[c].waits \in Statuses
      BY <2>4 DEF StatusSet, Statuses
    <3>3. [rows[Newest] EXCEPT !.status = con[c].waits] \in RowRec
          /\ [rows[Newest] EXCEPT !.status = con[c].waits].by = rows[Newest].by
      BY <2>1, <3>1, <3>2 DEF RowRec
    <3>4. rows' = [rows EXCEPT ![Newest] = [rows[Newest] EXCEPT !.status = con[c].waits]]
      BY <2>4 DEF StatusSet
    <3> QED
      BY <2>1, <3>1, <3>3, <3>4 DEF Lesser
  <2> QED
    BY <2>2, <2>3, <2>4 DEF StatusSet, RemoveLevelFromSeries, DeleteCounts, DeleteRuns
<1> DEFINE r(w, listed) == [q EXCEPT !.waits = w, !.listed = listed]
<1>4. ASSUME NEW w \in {"nothing", "counted", q.waits}, NEW listed \in {"none", q.listed}
      PROVE  /\ r(w, listed) \in ConsoleRec
             /\ r(w, listed).opening = q.opening /\ r(w, listed).version = q.version
             /\ OpenOK(r(w, listed)) /\ Held(r(w, listed), Own(c))
  <2>1. r(w, listed) \in ConsoleRec
    BY <1>1 DEF ConsoleRec, Requests
  <2>2. /\ r(w, listed).opening = q.opening /\ r(w, listed).version = q.version
        /\ r(w, listed).view = q.view /\ r(w, listed).copy = q.copy /\ r(w, listed).kept = q.kept
        /\ r(w, listed).dirty = q.dirty /\ r(w, listed).slipped = q.slipped
        /\ r(w, listed).waits = w
    BY <1>1 DEF ConsoleRec
  <2> HIDE DEF r
  <2>3. OpenOK(r(w, listed)) /\ Held(r(w, listed), Own(c))
    BY <1>1, <2>2 DEF OpenOK, Held
  <2> QED
    BY <2>1, <2>2, <2>3
<1>5. \E w \in {"nothing", "counted", q.waits}, listed \in {"none", q.listed} :
        con' = [con EXCEPT ![c] = r(w, listed)]
  <2>1. CASE StatusSet(c)
    <3>1. con' = [con EXCEPT ![c] = r("nothing", q.listed)]
      BY <1>1, <2>1 DEF StatusSet, Update, ConsoleRec
    <3> QED
      BY <3>1
  <2>2. CASE RemoveLevelFromSeries(c)
    <3>1. con' = [con EXCEPT ![c] = r(q.waits, "none")]
      BY <1>1, <2>2 DEF RemoveLevelFromSeries, Update, ConsoleRec
    <3> QED
      BY <3>1
  <2>3. CASE DeleteCounts(c)
    <3>1. \/ con' = [con EXCEPT ![c] = r("nothing", q.listed)]
          \/ con' = [con EXCEPT ![c] = r("counted", q.listed)]
      BY <1>1, <2>3 DEF DeleteCounts, Update, ConsoleRec
    <3> QED
      BY <3>1
  <2>4. CASE DeleteRuns(c)
    <3>1. con' = [con EXCEPT ![c] = r("nothing", "none")]
      BY <1>1, <2>4 DEF DeleteRuns, Update, ConsoleRec
    <3> QED
      BY <3>1
  <2> QED
    BY <2>1, <2>2, <2>3, <2>4
<1> HIDE DEF r
<1> QED
  BY <1>2, <1>3, <1>4, <1>5, ConsoleStep

-----------------------------------------------------------------------------
(* Opening and leaving                                                     *)

\* The page goes, and what it had sent may still arrive.
LEMMA UnloadStep ==
    ASSUME Inv, NEW c \in Consoles, Unload(c)
    PROVE  Inv'
<1> DEFINE left(p) == IF p.console = c THEN [p EXCEPT !.console = None] ELSE p
<1>1. con \in [Consoles -> ConsoleRec] /\ posts \subseteq PostRec /\ None \notin Consoles
  BY Types, ConsoleAssumption DEF Inv
<1>2. /\ con'[c] = Fresh /\ \A d \in Consoles \ {c} : con'[d] = con[d]
      /\ UNCHANGED <<rows, bound, born, openings>>
  BY <1>1 DEF Unload, Update
<1>3. Fresh \in ConsoleRec /\ OpenOK(Fresh) /\ Fresh.opening = 0 /\ Held(Fresh, {})
  BY ConsoleAssumption DEF Fresh, ConsoleRec, OpenOK, Held, Requests
<1>4. ASSUME NEW p \in posts'
      PROVE  \E q \in posts : p = left(q) /\ (q.console = c => q.at = "sent")
  <2>1. CASE p \in posts /\ p.console # c
    BY <2>1
  <2>2. CASE \E q \in posts : q.console = c /\ q.at = "sent" /\ p = [q EXCEPT !.console = None]
    BY <2>2
  <2> QED
    BY <2>1, <2>2 DEF Unload, Own
<1>5. \A q \in posts :
        /\ left(q) \in PostRec /\ left(q).opening = q.opening /\ left(q).version = q.version
        /\ left(q).at = q.at /\ left(q).content = q.content
        /\ left(q).console = IF q.console = c THEN None ELSE q.console
  BY <1>1 DEF PostRec
<1> HIDE DEF left
<1>6. ConsoleTypeOK'
  <2>1. posts' \subseteq PostRec
    BY <1>4, <1>5
  <2>2. con' \in [Consoles -> ConsoleRec]
    BY <1>1, <1>3 DEF Unload, Update
  <2> QED
    BY <1>2, <2>1, <2>2 DEF Inv, ConsoleTypeOK, PostRec, ConsoleRec
<1>7. Known'
  <2>1. \A d \in Consoles : con'[d].opening <= openings /\ OpenOK(con'[d])
    BY <1>2, <1>3, Types DEF Inv, Known
  <2>2. \A d, e \in Consoles :
          con'[d].opening = con'[e].opening => d = e \/ con'[d].opening = 0
    BY <1>2, <1>3 DEF Inv, Known
  <2>3. ASSUME NEW p \in posts'
        PROVE  /\ p.opening <= openings
               /\ p.at # "sent" => p.console # None
               /\ p.console # None => con'[p.console].opening # 0
    <3>1. PICK q \in posts : p = left(q) /\ (q.console = c => q.at = "sent")
      BY <1>4
    <3>2. q.console \in Consoles \cup {None}
      BY <1>1 DEF PostRec
    <3> QED
      BY <1>1, <1>2, <1>5, <3>1, <3>2 DEF Inv, Known
  <2> QED
    BY <1>2, <2>1, <2>2, <2>3 DEF Inv, Known
<1>8. Numbered'
  <2>1. Ahead(Fresh)'
    <3>1. \A v \in Versions : rows[v] # None => rows[v].by # 0
      BY Types DEF Inv, RowRec
    <3>2. \A p \in posts' : p.opening # 0
      BY <1>4, <1>5 DEF PostRec
    <3> QED
      BY <1>2, <1>3, <3>1, <3>2 DEF Ahead
  <2>2. ASSUME NEW d \in Consoles \ {c} PROVE Ahead(con[d])'
    <3>1. Ahead(con[d])
      BY DEF Inv, Numbered
    <3> QED
      BY <1>2, <1>4, <1>5, <3>1 DEF Ahead
  <2>3. SentOnce'
    BY <1>4, <1>5 DEF Inv, Numbered, SentOnce
  <2>4. SentIsNew'
    BY <1>2, <1>4, <1>5 DEF Inv, Numbered, SentIsNew
  <2> QED
    BY <1>2, <2>1, <2>2, <2>3, <2>4 DEF Numbered
<1>9. Copied'
  <2>1. Own(c)' = {}
    BY <1>1, <1>4, <1>5 DEF Own
  <2>2. \A d \in Consoles \ {c} : Own(d)' = Own(d)
    <3> SUFFICES ASSUME NEW d \in Consoles \ {c} PROVE Own(d)' = Own(d)
      OBVIOUS
    <3>1. Own(d)' \subseteq Own(d)
      <4> SUFFICES ASSUME NEW p \in posts', p.console = d PROVE p \in posts
        BY DEF Own
      <4>1. PICK q \in posts : p = left(q)
        BY <1>4
      <4>2. q.console # c
        BY <1>1, <1>5, <4>1
      <4> QED
        BY <4>1, <4>2 DEF left
    <3>2. Own(d) \subseteq Own(d)'
      BY DEF Unload, Own
    <3> QED
      BY <3>1, <3>2
  <2> QED
    BY <1>2, <1>3, <2>1, <2>2 DEF Inv, Copied
<1> QED
  BY <1>6, <1>7, <1>8, <1>9 DEF Inv

\* A level is opened: r belongs to a new opening.
LEMMA OpenStep ==
    ASSUME Inv, NEW c \in Consoles, NEW r \in ConsoleRec, con' = [con EXCEPT ![c] = r],
           openings < MaxOpening, openings' = openings + 1, r.opening = openings + 1,
           r.kept \in Contents, r.copy = r.kept,
           born' \in BOOLEAN, UNCHANGED <<rows, bound, posts>>
    PROVE  Inv'
<1>1. /\ con \in [Consoles -> ConsoleRec] /\ posts \subseteq PostRec
      /\ openings \in 0..MaxOpening /\ MaxOpening \in Nat
  BY Types, ConsoleAssumption DEF Inv
<1>2. con'[c] = r /\ \A d \in Consoles \ {c} : con'[d] = con[d]
  BY <1>1
<1>3. \A d \in Consoles : con[d].opening \in 0..MaxOpening
  BY <1>1 DEF ConsoleRec
<1>4. \A p \in posts : p.opening \in 1..MaxOpening /\ p.console \in Consoles \cup {None}
  BY <1>1 DEF PostRec
<1>5. ConsoleTypeOK'
  <2>1. con' \in [Consoles -> ConsoleRec] /\ openings' \in 0..MaxOpening
    BY <1>1
  <2> QED
    BY <2>1 DEF Inv, ConsoleTypeOK, ConsoleRec
<1>6. Known'
  <2>1. \A v \in Versions : rows[v] # None => rows[v].by \in 1..MaxOpening
    BY Types DEF Inv, RowRec
  <2>2. OpenOK(r)
    BY <1>1 DEF OpenOK
  <2>3. \A d \in Consoles : con'[d].opening <= openings' /\ OpenOK(con'[d])
    BY <1>1, <1>2, <1>3, <2>2 DEF Inv, Known
  <2>4. \A d, e \in Consoles :
          con'[d].opening = con'[e].opening => d = e \/ con'[d].opening = 0
    BY <1>1, <1>2, <1>3 DEF Inv, Known
  <2>5. \A p \in posts :
          /\ p.opening <= openings'
          /\ p.at # "sent" => p.console # None
          /\ p.console # None => con'[p.console].opening # 0
    BY <1>1, <1>2, <1>4 DEF Inv, Known
  <2>6. \A v \in Versions : rows[v] # None => rows[v].by <= openings'
    BY <1>1, <2>1 DEF Inv, Known
  <2> QED
    BY <2>3, <2>4, <2>5, <2>6 DEF Known
<1>7. Numbered'
  <2>1. Ahead(r)
    <3>1. \A v \in Versions : rows[v] # None => rows[v].by \in 1..MaxOpening /\ rows[v].by <= openings
      BY Types DEF Inv, RowRec, Known
    <3>2. \A p \in posts : p.opening <= openings
      BY DEF Inv, Known
    <3> QED
      BY <1>1, <1>4, <3>1, <3>2 DEF Ahead
  <2>2. ASSUME NEW d \in Consoles PROVE Ahead(con[d])'
    <3>1. Ahead(IF d = c THEN r ELSE con[d])
      BY <2>1 DEF Inv, Numbered
    <3> QED
      BY <1>2, <3>1 DEF Ahead
  <2>3. SentOnce' /\ SentIsNew'
    BY DEF Inv, Numbered, SentOnce, SentIsNew
  <2> QED
    BY <2>2, <2>3 DEF Numbered
<1>8. Copied'
  <2>1. \A d \in Consoles : Own(d)' = Own(d)
    BY DEF Own
  <2>2. \A p \in posts : p.opening # r.opening
    BY <1>1, <1>4 DEF Inv, Known
  <2>3. Held(r, Own(c))
    BY <2>2 DEF Held, Own
  <2> QED
    BY <1>2, <2>1, <2>3 DEF Inv, Copied
<1> QED
  BY <1>5, <1>6, <1>7, <1>8 DEF Inv

LEMMA Opens ==
    ASSUME Inv, NEW c \in Consoles, NewLevel(c) \/ OpenEditor(c) \/ EditorOpens(c)
    PROVE  Inv'
<1> DEFINE q == con[c]
<1>1. q \in ConsoleRec /\ OpenOK(q) /\ Held(q, Own(c))
  BY ConsoleIs
<1>2. openings \in 0..MaxOpening /\ MaxOpening \in Nat /\ MaxVersion \in Nat \ {0}
  BY Types, ConsoleAssumption DEF Inv
<1>3. CASE NewLevel(c)
  <2> DEFINE r == OpenedWith(q, Blank, 1)
  <2>1. r = [q EXCEPT !.view = "editor", !.copy = Blank, !.version = 1,
                      !.opening = openings + 1, !.kept = Blank, !.slipped = FALSE]
    BY DEF OpenedWith
  <2>2. /\ con' = [con EXCEPT ![c] = r] /\ born' = TRUE /\ UNCHANGED <<rows, bound, posts>>
        /\ openings < MaxOpening /\ openings' = openings + 1
    BY <1>3 DEF NewLevel, Update
  <2> HIDE DEF r
  <2>3. openings + 1 \in 0..MaxOpening /\ 1 \in 0..MaxVersion /\ Blank \in Contents
    BY <1>2, <2>2, ConsoleAssumption
  <2>4. /\ r \in ConsoleRec /\ r.opening = openings + 1
        /\ r.kept \in Contents /\ r.copy = r.kept
    BY <1>1, <2>1, <2>3 DEF ConsoleRec
  <2> QED
    BY <2>2, <2>4, OpenStep
<1>4. CASE OpenEditor(c)
  BY <1>4, Looks
<1>5. CASE EditorOpens(c) /\ UNCHANGED openings
  <2> DEFINE r == [q EXCEPT !.waits = "nothing"]
  <2>1. con' = [con EXCEPT ![c] = r] /\ UNCHANGED <<rows, bound, born, posts, openings>>
    BY <1>2, <1>5 DEF EditorOpens, Update
  <2>2. r \in ConsoleRec /\ r.opening = q.opening /\ r.version = q.version
    BY <1>1 DEF ConsoleRec, Requests
  <2>3. OpenOK(r) /\ Held(r, Own(c))
    BY <1>1 DEF ConsoleRec, OpenOK, Held
  <2> HIDE DEF r
  <2> QED
    BY <2>1, <2>2, <2>3, ConsoleAlone
<1>6. CASE EditorOpens(c) /\ openings' # openings
  <2> DEFINE content == rows[Newest].content
             r == [OpenedWith(q, content, Newest) EXCEPT !.waits = "nothing", !.dirty = FALSE]
  <2>1. /\ Stored # {} /\ openings < MaxOpening /\ openings' = openings + 1
        /\ con' = [con EXCEPT ![c] = r] /\ UNCHANGED <<rows, bound, born, posts>>
    BY <1>6 DEF EditorOpens, Update
  <2>2. Newest \in Versions /\ rows[Newest] # None
    BY <2>1, NewestStored DEF Stored
  <2>3. content \in Contents /\ born \in BOOLEAN /\ Newest \in 0..MaxVersion
    BY <2>2, Types DEF Inv, RowRec, Versions
  <2> HIDE DEF content
  <2>4. r = [q EXCEPT !.view = "editor", !.copy = content, !.version = Newest,
                      !.opening = openings + 1, !.kept = content, !.slipped = FALSE,
                      !.waits = "nothing", !.dirty = FALSE]
    BY <1>1 DEF OpenedWith, ConsoleRec
  <2> HIDE DEF r
  <2>5. openings + 1 \in 0..MaxOpening
    BY <1>2, <2>1
  <2>6. /\ r \in ConsoleRec /\ r.opening = openings + 1
        /\ r.kept \in Contents /\ r.copy = r.kept
    BY <1>1, <2>3, <2>4, <2>5 DEF ConsoleRec, Requests
  <2> QED
    BY <2>1, <2>3, <2>6, OpenStep
<1> QED
  BY <1>3, <1>4, <1>5, <1>6

-----------------------------------------------------------------------------
(* Saving                                                                  *)

LEMMA SaveRefused ==
    ASSUME Inv, NEW c \in Consoles, NEW status \in {"draft", "published"},
           SaveLevel(c, status), ~Publishable(con[c].copy, status)
    PROVE  Inv'
<1> DEFINE r == [con[c] EXCEPT !.dirty = TRUE]
<1>1. con[c] \in ConsoleRec /\ OpenOK(con[c]) /\ Held(con[c], Own(c))
  BY ConsoleIs
<1>2. con' = [con EXCEPT ![c] = r] /\ UNCHANGED <<rows, bound, born, posts, openings>>
  BY DEF SaveLevel, Update
<1>3. r \in ConsoleRec /\ r.opening = con[c].opening /\ r.version = con[c].version
  BY <1>1 DEF ConsoleRec
<1>4. OpenOK(r) /\ Held(r, Own(c))
  BY <1>1 DEF ConsoleRec, OpenOK, Held
<1> HIDE DEF r
<1> QED
  BY <1>2, <1>3, <1>4, ConsoleAlone

\* A save is sent under a number that its opening has not used.
LEMMA SaveSent ==
    ASSUME Inv, NEW c \in Consoles, NEW status \in {"draft", "published"},
           SaveLevel(c, status), Publishable(con[c].copy, status)
    PROVE  Inv'
<1> DEFINE q == con[c]
           w == q.version + 1
           slip == q.slipped /\ Own(c) # {}
           r == [q EXCEPT !.version = w, !.dirty = FALSE, !.slipped = slip]
           n == [console |-> c, opening |-> q.opening, version |-> w, status |-> status,
                 content |-> q.copy, at |-> "sent"]
<1>1. q \in ConsoleRec /\ OpenOK(q) /\ Held(q, Own(c)) /\ Ahead(q)
  BY ConsoleIs DEF Inv, Numbered
<1>2. con \in [Consoles -> ConsoleRec] /\ posts \subseteq PostRec
  BY Types DEF Inv
<1>3. /\ w \in Versions /\ con' = [con EXCEPT ![c] = r] /\ posts' = posts \cup {n}
      /\ UNCHANGED <<rows, bound, born, openings>>
  <2> DEFINE b == Bumped(q)
  <2>1. b = [q EXCEPT !.version = w]
    BY DEF Bumped
  <2>2. b.version = w /\ b.opening = q.opening /\ b.copy = q.copy
        /\ [b EXCEPT !.dirty = FALSE, !.slipped = b.slipped /\ Own(c) # {}] = r
    BY <1>1, <2>1 DEF ConsoleRec
  <2>3. /\ b.version \in Versions
        /\ con' = [con EXCEPT ![c] = [b EXCEPT !.dirty = FALSE, !.slipped = b.slipped /\ Own(c) # {}]]
        /\ posts' = posts \cup {[console |-> c, opening |-> b.opening, version |-> b.version,
                                 status |-> status, content |-> b.copy, at |-> "sent"]}
        /\ UNCHANGED <<rows, bound, born, openings>>
    BY DEF SaveLevel, Update
  <2> HIDE DEF b
  <2> QED
    BY <2>2, <2>3
<1>4. q.view = "editor" /\ q.opening # 0 /\ q.opening \in 1..MaxOpening /\ q.copy \in Contents
  <2>1. q.view = "editor"
    BY DEF SaveLevel, Buttons, TableButtons
  <2>2. q.opening # 0 /\ q.copy \in Contents
    BY <1>1, <2>1 DEF OpenOK
  <2>3. q.opening \in 0..MaxOpening /\ MaxOpening \in Nat
    BY <1>1, ConsoleAssumption DEF ConsoleRec
  <2> QED
    BY <2>1, <2>2, <2>3
<1>5. w \in 1..MaxVersion /\ q.version \in 0..MaxVersion /\ MaxVersion \in Nat /\ q.version < w
  BY <1>1, <1>3, ConsoleAssumption DEF ConsoleRec, Versions
<1>6. n \in PostRec /\ n.console = c /\ n.opening = q.opening /\ n.version = w /\ n.at = "sent"
      /\ n.content = q.copy
  BY <1>3, <1>4 DEF PostRec
<1>7. /\ r \in ConsoleRec /\ r.version = w /\ r.opening = q.opening
      /\ r.view = q.view /\ r.copy = q.copy /\ r.kept = q.kept /\ r.waits = q.waits
      /\ r.slipped = slip
  <2>1. slip \in BOOLEAN
    OBVIOUS
  <2> HIDE DEF slip, w
  <2>2. q \in ConsoleRec /\ w \in 0..MaxVersion
    BY <1>1, <1>5
  <2> HIDE DEF q
  <2>3. r \in ConsoleRec
    BY <2>1, <2>2 DEF ConsoleRec
  <2>4. r.version = w /\ r.opening = q.opening /\ r.view = q.view
        /\ r.copy = q.copy /\ r.kept = q.kept /\ r.waits = q.waits
    BY <2>2 DEF ConsoleRec
  <2>5. r.slipped = slip
    BY <2>2 DEF ConsoleRec
  <2> QED
    BY <2>3, <2>4, <2>5
<1> HIDE DEF r, n, w
<1>8. con'[c] = r /\ \A d \in Consoles \ {c} : con'[d] = con[d]
  BY <1>2, <1>3
<1>9. ConsoleTypeOK'
  <2>1. posts' \subseteq PostRec /\ con' \in [Consoles -> ConsoleRec]
    BY <1>2, <1>3, <1>6, <1>7
  <2> QED
    BY <1>3, <2>1 DEF Inv, ConsoleTypeOK, ConsoleRec, PostRec
<1>10. Known'
  <2>1. OpenOK(r)
    BY <1>1, <1>7 DEF OpenOK
  <2>2. \A d \in Consoles : con'[d].opening = con[d].opening
    BY <1>7, <1>8
  <2>3. \A d \in Consoles : con'[d].opening <= openings /\ OpenOK(con'[d])
    BY <1>8, <2>1, <2>2 DEF Inv, Known
  <2>4. \A p \in posts :
          p.console \in Consoles \cup {None}
    BY <1>2 DEF PostRec
  <2>5. \A p \in posts' :
          /\ p.opening <= openings
          /\ p.at # "sent" => p.console # None
          /\ p.console # None => con'[p.console].opening # 0
    BY <1>3, <1>4, <1>6, <2>2, <2>4 DEF Inv, Known
  <2> QED
    BY <1>3, <2>2, <2>3, <2>5 DEF Inv, Known
<1>11. Numbered'
  <2>1. Ahead(con[c])'
    <3>1. \A p \in posts : p.version \in 1..MaxVersion
      BY <1>2 DEF PostRec, Versions
    <3>2. \A v \in Versions : v \in 1..MaxVersion
      BY DEF Versions
    <3> QED
      BY <1>1, <1>3, <1>5, <1>6, <1>7, <1>8, <3>1, <3>2 DEF Ahead
  <2>2. ASSUME NEW d \in Consoles \ {c} PROVE Ahead(con[d])'
    <3>1. Ahead(con[d]) /\ con[d].opening # q.opening
      BY <1>4 DEF Inv, Numbered, Known
    <3> QED
      BY <1>3, <1>6, <1>8, <3>1 DEF Ahead
  <2>3. SentOnce'
    <3>1. \A p \in posts : ~(p.opening = n.opening /\ p.version = n.version)
      BY <1>1, <1>5, <1>6 DEF Ahead
    <3> QED
      BY <1>3, <3>1 DEF Inv, Numbered, SentOnce
  <2>4. SentIsNew'
    <3>1. rows[w] # None => rows[w].by # q.opening
      BY <1>1, <1>3, <1>5 DEF Ahead
    <3> QED
      BY <1>3, <1>6, <3>1 DEF Inv, Numbered, SentIsNew
  <2> QED
    BY <2>1, <2>2, <2>3, <2>4 DEF Numbered
<1>12. Copied'
  <2>1. Own(c)' = Own(c) \cup {n} /\ \A d \in Consoles \ {c} : Own(d)' = Own(d)
    BY <1>3, <1>6 DEF Own
  <2>2. Held(r, Own(c) \cup {n})
    BY <1>1, <1>6, <1>7 DEF Held
  <2> QED
    BY <1>8, <2>1, <2>2 DEF Inv, Copied
<1> QED
  BY <1>9, <1>10, <1>11, <1>12 DEF Inv

\* What becomes of the posts when one of them moves on or goes.
LEMMA PostTurns ==
    ASSUME Inv, NEW p \in posts, NEW at \in {"stored", "answered"},
           posts' = posts \ {p} \/ (Becomes(p, at) /\ p.console # None)
    PROVE  /\ posts' \subseteq PostRec
           /\ \A o \in posts' : \E q \in posts :
                /\ o.opening = q.opening /\ o.version = q.version
                /\ o.console = q.console /\ o.content = q.content
                /\ o = q \/ (q = p /\ o.at = at)
                /\ o.at = "sent" => o = q /\ q # p
           /\ \A o \in posts' : o.at # "sent" => o.console # None
           /\ SentOnce'
           /\ \A d \in Consoles \ {p.console} : Own(d)' = Own(d)
           /\ posts' = posts \ {p} \/ Own(p.console)' # {}
<1> DEFINE m == [p EXCEPT !.at = at]
<1>1. posts \subseteq PostRec
  BY Types DEF Inv
<1>2. /\ m \in PostRec /\ m.opening = p.opening /\ m.version = p.version
      /\ m.console = p.console /\ m.content = p.content /\ m.at = at
  BY <1>1 DEF PostRec
<1>3. posts' \subseteq (posts \ {p}) \cup {m} /\ posts \ {p} \subseteq posts'
      /\ (m \in posts' => p.console # None \/ m \in posts \ {p})
  BY DEF Becomes
<1> HIDE DEF m
<1>4. \A o \in posts' : \E q \in posts :
        /\ o.opening = q.opening /\ o.version = q.version
        /\ o.console = q.console /\ o.content = q.content
        /\ o = q \/ (q = p /\ o.at = at)
        /\ o.at = "sent" => o = q /\ q # p
  BY <1>2, <1>3
<1>5. \A o \in posts' : o.at # "sent" => o.console # None
  BY <1>2, <1>3 DEF Inv, Known
<1>6. SentOnce'
  BY <1>2, <1>3 DEF Inv, Numbered, SentOnce
<1>7. \A d \in Consoles \ {p.console} : Own(d)' = Own(d)
  <2> SUFFICES ASSUME NEW d \in Consoles \ {p.console} PROVE Own(d)' = Own(d)
    OBVIOUS
  <2>1. \A o \in posts' : o.console = d => o \in posts
    BY <1>2, <1>3
  <2>2. \A o \in posts : o.console = d => o \in posts'
    BY <1>3
  <2> QED
    BY <2>1, <2>2 DEF Own
<1>8. posts' = posts \ {p} \/ m \in posts'
  BY DEF Becomes, m
<1> QED
  BY <1>1, <1>2, <1>3, <1>4, <1>5, <1>6, <1>7, <1>8 DEF Own

\* A save is answered or fails: the console it belongs to, if any, turns to r.
LEMMA PostStep ==
    ASSUME Inv, NEW p \in posts, NEW at \in {"stored", "answered"},
           posts' = posts \ {p} \/ (Becomes(p, at) /\ p.console # None),
           UNCHANGED <<rows, bound, born, openings>>,
           \/ p.console = None /\ con' = con
           \/ /\ p.console \in Consoles
              /\ \E r \in ConsoleRec :
                   /\ con' = [con EXCEPT ![p.console] = r]
                   /\ r.opening = con[p.console].opening /\ r.version = con[p.console].version
                   /\ OpenOK(r) /\ Held(r, Own(p.console)')
    PROVE  Inv'
<1>1. con \in [Consoles -> ConsoleRec] /\ None \notin Consoles
  BY Types, ConsoleAssumption DEF Inv
<1>2. /\ posts' \subseteq PostRec
      /\ \A o \in posts' : \E q \in posts :
           /\ o.opening = q.opening /\ o.version = q.version
           /\ o.console = q.console /\ o.content = q.content
           /\ o.at = "sent" => o = q /\ q # p
      /\ \A o \in posts' : o.at # "sent" => o.console # None
      /\ SentOnce'
      /\ \A d \in Consoles \ {p.console} : Own(d)' = Own(d)
  BY PostTurns
<1>3. /\ con' \in [Consoles -> ConsoleRec]
      /\ \A d \in Consoles :
           /\ con'[d].opening = con[d].opening /\ con'[d].version = con[d].version
           /\ OpenOK(con'[d])
           /\ Held(con'[d], Own(d)')
  <2>1. \A d \in Consoles : con[d] \in ConsoleRec /\ OpenOK(con[d]) /\ Held(con[d], Own(d))
    BY ConsoleIs
  <2>2. CASE p.console = None /\ con' = con
    BY <1>1, <1>2, <2>1, <2>2
  <2>3. CASE p.console \in Consoles /\ con' # con
    BY <1>1, <1>2, <2>1, <2>3
  <2>4. CASE p.console \in Consoles /\ con' = con
    BY <1>1, <1>2, <2>1, <2>4
  <2> QED
    BY <1>1, <2>2, <2>3, <2>4
<1>4. ConsoleTypeOK'
  BY <1>2, <1>3 DEF Inv, ConsoleTypeOK, ConsoleRec, PostRec
<1>5. Known'
  <2>1. \A q \in posts : q.console \in Consoles \cup {None}
    BY Types DEF Inv, PostRec
  <2> QED
    BY <1>2, <1>3, <2>1 DEF Inv, Known
<1>6. Numbered'
  BY <1>2, <1>3 DEF Inv, Numbered, Ahead, SentIsNew
<1>7. Copied'
  BY <1>3 DEF Copied
<1> QED
  BY <1>4, <1>5, <1>6, <1>7 DEF Inv

LEMMA UpsertStep ==
    ASSUME Inv, NEW p \in posts, UpsertLevel(p)
    PROVE  Inv'
<1> DEFINE row == [status |-> p.status, content |-> p.content, by |-> p.opening]
<1>1. /\ p \in PostRec /\ posts \subseteq PostRec /\ con \in [Consoles -> ConsoleRec]
      /\ rows \in [Versions -> RowRec \cup {None}]
  BY Types DEF Inv
<1>2. row \in RowRec /\ row.by = p.opening /\ p.version \in Versions
  BY <1>1 DEF RowRec, PostRec, Statuses
<1>3. /\ p.at = "sent" /\ rows' = [rows EXCEPT ![p.version] = row] /\ bound' = TRUE
      /\ posts' = posts \ {p} \/ (Becomes(p, "stored") /\ p.console # None)
      /\ p.console = None => posts' = posts \ {p}
      /\ p.console # None => Becomes(p, "stored")
      /\ UNCHANGED <<born, con, openings>>
  BY DEF UpsertLevel
<1> HIDE DEF row
<1>4. /\ rows'[p.version] = row /\ \A v \in Versions \ {p.version} : rows'[v] = rows[v]
      /\ rows' \in [Versions -> RowRec \cup {None}]
  BY <1>1, <1>2, <1>3
<1>5. /\ posts' \subseteq PostRec
      /\ \A o \in posts' : \E q \in posts :
           /\ o.opening = q.opening /\ o.version = q.version
           /\ o.console = q.console /\ o.content = q.content
           /\ o = q \/ (q = p /\ o.at = "stored")
           /\ o.at = "sent" => o = q /\ q # p
      /\ \A o \in posts' : o.at # "sent" => o.console # None
      /\ SentOnce'
      /\ \A d \in Consoles \ {p.console} : Own(d)' = Own(d)
      /\ posts' = posts \ {p} \/ Own(p.console)' # {}
  BY <1>3, PostTurns
<1>6. ConsoleTypeOK'
  BY <1>3, <1>4, <1>5 DEF Inv, ConsoleTypeOK, RowRec, PostRec
<1>7. Known'
  <2>1. \A o \in posts' :
          /\ o.opening <= openings
          /\ o.at # "sent" => o.console # None
          /\ o.console # None => con[o.console].opening # 0
    BY <1>5 DEF Inv, Known
  <2>2. \A v \in Versions : rows'[v] # None => rows'[v].by <= openings
    BY <1>2, <1>4 DEF Inv, Known
  <2> QED
    BY <1>3, <2>1, <2>2 DEF Inv, Known
<1>8. Numbered'
  <2>1. ASSUME NEW c \in Consoles PROVE Ahead(con[c])'
    <3>1. Ahead(con[c])
      BY DEF Inv, Numbered
    <3> QED
      BY <1>2, <1>3, <1>4, <1>5, <3>1 DEF Ahead
  <2>2. SentIsNew'
    <3> SUFFICES ASSUME NEW o \in posts', o.at = "sent", rows'[o.version] # None
                 PROVE  rows'[o.version].by # o.opening
      BY DEF SentIsNew
    <3>1. o \in posts /\ o # p /\ o.version \in Versions
      BY <1>5 DEF PostRec
    <3>2. CASE o.version = p.version
      BY <1>2, <1>4, <3>1, <3>2 DEF Inv, Numbered, SentOnce
    <3>3. CASE o.version # p.version
      BY <1>4, <3>1, <3>3 DEF Inv, Numbered, SentIsNew
    <3> QED
      BY <3>2, <3>3
  <2> QED
    BY <1>5, <2>1, <2>2 DEF Numbered
<1>9. Copied'
  <2>1. ASSUME NEW d \in Consoles PROVE Held(con[d], Own(d)')
    <3>1. Held(con[d], Own(d))
      BY ConsoleIs
    <3>2. CASE d # p.console
      BY <1>5, <3>1, <3>2
    <3>3. CASE d = p.console
      <4>1. Own(d)' # {} /\ p \in Own(d)
        <5>1. p.console # None
          BY <3>3, ConsoleAssumption
        <5>2. p \in posts /\ p.at # "stored" /\ [p EXCEPT !.at = "stored"].at = "stored"
          BY <1>1, <1>3 DEF PostRec
        <5>3. [p EXCEPT !.at = "stored"] \in posts'
              /\ [p EXCEPT !.at = "stored"].console = d
          BY <1>1, <1>3, <3>3, <5>1 DEF Becomes, PostRec
        <5> QED
          BY <3>3, <5>3 DEF Own
      <4>2. \A o \in Own(d)' : \E q \in Own(d) :
              /\ o.opening = q.opening /\ o.content = q.content
              /\ o.at = "answered" => q.at = "answered"
        BY <1>3, <1>5 DEF Own
      <4> QED
        BY <3>1, <4>1, <4>2 DEF Held
    <3> QED
      BY <3>2, <3>3
  <2> QED
    BY <1>3, <2>1 DEF Copied
<1> QED
  BY <1>6, <1>7, <1>8, <1>9 DEF Inv

LEMMA Answers ==
    ASSUME Inv, NEW p \in posts, SaveFails(p) \/ SaveAnswered(p) \/ SaveEnds(p)
    PROVE  Inv'
<1> DEFINE c == p.console
           q == con[c]
<1>1. p \in PostRec /\ p.console \in Consoles \cup {None} /\ p.content \in Contents
  BY Types DEF Inv, PostRec
<1>2. UNCHANGED <<rows, bound, born, openings>>
  BY DEF SaveFails, SaveAnswered, SaveEnds
<1>3. p.console = None => SaveFails(p)
  BY DEF Inv, Known, SaveAnswered, SaveEnds
<1>4. CASE p.console = None
  <2>1. posts' = posts \ {p} /\ con' = con
    BY <1>3, <1>4 DEF SaveFails
  <2> QED
    BY <1>2, <1>4, <2>1, PostStep
<1>5. CASE p.console \in Consoles
  <2> USE <1>5
  <2>1. /\ q \in ConsoleRec /\ OpenOK(q) /\ Held(q, Own(c)) /\ p \in Own(c)
        /\ q.opening # 0 /\ p.console # None
    BY ConsoleIs, ConsoleAssumption DEF Own, Inv, Known
  <2>2. CASE posts' = posts \ {p} /\ con' = [con EXCEPT ![c] = SaveFailed(q)]
    <3> DEFINE r == [q EXCEPT !.dirty = TRUE]
    <3>1. r \in ConsoleRec /\ r.opening = q.opening /\ r.version = q.version /\ OpenOK(r)
      BY <2>1 DEF ConsoleRec, OpenOK
    <3>2. Held(r, Own(c)')
      <4>1. Own(c)' \subseteq Own(c)
        BY <2>2 DEF Own
      <4> QED
        BY <2>1, <4>1 DEF Held, ConsoleRec
    <3>3. con' = [con EXCEPT ![c] = r]
      BY <2>2 DEF SaveFailed
    <3> HIDE DEF r
    <3> QED
      BY <1>2, <2>2, <3>1, <3>2, <3>3, PostStep
  <2>3. CASE SaveAnswered(p)
    <3> DEFINE kept == IF q.opening = p.opening THEN p.content ELSE q.kept
               r == [q EXCEPT !.dirty = FALSE, !.kept = kept]
    <3>1. Becomes(p, "answered") /\ con' = [con EXCEPT ![c] = r]
      BY <2>3 DEF SaveAnswered, Update
    <3>2. kept \in Contents /\ (~q.slipped => kept = q.copy)
      BY <1>1, <2>1 DEF OpenOK, Held
    <3> HIDE DEF kept
    <3>3. r \in ConsoleRec /\ r.opening = q.opening /\ r.version = q.version /\ OpenOK(r)
          /\ r.copy = q.copy /\ r.kept = kept
      BY <2>1, <3>2 DEF ConsoleRec, OpenOK
    <3>4. r.slipped = q.slipped
      BY <2>1 DEF ConsoleRec
    <3> HIDE DEF r
    <3>5. \A o \in Own(c)' : \E w \in Own(c) : o.opening = w.opening /\ o.content = w.content
      <4>1. \A o \in posts' : \E w \in posts :
              o.opening = w.opening /\ o.content = w.content /\ o.console = w.console
        BY <2>1, <3>1, PostTurns
      <4> QED
        BY <4>1 DEF Own
    <3>6. Held(r, Own(c)')
      BY <2>1, <3>2, <3>3, <3>4, <3>5 DEF Held
    <3> QED
      BY <1>2, <2>1, <3>1, <3>3, <3>6, PostStep
  <2>4. CASE SaveEnds(p) /\ con' = [con EXCEPT ![c] = [Loaded(q) EXCEPT !.view = "editor"]]
    <3> DEFINE r == [q EXCEPT !.listed = Listed, !.view = "editor"]
    <3>1. posts' = posts \ {p} /\ p.at = "answered"
      BY <2>4 DEF SaveEnds
    <3>2. con' = [con EXCEPT ![c] = r]
      BY <2>1, <2>4 DEF Loaded, ConsoleRec
    <3>3. r \in ConsoleRec /\ r.opening = q.opening /\ r.version = q.version /\ OpenOK(r)
      BY <2>1, ListedType DEF ConsoleRec, OpenOK
    <3>4. Held(r, Own(c)')
      <4>1. Own(c)' \subseteq Own(c)
        BY <3>1 DEF Own
      <4> QED
        BY <2>1, <3>1, <4>1 DEF Held, ConsoleRec
    <3> HIDE DEF r
    <3> QED
      BY <1>2, <3>1, <3>2, <3>3, <3>4, PostStep
  <2> QED
    BY <2>1, <2>2, <2>3, <2>4 DEF SaveFails, SaveEnds, Update
<1> QED
  BY <1>1, <1>4, <1>5

-----------------------------------------------------------------------------
(* The invariant                                                           *)

LEMMA TransitionStep ==
    ASSUME Inv, NEW v \in Versions, NEW to \in Statuses, Transition(v, to)
    PROVE  Inv'
<1> DEFINE row == [rows[v] EXCEPT !.status = to]
<1>1. /\ rows' = [rows EXCEPT ![v] = row] /\ rows[v] # None
      /\ UNCHANGED <<bound, born, con, posts, openings>>
  BY DEF Transition
<1>2. rows \in [Versions -> RowRec \cup {None}]
  BY Types DEF Inv
<1>3. row \in RowRec /\ row.by = rows[v].by
  BY <1>1, <1>2 DEF RowRec
<1> HIDE DEF row
<1>4. /\ rows' \in [Versions -> RowRec \cup {None}]
      /\ \A w \in Versions : rows'[w] # None => rows[w] # None /\ rows'[w].by = rows[w].by
  BY <1>1, <1>2, <1>3
<1>5. ConsoleTypeOK'
  BY <1>1, <1>4 DEF Inv, ConsoleTypeOK, RowRec
<1>6. Known'
  BY <1>1, <1>4 DEF Inv, Known
<1>7. Numbered'
  <2>1. \A p \in posts : p.version \in Versions
    BY Types DEF Inv, PostRec
  <2> QED
    BY <1>1, <1>4, <2>1 DEF Inv, Numbered, Ahead, SentOnce, SentIsNew
<1>8. Copied'
  BY <1>1 DEF Inv, Copied, Own
<1> QED
  BY <1>5, <1>6, <1>7, <1>8 DEF Inv

LEMMA InvInit ==
    Init => Inv
<1> SUFFICES ASSUME Init
             PROVE  Inv
  OBVIOUS
<1>1. Fresh \in ConsoleRec /\ OpenOK(Fresh) /\ Fresh.opening = 0 /\ Held(Fresh, {})
  BY ConsoleAssumption DEF Fresh, ConsoleRec, OpenOK, Held, Requests
<1>2. /\ rows = [v \in Versions |-> None] /\ con = [c \in Consoles |-> Fresh] /\ posts = {}
      /\ bound = FALSE /\ born = FALSE /\ openings = 0
  BY DEF Init
<1> HIDE DEF Fresh
<1>3. ConsoleTypeOK
  <2>1. rows \in [Versions -> RowRec \cup {None}] /\ con \in [Consoles -> ConsoleRec]
    BY <1>1, <1>2
  <2>2. posts \subseteq PostRec /\ bound \in BOOLEAN /\ born \in BOOLEAN
    BY <1>2
  <2>3. openings \in 0..MaxOpening
    BY <1>2, ConsoleAssumption
  <2> QED
    BY <2>1, <2>2, <2>3, Types
<1>4. Known
  BY <1>1, <1>2 DEF Known
<1>5. Numbered
  BY <1>2 DEF Numbered, Ahead, SentOnce, SentIsNew
<1>6. Copied
  BY <1>1, <1>2 DEF Copied, Own
<1> QED
  BY <1>3, <1>4, <1>5, <1>6 DEF Inv

LEMMA InvStep ==
    Inv /\ [Next]_vars => Inv'
<1> SUFFICES ASSUME Inv, [Next]_vars
             PROVE  Inv'
  OBVIOUS
<1>1. ASSUME NEW c \in Consoles, Console(c)
      PROVE  Inv'
  <2>1. CASE \E status \in {"draft", "published"} : SaveLevel(c, status)
    BY <2>1, SaveRefused, SaveSent
  <2>2. CASE Unload(c)
    BY <2>2, UnloadStep
  <2>3. CASE NewLevel(c) \/ OpenEditor(c) \/ EditorOpens(c)
    BY <2>3, Opens
  <2>4. CASE Edit(c) \/ AssetPicked(c) \/ UploadArrives(c) \/ UploadEnds(c)
    BY <2>4, Edits
  <2>5. CASE StatusSet(c) \/ RemoveLevelFromSeries(c) \/ DeleteCounts(c) \/ DeleteRuns(c)
    BY <2>5, Lists
  <2>6. CASE \/ SignIn(c) \/ RefreshData(c) \/ Navigate(c) \/ ReturnFromEditor(c)
             \/ OpenEditor(c) \/ PickAsset(c) \/ UploadLevelImage(c)
             \/ SetLevelStatus(c) \/ DeleteLevel(c)
    BY <2>6, Looks
  <2> QED
    BY <1>1, <2>1, <2>2, <2>3, <2>4, <2>5, <2>6 DEF Console
<1>2. ASSUME NEW p \in posts, UpsertLevel(p) \/ SaveFails(p) \/ SaveAnswered(p) \/ SaveEnds(p)
      PROVE  Inv'
  BY <1>2, UpsertStep, Answers
<1>3. ASSUME NEW v \in Versions, NEW to \in Statuses, Transition(v, to)
      PROVE  Inv'
  BY <1>3, TransitionStep
<1>4. CASE UNCHANGED vars
  BY <1>4 DEF vars, Inv, ConsoleTypeOK, Known, Numbered, Ahead, SentOnce, SentIsNew, Copied, Own
<1> QED
  BY <1>1, <1>2, <1>3, <1>4 DEF Next

LEMMA InvAlways ==
    Spec => []Inv
BY InvInit, InvStep, PTL DEF Spec

\* The versions, the consoles and the saves in flight keep their types: in particular,
\* whatever is saved is a level, and the newest version is one that is stored.
THEOREM ConsoleTypeCorrect ==
    Spec => []ConsoleTypeOK
<1>1. Inv => ConsoleTypeOK
  BY DEF Inv
<1> QED
  BY <1>1, InvAlways, PTL

\* For any number of editors, who save, fail, save again and are answered in any order:
\* what one opening stored under a number, no later save of it writes over.
THEOREM VersionsAreStanding ==
    Spec => VersionsStand
<1> DEFINE Stands ==
      \A v \in Versions :
         rows[v] # None /\ rows'[v] # None /\ rows'[v].content # rows[v].content
           => rows'[v].by # rows[v].by
<1>1. Inv /\ [Next]_vars => [Stands]_vars
  <2> SUFFICES ASSUME Inv, Next,
                      NEW v \in Versions, rows[v] # None, rows'[v] # None,
                      rows'[v].content # rows[v].content
               PROVE  rows'[v].by # rows[v].by
    BY DEF vars
  <2>1. rows \in [Versions -> RowRec \cup {None}]
    BY Types DEF Inv
  <2>2. ASSUME NEW p \in posts, UpsertLevel(p)
        PROVE  rows'[v].by # rows[v].by
    <3> DEFINE row == [status |-> p.status, content |-> p.content, by |-> p.opening]
    <3>1. rows' = [rows EXCEPT ![p.version] = row] /\ p.at = "sent" /\ row.by = p.opening
      BY <2>2 DEF UpsertLevel
    <3> HIDE DEF row
    <3>2. v = p.version /\ rows'[v] = row
      BY <2>1, <3>1
    <3> QED
      BY <3>1, <3>2 DEF Inv, Numbered, SentIsNew
  <2>3. ASSUME NEW w \in Versions, NEW to \in Statuses,
               rows' = [rows EXCEPT ![w] = [rows[w] EXCEPT !.status = to]]
        PROVE  FALSE
    <3>1. v = w /\ rows'[v] = [rows[v] EXCEPT !.status = to]
      BY <2>1, <2>3
    <3>2. rows[v] \in RowRec
      BY <2>1
    <3> QED
      BY <3>1, <3>2 DEF RowRec
  <2>4. ASSUME NEW c \in Consoles, StatusSet(c)
        PROVE  FALSE
    <3>1. Stored # {} /\ rows' = [rows EXCEPT ![Newest] = [rows[Newest] EXCEPT !.status = con[c].waits]]
          /\ con[c].waits \in Statuses
      BY <2>4 DEF StatusSet, Statuses
    <3>2. Newest \in Versions
      BY <3>1, NewestStored DEF Stored
    <3> QED
      BY <2>3, <3>1, <3>2
  <2>5. ASSUME NEW w \in Versions, NEW to \in Statuses, Transition(w, to)
        PROVE  FALSE
    BY <2>3, <2>5 DEF Transition
  <2>6. ASSUME NEW c \in Consoles, DeleteRuns(c)
        PROVE  FALSE
    BY <2>6 DEF DeleteRuns
  <2>7. rows' # rows
    OBVIOUS
  <2>8. ASSUME NEW c \in Consoles, Console(c)
        PROVE  FALSE
    <3>1. StatusSet(c) \/ DeleteRuns(c)
      BY <2>7, <2>8 DEF Console, SignIn, Unload, RefreshData, Navigate, ReturnFromEditor, NewLevel,
         OpenEditor, EditorOpens, Edit, PickAsset, AssetPicked, UploadLevelImage, UploadArrives,
         UploadEnds, SaveLevel, SetLevelStatus, RemoveLevelFromSeries, DeleteLevel, DeleteCounts
    <3> QED
      BY <2>4, <2>6, <3>1
  <2>9. ASSUME NEW p \in posts, SaveFails(p) \/ SaveAnswered(p) \/ SaveEnds(p)
        PROVE  FALSE
    BY <2>7, <2>9 DEF SaveFails, SaveAnswered, SaveEnds
  <2> QED
    BY <2>2, <2>5, <2>8, <2>9 DEF Next
<1> QED
  BY <1>1, InvAlways, PTL DEF Spec, VersionsStand

\* Wherever saves fail, are answered or overlap: an editor that would be left without a
\* question shows what is acknowledged or what a save in flight carries, unless it was
\* edited during a save or an upload placed its image.
THEOREM CleanStaysKept ==
    Spec => []CleanIsKept
<1>1. Inv => CleanIsKept
  <2> SUFFICES ASSUME Inv, NEW c \in Consoles,
                      con[c].view = "editor", ~con[c].dirty, ~con[c].slipped,
                      con[c].copy # con[c].kept
               PROVE  \E p \in Own(c) :
                        p.opening = con[c].opening /\ p.content = con[c].copy
    BY DEF CleanIsKept
  <2>1. Held(con[c], Own(c))
    BY ConsoleIs
  <2> QED
    BY <2>1 DEF Held
<1> QED
  BY <1>1, InvAlways, PTL
=============================================================================
