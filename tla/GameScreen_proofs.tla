------------------------- MODULE GameScreen_proofs -------------------------
(***************************************************************************)
(* Theorems about GameScreen, for every set of levels, every difference    *)
(* and every bound: the screen keeps its types, and as long as nothing has *)
(* acted on a game it does not belong to, the game that is played is the   *)
(* one that is saved, its state is earned, it is reported once and nothing *)
(* found is lost.                                                          *)
(***************************************************************************)
EXTENDS GameScreen, FiniteSetTheorems, SequenceTheorems, TLAPS

-----------------------------------------------------------------------------
(* The records of the screen.                                              *)

LEMMA SavedFields ==
    ASSUME NEW s \in Saved, NEW d \in SUBSET Diffs
    PROVE  LET t == [s EXCEPT !.found = d]
           IN  /\ t \in Saved
               /\ t.id = s.id /\ t.state = s.state /\ t.ever = s.ever
               /\ t.found = d
  BY DEF Saved

LEMMA SavedStates ==
    ASSUME NEW s \in Saved, NEW state \in States, NEW e \in BOOLEAN
    PROVE  LET t == [s EXCEPT !.state = state, !.ever = e]
               r == [s EXCEPT !.state = state]
           IN  /\ t \in Saved /\ r \in Saved
               /\ t.id = s.id /\ t.state = state /\ t.found = s.found
               /\ r.id = s.id /\ r.state = state /\ r.found = s.found
  BY DEF Saved

LEMMA SomeThing ==
    /\ \A s \in Saved : s # None
    /\ \A g \in Game : g # None
    /\ \A l \in Levels : l # None
    /\ \A f \in Flush : f # None
  BY GameAssumption

LEMMA DiffsFacts ==
    ASSUME NEW l \in Levels
    PROVE  DiffsOf[l] \in SUBSET Diffs
  BY DEF Diffs

LEMMA NewGameFields ==
    /\ NewGame \in Game
    /\ NewGame.loading /\ NewGame.level = None /\ NewGame.attempt = None
    /\ NewGame.found = {} /\ ~NewGame.complete /\ ~NewGame.finishing
    /\ ~NewGame.timedOut
  BY DEF NewGame, Game

\* What saveAttempt leaves of a game: the attempt has what was found.
LEMMA KeptFields ==
    ASSUME NEW g \in Game, Savable(g)
    PROVE  /\ Kept(g) \in Game
           /\ g.attempt \in Saved /\ g.level \in Levels
           /\ Kept(g).attempt = [g.attempt EXCEPT !.found = g.found]
           /\ Kept(g).attempt \in Saved
           /\ Kept(g).attempt.id = g.attempt.id
           /\ Kept(g).attempt.state = g.attempt.state
           /\ Kept(g).attempt.found = g.found
           /\ Kept(g).loading = g.loading /\ Kept(g).level = g.level
           /\ Kept(g).found = g.found /\ Kept(g).complete = g.complete
           /\ Kept(g).finishing = g.finishing
           /\ Kept(g).timedOut = g.timedOut
<1> DEFINE t == [g.attempt EXCEPT !.found = g.found]
<1>1. g.attempt \in Saved /\ g.level \in Levels /\ g.found \in SUBSET Diffs
  BY DEF Savable, Game
<1>2. Kept(g) = [g EXCEPT !.attempt = t]
  BY DEF Kept
<1>3. /\ t \in Saved /\ t.id = g.attempt.id
      /\ t.state = g.attempt.state /\ t.found = g.found
  BY <1>1, SavedFields
<1> HIDE DEF t
<1>4. /\ [g EXCEPT !.attempt = t] \in Game
      /\ [g EXCEPT !.attempt = t].attempt = t
      /\ [g EXCEPT !.attempt = t].loading = g.loading
      /\ [g EXCEPT !.attempt = t].level = g.level
      /\ [g EXCEPT !.attempt = t].found = g.found
      /\ [g EXCEPT !.attempt = t].complete = g.complete
      /\ [g EXCEPT !.attempt = t].finishing = g.finishing
      /\ [g EXCEPT !.attempt = t].timedOut = g.timedOut
  BY <1>3 DEF Game
<1> QED BY <1>1, <1>2, <1>3, <1>4 DEF t

LEMMA KeptType ==
    ASSUME NEW g \in Game
    PROVE  /\ Kept(g) \in Game /\ Kept(g) # None
           /\ Kept(g).loading = g.loading
           /\ Kept(g).attempt = None <=> g.attempt = None
           /\ g.attempt # None => Kept(g).attempt.id = g.attempt.id
<1>1. CASE Savable(g)
  BY <1>1, KeptFields, SomeThing
<1>2. CASE ~Savable(g)
  BY <1>2, SomeThing DEF Kept
<1> QED BY <1>1, <1>2

\* The sequence without its i-th element.
LEMMA Removed ==
    ASSUME NEW S, NEW s \in Seq(S), NEW i \in DOMAIN s
    PROVE  /\ RemoveAt(s, i) \in Seq(S)
           /\ Len(RemoveAt(s, i)) = Len(s) - 1
           /\ \A j \in DOMAIN RemoveAt(s, i) :
                LET k == IF j < i THEN j ELSE j + 1
                IN  k \in DOMAIN s /\ k # i /\ RemoveAt(s, i)[j] = s[k]
<1>1. i \in 1 .. Len(s) /\ Len(s) \in Nat /\ DOMAIN s = 1 .. Len(s)
  BY LenProperties
<1> DEFINE p == SubSeq(s, 1, i - 1)
           q == SubSeq(s, i + 1, Len(s))
<1>2. /\ p \in Seq(S) /\ Len(p) = i - 1
      /\ \A j \in 1 .. (i - 1) : p[j] = s[j]
  BY <1>1, SubSeqProperties
<1>3. /\ q \in Seq(S) /\ Len(q) = Len(s) - i
      /\ \A j \in 1 .. Len(s) - i : q[j] = s[j + i]
  BY <1>1, SubSeqProperties
<1> HIDE DEF p, q
<1>4. /\ p \o q \in Seq(S) /\ Len(p \o q) = Len(s) - 1
      /\ \A j \in 1 .. Len(s) - 1 :
            (p \o q)[j] = IF j <= i - 1 THEN p[j] ELSE q[j - (i - 1)]
  <2>1. /\ p \o q \in Seq(S) /\ Len(p \o q) = Len(p) + Len(q)
        /\ \A j \in 1 .. Len(p) + Len(q) :
              (p \o q)[j] = IF j <= Len(p) THEN p[j] ELSE q[j - Len(p)]
    BY <1>2, <1>3, ConcatProperties
  <2>2. Len(p) + Len(q) = Len(s) - 1 /\ Len(p) = i - 1
    BY <1>1, <1>2, <1>3
  <2> QED BY <2>1, <2>2
<1>5. RemoveAt(s, i) = p \o q
  BY DEF RemoveAt, p, q
<1>6. DOMAIN (p \o q) = 1 .. Len(s) - 1
  BY <1>4, LenProperties
<1>7. \A j \in 1 .. Len(s) - 1 :
        LET k == IF j < i THEN j ELSE j + 1
        IN  k \in DOMAIN s /\ k # i /\ (p \o q)[j] = s[k]
  <2> SUFFICES ASSUME NEW j \in 1 .. Len(s) - 1
               PROVE  LET k == IF j < i THEN j ELSE j + 1
                      IN  k \in DOMAIN s /\ k # i /\ (p \o q)[j] = s[k]
    OBVIOUS
  <2>1. CASE j < i
    BY <2>1, <1>1, <1>2, <1>4
  <2>2. CASE ~(j < i)
    <3>1. (p \o q)[j] = q[j - (i - 1)] /\ j - (i - 1) \in 1 .. Len(s) - i
      BY <2>2, <1>1, <1>4
    <3>2. q[j - (i - 1)] = s[j + 1]
      BY <3>1, <1>1, <1>3
    <3> QED BY <3>1, <3>2, <2>2, <1>1
  <2> QED BY <2>1, <2>2
<1> QED BY <1>4, <1>5, <1>6, <1>7

LEMMA DisownedLoads ==
    ASSUME NEW s \in Seq(Load)
    PROVE  /\ Disowned(s) \in Seq(Load) /\ DOMAIN Disowned(s) = DOMAIN s
           /\ Len(Disowned(s)) = Len(s)
           /\ \A i \in DOMAIN s : /\ ~Disowned(s)[i].mine
                                  /\ Disowned(s)[i].at = s[i].at
                                  /\ Disowned(s)[i].attempt = s[i].attempt
<1>1. DOMAIN s = 1 .. Len(s) /\ Len(s) \in Nat
  BY LenProperties
<1>2. \A i \in 1 .. Len(s) : s[i] \in Load
  BY ElementOfSeq
<1>3. \A x \in Load : LET y == [x EXCEPT !.mine = FALSE]
                      IN  y \in Load /\ ~y.mine /\ y.at = x.at
                          /\ y.attempt = x.attempt
  BY DEF Load
<1>4. Disowned(s) = [i \in 1 .. Len(s) |-> [s[i] EXCEPT !.mine = FALSE]]
  BY <1>1 DEF Disowned
<1>5. Disowned(s) \in Seq(Load) /\ Len(Disowned(s)) = Len(s)
  BY <1>1, <1>2, <1>3, <1>4
<1>6. /\ DOMAIN Disowned(s) = 1 .. Len(s)
      /\ \A i \in 1 .. Len(s) : Disowned(s)[i] = [s[i] EXCEPT !.mine = FALSE]
  BY <1>4
<1>7. \A i \in 1 .. Len(s) : /\ ~Disowned(s)[i].mine
                               /\ Disowned(s)[i].at = s[i].at
                               /\ Disowned(s)[i].attempt = s[i].attempt
  <2> TAKE i \in 1 .. Len(s)
  <2>1. s[i] \in Load /\ Disowned(s)[i] = [s[i] EXCEPT !.mine = FALSE]
    BY <1>2, <1>6
  <2> QED BY <2>1, <1>3
<1> QED BY <1>1, <1>5, <1>6, <1>7

LEMMA DisownedTimers ==
    ASSUME NEW s \in Seq([mine : BOOLEAN])
    PROVE  /\ Disowned(s) \in Seq([mine : BOOLEAN])
           /\ DOMAIN Disowned(s) = DOMAIN s
           /\ \A i \in DOMAIN s : ~Disowned(s)[i].mine
<1>1. DOMAIN s = 1 .. Len(s) /\ Len(s) \in Nat
  BY LenProperties
<1>2. \A i \in 1 .. Len(s) : s[i] \in [mine : BOOLEAN]
  BY ElementOfSeq
<1>3. \A x \in [mine : BOOLEAN] : LET y == [x EXCEPT !.mine = FALSE]
                                  IN  y \in [mine : BOOLEAN] /\ ~y.mine
  OBVIOUS
<1>4. Disowned(s) = [i \in 1 .. Len(s) |-> [s[i] EXCEPT !.mine = FALSE]]
  BY <1>1 DEF Disowned
<1>5. Disowned(s) \in Seq([mine : BOOLEAN])
  BY <1>1, <1>2, <1>3, <1>4
<1> QED BY <1>1, <1>2, <1>3, <1>4, <1>5

LEMMA LastItem ==
    ASSUME NEW S, NEW s \in Seq(S), NEW e \in S
    PROVE  /\ Append(s, e) \in Seq(S) /\ Append(s, e) # <<>>
           /\ Len(Append(s, e)) = Len(s) + 1
           /\ DOMAIN Append(s, e) = DOMAIN s \cup {Len(s) + 1}
           /\ \A i \in DOMAIN s : Append(s, e)[i] = s[i]
           /\ Append(s, e)[Len(s) + 1] = e
           /\ Len(s) + 1 \notin DOMAIN s
  BY AppendProperties, LenProperties
-----------------------------------------------------------------------------
(* What the helpers leave.                                                 *)

Stores == [Levels -> Saved \cup {None}]

LEMMA StoredType ==
    ASSUME game \in Game, store \in Stores
    PROVE  StoredBy(game) \in Stores
<1>1. CASE Savable(game)
  BY <1>1, KeptFields DEF StoredBy, Stores
<1>2. CASE ~Savable(game)
  BY <1>2 DEF StoredBy
<1> QED BY <1>1, <1>2

LEMMA StateSet ==
    ASSUME store \in Stores, NEW l \in Levels, NEW id \in Ids,
           NEW state \in States
    PROVE  /\ SetState(l, state, id) \in Stores
           /\ \A k \in Levels :
                LET t == SetState(l, state, id)[k]
                IN  /\ t = None <=> store[k] = None
                    /\ store[k] # None => /\ t.id = store[k].id
                                          /\ t.found = store[k].found
                    /\ \/ t = store[k]
                       \/ k = l /\ t.id = id /\ t.state = state
<1> DEFINE new(s) == IF s = None \/ s.id # id THEN s ELSE Settled(s, state)
           after == [store EXCEPT ![l] = new(store[l])]
<1>1. SetState(l, state, id) = after
  BY DEF SetState, Stores
<1>2. ASSUME NEW s \in Saved \cup {None}
      PROVE  /\ new(s) \in Saved \cup {None}
             /\ new(s) = None <=> s = None
             /\ s # None => new(s).id = s.id /\ new(s).found = s.found
             /\ new(s) = s \/ (new(s).id = id /\ new(s).state = state)
  <2>1. CASE s = None \/ s.id # id
    BY <2>1
  <2>2. CASE s # None /\ s.id = id
    <3> DEFINE e == s.ever \/ state \in Done
    <3>1. e \in BOOLEAN /\ s \in Saved
      BY <2>2
    <3>2. Settled(s, state) = [s EXCEPT !.state = state, !.ever = e]
      BY DEF Settled
    <3> HIDE DEF e
    <3>3. /\ Settled(s, state) \in Saved /\ Settled(s, state).id = s.id
          /\ Settled(s, state).state = state
          /\ Settled(s, state).found = s.found
      BY <3>1, <3>2 DEF Saved
    <3> QED BY <2>2, <3>1, <3>3, SomeThing
  <2> QED BY <2>1, <2>2
<1>3. store[l] \in Saved \cup {None}
  BY DEF Stores
<1> HIDE DEF new
<1>4. /\ after \in Stores /\ after[l] = new(store[l])
      /\ \A k \in Levels : k # l => after[k] = store[k]
  BY <1>2, <1>3 DEF Stores
<1> HIDE DEF after
<1>5. ASSUME NEW k \in Levels
      PROVE  LET t == after[k]
             IN  /\ t = None <=> store[k] = None
                 /\ store[k] # None => /\ t.id = store[k].id
                                       /\ t.found = store[k].found
                 /\ \/ t = store[k]
                    \/ k = l /\ t.id = id /\ t.state = state
  <2>1. CASE k = l
    BY <2>1, <1>2, <1>3, <1>4
  <2>2. CASE k # l
    BY <2>2, <1>4
  <2> QED BY <2>1, <2>2
<1> QED BY <1>1, <1>4, <1>5

Results == {"synced", "rejected", "queued"}

StateOf(result) == IF result = "queued" THEN "sync_queued" ELSE result

LEMMA Finished ==
    ASSUME game \in Game, NEW saved \in Stores, NEW level \in Levels,
           NEW result \in Results, Finish(level, result, saved)
    PROVE  /\ game' \in Game
           /\ game'.loading = game.loading /\ game'.level = game.level
           /\ game'.found = game.found /\ game'.finishing = game.finishing
           /\ game'.timedOut = game.timedOut
           /\ store' \in Stores
           /\ game.attempt = None => game'.attempt = None /\ store' = saved
           /\ game.attempt # None =>
                /\ game'.attempt \in Saved
                /\ game'.attempt.id = game.attempt.id
                /\ game'.attempt.found = game.attempt.found
                /\ game'.attempt.state = StateOf(result)
                /\ store' = [saved EXCEPT ![level] = game'.attempt]
<1> DEFINE state == StateOf(result)
           a == IF game.attempt # None
                THEN [game.attempt EXCEPT !.state = state] ELSE None
           c == game.complete \/ result # "rejected"
<1>1. /\ game' = [game EXCEPT !.complete = c, !.attempt = a]
      /\ store' = IF game.attempt # None THEN [saved EXCEPT ![level] = a]
                  ELSE saved
  BY DEF Finish, StateOf, Game
<1>2. state \in States /\ c \in BOOLEAN /\ game.attempt \in Saved \cup {None}
  BY DEF StateOf, States, Results, Game
<1>3. /\ a \in Saved \cup {None}
      /\ game.attempt = None => a = None
      /\ game.attempt # None =>
            /\ a \in Saved /\ a.id = game.attempt.id
            /\ a.found = game.attempt.found /\ a.state = state
  BY <1>2, SavedStates
<1> HIDE DEF a, c
<1>4. /\ game' \in Game /\ game'.attempt = a
      /\ game'.loading = game.loading /\ game'.level = game.level
      /\ game'.found = game.found /\ game'.finishing = game.finishing
      /\ game'.timedOut = game.timedOut
  BY <1>1, <1>2, <1>3 DEF Game
<1>5. store' \in Stores
  BY <1>1, <1>3 DEF Stores
<1> QED BY <1>1, <1>3, <1>4, <1>5

LEMMA AttemptBegun ==
    ASSUME NEW load \in Load, store \in Stores, made \in 0 .. MaxAttempts,
           Attempt(load).id > made => made + 1 <= MaxAttempts
    PROVE  /\ Attempt(load) \in Saved
           /\ \/ store[load.want] # None /\ Attempt(load) = store[load.want]
              \/ /\ Attempt(load).id = made + 1
                 /\ Attempt(load).state = "in_progress"
                 /\ Attempt(load).found = {}
<1>1. load.want \in Levels /\ store[load.want] \in Saved \cup {None}
  BY DEF Load, Stores
<1>2. CASE ~load.fresh /\ Resumes(load.want)
  BY <1>1, <1>2 DEF Attempt, Resumes
<1>3. CASE ~(~load.fresh /\ Resumes(load.want))
  <2> DEFINE e == WasCompleted(store[load.want])
  <2>1. Attempt(load) = [id |-> made + 1, state |-> "in_progress",
                         ever |-> e, found |-> {}]
    BY <1>3 DEF Attempt, Fresh
  <2>2. e \in BOOLEAN
    BY <1>1 DEF WasCompleted, Saved
  <2> HIDE DEF e
  <2>3. made + 1 > made /\ made + 1 \in Nat /\ MaxAttempts \in Nat
    BY GameAssumption
  <2>4. made + 1 \in Ids
    BY <2>1, <2>3 DEF Ids
  <2> QED BY <2>1, <2>2, <2>4 DEF Saved, States
<1> QED BY <1>2, <1>3
-----------------------------------------------------------------------------
(* What always holds: the game, its loads and the queue belong together,   *)
(* and no attempt is younger than the last one made.                       *)

Opening(g) == g # None => (g.loading <=> g.attempt = None)

ImagesKnown(s) == \A i \in DOMAIN s : s[i].at = "image" => s[i].attempt # None

Together ==
    /\ Opening(game)
    /\ game = None => /\ scene = "other" /\ loads = <<>> /\ timers = <<>>
                      /\ flush # None => flush.level = None
    /\ flush # None => items # <<>>
    /\ ImagesKnown(loads)

YoungStore(s, n) == \A l \in Levels : s[l] # None => s[l].id <= n

YoungLoads(s, n) ==
    \A i \in DOMAIN s : s[i].attempt # None => s[i].attempt.id <= n

YoungGame(g, n) == (g # None /\ g.attempt # None) => g.attempt.id <= n

YoungPairs(s, n) == \A p \in s : p[1] <= n

Young ==
    /\ YoungStore(store, made)
    /\ YoungLoads(loads, made)
    /\ YoungGame(game, made)
    /\ YoungPairs(handed, made)

Held == GameTypeOK /\ Together /\ Young

LEMMA Types ==
    ASSUME Held
    PROVE  /\ scene \in {"game", "other"} /\ game \in Game \cup {None}
           /\ loads \in Seq(Load) /\ timers \in Seq([mine : BOOLEAN])
           /\ store \in Stores /\ items \in Seq(Item)
           /\ flush \in Flush \cup {None} /\ hints \in 0 .. FreeHints
           /\ made \in 0 .. MaxAttempts /\ strayed \in BOOLEAN
           /\ started \in SUBSET (Ids \X Levels)
           /\ counted \in SUBSET (Ids \X Levels)
           /\ handed \in SUBSET (Ids \X Levels)
  BY DEF Held, GameTypeOK, Stores

LEMMA YoungStored ==
    ASSUME Held, game # None
    PROVE  YoungStore(StoredBy(game), made)
<1>1. game \in Game /\ store \in Stores /\ YoungStore(store, made)
      /\ YoungGame(game, made)
  BY Types DEF Held, Young
<1>2. CASE Savable(game)
  <2>1. StoredBy(game) = [store EXCEPT ![game.level] = Kept(game).attempt]
        /\ Kept(game).attempt.id = game.attempt.id
        /\ game.attempt # None
    BY <1>1, <1>2, KeptFields DEF StoredBy, Savable
  <2> QED BY <1>1, <2>1 DEF YoungStore, YoungGame, Stores
<1>3. CASE ~Savable(game)
  BY <1>1, <1>3 DEF StoredBy
<1> QED BY <1>2, <1>3

LEMMA Element ==
    ASSUME NEW S, NEW s \in Seq(S), NEW i \in DOMAIN s
    PROVE  s[i] \in S
  BY ElementOfSeq, LenProperties

LEMMA LoadFields ==
    ASSUME NEW x \in Load
    PROVE  /\ x.at \in {"level", "image"} /\ x.want \in Levels
           /\ x.fresh \in BOOLEAN /\ x.attempt \in Saved \cup {None}
           /\ x.mine \in BOOLEAN
  BY DEF Load

LEMMA LoadGameHeld ==
    ASSUME Held, NEW l \in Levels, NEW fresh \in BOOLEAN, LoadGame(l, fresh),
           store' \in Stores, YoungStore(store', made)
    PROVE  Held'
<1> USE Types
<1> DEFINE load == [at |-> "level", want |-> l, fresh |-> fresh,
                    attempt |-> None, mine |-> TRUE]
           rest == Disowned(loads)
<1>0. /\ scene' = "game" /\ game' = Opened(l, fresh)
      /\ loads' = Append(rest, load) /\ timers' = Disowned(timers)
      /\ flush' = IF flush = None THEN None ELSE [flush EXCEPT !.mine = FALSE]
      /\ UNCHANGED <<items, hints, made, started, counted, handed, strayed>>
  BY DEF LoadGame
<1>1. load \in Load
  BY DEF Load
<1>2. /\ rest \in Seq(Load) /\ DOMAIN rest = DOMAIN loads
      /\ \A i \in DOMAIN loads : /\ rest[i].at = loads[i].at
                                 /\ rest[i].attempt = loads[i].attempt
  BY DisownedLoads
<1>4. load.at = "level" /\ load.attempt = None
  OBVIOUS
<1> HIDE DEF rest, load
<1>5. /\ loads' \in Seq(Load) /\ DOMAIN loads' = DOMAIN rest \cup {Len(rest) + 1}
      /\ \A i \in DOMAIN rest : loads'[i] = rest[i]
      /\ loads'[Len(rest) + 1] = load
  BY <1>0, <1>1, <1>2, LastItem
<1>6. YoungLoads(loads', made)
  BY <1>2, <1>4, <1>5 DEF Held, Young, YoungLoads
<1>7. ImagesKnown(loads')
  <2>1. ImagesKnown(loads)
    BY DEF Held, Together
  <2> SUFFICES ASSUME NEW i \in DOMAIN loads', loads'[i].at = "image"
               PROVE  loads'[i].attempt # None
    BY DEF ImagesKnown
  <2>2. i # Len(rest) + 1
    BY <1>4, <1>5
  <2> QED BY <2>1, <2>2, <1>2, <1>5 DEF ImagesKnown
<1>8. game' = NewGame
  BY <1>0 DEF Opened
<1>9. /\ flush' \in Flush \cup {None}
      /\ flush' = None <=> flush = None
  BY <1>0, SomeThing DEF Flush
<1>10. timers' \in Seq([mine : BOOLEAN])
  BY <1>0, DisownedTimers
<1>11. GameTypeOK'
  BY <1>0, <1>5, <1>8, <1>9, <1>10, NewGameFields DEF GameTypeOK, Stores
<1>12. Together'
  BY <1>0, <1>7, <1>8, <1>9, NewGameFields, SomeThing DEF Held, Together, Opening
<1>13. Young'
  BY <1>0, <1>6, <1>8, NewGameFields DEF Held, Young, YoungGame
<1> QED BY <1>11, <1>12, <1>13 DEF Held

LEMMA LevelArrivesHeld ==
    ASSUME Held, NEW i \in DOMAIN loads, LevelArrives(i)
    PROVE  Held'
<1> USE Types
<1> DEFINE load == loads[i]
           a == Attempt(load)
           next == [load EXCEPT !.at = "image", !.attempt = a]
<1>1. load \in Load /\ load.want \in Levels
  BY Element, LoadFields
<1>2. /\ made' = (IF a.id > made THEN made + 1 ELSE made)
      /\ made' <= MaxAttempts
      /\ store' = [store EXCEPT ![load.want] = a]
      /\ game' = [game EXCEPT !.level = load.want]
      /\ loads' = [loads EXCEPT ![i] = next]
      /\ strayed' = (strayed \/ ~load.mine)
      /\ UNCHANGED <<scene, timers, items, flush, hints, started, counted,
                     handed>>
  BY DEF LevelArrives
<1>3. /\ a \in Saved /\ a.id <= made'
      /\ made <= made' /\ made' \in 0 .. MaxAttempts
  <2>1. made \in Nat /\ MaxAttempts \in Nat
    BY GameAssumption
  <2>2. a.id > made => made + 1 <= MaxAttempts
    BY <1>2
  <2>3. a \in Saved
        /\ (\/ store[load.want] # None /\ a = store[load.want]
            \/ a.id = made + 1)
    BY <1>1, <2>2, AttemptBegun
  <2>4. a.id \in Nat
    BY <2>3 DEF Saved, Ids
  <2>5. store[load.want] # None => store[load.want].id <= made
    BY <1>1 DEF Held, Young, YoungStore
  <2> QED BY <1>2, <2>1, <2>3, <2>4, <2>5
<1>4. game \in Game
  <2>1. loads # <<>>
    OBVIOUS
  <2> QED BY <2>1 DEF Held, Together
<1> HIDE DEF a
<1>5. next \in Load /\ next.attempt = a /\ next.at = "image"
  BY <1>1, <1>3 DEF Load
<1>6. strayed' \in BOOLEAN
  BY <1>1, <1>2 DEF Load
<1> HIDE DEF next, load
<1>7. /\ game' \in Game /\ game'.loading = game.loading
      /\ game'.attempt = game.attempt
  BY <1>1, <1>2, <1>4 DEF Game
<1>8. store' \in Stores
  BY <1>1, <1>2, <1>3 DEF Stores
<1>9. /\ loads' \in Seq(Load) /\ DOMAIN loads' = DOMAIN loads
      /\ loads'[i] = next
      /\ \A j \in DOMAIN loads : j # i => loads'[j] = loads[j]
  BY <1>2, <1>5, LenProperties
<1>10. GameTypeOK'
  BY <1>2, <1>3, <1>6, <1>7, <1>8, <1>9 DEF GameTypeOK, Stores
<1>11. Together'
  <2>1. ImagesKnown(loads')
    BY <1>3, <1>5, <1>9, SomeThing DEF Held, Together, ImagesKnown
  <2>2. Opening(game')
    BY <1>4, <1>7, SomeThing DEF Held, Together, Opening
  <2> QED BY <1>2, <1>7, <2>1, <2>2, SomeThing DEF Held, Together
<1>12. Young'
  <2>0. made \in Nat /\ made' \in Nat
    BY <1>3, GameAssumption
  <2>1. YoungStore(store', made')
    <3> SUFFICES ASSUME NEW l \in Levels, store'[l] # None
                 PROVE  store'[l].id <= made'
      BY DEF YoungStore
    <3>1. CASE l = load.want
      BY <3>1, <1>2, <1>3 DEF Stores
    <3>2. CASE l # load.want
      <4>1. store'[l] = store[l] /\ store[l].id <= made /\ store[l].id \in Nat
        BY <3>2, <1>2 DEF Stores, Held, Young, YoungStore, Saved, Ids
      <4> QED BY <2>0, <4>1, <1>3
    <3> QED BY <3>1, <3>2
  <2>2. YoungLoads(loads', made')
    <3> SUFFICES ASSUME NEW j \in DOMAIN loads, loads'[j].attempt # None
                 PROVE  loads'[j].attempt.id <= made'
      BY <1>9 DEF YoungLoads
    <3>1. CASE j = i
      BY <3>1, <1>3, <1>5, <1>9
    <3>2. CASE j # i
      <4>1. loads'[j] = loads[j] /\ loads[j] \in Load
        BY <3>2, <1>9, ElementOfSeq, LenProperties
      <4>2. loads[j].attempt.id <= made /\ loads[j].attempt.id \in Nat
        BY <4>1 DEF Load, Saved, Ids, Held, Young, YoungLoads
      <4> QED BY <2>0, <4>1, <4>2, <1>3
    <3> QED BY <3>1, <3>2
  <2>3. YoungGame(game', made')
    BY <2>0, <1>3, <1>4, <1>7, SomeThing
       DEF YoungGame, Held, Young, Game, Saved, Ids
  <2>4. YoungPairs(handed', made')
    BY <2>0, <1>2, <1>3 DEF YoungPairs, Held, Young, Ids
  <2> QED BY <2>1, <2>2, <2>3, <2>4 DEF Young
<1> QED BY <1>10, <1>11, <1>12 DEF Held
LEMMA WatchFields ==
    ASSUME NEW w \in 0 .. MaxItems, NEW l \in Levels \cup {None}
    PROVE  /\ Watching(w, l) \in Flush
           /\ Watching(w, l).watch = w /\ Watching(w, l).level = l
           /\ Watching(w, l).outcome = "queued" /\ Watching(w, l).mine
  BY DEF Watching, Flush

LEMMA NoWatch ==
    Watching(0, None) \in Flush /\ Watching(0, None).level = None
<1>1. 0 \in 0 .. MaxItems /\ None \in Levels \cup {None}
  BY GameAssumption
<1> QED BY <1>1, WatchFields

\* What waits in the queue, and the flush that a write starts.
LEMMA Submitted ==
    ASSUME items \in Seq(Item), flush \in Flush \cup {None},
           NEW item \in Item, Submit(item)
    PROVE  /\ items' \in Seq(Item) /\ items' # <<>>
           /\ Len(items') = Len(items) + 1
           /\ DOMAIN items' = DOMAIN items \cup {Len(items) + 1}
           /\ \A i \in DOMAIN items : items'[i] = items[i]
           /\ items'[Len(items) + 1] = item
           /\ flush' \in Flush \cup {None} /\ flush' # None
           /\ flush # None => flush' = flush
           /\ flush = None => flush'.level = None
<1>1. items' = Append(items, item)
  BY DEF Submit
<1>2. flush' = IF flush = None THEN Watching(0, None) ELSE flush
  BY DEF Submit
<1>3. Watching(0, None) \in Flush /\ Watching(0, None).level = None
  BY NoWatch
<1> QED BY <1>1, <1>2, <1>3, LastItem, SomeThing

LEMMA Written ==
    ASSUME NEW route \in {"start", "progress", "complete"}, NEW l \in Levels,
           NEW id \in Ids, NEW found \in SUBSET Diffs
    PROVE  /\ Write(route, l, id, found) \in Item
           /\ Write(route, l, id, found).route = route
           /\ Write(route, l, id, found).level = l
           /\ Write(route, l, id, found).attempt = id
           /\ Write(route, l, id, found).found = found
  BY DEF Write, Item

LEMMA LoadEnds ==
    ASSUME NEW S, NEW s \in Seq(S), NEW i \in DOMAIN s
    PROVE  /\ RemoveAt(s, i) \in Seq(S)
           /\ \A j \in DOMAIN RemoveAt(s, i) :
                \E k \in DOMAIN s : k # i /\ RemoveAt(s, i)[j] = s[k]
<1>1. RemoveAt(s, i) \in Seq(S)
  BY Removed
<1>2. ASSUME NEW j \in DOMAIN RemoveAt(s, i)
      PROVE  \E k \in DOMAIN s : k # i /\ RemoveAt(s, i)[j] = s[k]
  <2> DEFINE k == IF j < i THEN j ELSE j + 1
  <2>1. k \in DOMAIN s /\ k # i /\ RemoveAt(s, i)[j] = s[k]
    BY Removed
  <2> QED BY <2>1
<1> QED BY <1>1, <1>2

LEMMA ImageArrivesHeld ==
    ASSUME Held, NEW i \in DOMAIN loads, ImageArrives(i)
    PROVE  Held'
<1> USE Types
<1> DEFINE load == loads[i]
           restored == load.attempt.found \cap DiffsOf[load.want]
           now == game.found \cup restored
           item == Write("start", load.want, load.attempt.id, {})
<1>1. load \in Load /\ load.want \in Levels /\ load.mine \in BOOLEAN
  BY Element, LoadFields
<1>2. load.at = "image" /\ load.attempt \in Saved
  BY <1>1, LoadFields DEF ImageArrives, Held, Together, ImagesKnown
<1>3. /\ game' = [game EXCEPT !.attempt = load.attempt, !.found = now,
                              !.loading = FALSE]
      /\ loads' = RemoveAt(loads, i)
      /\ Submit(item)
      /\ strayed' = (strayed \/ ~load.mine)
      /\ UNCHANGED <<scene, timers, store, hints, made, started, counted,
                     handed>>
  BY DEF ImageArrives
<1>4. game \in Game
  <2>1. loads # <<>>
    OBVIOUS
  <2> QED BY <2>1 DEF Held, Together
<1>5. now \in SUBSET Diffs
  <2>1. game.found \in SUBSET Diffs
    BY <1>4 DEF Game
  <2> QED BY <2>1, <1>1, DiffsFacts
<1>6. item \in Item
  <2>1. load.attempt.id \in Ids
    BY <1>2 DEF Saved
  <2> QED BY <2>1, <1>1, Written
<1>7. load.attempt.id <= made
  BY <1>2, SomeThing DEF Held, Young, YoungLoads
<1> HIDE DEF load, now, item
<1>8. /\ game' \in Game /\ game'.attempt = load.attempt
      /\ ~game'.loading
  BY <1>2, <1>3, <1>4, <1>5 DEF Game
<1>9. /\ loads' \in Seq(Load)
      /\ \A j \in DOMAIN loads' : \E k \in DOMAIN loads : loads'[j] = loads[k]
  BY <1>3, LoadEnds
<1>10. /\ items' \in Seq(Item) /\ items' # <<>>
       /\ flush' \in Flush \cup {None} /\ flush' # None
  BY <1>3, <1>6, Submitted
<1>11. GameTypeOK'
  BY <1>1, <1>3, <1>8, <1>9, <1>10 DEF GameTypeOK, Stores
<1>12. Together'
  <2>1. ImagesKnown(loads')
    BY <1>9 DEF Held, Together, ImagesKnown
  <2> QED BY <2>1, <1>2, <1>8, <1>10, SomeThing DEF Together, Opening
<1>13. Young'
  <2>1. YoungLoads(loads', made)
    BY <1>9 DEF Held, Young, YoungLoads
  <2> QED BY <2>1, <1>3, <1>7, <1>8 DEF Held, Young, YoungGame
<1> QED BY <1>11, <1>12, <1>13 DEF Held

LEMMA LoadFailsHeld ==
    ASSUME Held, NEW i \in DOMAIN loads, LoadFails(i)
    PROVE  Held'
<1> USE Types
<1>1. /\ loads' = RemoveAt(loads, i)
      /\ UNCHANGED <<scene, game, timers, store, items, flush, hints, made,
                     started, counted, handed, strayed>>
  BY DEF LoadFails
<1>2. /\ loads' \in Seq(Load)
      /\ \A j \in DOMAIN loads' : \E k \in DOMAIN loads : loads'[j] = loads[k]
  BY <1>1, LoadEnds
<1>3. loads # <<>>
  OBVIOUS
<1>4. GameTypeOK'
  BY <1>1, <1>2 DEF GameTypeOK, Stores
<1>5. Together'
  BY <1>1, <1>2, <1>3 DEF Held, Together, ImagesKnown
<1>6. Young'
  BY <1>1, <1>2 DEF Held, Young, YoungLoads
<1> QED BY <1>4, <1>5, <1>6 DEF Held

\* What a step needs to do to the game alone: it stays opened, and as young.
LEMMA GameHeld ==
    ASSUME Held, game # None, game' \in Game, store' \in Stores,
           game'.loading = game.loading,
           game'.attempt = None <=> game.attempt = None,
           YoungStore(store', made), YoungGame(game', made),
           UNCHANGED <<loads, made, started, counted>>
    PROVE  /\ game' \in Game \cup {None} /\ store' \in Stores
           /\ Opening(game') /\ game' # None
           /\ ImagesKnown(loads') /\ YoungLoads(loads', made')
           /\ YoungStore(store', made') /\ YoungGame(game', made')
  BY SomeThing DEF Held, Together, Young, Opening

LEMMA SaveHeld ==
    ASSUME Held, NEW g \in Game, SaveAttempt(g), game # None,
           g.loading = game.loading, g.attempt = game.attempt,
           g.level = game.level
    PROVE  /\ game' \in Game /\ store' \in Stores
           /\ game'.loading = game.loading
           /\ game'.attempt = None <=> game.attempt = None
           /\ YoungStore(store', made) /\ YoungGame(game', made)
<1> USE Types
<1>1. game' = Kept(g) /\ store' = StoredBy(g)
  BY DEF SaveAttempt
<1>2. /\ game' \in Game /\ game'.loading = game.loading
      /\ game'.attempt = None <=> game.attempt = None
      /\ game.attempt # None => game'.attempt.id = game.attempt.id
  BY <1>1, KeptType
<1>3. YoungGame(game', made)
  BY <1>2 DEF YoungGame, Held, Young
<1>4. YoungStore(store, made) /\ YoungGame(game, made)
  BY DEF Held, Young
<1>5. CASE Savable(g)
  <2>1. /\ store' = [store EXCEPT ![g.level] = Kept(g).attempt]
        /\ g.level \in Levels /\ Kept(g).attempt \in Saved
        /\ Kept(g).attempt.id = game.attempt.id /\ game.attempt # None
    BY <1>1, <1>5, KeptFields DEF StoredBy, Savable
  <2>2. store' \in Stores
    BY <2>1 DEF Stores
  <2>3. YoungStore(store', made)
    BY <1>4, <2>1 DEF YoungStore, YoungGame, Stores
  <2> QED BY <1>2, <1>3, <2>2, <2>3
<1>6. CASE ~Savable(g)
  BY <1>1, <1>2, <1>3, <1>4, <1>6 DEF StoredBy
<1> QED BY <1>5, <1>6
\* MarkFound and the touches that save: the parts that have their types.
LEMMA PlayedGame ==
    ASSUME Held, Playing
    PROVE  /\ game \in Game /\ game.level \in Levels /\ game.attempt \in Saved
           /\ game.attempt # None /\ game.attempt.id \in Ids
           /\ game # None /\ game.found \in SUBSET Diffs /\ Savable(game)
           /\ loads \in Seq(Load)
<1> USE Types
<1>1. game \in Game /\ game # None
  BY DEF Playing, Held, Together
<1>2. game.attempt # None
  BY <1>1 DEF Playing, Held, Together, Opening
<1> QED BY <1>1, <1>2 DEF Playing, Game, Saved, Savable

LEMMA MarkFoundHeld ==
    ASSUME Held, Playing, NEW d \in Diffs, MarkFound(d),
           hints' \in 0 .. FreeHints
    PROVE  Held'
<1> USE Types, PlayedGame
<1> DEFINE now == game.found \cup {d}
           last == Cardinality(now) = Cardinality(DiffsOf[game.level])
           g == [game EXCEPT !.found = now, !.finishing = @ \/ last]
           item == Write("progress", game.level, game.attempt.id, {})
<1>1. /\ SaveAttempt(g) /\ Submit(item)
      /\ timers' = IF last /\ ~game.finishing
                   THEN Append(timers, [mine |-> TRUE]) ELSE timers
      /\ UNCHANGED <<scene, loads, made, started, counted, handed, strayed>>
  BY DEF MarkFound
<1>2. /\ g \in Game /\ g.loading = game.loading
      /\ g.attempt = game.attempt /\ g.level = game.level
  <2> DEFINE f == game.finishing \/ last
  <2>1. f \in BOOLEAN /\ now \in SUBSET Diffs
    OBVIOUS
  <2>2. g = [game EXCEPT !.found = now, !.finishing = f]
    BY DEF Game
  <2> HIDE DEF f, now
  <2> QED BY <2>1, <2>2 DEF Game
<1>3. item \in Item
  BY Written
<1>4. timers' \in Seq([mine : BOOLEAN])
  <2>1. [mine |-> TRUE] \in [mine : BOOLEAN]
    OBVIOUS
  <2> QED BY <1>1, <2>1, LastItem
<1> HIDE DEF g, item, last, now
<1>5. /\ game' \in Game /\ store' \in Stores
      /\ game'.loading = game.loading
      /\ game'.attempt = None <=> game.attempt = None
      /\ YoungStore(store', made) /\ YoungGame(game', made)
  BY <1>1, <1>2, SaveHeld
<1>6. /\ items' \in Seq(Item) /\ items' # <<>>
      /\ flush' \in Flush \cup {None}
  BY <1>1, <1>3, Submitted
<1>7. GameTypeOK'
  BY <1>1, <1>4, <1>5, <1>6 DEF GameTypeOK, Stores
<1>8. /\ Opening(game') /\ game' # None
      /\ ImagesKnown(loads') /\ YoungLoads(loads', made')
      /\ YoungStore(store', made') /\ YoungGame(game', made')
  BY <1>1, <1>5, GameHeld
<1>9. Together'
  BY <1>6, <1>8 DEF Together
<1>10. Young'
  BY <1>1, <1>8 DEF Held, Young
<1> QED BY <1>7, <1>9, <1>10 DEF Held

LEMMA PressHeld ==
    ASSUME Held, NEW d \in Diffs, Press(d)
    PROVE  Held'
  BY Types, MarkFoundHeld DEF Press

LEMMA UseHintHeld ==
    ASSUME Held, UseHint
    PROVE  Held'
<1>1. Playing /\ hints < FreeHints /\ hints' = hints + 1
  BY DEF UseHint
<1>2. PICK d \in Undiscovered(game) : MarkFound(d)
  BY DEF UseHint
<1>3. d \in Diffs
  BY <1>1, <1>2, PlayedGame, DiffsFacts DEF Undiscovered
<1>4. hints' \in 0 .. FreeHints
  BY <1>1, Types, GameAssumption
<1> QED BY <1>1, <1>2, <1>3, <1>4, MarkFoundHeld

LEMMA SavedOnlyHeld ==
    ASSUME Held, game # None, SaveAttempt(game), scene' \in {"game", "other"},
           UNCHANGED <<loads, timers, items, flush, hints, made, started,
                       counted, handed, strayed>>
    PROVE  Held'
<1> USE Types
<1>1. game \in Game
  OBVIOUS
<1>2. /\ game' \in Game /\ store' \in Stores
      /\ game'.loading = game.loading
      /\ game'.attempt = None <=> game.attempt = None
      /\ YoungStore(store', made) /\ YoungGame(game', made)
  BY <1>1, SaveHeld
<1>3. GameTypeOK'
  BY <1>2 DEF GameTypeOK, Stores
<1>4. /\ Opening(game') /\ game' # None
      /\ ImagesKnown(loads') /\ YoungLoads(loads', made')
      /\ YoungStore(store', made') /\ YoungGame(game', made')
  BY <1>2, GameHeld
<1>5. Together'
  BY <1>4 DEF Held, Together
<1>6. Young'
  BY <1>4 DEF Held, Young
<1> QED BY <1>3, <1>5, <1>6 DEF Held

LEMMA TimeUpHeld ==
    ASSUME Held, TimeUp
    PROVE  Held'
<1>0. Playing
  BY DEF TimeUp
<1> USE Types, PlayedGame, <1>0
<1> DEFINE a == [game.attempt EXCEPT !.state = "timed_out"]
<1>1. /\ game' = [game EXCEPT !.timedOut = TRUE, !.finishing = TRUE,
                              !.attempt = a]
      /\ store' = [store EXCEPT ![game.level] = a]
      /\ UNCHANGED <<scene, loads, timers, items, flush, hints, made,
                     started, counted, handed, strayed>>
  BY DEF TimeUp
<1>2. a \in Saved /\ a.id = game.attempt.id
  BY DEF Saved, States
<1> HIDE DEF a
<1>3. /\ game' \in Game /\ game'.loading = game.loading
      /\ game'.attempt = a
  BY <1>1, <1>2 DEF Game
<1>4. store' \in Stores
  BY <1>1, <1>2 DEF Stores
<1>5. YoungStore(store', made) /\ YoungGame(game', made)
  BY <1>1, <1>2, <1>3, SomeThing
     DEF Held, Young, YoungStore, YoungGame, Stores
<1>6. GameTypeOK'
  BY <1>1, <1>3, <1>4 DEF GameTypeOK, Stores
<1>7. /\ Opening(game') /\ game' # None
      /\ ImagesKnown(loads') /\ YoungLoads(loads', made')
      /\ YoungStore(store', made') /\ YoungGame(game', made')
  BY <1>1, <1>2, <1>3, <1>4, <1>5, GameHeld, SomeThing
<1>8. Together'
  BY <1>1, <1>7 DEF Held, Together
<1>9. Young'
  BY <1>1, <1>7 DEF Held, Young
<1> QED BY <1>6, <1>8, <1>9 DEF Held
\* What finishLevel does with its result keeps the game and the store.
LEMMA FinishHeld ==
    ASSUME Held, game # None, NEW saved \in Stores, YoungStore(saved, made),
           NEW level \in Levels, NEW result \in Results,
           Finish(level, result, saved)
    PROVE  /\ game' \in Game /\ store' \in Stores
           /\ game'.loading = game.loading
           /\ game'.attempt = None <=> game.attempt = None
           /\ YoungStore(store', made) /\ YoungGame(game', made)
<1>1. game \in Game /\ YoungGame(game, made)
  BY Types DEF Held, Young
<1>2. /\ game' \in Game
      /\ game'.loading = game.loading
      /\ store' \in Stores
      /\ game.attempt = None => game'.attempt = None /\ store' = saved
      /\ game.attempt # None =>
            /\ game'.attempt \in Saved
            /\ game'.attempt.id = game.attempt.id
            /\ store' = [saved EXCEPT ![level] = game'.attempt]
  BY <1>1, Finished
<1>3. YoungGame(game', made)
  BY <1>1, <1>2 DEF YoungGame
<1>4. YoungStore(store', made)
  BY <1>1, <1>2 DEF YoungStore, YoungGame, Stores
<1> QED BY <1>2, <1>3, <1>4, SomeThing

LEMMA EndFlushHeld ==
    ASSUME Held, NEW f \in Flush, NEW saved \in Stores, YoungStore(saved, made),
           flush # None, f.level = flush.level, EndFlush(f, saved),
           UNCHANGED <<scene, loads, timers, hints, made, handed>>,
           items' \in Seq(Item), started' \in SUBSET (Ids \X Levels),
           counted' \in SUBSET (Ids \X Levels)
    PROVE  Held'
<1> USE Types
<1>1. /\ flush' = None
      /\ strayed' = (strayed \/ (f.level # None /\ ~f.mine))
  BY DEF EndFlush
<1>2. strayed' \in BOOLEAN
  BY <1>1 DEF Flush
<1>3. CASE f.level = None
  <2>1. store' = saved /\ game' = game
    BY <1>3 DEF EndFlush
  <2>2. GameTypeOK'
    BY <1>1, <1>2, <2>1 DEF GameTypeOK, Stores
  <2>3. Together'
    BY <1>1, <2>1 DEF Held, Together
  <2>4. Young'
    BY <2>1 DEF Held, Young
  <2> QED BY <2>2, <2>3, <2>4 DEF Held
<1>4. CASE f.level # None
  <2>1. /\ Finish(f.level, f.outcome, saved) /\ game # None
        /\ f.level \in Levels /\ f.outcome \in Results
    BY <1>4 DEF EndFlush, Held, Together, Flush, Results
  <2>2. /\ game' \in Game /\ store' \in Stores
        /\ game'.loading = game.loading
        /\ game'.attempt = None <=> game.attempt = None
        /\ YoungStore(store', made) /\ YoungGame(game', made)
    BY <2>1, FinishHeld
  <2>3. GameTypeOK'
    BY <1>1, <1>2, <2>2 DEF GameTypeOK, Stores
  <2>4. Opening(game') /\ game' # None
    BY <2>1, <2>2, SomeThing DEF Held, Together, Opening
  <2>5. Together'
    BY <1>1, <2>4 DEF Held, Together
  <2>6. Young'
    BY <2>2 DEF Held, Young
  <2> QED BY <2>3, <2>5, <2>6 DEF Held
<1> QED BY <1>3, <1>4

\* The item at the head of the queue, and the flush that waits for it.
LEMMA HeadItem ==
    ASSUME Held, flush # None
    PROVE  /\ items # <<>> /\ Len(items) \in Nat /\ Len(items) >= 1
           /\ Head(items) \in Item /\ Head(items) = items[1]
           /\ Tail(items) \in Seq(Item)
           /\ Len(Tail(items)) = Len(items) - 1
           /\ \A i \in 1 .. Len(items) - 1 : Tail(items)[i] = items[i + 1]
           /\ Head(items).level \in Levels /\ Head(items).attempt \in Ids
<1>1. items # <<>> /\ items \in Seq(Item)
  BY Types DEF Held, Together
<1>2. Head(items) \in Item
  BY <1>1, HeadTailProperties
<1> QED BY <1>1, <1>2, HeadTailProperties, LenProperties DEF Item

LEMMA FlushAfter ==
    ASSUME NEW f \in Flush, NEW outcome \in {"synced", "rejected"}
    PROVE  LET g == [f EXCEPT !.watch = IF @ = 0 THEN 0 ELSE @ - 1,
                              !.outcome = IF f.watch = 1 THEN outcome ELSE @]
           IN  /\ g \in Flush /\ g.level = f.level /\ g.mine = f.mine
               /\ g.watch = (IF f.watch = 0 THEN 0 ELSE f.watch - 1)
               /\ g.outcome = (IF f.watch = 1 THEN outcome ELSE f.outcome)
<1> DEFINE w == IF f.watch = 0 THEN 0 ELSE f.watch - 1
           o == IF f.watch = 1 THEN outcome ELSE f.outcome
<1>1. w \in 0 .. MaxItems /\ o \in {"synced", "rejected", "queued"}
  BY GameAssumption DEF Flush
<1>2. [f EXCEPT !.watch = IF @ = 0 THEN 0 ELSE @ - 1,
                !.outcome = IF f.watch = 1 THEN outcome ELSE @]
      = [f EXCEPT !.watch = w, !.outcome = o]
  BY DEF Flush
<1> HIDE DEF w, o
<1>3. LET g == [f EXCEPT !.watch = w, !.outcome = o]
      IN  /\ g \in Flush /\ g.level = f.level /\ g.mine = f.mine
          /\ g.watch = w /\ g.outcome = o
  BY <1>1 DEF Flush
<1> QED BY <1>2, <1>3 DEF w, o

LEMMA NotedStore ==
    ASSUME Held, flush # None, NEW outcome \in {"synced", "rejected"}
    PROVE  /\ Noted(Head(items), outcome) \in Stores
           /\ YoungStore(Noted(Head(items), outcome), made)
<1> USE Types, HeadItem
<1> DEFINE item == Head(items)
<1>1. item.level \in Levels /\ item.attempt \in Ids /\ outcome \in States
  BY DEF States
<1>2. YoungStore(store, made)
  BY DEF Held, Young
<1>3. CASE item.route = "complete"
  <2>1. Noted(item, outcome) = SetState(item.level, outcome, item.attempt)
    BY <1>3 DEF Noted
  <2>2. /\ SetState(item.level, outcome, item.attempt) \in Stores
        /\ \A k \in Levels :
             LET t == SetState(item.level, outcome, item.attempt)[k]
             IN  /\ t = None <=> store[k] = None
                 /\ store[k] # None => t.id = store[k].id
    BY <1>1, StateSet
  <2> QED BY <1>2, <2>1, <2>2 DEF YoungStore
<1>4. CASE item.route # "complete"
  BY <1>2, <1>4 DEF Noted
<1> QED BY <1>3, <1>4

LEMMA ResolveHeld ==
    ASSUME Held, flush # None, NEW outcome \in {"synced", "rejected"},
           Resolve(outcome),
           UNCHANGED <<scene, loads, timers, hints, made, handed>>,
           started' \in SUBSET (Ids \X Levels),
           counted' \in SUBSET (Ids \X Levels)
    PROVE  Held'
<1> USE Types, HeadItem
<1> DEFINE f == [flush EXCEPT !.watch = IF @ = 0 THEN 0 ELSE @ - 1,
                              !.outcome = IF flush.watch = 1 THEN outcome ELSE @]
           saved == Noted(Head(items), outcome)
<1>1. /\ items' = Tail(items)
      /\ IF Len(items) = 1
         THEN EndFlush(f, saved)
         ELSE /\ flush' = f
              /\ store' = saved
              /\ UNCHANGED <<game, strayed>>
  BY DEF Resolve
<1>2. flush \in Flush
  OBVIOUS
<1>3. f \in Flush /\ f.level = flush.level
  BY <1>2, FlushAfter
<1>4. saved \in Stores /\ YoungStore(saved, made)
  BY NotedStore
<1> HIDE DEF f, saved
<1>5. CASE Len(items) = 1
  BY <1>1, <1>3, <1>4, <1>5, EndFlushHeld
<1>6. CASE Len(items) # 1
  <2>1. items' # <<>>
    <3>1. Len(items') # 0
      BY <1>1, <1>6
    <3> QED BY <3>1, EmptySeq
  <2>2. GameTypeOK'
    BY <1>1, <1>3, <1>4, <1>6 DEF GameTypeOK, Stores
  <2>3. Together'
    BY <1>1, <1>3, <1>6, <2>1, SomeThing DEF Held, Together
  <2>4. Young'
    BY <1>1, <1>4, <1>6 DEF Held, Young
  <2> QED BY <2>2, <2>3, <2>4 DEF Held
<1> QED BY <1>5, <1>6

LEMMA ServedPairs ==
    ASSUME Held, flush # None,
           Serve(Head(items)) \/ UNCHANGED <<started, counted>>
    PROVE  /\ started' \in SUBSET (Ids \X Levels)
           /\ counted' \in SUBSET (Ids \X Levels)
           /\ counted \subseteq counted'
<1>1. <<Head(items).attempt, Head(items).level>> \in Ids \X Levels
  BY HeadItem
<1> QED BY <1>1, Types DEF Serve

LEMMA FailedHeld ==
    ASSUME Held, Failed
    PROVE  Held'
<1>1. /\ flush # None /\ EndFlush(flush, store)
      /\ Serve(Head(items)) \/ UNCHANGED <<started, counted>>
      /\ UNCHANGED <<scene, loads, timers, items, hints, made, handed>>
  BY DEF Failed
<1>2. flush \in Flush /\ store \in Stores /\ YoungStore(store, made)
  BY <1>1, Types DEF Held, Young
<1> QED BY <1>1, <1>2, ServedPairs, Types, EndFlushHeld

LEMMA FinishLevelHeld ==
    ASSUME Held, FinishLevel
    PROVE  Held'
<1> USE Types
<1>1. /\ timers # <<>> /\ timers' = Tail(timers)
      /\ strayed' = (strayed \/ ~Head(timers).mine)
      /\ UNCHANGED <<scene, loads, hints, made, started, counted>>
  BY DEF FinishLevel
<1>2. timers' \in Seq([mine : BOOLEAN]) /\ strayed' \in BOOLEAN
  BY <1>1, HeadTailProperties
<1>3. game \in Game /\ game # None
  BY <1>1 DEF Held, Together
<1>4. CASE ~Savable(game)
  <2>1. UNCHANGED <<game, store, items, flush, handed>>
    BY <1>4 DEF FinishLevel
  <2>2. GameTypeOK'
    BY <1>1, <1>2, <2>1 DEF GameTypeOK, Stores
  <2>3. Together'
    BY <1>1, <1>3, <2>1 DEF Held, Together
  <2>4. Young'
    BY <1>1, <2>1 DEF Held, Young
  <2> QED BY <2>2, <2>3, <2>4 DEF Held
<1>5. CASE Savable(game)
  <2> DEFINE item == Write("complete", game.level, game.attempt.id, game.found)
             pair == <<game.attempt.id, game.level>>
  <2>1. /\ Room /\ items' = Append(items, item)
        /\ handed' = IF game.found = DiffsOf[game.level]
                     THEN handed \cup {pair} ELSE handed
        /\ IF flush = None
           THEN /\ flush' = Watching(Len(items) + 1, game.level)
                /\ UNCHANGED <<game, store>>
           ELSE /\ Finish(game.level, "queued", store)
                /\ UNCHANGED flush
    BY <1>5 DEF FinishLevel
  <2>2. /\ game.level \in Levels /\ game.attempt \in Saved
        /\ game.attempt.id \in Ids /\ game.found \in SUBSET Diffs
        /\ game.attempt.id <= made
    BY <1>3, <1>5 DEF Savable, Game, Saved, Held, Young, YoungGame
  <2>3. item \in Item
    BY <2>2, Written
  <2>4. pair \in Ids \X Levels /\ pair[1] <= made
    BY <2>2
  <2> HIDE DEF item, pair
  <2>5. items' \in Seq(Item) /\ items' # <<>>
    BY <2>1, <2>3, LastItem
  <2>6. handed' \in SUBSET (Ids \X Levels) /\ YoungPairs(handed', made)
    BY <2>1, <2>4 DEF Held, Young, YoungPairs
  <2>7. CASE flush = None
    <3>1. flush' \in Flush
      <4>1. Len(items) + 1 \in 0 .. MaxItems
        BY <2>1, GameAssumption, LenProperties DEF Room
      <4> QED BY <2>1, <2>2, <2>7, <4>1, WatchFields
    <3>2. GameTypeOK'
      BY <1>1, <1>2, <2>1, <2>5, <2>6, <2>7, <3>1 DEF GameTypeOK, Stores
    <3>3. Together'
      BY <1>1, <1>3, <2>1, <2>5, <2>7 DEF Held, Together
    <3>4. Young'
      BY <1>1, <2>1, <2>6, <2>7 DEF Held, Young
    <3> QED BY <3>2, <3>3, <3>4 DEF Held
  <2>8. CASE flush # None
    <3>1. /\ game' \in Game /\ store' \in Stores
          /\ game'.loading = game.loading
          /\ game'.attempt = None <=> game.attempt = None
          /\ YoungStore(store', made) /\ YoungGame(game', made)
      <4>1. "queued" \in Results /\ YoungStore(store, made)
        BY DEF Results, Held, Young
      <4> QED BY <1>3, <2>1, <2>2, <2>8, <4>1, FinishHeld
    <3>2. GameTypeOK'
      BY <1>1, <1>2, <2>1, <2>5, <2>6, <2>8, <3>1 DEF GameTypeOK, Stores
    <3>3. Opening(game') /\ game' # None
      BY <1>3, <3>1, SomeThing DEF Held, Together, Opening
    <3>4. Together'
      BY <1>1, <2>5, <3>3 DEF Held, Together
    <3>5. Young'
      BY <1>1, <2>6, <3>1 DEF Held, Young
    <3> QED BY <3>2, <3>4, <3>5 DEF Held
  <2> QED BY <2>7, <2>8
<1> QED BY <1>4, <1>5

LEMMA HeldSteps ==
    ASSUME Held, [Next]_vars
    PROVE  Held'
<1> USE Types
<1>0. YoungStore(store, made)
  BY DEF Held, Young
<1>1. ASSUME NEW l \in Levels, OpenLevel(l)
      PROVE  Held'
  BY <1>0, <1>1, LoadGameHeld DEF OpenLevel
<1>2. ASSUME NEW l \in Levels, NextLevel(l)
      PROVE  Held'
  <2>1. game # None /\ store' = StoredBy(game)
    BY <1>2 DEF NextLevel, Held, Together
  <2>2. store' \in Stores /\ YoungStore(store', made)
    BY <2>1, StoredType, YoungStored
  <2> QED BY <1>2, <2>2, LoadGameHeld DEF NextLevel
<1>3. CASE Replay
  <2>1. game # None /\ store' = StoredBy(game) /\ game \in Game
    BY <1>3 DEF Replay, Held, Together
  <2>2. store' \in Stores /\ YoungStore(store', made)
    BY <2>1, StoredType, YoungStored
  <2>3. game.level \in Levels
    BY <1>3, <2>1 DEF Replay, Game
  <2> QED BY <1>3, <2>2, <2>3, LoadGameHeld DEF Replay
<1>4. ASSUME NEW i \in DOMAIN loads,
             LevelArrives(i) \/ ImageArrives(i) \/ LoadFails(i)
      PROVE  Held'
  BY <1>4, LevelArrivesHeld, ImageArrivesHeld, LoadFailsHeld
<1>5. CASE SaveView
  BY <1>5, SavedOnlyHeld DEF SaveView
<1>6. CASE Leave
  <2>1. game # None
    BY <1>6 DEF Leave, Held, Together
  <2> QED BY <1>6, <2>1, SavedOnlyHeld DEF Leave
<1>7. CASE Crash
  <2>1. GameTypeOK'
    BY <1>7 DEF Crash, GameTypeOK, Stores
  <2>2. Together'
    BY <1>7 DEF Crash, Together, Opening, ImagesKnown
  <2>3. Young'
    BY <1>7 DEF Crash, Held, Young, YoungGame, YoungLoads
  <2> QED BY <2>1, <2>2, <2>3 DEF Held
<1>8. CASE Accepted
  <2>1. /\ flush # None /\ Serve(Head(items)) /\ Resolve("synced")
        /\ UNCHANGED <<scene, loads, timers, hints, made, handed>>
    BY <1>8 DEF Accepted
  <2> QED BY <2>1, ServedPairs, ResolveHeld
<1>9. CASE Rejected
  BY <1>9, ResolveHeld DEF Rejected
<1>10. CASE FlushQueue
  <2>1. Watching(0, None) \in Flush /\ Watching(0, None).level = None
    BY NoWatch
  <2>2. /\ flush' = Watching(0, None) /\ items # <<>>
        /\ UNCHANGED <<scene, game, loads, timers, store, items, hints, made,
                       started, counted, handed, strayed>>
    BY <1>10 DEF FlushQueue
  <2>3. GameTypeOK'
    BY <2>1, <2>2 DEF GameTypeOK, Stores
  <2>4. Together'
    BY <2>1, <2>2 DEF Held, Together
  <2>5. Young'
    BY <2>2 DEF Held, Young
  <2> QED BY <2>3, <2>4, <2>5 DEF Held
<1>11. CASE UNCHANGED vars
  BY <1>11 DEF vars, Held, GameTypeOK, Together, Young
<1> QED BY <1>1, <1>2, <1>3, <1>4, <1>5, <1>6, <1>7, <1>8, <1>9, <1>10, <1>11,
           PressHeld, UseHintHeld, TimeUpHeld, FinishLevelHeld, FailedHeld
        DEF Next

LEMMA HeldAtFirst ==
    ASSUME Init
    PROVE  Held
<1>1. GameTypeOK
  <2>1. /\ loads \in Seq(Load) /\ timers \in Seq([mine : BOOLEAN])
        /\ items \in Seq(Item)
    BY EmptySeq DEF Init
  <2>2. hints \in 0 .. FreeHints /\ made \in 0 .. MaxAttempts
    BY GameAssumption DEF Init
  <2> QED BY <2>1, <2>2 DEF Init, GameTypeOK
<1>2. Together
  BY DEF Init, Together, Opening, ImagesKnown
<1>3. Young
  BY DEF Init, Young, YoungStore, YoungLoads, YoungGame, YoungPairs
<1> QED BY <1>1, <1>2, <1>3 DEF Held

LEMMA AlwaysHeld == Spec => []Held
<1>1. Init => Held
  BY HeldAtFirst
<1>2. Held /\ [Next]_vars => Held'
  BY HeldSteps
<1> QED BY <1>1, <1>2, PTL DEF Spec

\* Whatever the player, the network, the clock and restarts do, the game, what
\* waits, what is saved and what is queued keep their types.
THEOREM GameTypeCorrect == Spec => []GameTypeOK
<1>1. Held => GameTypeOK
  BY DEF Held
<1> QED BY <1>1, AlwaysHeld, PTL
-----------------------------------------------------------------------------
(* What holds as long as nothing has acted on a game it does not belong to. *)
(* The parts take the sets of pairs as arguments, since a step may change   *)
(* what is handed or counted and leave the rest.                            *)

Pair(s, l) == <<s.id, l>>

Earned(s, l, h, c) ==
    /\ s.state \in {"sync_queued", "rejected"} => Pair(s, l) \in h
    /\ s.state = "synced" => Pair(s, l) \in c

\* What is saved of a level, handed in only when it is all found.
SavedFits(s, l, h, c) ==
    /\ s.found \subseteq DiffsOf[l]
    /\ Earned(s, l, h, c)
    /\ Pair(s, l) \in h => s.found = DiffsOf[l]

StoreFits(st, h, c) ==
    \A l \in Levels : st[l] # None => SavedFits(st[l], l, h, c)

OneMine(s) == \A i \in DOMAIN s : \A j \in DOMAIN s :
                    (s[i].mine /\ s[j].mine) => i = j

\* The load of the game on the screen: the attempt it carries is the saved one.
LoadFits(x, g, st, h, c) ==
    /\ g.attempt = None /\ g.found = {} /\ ~g.finishing
    /\ x.at = "image" =>
        /\ g.level = x.want
        /\ st[x.want] # None
        /\ st[x.want].id = x.attempt.id
        /\ st[x.want].found = x.attempt.found
        /\ Earned(x.attempt, x.want, h, c)

LoadsFit(s, g, st, h, c) ==
    /\ OneMine(s)
    /\ \A i \in DOMAIN s : s[i].mine => LoadFits(s[i], g, st, h, c)

\* The game on the screen is the saved one.
GameFits(g, st, h, c) ==
    (g # None /\ g.attempt # None) =>
        /\ g.level # None
        /\ st[g.level] # None
        /\ st[g.level].id = g.attempt.id
        /\ st[g.level].found = g.found
        /\ g.attempt.found = g.found
        /\ Earned(g.attempt, g.level, h, c)

\* The timer of the game on the screen: it is all found and not handed in yet.
Feedback(g, h) ==
    /\ g.attempt # None /\ g.finishing /\ ~g.timedOut
    /\ g.found = DiffsOf[g.level]
    /\ Pair(g.attempt, g.level) \notin h

TimersFit(s, g, h) ==
    /\ OneMine(s)
    /\ \A i \in DOMAIN s : s[i].mine => Feedback(g, h)

\* The flush whose result the game on the screen waits for.
FlushFits(f, q, g, h, c) ==
    (f # None /\ f.level # None /\ f.mine) =>
        /\ g.attempt # None /\ g.level = f.level
        /\ Pair(g.attempt, g.level) \in h
        /\ f.outcome = "synced" => Pair(g.attempt, g.level) \in c
        /\ f.watch # 0 => /\ f.watch <= Len(q)
                          /\ q[f.watch].route = "complete"
                          /\ q[f.watch].attempt = g.attempt.id
                          /\ q[f.watch].level = g.level

ItemsFit(q, h) ==
    \A i \in DOMAIN q :
        q[i].route = "complete" => <<q[i].attempt, q[i].level>> \in h

Fits ==
    /\ StoreFits(store, handed, counted)
    /\ LoadsFit(loads, game, store, handed, counted)
    /\ GameFits(game, store, handed, counted)
    /\ TimersFit(timers, game, handed)
    /\ FlushFits(flush, items, game, handed, counted)
    /\ ItemsFit(items, handed)

Straight == ~strayed => Fits

\* More that is counted disturbs nothing.
LEMMA CountedMore ==
    ASSUME NEW c, NEW d, c \subseteq d, NEW h, NEW st, NEW s, NEW g, NEW f,
           NEW q
    PROVE  /\ StoreFits(st, h, c) => StoreFits(st, h, d)
           /\ LoadsFit(s, g, st, h, c) => LoadsFit(s, g, st, h, d)
           /\ GameFits(g, st, h, c) => GameFits(g, st, h, d)
           /\ FlushFits(f, q, g, h, c) => FlushFits(f, q, g, h, d)
<1>1. ASSUME NEW x, NEW l, Earned(x, l, h, c)
      PROVE  Earned(x, l, h, d)
  BY <1>1 DEF Earned
<1>2. StoreFits(st, h, c) => StoreFits(st, h, d)
  BY <1>1 DEF StoreFits, SavedFits
<1>3. LoadsFit(s, g, st, h, c) => LoadsFit(s, g, st, h, d)
  BY <1>1 DEF LoadsFit, LoadFits
<1>4. GameFits(g, st, h, c) => GameFits(g, st, h, d)
  BY <1>1 DEF GameFits
<1>5. FlushFits(f, q, g, h, c) => FlushFits(f, q, g, h, d)
  BY DEF FlushFits
<1> QED BY <1>2, <1>3, <1>4, <1>5

\* A store that has the same attempts, with the same found, fits as well.
SameAttempts(st, tt) ==
    \A l \in Levels : /\ tt[l] = None <=> st[l] = None
                      /\ st[l] # None => /\ tt[l].id = st[l].id
                                         /\ tt[l].found = st[l].found

LEMMA SameStore ==
    ASSUME NEW st, NEW tt, SameAttempts(st, tt), NEW s \in Seq(Load),
           NEW g \in Game \cup {None}, NEW h, NEW c
    PROVE  /\ LoadsFit(s, g, st, h, c) => LoadsFit(s, g, tt, h, c)
           /\ GameFits(g, st, h, c) => GameFits(g, tt, h, c)
<1>1. \A i \in DOMAIN s : s[i].want \in Levels
  BY Element, LoadFields
<1>2. LoadsFit(s, g, st, h, c) => LoadsFit(s, g, tt, h, c)
  <2> SUFFICES ASSUME LoadsFit(s, g, st, h, c), NEW i \in DOMAIN s, s[i].mine
               PROVE  LoadFits(s[i], g, tt, h, c)
    BY DEF LoadsFit
  <2>1. LoadFits(s[i], g, st, h, c)
    BY DEF LoadsFit
  <2> QED BY <1>1, <2>1 DEF LoadFits, SameAttempts
<1>3. GameFits(g, st, h, c) => GameFits(g, tt, h, c)
  <2> SUFFICES ASSUME GameFits(g, st, h, c), g # None, g.attempt # None
               PROVE  GameFits(g, tt, h, c)
    BY DEF GameFits
  <2>1. g.level \in Levels
    BY DEF GameFits, Game
  <2> QED BY <2>1 DEF GameFits, SameAttempts
<1> QED BY <1>2, <1>3

LEMMA OneSaved ==
    ASSUME NEW st \in Stores, NEW h, NEW c, StoreFits(st, h, c),
           NEW l \in Levels, NEW a \in Saved, SavedFits(a, l, h, c)
    PROVE  StoreFits([st EXCEPT ![l] = a], h, c)
<1> SUFFICES ASSUME NEW k \in Levels, [st EXCEPT ![l] = a][k] # None
             PROVE  SavedFits([st EXCEPT ![l] = a][k], k, h, c)
  BY DEF StoreFits
<1>1. CASE k = l
  BY <1>1 DEF Stores
<1>2. CASE k # l
  BY <1>2 DEF StoreFits, Stores
<1> QED BY <1>1, <1>2

\* The game that is played fits its level, as what is saved of it does.
LEMMA GameSaved ==
    ASSUME NEW st \in Stores, NEW g \in Game, NEW h, NEW c,
           StoreFits(st, h, c), GameFits(g, st, h, c), g.attempt # None
    PROVE  /\ g.level \in Levels /\ g.attempt \in Saved
           /\ SavedFits(g.attempt, g.level, h, c)
           /\ g.found \subseteq DiffsOf[g.level]
<1>1. g.level \in Levels /\ g.attempt \in Saved
  BY SomeThing DEF GameFits, Game
<1>2. SavedFits(st[g.level], g.level, h, c)
  BY <1>1, SomeThing DEF GameFits, StoreFits
<1> QED BY <1>1, <1>2, SomeThing DEF GameFits, SavedFits, Pair

\* No load of the game on the screen waits once it has its attempt.
LEMMA NoLoadMine ==
    ASSUME NEW s, NEW g, NEW st, NEW h, NEW c, LoadsFit(s, g, st, h, c),
           g.attempt # None
    PROVE  \A i \in DOMAIN s : ~s[i].mine
  BY DEF LoadsFit, LoadFits

LEMMA NothingMine ==
    ASSUME NEW s, \A i \in DOMAIN s : ~s[i].mine
    PROVE  /\ \A g, st, h, c : LoadsFit(s, g, st, h, c)
           /\ \A g, h : TimersFit(s, g, h)
  BY DEF LoadsFit, TimersFit, OneMine
LEMMA LoadGameFits ==
    ASSUME Held, NEW l \in Levels, NEW fresh \in BOOLEAN, LoadGame(l, fresh),
           Fits, StoreFits(store', handed, counted)
    PROVE  Fits'
<1> USE Types
<1> DEFINE load == [at |-> "level", want |-> l, fresh |-> fresh,
                    attempt |-> None, mine |-> TRUE]
           rest == Disowned(loads)
<1>0. /\ scene' = "game" /\ game' = Opened(l, fresh)
      /\ loads' = Append(rest, load) /\ timers' = Disowned(timers)
      /\ flush' = IF flush = None THEN None ELSE [flush EXCEPT !.mine = FALSE]
      /\ UNCHANGED <<items, hints, made, started, counted, handed, strayed>>
  BY DEF LoadGame
<1>1. load \in Load /\ load.at # "image"
  BY DEF Load
<1>2. /\ rest \in Seq(Load)
      /\ \A i \in DOMAIN rest : ~rest[i].mine
  BY DisownedLoads
<1> HIDE DEF load, rest
<1>3. /\ DOMAIN loads' = DOMAIN rest \cup {Len(rest) + 1}
      /\ \A i \in DOMAIN rest : loads'[i] = rest[i]
      /\ loads'[Len(rest) + 1] = load
  BY <1>0, <1>1, <1>2, LastItem
<1>4. game' = NewGame
  BY <1>0 DEF Opened
<1>5. LoadsFit(loads', game', store', handed', counted')
  <2>1. OneMine(loads')
    BY <1>2, <1>3 DEF OneMine
  <2>2. LoadFits(load, game', store', handed', counted')
    BY <1>1, <1>4, NewGameFields DEF LoadFits
  <2> QED BY <1>2, <1>3, <2>1, <2>2 DEF LoadsFit
<1>6. GameFits(game', store', handed', counted')
  BY <1>4, NewGameFields DEF GameFits
<1>7. TimersFit(timers', game', handed')
  BY <1>0, DisownedTimers, NothingMine
<1>8. FlushFits(flush', items', game', handed', counted')
  <2>1. flush' = None \/ ~flush'.mine
    BY <1>0, SomeThing DEF Flush
  <2> QED BY <2>1 DEF FlushFits
<1> QED BY <1>0, <1>5, <1>6, <1>7, <1>8 DEF Fits

\* What a touch on the screen saves.
LEMMA TouchFits ==
    ASSUME Held, Fits, game # None
    PROVE  StoreFits(StoredBy(game), handed, counted)
<1> USE Types
<1>1. game \in Game
  OBVIOUS
<1>2. CASE Savable(game)
  <2> DEFINE a == Kept(game).attempt
  <2>1. /\ a = [game.attempt EXCEPT !.found = game.found]
        /\ game.attempt \in Saved /\ game.level \in Levels
        /\ a \in Saved /\ a.id = game.attempt.id
        /\ a.state = game.attempt.state /\ a.found = game.found
        /\ game.attempt # None
    BY <1>1, <1>2, KeptFields, SomeThing
  <2>2. SavedFits(game.attempt, game.level, handed, counted)
        /\ game.attempt.found = game.found
    BY <1>1, <2>1, GameSaved DEF Fits, GameFits
  <2> HIDE DEF a
  <2>3. SavedFits(a, game.level, handed, counted)
    BY <2>1, <2>2 DEF SavedFits, Earned, Pair
  <2>4. StoredBy(game) = [store EXCEPT ![game.level] = a]
    BY <1>2 DEF StoredBy, a
  <2>5. StoreFits(store, handed, counted)
    BY DEF Fits
  <2>6. StoreFits([store EXCEPT ![game.level] = a], handed, counted)
    BY <2>1, <2>3, <2>5, OneSaved
  <2> QED BY <2>4, <2>6
<1>3. CASE ~Savable(game)
  BY <1>3 DEF StoredBy, Fits
<1> QED BY <1>2, <1>3

LEMMA LevelArrivesFits ==
    ASSUME Held, NEW i \in DOMAIN loads, LevelArrives(i), Fits, ~strayed'
    PROVE  Fits'
<1> USE Types
<1> DEFINE load == loads[i]
           a == Attempt(load)
           next == [load EXCEPT !.at = "image", !.attempt = a]
<1>1. load \in Load /\ load.want \in Levels
  BY Element, LoadFields
<1>2. /\ made' = (IF a.id > made THEN made + 1 ELSE made)
      /\ made' <= MaxAttempts
      /\ store' = [store EXCEPT ![load.want] = a]
      /\ game' = [game EXCEPT !.level = load.want]
      /\ loads' = [loads EXCEPT ![i] = next]
      /\ strayed' = (strayed \/ ~load.mine)
      /\ UNCHANGED <<scene, timers, items, flush, hints, started, counted,
                     handed>>
  BY DEF LevelArrives
<1>3. load.mine
  BY <1>2
<1>4. /\ game.attempt = None /\ game.found = {} /\ ~game.finishing
      /\ OneMine(loads)
  BY <1>3 DEF Fits, LoadsFit, LoadFits
<1>5. game \in Game
  <2>1. loads # <<>>
    OBVIOUS
  <2> QED BY <2>1 DEF Held, Together
<1>6. /\ a \in Saved /\ SavedFits(a, load.want, handed, counted)
  <2>1. made \in Nat /\ MaxAttempts \in Nat
    BY GameAssumption
  <2>2. a.id > made => made + 1 <= MaxAttempts
    BY <1>2
  <2>3. /\ a \in Saved
        /\ \/ store[load.want] # None /\ a = store[load.want]
           \/ a.id = made + 1 /\ a.state = "in_progress" /\ a.found = {}
    BY <1>1, <2>2, AttemptBegun
  <2>4. CASE store[load.want] # None /\ a = store[load.want]
    BY <1>1, <2>3, <2>4 DEF Fits, StoreFits
  <2>5. CASE a.id = made + 1 /\ a.state = "in_progress" /\ a.found = {}
    <3>1. Pair(a, load.want) \notin handed
      BY <2>1, <2>5 DEF Pair, Held, Young, YoungPairs
    <3> QED BY <2>3, <2>5, <3>1 DEF SavedFits, Earned
  <2> QED BY <2>3, <2>4, <2>5
<1> HIDE DEF a
<1>7. next.want = load.want /\ next.attempt = a /\ next.mine
  BY <1>1, <1>3 DEF Load
<1> HIDE DEF next, load
<1>8. /\ game' \in Game /\ game'.level = load.want /\ game'.attempt = None
      /\ game'.found = {} /\ ~game'.finishing
  BY <1>1, <1>2, <1>4, <1>5 DEF Game
<1>9. /\ DOMAIN loads' = DOMAIN loads /\ loads'[i] = next
      /\ \A j \in DOMAIN loads : j # i => loads'[j] = loads[j]
  BY <1>2, LenProperties
<1>10. store'[load.want] = a
  BY <1>1, <1>2 DEF Stores
<1>11. StoreFits(store', handed', counted')
  BY <1>1, <1>2, <1>6, OneSaved DEF Fits
<1>12. LoadsFit(loads', game', store', handed', counted')
  <2>1. \A j \in DOMAIN loads : j # i => ~loads[j].mine
    BY <1>3, <1>4 DEF OneMine, load
  <2>2. LoadFits(next, game', store', handed', counted')
    BY <1>2, <1>6, <1>7, <1>8, <1>10, SomeThing DEF LoadFits, SavedFits
  <2>3. OneMine(loads')
    BY <1>9, <2>1 DEF OneMine
  <2> QED BY <1>9, <2>1, <2>2, <2>3 DEF LoadsFit
<1>13. GameFits(game', store', handed', counted')
  BY <1>8 DEF GameFits
<1>14. TimersFit(timers', game', handed')
  <2>1. \A j \in DOMAIN timers : ~timers[j].mine
    BY <1>4 DEF Fits, TimersFit, Feedback
  <2> QED BY <1>2, <2>1, NothingMine
<1>15. FlushFits(flush', items', game', handed', counted')
  BY <1>2, <1>4 DEF Fits, FlushFits
<1> QED BY <1>2, <1>11, <1>12, <1>13, <1>14, <1>15 DEF Fits

\* A write behind the others, or one less at the head.
LEMMA AppendFits ==
    ASSUME Held, NEW item \in Item, items' \in Seq(Item),
           DOMAIN items' = DOMAIN items \cup {Len(items) + 1},
           Len(items') = Len(items) + 1,
           \A i \in DOMAIN items : items'[i] = items[i],
           items'[Len(items) + 1] = item,
           NEW h, ItemsFit(items, h),
           item.route = "complete" => <<item.attempt, item.level>> \in h
    PROVE  /\ ItemsFit(items', h)
           /\ \A f \in Flush : \A g, c :
                FlushFits(f, items, g, h, c) => FlushFits(f, items', g, h, c)
<1> USE Types
<1>1. ItemsFit(items', h)
  BY DEF ItemsFit
<1>2. ASSUME NEW f \in Flush, NEW g, NEW c, FlushFits(f, items, g, h, c)
      PROVE  FlushFits(f, items', g, h, c)
  <2>1. f.watch \in Nat /\ Len(items) \in Nat /\ DOMAIN items = 1 .. Len(items)
    BY LenProperties, GameAssumption DEF Flush
  <2>2. (f.watch # 0 /\ f.watch <= Len(items)) => f.watch \in DOMAIN items
    BY <2>1
  <2> QED BY <1>2, <2>1, <2>2 DEF FlushFits
<1> QED BY <1>1, <1>2
LEMMA ImageArrivesFits ==
    ASSUME Held, NEW i \in DOMAIN loads, ImageArrives(i), Fits, ~strayed'
    PROVE  Fits'
<1> USE Types
<1> DEFINE load == loads[i]
           restored == load.attempt.found \cap DiffsOf[load.want]
           now == game.found \cup restored
           item == Write("start", load.want, load.attempt.id, {})
<1>1. load \in Load /\ load.want \in Levels
  BY Element, LoadFields
<1>2. load.at = "image" /\ load.attempt \in Saved
  BY <1>1, LoadFields DEF ImageArrives, Held, Together, ImagesKnown
<1>3. /\ game' = [game EXCEPT !.attempt = load.attempt, !.found = now,
                              !.loading = FALSE]
      /\ loads' = RemoveAt(loads, i)
      /\ Submit(item)
      /\ strayed' = (strayed \/ ~load.mine)
      /\ UNCHANGED <<scene, timers, store, hints, made, started, counted,
                     handed>>
  BY DEF ImageArrives
<1>4. game \in Game
  <2>1. loads # <<>>
    OBVIOUS
  <2> QED BY <2>1 DEF Held, Together
<1>5. load.mine
  BY <1>3
<1>6. /\ OneMine(loads)
      /\ LoadFits(load, game, store, handed, counted)
  BY <1>5 DEF Fits, LoadsFit
<1>7. /\ game.attempt = None /\ game.found = {}
      /\ game.level = load.want /\ store[load.want] # None
      /\ store[load.want].id = load.attempt.id
      /\ store[load.want].found = load.attempt.found
      /\ Earned(load.attempt, load.want, handed, counted)
  BY <1>2, <1>6 DEF LoadFits
<1>8. load.attempt.found \subseteq DiffsOf[load.want]
  BY <1>1, <1>7 DEF Fits, StoreFits, SavedFits
<1>9. now = load.attempt.found /\ now \in SUBSET Diffs
  BY <1>2, <1>7, <1>8 DEF Saved
<1>10. item \in Item /\ item.route # "complete"
  <2>1. load.attempt.id \in Ids
    BY <1>2 DEF Saved
  <2> QED BY <2>1, <1>1, Written
<1>11. \A j \in DOMAIN loads : j # i => ~loads[j].mine
  BY <1>5, <1>6 DEF OneMine, load
<1> HIDE DEF load, now, item
<1>12. /\ game' \in Game /\ game'.attempt = load.attempt
       /\ game'.found = load.attempt.found /\ game'.level = load.want
  BY <1>2, <1>3, <1>4, <1>7, <1>9 DEF Game
<1>13. \A j \in DOMAIN loads' : ~loads'[j].mine
  BY <1>3, <1>11, LoadEnds
<1>14. GameFits(game', store', handed', counted')
  BY <1>1, <1>3, <1>7, <1>12, SomeThing DEF GameFits
<1>15. TimersFit(timers', game', handed')
  <2>1. \A j \in DOMAIN timers : ~timers[j].mine
    BY <1>7 DEF Fits, TimersFit, Feedback
  <2> QED BY <1>3, <2>1, NothingMine
<1>16. FlushFits(flush', items', game', handed', counted')
  <2>1. flush # None => flush.level = None \/ ~flush.mine
    BY <1>7 DEF Fits, FlushFits
  <2> QED BY <2>1, <1>3, <1>10, Submitted DEF FlushFits
<1>17. ItemsFit(items', handed')
  <2>1. ItemsFit(items, handed)
    BY DEF Fits
  <2>2. /\ items' \in Seq(Item) /\ DOMAIN items' = DOMAIN items \cup {Len(items) + 1}
        /\ \A j \in DOMAIN items : items'[j] = items[j]
        /\ items'[Len(items) + 1] = item
    BY <1>3, <1>10, Submitted
  <2> QED BY <2>1, <2>2, <1>3, <1>10 DEF ItemsFit
<1> QED BY <1>3, <1>13, <1>14, <1>15, <1>16, <1>17, NothingMine DEF Fits

LEMMA LoadFailsFits ==
    ASSUME Held, NEW i \in DOMAIN loads, LoadFails(i), Fits
    PROVE  Fits'
<1> USE Types
<1>1. /\ loads' = RemoveAt(loads, i)
      /\ UNCHANGED <<scene, game, timers, store, items, flush, hints, made,
                     started, counted, handed, strayed>>
  BY DEF LoadFails
<1>2. /\ loads' \in Seq(Load)
      /\ \A j \in DOMAIN loads' :
            LET k == IF j < i THEN j ELSE j + 1
            IN  k \in DOMAIN loads /\ loads'[j] = loads[k]
  <2>1. /\ RemoveAt(loads, i) \in Seq(Load)
        /\ \A j \in DOMAIN RemoveAt(loads, i) :
             LET k == IF j < i THEN j ELSE j + 1
             IN  k \in DOMAIN loads /\ RemoveAt(loads, i)[j] = loads[k]
    BY Removed
  <2> QED BY <1>1, <2>1
<1>3. LoadsFit(loads', game, store, handed, counted)
  <2>1. OneMine(loads) /\ DOMAIN loads' = 1 .. Len(loads')
        /\ Len(loads') \in Nat /\ i \in Nat
    BY <1>2, LenProperties DEF Fits, LoadsFit
  <2>2. ASSUME NEW j \in DOMAIN loads', NEW k \in DOMAIN loads',
               loads'[j].mine, loads'[k].mine
        PROVE  j = k
    <3> DEFINE m(n) == IF n < i THEN n ELSE n + 1
    <3>1. /\ m(j) \in DOMAIN loads /\ m(k) \in DOMAIN loads
          /\ loads[m(j)].mine /\ loads[m(k)].mine
      BY <1>2, <2>2
    <3>2. m(j) = m(k)
      BY <2>1, <3>1 DEF OneMine
    <3> QED BY <2>1, <3>2
  <2>3. ASSUME NEW j \in DOMAIN loads', loads'[j].mine
        PROVE  LoadFits(loads'[j], game, store, handed, counted)
    <3> DEFINE m == IF j < i THEN j ELSE j + 1
    <3>1. m \in DOMAIN loads /\ loads'[j] = loads[m]
      BY <1>2
    <3> QED BY <2>3, <3>1 DEF Fits, LoadsFit
  <2> QED BY <2>2, <2>3 DEF LoadsFit, OneMine
<1> QED BY <1>1, <1>3 DEF Fits

\* The last difference is marked: the timer that is set belongs to the game,
\* which is all found and has not been handed in.
LEMMA MarkFoundFits ==
    ASSUME Held, Playing, NEW d \in Undiscovered(game), MarkFound(d), Fits
    PROVE  Fits'
<1> USE Types, PlayedGame
<1> DEFINE now == game.found \cup {d}
           last == Cardinality(now) = Cardinality(DiffsOf[game.level])
           g == [game EXCEPT !.found = now, !.finishing = @ \/ last]
           item == Write("progress", game.level, game.attempt.id, {})
           a == Kept(g).attempt
           pair == Pair(game.attempt, game.level)
<1>1. /\ SaveAttempt(g) /\ Submit(item)
      /\ timers' = IF last /\ ~game.finishing
                   THEN Append(timers, [mine |-> TRUE]) ELSE timers
      /\ UNCHANGED <<scene, loads, made, started, counted, handed, strayed>>
  BY DEF MarkFound
<1>2. /\ game.level \in Levels /\ SavedFits(game.attempt, game.level, handed, counted)
      /\ game.found \subseteq DiffsOf[game.level]
      /\ game.attempt.found = game.found
      /\ GameFits(game, store, handed, counted)
  BY GameSaved DEF Fits, GameFits
<1>3. now \subseteq DiffsOf[game.level] /\ now \in SUBSET Diffs
  BY <1>2, DiffsFacts DEF Undiscovered
<1>4. pair \notin handed /\ game.found # DiffsOf[game.level]
  BY <1>2 DEF SavedFits, Undiscovered
<1>5. last => now = DiffsOf[game.level]
  <2>1. IsFiniteSet(DiffsOf[game.level])
    BY GameAssumption
  <2> QED BY <1>3, <2>1, FS_Subset
<1>6. /\ g \in Game /\ g.level = game.level /\ g.attempt = game.attempt
      /\ g.found = now /\ g.timedOut = game.timedOut
      /\ g.finishing = (game.finishing \/ last)
  <2> DEFINE f == game.finishing \/ last
  <2>1. f \in BOOLEAN
    BY DEF Game
  <2>2. g = [game EXCEPT !.found = now, !.finishing = f]
    BY DEF Game
  <2> HIDE DEF f, now
  <2>3. LET z == [game EXCEPT !.found = now, !.finishing = f]
        IN  /\ z \in Game /\ z.level = game.level
            /\ z.attempt = game.attempt
            /\ z.found = now /\ z.timedOut = game.timedOut /\ z.finishing = f
    BY <1>3, <2>1 DEF Game
  <2> QED BY <2>2, <2>3 DEF f
<1>7. item \in Item /\ item.route # "complete"
  BY Written
<1> HIDE DEF g, item, last, now
<1>8. Savable(g)
  BY <1>2, <1>6, SomeThing DEF Savable
<1>9. /\ game' = Kept(g) /\ game'.attempt = a
      /\ store' = [store EXCEPT ![game.level] = a]
  BY <1>1, <1>6, <1>8 DEF SaveAttempt, StoredBy
<1>10. /\ game' \in Game /\ a \in Saved /\ a.id = game.attempt.id
       /\ a.state = game.attempt.state /\ a.found = now
       /\ game'.level = game.level /\ game'.found = now
       /\ game'.timedOut = game.timedOut
       /\ game'.finishing = (game.finishing \/ last)
  BY <1>6, <1>8, <1>9, KeptFields
<1> HIDE DEF a
<1>11. SavedFits(a, game.level, handed, counted)
  BY <1>2, <1>3, <1>4, <1>10 DEF SavedFits, Earned, Pair
<1>12. StoreFits(store', handed', counted')
  <2>1. StoreFits(store, handed, counted)
    BY DEF Fits
  <2> QED BY <1>1, <1>2, <1>9, <1>10, <1>11, <2>1, OneSaved
<1>13. GameFits(game', store', handed', counted')
  <2>1. store'[game.level] = a
    BY <1>2, <1>9 DEF Stores
  <2> QED BY <1>1, <1>2, <1>9, <1>10, <1>11, <2>1, SomeThing
         DEF GameFits, SavedFits
<1>14. LoadsFit(loads', game', store', handed', counted')
  BY <1>1, NoLoadMine, NothingMine DEF Fits
<1>15. TimersFit(timers', game', handed')
  <2>1. \A j \in DOMAIN timers : ~timers[j].mine
    BY <1>4 DEF Fits, TimersFit, Feedback
  <2>2. CASE last /\ ~game.finishing
    <3> DEFINE timer == [mine |-> TRUE]
    <3>1. timer \in [mine : BOOLEAN]
      OBVIOUS
    <3>2. /\ DOMAIN timers' = DOMAIN timers \cup {Len(timers) + 1}
          /\ \A j \in DOMAIN timers : timers'[j] = timers[j]
      BY <1>1, <2>2, <3>1, LastItem
    <3>3. Feedback(game', handed')
      <4>1. ~game'.timedOut
        BY <1>10 DEF Playing
      <4>2. Pair(game'.attempt, game'.level) \notin handed'
        BY <1>1, <1>4, <1>9, <1>10 DEF Pair
      <4> QED BY <1>5, <1>9, <1>10, <2>2, <4>1, <4>2, SomeThing DEF Feedback
    <3> QED BY <2>1, <3>2, <3>3 DEF TimersFit, OneMine
  <2>3. CASE ~(last /\ ~game.finishing)
    BY <1>1, <2>1, <2>3, NothingMine
  <2> QED BY <2>2, <2>3
<1>16. FlushFits(flush', items', game', handed', counted')
  <2>1. flush # None => flush.level = None \/ ~flush.mine
    BY <1>4 DEF Fits, FlushFits
  <2> QED BY <2>1, <1>1, <1>7, Submitted DEF FlushFits
<1>17. ItemsFit(items', handed')
  <2>1. ItemsFit(items, handed)
    BY DEF Fits
  <2>2. /\ items' \in Seq(Item) /\ DOMAIN items' = DOMAIN items \cup {Len(items) + 1}
        /\ \A j \in DOMAIN items : items'[j] = items[j]
        /\ items'[Len(items) + 1] = item
    BY <1>1, <1>7, Submitted
  <2> QED BY <2>1, <2>2, <1>1, <1>7 DEF ItemsFit
<1> QED BY <1>12, <1>13, <1>14, <1>15, <1>16, <1>17 DEF Fits
LEMMA SaveFits ==
    ASSUME Held, game # None, SaveAttempt(game), Fits,
           UNCHANGED <<loads, timers, items, flush, handed, counted>>
    PROVE  Fits'
<1> USE Types
<1>0. game \in Game
  OBVIOUS
<1>1. game' = Kept(game) /\ store' = StoredBy(game)
  BY DEF SaveAttempt
<1>2. CASE ~Savable(game)
  <2>1. game' = game /\ store' = store
    BY <1>1, <1>2 DEF Kept, StoredBy
  <2> QED BY <2>1 DEF Fits
<1>3. CASE Savable(game)
  <2>1. /\ game.attempt \in Saved /\ game.attempt # None
        /\ game.level \in Levels
        /\ game' \in Game /\ game'.attempt \in Saved
        /\ game'.attempt.id = game.attempt.id
        /\ game'.attempt.state = game.attempt.state
        /\ game'.attempt.found = game.found
        /\ game'.level = game.level /\ game'.found = game.found
        /\ game'.finishing = game.finishing
        /\ game'.timedOut = game.timedOut
        /\ store' = [store EXCEPT ![game.level] = game'.attempt]
    BY <1>0, <1>1, <1>3, KeptFields, SomeThing DEF StoredBy
  <2>2. GameFits(game, store, handed, counted)
    BY DEF Fits
  <2>3. StoreFits(store', handed', counted')
    BY <1>1, TouchFits
  <2>4. GameFits(game', store', handed', counted')
    <3>1. store'[game.level] = game'.attempt
      BY <2>1 DEF Stores
    <3> QED BY <1>0, <2>1, <2>2, <3>1, SomeThing DEF GameFits, Earned, Pair
  <2>5. LoadsFit(loads', game', store', handed', counted')
    BY <2>1, NoLoadMine, NothingMine DEF Fits
  <2>6. TimersFit(timers', game', handed')
    BY <2>1, SomeThing DEF Fits, TimersFit, Feedback, Pair
  <2>7. FlushFits(flush', items', game', handed', counted')
    BY <2>1, SomeThing DEF Fits, FlushFits, Pair
  <2> QED BY <2>3, <2>4, <2>5, <2>6, <2>7 DEF Fits
<1> QED BY <1>2, <1>3

LEMMA TimeUpFits ==
    ASSUME Held, TimeUp, Fits
    PROVE  Fits'
<1>0. Playing
  BY DEF TimeUp
<1> USE Types, PlayedGame, <1>0
<1> DEFINE a == [game.attempt EXCEPT !.state = "timed_out"]
<1>1. /\ game' = [game EXCEPT !.timedOut = TRUE, !.finishing = TRUE,
                              !.attempt = a]
      /\ store' = [store EXCEPT ![game.level] = a]
      /\ ~game.finishing
      /\ UNCHANGED <<scene, loads, timers, items, flush, hints, made,
                     started, counted, handed, strayed>>
  BY DEF TimeUp
<1>2. /\ a \in Saved /\ a.id = game.attempt.id /\ a.state = "timed_out"
      /\ a.found = game.attempt.found
  BY DEF Saved, States
<1> HIDE DEF a
<1>3. /\ game' \in Game /\ game'.level = game.level /\ game'.attempt = a
      /\ game'.found = game.found
  BY <1>1, <1>2 DEF Game
<1>4. GameFits(game, store, handed, counted)
  BY DEF Fits
<1>5. SavedFits(a, game.level, handed, counted)
  <2>1. SavedFits(game.attempt, game.level, handed, counted)
    BY GameSaved DEF Fits
  <2> QED BY <1>2, <2>1 DEF SavedFits, Earned, Pair
<1>6. StoreFits(store', handed', counted')
  <2>1. StoreFits(store, handed, counted)
    BY DEF Fits
  <2> QED BY <1>1, <1>2, <1>5, <2>1, OneSaved
<1>7. GameFits(game', store', handed', counted')
  <2>1. store'[game.level] = a
    BY <1>1 DEF Stores
  <2> QED BY <1>1, <1>2, <1>3, <1>4, <1>5, <2>1, SomeThing
         DEF GameFits, SavedFits
<1>8. LoadsFit(loads', game', store', handed', counted')
  BY <1>1, NoLoadMine, NothingMine DEF Fits
<1>9. TimersFit(timers', game', handed')
  <2>1. \A j \in DOMAIN timers : ~timers[j].mine
    BY <1>1 DEF Fits, TimersFit, Feedback
  <2> QED BY <1>1, <2>1, NothingMine
<1>10. FlushFits(flush', items', game', handed', counted')
  BY <1>1, <1>2, <1>3, SomeThing DEF Fits, FlushFits, Pair
<1> QED BY <1>1, <1>6, <1>7, <1>8, <1>9, <1>10 DEF Fits

\* The result of a submit, in the game whose level was submitted with
\* everything found.
LEMMA FinishFits ==
    ASSUME Held, game # None, game.attempt # None, NEW result \in Results,
           NEW saved \in Stores, NEW h, NEW c,
           Finish(game.level, result, saved),
           StoreFits(saved, h, c), GameFits(game, saved, h, c),
           LoadsFit(loads, game, saved, h, c),
           Pair(game.attempt, game.level) \in h,
           result = "synced" => Pair(game.attempt, game.level) \in c,
           UNCHANGED loads
    PROVE  /\ game' \in Game /\ game'.attempt # None
           /\ game'.level = game.level /\ game'.found = game.found
           /\ game'.finishing = game.finishing
           /\ game'.timedOut = game.timedOut
           /\ game'.attempt.id = game.attempt.id
           /\ StoreFits(store', h, c) /\ GameFits(game', store', h, c)
           /\ LoadsFit(loads', game', store', h, c)
<1> USE Types
<1>1. /\ game \in Game /\ game.level \in Levels
      /\ SavedFits(game.attempt, game.level, h, c)
  <2>1. game \in Game
    OBVIOUS
  <2> QED BY <2>1, GameSaved
<1>2. /\ game' \in Game /\ game'.level = game.level
      /\ game'.found = game.found /\ game'.finishing = game.finishing
      /\ game'.timedOut = game.timedOut
      /\ game'.attempt \in Saved
      /\ game'.attempt.id = game.attempt.id
      /\ game'.attempt.found = game.attempt.found
      /\ game'.attempt.state = StateOf(result)
      /\ store' = [saved EXCEPT ![game.level] = game'.attempt]
  BY <1>1, Finished
<1>3. SavedFits(game'.attempt, game.level, h, c)
  BY <1>1, <1>2 DEF SavedFits, Earned, Pair, StateOf, Results
<1>4. StoreFits(store', h, c)
  BY <1>1, <1>2, <1>3, OneSaved
<1>5. GameFits(game', store', h, c)
  <2>1. store'[game.level] = game'.attempt
    BY <1>1, <1>2 DEF Stores
  <2> QED BY <1>1, <1>2, <1>3, <2>1, SomeThing DEF GameFits, SavedFits
<1>6. LoadsFit(loads', game', store', h, c)
  BY NoLoadMine, NothingMine
<1> QED BY <1>2, <1>4, <1>5, <1>6, SomeThing

\* The loop ends: f is the flush, saved the store and c what is counted by then.
LEMMA EndFlushFits ==
    ASSUME Held, NEW f \in Flush, NEW saved \in Stores, flush # None,
           f.level = flush.level, EndFlush(f, saved), ~strayed',
           UNCHANGED <<loads, timers, handed>>,
           StoreFits(saved, handed, counted'),
           LoadsFit(loads, game, saved, handed, counted'),
           GameFits(game, saved, handed, counted'),
           TimersFit(timers, game, handed),
           NEW q, FlushFits(f, q, game, handed, counted'),
           ItemsFit(items', handed)
    PROVE  Fits'
<1> USE Types
<1>1. /\ flush' = None
      /\ strayed' = (strayed \/ (f.level # None /\ ~f.mine))
  BY DEF EndFlush
<1>2. CASE f.level = None
  <2>1. store' = saved /\ game' = game
    BY <1>2 DEF EndFlush
  <2> QED BY <1>1, <2>1 DEF Fits, FlushFits
<1>3. CASE f.level # None
  <2>1. /\ Finish(f.level, f.outcome, saved) /\ game # None
        /\ f.outcome \in Results /\ f.mine
    BY <1>1, <1>3 DEF EndFlush, Held, Together, Flush, Results
  <2>2. /\ game.attempt # None /\ game.level = f.level
        /\ Pair(game.attempt, game.level) \in handed
        /\ f.outcome = "synced" => Pair(game.attempt, game.level) \in counted'
    BY <1>3, <2>1, SomeThing DEF FlushFits
  <2>3. /\ StoreFits(store', handed, counted')
        /\ GameFits(game', store', handed, counted')
        /\ LoadsFit(loads', game', store', handed, counted')
    BY <2>1, <2>2, FinishFits
  <2>4. \A j \in DOMAIN timers : ~timers[j].mine
    BY <2>2 DEF TimersFit, Feedback
  <2>5. TimersFit(timers', game', handed')
    BY <2>4, NothingMine
  <2> QED BY <1>1, <2>3, <2>5 DEF Fits, FlushFits
<1> QED BY <1>2, <1>3
\* What the queue notes of its first item is earned.
LEMMA NotedFits ==
    ASSUME Held, flush # None, NEW outcome \in {"synced", "rejected"}, NEW c,
           StoreFits(store, handed, c), ItemsFit(items, handed),
           (outcome = "synced" /\ Head(items).route = "complete") =>
                <<Head(items).attempt, Head(items).level>> \in c
    PROVE  LET saved == Noted(Head(items), outcome)
           IN  StoreFits(saved, handed, c) /\ SameAttempts(store, saved)
<1> USE Types, HeadItem
<1> DEFINE item == Head(items)
           saved == Noted(Head(items), outcome)
<1>1. item.level \in Levels /\ item.attempt \in Ids /\ outcome \in States
  BY DEF States
<1>2. CASE item.route # "complete"
  BY <1>2 DEF Noted, SameAttempts
<1>3. CASE item.route = "complete"
  <2>1. saved = SetState(item.level, outcome, item.attempt)
    BY <1>3 DEF Noted
  <2>2. \A k \in Levels :
             LET t == SetState(item.level, outcome, item.attempt)[k]
             IN  /\ t = None <=> store[k] = None
                 /\ store[k] # None => /\ t.id = store[k].id
                                       /\ t.found = store[k].found
                 /\ \/ t = store[k]
                    \/ k = item.level /\ t.id = item.attempt /\ t.state = outcome
    BY <1>1, StateSet
  <2>3. <<item.attempt, item.level>> \in handed
    <3>1. 1 \in DOMAIN items /\ item = items[1]
      BY LenProperties
    <3> QED BY <1>3, <3>1 DEF ItemsFit
  <2> HIDE DEF item, saved
  <2>4. ASSUME NEW k \in Levels, saved[k] # None
        PROVE  SavedFits(saved[k], k, handed, c)
    <3>1. store[k] # None /\ SavedFits(store[k], k, handed, c)
      BY <2>1, <2>2, <2>4 DEF StoreFits
    <3>2. saved[k].id = store[k].id /\ saved[k].found = store[k].found
      BY <2>1, <2>2, <3>1
    <3>3. CASE saved[k] = store[k]
      BY <3>1, <3>3
    <3>4. CASE /\ k = item.level /\ saved[k].id = item.attempt
               /\ saved[k].state = outcome
      <4>1. Earned(saved[k], k, handed, c)
        BY <1>3, <2>3, <3>4 DEF Earned, Pair, item
      <4> QED BY <3>1, <3>2, <4>1 DEF SavedFits, Pair
    <3> QED BY <2>1, <2>2, <3>3, <3>4
  <2>5. StoreFits(saved, handed, c)
    BY <2>4 DEF StoreFits
  <2>6. SameAttempts(store, saved)
    BY <2>1, <2>2 DEF SameAttempts
  <2> QED BY <2>5, <2>6 DEF saved
<1> QED BY <1>2, <1>3

LEMMA ResolveFits ==
    ASSUME Held, flush # None, NEW outcome \in {"synced", "rejected"},
           Resolve(outcome), Fits, ~strayed',
           UNCHANGED <<loads, timers, handed>>,
           counted \subseteq counted',
           (outcome = "synced" /\ Head(items).route = "complete") =>
                <<Head(items).attempt, Head(items).level>> \in counted'
    PROVE  Fits'
<1> USE Types, HeadItem
<1> DEFINE f == [flush EXCEPT !.watch = IF @ = 0 THEN 0 ELSE @ - 1,
                              !.outcome = IF flush.watch = 1 THEN outcome ELSE @]
           saved == Noted(Head(items), outcome)
<1>1. /\ items' = Tail(items)
      /\ IF Len(items) = 1
         THEN EndFlush(f, saved)
         ELSE /\ flush' = f
              /\ store' = saved
              /\ UNCHANGED <<game, strayed>>
  BY DEF Resolve
<1>2. flush \in Flush
  OBVIOUS
<1>3. /\ f \in Flush /\ f.level = flush.level /\ f.mine = flush.mine
      /\ f.watch = (IF flush.watch = 0 THEN 0 ELSE flush.watch - 1)
      /\ f.outcome = (IF flush.watch = 1 THEN outcome ELSE flush.outcome)
  BY <1>2, FlushAfter
<1>4. /\ StoreFits(store, handed, counted')
      /\ LoadsFit(loads, game, store, handed, counted')
      /\ GameFits(game, store, handed, counted')
      /\ FlushFits(flush, items, game, handed, counted')
  BY CountedMore DEF Fits
<1>5. saved \in Stores
  BY NotedStore
<1>6. StoreFits(saved, handed, counted') /\ SameAttempts(store, saved)
  BY <1>4, NotedFits DEF Fits
<1> HIDE DEF f, saved
<1>7. /\ LoadsFit(loads, game, saved, handed, counted')
      /\ GameFits(game, saved, handed, counted')
  BY <1>4, <1>6, SameStore
<1>8. FlushFits(f, items', game, handed, counted')
  <2> SUFFICES ASSUME f.level # None, f.mine
               PROVE  /\ game.attempt # None /\ game.level = f.level
                      /\ Pair(game.attempt, game.level) \in handed
                      /\ f.outcome = "synced" =>
                            Pair(game.attempt, game.level) \in counted'
                      /\ f.watch # 0 =>
                            /\ f.watch <= Len(items')
                            /\ items'[f.watch].route = "complete"
                            /\ items'[f.watch].attempt = game.attempt.id
                            /\ items'[f.watch].level = game.level
    BY DEF FlushFits
  <2>1. flush.watch \in Nat /\ Len(items') = Len(items) - 1
    BY <1>1, <1>2, GameAssumption DEF Flush
  <2>2. /\ game.attempt # None /\ game.level = flush.level
        /\ Pair(game.attempt, game.level) \in handed
        /\ flush.outcome = "synced" =>
                Pair(game.attempt, game.level) \in counted'
        /\ flush.watch # 0 =>
                /\ flush.watch <= Len(items)
                /\ items[flush.watch].route = "complete"
                /\ items[flush.watch].attempt = game.attempt.id
                /\ items[flush.watch].level = game.level
    BY <1>3, <1>4 DEF FlushFits
  <2>3. CASE flush.watch = 0
    BY <1>3, <2>2, <2>3
  <2>4. CASE flush.watch = 1
    <3>1. f.outcome = outcome /\ f.watch = 0
      BY <1>3, <2>4
    <3> QED BY <1>3, <2>2, <2>4, <3>1 DEF Pair
  <2>5. CASE flush.watch > 1
    <3>1. /\ f.watch = flush.watch - 1 /\ f.outcome = flush.outcome
          /\ f.watch \in 1 .. Len(items) - 1
      BY <1>3, <2>1, <2>2, <2>5
    <3>2. items'[f.watch] = items[flush.watch]
      BY <1>1, <2>1, <3>1
    <3> QED BY <1>3, <2>1, <2>2, <2>5, <3>1, <3>2
  <2> QED BY <2>1, <2>3, <2>4, <2>5
<1>9. ItemsFit(items', handed)
  <2>1. DOMAIN items' = 1 .. Len(items) - 1 /\ DOMAIN items = 1 .. Len(items)
    BY <1>1, LenProperties
  <2>2. \A i \in DOMAIN items' : i + 1 \in DOMAIN items /\ items'[i] = items[i + 1]
    BY <1>1, <2>1
  <2> QED BY <2>2 DEF Fits, ItemsFit
<1>10. TimersFit(timers, game, handed)
  BY DEF Fits
<1>11. CASE Len(items) = 1
  <2>1. EndFlush(f, saved)
    BY <1>1, <1>11
  <2> QED BY <1>3, <1>5, <1>6, <1>7, <1>8, <1>9, <1>10, <2>1, EndFlushFits
<1>12. CASE Len(items) # 1
  <2>1. flush' = f /\ store' = saved /\ game' = game
    BY <1>1, <1>12
  <2> QED BY <1>6, <1>7, <1>8, <1>9, <1>10, <2>1 DEF Fits
<1> QED BY <1>11, <1>12

LEMMA AcceptedFits ==
    ASSUME Held, Accepted, Fits, ~strayed'
    PROVE  Fits'
<1>1. /\ flush # None /\ Serve(Head(items)) /\ Resolve("synced")
      /\ UNCHANGED <<scene, loads, timers, hints, made, handed>>
  BY DEF Accepted
<1>2. counted \subseteq counted'
  BY <1>1, ServedPairs
<1>3. Head(items).route = "complete" =>
        <<Head(items).attempt, Head(items).level>> \in counted'
  BY <1>1 DEF Serve
<1> QED BY <1>1, <1>2, <1>3, ResolveFits

LEMMA FailedFits ==
    ASSUME Held, Failed, Fits, ~strayed'
    PROVE  Fits'
<1> USE Types
<1>1. /\ flush # None /\ EndFlush(flush, store)
      /\ Serve(Head(items)) \/ UNCHANGED <<started, counted>>
      /\ UNCHANGED <<scene, loads, timers, items, hints, made, handed>>
  BY DEF Failed
<1>2. counted \subseteq counted'
  BY <1>1, ServedPairs
<1>3. /\ StoreFits(store, handed, counted')
      /\ LoadsFit(loads, game, store, handed, counted')
      /\ GameFits(game, store, handed, counted')
      /\ FlushFits(flush, items, game, handed, counted')
      /\ TimersFit(timers, game, handed)
      /\ ItemsFit(items', handed)
  BY <1>1, <1>2, CountedMore DEF Fits
<1>4. flush \in Flush
  BY <1>1
<1> QED BY <1>1, <1>3, <1>4, EndFlushFits

\* The timer of the game on the screen hands it in, once.
LEMMA FinishLevelIsOnce ==
    ASSUME Held, FinishLevel, Fits, ~strayed'
    PROVE  /\ game \in Game /\ Savable(game) /\ Feedback(game, handed)
           /\ game.level \in Levels /\ game.attempt \in Saved
           /\ \A i \in DOMAIN timers' : ~timers'[i].mine
           /\ Pair(game.attempt, game.level) \notin handed
           /\ handed' = handed \cup {Pair(game.attempt, game.level)}
           /\ items' = Append(items, Write("complete", game.level,
                                           game.attempt.id, game.found))
<1> USE Types
<1>1. /\ timers # <<>> /\ timers' = Tail(timers)
      /\ strayed' = (strayed \/ ~Head(timers).mine)
  BY DEF FinishLevel
<1>2. /\ Head(timers) = timers[1] /\ Len(timers) \in Nat /\ Len(timers) >= 1
      /\ DOMAIN timers = 1 .. Len(timers)
      /\ DOMAIN timers' = 1 .. Len(timers) - 1
      /\ \A i \in 1 .. Len(timers) - 1 : timers'[i] = timers[i + 1]
  <2>1. /\ Head(timers) \in [mine : BOOLEAN]
        /\ timers' \in Seq([mine : BOOLEAN]) /\ Len(timers') = Len(timers) - 1
        /\ \A i \in 1 .. Len(timers) - 1 : timers'[i] = timers[i + 1]
    BY <1>1, HeadTailProperties
  <2>2. Len(timers) \in Nat \ {0}
    BY <1>1, EmptySeq
  <2> QED BY <2>1, <2>2, LenProperties
<1>3. timers[1].mine /\ 1 \in DOMAIN timers
  <2>1. Head(timers).mine
    BY <1>1
  <2>2. 1 \in 1 .. Len(timers)
    BY <1>2
  <2> QED BY <1>2, <2>1, <2>2
<1>4. Feedback(game, handed) /\ OneMine(timers)
  BY <1>3 DEF Fits, TimersFit
<1>5. \A i \in DOMAIN timers' : ~timers'[i].mine
  <2> SUFFICES ASSUME NEW i \in DOMAIN timers', timers'[i].mine
               PROVE  FALSE
    OBVIOUS
  <2>1. i + 1 \in DOMAIN timers /\ timers[i + 1].mine /\ i + 1 # 1
    BY <1>2
  <2> QED BY <1>3, <1>4, <2>1 DEF OneMine
<1>6. game \in Game /\ game # None
  BY <1>1 DEF Held, Together
<1>7. game.level \in Levels /\ game.attempt \in Saved
  BY <1>4, <1>6, GameSaved DEF Fits, Feedback
<1>8. Savable(game)
  BY <1>6, <1>7, SomeThing DEF Savable
<1> QED BY <1>4, <1>5, <1>6, <1>7, <1>8 DEF FinishLevel, Feedback, Pair

LEMMA FinishLevelFits ==
    ASSUME Held, FinishLevel, Fits, ~strayed'
    PROVE  Fits'
<1> USE Types
<1> DEFINE item == Write("complete", game.level, game.attempt.id, game.found)
           pair == Pair(game.attempt, game.level)
<1>1. /\ game \in Game /\ Savable(game) /\ Feedback(game, handed)
      /\ game.level \in Levels /\ game.attempt \in Saved
      /\ \A i \in DOMAIN timers' : ~timers'[i].mine
      /\ pair \notin handed
      /\ handed' = handed \cup {pair}
      /\ items' = Append(items, item)
  BY FinishLevelIsOnce
<1>2. /\ game # None /\ game.attempt # None /\ game.level # None
      /\ game.found = DiffsOf[game.level]
      /\ game.found \in SUBSET Diffs /\ game.attempt.id \in Ids
  BY <1>1, SomeThing DEF Feedback, Savable, Game, Saved
<1>3. /\ Room
      /\ IF flush = None
         THEN /\ flush' = Watching(Len(items) + 1, game.level)
              /\ UNCHANGED <<game, store>>
         ELSE /\ Finish(game.level, "queued", store)
              /\ UNCHANGED flush
      /\ UNCHANGED <<scene, loads, hints, made, started, counted>>
  BY <1>1 DEF FinishLevel
<1>4. /\ item \in Item /\ item.route = "complete"
      /\ item.attempt = game.attempt.id /\ item.level = game.level
  BY <1>1, <1>2, Written
<1>5. pair = <<item.attempt, item.level>>
  BY <1>4 DEF Pair
<1>6. /\ GameFits(game, store, handed, counted)
      /\ LoadsFit(loads, game, store, handed, counted)
      /\ StoreFits(store, handed, counted)
      /\ FlushFits(flush, items, game, handed, counted)
      /\ ItemsFit(items, handed)
  BY DEF Fits
<1> HIDE DEF item, pair
<1>7. StoreFits(store, handed', counted)
  <2> SUFFICES ASSUME NEW l \in Levels, store[l] # None
               PROVE  SavedFits(store[l], l, handed', counted)
    BY DEF StoreFits
  <2>1. SavedFits(store[l], l, handed, counted)
    BY <1>6 DEF StoreFits
  <2>2. CASE l = game.level
    <3>1. store[l].found = DiffsOf[l]
      BY <1>2, <1>6, <2>2 DEF GameFits
    <3> QED BY <1>1, <2>1, <3>1 DEF SavedFits, Earned
  <2>3. CASE l # game.level
    <3>1. Pair(store[l], l) # pair
      BY <2>3 DEF Pair, pair
    <3> QED BY <1>1, <2>1, <3>1 DEF SavedFits, Earned
  <2> QED BY <2>2, <2>3
<1>8. GameFits(game, store, handed', counted)
  BY <1>1, <1>6 DEF GameFits, Earned
<1>9. LoadsFit(loads, game, store, handed', counted)
  BY <1>2, <1>6, NoLoadMine, NothingMine
<1>10. TimersFit(timers', game', handed')
  BY <1>1, NothingMine
<1>11. /\ items' \in Seq(Item) /\ DOMAIN items' = DOMAIN items \cup {Len(items) + 1}
       /\ Len(items') = Len(items) + 1
       /\ \A i \in DOMAIN items : items'[i] = items[i]
       /\ items'[Len(items) + 1] = item
  BY <1>1, <1>4, LastItem
<1>12. ItemsFit(items, handed')
  BY <1>1, <1>6 DEF ItemsFit
<1>13. ItemsFit(items', handed')
  BY <1>1, <1>5, <1>11, <1>12 DEF ItemsFit
<1>14. CASE flush = None
  <2>1. /\ flush' = Watching(Len(items) + 1, game.level)
        /\ UNCHANGED <<game, store>>
    BY <1>3, <1>14
  <2>2. /\ flush'.watch = Len(items) + 1 /\ flush'.level = game.level
        /\ flush'.outcome = "queued"
    BY <2>1 DEF Watching
  <2>3. FlushFits(flush', items', game', handed', counted')
    <3>1. Len(items') = Len(items) + 1 /\ Len(items) \in Nat
      BY <1>11, LenProperties
    <3> QED BY <1>1, <1>2, <1>4, <1>11, <2>1, <2>2, <3>1 DEF FlushFits, pair
  <2> QED BY <1>3, <1>7, <1>8, <1>9, <1>10, <1>13, <2>1, <2>3 DEF Fits
<1>15. CASE flush # None
  <2>1. Finish(game.level, "queued", store) /\ flush' = flush
    BY <1>3, <1>15
  <2>2. pair \in handed'
    BY <1>1
  <2>3. /\ game'.attempt # None /\ game'.level = game.level
        /\ game'.attempt.id = game.attempt.id
        /\ StoreFits(store', handed', counted)
        /\ GameFits(game', store', handed', counted)
        /\ LoadsFit(loads', game', store', handed', counted)
    BY <1>2, <1>3, <1>7, <1>8, <1>9, <2>1, <2>2, FinishFits DEF Results, pair
  <2>4. flush # None => flush.level = None \/ ~flush.mine
    BY <1>1, <1>6 DEF FlushFits, pair
  <2>5. FlushFits(flush', items', game', handed', counted')
    BY <2>1, <2>4 DEF FlushFits
  <2> QED BY <1>3, <1>10, <1>13, <2>3, <2>5 DEF Fits
<1> QED BY <1>14, <1>15
\* What has strayed once stays so.
LEMMA OnceStrayed ==
    ASSUME [Next]_vars, strayed
    PROVE  strayed'
  BY DEF Next, vars, OpenLevel, NextLevel, Replay, LoadGame, LevelArrives,
         ImageArrives, LoadFails, Press, UseHint, MarkFound, SaveView,
         TimeUp, FinishLevel, Leave, Crash, Accepted, Rejected, Failed,
         Resolve, EndFlush, FlushQueue

LEMMA StraightSteps ==
    ASSUME Held, Held', Straight, [Next]_vars
    PROVE  Straight'
<1> SUFFICES ASSUME ~strayed'
             PROVE  Fits'
  BY DEF Straight
<1> USE Types
<1>0. Fits
  BY OnceStrayed DEF Straight
<1>1. ASSUME NEW l \in Levels, OpenLevel(l)
      PROVE  Fits'
  BY <1>0, <1>1, LoadGameFits DEF OpenLevel, Fits
<1>2. ASSUME NEW l \in Levels, NextLevel(l)
      PROVE  Fits'
  <2>1. game # None /\ store' = StoredBy(game)
    BY <1>2 DEF NextLevel, Held, Together
  <2>2. StoreFits(store', handed, counted)
    BY <1>0, <2>1, TouchFits
  <2> QED BY <1>0, <1>2, <2>2, LoadGameFits DEF NextLevel
<1>3. CASE Replay
  <2>1. game # None /\ store' = StoredBy(game) /\ game \in Game
    BY <1>3 DEF Replay, Held, Together
  <2>2. StoreFits(store', handed, counted)
    BY <1>0, <2>1, TouchFits
  <2>3. game.level \in Levels
    BY <1>3, <2>1 DEF Replay, Game
  <2> QED BY <1>0, <1>3, <2>2, <2>3, LoadGameFits DEF Replay
<1>4. ASSUME NEW i \in DOMAIN loads,
             LevelArrives(i) \/ ImageArrives(i) \/ LoadFails(i)
      PROVE  Fits'
  BY <1>0, <1>4, LevelArrivesFits, ImageArrivesFits, LoadFailsFits
<1>5. ASSUME NEW d \in Diffs, Press(d)
      PROVE  Fits'
  BY <1>0, <1>5, MarkFoundFits DEF Press
<1>6. CASE UseHint
  BY <1>0, <1>6, MarkFoundFits DEF UseHint
<1>7. CASE SaveView
  BY <1>0, <1>7, SaveFits DEF SaveView
<1>8. CASE Leave
  <2>1. game # None
    BY <1>8 DEF Leave, Held, Together
  <2> QED BY <1>0, <1>8, <2>1, SaveFits DEF Leave
<1>9. CASE Crash
  <2>1. /\ game' = None /\ loads' = <<>> /\ timers' = <<>> /\ flush' = None
        /\ UNCHANGED <<store, items, counted, handed>>
    BY <1>9 DEF Crash
  <2>2. /\ \A i \in DOMAIN loads' : ~loads'[i].mine
        /\ \A i \in DOMAIN timers' : ~timers'[i].mine
    BY <2>1
  <2>3. LoadsFit(loads', game', store', handed', counted')
        /\ TimersFit(timers', game', handed')
    BY <2>2, NothingMine
  <2> QED BY <1>0, <2>1, <2>3 DEF Fits, GameFits, FlushFits
<1>10. CASE Rejected
  <2>1. /\ flush # None /\ Resolve("rejected")
        /\ UNCHANGED <<scene, loads, timers, hints, made, started, counted,
                       handed>>
    BY <1>10 DEF Rejected
  <2> QED BY <1>0, <2>1, ResolveFits
<1>11. CASE FlushQueue
  <2>1. /\ flush' = Watching(0, None)
        /\ UNCHANGED <<game, loads, timers, store, items, counted, handed>>
    BY <1>11 DEF FlushQueue
  <2>2. flush'.level = None
    BY <2>1, NoWatch
  <2> QED BY <1>0, <2>1, <2>2 DEF Fits, FlushFits
<1>12. CASE UNCHANGED vars
  BY <1>0, <1>12 DEF vars, Fits
<1> QED BY <1>0, <1>1, <1>2, <1>3, <1>4, <1>5, <1>6, <1>7, <1>8, <1>9, <1>10,
           <1>11, <1>12, TimeUpFits, FinishLevelFits, AcceptedFits, FailedFits
        DEF Next

LEMMA AlwaysStraight == Spec => []Straight
<1>1. Init => Straight
  <2> SUFFICES ASSUME Init
               PROVE  Fits
    BY DEF Straight
  <2>1. StoreFits(store, handed, counted)
    BY DEF Init, StoreFits
  <2>2. /\ LoadsFit(loads, game, store, handed, counted)
        /\ TimersFit(timers, game, handed)
    BY NothingMine DEF Init
  <2>3. ItemsFit(items, handed)
    BY DEF Init, ItemsFit
  <2> QED BY <2>1, <2>2, <2>3 DEF Init, Fits, GameFits, FlushFits
<1>2. Held /\ Held' /\ Straight /\ [Next]_vars => Straight'
  BY StraightSteps
<1> QED BY <1>1, <1>2, AlwaysHeld, PTL DEF Spec

\* As long as nothing acts on a game it does not belong to, an attempt is saved
\* as queued, synced or rejected only when its own complete was submitted, and
\* as synced only when the server has counted it.
THEOREM StatesAreEarned == Spec => []EarnedUnlessStrayed
<1>1. Straight => EarnedUnlessStrayed
  BY DEF Straight, Fits, StoreFits, SavedFits, Earned, Pair,
         EarnedUnlessStrayed, StateIsEarned
<1> QED BY <1>1, AlwaysStraight, PTL

\* Until then the game on the screen is the attempt that is saved for its
\* level, and shows what was found of it and nothing else.
THEOREM ScreenShowsSaved == Spec => []GameIsSaved
<1>1. Straight => GameIsSaved
  BY DEF Straight, Fits, GameFits, GameIsSaved
<1> QED BY <1>1, AlwaysStraight, PTL

\* The writes a step puts into the queue: the last one, if any.
LEMMA WritesBehind ==
    ASSUME Held, Held', [Next]_vars
    PROVE  \/ Len(items') <= Len(items)
           \/ /\ Len(items') = Len(items) + 1
              /\ \/ items'[Len(items) + 1].route # "complete"
                 \/ FinishLevel
<1> USE Types
<1>0. Len(items) \in Nat
  BY LenProperties
<1>1. ASSUME NEW item \in Item, Submit(item), item.route # "complete"
      PROVE  /\ Len(items') = Len(items) + 1
             /\ items'[Len(items) + 1].route # "complete"
  BY <1>1, Submitted
<1>2. ASSUME NEW i \in DOMAIN loads, ImageArrives(i)
      PROVE  /\ Len(items') = Len(items) + 1
             /\ items'[Len(items) + 1].route # "complete"
  <2> DEFINE load == loads[i]
             item == Write("start", load.want, load.attempt.id, {})
  <2>1. load \in Load /\ load.want \in Levels
    BY Element, LoadFields
  <2>2. load.attempt \in Saved
    BY <1>2, <2>1, LoadFields DEF ImageArrives, Held, Together, ImagesKnown
  <2>3. item \in Item /\ item.route # "complete"
    <3>1. load.attempt.id \in Ids
      BY <2>2 DEF Saved
    <3> QED BY <2>1, <3>1, Written
  <2>4. Submit(item)
    BY <1>2 DEF ImageArrives
  <2> HIDE DEF item
  <2> QED BY <1>1, <2>3, <2>4
<1>3. ASSUME Playing, NEW d, MarkFound(d)
      PROVE  /\ Len(items') = Len(items) + 1
             /\ items'[Len(items) + 1].route # "complete"
  <2> DEFINE item == Write("progress", game.level, game.attempt.id, {})
  <2>1. item \in Item /\ item.route # "complete"
    BY <1>3, PlayedGame, Written
  <2>2. Submit(item)
    BY <1>3 DEF MarkFound
  <2> HIDE DEF item
  <2> QED BY <1>1, <2>1, <2>2
<1>4. ASSUME flush # None, NEW outcome, Resolve(outcome)
      PROVE  Len(items') <= Len(items)
  BY <1>0, <1>4, HeadItem DEF Resolve
<1>5. CASE FinishLevel
  <2>1. items' = items \/ \E e : items' = Append(items, e)
    BY <1>5 DEF FinishLevel
  <2>2. Len(items') = Len(items) \/ Len(items') = Len(items) + 1
    BY <2>1
  <2> QED BY <1>0, <1>5, <2>2
<1>6. CASE UNCHANGED items
  BY <1>0, <1>6
<1> QED BY <1>2, <1>3, <1>4, <1>5, <1>6
        DEF Next, vars, OpenLevel, NextLevel, Replay, LoadGame, LevelArrives,
            LoadFails, Press, UseHint, SaveView, TimeUp, Leave, Crash,
            Accepted, Rejected, Failed, FlushQueue

\* A finished level is reported once per attempt, with everything found, and
\* never for a game that is timed out.
THEOREM ReportsOnce == Spec => ReportedOnce
<1>1. ASSUME Held, Held', Straight, [Next]_vars
      PROVE  \A i \in Len(items) + 1 .. Len(items') :
                (items'[i].route = "complete" /\ ~strayed') =>
                    LET pair == <<items'[i].attempt, items'[i].level>>
                    IN  pair \notin handed /\ pair \in handed' /\ ~game.timedOut
  <2> USE Types, <1>1
  <2> SUFFICES ASSUME NEW i \in Len(items) + 1 .. Len(items'),
                      items'[i].route = "complete", ~strayed'
               PROVE  LET pair == <<items'[i].attempt, items'[i].level>>
                      IN  /\ pair \notin handed /\ pair \in handed'
                          /\ ~game.timedOut
    OBVIOUS
  <2>1. Len(items) \in Nat /\ Len(items') \in Nat
    BY LenProperties
  <2>2. FinishLevel /\ i = Len(items) + 1
    BY <2>1, WritesBehind
  <2>3. Fits
    BY <2>2 DEF FinishLevel, Straight
  <2> DEFINE item == Write("complete", game.level, game.attempt.id, game.found)
  <2>4. /\ game \in Game /\ Feedback(game, handed) /\ game.level \in Levels
        /\ game.attempt \in Saved
        /\ Pair(game.attempt, game.level) \notin handed
        /\ handed' = handed \cup {Pair(game.attempt, game.level)}
        /\ items' = Append(items, item)
    BY <2>2, <2>3, FinishLevelIsOnce
  <2>5. item \in Item /\ item.attempt = game.attempt.id /\ item.level = game.level
    BY <2>4, Written DEF Game, Saved
  <2> HIDE DEF item
  <2>6. items'[i] = item
    BY <2>2, <2>4, <2>5, LastItem
  <2> QED BY <2>4, <2>5, <2>6 DEF Pair, Feedback
<1>2. Held /\ Held' /\ Straight /\ [Next]_vars =>
        [\A i \in Len(items) + 1 .. Len(items') :
            (items'[i].route = "complete" /\ ~strayed') =>
                LET pair == <<items'[i].attempt, items'[i].level>>
                IN  pair \notin handed /\ pair \in handed' /\ ~game.timedOut]_vars
  BY <1>1
<1> QED BY <1>2, AlwaysHeld, AlwaysStraight, PTL DEF Spec, ReportedOnce
\* What one store has found of an attempt, the next one has as well.
KeepsFound(st, tt) ==
    \A l \in Levels :
        (st[l] # None /\ tt[l].id = st[l].id) => st[l].found \subseteq tt[l].found

LEMMA OneKeeps ==
    ASSUME NEW st, NEW tt \in Stores, SameAttempts(st, tt), NEW l \in Levels,
           NEW a, (st[l] # None /\ a.id = st[l].id) => st[l].found \subseteq a.found
    PROVE  KeepsFound(st, [tt EXCEPT ![l] = a])
<1> SUFFICES ASSUME NEW k \in Levels, st[k] # None,
                    [tt EXCEPT ![l] = a][k].id = st[k].id
             PROVE  st[k].found \subseteq [tt EXCEPT ![l] = a][k].found
  BY DEF KeepsFound
<1>1. CASE k = l
  BY <1>1 DEF Stores
<1>2. CASE k # l
  BY <1>2 DEF Stores, SameAttempts
<1> QED BY <1>1, <1>2

LEMMA TouchKeeps ==
    ASSUME Held, Fits, game # None
    PROVE  KeepsFound(store, StoredBy(game))
<1> USE Types
<1>1. game \in Game /\ GameFits(game, store, handed, counted)
  BY DEF Fits
<1>2. CASE Savable(game)
  <2> DEFINE a == Kept(game).attempt
  <2>1. /\ game.level \in Levels /\ a.found = game.found
        /\ store[game.level].found = game.found
        /\ StoredBy(game) = [store EXCEPT ![game.level] = a]
    BY <1>1, <1>2, KeptFields DEF StoredBy, GameFits, Savable
  <2>2. SameAttempts(store, store)
    BY DEF SameAttempts
  <2> HIDE DEF a
  <2>3. KeepsFound(store, [store EXCEPT ![game.level] = a])
    BY <2>1, <2>2, OneKeeps
  <2> QED BY <2>1, <2>3
<1>3. CASE ~Savable(game)
  BY <1>3 DEF StoredBy, KeepsFound
<1> QED BY <1>2, <1>3

LEMMA LevelArrivesKeeps ==
    ASSUME Held, NEW i \in DOMAIN loads, LevelArrives(i)
    PROVE  KeepsFound(store, store')
<1> USE Types
<1> DEFINE load == loads[i]
           a == Attempt(load)
<1>1. load \in Load /\ load.want \in Levels
  BY Element, LoadFields
<1>2. store' = [store EXCEPT ![load.want] = a]
      /\ (a.id > made => made + 1 <= MaxAttempts)
  BY DEF LevelArrives
<1>3. \/ store[load.want] # None /\ a = store[load.want]
      \/ a.id = made + 1
  BY <1>1, <1>2, AttemptBegun
<1> HIDE DEF a, load
<1>4. (store[load.want] # None /\ a.id = store[load.want].id) =>
            store[load.want].found \subseteq a.found
  <2>1. store[load.want] # None => store[load.want].id <= made
    BY <1>1 DEF Held, Young, YoungStore
  <2>2. made \in Nat
    BY GameAssumption
  <2>3. store[load.want] # None => store[load.want].id # made + 1
    BY <2>1, <2>2
  <2> QED BY <1>3, <2>3
<1>5. SameAttempts(store, store)
  BY DEF SameAttempts
<1> QED BY <1>1, <1>2, <1>4, <1>5, OneKeeps

LEMMA MarkFoundKeeps ==
    ASSUME Held, Playing, NEW d \in Diffs, MarkFound(d), Fits
    PROVE  KeepsFound(store, store')
<1> USE Types, PlayedGame
<1> DEFINE now == game.found \cup {d}
           last == Cardinality(now) = Cardinality(DiffsOf[game.level])
           f == game.finishing \/ last
           g == [game EXCEPT !.found = now, !.finishing = @ \/ last]
<1>1. SaveAttempt(g)
  BY DEF MarkFound
<1>2. /\ g \in Game /\ g.level = game.level /\ g.attempt = game.attempt
      /\ g.found = now
  <2>1. f \in BOOLEAN /\ now \in SUBSET Diffs
    BY DEF Game
  <2>2. g = [game EXCEPT !.found = now, !.finishing = f]
    BY DEF Game
  <2> HIDE DEF f, now
  <2>3. LET z == [game EXCEPT !.found = now, !.finishing = f]
        IN  /\ z \in Game /\ z.level = game.level
            /\ z.attempt = game.attempt /\ z.found = now
    BY <2>1 DEF Game
  <2> QED BY <2>2, <2>3
<1> HIDE DEF g
<1>3. Savable(g)
  BY <1>2, SomeThing DEF Savable
<1>4. /\ store' = [store EXCEPT ![game.level] = Kept(g).attempt]
      /\ Kept(g).attempt.found = now
  BY <1>1, <1>2, <1>3, KeptFields DEF SaveAttempt, StoredBy
<1>5. store[game.level].found = game.found
  BY DEF Fits, GameFits
<1>6. SameAttempts(store, store)
  BY DEF SameAttempts
<1> QED BY <1>4, <1>5, <1>6, OneKeeps

LEMMA TimeUpKeeps ==
    ASSUME Held, TimeUp, Fits
    PROVE  KeepsFound(store, store')
<1>0. Playing
  BY DEF TimeUp
<1> USE Types, PlayedGame, <1>0
<1> DEFINE a == [game.attempt EXCEPT !.state = "timed_out"]
<1>1. store' = [store EXCEPT ![game.level] = a]
  BY DEF TimeUp
<1>2. a.found = game.attempt.found
  BY DEF Saved
<1> HIDE DEF a
<1>3. store[game.level].found = game.attempt.found
  BY DEF Fits, GameFits
<1>4. SameAttempts(store, store)
  BY DEF SameAttempts
<1> QED BY <1>1, <1>2, <1>3, <1>4, OneKeeps

LEMMA FinishKeeps ==
    ASSUME Held, game # None, game.attempt # None, NEW result \in Results,
           NEW saved \in Stores, SameAttempts(store, saved),
           Finish(game.level, result, saved), Fits
    PROVE  KeepsFound(store, store')
<1> USE Types
<1>1. game \in Game
  OBVIOUS
<1>2. GameFits(game, store, handed, counted)
  BY DEF Fits
<1>3. game.level \in Levels /\ store[game.level].found = game.attempt.found
  BY <1>1, <1>2 DEF GameFits, Game
<1>4. /\ game'.attempt.found = game.attempt.found
      /\ store' = [saved EXCEPT ![game.level] = game'.attempt]
  BY <1>1, <1>3, Finished
<1> QED BY <1>3, <1>4, OneKeeps

LEMMA EndFlushKeeps ==
    ASSUME Held, NEW f \in Flush, NEW saved \in Stores, flush # None,
           SameAttempts(store, saved), f.level = flush.level,
           f.mine = flush.mine, EndFlush(f, saved), ~strayed', Fits
    PROVE  KeepsFound(store, store')
<1>1. CASE f.level = None
  <2>1. store' = saved
    BY <1>1 DEF EndFlush
  <2> QED BY <2>1 DEF KeepsFound, SameAttempts
<1>2. CASE f.level # None
  <2>1. /\ Finish(f.level, f.outcome, saved) /\ game # None
        /\ f.outcome \in Results /\ f.mine
    BY <1>2 DEF EndFlush, Held, Together, Flush, Results
  <2>2. game.attempt # None /\ game.level = f.level
    BY <1>2, <2>1 DEF Fits, FlushFits
  <2> QED BY <2>1, <2>2, FinishKeeps
<1> QED BY <1>1, <1>2

LEMMA ResolveKeeps ==
    ASSUME Held, flush # None, NEW outcome \in {"synced", "rejected"},
           Resolve(outcome), ~strayed', Fits
    PROVE  KeepsFound(store, store')
<1> USE Types, HeadItem
<1> DEFINE f == [flush EXCEPT !.watch = IF @ = 0 THEN 0 ELSE @ - 1,
                              !.outcome = IF flush.watch = 1 THEN outcome ELSE @]
           item == Head(items)
           saved == Noted(item, outcome)
<1>1. IF Len(items) = 1 THEN EndFlush(f, saved) ELSE store' = saved
  BY DEF Resolve
<1>2. f \in Flush /\ f.level = flush.level /\ f.mine = flush.mine
  <2>1. flush \in Flush
    OBVIOUS
  <2> QED BY <2>1, FlushAfter
<1>3. saved \in Stores
  BY NotedStore
<1>4. SameAttempts(store, saved)
  <2>1. CASE item.route # "complete"
    BY <2>1 DEF Noted, SameAttempts
  <2>2. CASE item.route = "complete"
    <3>1. item.level \in Levels /\ item.attempt \in Ids /\ outcome \in States
      BY DEF States
    <3>2. saved = SetState(item.level, outcome, item.attempt)
      BY <2>2 DEF Noted
    <3>3. \A k \in Levels :
             LET t == SetState(item.level, outcome, item.attempt)[k]
             IN  /\ t = None <=> store[k] = None
                 /\ store[k] # None => /\ t.id = store[k].id
                                       /\ t.found = store[k].found
      BY <3>1, StateSet
    <3> HIDE DEF item, saved
    <3> QED BY <3>2, <3>3 DEF SameAttempts
  <2> QED BY <2>1, <2>2
<1> HIDE DEF f, saved
<1> QED BY <1>1, <1>2, <1>3, <1>4, EndFlushKeeps DEF KeepsFound, SameAttempts

LEMMA KeepsSteps ==
    ASSUME Held, Straight, [Next]_vars, ~strayed'
    PROVE  KeepsFound(store, store')
<1> USE Types
<1>0. Fits
  BY OnceStrayed DEF Straight
<1>1. SameAttempts(store, store)
  BY DEF SameAttempts
<1>2. CASE UNCHANGED store
  BY <1>2 DEF KeepsFound
<1>3. ASSUME game # None, store' = StoredBy(game)
      PROVE  KeepsFound(store, store')
  BY <1>0, <1>3, TouchKeeps
<1>4. ASSUME NEW l \in Levels, NextLevel(l)
      PROVE  KeepsFound(store, store')
  BY <1>3, <1>4 DEF NextLevel, Held, Together
<1>5. CASE Replay
  BY <1>3, <1>5 DEF Replay, Held, Together
<1>6. CASE SaveView
  BY <1>3, <1>6 DEF SaveView, SaveAttempt
<1>7. CASE Leave
  BY <1>3, <1>7 DEF Leave, SaveAttempt, Held, Together
<1>8. ASSUME NEW d \in Diffs, Press(d)
      PROVE  KeepsFound(store, store')
  BY <1>0, <1>8, MarkFoundKeeps DEF Press
<1>9. CASE UseHint
  <2>1. Playing
    BY <1>9 DEF UseHint
  <2>2. PICK d \in Undiscovered(game) : MarkFound(d)
    BY <1>9 DEF UseHint
  <2>3. d \in Diffs
    BY <2>1, <2>2, PlayedGame, DiffsFacts DEF Undiscovered
  <2> QED BY <1>0, <2>1, <2>2, <2>3, MarkFoundKeeps
<1>10. CASE FinishLevel
  <2>1. CASE store' = store
    BY <2>1 DEF KeepsFound
  <2>2. CASE store' # store
    <3>1. Finish(game.level, "queued", store) /\ game # None
          /\ game.attempt # None
      BY <1>10, <2>2 DEF FinishLevel, Savable
    <3> QED BY <1>0, <1>1, <3>1, FinishKeeps DEF Results
  <2> QED BY <2>1, <2>2
<1>11. CASE Accepted
  BY <1>0, <1>11, ResolveKeeps DEF Accepted
<1>12. CASE Rejected
  BY <1>0, <1>12, ResolveKeeps DEF Rejected
<1>13. CASE Failed
  <2>1. flush # None /\ EndFlush(flush, store)
    BY <1>13 DEF Failed
  <2>2. flush \in Flush
    BY <2>1
  <2> QED BY <1>0, <1>1, <2>1, <2>2, EndFlushKeeps
<1> QED BY <1>0, <1>2, <1>4, <1>5, <1>6, <1>7, <1>8, <1>9, <1>10, <1>11, <1>12,
           <1>13, LevelArrivesKeeps, TimeUpKeeps
        DEF Next, vars, OpenLevel, ImageArrives, LoadFails, Crash, FlushQueue

\* What is saved as found of an attempt stays saved, as long as nothing acts on
\* a game it does not belong to.
THEOREM NothingFoundIsLost == Spec => FoundStaysFound
<1>1. Held /\ Straight /\ [Next]_vars =>
        [~strayed' =>
            \A l \in Levels :
                (store[l] # None /\ store'[l].id = store[l].id) =>
                    store[l].found \subseteq store'[l].found]_vars
  BY KeepsSteps DEF KeepsFound
<1> QED BY <1>1, AlwaysHeld, AlwaysStraight, PTL DEF Spec, FoundStaysFound

=============================================================================
