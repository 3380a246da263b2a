---------------------------- MODULE ScoreRebuild ----------------------------
(***************************************************************************)
(* The rebuild of a user's score tables (rebuildUserScores in              *)
(* server/internal/level/mysql_service.go), composed with the level        *)
(* service that maintains the same tables step by step.                    *)
(*                                                                         *)
(* PlayerStats rebuilds within a second of a completion or when there are  *)
(* no totals, the operators at any time for one user or for all; here a    *)
(* rebuild of a user in Rebuilt may start at any time.  It is two steps:   *)
(* the snapshot of the completed attempts, which takes no row lock, and    *)
(* the rewrite of the tables, whose first DELETE locks the user's rows     *)
(* until the commit.  Completions and resets may commit in between.        *)
(*                                                                         *)
(* The named lock belongs to the database connection.  The deferred        *)
(* RELEASE_LOCK runs in a transaction that is over after a commit, so the  *)
(* connection keeps the lock until the pool closes it; a rebuild on        *)
(* another connection then gives up after five seconds, changes nothing    *)
(* and answers success.  Such a call is no step of this module.            *)
(***************************************************************************)
EXTENDS LevelService

CONSTANTS
    Conns,   \* connections of the pool that a rebuild may run on
    Rebuilt  \* the users whose scores are rebuilt

ASSUME RebuildAssumption == Rebuilt \subseteq Users /\ None \notin Conns

VARIABLES
    lock,    \* the connection that holds the named lock of a user
    seen     \* by connection: the user it rebuilds and the attempts it read

rebuildVars == <<vars, lock, seen>>

Snapshot == [user : Rebuilt, rows : [Attempts -> Attempt \cup {None}]]

ASSUME NoSnapshotAssumption == None \notin Snapshot

RebuildInit ==
    /\ Init
    /\ lock = [u \in Users |-> None]
    /\ seen = [c \in Conns |-> None]

-----------------------------------------------------------------------------
(* The rebuilt rows                                                        *)

CompletedOf(u) ==
    [a \in Attempts |->
        IF IsCompleted(a) /\ attempts[a].user = u THEN attempts[a] ELSE None]

Read(snap) == {a \in Attempts : snap.rows[a] # None}

RowOf(snap, a) ==
    LET r == snap.rows[a] IN
    [version |-> r.version, attempt |-> a, score |-> r.score,
     points |-> r.points, hints |-> r.hints]

\* The rows of the attempts read of some versions.
RowsOf(snap, vs) ==
    {RowOf(snap, a) : a \in {b \in Read(snap) : snap.rows[b].version \in vs}}

VersionsOf(l) == {v \in Versions : LevelOf[v] = l}

\* The rows no other one beats (None if there are none at all); of equals the
\* earliest attempt stays, and which one that is is left open.
BestRows(snap, v) ==
    LET rows == RowsOf(snap, {v}) IN
    IF rows = {} THEN {None}
    ELSE {row \in rows : \A other \in rows : ~BetterBest(other, row)}

\* Mutant: the rows of a level are ranked by score before points.
BestByScore(snap, l) ==
    LET rows == RowsOf(snap, VersionsOf(l)) IN
    IF rows = {} THEN {None}
    ELSE {row \in rows : \A other \in rows : ~BetterBest(other, row)}

LifetimeRows(snap, l) ==
    LET rows == RowsOf(snap, VersionsOf(l)) IN
    IF rows = {} THEN {None}
    ELSE {row \in rows : \A other \in rows : ~BetterLifetime(other, row)}

\* Mutant: the totals of the table are kept and the new ones added.
AddedUp(u, rows) ==
    LET kept == {l \in Levels : rows[l] # None} IN
    [points |-> totals[u].points
                + MapThenSumSet(LAMBDA l : rows[l].points, kept),
     levels |-> Cardinality(kept),
     scores |-> MapThenSumSet(LAMBDA l : rows[l].score, kept)]

RebuiltTotals(u, rows) ==
    LET kept == {l \in Levels : rows[l] # None} IN
    [points |-> MapThenSumSet(LAMBDA l : rows[l].points, kept),
     levels |-> Cardinality(kept),
     scores |-> MapThenSumSet(LAMBDA l : rows[l].score, kept)]

\* uk_best_attempt: no other user holds a row under one of these attempts.
RebuildKeysFree(u, rows) ==
    \A v \in Versions : rows[v] # None =>
        \A w \in Users \ {u}, x \in Versions :
            best[w][x] # None => best[w][x].attempt # rows[v].attempt

-----------------------------------------------------------------------------
(* The steps                                                               *)

\* Mutant: every connection gets the lock.
AlwaysGetsLock(c, u) == u \in Rebuilt

\* A connection that holds the lock gets it once more.
GetsLock(c, u) == u \in Rebuilt /\ lock[u] \in {None, c}

RebuildRead(c, u) ==
    /\ seen[c] = None
    /\ GetsLock(c, u)
    /\ lock' = [lock EXCEPT ![u] = c]
    /\ seen' = [seen EXCEPT ![c] = [user |-> u, rows |-> CompletedOf(u)]]
    /\ UNCHANGED vars

RebuildWrite(c) ==
    /\ seen[c] # None
    /\ LET u == seen[c].user IN
        \E bests \in [Versions -> UNION {BestRows(seen[c], v) :
                                            v \in Versions}],
           rows \in [Levels -> UNION {LifetimeRows(seen[c], l) :
                                            l \in Levels}] :
            /\ \A v \in Versions : bests[v] \in BestRows(seen[c], v)
            /\ \A l \in Levels : rows[l] \in LifetimeRows(seen[c], l)
            /\ RebuildKeysFree(u, bests)
            /\ best' = [best EXCEPT ![u] = bests]
            /\ lifetime' = [lifetime EXCEPT ![u] = rows]
            /\ totals' = [totals EXCEPT ![u] = RebuiltTotals(u, rows)]
    /\ seen' = [seen EXCEPT ![c] = None]
    /\ UNCHANGED <<published, attempts, idem, ledger, tx, lock>>

\* An error (a taken uk_best_attempt among them) rolls the rewrite back.  The
\* deferred RELEASE_LOCK then frees the lock, unless the context was canceled
\* and the transaction is over, or the connection took the lock before.
RebuildFail(c) ==
    /\ seen[c] # None
    /\ \/ lock' = [lock EXCEPT ![seen[c].user] = None]
       \/ UNCHANGED lock
    /\ seen' = [seen EXCEPT ![c] = None]
    /\ UNCHANGED vars

\* The pool closes an idle or old connection, or the server or the database
\* ends it: its locks are free.
CloseConn(c) ==
    /\ seen' = [seen EXCEPT ![c] = None]
    /\ lock' = [u \in Users |-> IF lock[u] = c THEN None ELSE lock[u]]
    /\ UNCHANGED vars

Rebuild(c) ==
    \/ \E u \in Users : RebuildRead(c, u)
    \/ RebuildWrite(c)
    \/ RebuildFail(c)
    \/ CloseConn(c)

RebuildNext ==
    \/ Next /\ UNCHANGED <<lock, seen>>
    \/ \E c \in Conns : Rebuild(c)

RebuildSpec == RebuildInit /\ [][RebuildNext]_rebuildVars

-----------------------------------------------------------------------------
(* Properties                                                              *)

\* A lock is held by a connection, and an open rebuild has read completed
\* attempts of its user and holds the lock of that user.
RebuildTypeOK ==
    /\ lock \in [Users -> Conns \cup {None}]
    /\ seen \in [Conns -> Snapshot \cup {None}]
    /\ \A c \in Conns : seen[c] # None =>
        /\ lock[seen[c].user] = c
        /\ \A a \in Read(seen[c]) :
            /\ seen[c].rows[a].state = "completed"
            /\ seen[c].rows[a].user = seen[c].user

\* No two rebuilds of one user overlap, although the lock outlives them: else
\* the one that read first could write last and undo what the other repaired.
RebuildsTakeTurns ==
    \A c, d \in Conns :
        seen[c] # None /\ seen[d] # None /\ seen[c].user = seen[d].user
            => c = d

\* The score of a user who is not rebuilt holds every completion the user was
\* told of (Acknowledged), whatever was reset: the rebuild of one user takes nothing from another one, though they may share
\* attempt ids after a reset.
OthersStayAcknowledged ==
    \A u \in Users \ Rebuilt : Acknowledged(u)

\* The row counts an attempt that the snapshot does not have as it counted.
Unread(snap, row) ==
    /\ row # None
    /\ snap.rows[row.attempt] # None => RowOf(snap, row.attempt) # row

\* Points and levels of a user only drop when a rebuild writes whose snapshot
\* lacks an attempt the rows still counted, because it was completed after the
\* read or reset away.  Where there is no such attempt the tables computed from
\* nothing are never worse than those kept step by step.
DropsHaveCause ==
    [][\A u \in Users :
        \/ totals'[u].points < totals[u].points
        \/ totals'[u].levels < totals[u].levels
        => \E c \in Conns :
            /\ seen[c] # None
            /\ seen[c].user = u
            /\ \E l \in Levels : Unread(seen[c], lifetime[u][l])]_rebuildVars
=============================================================================
