---------------------------- MODULE LevelService ----------------------------
(***************************************************************************)
(* The MySQL level service (server/internal/level/mysql_service.go): the   *)
(* start, progress, complete and reset operations of a level attempt, the  *)
(* idempotency wrapper they run in, and the score rows, totals and reward  *)
(* ledger that a completion maintains.                                     *)
(*                                                                         *)
(* A request is handled in two steps, because that is where concurrent     *)
(* copies of one request can interleave: the transaction first looks the   *)
(* idempotency key up (Hit, Conflict, Miss), and only then runs the        *)
(* operation and commits it together with the idempotency record (the      *)
(* Commit actions, Refuse, LoseKeyRace, Abort).  The operation and its     *)
(* commit are one action: every row it reads and then writes is read FOR   *)
(* UPDATE, so no other transaction changes it in between.                  *)
(*                                                                         *)
(* wrong_taps and duration_ms are merged and compared exactly like         *)
(* hints_used, so hints stands for the three of them; scores and points    *)
(* are functions of the version and the hints.                             *)
(***************************************************************************)
EXTENDS Integers, FiniteSets, FiniteSetsExt

CONSTANTS
    Users, Levels, Attempts, Diffs, Keys,
    Versions,        \* published or retired versions of the levels
    LevelOf,         \* the level a version belongs to
    NumberOf,        \* its level_version number
    DiffsOf,         \* its differences (none for a puzzle or a story)
    PuzzleVersions,  \* the versions whose mode is image_puzzle
    MaxHints,
    ScoreOf, PointsOf, \* score and points of a version, by hints used
    Handlers,        \* request handlers (connections) of the API server
    Requests,        \* the requests clients may send
    Resets,          \* the (user, level) pairs a reset is asked for
    None

Routes == {"level_start", "level_progress", "level_complete"}
HintCount == 0 .. MaxHints

\* A request of any of the three routes; a route ignores the fields its Go
\* request type does not have.
Request == [route : Routes, user : Users, key : Keys, level : Levels,
            attempt : Attempts, version : Versions, found : SUBSET Diffs,
            hints : HintCount, solved : BOOLEAN]

Attempt == [user : Users, version : Versions,
            state : {"in_progress", "completed"}, found : SUBSET Diffs,
            hints : HintCount, score : Nat, points : Nat]
Row == [version : Versions, attempt : Attempts, score : Nat, points : Nat,
        hints : HintCount]
Result == [attempt : Attempts, state : {"in_progress", "completed"},
           found : SUBSET Diffs, hints : HintCount, score : Nat, best : Nat,
           reward : {0, 1}]
IdemId == Users \X Routes \X Keys
IdemRecord == [req : Requests, result : Result]
Tx == [req : Requests, open : BOOLEAN]

ASSUME ConstantsAssumption ==
    /\ MaxHints \in Nat
    /\ LevelOf \in [Versions -> Levels]
    /\ NumberOf \in [Versions -> Nat]
    /\ DiffsOf \in [Versions -> SUBSET Diffs]
    /\ PuzzleVersions \subseteq Versions
    /\ ScoreOf \in [Versions -> [HintCount -> Nat]]
    /\ PointsOf \in [Versions -> [HintCount -> Nat]]
    /\ Requests \subseteq Request
    /\ Resets \subseteq Users \X Levels

ASSUME NoneAssumption ==
    /\ None \notin Attempt
    /\ None \notin Row
    /\ None \notin Users
    /\ None \notin IdemRecord
    /\ None \notin Tx

VARIABLES
    published,  \* level_versions with status 'published'
    attempts,   \* level_attempts with their attempt_differences
    idem,       \* idempotency_records by (user, route, key)
    best,       \* level_best_scores by user and version
    lifetime,   \* user_level_best_scores by user and level
    totals,     \* user_score_totals by user
    ledger,     \* reward_ledger: the user rewarded for an attempt
    tx          \* the request each handler works on, open once its key missed

tables == <<published, attempts, idem, best, lifetime, totals, ledger>>
vars == <<tables, tx>>

NoTotals == [points |-> 0, levels |-> 0, scores |-> 0]

Init ==
    /\ published \in SUBSET Versions
    /\ attempts = [a \in Attempts |-> None]
    /\ idem = [id \in IdemId |-> None]
    /\ best = [u \in Users |-> [v \in Versions |-> None]]
    /\ lifetime = [u \in Users |-> [l \in Levels |-> None]]
    /\ totals = [u \in Users |-> NoTotals]
    /\ ledger = [a \in Attempts |-> None]
    /\ tx = [h \in Handlers |-> None]

-----------------------------------------------------------------------------
(* What the operations read.                                               *)

Id(r) == <<r.user, r.route, r.key>>

\* The request hash covers the JSON body: neither the level of the path, nor
\* the user, nor the key.
SameBody(r, s) ==
    /\ r.attempt = s.attempt
    /\ r.route = "level_start" => r.version = s.version
    /\ r.route # "level_start" => r.found = s.found /\ r.hints = s.hints
    /\ r.route = "level_complete" => r.solved = s.solved

\* lockAttempt: the attempt exists and belongs to the caller.
Owned(r) == attempts[r.attempt] # None /\ attempts[r.attempt].user = r.user

\* The attempt is one of the level in the path.
OfLevel(r) == LevelOf[attempts[r.attempt].version] = r.level

\* Mutant: hints are added up instead of merged.
AddedHints(r) == attempts[r.attempt].hints + r.hints

MergedHints(r) ==
    LET saved == attempts[r.attempt].hints
    IN  IF r.hints > saved THEN r.hints ELSE saved

Scored(r) ==
    LET v == attempts[r.attempt].version
        h == MergedHints(r)
    IN  [version |-> v, attempt |-> r.attempt, score |-> ScoreOf[v][h],
         points |-> PointsOf[v][h], hints |-> h]

BetterBest(new, old) ==
    \/ new.score > old.score
    \/ new.score = old.score /\ new.hints < old.hints

\* Mutants: levels compared by score alone; the last attempt wins.
BetterByScore(new, old) == BetterBest(new, old)
LastWins(new, old) == TRUE

BetterLifetime(new, old) ==
    \/ new.points > old.points
    \/ new.points = old.points /\ BetterBest(new, old)

WritesBest(row, old) == IF old = None THEN TRUE ELSE BetterBest(row, old)
WritesLifetime(row, old) ==
    IF old = None THEN TRUE ELSE BetterLifetime(row, old)

\* uk_best_attempt: one attempt holds at most one level_best_scores row.
BestKeyFree(u, v, a) ==
    \A w \in Users, x \in Versions :
        best[w][x] # None /\ best[w][x].attempt = a => w = u /\ x = v

\* The best score an answer shows: that of the row the attempt holds, or
\* else that of the attempt's user and version.
HeldRows(bests, attempt) ==
    {bests[p[1]][p[2]] : p \in {q \in Users \X Versions :
        bests[q[1]][q[2]] # None /\ bests[q[1]][q[2]].attempt = attempt}}

ShownBest(bests, attempt, rec) ==
    LET held == HeldRows(bests, attempt)
        own == bests[rec.user][rec.version]
    IN  CASE rec.state # "completed" -> 0
          [] rec.state = "completed" /\ held # {} ->
                (CHOOSE row \in held : TRUE).score
          [] rec.state = "completed" /\ held = {} ->
                IF own = None THEN 0 ELSE own.score

\* attemptResult
AttemptResult(attempt, rec, bests, reward) ==
    [attempt |-> attempt, state |-> rec.state, found |-> rec.found,
     hints |-> rec.hints, score |-> rec.score,
     best |-> ShownBest(bests, attempt, rec), reward |-> reward]

-----------------------------------------------------------------------------
(* The idempotency wrapper (mutate).                                       *)

Receive(h, r) ==
    /\ tx[h] = None
    /\ tx' = [tx EXCEPT ![h] = [req |-> r, open |-> FALSE]]
    /\ UNCHANGED tables

Looking(h) == tx[h] # None /\ ~tx[h].open
Open(h) == tx[h] # None /\ tx[h].open
Idle(h) == tx' = [tx EXCEPT ![h] = None]

\* The key was used for this very body: the recorded response is returned.
Hit(h) ==
    /\ Looking(h)
    /\ idem[Id(tx[h].req)] # None
    /\ SameBody(idem[Id(tx[h].req)].req, tx[h].req)
    /\ Idle(h)
    /\ UNCHANGED tables

\* The key was used for another body: ErrIdempotency.
Conflict(h) ==
    /\ Looking(h)
    /\ idem[Id(tx[h].req)] # None
    /\ ~SameBody(idem[Id(tx[h].req)].req, tx[h].req)
    /\ Idle(h)
    /\ UNCHANGED tables

Miss(h) ==
    /\ Looking(h)
    /\ idem[Id(tx[h].req)] = None
    /\ tx' = [tx EXCEPT ![h].open = TRUE]
    /\ UNCHANGED tables

\* The insert of the record conflicts with the one of a concurrent copy, and
\* the whole transaction is rolled back.
LoseKeyRace(h) ==
    /\ Open(h)
    /\ idem[Id(tx[h].req)] # None
    /\ Idle(h)
    /\ UNCHANGED tables

\* A deadlock victim, a lost connection, a request timeout or a server crash.
Abort(h) ==
    /\ tx[h] # None
    /\ Idle(h)
    /\ UNCHANGED tables

\* Mutant: the record is written over an existing one.
MayOverwrite(h) == Open(h)

MayCommit(h) == Open(h) /\ idem[Id(tx[h].req)] = None

Commit(h, result) ==
    /\ idem' = [idem EXCEPT ![Id(tx[h].req)] =
                    [req |-> tx[h].req, result |-> result]]
    /\ Idle(h)

-----------------------------------------------------------------------------
(* Start                                                                   *)

StartFits(r) ==
    /\ r.version \in published
    /\ LevelOf[r.version] = r.level
    /\ attempts[r.attempt] # None =>
        /\ attempts[r.attempt].user = r.user
        /\ NumberOf[attempts[r.attempt].version] = NumberOf[r.version]

NewAttempt(r) ==
    [user |-> r.user, version |-> r.version, state |-> "in_progress",
     found |-> {}, hints |-> 0, score |-> 0, points |-> 0]

\* INSERT ... ON DUPLICATE KEY UPDATE id=id: an existing attempt is kept.
Started(r) ==
    IF attempts[r.attempt] = None THEN NewAttempt(r) ELSE attempts[r.attempt]

StartResult(r) ==
    [attempt |-> r.attempt, state |-> Started(r).state, found |-> {},
     hints |-> 0, score |-> 0, best |-> 0, reward |-> 0]

CommitStart(h) ==
    LET r == tx[h].req IN
    /\ MayCommit(h)
    /\ r.route = "level_start"
    /\ StartFits(r)
    /\ attempts' = [attempts EXCEPT ![r.attempt] = Started(r)]
    /\ Commit(h, StartResult(r))
    /\ UNCHANGED <<published, best, lifetime, totals, ledger>>

-----------------------------------------------------------------------------
(* Progress                                                                *)

\* Mutants: progress of a completed attempt; differences of another version.
LateProgressFits(r) == Owned(r) /\ OfLevel(r)
AnyDiffFits(r) ==
    Owned(r) /\ OfLevel(r) /\ attempts[r.attempt].state = "in_progress"

ProgressFits(r) ==
    /\ Owned(r)
    /\ OfLevel(r)
    /\ attempts[r.attempt].state = "in_progress"
    /\ attempts[r.attempt].version \in PuzzleVersions => r.found = {}
    /\ r.found \subseteq DiffsOf[attempts[r.attempt].version]

Progressed(r) ==
    [attempts[r.attempt] EXCEPT !.found = @ \cup r.found,
                                !.hints = MergedHints(r)]

CommitProgress(h) ==
    LET r == tx[h].req IN
    /\ MayCommit(h)
    /\ r.route = "level_progress"
    /\ ProgressFits(r)
    /\ attempts' = [attempts EXCEPT ![r.attempt] = Progressed(r)]
    /\ Commit(h, AttemptResult(r.attempt, Progressed(r), best, 0))
    /\ UNCHANGED <<published, best, lifetime, totals, ledger>>

-----------------------------------------------------------------------------
(* Complete                                                                *)

\* A puzzle is complete when the submitted order is the identity; any other
\* version when the found differences, with the submitted ones, are all.
Finds(r) ==
    LET a == attempts[r.attempt] IN
    IF a.version \in PuzzleVersions THEN a.found ELSE a.found \cup r.found

Proven(r) ==
    LET v == attempts[r.attempt].version IN
    IF v \in PuzzleVersions
    THEN r.solved
    ELSE r.found \subseteq DiffsOf[v] /\ Finds(r) = DiffsOf[v]

AlreadyCompleted(r) ==
    /\ Owned(r)
    /\ OfLevel(r)
    /\ attempts[r.attempt].state = "completed"

\* Mutant: a completed attempt completes again.
RepeatCompleteFits(r) == Owned(r) /\ OfLevel(r) /\ Proven(r)

CompleteFits(r) ==
    LET v == attempts[r.attempt].version IN
    /\ Owned(r)
    /\ OfLevel(r)
    /\ attempts[r.attempt].state = "in_progress"
    /\ Proven(r)
    /\ WritesBest(Scored(r), best[r.user][v]) =>
            BestKeyFree(r.user, v, r.attempt)

\* Mutant: scored with the hints of the last request only.
CompletedAsTold(r) ==
    [attempts[r.attempt] EXCEPT
        !.state = "completed", !.found = Finds(r), !.hints = MergedHints(r),
        !.score = ScoreOf[attempts[r.attempt].version][r.hints],
        !.points = PointsOf[attempts[r.attempt].version][r.hints]]

Completed(r) ==
    [attempts[r.attempt] EXCEPT
        !.state = "completed", !.found = Finds(r), !.hints = MergedHints(r),
        !.score = Scored(r).score, !.points = Scored(r).points]

\* Mutant: the last attempt replaces the best one.
LastBest(r) == Scored(r)

\* upsertBestScore: the row of the user and version.
NewBest(r) ==
    LET old == best[r.user][attempts[r.attempt].version] IN
    IF WritesBest(Scored(r), old) THEN Scored(r) ELSE old

\* upsertLifetimeScore: the row of the user and level ...
NewLifetime(r) ==
    LET old == lifetime[r.user][r.level] IN
    IF WritesLifetime(Scored(r), old) THEN Scored(r) ELSE old

\* Mutant: an improved level is added once more.
GrownTotals(r) ==
    [points |-> totals[r.user].points + Scored(r).points,
     levels |-> totals[r.user].levels
                + IF lifetime[r.user][r.level] = None THEN 1 ELSE 0,
     scores |-> totals[r.user].scores + Scored(r).score]

\* ... and the running totals, which it keeps by adding differences.
NewTotals(r) ==
    LET old == lifetime[r.user][r.level]
        row == Scored(r)
        t == totals[r.user]
    IN  IF old = None
        THEN [points |-> t.points + row.points, levels |-> t.levels + 1,
              scores |-> t.scores + row.score]
        ELSE IF BetterLifetime(row, old)
        THEN [points |-> t.points + row.points - old.points,
              levels |-> t.levels,
              scores |-> t.scores + row.score - old.score]
        ELSE t

\* INSERT IGNORE under the id 'rwd_' + attempt.
Rewarded(r) ==
    IF ledger[r.attempt] = None THEN r.user ELSE ledger[r.attempt]

CommitComplete(h) ==
    LET r == tx[h].req
        v == attempts[r.attempt].version
    IN
    /\ MayCommit(h)
    /\ r.route = "level_complete"
    /\ CompleteFits(r)
    /\ attempts' = [attempts EXCEPT ![r.attempt] = Completed(r)]
    /\ best' = [best EXCEPT ![r.user][v] = NewBest(r)]
    /\ lifetime' = [lifetime EXCEPT ![r.user][r.level] = NewLifetime(r)]
    /\ totals' = [totals EXCEPT ![r.user] = NewTotals(r)]
    /\ ledger' = [ledger EXCEPT ![r.attempt] = Rewarded(r)]
    /\ Commit(h, AttemptResult(r.attempt, Completed(r), best', 1))
    /\ UNCHANGED published

\* An attempt completed before, under another key: only its result is returned.
CommitCompleteAgain(h) ==
    LET r == tx[h].req
        a == attempts[r.attempt]
    IN
    /\ MayCommit(h)
    /\ r.route = "level_complete"
    /\ AlreadyCompleted(r)
    /\ Commit(h, AttemptResult(r.attempt, a, best, 0))
    /\ UNCHANGED <<published, attempts, best, lifetime, totals, ledger>>

\* Every error of an operation rolls its transaction back.
Fits(r) ==
    CASE r.route = "level_start" -> StartFits(r)
      [] r.route = "level_progress" -> ProgressFits(r)
      [] r.route = "level_complete" -> AlreadyCompleted(r) \/ CompleteFits(r)

Refuse(h) ==
    /\ MayCommit(h)
    /\ ~Fits(tx[h].req)
    /\ Idle(h)
    /\ UNCHANGED tables

-----------------------------------------------------------------------------
(* Reset deletes the attempts of a user on a level, and only those: score  *)
(* rows, totals, rewards and idempotency records stay.                     *)

Reset(u, l) ==
    /\ <<u, l>> \in Resets
    /\ attempts' = [a \in Attempts |->
            IF attempts[a] # None
               /\ attempts[a].user = u /\ LevelOf[attempts[a].version] = l
            THEN None ELSE attempts[a]]
    /\ UNCHANGED <<published, idem, best, lifetime, totals, ledger, tx>>

\* The content workflow publishes a version or takes it down at any time.
Transition(v) ==
    /\ published' = IF v \in published
                    THEN published \ {v} ELSE published \cup {v}
    /\ UNCHANGED <<attempts, idem, best, lifetime, totals, ledger, tx>>

Handle(h) ==
    \/ \E r \in Requests : Receive(h, r)
    \/ Hit(h)
    \/ Conflict(h)
    \/ Miss(h)
    \/ LoseKeyRace(h)
    \/ Abort(h)
    \/ CommitStart(h)
    \/ CommitProgress(h)
    \/ CommitComplete(h)
    \/ CommitCompleteAgain(h)
    \/ Refuse(h)

Next ==
    \/ \E h \in Handlers : Handle(h)
    \/ \E u \in Users, l \in Levels : Reset(u, l)
    \/ \E v \in Versions : Transition(v)

Spec == Init /\ [][Next]_vars

-----------------------------------------------------------------------------
(* Invariants                                                              *)

\* The tables hold rows of their schema (migrations 003 and 019), and an open
\* transaction works on a request a client sent.
TablesOK ==
    /\ published \subseteq Versions
    /\ attempts \in [Attempts -> Attempt \cup {None}]
    /\ idem \in [IdemId -> IdemRecord \cup {None}]
    /\ best \in [Users -> [Versions -> Row \cup {None}]]
    /\ lifetime \in [Users -> [Levels -> Row \cup {None}]]
    /\ ledger \in [Attempts -> Users \cup {None}]
    /\ tx \in [Handlers -> Tx \cup {None}]

TypeOK ==
    /\ TablesOK
    /\ totals \in [Users -> [points : Int, levels : Int, scores : Int]]

IsCompleted(a) == attempts[a] # None /\ attempts[a].state = "completed"

\* Found differences always belong to the attempt's version, and an attempt
\* that is not a puzzle is completed only with every one of them stored: no
\* order of progress and complete calls, retried or concurrent, credits a
\* level that was not solved (Progress and Complete check on their own).
CompletedIsProven ==
    \A a \in Attempts :
        attempts[a] # None =>
            LET v == attempts[a].version IN
            /\ attempts[a].found \subseteq DiffsOf[v]
            /\ v \in PuzzleVersions => attempts[a].found = {}
            /\ IsCompleted(a) /\ v \notin PuzzleVersions =>
                    attempts[a].found = DiffsOf[v]

\* At least as good, in points and then in score.
Dominates(row, points, score) ==
    /\ row # None
    /\ row.points > points \/ (row.points = points /\ row.score >= score)

\* The row of a user and level is at least as good as those of its versions,
\* whether they were raised one completion at a time or rebuilt from the
\* attempts (ScoreRebuild), and whatever was reset in between.
RowsAgree ==
    \A u \in Users, v \in Versions :
        best[u][v] # None =>
            Dominates(lifetime[u][LevelOf[v]], best[u][v].points,
                      best[u][v].score)

\* The rows agree and are as good as every completed attempt: the three copies
\* of a result that Complete writes never disagree about the best one.
LifetimeDominates ==
    /\ RowsAgree
    /\ \A a \in Attempts : IsCompleted(a) =>
        LET t == attempts[a] IN
        /\ best[t.user][t.version] # None
        /\ best[t.user][t.version].score >= t.score
        /\ Dominates(lifetime[t.user][LevelOf[t.version]], t.points, t.score)

\* user_score_totals, kept by adding differences, is the sum over the rows per
\* level: no completion is counted twice or dropped, whatever was retried.
TotalsMatchRows ==
    \A u \in Users :
        LET rows == {l \in Levels : lifetime[u][l] # None} IN
        totals[u] =
            [points |-> MapThenSumSet(LAMBDA l : lifetime[u][l].points, rows),
             levels |-> Cardinality(rows),
             scores |-> MapThenSumSet(LAMBDA l : lifetime[u][l].score, rows)]

\* A user who asks for no reset.
Keeps(u) == \A l \in Levels : <<u, l>> \notin Resets

\* The reward goes with the completion and to its owner: a completed attempt
\* has a ledger entry, and an entry of a user who resets nothing names the user
\* who completed just that attempt, whatever strangers send, complete or reset.
RewardMatchesCompletion ==
    /\ \A a \in Attempts : IsCompleted(a) => ledger[a] # None
    /\ \A a \in Attempts : ledger[a] # None /\ Keeps(ledger[a]) =>
            IsCompleted(a) /\ attempts[a].user = ledger[a]

Answered(u, route, k) == idem[<<u, route, k>>] # None
AnswerTo(u, route, k) == idem[<<u, route, k>>].result

\* The permanent score of a user holds every completion the user was ever told
\* of, whatever was reset since: an answer "completed" may be replayed from the
\* idempotency record long after, and still tells the truth about the score.
Acknowledged(u) ==
    \A k \in Keys :
        Answered(u, "level_complete", k) =>
            LET answer == AnswerTo(u, "level_complete", k)
                l == idem[<<u, "level_complete", k>>].req.level
            IN
            /\ answer.state = "completed"
            /\ lifetime[u][l] # None
            /\ \E v \in Versions :
                /\ LevelOf[v] = l
                /\ best[u][v] # None
                /\ best[u][v].score >= answer.score

\* Nobody is told of two rewards for one attempt, under any keys, nor are two
\* users, unless one of them resets it: a second Complete of a completed attempt
\* answers without a reward (mysql_service.go:128).
RewardToldOnce ==
    \A u, w \in Users, k, m \in Keys :
        /\ Keeps(u) /\ Keeps(w)
        /\ Answered(u, "level_complete", k)
        /\ Answered(w, "level_complete", m)
        /\ AnswerTo(u, "level_complete", k).reward = 1
        /\ AnswerTo(w, "level_complete", m).reward = 1
        /\ AnswerTo(u, "level_complete", k).attempt =
                AnswerTo(w, "level_complete", m).attempt
        => u = w /\ k = m

\* The two together: a completion is rewarded, once, and to its own player.
RewardedOnce == RewardToldOnce /\ RewardMatchesCompletion

\* A leaderboard row names the attempt it was earned with, and that attempt is
\* completed with just this score, as long as its user resets nothing.
BestIsAttained ==
    \A u \in Users, v \in Versions :
        Keeps(u) /\ best[u][v] # None =>
            LET a == best[u][v].attempt IN
            /\ IsCompleted(a)
            /\ attempts[a].user = u
            /\ attempts[a].version = v
            /\ attempts[a].score = best[u][v].score
            /\ attempts[a].points = best[u][v].points

-----------------------------------------------------------------------------
(* Action properties                                                       *)

\* An idempotency record, once written, is never changed: every later copy of
\* the request is answered alike, however the copies interleave.
AnswersAreStable ==
    [][\A id \in IdemId : idem[id] # None => idem'[id] = idem[id]]_vars

\* A completed attempt is never reopened or rescored, only reset away: a late
\* progress or a second complete of it changes nothing.
CompletedIsFinal ==
    [][\A a \in Attempts :
        IsCompleted(a) => attempts'[a] \in {attempts[a], None}]_vars

\* Points and completed levels of a user never decrease, resets included.  The
\* operations of this module keep it; the rebuild (ScoreRebuild) does not.
TotalsNeverDrop ==
    [][\A u \in Users :
        /\ totals'[u].points >= totals[u].points
        /\ totals'[u].levels >= totals[u].levels]_vars
=============================================================================
