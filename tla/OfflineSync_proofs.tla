------------------------- MODULE OfflineSync_proofs -------------------------
(***************************************************************************)
(* Theorems about the levels, from the tables to the device, for every set *)
(* of users, levels, attempts, keys, handlers, connections and requests,   *)
(* every scoring function and every bound.  First LevelService, then       *)
(* ScoreRebuild, then OfflineSync: the device keeps its types, every step  *)
(* of it is a step of LevelService or none, and so what is proved of the   *)
(* service holds whatever the device, the network and crashes do.          *)
(***************************************************************************)
EXTENDS OfflineSync, ScoreRebuild, FiniteSetTheorems, SequenceTheorems,
        WellFoundedInduction, TLAPS

-----------------------------------------------------------------------------
(* The requests and rows the operations work on.                           *)

LEMMA RequestType ==
    ASSUME TablesOK, NEW h \in Handlers, tx[h] # None
    PROVE  /\ tx[h] \in Tx
           /\ tx[h].req \in Requests
           /\ tx[h].req \in Request
           /\ Id(tx[h].req) \in IdemId
  BY ConstantsAssumption DEF TablesOK, Tx, Request, Id, IdemId

LEMMA AttemptType ==
    ASSUME TablesOK, NEW a \in Attempts, attempts[a] # None
    PROVE  attempts[a] \in Attempt
  BY DEF TablesOK

LEMMA NothingYet == 0 \in HintCount /\ {} \in SUBSET Diffs /\ 0 \in Nat
  BY ConstantsAssumption DEF HintCount

LEMMA MergedType ==
    ASSUME TablesOK, NEW r \in Request, attempts[r.attempt] # None
    PROVE  /\ MergedHints(r) \in HintCount
           /\ MergedHints(r) >= r.hints
           /\ MergedHints(r) >= attempts[r.attempt].hints
<1>1. attempts[r.attempt] \in Attempt
  BY AttemptType DEF Request
<1>2. r.hints \in HintCount /\ attempts[r.attempt].hints \in HintCount
  BY <1>1 DEF Request, Attempt
<1>3. r.hints \in Int /\ attempts[r.attempt].hints \in Int
  BY <1>2, ConstantsAssumption DEF HintCount
<1> DEFINE saved == attempts[r.attempt].hints
<1>4. MergedHints(r) = IF r.hints > saved THEN r.hints ELSE saved
  BY DEF MergedHints
<1> HIDE DEF saved
<1>5. r.hints \in HintCount /\ saved \in HintCount
  BY <1>2 DEF saved
<1>6. r.hints \in Int /\ saved \in Int
  BY <1>3 DEF saved
<1>7. /\ MergedHints(r) \in HintCount
      /\ MergedHints(r) >= r.hints
      /\ MergedHints(r) >= saved
  BY <1>4, <1>5, <1>6
<1> QED
  BY <1>7 DEF saved

LEMMA ScoredType ==
    ASSUME TablesOK, NEW r \in Request, attempts[r.attempt] # None
    PROVE  Scored(r) \in Row
<1>1. attempts[r.attempt].version \in Versions
  BY AttemptType DEF Request, Attempt
<1>2. /\ ScoreOf[attempts[r.attempt].version][MergedHints(r)] \in Nat
      /\ PointsOf[attempts[r.attempt].version][MergedHints(r)] \in Nat
  BY <1>1, MergedType, ConstantsAssumption
<1> QED
  BY <1>1, <1>2, MergedType DEF Scored, Row, Request

LEMMA ShownBestType ==
    ASSUME NEW bests \in [Users -> [Versions -> Row \cup {None}]],
           NEW a \in Attempts, NEW rec \in Attempt
    PROVE  ShownBest(bests, a, rec) \in Nat
<1> DEFINE held == HeldRows(bests, a)
           own == bests[rec.user][rec.version]
<1>1. \A row \in held : row \in Row
  BY DEF HeldRows
<1>2. own \in Row \cup {None}
  BY DEF Attempt
<1>3. held # {} => (CHOOSE row \in held : TRUE) \in Row
  BY <1>1
<1>4. \A row \in Row : row.score \in Nat
  BY DEF Row
<1>5. rec.state = "completed" \/ rec.state # "completed"
  OBVIOUS
<1> HIDE DEF held, own
<1>6. CASE rec.state # "completed"
  BY <1>6 DEF ShownBest
<1>7. CASE rec.state = "completed" /\ held # {}
  <2>1. ShownBest(bests, a, rec) = (CHOOSE row \in held : TRUE).score
    BY <1>7 DEF ShownBest, held
  <2> QED
    BY <2>1, <1>7, <1>3, <1>4
<1>8. CASE rec.state = "completed" /\ held = {}
  <2>1. ShownBest(bests, a, rec) = IF own = None THEN 0 ELSE own.score
    BY <1>8 DEF ShownBest, held, own
  <2> QED
    BY <2>1, <1>2, <1>4
<1> QED
  BY <1>6, <1>7, <1>8

LEMMA AttemptResultType ==
    ASSUME NEW bests \in [Users -> [Versions -> Row \cup {None}]],
           NEW a \in Attempts, NEW rec \in Attempt, NEW reward \in {0, 1}
    PROVE  AttemptResult(a, rec, bests, reward) \in Result
  BY ShownBestType DEF AttemptResult, Result, Attempt

LEMMA CommitType ==
    ASSUME TablesOK, NEW h \in Handlers, tx[h] # None, NEW result \in Result,
           Commit(h, result)
    PROVE  /\ idem' \in [IdemId -> IdemRecord \cup {None}]
           /\ tx' \in [Handlers -> Tx \cup {None}]
<1>1. [req |-> tx[h].req, result |-> result] \in IdemRecord
  BY RequestType DEF IdemRecord
<1> QED
  BY <1>1, RequestType DEF Commit, Idle, TablesOK

-----------------------------------------------------------------------------
(* Type correctness                                                        *)

LEMMA CompletedType ==
    ASSUME TablesOK, NEW r \in Request, attempts[r.attempt] # None
    PROVE  Completed(r) \in Attempt
<1>1. attempts[r.attempt] \in Attempt
  BY AttemptType DEF Request
<1>2. Finds(r) \in SUBSET Diffs
  BY <1>1 DEF Finds, Attempt, Request
<1>3. MergedHints(r) \in HintCount
  BY MergedType
<1>4. Scored(r).score \in Nat /\ Scored(r).points \in Nat
  BY ScoredType DEF Row
<1> QED
  BY <1>1, <1>2, <1>3, <1>4 DEF Completed, Attempt

LEMMA CompleteTables ==
    ASSUME TablesOK, NEW h \in Handlers, tx[h] # None, CommitComplete(h)
    PROVE  /\ attempts' \in [Attempts -> Attempt \cup {None}]
           /\ best' \in [Users -> [Versions -> Row \cup {None}]]
           /\ lifetime' \in [Users -> [Levels -> Row \cup {None}]]
           /\ ledger' \in [Attempts -> Users \cup {None}]
<1> DEFINE r == tx[h].req
           v == attempts[r.attempt].version
<1>1. r \in Request
  BY RequestType
<1>2. attempts[r.attempt] # None
  BY DEF CommitComplete, CompleteFits, Owned
<1>3. r.user \in Users /\ r.level \in Levels /\ r.attempt \in Attempts
  BY <1>1 DEF Request
<1>4. v \in Versions
  BY <1>2, <1>3, AttemptType DEF Attempt
<1>5. Scored(r) \in Row
  BY <1>1, <1>2, ScoredType
<1>6. Completed(r) \in Attempt
  BY <1>1, <1>2, CompletedType
<1>7. /\ attempts' = [attempts EXCEPT ![r.attempt] = Completed(r)]
      /\ best' = [best EXCEPT ![r.user][v] = NewBest(r)]
      /\ lifetime' = [lifetime EXCEPT ![r.user][r.level] = NewLifetime(r)]
      /\ ledger' = [ledger EXCEPT ![r.attempt] = Rewarded(r)]
  BY DEF CommitComplete
<1>8. best[r.user][v] \in Row \cup {None} /\ lifetime[r.user][r.level] \in Row \cup {None}
  BY <1>3, <1>4 DEF TablesOK
<1>9. NewBest(r) \in Row \cup {None} /\ NewLifetime(r) \in Row \cup {None}
  BY <1>5, <1>8 DEF NewBest, NewLifetime
<1>10. Rewarded(r) \in Users \cup {None}
  BY <1>3 DEF Rewarded, TablesOK
<1> HIDE DEF r, v
<1> QED
  BY <1>3, <1>4, <1>6, <1>7, <1>9, <1>10 DEF TablesOK

\* A handler keeps the tables well typed.
LEMMA HandleType ==
    ASSUME TablesOK, NEW h \in Handlers, Handle(h)
    PROVE  TablesOK'
<1>1. ASSUME NEW r \in Requests, Receive(h, r) PROVE TablesOK'
  <2>1. [req |-> r, open |-> FALSE] \in Tx
    BY <1>1 DEF Tx
  <2> QED
    BY <1>1, <2>1 DEF Receive, tables, TablesOK
<1>2. CASE Hit(h) \/ Conflict(h) \/ LoseKeyRace(h) \/ Abort(h) \/ Refuse(h)
  BY <1>2 DEF Hit, Conflict, LoseKeyRace, Abort, Refuse, Idle, tables, TablesOK
<1>3. CASE Miss(h)
  <2>1. tx[h] \in Tx
    BY <1>3, RequestType DEF Miss, Looking
  <2>2. [tx[h] EXCEPT !.open = TRUE] \in Tx
    BY <2>1 DEF Tx
  <2> QED
    BY <1>3, <2>2 DEF Miss, tables, TablesOK
<1>4. CASE CommitStart(h)
  <2> DEFINE r == tx[h].req
  <2>1. tx[h] # None
    BY <1>4 DEF CommitStart, MayCommit, Open
  <2>2. r \in Request
    BY <2>1, RequestType
  <2>3. Started(r) \in Attempt
    <3>1. NewAttempt(r) \in Attempt
      BY <2>2, NothingYet DEF NewAttempt, Attempt, Request
    <3> QED
      BY <3>1, <2>2, AttemptType DEF Started, Request
  <2>4. StartResult(r) \in Result
    BY <2>2, <2>3, NothingYet DEF StartResult, Result, Attempt, Request
  <2>5. idem' \in [IdemId -> IdemRecord \cup {None}] /\ tx' \in [Handlers -> Tx \cup {None}]
    BY <1>4, <2>1, <2>4, CommitType DEF CommitStart
  <2>6. attempts' \in [Attempts -> Attempt \cup {None}]
    BY <1>4, <2>2, <2>3 DEF CommitStart, TablesOK
  <2> QED
    BY <1>4, <2>5, <2>6 DEF CommitStart, TablesOK
<1>5. CASE CommitProgress(h)
  <2> DEFINE r == tx[h].req
  <2>1. tx[h] # None
    BY <1>5 DEF CommitProgress, MayCommit, Open
  <2>2. r \in Request /\ attempts[r.attempt] # None
    BY <1>5, <2>1, RequestType DEF CommitProgress, ProgressFits, Owned
  <2>3. Progressed(r) \in Attempt
    <3>1. attempts[r.attempt] \in Attempt /\ r.found \in SUBSET Diffs
      BY <2>2, AttemptType DEF Request
    <3>2. MergedHints(r) \in HintCount
      BY <2>2, MergedType
    <3> QED
      BY <3>1, <3>2 DEF Progressed, Attempt
  <2>4. AttemptResult(r.attempt, Progressed(r), best, 0) \in Result
    BY <2>2, <2>3, AttemptResultType DEF TablesOK, Request
  <2>5. idem' \in [IdemId -> IdemRecord \cup {None}] /\ tx' \in [Handlers -> Tx \cup {None}]
    BY <1>5, <2>1, <2>4, CommitType DEF CommitProgress
  <2>6. attempts' \in [Attempts -> Attempt \cup {None}]
    BY <1>5, <2>2, <2>3 DEF CommitProgress, TablesOK
  <2> QED
    BY <1>5, <2>5, <2>6 DEF CommitProgress, TablesOK
<1>6. CASE CommitComplete(h)
  <2> DEFINE r == tx[h].req
  <2>1. tx[h] # None
    BY <1>6 DEF CommitComplete, MayCommit, Open
  <2>2. r \in Request /\ attempts[r.attempt] # None
    BY <1>6, <2>1, RequestType DEF CommitComplete, CompleteFits, Owned
  <2>3. best' \in [Users -> [Versions -> Row \cup {None}]]
    BY <1>6, <2>1, CompleteTables
  <2>4. AttemptResult(r.attempt, Completed(r), best', 1) \in Result
    BY <2>2, <2>3, CompletedType, AttemptResultType DEF Request
  <2>5. idem' \in [IdemId -> IdemRecord \cup {None}] /\ tx' \in [Handlers -> Tx \cup {None}]
    BY <1>6, <2>1, <2>4, CommitType DEF CommitComplete
  <2>6. published' \subseteq Versions
    BY <1>6 DEF CommitComplete, TablesOK
  <2> QED
    BY <1>6, <2>1, <2>5, <2>6, CompleteTables DEF TablesOK
<1>7. CASE CommitCompleteAgain(h)
  <2> DEFINE r == tx[h].req
  <2>1. tx[h] # None
    BY <1>7 DEF CommitCompleteAgain, MayCommit, Open
  <2>2. r \in Request /\ attempts[r.attempt] # None
    BY <1>7, <2>1, RequestType DEF CommitCompleteAgain, AlreadyCompleted, Owned
  <2>3. AttemptResult(r.attempt, attempts[r.attempt], best, 0) \in Result
    BY <2>2, AttemptType, AttemptResultType DEF TablesOK, Request
  <2>4. idem' \in [IdemId -> IdemRecord \cup {None}] /\ tx' \in [Handlers -> Tx \cup {None}]
    BY <1>7, <2>1, <2>3, CommitType DEF CommitCompleteAgain
  <2> QED
    BY <1>7, <2>4 DEF CommitCompleteAgain, TablesOK
<1> QED
  BY <1>1, <1>2, <1>3, <1>4, <1>5, <1>6, <1>7 DEF Handle

LEMMA InitType == Init => TablesOK
  BY DEF Init, TablesOK

LEMMA NextType == TablesOK /\ [Next]_vars => TablesOK'
<1> SUFFICES ASSUME TablesOK, [Next]_vars PROVE TablesOK'
  OBVIOUS
<1>1. ASSUME NEW h \in Handlers, Handle(h) PROVE TablesOK'
  BY <1>1, HandleType
<1>2. ASSUME NEW u \in Users, NEW l \in Levels, Reset(u, l) PROVE TablesOK'
  <2>1. attempts' \in [Attempts -> Attempt \cup {None}]
    BY <1>2 DEF Reset, TablesOK
  <2> QED
    BY <1>2, <2>1 DEF Reset, TablesOK
<1>3. ASSUME NEW v \in Versions, Transition(v) PROVE TablesOK'
  BY <1>3 DEF Transition, TablesOK
<1>4. CASE UNCHANGED vars
  BY <1>4 DEF vars, tables, TablesOK
<1> QED
  BY <1>1, <1>2, <1>3, <1>4 DEF Next

\* The totals stay integers, of every field.
LEMMA NewTotalsType ==
    ASSUME TypeOK, NEW r \in Request, attempts[r.attempt] # None
    PROVE  NewTotals(r) \in [points : Int, levels : Int, scores : Int]
<1> DEFINE t == totals[r.user]
           old == lifetime[r.user][r.level]
           row == Scored(r)
<1>1. t \in [points : Int, levels : Int, scores : Int]
  BY DEF TypeOK, Request
<1>2. row.points \in Int /\ row.score \in Int
  BY ScoredType DEF TypeOK, Row
<1>3. old # None => old.points \in Int /\ old.score \in Int
  BY AttemptType DEF TypeOK, TablesOK, Request, Row
<1>4. t.points \in Int /\ t.levels \in Int /\ t.scores \in Int
  BY <1>1
<1>5. CASE old = None
  BY <1>2, <1>4, <1>5 DEF NewTotals
<1>6. CASE old # None /\ BetterLifetime(row, old)
  <2>1. NewTotals(r) =
          [points |-> t.points + row.points - old.points,
           levels |-> t.levels,
           scores |-> t.scores + row.score - old.score]
    BY <1>6 DEF NewTotals
  <2> DEFINE np == t.points + row.points - old.points
             ns == t.scores + row.score - old.score
  <2> HIDE DEF t, row, old
  <2>2. np \in Int /\ ns \in Int
    BY <1>2, <1>3, <1>4, <1>6
  <2>3. NewTotals(r) = [points |-> np, levels |-> t.levels, scores |-> ns]
    BY <2>1
  <2> HIDE DEF np, ns
  <2> QED
    BY <2>2, <2>3, <1>4
<1>7. CASE old # None /\ ~BetterLifetime(row, old)
  BY <1>1, <1>7 DEF NewTotals
<1> QED
  BY <1>5, <1>6, <1>7

LEMMA TotalsType ==
    ASSUME TypeOK, [Next]_vars
    PROVE  totals' \in [Users -> [points : Int, levels : Int, scores : Int]]
<1>1. ASSUME NEW h \in Handlers, CommitComplete(h)
      PROVE  totals' \in [Users -> [points : Int, levels : Int, scores : Int]]
  <2> DEFINE r == tx[h].req
  <2>1. r \in Request /\ attempts[r.attempt] # None
    BY <1>1, RequestType DEF TypeOK, CommitComplete, CompleteFits, Owned,
                             MayCommit, Open
  <2>2. NewTotals(r) \in [points : Int, levels : Int, scores : Int]
    BY <2>1, NewTotalsType
  <2>3. totals' = [totals EXCEPT ![r.user] = NewTotals(r)]
    BY <1>1 DEF CommitComplete
  <2> QED
    BY <2>2, <2>3 DEF TypeOK
<1>2. CASE UNCHANGED totals
  BY <1>2 DEF TypeOK
<1>3. (\E h \in Handlers : CommitComplete(h)) \/ UNCHANGED totals
  BY DEF Next, Handle, vars, tables, Receive, Hit, Conflict, Miss, LoseKeyRace,
         Abort, Refuse, CommitStart, CommitProgress, CommitCompleteAgain,
         Reset, Transition
<1> QED
  BY <1>1, <1>2, <1>3

LEMMA TablesCorrect == Spec => []TablesOK
<1>1. Init => TablesOK
  BY InitType
<1>2. TablesOK /\ [Next]_vars => TablesOK'
  BY NextType
<1> QED
  BY <1>1, <1>2, PTL DEF Spec

\* The tables always hold rows of their schema.
THEOREM TypeCorrect == Spec => []TypeOK
<1>1. Init => TypeOK
  BY InitType DEF Init, NoTotals, TypeOK
<1>2. TypeOK /\ [Next]_vars => TypeOK'
  BY NextType, TotalsType DEF TypeOK
<1> QED
  BY <1>1, <1>2, PTL DEF Spec

-----------------------------------------------------------------------------
(* Idempotency                                                             *)

LEMMA CommitKeepsAnswers ==
    ASSUME TablesOK, NEW h \in Handlers, MayCommit(h), NEW result,
           Commit(h, result), NEW id \in IdemId, idem[id] # None
    PROVE  idem'[id] = idem[id]
<1>1. idem[Id(tx[h].req)] = None
  BY DEF MayCommit
<1>2. idem' = [idem EXCEPT ![Id(tx[h].req)] =
                  [req |-> tx[h].req, result |-> result]]
  BY DEF Commit
<1> QED
  BY <1>1, <1>2 DEF TablesOK

LEMMA StepKeepsAnswers ==
    ASSUME TablesOK, [Next]_vars, NEW id \in IdemId, idem[id] # None
    PROVE  idem'[id] = idem[id]
<1>1. ASSUME NEW h \in Handlers, Handle(h) PROVE idem'[id] = idem[id]
  <2>1. CASE CommitStart(h)
    BY <2>1, CommitKeepsAnswers DEF CommitStart
  <2>2. CASE CommitProgress(h)
    BY <2>2, CommitKeepsAnswers DEF CommitProgress
  <2>3. CASE CommitComplete(h)
    BY <2>3, CommitKeepsAnswers DEF CommitComplete
  <2>4. CASE CommitCompleteAgain(h)
    BY <2>4, CommitKeepsAnswers DEF CommitCompleteAgain
  <2>5. CASE \/ \E r \in Requests : Receive(h, r)
             \/ Hit(h) \/ Conflict(h) \/ Miss(h)
             \/ LoseKeyRace(h) \/ Abort(h) \/ Refuse(h)
    BY <2>5 DEF Receive, Hit, Conflict, Miss, LoseKeyRace, Abort, Refuse,
                tables
  <2> QED
    BY <1>1, <2>1, <2>2, <2>3, <2>4, <2>5 DEF Handle
<1>2. ASSUME NEW u \in Users, NEW l \in Levels, Reset(u, l)
      PROVE  idem'[id] = idem[id]
  BY <1>2 DEF Reset
<1>3. ASSUME NEW v \in Versions, Transition(v) PROVE idem'[id] = idem[id]
  BY <1>3 DEF Transition
<1> QED
  BY <1>1, <1>2, <1>3 DEF Next, vars, tables

\* An answer, once recorded, is the answer for ever: a step writes only the
\* record it found missing, in the same transaction.
THEOREM AnswersStay == Spec => AnswersAreStable
<1> DEFINE Stands == \A id \in IdemId : idem[id] # None => idem'[id] = idem[id]
<1>1. TablesOK /\ [Next]_vars => [Stands]_vars
  BY StepKeepsAnswers
<1> QED
  BY <1>1, TablesCorrect, PTL DEF Spec, AnswersAreStable

-----------------------------------------------------------------------------
(* The life of an attempt                                                  *)

\* What one step does to one attempt: nothing, or delete it, or create it, or
\* record progress of an open one, or complete an open one that is proven.
AttemptStep(a) ==
    \/ attempts'[a] = attempts[a]
    \/ attempts'[a] = None
    \/ \E r \in Request :
        /\ r.attempt = a
        /\ \/ attempts[a] = None /\ attempts'[a] = NewAttempt(r)
           \/ ProgressFits(r) /\ attempts'[a] = Progressed(r)
           \/ CompleteFits(r) /\ attempts'[a] = Completed(r)

LEMMA AttemptSteps ==
    ASSUME TablesOK, [Next]_vars, NEW a \in Attempts
    PROVE  AttemptStep(a)
<1>1. ASSUME NEW h \in Handlers, Handle(h) PROVE AttemptStep(a)
  <2> DEFINE r == tx[h].req
  <2>1. CASE CommitStart(h)
    <3>1. r \in Request
      BY <2>1, RequestType DEF CommitStart, MayCommit, Open
    <3>2. attempts' = [attempts EXCEPT ![r.attempt] = Started(r)]
      BY <2>1 DEF CommitStart
    <3> QED
      BY <3>1, <3>2 DEF AttemptStep, Started, TablesOK
  <2>2. CASE CommitProgress(h)
    <3>1. r \in Request
      BY <2>2, RequestType DEF CommitProgress, MayCommit, Open
    <3>2. /\ ProgressFits(r)
          /\ attempts' = [attempts EXCEPT ![r.attempt] = Progressed(r)]
      BY <2>2 DEF CommitProgress
    <3> QED
      BY <3>1, <3>2 DEF AttemptStep, TablesOK
  <2>3. CASE CommitComplete(h)
    <3>1. r \in Request
      BY <2>3, RequestType DEF CommitComplete, MayCommit, Open
    <3>2. /\ CompleteFits(r)
          /\ attempts' = [attempts EXCEPT ![r.attempt] = Completed(r)]
      BY <2>3 DEF CommitComplete
    <3> QED
      BY <3>1, <3>2 DEF AttemptStep, TablesOK
  <2>4. CASE \/ \E q \in Requests : Receive(h, q)
             \/ Hit(h) \/ Conflict(h) \/ Miss(h) \/ LoseKeyRace(h)
             \/ Abort(h) \/ Refuse(h) \/ CommitCompleteAgain(h)
    BY <2>4 DEF Receive, Hit, Conflict, Miss, LoseKeyRace, Abort, Refuse,
                CommitCompleteAgain, tables, AttemptStep
  <2> QED
    BY <1>1, <2>1, <2>2, <2>3, <2>4 DEF Handle
<1>2. ASSUME NEW u \in Users, NEW l \in Levels, Reset(u, l)
      PROVE  AttemptStep(a)
  BY <1>2 DEF Reset, AttemptStep
<1>3. ASSUME NEW v \in Versions, Transition(v) PROVE AttemptStep(a)
  BY <1>3 DEF Transition, AttemptStep
<1>4. CASE UNCHANGED vars
  BY <1>4 DEF vars, tables, AttemptStep
<1> QED
  BY <1>1, <1>2, <1>3, <1>4 DEF Next

LEMMA InitProven == Init => CompletedIsProven
  BY DEF Init, CompletedIsProven

LEMMA NextProven ==
    TablesOK /\ CompletedIsProven /\ [Next]_vars => CompletedIsProven'
<1> SUFFICES ASSUME TablesOK, CompletedIsProven, [Next]_vars,
                    NEW a \in Attempts, attempts'[a] # None
             PROVE  LET v == attempts'[a].version IN
                    /\ attempts'[a].found \subseteq DiffsOf[v]
                    /\ v \in PuzzleVersions => attempts'[a].found = {}
                    /\ attempts'[a].state = "completed"
                       /\ v \notin PuzzleVersions =>
                            attempts'[a].found = DiffsOf[v]
  BY DEF CompletedIsProven, IsCompleted
<1>1. CASE attempts'[a] = attempts[a]
  BY <1>1 DEF CompletedIsProven, IsCompleted
<1>2. ASSUME NEW r \in Request, r.attempt = a, attempts'[a] = NewAttempt(r)
      PROVE  attempts'[a].found = {} /\ attempts'[a].state # "completed"
  BY <1>2 DEF NewAttempt
<1>3. ASSUME NEW r \in Request, r.attempt = a, ProgressFits(r),
             attempts'[a] = Progressed(r)
      PROVE  /\ attempts'[a].found \subseteq DiffsOf[attempts'[a].version]
             /\ attempts'[a].version \in PuzzleVersions =>
                    attempts'[a].found = {}
             /\ attempts'[a].state # "completed"
  <2>1. attempts[a] \in Attempt /\ attempts[a].state = "in_progress"
    BY <1>3, AttemptType DEF ProgressFits, Owned
  <2>2. /\ attempts'[a].version = attempts[a].version
        /\ attempts'[a].found = attempts[a].found \cup r.found
        /\ attempts'[a].state = "in_progress"
    BY <1>3, <2>1 DEF Progressed, Attempt
  <2>3. /\ attempts[a].version \in PuzzleVersions => r.found = {}
        /\ r.found \subseteq DiffsOf[attempts[a].version]
    BY <1>3 DEF ProgressFits
  <2> QED
    BY <1>3, <2>2, <2>3 DEF CompletedIsProven, ProgressFits, Owned
<1>4. ASSUME NEW r \in Request, r.attempt = a, CompleteFits(r),
             attempts'[a] = Completed(r)
      PROVE  LET v == attempts'[a].version IN
             IF v \in PuzzleVersions THEN attempts'[a].found = {}
             ELSE attempts'[a].found = DiffsOf[v]
  <2>1. attempts[a] # None /\ attempts[a] \in Attempt
    BY <1>4, AttemptType DEF CompleteFits, Owned
  <2>2. /\ attempts'[a].version = attempts[a].version
        /\ attempts'[a].found = Finds(r)
    BY <1>4, <2>1 DEF Completed, Attempt
  <2>3. CASE attempts[a].version \in PuzzleVersions
    BY <1>4, <2>1, <2>2, <2>3 DEF Finds, CompletedIsProven
  <2>4. CASE attempts[a].version \notin PuzzleVersions
    BY <1>4, <2>2, <2>4 DEF CompleteFits, Proven
  <2> QED
    BY <2>2, <2>3, <2>4
<1>5. AttemptStep(a)
  BY AttemptSteps
<1>6. attempts'[a].version \in PuzzleVersions
      \/ attempts'[a].version \notin PuzzleVersions
  OBVIOUS
<1> QED
  BY <1>1, <1>2, <1>3, <1>4, <1>5, <1>6 DEF AttemptStep

\* No history of requests completes an attempt that was not solved.
THEOREM OnlyProvenComplete == Spec => []CompletedIsProven
<1>1. Init => CompletedIsProven
  BY InitProven
<1>2. TablesOK /\ CompletedIsProven /\ [Next]_vars => CompletedIsProven'
  BY NextProven
<1> QED
  BY <1>1, <1>2, TablesCorrect, PTL DEF Spec

LEMMA StepKeepsCompleted ==
    ASSUME TablesOK, [Next]_vars, NEW a \in Attempts, IsCompleted(a)
    PROVE  attempts'[a] \in {attempts[a], None}
<1>1. AttemptStep(a)
  BY AttemptSteps
<1> QED
  BY <1>1 DEF AttemptStep, IsCompleted, ProgressFits, CompleteFits

\* A completed attempt is only ever deleted, never reopened or rescored.
THEOREM CompletedStays == Spec => CompletedIsFinal
<1> DEFINE Final == \A a \in Attempts :
                IsCompleted(a) => attempts'[a] \in {attempts[a], None}
<1>1. TablesOK /\ [Next]_vars => [Final]_vars
  BY StepKeepsCompleted
<1> QED
  BY <1>1, TablesCorrect, PTL DEF Spec, CompletedIsFinal

-----------------------------------------------------------------------------
(* The best rows dominate the completed attempts                           *)

\* What Complete keeps per user and level is at least as good as what was
\* there and as the new result; the same per version, by score.
LEMMA KeptRows ==
    ASSUME TablesOK, NEW r \in Request, attempts[r.attempt] # None
    PROVE  /\ NewBest(r) \in Row
           /\ NewBest(r) # None
           /\ NewBest(r) = Scored(r)
              \/ NewBest(r) = best[r.user][attempts[r.attempt].version]
           /\ NewBest(r).score >= Scored(r).score
           /\ best[r.user][attempts[r.attempt].version] # None =>
                NewBest(r).score
                    >= best[r.user][attempts[r.attempt].version].score
           /\ NewLifetime(r) \in Row
           /\ NewLifetime(r) # None
           /\ Dominates(NewLifetime(r), Scored(r).points, Scored(r).score)
           /\ lifetime[r.user][r.level] # None =>
                Dominates(NewLifetime(r), lifetime[r.user][r.level].points,
                          lifetime[r.user][r.level].score)
<1> DEFINE row == Scored(r)
           oldBest == best[r.user][attempts[r.attempt].version]
           oldLife == lifetime[r.user][r.level]
<1>1. row \in Row
  BY ScoredType
<1>2. oldBest \in Row \cup {None} /\ oldLife \in Row \cup {None}
  BY AttemptType DEF TablesOK, Request, Attempt
<1>3. /\ NewBest(r) = IF WritesBest(row, oldBest) THEN row ELSE oldBest
      /\ NewLifetime(r) = IF WritesLifetime(row, oldLife) THEN row ELSE oldLife
  BY DEF NewBest, NewLifetime
<1>4. \A x \in Row : x # None /\ x.score \in Int /\ x.points \in Int /\ x.hints \in Int
  BY NoneAssumption, ConstantsAssumption DEF Row, HintCount
<1> HIDE DEF row, oldBest, oldLife
<1>5. /\ NewBest(r) \in Row
      /\ NewBest(r) = row \/ NewBest(r) = oldBest
      /\ NewBest(r).score >= row.score
      /\ oldBest # None => NewBest(r).score >= oldBest.score
  <2>1. CASE oldBest = None
    BY <2>1, <1>1, <1>3, <1>4 DEF WritesBest
  <2>2. CASE oldBest # None /\ BetterBest(row, oldBest)
    BY <2>2, <1>1, <1>2, <1>3, <1>4 DEF WritesBest, BetterBest
  <2>3. CASE oldBest # None /\ ~BetterBest(row, oldBest)
    <3>1. oldBest \in Row /\ NewBest(r) = oldBest
      BY <2>3, <1>2, <1>3 DEF WritesBest
    <3>2. ~(row.score > oldBest.score)
      BY <2>3 DEF BetterBest
    <3> QED
      BY <3>1, <3>2, <1>1, <1>4
  <2> QED
    BY <2>1, <2>2, <2>3
<1>6. /\ NewLifetime(r) \in Row
      /\ Dominates(NewLifetime(r), row.points, row.score)
      /\ oldLife # None =>
            Dominates(NewLifetime(r), oldLife.points, oldLife.score)
  <2>1. CASE oldLife = None
    BY <2>1, <1>1, <1>3, <1>4 DEF WritesLifetime, Dominates
  <2>2. CASE oldLife # None /\ BetterLifetime(row, oldLife)
    <3>1. oldLife \in Row /\ NewLifetime(r) = row
      BY <2>2, <1>2, <1>3 DEF WritesLifetime
    <3>2. \/ row.points > oldLife.points
          \/ row.points = oldLife.points /\ row.score >= oldLife.score
      BY <2>2, <3>1, <1>1, <1>4 DEF BetterLifetime, BetterBest
    <3> QED
      BY <3>1, <3>2, <1>1, <1>4 DEF Dominates
  <2>3. CASE oldLife # None /\ ~BetterLifetime(row, oldLife)
    <3>1. oldLife \in Row /\ NewLifetime(r) = oldLife
      BY <2>3, <1>2, <1>3 DEF WritesLifetime
    <3>2. /\ ~(row.points > oldLife.points)
          /\ row.points = oldLife.points => ~(row.score > oldLife.score)
      BY <2>3 DEF BetterLifetime, BetterBest
    <3> QED
      BY <3>1, <3>2, <1>1, <1>4 DEF Dominates
  <2> QED
    BY <2>1, <2>2, <2>3
<1> QED
  BY <1>4, <1>5, <1>6 DEF row, oldBest, oldLife

LEMMA DominatesTransitive ==
    ASSUME NEW x \in Row, NEW y \in Row, NEW p \in Int, NEW s \in Int,
           Dominates(x, y.points, y.score), Dominates(y, p, s)
    PROVE  Dominates(x, p, s)
  BY DEF Dominates, Row

\* What the completion of a request means for the rows of every user.
LEMMA CompleteRows ==
    ASSUME TablesOK, NEW h \in Handlers, CommitComplete(h)
    PROVE  \E r \in Request :
            /\ attempts[r.attempt] # None
            /\ attempts[r.attempt].user = r.user
            /\ LevelOf[attempts[r.attempt].version] = r.level
            /\ attempts' = [attempts EXCEPT ![r.attempt] = Completed(r)]
            /\ best' = [best EXCEPT
                    ![r.user][attempts[r.attempt].version] = NewBest(r)]
            /\ lifetime' = [lifetime EXCEPT ![r.user][r.level] = NewLifetime(r)]
<1>1. tx[h].req \in Request
  BY RequestType DEF CommitComplete, MayCommit, Open
<1> QED
  BY <1>1 DEF CommitComplete, CompleteFits, Owned, OfLevel

\* Rows are only replaced by better ones.
LEMMA RowsGrow ==
    ASSUME TablesOK, NEW r \in Request, attempts[r.attempt] # None,
           best' = [best EXCEPT
                ![r.user][attempts[r.attempt].version] = NewBest(r)],
           lifetime' = [lifetime EXCEPT ![r.user][r.level] = NewLifetime(r)],
           NEW u \in Users
    PROVE  /\ \A l \in Levels : lifetime[u][l] # None =>
                /\ lifetime'[u][l] \in Row
                /\ Dominates(lifetime'[u][l], lifetime[u][l].points,
                             lifetime[u][l].score)
           /\ \A v \in Versions : best[u][v] # None =>
                /\ best'[u][v] \in Row
                /\ best'[u][v] # None
                /\ best'[u][v].score >= best[u][v].score
<1>1. /\ r.user \in Users /\ r.level \in Levels
      /\ attempts[r.attempt].version \in Versions
  BY AttemptType DEF Request, Attempt
<1>2. ASSUME NEW l \in Levels, lifetime[u][l] # None
      PROVE  /\ lifetime'[u][l] \in Row
             /\ Dominates(lifetime'[u][l], lifetime[u][l].points,
                          lifetime[u][l].score)
  <2>1. lifetime[u][l] \in Row
    BY <1>2 DEF TablesOK
  <2>2. CASE u = r.user /\ l = r.level
    <3>1. lifetime'[u][l] = NewLifetime(r)
      BY <1>1, <2>2 DEF TablesOK
    <3> QED
      BY <3>1, <1>2, <2>2, KeptRows
  <2>3. CASE ~(u = r.user /\ l = r.level)
    <3>1. lifetime'[u][l] = lifetime[u][l]
      BY <1>1, <2>3 DEF TablesOK
    <3> QED
      BY <3>1, <2>1, <1>2 DEF Dominates, Row
  <2> QED
    BY <2>2, <2>3
<1>3. ASSUME NEW v \in Versions, best[u][v] # None
      PROVE  /\ best'[u][v] \in Row
             /\ best'[u][v] # None
             /\ best'[u][v].score >= best[u][v].score
  <2>1. best[u][v] \in Row
    BY <1>3 DEF TablesOK
  <2>2. CASE u = r.user /\ v = attempts[r.attempt].version
    <3>1. best'[u][v] = NewBest(r)
      BY <1>1, <2>2 DEF TablesOK
    <3> QED
      BY <3>1, <1>3, <2>2, KeptRows
  <2>3. CASE ~(u = r.user /\ v = attempts[r.attempt].version)
    <3>1. best'[u][v] = best[u][v]
      BY <1>1, <2>3 DEF TablesOK
    <3> QED
      BY <3>1, <2>1, <1>3 DEF Row
  <2> QED
    BY <2>2, <2>3
<1> QED
  BY <1>2, <1>3

LEMMA InitDominates == Init => LifetimeDominates
  BY DEF Init, LifetimeDominates, RowsAgree, IsCompleted

\* A step that writes no row and completes no attempt keeps the domination.
LEMMA QuietStep ==
    ASSUME TablesOK, LifetimeDominates, UNCHANGED <<best, lifetime>>,
           \A a \in Attempts :
                IsCompleted(a)' => attempts'[a] = attempts[a]
    PROVE  LifetimeDominates'
<1>1. \A a \in Attempts : IsCompleted(a)' => IsCompleted(a)
  BY DEF IsCompleted
<1> QED
  BY <1>1 DEF LifetimeDominates, RowsAgree, Dominates, IsCompleted

LEMMA CompleteAgrees ==
    ASSUME TablesOK, RowsAgree, NEW h \in Handlers, CommitComplete(h)
    PROVE  RowsAgree'
<1>1. PICK r \in Request :
        /\ attempts[r.attempt] # None
        /\ attempts[r.attempt].user = r.user
        /\ LevelOf[attempts[r.attempt].version] = r.level
        /\ attempts' = [attempts EXCEPT ![r.attempt] = Completed(r)]
        /\ best' = [best EXCEPT
                ![r.user][attempts[r.attempt].version] = NewBest(r)]
        /\ lifetime' = [lifetime EXCEPT ![r.user][r.level] = NewLifetime(r)]
  BY CompleteRows
<1> DEFINE x == attempts[r.attempt].version
<1>2. /\ r.user \in Users /\ r.level \in Levels /\ x \in Versions
      /\ r.attempt \in Attempts
  BY <1>1, AttemptType DEF Request, Attempt
<1>3. /\ best'[r.user][x] = NewBest(r)
      /\ lifetime'[r.user][r.level] = NewLifetime(r)
  BY <1>1, <1>2 DEF TablesOK
<1>4. ASSUME NEW u \in Users, NEW v \in Versions, best'[u][v] # None
      PROVE  Dominates(lifetime'[u][LevelOf[v]], best'[u][v].points,
                       best'[u][v].score)
  <2>1. LevelOf[v] \in Levels
    BY ConstantsAssumption
  <2>2. CASE best'[u][v] = best[u][v]
    <3>1. best[u][v] # None /\ best[u][v] \in Row
      BY <1>4, <2>2 DEF TablesOK
    <3>2. /\ Dominates(lifetime[u][LevelOf[v]], best[u][v].points,
                       best[u][v].score)
          /\ lifetime[u][LevelOf[v]] # None
          /\ lifetime[u][LevelOf[v]] \in Row
      BY <3>1, <2>1 DEF RowsAgree, Dominates, TablesOK
    <3>3. /\ lifetime'[u][LevelOf[v]] \in Row
          /\ Dominates(lifetime'[u][LevelOf[v]],
                       lifetime[u][LevelOf[v]].points,
                       lifetime[u][LevelOf[v]].score)
      BY <1>1, <2>1, <3>2, RowsGrow
    <3>4. best[u][v].points \in Int /\ best[u][v].score \in Int
      BY <3>1 DEF Row
    <3> QED
      BY <2>2, <3>2, <3>3, <3>4, DominatesTransitive
  <2>3. CASE best'[u][v] # best[u][v]
    <3>1. u = r.user /\ v = x
      BY <1>1, <1>2, <2>3 DEF TablesOK
    <3>2. best'[u][v] = Scored(r)
      BY <1>1, <1>3, <2>3, <3>1, KeptRows
    <3>3. lifetime'[u][LevelOf[v]] = NewLifetime(r)
      BY <1>1, <1>3, <3>1
    <3> QED
      BY <1>1, <3>2, <3>3, KeptRows
  <2> QED
    BY <2>2, <2>3
<1> QED
  BY <1>4 DEF RowsAgree

LEMMA CompleteDominates ==
    ASSUME TablesOK, LifetimeDominates, NEW h \in Handlers, CommitComplete(h)
    PROVE  LifetimeDominates'
<1>1. PICK r \in Request :
        /\ attempts[r.attempt] # None
        /\ attempts[r.attempt].user = r.user
        /\ LevelOf[attempts[r.attempt].version] = r.level
        /\ attempts' = [attempts EXCEPT ![r.attempt] = Completed(r)]
        /\ best' = [best EXCEPT
                ![r.user][attempts[r.attempt].version] = NewBest(r)]
        /\ lifetime' = [lifetime EXCEPT ![r.user][r.level] = NewLifetime(r)]
  BY CompleteRows
<1> DEFINE x == attempts[r.attempt].version
<1>2. /\ r.user \in Users /\ r.level \in Levels /\ x \in Versions
      /\ r.attempt \in Attempts
  BY <1>1, AttemptType DEF Request, Attempt
<1>3. /\ best'[r.user][x] = NewBest(r)
      /\ lifetime'[r.user][r.level] = NewLifetime(r)
  BY <1>1, <1>2 DEF TablesOK
<1>4. Scored(r) \in Row
  BY <1>1, ScoredType
<1>5. RowsAgree'
  BY CompleteAgrees DEF LifetimeDominates
<1>6. ASSUME NEW a \in Attempts, IsCompleted(a)'
      PROVE  LET t == attempts'[a] IN
             /\ best'[t.user][t.version] # None
             /\ best'[t.user][t.version].score >= t.score
             /\ Dominates(lifetime'[t.user][LevelOf[t.version]], t.points,
                          t.score)
  <2>1. CASE a = r.attempt
    <3>1. attempts'[a] = Completed(r)
      BY <1>1, <1>2, <2>1 DEF TablesOK
    <3>2. attempts[r.attempt] \in Attempt
      BY <1>1, <1>2, AttemptType
    <3>3. /\ attempts'[a].user = r.user
          /\ attempts'[a].version = x
          /\ attempts'[a].score = Scored(r).score
          /\ attempts'[a].points = Scored(r).points
      BY <3>1, <3>2, <1>1 DEF Completed, Attempt
    <3> HIDE DEF x
    <3>4. LevelOf[x] = r.level
      BY <1>1 DEF x
    <3> QED
      BY <1>1, <1>3, <3>3, <3>4, KeptRows
  <2>2. CASE a # r.attempt
    <3>1. attempts'[a] = attempts[a]
      BY <1>1, <1>2, <2>2 DEF TablesOK
    <3> DEFINE t == attempts[a]
    <3>2. IsCompleted(a) /\ t \in Attempt
      BY <1>6, <3>1, AttemptType DEF IsCompleted
    <3>3. /\ t.user \in Users /\ t.version \in Versions
          /\ t.points \in Int /\ t.score \in Int
          /\ LevelOf[t.version] \in Levels
      BY <3>2, ConstantsAssumption DEF Attempt
    <3>4. /\ best[t.user][t.version] # None
          /\ best[t.user][t.version].score >= t.score
          /\ Dominates(lifetime[t.user][LevelOf[t.version]], t.points,
                       t.score)
          /\ lifetime[t.user][LevelOf[t.version]] # None
      BY <3>2 DEF LifetimeDominates, Dominates
    <3>5. /\ best[t.user][t.version] \in Row
          /\ lifetime[t.user][LevelOf[t.version]] \in Row
      BY <3>3, <3>4 DEF TablesOK
    <3>6. /\ best'[t.user][t.version] \in Row
          /\ best'[t.user][t.version] # None
          /\ best'[t.user][t.version].score >= best[t.user][t.version].score
      BY <1>1, <3>3, <3>4, RowsGrow
    <3>7. /\ lifetime'[t.user][LevelOf[t.version]] \in Row
          /\ Dominates(lifetime'[t.user][LevelOf[t.version]],
                       lifetime[t.user][LevelOf[t.version]].points,
                       lifetime[t.user][LevelOf[t.version]].score)
      BY <1>1, <3>3, <3>4, RowsGrow
    <3>8. Dominates(lifetime'[t.user][LevelOf[t.version]], t.points, t.score)
      BY <3>3, <3>4, <3>5, <3>7, DominatesTransitive
    <3>9. best'[t.user][t.version].score >= t.score
      BY <3>3, <3>4, <3>5, <3>6 DEF Row
    <3> QED
      BY <3>1, <3>6, <3>8, <3>9
  <2> QED
    BY <2>1, <2>2
<1> QED
  BY <1>5, <1>6 DEF LifetimeDominates

LEMMA NextDominates ==
    TablesOK /\ LifetimeDominates /\ [Next]_vars => LifetimeDominates'
<1> SUFFICES ASSUME TablesOK, LifetimeDominates, [Next]_vars
             PROVE  LifetimeDominates'
  OBVIOUS
<1>1. ASSUME NEW h \in Handlers, Handle(h) PROVE LifetimeDominates'
  <2>1. CASE CommitComplete(h)
    BY <2>1, CompleteDominates
  <2>2. CASE CommitStart(h)
    <3>1. tx[h].req \in Request
      BY <2>2, RequestType DEF CommitStart, MayCommit, Open
    <3>2. attempts' = [attempts EXCEPT ![tx[h].req.attempt] =
                            Started(tx[h].req)]
      BY <2>2 DEF CommitStart
    <3>3. \A a \in Attempts : IsCompleted(a)' => attempts'[a] = attempts[a]
      BY <3>1, <3>2 DEF TablesOK, IsCompleted, Started, NewAttempt
    <3> QED
      BY <2>2, <3>3, QuietStep DEF CommitStart
  <2>3. CASE CommitProgress(h)
    <3>1. tx[h].req \in Request
      BY <2>3, RequestType DEF CommitProgress, MayCommit, Open
    <3>2. /\ ProgressFits(tx[h].req)
          /\ attempts' = [attempts EXCEPT ![tx[h].req.attempt] =
                            Progressed(tx[h].req)]
      BY <2>3 DEF CommitProgress
    <3>3. Progressed(tx[h].req).state = "in_progress"
      BY <3>1, <3>2, AttemptType
      DEF Progressed, ProgressFits, Owned, Request, Attempt
    <3>4. \A a \in Attempts : IsCompleted(a)' => attempts'[a] = attempts[a]
      BY <3>1, <3>2, <3>3 DEF TablesOK, IsCompleted
    <3> QED
      BY <2>3, <3>4, QuietStep DEF CommitProgress
  <2>4. CASE \/ \E r \in Requests : Receive(h, r)
             \/ Hit(h) \/ Conflict(h) \/ Miss(h) \/ LoseKeyRace(h)
             \/ Abort(h) \/ Refuse(h) \/ CommitCompleteAgain(h)
    <3>1. UNCHANGED <<attempts, best, lifetime>>
      BY <2>4 DEF Receive, Hit, Conflict, Miss, LoseKeyRace, Abort, Refuse,
                  CommitCompleteAgain, tables
    <3> QED
      BY <3>1, QuietStep
  <2> QED
    BY <1>1, <2>1, <2>2, <2>3, <2>4 DEF Handle
<1>2. ASSUME NEW u \in Users, NEW l \in Levels, Reset(u, l)
      PROVE  LifetimeDominates'
  <2>1. \A a \in Attempts : IsCompleted(a)' => attempts'[a] = attempts[a]
    BY <1>2 DEF Reset, IsCompleted
  <2> QED
    BY <1>2, <2>1, QuietStep DEF Reset
<1>3. CASE (\E v \in Versions : Transition(v)) \/ UNCHANGED vars
  <2>1. UNCHANGED <<attempts, best, lifetime>>
    BY <1>3 DEF Transition, vars, tables
  <2> QED
    BY <2>1, QuietStep
<1> QED
  BY <1>1, <1>2, <1>3 DEF Next

\* The permanent row of a level is never worse than any completion of it, and
\* resets do not touch it.
THEOREM LifetimeIsBest == Spec => []LifetimeDominates
<1>1. Init => LifetimeDominates
  BY InitDominates
<1>2. TablesOK /\ LifetimeDominates /\ [Next]_vars => LifetimeDominates'
  BY NextDominates
<1> QED
  BY <1>1, <1>2, TablesCorrect, PTL DEF Spec

-----------------------------------------------------------------------------
(* Rewards and leaderboard rows follow the completions                     *)

\* A step that completes nothing: no row and no reward is written, the
\* attempts of a user who resets nothing stay completed, and whatever is
\* answered grants no reward.
Quiet ==
    /\ UNCHANGED <<best, ledger>>
    /\ \A a \in Attempts : attempts'[a] # None
            /\ attempts'[a].state = "completed" => attempts'[a] = attempts[a]
    /\ \A a \in Attempts : IsCompleted(a) /\ Keeps(attempts[a].user) =>
            attempts'[a] = attempts[a]
    /\ \A u \in Users, k \in Keys :
            LET id == <<u, "level_complete", k>> IN
            \/ idem'[id] = idem[id]
            \/ idem'[id] # None /\ idem'[id].result.reward = 0

\* What the completion of a request writes.
Completes(r, result) ==
    /\ r.route = "level_complete"
    /\ attempts[r.attempt] # None
    /\ attempts[r.attempt].user = r.user
    /\ attempts[r.attempt].state = "in_progress"
    /\ LevelOf[attempts[r.attempt].version] = r.level
    /\ attempts' = [attempts EXCEPT ![r.attempt] = Completed(r)]
    /\ best' = [best EXCEPT
            ![r.user][attempts[r.attempt].version] = NewBest(r)]
    /\ ledger' = [ledger EXCEPT ![r.attempt] = Rewarded(r)]
    /\ totals' = [totals EXCEPT ![r.user] = NewTotals(r)]
    /\ idem' = [idem EXCEPT ![Id(r)] = [req |-> r, result |-> result]]
    /\ result.attempt = r.attempt
    /\ result.reward = 1

LEMMA QuietCommit ==
    ASSUME TablesOK, NEW h \in Handlers, tx[h] # None, NEW result \in Result,
           result.reward = 0, Commit(h, result), NEW u \in Users, NEW k \in Keys
    PROVE  \/ idem'[<<u, "level_complete", k>>] = idem[<<u, "level_complete", k>>]
           \/ /\ idem'[<<u, "level_complete", k>>] # None
              /\ idem'[<<u, "level_complete", k>>].result.reward = 0
<1> DEFINE rec == [req |-> tx[h].req, result |-> result]
           id == <<u, "level_complete", k>>
<1>1. rec \in IdemRecord /\ rec # None
  BY RequestType, NoneAssumption DEF IdemRecord
<1>2. id \in IdemId /\ Id(tx[h].req) \in IdemId
  BY RequestType DEF IdemId, Routes
<1>3. idem' = [idem EXCEPT ![Id(tx[h].req)] = rec]
  BY DEF Commit
<1>4. rec.result.reward = 0
  OBVIOUS
<1> HIDE DEF rec, id
<1>5. idem'[id] = idem[id] \/ idem'[id] = rec
  BY <1>2, <1>3 DEF TablesOK
<1> QED
  BY <1>1, <1>4, <1>5 DEF id

LEMMA QuietOrComplete ==
    ASSUME TablesOK, [Next]_vars
    PROVE  Quiet \/ \E r \in Request, result \in Result : Completes(r, result)
<1>1. ASSUME NEW h \in Handlers, Handle(h)
      PROVE  Quiet \/ \E r \in Request, result \in Result : Completes(r, result)
  <2> DEFINE r == tx[h].req
  <2>1. CASE CommitStart(h)
    <3>1. tx[h] # None /\ r \in Request
      BY <2>1, RequestType DEF CommitStart, MayCommit, Open
    <3>2. attempts' = [attempts EXCEPT ![r.attempt] = Started(r)]
      BY <2>1 DEF CommitStart
    <3>3. /\ Started(r).state = "completed" =>
                Started(r) = attempts[r.attempt]
          /\ attempts[r.attempt] # None => Started(r) = attempts[r.attempt]
      BY DEF Started, NewAttempt
    <3>4. Started(r) \in Attempt
      <4>1. NewAttempt(r) \in Attempt
        BY <3>1, NothingYet DEF NewAttempt, Attempt, Request
      <4> QED
        BY <4>1, <3>1, AttemptType DEF Started, Request
    <3>5. StartResult(r) \in Result /\ StartResult(r).reward = 0
      BY <3>1, <3>4, NothingYet DEF StartResult, Result, Attempt, Request
    <3>6. \A u \in Users, k \in Keys :
            LET id == <<u, "level_complete", k>> IN
            \/ idem'[id] = idem[id]
            \/ idem'[id] # None /\ idem'[id].result.reward = 0
      BY <2>1, <3>1, <3>5, QuietCommit DEF CommitStart
    <3>7. \A a \in Attempts : \/ attempts'[a] = attempts[a]
                              \/ /\ attempts[a] = None
                                 /\ attempts'[a].state # "completed"
      BY <3>1, <3>2, <3>3 DEF TablesOK
    <3>8. \A a \in Attempts :
            /\ attempts'[a] # None /\ attempts'[a].state = "completed" =>
                    attempts'[a] = attempts[a]
            /\ IsCompleted(a) => attempts'[a] = attempts[a]
      BY <3>7 DEF IsCompleted
    <3>9. UNCHANGED <<best, ledger>>
      BY <2>1 DEF CommitStart
    <3> QED
      BY <3>6, <3>8, <3>9 DEF Quiet
  <2>2. CASE CommitProgress(h)
    <3>1. tx[h] # None /\ r \in Request /\ attempts[r.attempt] # None
      BY <2>2, RequestType
      DEF CommitProgress, MayCommit, Open, ProgressFits, Owned
    <3>2. /\ ProgressFits(r)
          /\ attempts' = [attempts EXCEPT ![r.attempt] = Progressed(r)]
      BY <2>2 DEF CommitProgress
    <3>3. Progressed(r) \in Attempt /\ Progressed(r).state = "in_progress"
      <4>1. attempts[r.attempt] \in Attempt /\ r.found \in SUBSET Diffs
        BY <3>1, AttemptType DEF Request
      <4>2. MergedHints(r) \in HintCount
        BY <3>1, MergedType
      <4> QED
        BY <3>2, <4>1, <4>2 DEF Progressed, Attempt, ProgressFits
    <3>4. /\ AttemptResult(r.attempt, Progressed(r), best, 0) \in Result
          /\ AttemptResult(r.attempt, Progressed(r), best, 0).reward = 0
      BY <3>1, <3>3, AttemptResultType DEF TablesOK, Request, AttemptResult
    <3>5. \A u \in Users, k \in Keys :
            LET id == <<u, "level_complete", k>> IN
            \/ idem'[id] = idem[id]
            \/ idem'[id] # None /\ idem'[id].result.reward = 0
      BY <2>2, <3>1, <3>4, QuietCommit DEF CommitProgress
    <3>6. \A a \in Attempts : attempts'[a] = attempts[a]
            \/ /\ attempts[a].state = "in_progress"
               /\ attempts'[a].state = "in_progress"
      BY <3>1, <3>2, <3>3 DEF TablesOK, ProgressFits
    <3> QED
      BY <2>2, <3>5, <3>6 DEF Quiet, CommitProgress, IsCompleted
  <2>3. CASE CommitComplete(h)
    <3>1. tx[h] # None /\ r \in Request /\ attempts[r.attempt] # None
      BY <2>3, RequestType
      DEF CommitComplete, MayCommit, Open, CompleteFits, Owned
    <3>2. best' \in [Users -> [Versions -> Row \cup {None}]]
      BY <2>3, <3>1, CompleteTables
    <3> DEFINE result == AttemptResult(r.attempt, Completed(r), best', 1)
    <3>3. /\ result \in Result
          /\ result.attempt = r.attempt
          /\ result.reward = 1
      BY <3>1, <3>2, CompletedType, AttemptResultType
      DEF Request, AttemptResult
    <3>4. idem' = [idem EXCEPT ![Id(r)] = [req |-> r, result |-> result]]
      BY <2>3 DEF CommitComplete, Commit
    <3> HIDE DEF result
    <3>5. Completes(r, result)
      BY <2>3, <3>3, <3>4
      DEF CommitComplete, CompleteFits, Owned, OfLevel, Completes
    <3> QED
      BY <3>1, <3>3, <3>5
  <2>4. CASE CommitCompleteAgain(h)
    <3>1. tx[h] # None /\ r \in Request /\ attempts[r.attempt] # None
      BY <2>4, RequestType
      DEF CommitCompleteAgain, MayCommit, Open, AlreadyCompleted, Owned
    <3>2. /\ AttemptResult(r.attempt, attempts[r.attempt], best, 0) \in Result
          /\ AttemptResult(r.attempt, attempts[r.attempt], best, 0).reward = 0
      BY <3>1, AttemptType, AttemptResultType
      DEF TablesOK, Request, AttemptResult
    <3>3. \A u \in Users, k \in Keys :
            LET id == <<u, "level_complete", k>> IN
            \/ idem'[id] = idem[id]
            \/ idem'[id] # None /\ idem'[id].result.reward = 0
      BY <2>4, <3>1, <3>2, QuietCommit DEF CommitCompleteAgain
    <3> QED
      BY <2>4, <3>3 DEF Quiet, CommitCompleteAgain
  <2>5. CASE \/ \E q \in Requests : Receive(h, q)
             \/ Hit(h) \/ Conflict(h) \/ Miss(h) \/ LoseKeyRace(h)
             \/ Abort(h) \/ Refuse(h)
    BY <2>5 DEF Receive, Hit, Conflict, Miss, LoseKeyRace, Abort, Refuse,
                tables, Quiet
  <2> QED
    BY <1>1, <2>1, <2>2, <2>3, <2>4, <2>5 DEF Handle
<1>2. ASSUME NEW u \in Users, NEW l \in Levels, Reset(u, l) PROVE Quiet
  <2>1. ASSUME NEW a \in Attempts, IsCompleted(a), Keeps(attempts[a].user)
        PROVE  attempts'[a] = attempts[a]
    <3>1. attempts[a].user # u
      BY <1>2, <2>1 DEF Reset, Keeps
    <3> QED
      BY <1>2, <3>1 DEF Reset
  <2>2. \A a \in Attempts : attempts'[a] # None => attempts'[a] = attempts[a]
    BY <1>2 DEF Reset
  <2> QED
    BY <1>2, <2>1, <2>2 DEF Reset, Quiet
<1>3. CASE (\E v \in Versions : Transition(v)) \/ UNCHANGED vars
  BY <1>3 DEF Transition, vars, tables, Quiet
<1> QED
  BY <1>1, <1>2, <1>3 DEF Next

\* What makes RewardedOnce inductive: an answer that grants a reward is for an
\* attempt its user has completed, so no second reward can be earned with it.
ToldIsCompleted ==
    \A u \in Users, k \in Keys :
        /\ Keeps(u)
        /\ Answered(u, "level_complete", k)
        /\ AnswerTo(u, "level_complete", k).reward = 1
        => LET a == AnswerTo(u, "level_complete", k).attempt IN
           IsCompleted(a) /\ attempts[a].user = u

RewardInv == RewardedOnce /\ ToldIsCompleted

LEMMA InitRewarded == Init => RewardInv
  BY DEF Init, RewardInv, RewardedOnce, RewardToldOnce, RewardMatchesCompletion,
         ToldIsCompleted, IsCompleted, Answered, IdemId, Routes

LEMMA RecordType ==
    ASSUME TablesOK, NEW u \in Users, NEW k \in Keys,
           idem[<<u, "level_complete", k>>] # None
    PROVE  /\ <<u, "level_complete", k>> \in IdemId
           /\ idem[<<u, "level_complete", k>>].result \in Result
           /\ idem[<<u, "level_complete", k>>].result.attempt \in Attempts
  BY DEF TablesOK, IdemId, Routes, IdemRecord, Result

LEMMA QuietRewarded ==
    ASSUME TablesOK, RewardInv, Quiet
    PROVE  RewardInv'
<1>1. ASSUME NEW u \in Users, NEW k \in Keys,
             idem'[<<u, "level_complete", k>>] # None,
             idem'[<<u, "level_complete", k>>].result.reward = 1
      PROVE  idem'[<<u, "level_complete", k>>] =
                idem[<<u, "level_complete", k>>]
  BY <1>1 DEF Quiet
<1>2. \A a \in Attempts : IsCompleted(a) /\ Keeps(attempts[a].user) =>
            attempts'[a] = attempts[a]
  BY DEF Quiet
<1>3. RewardToldOnce'
  BY <1>1 DEF RewardInv, RewardedOnce, RewardToldOnce, Answered, AnswerTo
<1>4. RewardMatchesCompletion'
  BY <1>2
  DEF RewardInv, RewardedOnce, RewardMatchesCompletion, Quiet, IsCompleted
<1>5. ASSUME NEW u \in Users, NEW k \in Keys, Keeps(u),
             idem'[<<u, "level_complete", k>>] # None,
             idem'[<<u, "level_complete", k>>].result.reward = 1
      PROVE  LET a == idem'[<<u, "level_complete", k>>].result.attempt IN
             /\ attempts'[a] # None
             /\ attempts'[a].state = "completed"
             /\ attempts'[a].user = u
  <2> DEFINE rec == idem[<<u, "level_complete", k>>]
             a == rec.result.attempt
  <2>1. idem'[<<u, "level_complete", k>>] = rec
    BY <1>1, <1>5
  <2>2. a \in Attempts /\ IsCompleted(a) /\ attempts[a].user = u
    BY <1>5, <2>1, RecordType DEF RewardInv, ToldIsCompleted, Answered, AnswerTo
  <2>3. attempts'[a] = attempts[a]
    BY <1>2, <1>5, <2>2
  <2> QED
    BY <2>1, <2>2, <2>3 DEF IsCompleted
<1>6. ToldIsCompleted'
  BY <1>5 DEF ToldIsCompleted, Answered, AnswerTo, IsCompleted
<1> QED
  BY <1>3, <1>4, <1>6 DEF RewardInv, RewardedOnce

\* An open attempt earns its one reward, for its own user.
LEMMA CompleteRewarded ==
    ASSUME TablesOK, RewardInv, NEW r \in Request, NEW result \in Result,
           Completes(r, result)
    PROVE  RewardInv'
<1> DEFINE a == r.attempt
           Rec(u, k) == idem[<<u, "level_complete", k>>]
           NewRec(u, k) == idem'[<<u, "level_complete", k>>]
<1>1. /\ a \in Attempts /\ r.user \in Users /\ r.key \in Keys
      /\ Id(r) = <<r.user, "level_complete", r.key>>
      /\ Id(r) \in IdemId
  BY DEF Request, Id, IdemId, Completes
<1>2. /\ attempts[a] \in Attempt
      /\ attempts[a].state = "in_progress"
      /\ attempts[a].user = r.user
      /\ ~IsCompleted(a)
  BY <1>1, AttemptType DEF Completes, IsCompleted
<1>3. /\ attempts'[a] = Completed(r)
      /\ \A b \in Attempts : b # a => attempts'[b] = attempts[b]
  BY <1>1 DEF Completes, TablesOK
<1>4. Completed(r) \in Attempt /\ Completed(r) # None
  BY <1>1, <1>2, NoneAssumption, CompletedType DEF Completes
<1>5. /\ attempts'[a] # None
      /\ attempts'[a].state = "completed"
      /\ attempts'[a].user = r.user
  BY <1>2, <1>3, <1>4 DEF Completed, Attempt
<1>6. /\ ledger'[a] = Rewarded(r)
      /\ \A b \in Attempts : b # a => ledger'[b] = ledger[b]
  BY <1>1 DEF Completes, TablesOK
<1>7. /\ ledger[a] # None => ~Keeps(ledger[a])
      /\ ledger'[a] = IF ledger[a] = None THEN r.user ELSE ledger[a]
  BY <1>1, <1>2, <1>6
  DEF RewardInv, RewardedOnce, RewardMatchesCompletion, Rewarded
<1>8. RewardMatchesCompletion'
  <2>1. \A b \in Attempts : attempts'[b] # None
            /\ attempts'[b].state = "completed" => ledger'[b] # None
    BY <1>1, <1>3, <1>6, <1>7, NoneAssumption
    DEF RewardInv, RewardedOnce, RewardMatchesCompletion, IsCompleted
  <2>2. ASSUME NEW b \in Attempts, ledger'[b] # None, Keeps(ledger'[b])
        PROVE  /\ attempts'[b] # None
               /\ attempts'[b].state = "completed"
               /\ attempts'[b].user = ledger'[b]
    <3>1. CASE b = a
      <4>1. ledger'[a] = r.user
        BY <1>7, <2>2, <3>1
      <4> QED
        BY <4>1, <3>1, <1>5
    <3>2. CASE b # a
      BY <1>3, <1>6, <2>2, <3>2
      DEF RewardInv, RewardedOnce, RewardMatchesCompletion, IsCompleted
    <3> QED
      BY <3>1, <3>2
  <2> QED
    BY <2>1, <2>2 DEF RewardMatchesCompletion, IsCompleted
<1> DEFINE New(u, k) == u = r.user /\ k = r.key
<1>9. ASSUME NEW u \in Users, NEW k \in Keys
      PROVE  /\ New(u, k) => NewRec(u, k).result = result
             /\ ~New(u, k) => NewRec(u, k) = Rec(u, k)
  <2> DEFINE id == <<u, "level_complete", k>>
             rec == [req |-> r, result |-> result]
  <2>1. id \in IdemId
    BY DEF IdemId, Routes
  <2>2. id = Id(r) <=> New(u, k)
    BY <1>1
  <2>3. idem' = [idem EXCEPT ![Id(r)] = rec] /\ rec.result = result
    BY DEF Completes
  <2> HIDE DEF rec, id
  <2>4. /\ id = Id(r) => idem'[id] = rec
        /\ id # Id(r) => idem'[id] = idem[id]
    BY <1>1, <2>1, <2>3 DEF TablesOK
  <2> QED
    BY <2>2, <2>3, <2>4 DEF id
<1>10. ASSUME NEW u \in Users, NEW k \in Keys, Keeps(u), ~New(u, k),
              NewRec(u, k) # None, NewRec(u, k).result.reward = 1
       PROVE  LET b == NewRec(u, k).result.attempt IN
              /\ b # a
              /\ attempts'[b] # None
              /\ attempts'[b].state = "completed"
              /\ attempts'[b].user = u
  <2>1. NewRec(u, k) = Rec(u, k)
    BY <1>9, <1>10
  <2> DEFINE b == Rec(u, k).result.attempt
  <2>2. b \in Attempts
    BY <1>10, <2>1, RecordType
  <2>3. IsCompleted(b) /\ attempts[b].user = u
    BY <1>10, <2>1 DEF RewardInv, ToldIsCompleted, Answered, AnswerTo
  <2>4. b # a /\ attempts'[b] = attempts[b]
    BY <1>2, <1>3, <2>2, <2>3
  <2> QED
    BY <2>1, <2>3, <2>4 DEF IsCompleted
<1>11. result.attempt = a
  BY DEF Completes
<1>12. RewardToldOnce'
  <2> SUFFICES ASSUME NEW u \in Users, NEW w \in Users,
                      NEW k \in Keys, NEW m \in Keys, Keeps(u), Keeps(w),
                      NewRec(u, k) # None, NewRec(w, m) # None,
                      NewRec(u, k).result.reward = 1,
                      NewRec(w, m).result.reward = 1,
                      NewRec(u, k).result.attempt = NewRec(w, m).result.attempt
               PROVE  u = w /\ k = m
    BY DEF RewardToldOnce, Answered, AnswerTo
  <2> HIDE DEF a, Rec, NewRec, New
  <2>1. CASE New(u, k) /\ New(w, m)
    BY <2>1 DEF New
  <2>2. CASE New(u, k) /\ ~New(w, m)
    BY <2>2, <1>9, <1>10, <1>11
  <2>3. CASE ~New(u, k) /\ New(w, m)
    BY <2>3, <1>9, <1>10, <1>11
  <2>4. CASE ~New(u, k) /\ ~New(w, m)
    <3>1. NewRec(u, k) = Rec(u, k) /\ NewRec(w, m) = Rec(w, m)
      BY <2>4, <1>9
    <3> QED
      BY <3>1 DEF Rec, RewardInv, RewardedOnce, RewardToldOnce, Answered,
                  AnswerTo
  <2> QED
    BY <2>1, <2>2, <2>3, <2>4
<1>13. ToldIsCompleted'
  <2> SUFFICES ASSUME NEW u \in Users, NEW k \in Keys, Keeps(u),
                      NewRec(u, k) # None, NewRec(u, k).result.reward = 1
               PROVE  LET b == NewRec(u, k).result.attempt IN
                      /\ attempts'[b] # None
                      /\ attempts'[b].state = "completed"
                      /\ attempts'[b].user = u
    BY DEF ToldIsCompleted, Answered, AnswerTo, IsCompleted
  <2> HIDE DEF Rec, NewRec
  <2>1. CASE New(u, k)
    BY <2>1, <1>5, <1>9, <1>11 DEF New
  <2>2. CASE ~New(u, k)
    BY <2>2, <1>10
  <2> QED
    BY <2>1, <2>2
<1> QED
  BY <1>8, <1>12, <1>13 DEF RewardInv, RewardedOnce

LEMMA RewardAlways == Spec => []RewardInv
<1>1. Init => RewardInv
  BY InitRewarded
<1>2. TablesOK /\ RewardInv /\ [Next]_vars => RewardInv'
  BY QuietOrComplete, QuietRewarded, CompleteRewarded
<1> QED
  BY <1>1, <1>2, TablesCorrect, PTL DEF Spec

\* Every completion is rewarded once and to its own player, and nobody is told
\* of a second reward for it: Complete pays only an attempt still in progress
\* (mysql_service.go:128), and only a reset opens one again.
THEOREM EveryRewardOnce == Spec => []RewardedOnce
<1>1. RewardInv => RewardedOnce
  BY DEF RewardInv
<1> QED
  BY <1>1, RewardAlways, PTL

LEMMA InitAttained == Init => BestIsAttained
  BY DEF Init, BestIsAttained

LEMMA QuietAttained ==
    ASSUME TablesOK, BestIsAttained, Quiet
    PROVE  BestIsAttained'
<1> SUFFICES ASSUME NEW u \in Users, NEW v \in Versions, Keeps(u),
                    best[u][v] # None
             PROVE  LET a == best[u][v].attempt IN
                    /\ attempts'[a] # None
                    /\ attempts'[a].state = "completed"
                    /\ attempts'[a].user = u
                    /\ attempts'[a].version = v
                    /\ attempts'[a].score = best[u][v].score
                    /\ attempts'[a].points = best[u][v].points
  BY DEF BestIsAttained, IsCompleted, Quiet
<1> DEFINE a == best[u][v].attempt
<1>1. a \in Attempts
  BY DEF TablesOK, Row
<1>2. IsCompleted(a) /\ attempts[a].user = u
  BY DEF BestIsAttained
<1>3. attempts'[a] = attempts[a]
  BY <1>1, <1>2 DEF Quiet
<1> QED
  BY <1>3 DEF BestIsAttained, IsCompleted

LEMMA CompleteAttained ==
    ASSUME TablesOK, BestIsAttained, NEW r \in Request, NEW result \in Result,
           Completes(r, result)
    PROVE  BestIsAttained'
<1> DEFINE x == attempts[r.attempt].version
<1>1. /\ r.attempt \in Attempts /\ r.user \in Users
      /\ attempts[r.attempt] \in Attempt
      /\ attempts[r.attempt].user = r.user
      /\ attempts[r.attempt].state = "in_progress"
      /\ x \in Versions
  BY AttemptType DEF Completes, Request, Attempt
<1>2. Completed(r) \in Attempt /\ Completed(r) # None
  BY <1>1, NoneAssumption, CompletedType DEF Completes
<1>3. /\ attempts'[r.attempt] = Completed(r)
      /\ \A b \in Attempts : b # r.attempt => attempts'[b] = attempts[b]
  BY <1>1 DEF Completes, TablesOK
<1>4. /\ attempts'[r.attempt].state = "completed"
      /\ attempts'[r.attempt].user = r.user
      /\ attempts'[r.attempt].version = x
      /\ attempts'[r.attempt].score = Scored(r).score
      /\ attempts'[r.attempt].points = Scored(r).points
  BY <1>1, <1>2, <1>3 DEF Completed, Attempt
<1>5. Scored(r).attempt = r.attempt
  BY DEF Scored
<1>6. /\ best'[r.user][x] = NewBest(r)
      /\ \A u \in Users, v \in Versions :
            ~(u = r.user /\ v = x) => best'[u][v] = best[u][v]
  BY <1>1 DEF Completes, TablesOK
<1>7. NewBest(r) = Scored(r) \/ NewBest(r) = best[r.user][x]
  BY KeptRows DEF Completes
<1> HIDE DEF x
<1>8. ASSUME NEW u \in Users, NEW v \in Versions, Keeps(u), best'[u][v] # None
      PROVE  LET a == best'[u][v].attempt IN
             /\ attempts'[a] # None
             /\ attempts'[a].state = "completed"
             /\ attempts'[a].user = u
             /\ attempts'[a].version = v
             /\ attempts'[a].score = best'[u][v].score
             /\ attempts'[a].points = best'[u][v].points
  <2>1. CASE best'[u][v] = best[u][v]
    <3> DEFINE a == best[u][v].attempt
    <3>1. a \in Attempts
      BY <1>8, <2>1 DEF TablesOK, Row
    <3>2. /\ IsCompleted(a)
          /\ attempts[a].user = u
          /\ attempts[a].version = v
          /\ attempts[a].score = best[u][v].score
          /\ attempts[a].points = best[u][v].points
      BY <1>8, <2>1 DEF BestIsAttained
    <3>3. attempts'[a] = attempts[a]
      BY <1>1, <1>3, <3>1, <3>2 DEF IsCompleted
    <3> QED
      BY <2>1, <3>2, <3>3 DEF IsCompleted
  <2>2. CASE best'[u][v] # best[u][v]
    <3>1. u = r.user /\ v = x /\ best'[u][v] = Scored(r)
      BY <1>6, <1>7, <2>2
    <3> QED
      BY <1>2, <1>3, <1>4, <1>5, <3>1
  <2> QED
    BY <2>1, <2>2
<1> QED
  BY <1>8 DEF BestIsAttained, IsCompleted

\* A leaderboard row always names an attempt that earned it: Complete writes
\* the row from the attempt it has just closed, and a row a better attempt
\* replaces is never needed again.
THEOREM BestAlwaysAttained == Spec => []BestIsAttained
<1>1. Init => BestIsAttained
  BY InitAttained
<1>2. TablesOK /\ BestIsAttained /\ [Next]_vars => BestIsAttained'
  BY QuietOrComplete, QuietAttained, CompleteAttained
<1> QED
  BY <1>1, <1>2, TablesCorrect, PTL DEF Spec

-----------------------------------------------------------------------------
(* The running totals                                                      *)

\* Replacing the row of a level takes no points back: the row it replaces is
\* one with at most as many.
LEMMA NewTotalsGrow ==
    ASSUME TypeOK, NEW r \in Request, attempts[r.attempt] # None
    PROVE  /\ NewTotals(r).points >= totals[r.user].points
           /\ NewTotals(r).levels >= totals[r.user].levels
<1> DEFINE t == totals[r.user]
           old == lifetime[r.user][r.level]
           row == Scored(r)
<1>1. t.points \in Int /\ t.levels \in Int
  BY DEF TypeOK, Request
<1>2. row.points \in Nat
  BY ScoredType DEF TypeOK, Row
<1>3. old # None => old.points \in Nat
  BY DEF TypeOK, TablesOK, Request, Row
<1>4. CASE old = None
  <2>1. /\ NewTotals(r).points = t.points + row.points
        /\ NewTotals(r).levels = t.levels + 1
    BY <1>4 DEF NewTotals
  <2> QED
    BY <1>1, <1>2, <2>1
<1>5. CASE old # None /\ BetterLifetime(row, old)
  <2>1. /\ NewTotals(r).points = t.points + row.points - old.points
        /\ NewTotals(r).levels = t.levels
    BY <1>5 DEF NewTotals
  <2>2. row.points > old.points \/ row.points = old.points
    BY <1>5 DEF BetterLifetime
  <2> HIDE DEF t, row, old
  <2>3. t.points + row.points - old.points >= t.points
    BY <1>1, <1>2, <1>3, <1>5, <2>2
  <2> QED
    BY <1>1, <2>1, <2>3 DEF t
<1>6. CASE old # None /\ ~BetterLifetime(row, old)
  <2>1. NewTotals(r) = t
    BY <1>6 DEF NewTotals
  <2> QED
    BY <1>1, <2>1
<1> QED
  BY <1>4, <1>5, <1>6

LEMMA StepKeepsTotals ==
    ASSUME TypeOK, [Next]_vars, NEW u \in Users
    PROVE  /\ totals'[u].points >= totals[u].points
           /\ totals'[u].levels >= totals[u].levels
<1>1. totals[u].points \in Int /\ totals[u].levels \in Int
  BY DEF TypeOK
<1>2. ASSUME NEW h \in Handlers, CommitComplete(h)
      PROVE  /\ totals'[u].points >= totals[u].points
             /\ totals'[u].levels >= totals[u].levels
  <2> DEFINE r == tx[h].req
  <2>1. r \in Request /\ attempts[r.attempt] # None /\ r.user \in Users
    BY <1>2, RequestType DEF TypeOK, CommitComplete, CompleteFits, Owned,
                             MayCommit, Open, Request
  <2>2. totals' = [totals EXCEPT ![r.user] = NewTotals(r)]
    BY <1>2 DEF CommitComplete
  <2>3. totals'[u] = IF u = r.user THEN NewTotals(r) ELSE totals[u]
    BY <2>1, <2>2 DEF TypeOK
  <2> QED
    BY <1>1, <2>1, <2>3, NewTotalsGrow
<1>3. (\E h \in Handlers : CommitComplete(h)) \/ UNCHANGED totals
  BY DEF Next, Handle, vars, tables, Receive, Hit, Conflict, Miss, LoseKeyRace,
         Abort, Refuse, CommitStart, CommitProgress, CommitCompleteAgain,
         Reset, Transition
<1> QED
  BY <1>1, <1>2, <1>3

\* Points and completed levels of a user never go down, whatever is retried,
\* completed again with a worse result, or reset.
THEOREM TotalsOnlyGrow == Spec => TotalsNeverDrop
<1> DEFINE Grown == \A u \in Users :
                /\ totals'[u].points >= totals[u].points
                /\ totals'[u].levels >= totals[u].levels
<1>1. TypeOK /\ [Next]_vars => [Grown]_vars
  BY StepKeepsTotals
<1> QED
  BY <1>1, TypeCorrect, PTL DEF Spec, TotalsNeverDrop

-----------------------------------------------------------------------------
(* Sums over sets, and the totals                                          *)

\* The element a fold takes next.
AnyOf(s) == CHOOSE x \in s : TRUE

\* g adds up F over the subsets of S, in the order of the fold.
Adding(F, S, g) ==
    g = [s \in SUBSET S |-> IF s = {} THEN 0 ELSE F[AnyOf(s)] + g[s \ {AnyOf(s)}]]

Total(F, S) == (CHOOSE g : Adding(F, S, g))[S]

\* Induction over finite sets: of some subsets one has none of the others below it.
LEMMA MinimalSubset ==
    ASSUME NEW S, IsFiniteSet(S), NEW B \in SUBSET SUBSET S, B # {}
    PROVE  \E b \in B : \A a \in B : a \subseteq b => a = b
<1> DEFINE R == StrictSubsetOrdering(S)
<1>1. IsWellFoundedOn(R, FiniteSubsetsOf(S))
  BY FS_StrictSubsetOrderingWellFounded
<1>2. B \subseteq FiniteSubsetsOf(S)
  BY FS_Subset DEF FiniteSubsetsOf
<1>3. PICK b \in B : \A a \in B : ~(<<a, b>> \in R)
  <2> HIDE DEF R
  <2> QED BY <1>1, <1>2, WFMin
<1> QED BY <1>2, <1>3 DEF StrictSubsetOrdering, FiniteSubsetsOf

\* Two such functions agree where they add the same.
LEMMA AddingOnce ==
    ASSUME NEW S, NEW T, NEW F, NEW H, NEW g, NEW h, Adding(F, S, g), Adding(H, T, h),
           NEW s, IsFiniteSet(s), s \subseteq S, s \subseteq T,
           \A x \in s : F[x] = H[x]
    PROVE  g[s] = h[s]
<1> DEFINE B == {t \in SUBSET s : g[t] # h[t]}
<1>1. SUFFICES B = {}
  OBVIOUS
<1>2. SUFFICES ASSUME B # {} PROVE FALSE
  OBVIOUS
<1>3. PICK b \in B : \A a \in B : a \subseteq b => a = b
  <2>1. B \in SUBSET SUBSET s
    OBVIOUS
  <2> HIDE DEF B
  <2> QED BY <1>2, <2>1, MinimalSubset
<1>4. b \in SUBSET S /\ b \in SUBSET T
  OBVIOUS
<1>5. /\ g[b] = IF b = {} THEN 0 ELSE F[AnyOf(b)] + g[b \ {AnyOf(b)}]
      /\ h[b] = IF b = {} THEN 0 ELSE H[AnyOf(b)] + h[b \ {AnyOf(b)}]
  BY <1>4 DEF Adding
<1>6. b # {}
  BY <1>5
<1>7. AnyOf(b) \in b
  BY <1>6 DEF AnyOf
<1>8. b \ {AnyOf(b)} \notin B
  BY <1>3, <1>7
<1>9. g[b \ {AnyOf(b)}] = h[b \ {AnyOf(b)}]
  BY <1>8
<1>10. F[AnyOf(b)] = H[AnyOf(b)]
  BY <1>7
<1> QED BY <1>5, <1>6, <1>9, <1>10

\* There is one for every finite set (a recursive definition alone does not say
\* so): its values at the smaller sets are those of their own functions.
LEMMA AddingExists ==
    ASSUME NEW S, IsFiniteSet(S), NEW F
    PROVE  \E g : Adding(F, S, g)
<1> DEFINE Has(t) == \E g : Adding(F, t, g)
           B == {t \in SUBSET S : ~Has(t)}
<1>1. SUFFICES ASSUME B # {} PROVE FALSE
  OBVIOUS
<1>2. PICK b \in B : \A a \in B : a \subseteq b => a = b
  <2>1. B \in SUBSET SUBSET S
    OBVIOUS
  <2> HIDE DEF B
  <2> QED BY <1>1, <2>1, MinimalSubset
<1> DEFINE G == [s \in SUBSET b |->
                   IF s = {} THEN 0 ELSE F[AnyOf(s)] + Total(F, s \ {AnyOf(s)})]
<1>3. ASSUME NEW s \in SUBSET b, s # {} PROVE AnyOf(s) \in s
  BY <1>3 DEF AnyOf
<1>4. ASSUME NEW t \in SUBSET b, t # b PROVE G[t] = Total(F, t)
  <2>1. Has(t)
    BY <1>2, <1>4
  <2> DEFINE g == CHOOSE k : Adding(F, t, k)
  <2>2. Adding(F, t, g)
    BY <2>1
  <2>3. Total(F, t) = g[t]
    BY DEF Total
  <2> HIDE DEF g
  <2>4. g[t] = IF t = {} THEN 0 ELSE F[AnyOf(t)] + g[t \ {AnyOf(t)}]
    <3>1. t \in SUBSET t
      OBVIOUS
    <3> QED BY <2>2, <3>1 DEF Adding
  <2>5. CASE t = {}
    BY <2>3, <2>4, <2>5
  <2>6. CASE t # {}
    <3> DEFINE r == t \ {AnyOf(t)}
               k == CHOOSE m : Adding(F, r, m)
    <3>1. r \in SUBSET b /\ r # b /\ r \subseteq t
      BY <1>3, <2>6
    <3>2. Has(r)
      BY <1>2, <3>1
    <3>3. Adding(F, r, k)
      BY <3>2
    <3>4. Total(F, r) = k[r]
      BY DEF Total
    <3>5. IsFiniteSet(r)
      BY <3>1, FS_Subset
    <3> HIDE DEF r, k
    <3>6. g[r] = k[r]
      BY <2>2, <3>1, <3>3, <3>5, AddingOnce
    <3>7. g[t] = F[AnyOf(t)] + g[r]
      BY <2>4, <2>6 DEF r
    <3>8. G[t] = F[AnyOf(t)] + Total(F, r)
      BY <2>6 DEF r
    <3> QED BY <2>3, <3>4, <3>6, <3>7, <3>8
  <2> QED BY <2>5, <2>6
<1>5. Adding(F, b, G)
  <2>1. ASSUME NEW s \in SUBSET b
        PROVE  G[s] = IF s = {} THEN 0 ELSE F[AnyOf(s)] + G[s \ {AnyOf(s)}]
    <3>1. CASE s = {}
      BY <3>1
    <3>2. CASE s # {}
      <4> DEFINE r == s \ {AnyOf(s)}
      <4>1. r \in SUBSET b /\ r # b
        BY <1>3, <3>2
      <4>2. G[r] = Total(F, r)
        BY <1>4, <4>1
      <4>3. G[s] = F[AnyOf(s)] + Total(F, r)
        BY <3>2
      <4> QED BY <3>2, <4>2, <4>3
    <3> QED BY <3>1, <3>2
  <2>2. [s \in SUBSET b |-> IF s = {} THEN 0 ELSE F[AnyOf(s)] + G[s \ {AnyOf(s)}]] = G
    BY <2>1
  <2> HIDE DEF G
  <2> QED BY <2>2 DEF Adding
<1> QED BY <1>2, <1>5

LEMMA TotalAdds ==
    ASSUME NEW S, IsFiniteSet(S), NEW F
    PROVE  \E g : Adding(F, S, g) /\ Total(F, S) = g[S]
  BY AddingExists DEF Total

LEMMA TotalOfNone == ASSUME NEW F PROVE Total(F, {}) = 0
<1>1. PICK g : Adding(F, {}, g) /\ Total(F, {}) = g[{}]
  BY FS_EmptySet, TotalAdds
<1> QED BY <1>1 DEF Adding

LEMMA TotalSplits ==
    ASSUME NEW S, IsFiniteSet(S), NEW F, S # {}
    PROVE  Total(F, S) = F[AnyOf(S)] + Total(F, S \ {AnyOf(S)})
<1> DEFINE T == S \ {AnyOf(S)}
<1>1. IsFiniteSet(T) /\ T \subseteq S
  BY FS_Subset
<1>2. PICK g : Adding(F, S, g) /\ Total(F, S) = g[S]
  BY TotalAdds
<1>3. PICK h : Adding(F, T, h) /\ Total(F, T) = h[T]
  BY <1>1, TotalAdds
<1>4. g[S] = F[AnyOf(S)] + g[T]
  BY <1>2 DEF Adding
<1> HIDE DEF T
<1>5. g[T] = h[T]
  BY <1>1, <1>2, <1>3, AddingOnce
<1> QED BY <1>2, <1>3, <1>4, <1>5 DEF T

LEMMA TotalAlike ==
    ASSUME NEW S, IsFiniteSet(S), NEW F, NEW H, \A x \in S : F[x] = H[x]
    PROVE  Total(F, S) = Total(H, S)
<1>1. PICK g : Adding(F, S, g) /\ Total(F, S) = g[S]
  BY TotalAdds
<1>2. PICK h : Adding(H, S, h) /\ Total(H, S) = h[S]
  BY TotalAdds
<1> QED BY <1>1, <1>2, AddingOnce

LEMMA TotalType ==
    ASSUME NEW S, IsFiniteSet(S), NEW F, \A x \in S : F[x] \in Nat
    PROVE  Total(F, S) \in Nat
<1> DEFINE B == {t \in SUBSET S : Total(F, t) \notin Nat}
<1>1. SUFFICES ASSUME B # {} PROVE FALSE
  OBVIOUS
<1>2. PICK b \in B : \A a \in B : a \subseteq b => a = b
  <2>1. B \in SUBSET SUBSET S
    OBVIOUS
  <2> HIDE DEF B
  <2> QED BY <1>1, <2>1, MinimalSubset
<1>3. b # {}
  BY TotalOfNone
<1>4. AnyOf(b) \in b
  BY <1>3 DEF AnyOf
<1> DEFINE r == b \ {AnyOf(b)}
<1>5. r \in SUBSET S /\ r # b /\ r \subseteq b
  BY <1>4
<1>6. Total(F, r) \in Nat
  BY <1>2, <1>5
<1>7. Total(F, b) = F[AnyOf(b)] + Total(F, r)
  BY <1>3, FS_Subset, TotalSplits
<1> QED BY <1>4, <1>6, <1>7

\* Any element may be taken first.
LEMMA TotalLess ==
    ASSUME NEW S, IsFiniteSet(S), NEW F, \A x \in S : F[x] \in Nat, NEW x \in S
    PROVE  Total(F, S) = F[x] + Total(F, S \ {x})
<1> DEFINE Less(t, z) == Total(F, t) = F[z] + Total(F, t \ {z})
           B == {t \in SUBSET S : \E z \in t : ~Less(t, z)}
<1>1. SUFFICES ASSUME B # {} PROVE FALSE
  OBVIOUS
<1>2. PICK b \in B : \A a \in B : a \subseteq b => a = b
  <2>1. B \in SUBSET SUBSET S
    OBVIOUS
  <2> HIDE DEF B
  <2> QED BY <1>1, <2>1, MinimalSubset
<1>3. PICK z \in b : ~Less(b, z)
  OBVIOUS
<1>4. b # {} /\ b \in SUBSET S
  OBVIOUS
<1>5. PICK y : y = AnyOf(b)
  OBVIOUS
<1>6. y \in b
  BY <1>4, <1>5 DEF AnyOf
<1>7. Less(b, y)
  BY <1>4, <1>5, FS_Subset, TotalSplits
<1>8. z # y
  BY <1>3, <1>7
<1>9. ASSUME NEW c \in SUBSET b, c # b, NEW w \in c PROVE Less(c, w)
  BY <1>2, <1>4, <1>9
<1>10. Less(b \ {y}, z)
  BY <1>3, <1>6, <1>8, <1>9
<1>11. Less(b \ {z}, y)
  BY <1>3, <1>6, <1>8, <1>9
<1>12. (b \ {y}) \ {z} = (b \ {z}) \ {y}
  OBVIOUS
<1>13. Total(F, (b \ {y}) \ {z}) \in Nat /\ F[y] \in Nat /\ F[z] \in Nat
  BY <1>3, <1>4, <1>6, FS_Subset, TotalType
<1> QED BY <1>3, <1>7, <1>10, <1>11, <1>12, <1>13

\* The sums of the model, folds over the levels, are such totals.
LEMMA SumOfPoints ==
    ASSUME NEW rows, NEW S \in SUBSET Levels, IsFiniteSet(S)
    PROVE  MapThenSumSet(LAMBDA l : rows[l].points, S)
               = Total([l \in Levels |-> rows[l].points], S)
<1> DEFINE F == [l \in Levels |-> rows[l].points]
           Sums(g) == g = [s \in SUBSET S |->
                IF s = {} THEN 0 ELSE rows[AnyOf(s)].points + g[s \ {AnyOf(s)}]]
           g == CHOOSE m : Sums(m)
<1>1. MapThenSumSet(LAMBDA l : rows[l].points, S) = g[S]
  BY DEF MapThenSumSet, MapThenFoldSet, AnyOf
<1>2. ASSUME NEW s \in SUBSET S, s # {} PROVE F[AnyOf(s)] = rows[AnyOf(s)].points
  BY <1>2 DEF AnyOf
<1>3. ASSUME NEW m PROVE Sums(m) <=> Adding(F, S, m)
  <2> DEFINE A == [s \in SUBSET S |->
                IF s = {} THEN 0 ELSE rows[AnyOf(s)].points + m[s \ {AnyOf(s)}]]
             C == [s \in SUBSET S |-> IF s = {} THEN 0 ELSE F[AnyOf(s)] + m[s \ {AnyOf(s)}]]
  <2>1. A = C
    <3> HIDE DEF F
    <3> QED BY <1>2
  <2>2. (Sums(m) <=> m = A) /\ (Adding(F, S, m) <=> m = C)
    BY DEF Adding
  <2> HIDE DEF A, C, Sums
  <2> QED BY <2>1, <2>2
<1>4. PICK h : Adding(F, S, h) /\ Total(F, S) = h[S]
  BY TotalAdds
<1>5. Adding(F, S, g)
  <2> HIDE DEF Sums
  <2> QED BY <1>3, <1>4
<1> HIDE DEF F, g
<1>6. g[S] = h[S]
  BY <1>4, <1>5, AddingOnce
<1> QED BY <1>1, <1>4, <1>6 DEF F

LEMMA SumOfScores ==
    ASSUME NEW rows, NEW S \in SUBSET Levels, IsFiniteSet(S)
    PROVE  MapThenSumSet(LAMBDA l : rows[l].score, S)
               = Total([l \in Levels |-> rows[l].score], S)
<1> DEFINE F == [l \in Levels |-> rows[l].score]
           Sums(g) == g = [s \in SUBSET S |->
                IF s = {} THEN 0 ELSE rows[AnyOf(s)].score + g[s \ {AnyOf(s)}]]
           g == CHOOSE m : Sums(m)
<1>1. MapThenSumSet(LAMBDA l : rows[l].score, S) = g[S]
  BY DEF MapThenSumSet, MapThenFoldSet, AnyOf
<1>2. ASSUME NEW s \in SUBSET S, s # {} PROVE F[AnyOf(s)] = rows[AnyOf(s)].score
  BY <1>2 DEF AnyOf
<1>3. ASSUME NEW m PROVE Sums(m) <=> Adding(F, S, m)
  <2> DEFINE A == [s \in SUBSET S |->
                IF s = {} THEN 0 ELSE rows[AnyOf(s)].score + m[s \ {AnyOf(s)}]]
             C == [s \in SUBSET S |-> IF s = {} THEN 0 ELSE F[AnyOf(s)] + m[s \ {AnyOf(s)}]]
  <2>1. A = C
    <3> HIDE DEF F
    <3> QED BY <1>2
  <2>2. (Sums(m) <=> m = A) /\ (Adding(F, S, m) <=> m = C)
    BY DEF Adding
  <2> HIDE DEF A, C, Sums
  <2> QED BY <2>1, <2>2
<1>4. PICK h : Adding(F, S, h) /\ Total(F, S) = h[S]
  BY TotalAdds
<1>5. Adding(F, S, g)
  <2> HIDE DEF Sums
  <2> QED BY <1>3, <1>4
<1> HIDE DEF F, g
<1>6. g[S] = h[S]
  BY <1>4, <1>5, AddingOnce
<1> QED BY <1>1, <1>4, <1>6 DEF F

LEMMA TotalChanged ==
    ASSUME NEW S, IsFiniteSet(S), NEW F, NEW H, NEW x \in S,
           \A y \in S : F[y] \in Nat /\ H[y] \in Nat,
           \A y \in S : y # x => F[y] = H[y]
    PROVE  Total(H, S) = Total(F, S) + H[x] - F[x]
<1> DEFINE T == S \ {x}
<1>1. IsFiniteSet(T)
  BY FS_Subset
<1>2. Total(H, T) = Total(F, T) /\ Total(F, T) \in Nat
  BY <1>1, TotalAlike, TotalType
<1>3. Total(H, S) = H[x] + Total(H, T) /\ Total(F, S) = F[x] + Total(F, T)
  BY TotalLess
<1> QED BY <1>2, <1>3

LEMMA TotalMore ==
    ASSUME NEW S, IsFiniteSet(S), NEW F, NEW H, NEW x, x \notin S,
           \A y \in S : F[y] \in Nat, H[x] \in Nat,
           \A y \in S : F[y] = H[y]
    PROVE  Total(H, S \cup {x}) = Total(F, S) + H[x]
<1> DEFINE T == S \cup {x}
<1>1. IsFiniteSet(T) /\ T \ {x} = S
  BY FS_AddElement
<1>2. \A y \in T : H[y] \in Nat
  OBVIOUS
<1>3. Total(H, T) = H[x] + Total(H, S)
  <2> HIDE DEF T
  <2>1. x \in T
    BY DEF T
  <2> QED BY <1>1, <1>2, <2>1, TotalLess
<1>4. Total(H, S) = Total(F, S) /\ Total(F, S) \in Nat
  BY TotalAlike, TotalType
<1> QED BY <1>3, <1>4

\* More levels with no fewer points each add up to no less.
LEMMA TotalGrows ==
    ASSUME NEW T, IsFiniteSet(T), NEW S \in SUBSET T, NEW F, NEW H,
           \A x \in S : F[x] \in Nat, \A x \in T : H[x] \in Nat,
           \A x \in S : F[x] <= H[x]
    PROVE  Total(F, S) <= Total(H, T)
<1> DEFINE B == {t \in SUBSET T : ~(Total(F, t \cap S) <= Total(H, t))}
<1>1. SUFFICES ASSUME B # {} PROVE FALSE
  <2>1. T \notin B => Total(F, T \cap S) <= Total(H, T)
    OBVIOUS
  <2>2. T \cap S = S
    OBVIOUS
  <2> HIDE DEF B
  <2> QED BY <2>1, <2>2
<1>2. PICK b \in B : \A a \in B : a \subseteq b => a = b
  <2>1. B \in SUBSET SUBSET T
    OBVIOUS
  <2> HIDE DEF B
  <2> QED BY <1>1, <2>1, MinimalSubset
<1>3. b \in SUBSET T /\ IsFiniteSet(b) /\ IsFiniteSet(b \cap S)
  BY FS_Subset
<1>0. ~(Total(F, b \cap S) <= Total(H, b))
  OBVIOUS
<1>4. b # {}
  <2>1. Total(F, {}) <= Total(H, {})
    BY TotalOfNone
  <2>2. {} \cap S = {}
    OBVIOUS
  <2> QED BY <2>1, <2>2
<1>5. PICK y : y \in b
  BY <1>4
<1> DEFINE c == b \ {y}
<1>6. Total(F, c \cap S) <= Total(H, c)
  BY <1>2, <1>3, <1>5
<1>7. /\ Total(F, c \cap S) \in Nat /\ Total(H, c) \in Nat /\ H[y] \in Nat
  <2>1. IsFiniteSet(c) /\ IsFiniteSet(c \cap S) /\ c \subseteq T
    BY <1>3, FS_Subset
  <2> HIDE DEF c
  <2> QED BY <1>3, <1>5, <2>1, TotalType
<1>8. Total(H, b) = H[y] + Total(H, c)
  BY <1>3, <1>5, TotalLess
<1>9. CASE y \in S
  <2>1. (b \cap S) \ {y} = c \cap S
    OBVIOUS
  <2>2. Total(F, b \cap S) = F[y] + Total(F, (b \cap S) \ {y})
    BY <1>3, <1>5, <1>9, TotalLess
  <2>3. F[y] \in Nat /\ F[y] <= H[y]
    BY <1>5, <1>9
  <2>4. Total(F, b \cap S) = F[y] + Total(F, c \cap S)
    BY <2>1, <2>2
  <2> HIDE DEF B, c
  <2> QED BY <1>0, <1>6, <1>7, <1>8, <2>3, <2>4
<1>10. CASE y \notin S
  <2>1. b \cap S = c \cap S
    BY <1>10
  <2>2. Total(F, b \cap S) = Total(F, c \cap S)
    BY <2>1
  <2> HIDE DEF B, c
  <2> QED BY <1>0, <1>6, <1>7, <1>8, <2>2
<1> QED BY <1>9, <1>10

\* The rows of a user, what they score, and their sums.
PointsIn(rows) == [l \in Levels |-> rows[l].points]
ScoresIn(rows) == [l \in Levels |-> rows[l].score]

Counted(rows) == {l \in Levels : rows[l] # None}

SumsOf(rows) ==
    [points |-> MapThenSumSet(LAMBDA l : rows[l].points, Counted(rows)),
     levels |-> Cardinality(Counted(rows)),
     scores |-> MapThenSumSet(LAMBDA l : rows[l].score, Counted(rows))]

\* Both the invariant and the rebuild speak of these sums.
LEMMA SumsAgree ==
    /\ TotalsMatchRows <=> \A u \in Users : totals[u] = SumsOf(lifetime[u])
    /\ \A u, rows : RebuiltTotals(u, rows) = SumsOf(rows)
  BY DEF TotalsMatchRows, SumsOf, Counted, RebuiltTotals

LEMMA SumsAreTotals ==
    ASSUME NEW rows, IsFiniteSet(Counted(rows))
    PROVE  SumsOf(rows) = [points |-> Total(PointsIn(rows), Counted(rows)),
                           levels |-> Cardinality(Counted(rows)),
                           scores |-> Total(ScoresIn(rows), Counted(rows))]
<1>1. Counted(rows) \in SUBSET Levels
  BY DEF Counted
<1> QED BY <1>1, SumOfPoints, SumOfScores DEF SumsOf, PointsIn, ScoresIn

RowTable == [Levels -> Row \cup {None}]

LEMMA CountedType ==
    ASSUME NEW rows \in RowTable, NEW l \in Counted(rows)
    PROVE  /\ l \in Levels /\ rows[l] \in Row
           /\ PointsIn(rows)[l] = rows[l].points /\ rows[l].points \in Nat
           /\ ScoresIn(rows)[l] = rows[l].score /\ rows[l].score \in Nat
<1>1. l \in Levels /\ rows[l] \in Row
  BY DEF Counted, RowTable
<1> QED BY <1>1 DEF Row, PointsIn, ScoresIn

LEMMA SumsType ==
    ASSUME NEW rows \in RowTable, IsFiniteSet(Counted(rows))
    PROVE  SumsOf(rows) \in [points : Nat, levels : Nat, scores : Nat]
<1>1. /\ Total(PointsIn(rows), Counted(rows)) \in Nat
      /\ Total(ScoresIn(rows), Counted(rows)) \in Nat
      /\ Cardinality(Counted(rows)) \in Nat
  BY CountedType, TotalType, FS_CardinalityType
<1> QED BY <1>1, SumsAreTotals

\* A level counted for the first time adds its row and one level.
LEMMA SumsMore ==
    ASSUME NEW rows \in RowTable, IsFiniteSet(Counted(rows)),
           NEW l \in Levels, rows[l] = None, NEW row \in Row, NEW other,
           other = [rows EXCEPT ![l] = row]
    PROVE  /\ IsFiniteSet(Counted(other))
           /\ SumsOf(other) = [points |-> SumsOf(rows).points + row.points,
                               levels |-> SumsOf(rows).levels + 1,
                               scores |-> SumsOf(rows).scores + row.score]
<1>1. other \in RowTable /\ other[l] = row
      /\ \A m \in Levels : m # l => other[m] = rows[m]
  BY DEF RowTable
<1>2. Counted(other) = Counted(rows) \cup {l} /\ l \notin Counted(rows)
  BY <1>1, NoneAssumption DEF Counted
<1>3. /\ IsFiniteSet(Counted(other))
      /\ Cardinality(Counted(other)) = Cardinality(Counted(rows)) + 1
  <2> DEFINE S == Counted(rows)
  <2>1. IsFiniteSet(S) /\ l \notin S
    BY <1>2
  <2> HIDE DEF S
  <2>2. IsFiniteSet(S \cup {l}) /\ Cardinality(S \cup {l}) = Cardinality(S) + 1
    BY <2>1, FS_AddElement
  <2> QED BY <1>2, <2>2 DEF S
<1>4. \A m \in Counted(rows) : other[m] = rows[m]
  BY <1>1, <1>2 DEF Counted
<1>5. /\ row.points \in Nat /\ row.score \in Nat
      /\ PointsIn(other)[l] = row.points /\ ScoresIn(other)[l] = row.score
  BY <1>1 DEF PointsIn, ScoresIn, Row
<1>6. \A m \in Counted(rows) :
        /\ PointsIn(rows)[m] \in Nat /\ PointsIn(other)[m] = PointsIn(rows)[m]
        /\ ScoresIn(rows)[m] \in Nat /\ ScoresIn(other)[m] = ScoresIn(rows)[m]
  BY <1>4, CountedType DEF PointsIn, ScoresIn, Counted
<1>7. /\ Total(PointsIn(other), Counted(other)) = Total(PointsIn(rows), Counted(rows)) + row.points
      /\ Total(ScoresIn(other), Counted(other)) = Total(ScoresIn(rows), Counted(rows)) + row.score
  <2> DEFINE S == Counted(rows)
             F == PointsIn(rows)
             H == PointsIn(other)
             G == ScoresIn(rows)
             K == ScoresIn(other)
  <2>1. /\ IsFiniteSet(S) /\ l \notin S
        /\ \A m \in S : F[m] \in Nat
        /\ \A m \in S : F[m] = H[m]
        /\ \A m \in S : G[m] \in Nat
        /\ \A m \in S : G[m] = K[m]
        /\ H[l] \in Nat /\ K[l] \in Nat
    BY <1>2, <1>5, <1>6
  <2> HIDE DEF S, F, H, G, K
  <2>2. Total(H, S \cup {l}) = Total(F, S) + H[l]
    BY <2>1, TotalMore
  <2>3. Total(K, S \cup {l}) = Total(G, S) + K[l]
    BY <2>1, TotalMore
  <2> QED BY <1>2, <1>5, <2>2, <2>3 DEF S, F, H, G, K
<1> QED BY <1>3, <1>7, SumsAreTotals

\* A row replaced adds the difference.
LEMMA SumsChanged ==
    ASSUME NEW rows \in RowTable, IsFiniteSet(Counted(rows)),
           NEW l \in Levels, rows[l] # None, NEW row \in Row, NEW other,
           other = [rows EXCEPT ![l] = row]
    PROVE  /\ Counted(other) = Counted(rows)
           /\ SumsOf(other) = [points |-> SumsOf(rows).points + row.points - rows[l].points,
                               levels |-> SumsOf(rows).levels,
                               scores |-> SumsOf(rows).scores + row.score - rows[l].score]
<1>1. other \in RowTable /\ other[l] = row
      /\ \A m \in Levels : m # l => other[m] = rows[m]
  BY DEF RowTable
<1>2. Counted(other) = Counted(rows) /\ l \in Counted(rows)
  BY <1>1, NoneAssumption DEF Counted
<1>3. /\ PointsIn(other)[l] = row.points /\ PointsIn(rows)[l] = rows[l].points
      /\ ScoresIn(other)[l] = row.score /\ ScoresIn(rows)[l] = rows[l].score
  BY <1>1 DEF PointsIn, ScoresIn
<1>4. \A m \in Counted(rows) :
        /\ PointsIn(rows)[m] \in Nat /\ PointsIn(other)[m] \in Nat
        /\ ScoresIn(rows)[m] \in Nat /\ ScoresIn(other)[m] \in Nat
  BY <1>1, <1>2, CountedType
<1>5. \A m \in Counted(rows) : m # l =>
        /\ PointsIn(other)[m] = PointsIn(rows)[m]
        /\ ScoresIn(other)[m] = ScoresIn(rows)[m]
  BY <1>1 DEF PointsIn, ScoresIn, Counted
<1>6. /\ Total(PointsIn(other), Counted(rows))
            = Total(PointsIn(rows), Counted(rows)) + row.points - rows[l].points
      /\ Total(ScoresIn(other), Counted(rows))
            = Total(ScoresIn(rows), Counted(rows)) + row.score - rows[l].score
  <2> DEFINE S == Counted(rows)
             F == PointsIn(rows)
             H == PointsIn(other)
             G == ScoresIn(rows)
             K == ScoresIn(other)
  <2>1. /\ IsFiniteSet(S) /\ l \in S
        /\ \A m \in S : F[m] \in Nat /\ H[m] \in Nat
        /\ \A m \in S : m # l => F[m] = H[m]
        /\ \A m \in S : G[m] \in Nat /\ K[m] \in Nat
        /\ \A m \in S : m # l => G[m] = K[m]
    BY <1>2, <1>4, <1>5
  <2> HIDE DEF S, F, H, G, K
  <2>2. Total(H, S) = Total(F, S) + H[l] - F[l]
    BY <2>1, TotalChanged
  <2>3. Total(K, S) = Total(G, S) + K[l] - G[l]
    BY <2>1, TotalChanged
  <2> QED BY <1>3, <2>2, <2>3 DEF S, F, H, G, K
<1> QED BY <1>2, <1>6, SumsAreTotals

\* With more levels counted, and none with fewer points, points and levels grow.
LEMMA SumsGrow ==
    ASSUME NEW rows \in RowTable, NEW other \in RowTable,
           IsFiniteSet(Counted(other)), Counted(rows) \subseteq Counted(other),
           \A l \in Counted(rows) : other[l].points >= rows[l].points
    PROVE  /\ SumsOf(other).points >= SumsOf(rows).points
           /\ SumsOf(other).levels >= SumsOf(rows).levels
<1>1. IsFiniteSet(Counted(rows)) /\ Cardinality(Counted(rows)) <= Cardinality(Counted(other))
  BY FS_Subset
<1>2. \A l \in Counted(rows) : PointsIn(rows)[l] \in Nat
  BY CountedType
<1>3. \A l \in Counted(other) : PointsIn(other)[l] \in Nat
  BY CountedType
<1>4. \A l \in Counted(rows) : PointsIn(rows)[l] <= PointsIn(other)[l]
  <2> SUFFICES ASSUME NEW l \in Counted(rows)
               PROVE  PointsIn(rows)[l] <= PointsIn(other)[l]
    OBVIOUS
  <2>1. l \in Counted(other)
    OBVIOUS
  <2>2. PointsIn(rows)[l] = rows[l].points /\ PointsIn(other)[l] = other[l].points
        /\ rows[l].points \in Nat /\ other[l].points \in Nat
    BY <2>1, CountedType
  <2> QED BY <2>2
<1>5. Total(PointsIn(rows), Counted(rows)) <= Total(PointsIn(other), Counted(other))
  BY <1>2, <1>3, <1>4, TotalGrows
<1>6. /\ Total(PointsIn(rows), Counted(rows)) \in Nat
      /\ Total(PointsIn(other), Counted(other)) \in Nat
      /\ Cardinality(Counted(rows)) \in Nat /\ Cardinality(Counted(other)) \in Nat
  BY <1>1, <1>2, <1>3, TotalType, FS_CardinalityType
<1> QED BY <1>1, <1>5, <1>6, SumsAreTotals

\* Only finitely many levels are counted, though there may be any number.
FewCounted == \A u \in Users : IsFiniteSet(Counted(lifetime[u]))

TotalsMatch == \A u \in Users : totals[u] = SumsOf(lifetime[u])

\* What is inductive.
SumsInv == TypeOK /\ FewCounted /\ TotalsMatch

LEMMA RowTables == TablesOK => \A u \in Users : lifetime[u] \in RowTable
  BY DEF TablesOK, RowTable

\* The differences that Complete adds keep the totals of its user the sums.
LEMMA NewTotalsMatch ==
    ASSUME TypeOK, NEW r \in Request, attempts[r.attempt] # None,
           IsFiniteSet(Counted(lifetime[r.user])),
           totals[r.user] = SumsOf(lifetime[r.user]),
           NEW other, other = [lifetime[r.user] EXCEPT ![r.level] = NewLifetime(r)]
    PROVE  IsFiniteSet(Counted(other)) /\ NewTotals(r) = SumsOf(other)
<1> DEFINE rows == lifetime[r.user]
           row == Scored(r)
<1>1. /\ rows \in RowTable /\ r.level \in Levels /\ row \in Row
  BY RowTables, ScoredType DEF TypeOK, Request
<1>2. row # None
  BY <1>1, NoneAssumption
<1>3. CASE rows[r.level] = None
  <2>1. NewLifetime(r) = row
    BY <1>3 DEF NewLifetime, WritesLifetime
  <2>2. NewTotals(r) = [points |-> totals[r.user].points + row.points,
                        levels |-> totals[r.user].levels + 1,
                        scores |-> totals[r.user].scores + row.score]
    BY <1>3 DEF NewTotals
  <2> HIDE DEF rows, row
  <2> QED BY <1>1, <1>3, <2>1, <2>2, SumsMore DEF rows
<1>4. CASE rows[r.level] # None /\ BetterLifetime(row, rows[r.level])
  <2>1. NewLifetime(r) = row
    BY <1>4 DEF NewLifetime, WritesLifetime
  <2>2. NewTotals(r) = [points |-> totals[r.user].points + row.points - rows[r.level].points,
                        levels |-> totals[r.user].levels,
                        scores |-> totals[r.user].scores + row.score - rows[r.level].score]
    BY <1>4 DEF NewTotals
  <2> HIDE DEF rows, row
  <2> QED BY <1>1, <1>4, <2>1, <2>2, SumsChanged DEF rows
<1>5. CASE rows[r.level] # None /\ ~BetterLifetime(row, rows[r.level])
  <2>1. NewLifetime(r) = rows[r.level]
    BY <1>5 DEF NewLifetime, WritesLifetime
  <2>2. NewTotals(r) = totals[r.user]
    BY <1>5 DEF NewTotals
  <2>3. other = rows
    BY <1>1, <2>1 DEF RowTable
  <2> QED BY <2>2, <2>3
<1> QED BY <1>3, <1>4, <1>5

LEMMA SumsStep ==
    ASSUME SumsInv, [Next]_vars
    PROVE  SumsInv'
<1>1. TypeOK' /\ TablesOK
  BY NextType, TotalsType DEF SumsInv, TypeOK
<1>2. ASSUME NEW h \in Handlers, CommitComplete(h), NEW u \in Users
      PROVE  IsFiniteSet(Counted(lifetime'[u])) /\ totals'[u] = SumsOf(lifetime'[u])
  <2> DEFINE r == tx[h].req
  <2>1. /\ r \in Request /\ r.user \in Users /\ attempts[r.attempt] # None
    BY <1>1, <1>2, RequestType DEF CommitComplete, CompleteFits, Owned, MayCommit, Open, Request
  <2>2. /\ lifetime' = [lifetime EXCEPT ![r.user][r.level] = NewLifetime(r)]
        /\ totals' = [totals EXCEPT ![r.user] = NewTotals(r)]
    BY <1>2 DEF CommitComplete
  <2>3. /\ lifetime'[u] = IF u = r.user
                          THEN [lifetime[u] EXCEPT ![r.level] = NewLifetime(r)]
                          ELSE lifetime[u]
        /\ totals'[u] = IF u = r.user THEN NewTotals(r) ELSE totals[u]
    BY <1>1, <2>1, <2>2 DEF SumsInv, TypeOK, TablesOK
  <2>4. IsFiniteSet(Counted(lifetime[u])) /\ totals[u] = SumsOf(lifetime[u])
    BY DEF SumsInv, FewCounted, TotalsMatch
  <2> HIDE DEF r
  <2> QED BY <2>1, <2>3, <2>4, NewTotalsMatch DEF SumsInv
<1>3. CASE UNCHANGED <<lifetime, totals>>
  BY <1>1, <1>3 DEF SumsInv, FewCounted, TotalsMatch
<1>4. (\E h \in Handlers : CommitComplete(h)) \/ UNCHANGED <<lifetime, totals>>
  BY DEF Next, Handle, vars, tables, Receive, Hit, Conflict, Miss, LoseKeyRace,
         Abort, Refuse, CommitStart, CommitProgress, CommitCompleteAgain,
         Reset, Transition
<1>5. CASE \E h \in Handlers : CommitComplete(h)
  BY <1>1, <1>2, <1>5 DEF SumsInv, FewCounted, TotalsMatch
<1> QED BY <1>3, <1>4, <1>5

LEMMA SumsInit == Init => SumsInv
<1> SUFFICES ASSUME Init PROVE SumsInv
  OBVIOUS
<1>1. TypeOK
  BY InitType DEF Init, NoTotals, TypeOK
<1>2. ASSUME NEW u \in Users PROVE Counted(lifetime[u]) = {} /\ totals[u] = SumsOf(lifetime[u])
  <2>1. Counted(lifetime[u]) = {}
    BY DEF Init, Counted
  <2>2. SumsOf(lifetime[u]) = [points |-> 0, levels |-> 0, scores |-> 0]
    BY <2>1, FS_EmptySet, TotalOfNone, SumsAreTotals
  <2> QED BY <2>1, <2>2 DEF Init, NoTotals
<1> QED BY <1>1, <1>2, FS_EmptySet DEF SumsInv, FewCounted, TotalsMatch

\* user_score_totals, which Complete keeps by adding differences, is always the
\* sum over the rows per level, with any number of levels.
THEOREM TotalsAreSums == Spec => []TotalsMatchRows
<1>1. SumsInv /\ [Next]_vars => SumsInv'
  BY SumsStep
<1>2. SumsInv => TotalsMatchRows
  BY SumsAgree DEF SumsInv, TotalsMatch
<1> QED BY <1>1, <1>2, SumsInit, PTL DEF Spec

-----------------------------------------------------------------------------
(* The rebuild of scores.  A rebuild step changes score rows, totals, its  *)
(* lock and its snapshot, and nothing else, so the step lemmas above carry *)
(* over.  The type invariant here is TablesOK; the totals, which are sums, *)
(* follow at the end.                                                      *)

\* Every step is one of the level service or one of a rebuild.
LEMMA Steps ==
    ASSUME [RebuildNext]_rebuildVars
    PROVE  \/ [Next]_vars /\ UNCHANGED <<lock, seen>>
           \/ \E c \in Conns : Rebuild(c)
  BY DEF RebuildNext, rebuildVars

\* A rebuild changes no attempt, answer, reward or open transaction.
LEMMA RebuildKeeps ==
    ASSUME NEW c \in Conns, Rebuild(c)
    PROVE  UNCHANGED <<published, attempts, idem, ledger, tx>>
  BY DEF Rebuild, RebuildRead, RebuildWrite, RebuildFail, CloseConn, vars,
         tables

-----------------------------------------------------------------------------
(* Types                                                                   *)

LEMMA RowOfType ==
    ASSUME NEW snap \in Snapshot, NEW a \in Read(snap)
    PROVE  RowOf(snap, a) \in Row /\ RowOf(snap, a) # None
<1>1. a \in Attempts /\ snap.rows[a] \in Attempt
  BY DEF Read, Snapshot
<1>2. RowOf(snap, a) \in Row
  BY <1>1 DEF RowOf, Row, Attempt
<1> QED
  BY <1>2, NoneAssumption

LEMMA RowsOfType ==
    ASSUME NEW snap \in Snapshot, NEW vs, NEW row \in RowsOf(snap, vs)
    PROVE  row \in Row /\ row # None
  BY RowOfType DEF RowsOf

LEMMA RebuiltRowsType ==
    ASSUME NEW snap \in Snapshot
    PROVE  /\ \A v \in Versions : BestRows(snap, v) \subseteq Row \cup {None}
           /\ \A l \in Levels : LifetimeRows(snap, l) \subseteq Row \cup {None}
  BY RowsOfType DEF BestRows, LifetimeRows

LEMMA CompletedOfType ==
    ASSUME TablesOK, NEW u \in Rebuilt
    PROVE  /\ [user |-> u, rows |-> CompletedOf(u)] \in Snapshot
           /\ [user |-> u, rows |-> CompletedOf(u)] # None
           /\ \A a \in Read([user |-> u, rows |-> CompletedOf(u)]) :
                /\ CompletedOf(u)[a].state = "completed"
                /\ CompletedOf(u)[a].user = u
<1>1. CompletedOf(u) \in [Attempts -> Attempt \cup {None}]
  BY DEF CompletedOf, TablesOK
<1>2. [user |-> u, rows |-> CompletedOf(u)] \in Snapshot
  BY <1>1 DEF Snapshot
<1> QED
  BY <1>2, NoSnapshotAssumption DEF CompletedOf, Read, IsCompleted

\* What a rewrite leaves in the row tables.
LEMMA WrittenRows ==
    ASSUME NEW c \in Conns, RebuildTypeOK, RebuildWrite(c)
    PROVE  \E bests \in [Versions -> Row \cup {None}],
              rows \in [Levels -> Row \cup {None}] :
            /\ seen[c] \in Snapshot
            /\ seen[c].user \in Users
            /\ \A v \in Versions : bests[v] \in BestRows(seen[c], v)
            /\ \A l \in Levels : rows[l] \in LifetimeRows(seen[c], l)
            /\ best' = [best EXCEPT ![seen[c].user] = bests]
            /\ lifetime' = [lifetime EXCEPT ![seen[c].user] = rows]
<1>1. seen[c] \in Snapshot
  BY DEF RebuildTypeOK, RebuildWrite
<1>2. seen[c].user \in Users
  BY <1>1, RebuildAssumption DEF Snapshot
<1>3. PICK bests \in [Versions -> UNION {BestRows(seen[c], v) :
                                            v \in Versions}],
           rows \in [Levels -> UNION {LifetimeRows(seen[c], l) :
                                            l \in Levels}] :
            /\ \A v \in Versions : bests[v] \in BestRows(seen[c], v)
            /\ \A l \in Levels : rows[l] \in LifetimeRows(seen[c], l)
            /\ best' = [best EXCEPT ![seen[c].user] = bests]
            /\ lifetime' = [lifetime EXCEPT ![seen[c].user] = rows]
  BY DEF RebuildWrite
<1>4. /\ bests \in [Versions -> Row \cup {None}]
      /\ rows \in [Levels -> Row \cup {None}]
  BY <1>1, <1>3, RebuiltRowsType
<1> QED
  BY <1>1, <1>2, <1>3, <1>4

RebuildInv == TablesOK /\ RebuildTypeOK

LEMMA RebuildInitType == RebuildInit => RebuildInv
<1> SUFFICES ASSUME RebuildInit PROVE RebuildInv
  OBVIOUS
<1>1. TablesOK
  BY InitType DEF RebuildInit
<1>2. RebuildTypeOK
  BY DEF RebuildInit, RebuildTypeOK
<1> QED
  BY <1>1, <1>2 DEF RebuildInv

LEMMA RebuildNextType ==
    RebuildInv /\ [RebuildNext]_rebuildVars => RebuildInv'
<1> SUFFICES ASSUME RebuildInv, [RebuildNext]_rebuildVars PROVE RebuildInv'
  OBVIOUS
<1> USE DEF RebuildInv
<1>1. CASE [Next]_vars /\ UNCHANGED <<lock, seen>>
  <2>1. TablesOK'
    BY <1>1, NextType
  <2>2. RebuildTypeOK'
    BY <1>1 DEF RebuildTypeOK, Read, Snapshot
  <2> QED
    BY <2>1, <2>2
<1>2. ASSUME NEW c \in Conns, Rebuild(c) PROVE RebuildInv'
  <2>1. ASSUME NEW u \in Users, RebuildRead(c, u) PROVE RebuildInv'
    <3>1. TablesOK'
      BY <2>1 DEF RebuildRead, vars, tables, TablesOK
    <3>2. u \in Rebuilt /\ lock[u] \in {None, c}
      BY <2>1 DEF RebuildRead, GetsLock
    <3>3. /\ lock' = [lock EXCEPT ![u] = c]
          /\ seen' = [seen EXCEPT ![c] =
                [user |-> u, rows |-> CompletedOf(u)]]
      BY <2>1 DEF RebuildRead
    <3>4. /\ lock' \in [Users -> Conns \cup {None}]
          /\ seen' \in [Conns -> Snapshot \cup {None}]
      BY <3>2, <3>3, CompletedOfType DEF RebuildTypeOK
    <3>5. ASSUME NEW d \in Conns, seen'[d] # None
          PROVE  /\ lock'[seen'[d].user] = d
                 /\ \A a \in Read(seen'[d]) :
                    /\ seen'[d].rows[a].state = "completed"
                    /\ seen'[d].rows[a].user = seen'[d].user
      <4>1. CASE d = c
        <5>1. seen'[d] = [user |-> u, rows |-> CompletedOf(u)]
          BY <3>3, <4>1 DEF RebuildTypeOK
        <5>2. lock'[u] = c
          BY <3>3, <2>1 DEF RebuildTypeOK
        <5> QED
          BY <5>1, <5>2, <4>1, <3>2, CompletedOfType
      <4>2. CASE d # c
        <5>1. seen'[d] = seen[d]
          BY <3>3, <4>2 DEF RebuildTypeOK
        <5>2. lock[seen[d].user] = d
          BY <3>5, <5>1 DEF RebuildTypeOK
        <5>3. seen[d].user # u
          BY <5>2, <3>2, <4>2, RebuildAssumption
        <5>4. lock'[seen[d].user] = d
          BY <3>3, <5>2, <5>3 DEF RebuildTypeOK
        <5> QED
          BY <3>5, <5>1, <5>4 DEF RebuildTypeOK
      <4> QED
        BY <4>1, <4>2
    <3> QED
      BY <3>1, <3>4, <3>5 DEF RebuildTypeOK
  <2>2. CASE RebuildWrite(c)
    <3>1. PICK bests \in [Versions -> Row \cup {None}],
               rows \in [Levels -> Row \cup {None}] :
            /\ best' = [best EXCEPT ![seen[c].user] = bests]
            /\ lifetime' = [lifetime EXCEPT ![seen[c].user] = rows]
      BY <2>2, WrittenRows
    <3>2. /\ best' \in [Users -> [Versions -> Row \cup {None}]]
          /\ lifetime' \in [Users -> [Levels -> Row \cup {None}]]
      BY <3>1 DEF TablesOK
    <3>3. TablesOK'
      BY <1>2, <3>2, RebuildKeeps DEF TablesOK
    <3>4. lock' = lock /\ seen' = [seen EXCEPT ![c] = None]
      BY <2>2 DEF RebuildWrite
    <3> QED
      BY <3>3, <3>4 DEF RebuildTypeOK
  <2>3. CASE RebuildFail(c)
    <3>1. TablesOK'
      BY <2>3 DEF RebuildFail, vars, tables, TablesOK
    <3>2. seen' = [seen EXCEPT ![c] = None]
      BY <2>3 DEF RebuildFail
    <3>3. \/ lock' = [lock EXCEPT ![seen[c].user] = None]
          \/ lock' = lock
      BY <2>3 DEF RebuildFail
    <3>4. seen[c] # None /\ lock[seen[c].user] = c
      BY <2>3 DEF RebuildFail, RebuildTypeOK
    <3>5. ASSUME NEW d \in Conns, seen'[d] # None
          PROVE  seen'[d] = seen[d] /\ lock'[seen[d].user] = d
      <4>1. d # c /\ seen'[d] = seen[d] /\ lock[seen[d].user] = d
        BY <3>2, <3>5 DEF RebuildTypeOK
      <4>2. seen[d].user \in Users /\ seen[d].user # seen[c].user
        BY <4>1, <3>4, <3>5, RebuildAssumption DEF RebuildTypeOK, Snapshot
      <4> QED
        BY <3>3, <4>1, <4>2 DEF RebuildTypeOK
    <3>6. /\ lock' \in [Users -> Conns \cup {None}]
          /\ seen' \in [Conns -> Snapshot \cup {None}]
      BY <3>2, <3>3 DEF RebuildTypeOK
    <3> QED
      BY <3>1, <3>5, <3>6 DEF RebuildTypeOK
  <2>4. CASE CloseConn(c)
    <3>1. TablesOK'
      BY <2>4 DEF CloseConn, vars, tables, TablesOK
    <3>2. /\ seen' = [seen EXCEPT ![c] = None]
          /\ lock' = [u \in Users |-> IF lock[u] = c THEN None ELSE lock[u]]
      BY <2>4 DEF CloseConn
    <3>3. ASSUME NEW d \in Conns, seen'[d] # None
          PROVE  seen'[d] = seen[d] /\ lock'[seen[d].user] = d
      <4>1. d # c /\ seen'[d] = seen[d] /\ lock[seen[d].user] = d
        BY <3>2, <3>3 DEF RebuildTypeOK
      <4>2. seen[d].user \in Users
        BY <4>1, <3>3, RebuildAssumption DEF RebuildTypeOK, Snapshot
      <4> QED
        BY <3>2, <4>1, <4>2
    <3>4. /\ lock' \in [Users -> Conns \cup {None}]
          /\ seen' \in [Conns -> Snapshot \cup {None}]
      BY <3>2 DEF RebuildTypeOK
    <3> QED
      BY <3>1, <3>3, <3>4 DEF RebuildTypeOK
  <2> QED
    BY <1>2, <2>1, <2>2, <2>3, <2>4 DEF Rebuild
<1> QED
  BY <1>1, <1>2, Steps

\* Tables, locks and snapshots keep their types while scores are rebuilt.
THEOREM RebuildTypeCorrect == RebuildSpec => [](TablesOK /\ RebuildTypeOK)
<1>1. RebuildInit => RebuildInv
  BY RebuildInitType
<1>2. RebuildInv /\ [RebuildNext]_rebuildVars => RebuildInv'
  BY RebuildNextType
<1>3. RebuildSpec => []RebuildInv
  BY <1>1, <1>2, PTL DEF RebuildSpec
<1>4. RebuildInv => TablesOK /\ RebuildTypeOK
  BY DEF RebuildInv
<1> QED
  BY <1>3, <1>4, PTL

\* No two rebuilds of one user are ever open, on any number of connections:
\* an open rebuild holds the one lock of its user.
THEOREM TakeTurns == RebuildSpec => []RebuildsTakeTurns
<1>1. RebuildInv => RebuildsTakeTurns
  BY DEF RebuildInv, RebuildTypeOK, RebuildsTakeTurns
<1>2. TablesOK /\ RebuildTypeOK => RebuildInv
  BY DEF RebuildInv
<1> QED
  BY <1>1, <1>2, RebuildTypeCorrect, PTL

-----------------------------------------------------------------------------
(* The promises of the level service                                       *)

\* While scores are rebuilt, too, an answer once recorded never changes.
THEOREM AnswersStayInRebuild == RebuildSpec => AnswersAreStable
<1> DEFINE Stands == \A id \in IdemId : idem[id] # None => idem'[id] = idem[id]
<1>1. RebuildInv /\ [RebuildNext]_rebuildVars => [Stands]_vars
  <2> SUFFICES ASSUME RebuildInv, [RebuildNext]_rebuildVars,
                      NEW id \in IdemId, idem[id] # None
               PROVE  idem'[id] = idem[id]
    OBVIOUS
  <2> QED
    BY Steps, StepKeepsAnswers, RebuildKeeps DEF RebuildInv
<1>2. TablesOK /\ RebuildTypeOK => RebuildInv
  BY DEF RebuildInv
<1> QED
  BY <1>1, <1>2, RebuildTypeCorrect, PTL DEF RebuildSpec, AnswersAreStable

\* A completed attempt is only ever deleted, and by no rebuild.
THEOREM CompletedStaysInRebuild == RebuildSpec => CompletedIsFinal
<1> DEFINE Final == \A a \in Attempts :
                IsCompleted(a) => attempts'[a] \in {attempts[a], None}
<1>1. RebuildInv /\ [RebuildNext]_rebuildVars => [Final]_vars
  <2> SUFFICES ASSUME RebuildInv, [RebuildNext]_rebuildVars,
                      NEW a \in Attempts, IsCompleted(a)
               PROVE  attempts'[a] \in {attempts[a], None}
    OBVIOUS
  <2> QED
    BY Steps, StepKeepsCompleted, RebuildKeeps DEF RebuildInv
<1>2. TablesOK /\ RebuildTypeOK => RebuildInv
  BY DEF RebuildInv
<1> QED
  BY <1>1, <1>2, RebuildTypeCorrect, PTL DEF RebuildSpec, CompletedIsFinal

\* No attempt is completed unsolved, whatever is rebuilt.
THEOREM OnlyProvenInRebuild == RebuildSpec => []CompletedIsProven
<1>1. RebuildInit => CompletedIsProven
  BY InitProven DEF RebuildInit
<1>2. RebuildInv /\ CompletedIsProven /\ [RebuildNext]_rebuildVars
        => CompletedIsProven'
  <2> SUFFICES ASSUME RebuildInv, CompletedIsProven,
                      [RebuildNext]_rebuildVars
               PROVE  CompletedIsProven'
    OBVIOUS
  <2>1. CASE [Next]_vars
    BY <2>1, NextProven DEF RebuildInv
  <2>2. CASE UNCHANGED attempts
    BY <2>2 DEF CompletedIsProven, IsCompleted
  <2> QED
    BY <2>1, <2>2, Steps, RebuildKeeps
<1>3. TablesOK /\ RebuildTypeOK => RebuildInv
  BY DEF RebuildInv
<1> QED
  BY <1>1, <1>2, <1>3, RebuildTypeCorrect, PTL DEF RebuildSpec

-----------------------------------------------------------------------------
(* Two ways to the same rows                                               *)

\* The row a rebuild keeps of a level beats the one it keeps of a version.
LEMMA RebuiltAgree ==
    ASSUME NEW snap \in Snapshot, NEW v \in Versions,
           NEW x \in BestRows(snap, v), x # None,
           NEW y \in LifetimeRows(snap, LevelOf[v])
    PROVE  Dominates(y, x.points, x.score)
<1> DEFINE all == RowsOf(snap, VersionsOf(LevelOf[v]))
<1>1. x \in RowsOf(snap, {v})
  BY DEF BestRows
<1>2. x \in all
  BY <1>1 DEF RowsOf, VersionsOf
<1>3. y \in all /\ ~BetterLifetime(x, y)
  BY <1>2 DEF LifetimeRows
<1>4. x \in Row /\ y \in Row /\ y # None
  BY <1>2, <1>3, RowsOfType
<1>5. ~(x.points > y.points)
  BY <1>3 DEF BetterLifetime
<1>6. x.points = y.points => ~(x.score > y.score)
  BY <1>3 DEF BetterLifetime, BetterBest
<1>7. /\ x.points \in Int /\ y.points \in Int
      /\ x.score \in Int /\ y.score \in Int
  BY <1>4 DEF Row
<1> QED
  BY <1>4, <1>5, <1>6, <1>7 DEF Dominates

LEMMA NextAgrees ==
    ASSUME RebuildInv, RowsAgree, [Next]_vars
    PROVE  RowsAgree'
<1>1. ASSUME NEW h \in Handlers, CommitComplete(h) PROVE RowsAgree'
  BY <1>1, CompleteAgrees DEF RebuildInv
<1>2. CASE UNCHANGED <<best, lifetime>>
  BY <1>2 DEF RowsAgree, Dominates
<1>3. (\E h \in Handlers : CommitComplete(h)) \/ UNCHANGED <<best, lifetime>>
  BY DEF Next, Handle, vars, tables, Receive, Hit, Conflict, Miss, LoseKeyRace,
         Abort, Refuse, CommitStart, CommitProgress, CommitCompleteAgain,
         Reset, Transition
<1> QED
  BY <1>1, <1>2, <1>3

LEMMA WriteAgrees ==
    ASSUME RebuildInv, RowsAgree, NEW c \in Conns, RebuildWrite(c)
    PROVE  RowsAgree'
<1>1. PICK bests \in [Versions -> Row \cup {None}],
           rows \in [Levels -> Row \cup {None}] :
        /\ seen[c] \in Snapshot
        /\ seen[c].user \in Users
        /\ \A v \in Versions : bests[v] \in BestRows(seen[c], v)
        /\ \A l \in Levels : rows[l] \in LifetimeRows(seen[c], l)
        /\ best' = [best EXCEPT ![seen[c].user] = bests]
        /\ lifetime' = [lifetime EXCEPT ![seen[c].user] = rows]
  BY WrittenRows DEF RebuildInv
<1>2. SUFFICES ASSUME NEW u \in Users, NEW v \in Versions, best'[u][v] # None
               PROVE  Dominates(lifetime'[u][LevelOf[v]], best'[u][v].points,
                                best'[u][v].score)
  BY DEF RowsAgree, Dominates
<1>3. LevelOf[v] \in Levels
  BY ConstantsAssumption
<1>4. CASE u = seen[c].user
  <2>1. best'[u] = bests /\ lifetime'[u] = rows
    BY <1>1, <1>4 DEF RebuildInv, TablesOK
  <2>2. /\ bests[v] \in BestRows(seen[c], v)
        /\ bests[v] # None
        /\ rows[LevelOf[v]] \in LifetimeRows(seen[c], LevelOf[v])
    BY <1>1, <1>2, <1>3, <2>1
  <2>3. Dominates(rows[LevelOf[v]], bests[v].points, bests[v].score)
    BY <1>1, <2>2, RebuiltAgree
  <2> QED
    BY <2>1, <2>3
<1>5. CASE u # seen[c].user
  <2>1. best'[u] = best[u] /\ lifetime'[u] = lifetime[u]
    BY <1>1, <1>5 DEF RebuildInv, TablesOK
  <2> QED
    BY <1>2, <2>1 DEF RowsAgree
<1> QED
  BY <1>4, <1>5

\* The row of a level is never worse than those of its versions, whether they
\* were rebuilt or raised step by step, raced or reset in between.
THEOREM RowsAlwaysAgree == RebuildSpec => []RowsAgree
<1>1. RebuildInit => RowsAgree
  BY DEF RebuildInit, Init, RowsAgree
<1>2. RebuildInv /\ RowsAgree /\ [RebuildNext]_rebuildVars => RowsAgree'
  <2> SUFFICES ASSUME RebuildInv, RowsAgree, [RebuildNext]_rebuildVars
               PROVE  RowsAgree'
    OBVIOUS
  <2>1. CASE [Next]_vars
    BY <2>1, NextAgrees
  <2>2. ASSUME NEW c \in Conns, Rebuild(c) PROVE RowsAgree'
    <3>1. CASE RebuildWrite(c)
      BY <3>1, WriteAgrees
    <3>2. CASE UNCHANGED vars
      BY <3>2 DEF vars, tables, RowsAgree, Dominates
    <3> QED
      BY <2>2, <3>1, <3>2 DEF Rebuild, RebuildRead, RebuildFail, CloseConn
  <2> QED
    BY <2>1, <2>2, Steps
<1>3. TablesOK /\ RebuildTypeOK => RebuildInv
  BY DEF RebuildInv
<1> QED
  BY <1>1, <1>2, <1>3, RebuildTypeCorrect, PTL DEF RebuildSpec

-----------------------------------------------------------------------------
(* Sums while scores are rebuilt                                           *)

\* The attempts that are begun, or read.
BegunIn(rows) == {a \in Attempts : rows[a] # None}

\* A row of a level is one of a version of the level.
RowsFit == \A u \in Users, l \in Levels :
            lifetime[u][l] # None => LevelOf[lifetime[u][l].version] = l

\* Only finitely many attempts are begun, and read by a rebuild.
FewRead ==
    /\ IsFiniteSet(BegunIn(attempts))
    /\ \A c \in Conns : seen[c] # None => IsFiniteSet(BegunIn(seen[c].rows))

RebuildSums == RebuildInv /\ SumsInv /\ RowsFit /\ FewRead

\* A step begins one attempt at most.
LEMMA BeginsOne ==
    ASSUME TablesOK, [Next]_vars
    PROVE  \E x : BegunIn(attempts') \subseteq BegunIn(attempts) \cup {x}
<1>1. ASSUME NEW h \in Handlers, CommitStart(h)
      PROVE  BegunIn(attempts') \subseteq BegunIn(attempts) \cup {tx[h].req.attempt}
  <2>1. attempts' = [attempts EXCEPT ![tx[h].req.attempt] = Started(tx[h].req)]
    BY <1>1 DEF CommitStart
  <2> QED BY <2>1 DEF TablesOK, BegunIn
<1>2. ASSUME NEW h \in Handlers, CommitProgress(h)
      PROVE  BegunIn(attempts') \subseteq BegunIn(attempts) \cup {tx[h].req.attempt}
  <2>1. attempts' = [attempts EXCEPT ![tx[h].req.attempt] = Progressed(tx[h].req)]
    BY <1>2 DEF CommitProgress
  <2> QED BY <2>1 DEF TablesOK, BegunIn
<1>3. ASSUME NEW h \in Handlers, CommitComplete(h)
      PROVE  BegunIn(attempts') \subseteq BegunIn(attempts) \cup {tx[h].req.attempt}
  <2>1. attempts' = [attempts EXCEPT ![tx[h].req.attempt] = Completed(tx[h].req)]
    BY <1>3 DEF CommitComplete
  <2> QED BY <2>1 DEF TablesOK, BegunIn
<1>4. ASSUME NEW u \in Users, NEW l \in Levels, Reset(u, l)
      PROVE  BegunIn(attempts') \subseteq BegunIn(attempts)
  BY <1>4 DEF Reset, BegunIn
<1>5. \/ UNCHANGED attempts
      \/ \E h \in Handlers : CommitStart(h) \/ CommitProgress(h) \/ CommitComplete(h)
      \/ \E u \in Users, l \in Levels : Reset(u, l)
  BY DEF Next, Handle, vars, tables, Receive, Hit, Conflict, Miss, LoseKeyRace,
         Abort, Refuse, CommitCompleteAgain, Transition
<1> QED BY <1>1, <1>2, <1>3, <1>4, <1>5

LEMMA NextRead ==
    ASSUME TablesOK, FewRead, [Next]_vars, seen' = seen
    PROVE  FewRead'
<1>1. PICK x : BegunIn(attempts') \subseteq BegunIn(attempts) \cup {x}
  BY BeginsOne
<1>2. IsFiniteSet(BegunIn(attempts) \cup {x})
  BY FS_AddElement DEF FewRead
<1>3. IsFiniteSet(BegunIn(attempts'))
  BY <1>1, <1>2, FS_Subset
<1> QED BY <1>3 DEF FewRead

LEMMA NextFits ==
    ASSUME TablesOK, RowsFit, [Next]_vars
    PROVE  RowsFit'
<1>1. ASSUME NEW h \in Handlers, CommitComplete(h) PROVE RowsFit'
  <2>1. PICK r \in Request :
            /\ attempts[r.attempt] # None
            /\ LevelOf[attempts[r.attempt].version] = r.level
            /\ lifetime' = [lifetime EXCEPT ![r.user][r.level] = NewLifetime(r)]
    BY <1>1, CompleteRows
  <2>2. Scored(r).version = attempts[r.attempt].version
    BY DEF Scored
  <2>3. NewLifetime(r) = Scored(r) \/ NewLifetime(r) = lifetime[r.user][r.level]
    BY DEF NewLifetime
  <2>4. \A u \in Users, l \in Levels :
            \/ lifetime'[u][l] = lifetime[u][l]
            \/ l = r.level /\ lifetime'[u][l] = Scored(r)
    BY <2>1, <2>3 DEF TablesOK, Request
  <2> QED BY <2>1, <2>2, <2>4 DEF RowsFit
<1>2. CASE UNCHANGED lifetime
  BY <1>2 DEF RowsFit
<1>3. (\E h \in Handlers : CommitComplete(h)) \/ UNCHANGED lifetime
  BY DEF Next, Handle, vars, tables, Receive, Hit, Conflict, Miss, LoseKeyRace,
         Abort, Refuse, CommitStart, CommitProgress, CommitCompleteAgain,
         Reset, Transition
<1> QED BY <1>1, <1>2, <1>3

\* A row kept of a level is one of an attempt that was read.
LEMMA KeptIsRead ==
    ASSUME NEW snap \in Snapshot, NEW l \in Levels, NEW row \in LifetimeRows(snap, l),
           row # None
    PROVE  \E a \in BegunIn(snap.rows) :
            /\ row.version = snap.rows[a].version
            /\ LevelOf[snap.rows[a].version] = l
<1>1. row \in RowsOf(snap, VersionsOf(l))
  BY DEF LifetimeRows
<1>2. PICK a \in Read(snap) : row = RowOf(snap, a) /\ snap.rows[a].version \in VersionsOf(l)
  BY <1>1 DEF RowsOf
<1> QED BY <1>2 DEF Read, BegunIn, RowOf, VersionsOf

\* A rewrite keeps finitely many rows, each with its level.
LEMMA FewKept ==
    ASSUME NEW snap \in Snapshot, IsFiniteSet(BegunIn(snap.rows)), NEW rows,
           \A l \in Levels : rows[l] \in LifetimeRows(snap, l)
    PROVE  /\ IsFiniteSet(Counted(rows))
           /\ \A l \in Levels : rows[l] # None => LevelOf[rows[l].version] = l
<1> DEFINE S == BegunIn(snap.rows)
           f == [a \in S |-> LevelOf[snap.rows[a].version]]
           T == {f[a] : a \in S}
<1>1. f \in Surjection(S, T)
  BY DEF Surjection
<1>2. IsFiniteSet(T)
  <2> HIDE DEF f, T
  <2> QED BY <1>1, FS_Surjection
<1>3. Counted(rows) \subseteq T
  BY KeptIsRead DEF Counted
<1>4. \A l \in Levels : rows[l] # None => LevelOf[rows[l].version] = l
  BY KeptIsRead
<1> HIDE DEF T
<1> QED BY <1>2, <1>3, <1>4, FS_Subset

\* What a rewrite leaves, totals included.
LEMMA WrittenSums ==
    ASSUME RebuildSums, NEW c \in Conns, RebuildWrite(c)
    PROVE  \E rows \in RowTable :
            /\ seen[c] \in Snapshot /\ seen[c].user \in Users
            /\ \A l \in Levels : rows[l] \in LifetimeRows(seen[c], l)
            /\ IsFiniteSet(Counted(rows))
            /\ \A l \in Levels : rows[l] # None => LevelOf[rows[l].version] = l
            /\ lifetime' = [lifetime EXCEPT ![seen[c].user] = rows]
            /\ totals' = [totals EXCEPT ![seen[c].user] = SumsOf(rows)]
<1>1. /\ seen[c] # None /\ seen[c] \in Snapshot /\ seen[c].user \in Users
  BY RebuildAssumption DEF RebuildSums, RebuildInv, RebuildTypeOK, RebuildWrite, Snapshot
<1>2. PICK rows \in [Levels -> UNION {LifetimeRows(seen[c], l) : l \in Levels}] :
            /\ \A l \in Levels : rows[l] \in LifetimeRows(seen[c], l)
            /\ lifetime' = [lifetime EXCEPT ![seen[c].user] = rows]
            /\ totals' = [totals EXCEPT ![seen[c].user] = RebuiltTotals(seen[c].user, rows)]
  BY DEF RebuildWrite
<1>3. rows \in RowTable
  BY <1>1, <1>2, RebuiltRowsType DEF RowTable
<1>4. /\ IsFiniteSet(Counted(rows))
      /\ \A l \in Levels : rows[l] # None => LevelOf[rows[l].version] = l
  BY <1>1, <1>2, FewKept DEF RebuildSums, FewRead
<1>5. RebuiltTotals(seen[c].user, rows) = SumsOf(rows)
  BY SumsAgree
<1>6. totals' = [totals EXCEPT ![seen[c].user] = SumsOf(rows)]
  BY <1>2, <1>5
<1> QED BY <1>1, <1>2, <1>3, <1>4, <1>6

LEMMA WriteSums ==
    ASSUME RebuildSums, NEW c \in Conns, RebuildWrite(c)
    PROVE  SumsInv' /\ RowsFit'
<1>1. PICK rows \in RowTable :
            /\ seen[c] \in Snapshot /\ seen[c].user \in Users
            /\ IsFiniteSet(Counted(rows))
            /\ \A l \in Levels : rows[l] # None => LevelOf[rows[l].version] = l
            /\ lifetime' = [lifetime EXCEPT ![seen[c].user] = rows]
            /\ totals' = [totals EXCEPT ![seen[c].user] = SumsOf(rows)]
  BY WrittenSums
<1>2. TablesOK'
  BY RebuildNextType DEF RebuildSums, RebuildInv, RebuildNext, Rebuild
<1>3. SumsOf(rows) \in [points : Int, levels : Int, scores : Int]
  BY <1>1, SumsType
<1>4. TypeOK /\ TablesOK
  BY DEF RebuildSums, SumsInv, RebuildInv
<1>5. totals' \in [Users -> [points : Int, levels : Int, scores : Int]]
  BY <1>1, <1>3, <1>4 DEF TypeOK
<1>6. \A u \in Users :
        /\ lifetime'[u] = IF u = seen[c].user THEN rows ELSE lifetime[u]
        /\ totals'[u] = IF u = seen[c].user THEN SumsOf(rows) ELSE totals[u]
  BY <1>1, <1>4 DEF TypeOK, TablesOK
<1>7. FewCounted' /\ TotalsMatch'
  BY <1>1, <1>6 DEF RebuildSums, SumsInv, FewCounted, TotalsMatch
<1>8. RowsFit'
  BY <1>1, <1>6 DEF RebuildSums, RowsFit
<1> QED BY <1>2, <1>5, <1>7, <1>8 DEF SumsInv, TypeOK

LEMMA RebuildReads ==
    ASSUME RebuildSums, NEW c \in Conns, Rebuild(c)
    PROVE  FewRead'
<1>1. attempts' = attempts /\ IsFiniteSet(BegunIn(attempts))
  BY RebuildKeeps DEF RebuildSums, FewRead
<1>2. ASSUME NEW d \in Conns, seen'[d] # None PROVE IsFiniteSet(BegunIn(seen'[d].rows))
  <2>1. CASE seen'[d] = seen[d]
    BY <1>2, <2>1 DEF RebuildSums, FewRead
  <2>2. ASSUME NEW u \in Users, RebuildRead(c, u), d = c PROVE IsFiniteSet(BegunIn(seen'[d].rows))
    <3>1. seen'[d] = [user |-> u, rows |-> CompletedOf(u)]
      BY <2>2 DEF RebuildRead, RebuildSums, RebuildInv, RebuildTypeOK
    <3>2. BegunIn(CompletedOf(u)) \subseteq BegunIn(attempts)
      BY DEF BegunIn, CompletedOf
    <3>3. seen'[d].rows = CompletedOf(u)
      BY <3>1
    <3> QED BY <1>1, <3>2, <3>3, FS_Subset
  <2>3. \/ seen'[d] = seen[d]
        \/ seen'[d] = None
        \/ \E u \in Users : RebuildRead(c, u) /\ d = c
    BY DEF Rebuild, RebuildRead, RebuildWrite, RebuildFail, CloseConn,
           RebuildSums, RebuildInv, RebuildTypeOK
  <2> QED BY <1>2, <2>1, <2>2, <2>3
<1> QED BY <1>1, <1>2 DEF FewRead

LEMMA RebuildSumsStep == RebuildSums /\ [RebuildNext]_rebuildVars => RebuildSums'
<1> SUFFICES ASSUME RebuildSums, [RebuildNext]_rebuildVars PROVE RebuildSums'
  OBVIOUS
<1>1. RebuildInv'
  BY RebuildNextType DEF RebuildSums
<1>2. CASE [Next]_vars /\ UNCHANGED <<lock, seen>>
  BY <1>1, <1>2, SumsStep, NextFits, NextRead DEF RebuildSums, RebuildInv
<1>3. ASSUME NEW c \in Conns, Rebuild(c) PROVE RebuildSums'
  <2>1. FewRead'
    BY <1>3, RebuildReads
  <2>2. CASE RebuildWrite(c)
    BY <1>1, <2>1, <2>2, WriteSums DEF RebuildSums
  <2>3. CASE ~RebuildWrite(c)
    <3>1. UNCHANGED vars
      BY <1>3, <2>3 DEF Rebuild, RebuildRead, RebuildFail, CloseConn
    <3>2. SumsInv' /\ RowsFit'
      BY <3>1 DEF vars, tables, RebuildSums, SumsInv, TypeOK, TablesOK, FewCounted,
                  TotalsMatch, RowsFit
    <3> QED BY <1>1, <2>1, <3>2 DEF RebuildSums
  <2> QED BY <2>2, <2>3
<1> QED BY <1>2, <1>3, Steps

LEMMA RebuildSumsInit == RebuildInit => RebuildSums
<1> SUFFICES ASSUME RebuildInit PROVE RebuildSums
  OBVIOUS
<1>1. RebuildInv /\ SumsInv
  BY RebuildInitType, SumsInit DEF RebuildInit
<1>2. RowsFit /\ FewRead
  <2>1. BegunIn(attempts) = {}
    BY DEF RebuildInit, Init, BegunIn
  <2> QED BY <2>1, FS_EmptySet DEF RebuildInit, Init, RowsFit, FewRead
<1> QED BY <1>1, <1>2 DEF RebuildSums

\* The same while scores are rebuilt, by any connections, and with it the type of
\* the totals: the sums a rebuild writes are numbers.
THEOREM TotalsAreSumsInRebuild == RebuildSpec => [](TypeOK /\ TotalsMatchRows)
<1>1. RebuildSums => TypeOK /\ TotalsMatchRows
  BY SumsAgree DEF RebuildSums, SumsInv, TotalsMatch
<1> QED BY <1>1, RebuildSumsInit, RebuildSumsStep, PTL DEF RebuildSpec

\* A rewrite whose snapshot has every attempt the rows count lowers nothing.
LEMMA WriteKeepsTotals ==
    ASSUME RebuildSums, NEW c \in Conns, RebuildWrite(c), NEW u \in Users,
           seen[c].user = u => \A l \in Levels : ~Unread(seen[c], lifetime[u][l])
    PROVE  /\ totals'[u].points >= totals[u].points
           /\ totals'[u].levels >= totals[u].levels
<1>1. PICK rows \in RowTable :
            /\ seen[c] \in Snapshot /\ seen[c].user \in Users
            /\ \A l \in Levels : rows[l] \in LifetimeRows(seen[c], l)
            /\ IsFiniteSet(Counted(rows))
            /\ totals' = [totals EXCEPT ![seen[c].user] = SumsOf(rows)]
  BY WrittenSums
<1>2. TypeOK /\ TablesOK /\ lifetime[u] \in RowTable /\ totals[u] = SumsOf(lifetime[u])
  BY RowTables DEF RebuildSums, SumsInv, RebuildInv, TotalsMatch
<1>3. CASE u # seen[c].user
  <2>1. totals'[u] = totals[u] /\ totals[u].points \in Int /\ totals[u].levels \in Int
    BY <1>1, <1>2, <1>3 DEF TypeOK
  <2> QED BY <2>1
<1>4. CASE u = seen[c].user
  <2>1. totals'[u] = SumsOf(rows)
    BY <1>1, <1>2, <1>4 DEF TypeOK
  <2>2. ASSUME NEW l \in Counted(lifetime[u])
        PROVE  rows[l] # None /\ rows[l].points >= lifetime[u][l].points
    <3> DEFINE old == lifetime[u][l]
    <3>1. l \in Levels /\ old # None /\ LevelOf[old.version] = l /\ old \in Row
      BY <1>2, CountedType DEF Counted, RebuildSums, RowsFit
    <3>2. ~Unread(seen[c], old)
      BY <1>4, <3>1
    <3>3. seen[c].rows[old.attempt] # None /\ RowOf(seen[c], old.attempt) = old
      BY <3>1, <3>2 DEF Unread
    <3>4. old.attempt \in Read(seen[c])
      BY <3>1, <3>3 DEF Read, Row
    <3>5. seen[c].rows[old.attempt].version = old.version /\ old.version \in VersionsOf(l)
      <4>1. RowOf(seen[c], old.attempt).version = seen[c].rows[old.attempt].version
        BY DEF RowOf
      <4> QED BY <3>1, <3>3, <4>1 DEF VersionsOf, Row
    <3>6. old \in RowsOf(seen[c], VersionsOf(l))
      BY <3>3, <3>4, <3>5 DEF RowsOf
    <3>7. rows[l] \in RowsOf(seen[c], VersionsOf(l)) /\ ~BetterLifetime(old, rows[l])
      BY <1>1, <3>1, <3>6 DEF LifetimeRows
    <3>8. rows[l] \in Row /\ rows[l] # None
      BY <1>1, <3>7, RowsOfType
    <3>9. ~(old.points > rows[l].points) /\ old.points \in Nat /\ rows[l].points \in Nat
      BY <3>1, <3>7, <3>8 DEF BetterLifetime, Row
    <3> QED BY <3>8, <3>9
  <2>3. Counted(lifetime[u]) \subseteq Counted(rows)
    BY <2>2 DEF Counted
  <2> QED BY <1>1, <1>2, <2>1, <2>2, <2>3, SumsGrow
<1> QED BY <1>3, <1>4

\* Points and levels of a user drop only when a rebuild writes that has not read
\* an attempt the rows count.
THEOREM DropsAlwaysHaveCause == RebuildSpec => DropsHaveCause
<1> DEFINE Caused == \A u \in Users :
        \/ totals'[u].points < totals[u].points
        \/ totals'[u].levels < totals[u].levels
        => \E c \in Conns :
            /\ seen[c] # None
            /\ seen[c].user = u
            /\ \E l \in Levels : Unread(seen[c], lifetime[u][l])
<1>1. RebuildSums /\ [RebuildNext]_rebuildVars => [Caused]_rebuildVars
  <2> SUFFICES ASSUME RebuildSums, [RebuildNext]_rebuildVars, NEW u \in Users,
                      \/ totals'[u].points < totals[u].points
                      \/ totals'[u].levels < totals[u].levels
               PROVE  \E c \in Conns :
                        /\ seen[c] # None
                        /\ seen[c].user = u
                        /\ \E l \in Levels : Unread(seen[c], lifetime[u][l])
    OBVIOUS
  <2>1. TypeOK
    BY DEF RebuildSums, SumsInv
  <2>2. /\ totals[u].points \in Int /\ totals[u].levels \in Int
        /\ totals'[u].points \in Int /\ totals'[u].levels \in Int
    <3>1. RebuildSums'
      BY RebuildSumsStep
    <3> QED BY <2>1, <3>1 DEF RebuildSums, SumsInv, TypeOK
  <2>3. ~(/\ totals'[u].points >= totals[u].points
          /\ totals'[u].levels >= totals[u].levels)
    BY <2>2
  <2>4. ~[Next]_vars
    BY <2>1, <2>3, StepKeepsTotals
  <2>5. PICK c \in Conns : Rebuild(c)
    BY <2>4, Steps
  <2>6. RebuildWrite(c)
    BY <2>4, <2>5 DEF Rebuild, RebuildRead, RebuildFail, CloseConn
  <2>7. seen[c] # None
    BY <2>6 DEF RebuildWrite
  <2> QED BY <2>3, <2>6, <2>7, WriteKeepsTotals
<1> QED BY <1>1, RebuildSumsInit, RebuildSumsStep, PTL DEF RebuildSpec, DropsHaveCause

-----------------------------------------------------------------------------
(* The writes of the device.                                               *)

LEMMA StartItemType ==
    ASSUME NEW u \in Users, NEW a \in Attempts, NEW v \in Versions
    PROVE  StartItem(u, a, v) \in ClientRequests
  BY DEF ClientRequests

LEMMA ProgressItemType ==
    ASSUME NEW u \in Users, NEW mine \in Saved, NEW d \in Diffs
    PROVE  ProgressItem(u, mine, d) \in ClientRequests
<1> DEFINE part == [attempt |-> mine.attempt, version |-> mine.version,
                    found |-> mine.found, hints |-> mine.hints]
<1>1. part \in [attempt : Attempts, version : Versions,
                found : SUBSET Diffs, hints : HintCount]
  BY DEF Saved
<1>2. ProgressItem(u, part, d) = ProgressItem(u, mine, d)
  BY DEF ProgressItem, Write
<1> HIDE DEF part
<1> QED BY <1>1, <1>2 DEF ClientRequests

LEMMA CompleteItemType ==
    ASSUME NEW u \in Users, NEW mine \in Saved
    PROVE  CompleteItem(u, mine) \in ClientRequests
<1> DEFINE part == [attempt |-> mine.attempt, version |-> mine.version,
                    found |-> mine.found, hints |-> mine.hints]
<1>1. part \in [attempt : Attempts, version : Versions,
                found : SUBSET Diffs, hints : HintCount]
  BY DEF Saved
<1>2. CompleteItem(u, part) = CompleteItem(u, mine)
  BY DEF CompleteItem, Write
<1> HIDE DEF part
<1> QED BY <1>1, <1>2 DEF ClientRequests

LEMMA ItemFields ==
    ASSUME NEW item \in ClientRequests
    PROVE  item \in Requests /\ item.user \in Users /\ item.level \in Levels
  BY RequestsAssumption, ConstantsAssumption DEF Request

LEMMA AsIs ==
    ASSUME NEW r \in Request, NEW s \in Request,
           r.route = s.route, r.key = s.key, r.level = s.level,
           r.attempt = s.attempt, r.version = s.version, r.found = s.found,
           r.hints = s.hints, r.solved = s.solved
    PROVE  As(s.user, r) = s
<1>1. As(s.user, r) = [r EXCEPT !.user = s.user]
  BY DEF As
<1>2. [r EXCEPT !.user = s.user] \in Request
  BY DEF Request
<1> QED BY <1>1, <1>2 DEF Request

\* A copy is a request of the same kind, whoever is signed in when it is sent.
LEMMA AsType ==
    ASSUME NEW u \in Users, NEW item \in ClientRequests
    PROVE  As(u, item) \in ClientRequests
<1> DEFINE mines == [attempt : Attempts, version : Versions,
                     found : SUBSET Diffs, hints : HintCount]
<1>1. CASE \E w \in Users, a \in Attempts, v \in Versions :
                item = StartItem(w, a, v)
  <2>1. PICK w \in Users, a \in Attempts, v \in Versions :
                item = StartItem(w, a, v)
    BY <1>1
  <2>2. /\ StartItem(w, a, v) \in Request
        /\ StartItem(u, a, v) \in Request
    BY StartItemType, ItemFields, ConstantsAssumption
  <2>3. As(u, StartItem(w, a, v)) = StartItem(u, a, v)
    BY <2>2, AsIs DEF StartItem, Write
  <2> QED BY <2>1, <2>3, StartItemType
<1>2. CASE \E w \in Users, mine \in mines, d \in Diffs :
                item = ProgressItem(w, mine, d)
  <2>1. PICK w \in Users, mine \in mines, d \in Diffs :
                item = ProgressItem(w, mine, d)
    BY <1>2
  <2>2. /\ ProgressItem(w, mine, d) \in ClientRequests
        /\ ProgressItem(u, mine, d) \in ClientRequests
    BY DEF ClientRequests
  <2>3. /\ ProgressItem(w, mine, d) \in Request
        /\ ProgressItem(u, mine, d) \in Request
    BY <2>2, ItemFields, ConstantsAssumption
  <2>4. As(u, ProgressItem(w, mine, d)) = ProgressItem(u, mine, d)
    BY <2>3, AsIs DEF ProgressItem, Write
  <2> QED BY <2>1, <2>2, <2>4
<1>3. CASE \E w \in Users, mine \in mines : item = CompleteItem(w, mine)
  <2>1. PICK w \in Users, mine \in mines : item = CompleteItem(w, mine)
    BY <1>3
  <2>2. /\ CompleteItem(w, mine) \in ClientRequests
        /\ CompleteItem(u, mine) \in ClientRequests
    BY DEF ClientRequests
  <2>3. /\ CompleteItem(w, mine) \in Request
        /\ CompleteItem(u, mine) \in Request
    BY <2>2, ItemFields, ConstantsAssumption
  <2>4. As(u, CompleteItem(w, mine)) = CompleteItem(u, mine)
    BY <2>3, AsIs DEF CompleteItem, Write
  <2> QED BY <2>1, <2>2, <2>4
<1> QED BY <1>1, <1>2, <1>3 DEF ClientRequests

\* ... of whoever that is, and the same in all else.
LEMMA AsUser ==
    ASSUME NEW u \in Users, NEW item \in ClientRequests
    PROVE  As(u, item).user = u
<1>1. item \in Request
  BY ItemFields, ConstantsAssumption
<1> QED BY <1>1 DEF As, Request

\* The copy in flight is of the item, as its owner if it is the first.
SentAs(f) ==
    /\ f.sent = As(f.sent.user, f.item)
    /\ f.sent.user = f.item.user \/ f.tries > 1 \/ f.renewed

-----------------------------------------------------------------------------
(* The queue.                                                              *)

LEMMA Least ==
    ASSUME NEW T, T \subseteq Nat, T # {}
    PROVE  Min(T) \in T /\ \A y \in T : Min(T) <= y
<1> DEFINE Below == {0 .. k : k \in T}
           R == StrictSubsetOrdering(Nat)
<1>1. IsWellFoundedOn(R, FiniteSubsetsOf(Nat))
  BY FS_StrictSubsetOrderingWellFounded
<1>2. Below \subseteq FiniteSubsetsOf(Nat)
  <2> SUFFICES ASSUME NEW k \in T PROVE 0 .. k \in FiniteSubsetsOf(Nat)
    OBVIOUS
  <2>1. IsFiniteSet(0 .. k)
    BY FS_Interval
  <2> QED BY <2>1 DEF FiniteSubsetsOf
<1>3. PICK b \in Below : \A c \in Below : ~(<<c, b>> \in R)
  <2>1. Below # {}
    OBVIOUS
  <2> HIDE DEF Below, R
  <2> QED BY <1>1, <1>2, <2>1, WFMin
<1>4. PICK k \in T : b = 0 .. k
  OBVIOUS
<1>5. ASSUME NEW y \in T, y < k PROVE FALSE
  <2>1. <<0 .. y, b>> \in R
    BY <1>4, <1>5 DEF StrictSubsetOrdering
  <2> QED BY <2>1, <1>3
<1>6. \A y \in T : k <= y
  BY <1>5
<1> QED BY <1>6 DEF Min

LEMMA FirstOfType ==
    ASSUME NEW queue \in Seq(ClientRequests), NEW u,
           NEW j \in DOMAIN queue, queue[j].user = u
    PROVE  /\ FirstOf(queue, u) \in DOMAIN queue
           /\ queue[FirstOf(queue, u)].user = u
           /\ \A i \in DOMAIN queue :
                queue[i].user = u => FirstOf(queue, u) <= i
<1> DEFINE T == {i \in DOMAIN queue : queue[i].user = u}
<1>1. T \subseteq Nat /\ T # {}
  OBVIOUS
<1>2. FirstOf(queue, u) = Min(T)
  BY DEF FirstOf
<1>3. Min(T) \in T /\ \A y \in T : Min(T) <= y
  <2> HIDE DEF T
  <2> QED BY <1>1, Least
<1> QED BY <1>2, <1>3

LEMMA SendingType ==
    ASSUME NEW queue \in Seq(ClientRequests), NEW u \in Owners
    PROVE  /\ Sending(queue, u) \in Flight \cup {None}
           /\ Sending(queue, u) # None =>
                /\ Sending(queue, u).pos \in DOMAIN queue
                /\ queue[Sending(queue, u).pos] = Sending(queue, u).item
                /\ SentAs(Sending(queue, u))
<1>1. CASE \A i \in DOMAIN queue : queue[i].user # u
  BY <1>1 DEF Sending
<1>2. CASE \E j \in DOMAIN queue : queue[j].user = u
  <2>1. PICK j \in DOMAIN queue : queue[j].user = u
    BY <1>2
  <2> DEFINE i == FirstOf(queue, u)
  <2>2. i \in DOMAIN queue /\ queue[i].user = u
    BY <2>1, FirstOfType
  <2>3. queue[i] \in ClientRequests /\ i \in Nat \ {0}
    BY <2>2
  <2>4. u \in Users /\ u # None
    BY <2>2, <2>3, ItemFields, NoneAssumption
  <2>5. As(u, queue[i]) \in ClientRequests
    BY <2>3, <2>4, AsType
  <2>6. 1 \in 1 .. MaxTries
    BY SyncAssumption
  <2>7. Sending(queue, u) =
            [pos |-> i, item |-> queue[i], sent |-> As(u, queue[i]), tries |-> 1,
             renewed |-> FALSE, by |-> None, reply |-> "none"]
    BY <1>2 DEF Sending
  <2> HIDE DEF i
  <2>8. Sending(queue, u).pos = i /\ Sending(queue, u).item = queue[i]
    BY <2>7
  <2>9. Sending(queue, u) \in Flight
    BY <2>3, <2>4, <2>5, <2>6, <2>7 DEF Flight
  <2>10. SentAs(Sending(queue, u))
    <3>1. As(u, queue[i]).user = u
      BY <2>3, <2>4, AsUser
    <3>2. Sending(queue, u).sent = As(u, queue[i])
      BY <2>7
    <3> QED BY <2>2, <2>8, <3>1, <3>2 DEF SentAs
  <2> QED BY <2>2, <2>8, <2>9, <2>10
<1> QED BY <1>1, <1>2

LEMMA WithoutType ==
    ASSUME NEW queue \in Seq(ClientRequests), NEW i \in DOMAIN queue
    PROVE  Without(queue, i) \in Seq(ClientRequests)
<1>1. SubSeq(queue, 1, i - 1) \in Seq(ClientRequests)
  BY SubSeqProperties
<1>2. SubSeq(queue, i + 1, Len(queue)) \in Seq(ClientRequests)
  BY SubSeqProperties
<1> QED BY <1>1, <1>2, ConcatProperties DEF Without
-----------------------------------------------------------------------------
(* The files and the scene.                                                *)

DeviceInv == DeviceTypeOK /\ ResolvesWhatItSent

Saves == [Users -> [Levels -> Saved \cup {None}]]

LEMMA LevelType == ASSUME NEW v \in Versions PROVE LevelOf[v] \in Levels
  BY ConstantsAssumption

LEMMA SaveType ==
    ASSUME who \in Owners, NEW saves \in Saves, NEW mine \in Saved
    PROVE  Save(saves, mine) \in Saves
<1>1. CASE who = None
  BY <1>1 DEF Save
<1>2. CASE who # None
  <2>1. who \in Users /\ LevelOf[mine.version] \in Levels
    BY <1>2, LevelType DEF Owners, Saved
  <2>2. saves[who] \in [Levels -> Saved \cup {None}]
    BY <2>1 DEF Saves
  <2>3. Save(saves, mine) =
            [saves EXCEPT ![who] =
                [saves[who] EXCEPT ![LevelOf[mine.version]] = mine]]
    BY <1>2 DEF Save
  <2>4. [saves[who] EXCEPT ![LevelOf[mine.version]] = mine]
            \in [Levels -> Saved \cup {None}]
    BY <2>1, <2>2
  <2> QED BY <2>1, <2>3, <2>4 DEF Saves
<1> QED BY <1>1, <1>2

LEMMA StateType ==
    ASSUME NEW mine \in Saved,
           NEW state \in {"in_progress", "sync_queued", "synced", "rejected"}
    PROVE  [mine EXCEPT !.state = state] \in Saved
  BY DEF Saved

LEMMA WithStateType ==
    ASSUME who \in Owners, store \in Saves, NEW level \in Levels,
           NEW state \in {"synced", "rejected"}
    PROVE  WithState(level, state) \in Saves
<1>1. CASE who = None
  BY <1>1 DEF WithState
<1>2. CASE who # None /\ store[who][level] = None
  BY <1>2 DEF WithState
<1>3. CASE who # None /\ store[who][level] # None
  <2>1. who \in Users
    BY <1>3 DEF Owners
  <2>2. store[who] \in [Levels -> Saved \cup {None}]
    BY <2>1 DEF Saves
  <2>3. [store[who][level] EXCEPT !.state = state] \in Saved
    BY <1>3, <2>2, StateType
  <2>4. WithState(level, state) =
            [store EXCEPT ![who] = [store[who] EXCEPT ![level] =
                [store[who][level] EXCEPT !.state = state]]]
    BY <1>3 DEF WithState
  <2>5. [store[who] EXCEPT ![level] =
                [store[who][level] EXCEPT !.state = state]]
            \in [Levels -> Saved \cup {None}]
    BY <2>2, <2>3
  <2> QED BY <2>1, <2>4, <2>5 DEF Saves
<1> QED BY <1>1, <1>2, <1>3

LEMMA FoundType ==
    ASSUME NEW mine \in Saved, NEW d \in Diffs, NEW hinted \in BOOLEAN,
           hinted => mine.hints < MaxHints
    PROVE  Found(mine, d, hinted) \in Saved
<1>1. mine.found \cup {d} \in SUBSET Diffs
  BY DEF Saved
<1>2. (IF hinted THEN mine.hints + 1 ELSE mine.hints) \in HintCount
  BY ConstantsAssumption DEF Saved, HintCount
<1>3. Found(mine, d, hinted) =
        [mine EXCEPT !.found = mine.found \cup {d},
                     !.hints = IF hinted THEN mine.hints + 1 ELSE mine.hints]
  BY DEF Found
<1> QED BY <1>1, <1>2, <1>3 DEF Saved

LEMMA FinishedType ==
    ASSUME NEW mine \in Saved,
           NEW result \in {"sync_queued", "synced", "rejected"}
    PROVE  Finished(mine, result) \in Game
<1>1. [mine EXCEPT !.state = result] \in Saved
  BY StateType
<1> QED BY <1>1 DEF Finished, Game

\* A write is appended, and the loop, if it starts, sends one that is queued.
LEMMA SubmitType ==
    ASSUME DeviceInv, NEW item, who # None => item \in ClientRequests,
           Submit(item)
    PROVE  /\ items' \in Seq(ClientRequests)
           /\ flight' \in Flight \cup {None}
           /\ ResolvesWhatItSent'
<1>1. CASE who = None
  BY <1>1 DEF DeviceInv, DeviceTypeOK, ResolvesWhatItSent, Busy, Submit
<1>2. CASE who # None
  <2>1. /\ items \in Seq(ClientRequests)
        /\ items' = Append(items, item)
        /\ items' \in Seq(ClientRequests)
    BY <1>2 DEF Submit, DeviceInv, DeviceTypeOK
  <2>2. \A i \in DOMAIN items : i \in DOMAIN items' /\ items'[i] = items[i]
    BY <1>2, <2>1
  <2>3. CASE Busy
    BY <1>2, <2>1, <2>2, <2>3
    DEF Submit, DeviceInv, DeviceTypeOK, ResolvesWhatItSent, Busy
  <2>4. CASE ~Busy
    <3>1. flight' = Sending(items', who)
      BY <1>2, <2>1, <2>4 DEF Submit
    <3> QED
      BY <2>1, <3>1, SendingType
      DEF DeviceInv, DeviceTypeOK, ResolvesWhatItSent, Busy, SentAs
  <2> QED BY <2>3, <2>4
<1> QED BY <1>1, <1>2

LEMMA DelayedType ==
    ASSUME DeviceTypeOK
    PROVE  Delayed \subseteq ClientRequests
  BY DEF DeviceTypeOK, Delayed, Busy, Flight

LEMMA EndOfFlushType ==
    ASSUME DeviceTypeOK, NEW saves \in Saves,
           NEW result \in {"sync_queued", "synced", "rejected"},
           EndOfFlush(saves, result)
    PROVE  store' \in Saves /\ game' \in Game \cup {None}
<1>1. CASE Playing("submitted")
  <2>1. game \in Game /\ game.mine \in Saved
    BY <1>1 DEF Playing, DeviceTypeOK, Game
  <2>2. [game.mine EXCEPT !.state = result] \in Saved
    BY <2>1, StateType
  <2> QED
    BY <1>1, <2>1, <2>2, SaveType, FinishedType DEF EndOfFlush, DeviceTypeOK
<1>2. CASE ~Playing("submitted")
  BY <1>2 DEF EndOfFlush, DeviceTypeOK
<1> QED BY <1>1, <1>2

\* The resolved item goes, the next one is sent, and the scene hears of it.
LEMMA ResolveType ==
    ASSUME DeviceInv, Busy, NEW state \in {"synced", "rejected"},
           Resolve(state)
    PROVE  /\ items' \in Seq(ClientRequests)
           /\ flight' \in Flight \cup {None}
           /\ ResolvesWhatItSent'
           /\ store' \in Saves
           /\ game' \in Game \cup {None}
<1> USE DEF DeviceInv
<1>1. /\ who \in Owners
      /\ items \in Seq(ClientRequests)
      /\ flight \in Flight
      /\ store \in Saves
      /\ game \in Game \cup {None}
      /\ flight.pos \in DOMAIN items
      /\ flight.item \in ClientRequests
  BY DEF DeviceTypeOK, ResolvesWhatItSent, Busy, Saves, Flight
<1>2. items' = Without(items, flight.pos) /\ items' \in Seq(ClientRequests)
  BY <1>1, WithoutType DEF Resolve
<1>3. flight' = Sending(items', who)
  BY <1>2 DEF Resolve
<1>4. flight' \in Flight \cup {None} /\ ResolvesWhatItSent'
  BY <1>1, <1>2, <1>3, SendingType DEF ResolvesWhatItSent, Busy, SentAs
<1>5. Marked(state) \in Saves
  BY <1>1, WithStateType, ItemFields DEF Marked
<1>6. CASE flight' = None
  <2>1. EndOfFlush(Marked(state), Recent(state))
    BY <1>6 DEF Resolve
  <2>2. CASE Playing("submitted")
    <3>1. Recent(state) \in {"sync_queued", "synced", "rejected"}
      BY <1>1, <2>2 DEF Recent, Playing, Game
    <3> QED BY <1>2, <1>4, <1>5, <2>1, <3>1, EndOfFlushType
  <2>3. CASE ~Playing("submitted")
    BY <1>1, <1>2, <1>4, <1>5, <2>1, <2>3 DEF EndOfFlush
  <2> QED BY <2>2, <2>3
<1>7. CASE flight' # None
  <2>1. /\ store' = Marked(state)
        /\ game' = IF Playing("submitted")
                   THEN [game EXCEPT !.result = Recent(state)] ELSE game
    BY <1>7 DEF Resolve
  <2>2. CASE Playing("submitted")
    <3>1. Recent(state) \in {"sync_queued", "synced", "rejected"}
      BY <1>1, <2>2 DEF Recent, Playing, Game
    <3>2. game \in Game
      BY <1>1, <2>2 DEF Playing
    <3>3. [game EXCEPT !.result = Recent(state)] \in Game
      BY <3>1, <3>2 DEF Game
    <3> QED BY <1>2, <1>4, <1>5, <2>1, <2>2, <3>3
  <2>3. CASE ~Playing("submitted")
    BY <1>1, <1>2, <1>4, <1>5, <2>1, <2>3
  <2> QED BY <2>2, <2>3
<1> QED BY <1>6, <1>7

-----------------------------------------------------------------------------
(* Every step of the device is a step of the service, or none of it.       *)

\* What a handler is asked is a request of LevelService: the copies on their
\* way are typed, and nothing resets an attempt.
LEMMA ServiceStep ==
    ASSUME DeviceTypeOK, [SyncNext]_syncVars
    PROVE  [Next]_vars
<1>1. ASSUME NEW h \in Handlers, Arrive(h) PROVE Next
  <2>1. flight.sent \in Requests
    BY <1>1, RequestsAssumption DEF DeviceTypeOK, Arrive, Busy, Flight
  <2> QED BY <1>1, <2>1 DEF Arrive, Handle, Next
<1>2. ASSUME NEW h \in Handlers, ArriveLate(h) PROVE Next
  BY <1>2, RequestsAssumption DEF DeviceTypeOK, ArriveLate, Handle, Next
<1>3. ASSUME NEW h \in Handlers,
             Look(h) \/ Accept(h) \/ Reject(h) \/ Fail(h)
      PROVE  Next
  BY <1>3 DEF Look, Accept, Reject, Fail, Handle, Next
<1>4. ASSUME NEW v \in Versions, Publish(v) PROVE Next
  BY <1>4 DEF Publish, Next
<1>5. CASE Server
  BY <1>1, <1>2, <1>3, <1>4, <1>5 DEF Server
<1>6. CASE Scene
  BY <1>6 DEF Scene, OpenLevel, MarkFound, FinishLevel, SaveView, Leave,
              Replay
<1>7. CASE Flush \/ Client
  BY <1>7 DEF Flush, Client, Timeout, Deny, Retry, Renew, GiveUp, Accepted,
              Rejected
<1>8. CASE Expire \/ Logout \/ \E u \in Users : Login(u)
  BY <1>8 DEF Expire, Logout, Login
<1>9. CASE Crash \/ CrashFinding \/ CrashResolving
  BY <1>9 DEF Crash, CrashFinding, CrashResolving, Die
<1>10. CASE UNCHANGED syncVars
  BY <1>10 DEF syncVars
<1> QED
  BY <1>5, <1>6, <1>7, <1>8, <1>9, <1>10 DEF SyncNext

-----------------------------------------------------------------------------
(* The inductive invariant of the device.                                  *)

LEMMA DeviceInit == SyncInit => DeviceInv
  BY DEF SyncInit, DeviceInv, DeviceTypeOK, ResolvesWhatItSent, Busy, Saves

LEMMA SceneType ==
    ASSUME DeviceInv, Scene
    PROVE  DeviceInv'
<1> USE DEF DeviceInv
<1>1. ASSUME NEW v \in Versions, OpenLevel(v) PROVE DeviceInv'
  <2> DEFINE saved == store[who][LevelOf[v]]
             resumed == IF saved = None THEN FALSE ELSE Resumes(saved, v)
  <2>1. PICK a \in Attempts :
          LET mine == IF resumed THEN saved ELSE Fresh(a, v) IN
          /\ IF resumed THEN a = saved.attempt ELSE a \notin used
          /\ used' = used \cup {a}
          /\ game' = [mine |-> mine, phase |-> "play",
                      result |-> "sync_queued"]
          /\ store' = Save(store, mine)
          /\ Submit(StartItem(who, a, v))
    BY <1>1 DEF OpenLevel
  <2> DEFINE mine == IF resumed THEN saved ELSE Fresh(a, v)
  <2>2. /\ who \in Users /\ who # None
        /\ UNCHANGED <<who, dead, late>>
    BY <1>1 DEF OpenLevel, DeviceTypeOK, Owners
  <2>3. mine \in Saved
    <3>1. CASE resumed
      BY <2>2, <3>1, LevelType DEF DeviceTypeOK
    <3>2. CASE ~resumed
      BY <3>2, NothingYet DEF Fresh, Saved
    <3> QED BY <3>1, <3>2
  <2>4. game' \in Game
    BY <2>1, <2>3 DEF Game
  <2>5. store' \in Saves
    BY <2>1, <2>2, <2>3, SaveType DEF DeviceTypeOK, Saves
  <2>6. Submit(StartItem(who, a, v)) /\ StartItem(who, a, v) \in ClientRequests
    BY <2>1, <2>2, StartItemType
  <2>7. /\ items' \in Seq(ClientRequests)
        /\ flight' \in Flight \cup {None}
        /\ ResolvesWhatItSent'
    BY <2>6, SubmitType
  <2>8. used' \subseteq Attempts
    BY <2>1 DEF DeviceTypeOK
  <2> QED BY <2>2, <2>4, <2>5, <2>7, <2>8 DEF DeviceTypeOK, Saves
<1>2. ASSUME NEW d \in Diffs, NEW hinted \in BOOLEAN, MarkFound(d, hinted)
      PROVE  DeviceInv'
  <2> DEFINE mine == Found(game.mine, d, hinted)
  <2>1. /\ game \in Game /\ game.mine \in Saved
        /\ hinted => game.mine.hints < MaxHints
    BY <1>2 DEF MarkFound, MayFind, Playing, DeviceTypeOK, Game
  <2>2. mine \in Saved
    BY <2>1, FoundType
  <2>3. /\ UNCHANGED <<who, dead, late, used>>
        /\ store' = Save(store, mine)
        /\ Submit(ProgressItem(who, mine, d))
        /\ game' = [game EXCEPT !.mine = mine,
              !.phase = IF mine.found = DiffsOf[mine.version]
                        THEN "feedback" ELSE "play"]
    BY <1>2 DEF MarkFound
  <2> HIDE DEF mine
  <2>4. game' \in Game
    BY <2>1, <2>2, <2>3 DEF Game
  <2>5. store' \in Saves
    BY <2>2, <2>3, SaveType DEF DeviceTypeOK, Saves
  <2>6. who # None => ProgressItem(who, mine, d) \in ClientRequests
    BY <2>2, ProgressItemType DEF DeviceTypeOK, Owners
  <2>7. /\ items' \in Seq(ClientRequests)
        /\ flight' \in Flight \cup {None}
        /\ ResolvesWhatItSent'
    BY <2>3, <2>6, SubmitType
  <2> QED BY <2>3, <2>4, <2>5, <2>7 DEF DeviceTypeOK, Saves
<1>3. CASE FinishLevel
  <2>1. /\ game \in Game /\ game.mine \in Saved
        /\ UNCHANGED <<who, dead, late, used>>
        /\ Submit(CompleteItem(who, game.mine))
    BY <1>3 DEF FinishLevel, Playing, DeviceTypeOK, Game
  <2>2. who # None => CompleteItem(who, game.mine) \in ClientRequests
    BY <2>1, CompleteItemType DEF DeviceTypeOK, Owners
  <2>3. /\ items' \in Seq(ClientRequests)
        /\ flight' \in Flight \cup {None}
        /\ ResolvesWhatItSent'
    BY <2>1, <2>2, SubmitType
  <2>4. store' \in Saves /\ game' \in Game
    <3>1. CASE Busy \/ who = None
      <4>1. /\ game' = Finished(game.mine, "sync_queued")
            /\ store' = Save(store, [game.mine EXCEPT !.state = "sync_queued"])
        BY <1>3, <3>1 DEF FinishLevel
      <4>2. [game.mine EXCEPT !.state = "sync_queued"] \in Saved
        BY <2>1, StateType
      <4> QED
        BY <2>1, <4>1, <4>2, SaveType, FinishedType DEF DeviceTypeOK, Saves
    <3>2. CASE ~(Busy \/ who = None)
      <4>1. game' = [game EXCEPT !.phase = "submitted"] /\ UNCHANGED store
        BY <1>3, <3>2 DEF FinishLevel
      <4> QED BY <2>1, <4>1 DEF Game, DeviceTypeOK, Saves
    <3> QED BY <3>1, <3>2
  <2> QED BY <2>1, <2>3, <2>4 DEF DeviceTypeOK, Saves
<1>4. CASE SaveView
  <2>1. /\ game.mine \in Saved
        /\ store' = Save(store, game.mine)
        /\ UNCHANGED <<who, items, dead, flight, late, game, used>>
    BY <1>4 DEF SaveView, DeviceTypeOK, Game
  <2>2. store' \in Saves
    BY <2>1, SaveType DEF DeviceTypeOK, Saves
  <2> QED
    BY <2>1, <2>2 DEF DeviceTypeOK, ResolvesWhatItSent, Busy, Saves
<1>5. CASE Leave
  BY <1>5 DEF Leave, DeviceTypeOK, ResolvesWhatItSent, Busy
<1>6. CASE Replay
  <2>1. /\ game.mine \in Saved
        /\ game' = None
        /\ store' = IF who = None THEN store
                    ELSE [store EXCEPT ![who][LevelOf[game.mine.version]] = None]
        /\ UNCHANGED <<who, items, dead, flight, late, used>>
    BY <1>6 DEF Replay, Playing, DeviceTypeOK, Game
  <2>2. store' \in Saves
    <3>1. CASE who = None
      BY <2>1, <3>1 DEF DeviceTypeOK, Saves
    <3>2. CASE who # None
      <4>1. who \in Users /\ store[who] \in [Levels -> Saved \cup {None}]
        BY <3>2 DEF DeviceTypeOK, Owners
      <4>2. [store[who] EXCEPT ![LevelOf[game.mine.version]] = None]
                \in [Levels -> Saved \cup {None}]
        BY <4>1
      <4>3. store' = [store EXCEPT ![who] = [store[who] EXCEPT
                        ![LevelOf[game.mine.version]] = None]]
        BY <2>1, <3>2
      <4> QED BY <4>1, <4>2, <4>3 DEF DeviceTypeOK, Saves
    <3> QED BY <3>1, <3>2
  <2> QED
    BY <2>1, <2>2 DEF DeviceTypeOK, ResolvesWhatItSent, Busy, Saves
<1> QED
  BY <1>1, <1>2, <1>3, <1>4, <1>5, <1>6 DEF Scene

LEMMA FlightType ==
    ASSUME DeviceTypeOK, Busy
    PROVE  flight \in Flight /\ flight \notin {None}
  BY DEF DeviceTypeOK, Busy

\* The copy in flight changes, but neither the item it is of nor its place.
LEMMA SameItem ==
    ASSUME DeviceInv, Busy, flight' \in Flight,
           flight'.pos = flight.pos, flight'.item = flight.item,
           SentAs(flight) => SentAs(flight'), UNCHANGED items
    PROVE  flight' \in Flight \cup {None} /\ ResolvesWhatItSent'
  BY DEF DeviceInv, ResolvesWhatItSent, Busy, SentAs

LEMMA AgainType ==
    ASSUME DeviceTypeOK, Busy, who # None, NEW tries \in 1 .. MaxTries,
           NEW renewed \in BOOLEAN
    PROVE  /\ Again(tries, renewed) \in Flight
           /\ Again(tries, renewed).pos = flight.pos
           /\ Again(tries, renewed).item = flight.item
           /\ tries > 1 \/ renewed => SentAs(Again(tries, renewed))
<1>1. flight \in Flight /\ who \in Users
  BY FlightType DEF DeviceTypeOK, Owners
<1>2. As(who, flight.item) \in ClientRequests
  BY <1>1, AsType DEF Flight
<1>3. As(who, flight.item).user = who
  BY <1>1, AsUser DEF Flight
<1>4. Again(tries, renewed) \in Flight
  BY <1>1, <1>2 DEF Again, Flight
<1>5. /\ Again(tries, renewed).pos = flight.pos
      /\ Again(tries, renewed).item = flight.item
      /\ Again(tries, renewed).sent = As(who, flight.item)
      /\ Again(tries, renewed).tries = tries
      /\ Again(tries, renewed).renewed = renewed
  BY <1>1 DEF Again, Flight
<1> QED BY <1>3, <1>4, <1>5 DEF SentAs

LEMMA ClientType ==
    ASSUME DeviceInv, Client
    PROVE  DeviceInv'
<1> USE DEF DeviceInv
<1>1. CASE Timeout
  <2>1. /\ Busy /\ flight \in Flight
        /\ flight' = [flight EXCEPT !.reply = "failed", !.by = None]
        /\ late' = Delayed
        /\ UNCHANGED <<who, items, dead, store, game, used>>
    BY <1>1, FlightType DEF Timeout
  <2>2. /\ flight' \in Flight
        /\ flight'.pos = flight.pos /\ flight'.item = flight.item
        /\ SentAs(flight) => SentAs(flight')
    BY <2>1 DEF Flight, SentAs
  <2>3. flight' \in Flight \cup {None} /\ ResolvesWhatItSent'
    BY <2>1, <2>2, SameItem
  <2> QED BY <2>1, <2>3, DelayedType DEF DeviceTypeOK
<1>2. CASE Deny
  <2>1. /\ Busy /\ flight \in Flight
        /\ flight' = [flight EXCEPT !.reply = "denied"]
        /\ UNCHANGED <<who, items, dead, late, store, game, used>>
    BY <1>2, FlightType DEF Deny
  <2>2. /\ flight' \in Flight
        /\ flight'.pos = flight.pos /\ flight'.item = flight.item
        /\ SentAs(flight) => SentAs(flight')
    BY <2>1 DEF Flight, SentAs
  <2>3. flight' \in Flight \cup {None} /\ ResolvesWhatItSent'
    BY <2>1, <2>2, SameItem
  <2> QED BY <2>1, <2>3 DEF DeviceTypeOK
<1>3. CASE Retry
  <2>1. /\ Busy /\ who # None /\ flight \in Flight
        /\ flight.tries < MaxTries
        /\ flight' = Again(flight.tries + 1, flight.renewed)
        /\ UNCHANGED <<who, items, dead, late, store, game, used>>
    BY <1>3, FlightType DEF Retry
  <2>2. /\ flight.tries + 1 \in 1 .. MaxTries /\ flight.tries + 1 > 1
        /\ flight.renewed \in BOOLEAN
    BY <2>1, SyncAssumption DEF Flight
  <2>3. flight' \in Flight \cup {None} /\ ResolvesWhatItSent'
    BY <2>1, <2>2, AgainType, SameItem
  <2> QED BY <2>1, <2>3 DEF DeviceTypeOK
<1>4. CASE Renew
  <2>1. /\ Busy /\ who # None
        /\ flight' = Again(1, TRUE)
        /\ UNCHANGED <<who, items, dead, late, store, game, used>>
    BY <1>4 DEF Renew
  <2>2. 1 \in 1 .. MaxTries
    BY SyncAssumption
  <2>3. flight' \in Flight \cup {None} /\ ResolvesWhatItSent'
    BY <2>1, <2>2, AgainType, SameItem
  <2> QED BY <2>1, <2>3 DEF DeviceTypeOK
<1>5. CASE GiveUp
  <2>1. /\ flight' = None
        /\ EndOfFlush(store, game.result)
        /\ UNCHANGED <<who, items, dead, late, used>>
    BY <1>5 DEF GiveUp
  <2>2. store' \in Saves /\ game' \in Game \cup {None}
    <3>1. CASE Playing("submitted")
      <4>1. game.result \in {"sync_queued", "synced", "rejected"}
        BY <3>1 DEF Playing, DeviceTypeOK, Game
      <4> QED BY <2>1, <4>1, EndOfFlushType DEF DeviceTypeOK, Saves
    <3>2. CASE ~Playing("submitted")
      BY <2>1, <3>2 DEF EndOfFlush, DeviceTypeOK, Saves
    <3> QED BY <3>1, <3>2
  <2> QED
    BY <2>1, <2>2 DEF DeviceTypeOK, ResolvesWhatItSent, Busy, Saves
<1>6. CASE Accepted
  <2>1. /\ Busy /\ Resolve("synced")
        /\ UNCHANGED <<who, dead, late, used>>
    BY <1>6 DEF Accepted
  <2> QED BY <2>1, ResolveType DEF DeviceTypeOK, Saves
<1>7. CASE Rejected
  <2>1. /\ Busy /\ Resolve("rejected")
        /\ dead' = dead \cup {flight.item}
        /\ UNCHANGED <<who, late, used>>
    BY <1>7 DEF Rejected
  <2>2. dead' \subseteq ClientRequests
    BY <2>1, FlightType DEF DeviceTypeOK, Flight
  <2> QED BY <2>1, <2>2, ResolveType DEF DeviceTypeOK, Saves
<1> QED
  BY <1>1, <1>2, <1>3, <1>4, <1>5, <1>6, <1>7 DEF Client

LEMMA ServerType ==
    ASSUME DeviceInv, Server
    PROVE  DeviceInv'
<1> USE DEF DeviceInv
<1>1. ASSUME NEW h \in Handlers, Arrive(h) PROVE DeviceInv'
  <2>1. /\ Busy /\ flight \in Flight
        /\ flight' = [flight EXCEPT !.by = h]
        /\ UNCHANGED <<who, items, dead, late, store, game, used>>
    BY <1>1, FlightType DEF Arrive
  <2>2. /\ flight' \in Flight
        /\ flight'.pos = flight.pos /\ flight'.item = flight.item
        /\ SentAs(flight) => SentAs(flight')
    BY <2>1 DEF Flight, SentAs
  <2>3. flight' \in Flight \cup {None} /\ ResolvesWhatItSent'
    BY <2>1, <2>2, SameItem
  <2> QED BY <2>1, <2>3 DEF DeviceTypeOK
<1>2. ASSUME NEW h \in Handlers, ArriveLate(h) PROVE DeviceInv'
  BY <1>2 DEF ArriveLate, DeviceTypeOK, ResolvesWhatItSent, Busy
<1>3. ASSUME NEW h \in Handlers, NEW reply \in {"ok", "rejected", "failed"},
             Answer(h, reply)
      PROVE  DeviceInv'
  <2>1. UNCHANGED <<who, items, dead, late, store, game, used>>
    BY <1>3 DEF Answer
  <2>2. CASE flight' = flight
    BY <2>1, <2>2 DEF DeviceTypeOK, ResolvesWhatItSent, Busy
  <2>3. CASE Busy /\ flight' = [flight EXCEPT !.reply = reply, !.by = None]
    <3>1. /\ flight' \in Flight
          /\ flight'.pos = flight.pos /\ flight'.item = flight.item
          /\ SentAs(flight) => SentAs(flight')
      BY <2>3, FlightType DEF Flight, SentAs
    <3>2. flight' \in Flight \cup {None} /\ ResolvesWhatItSent'
      BY <2>1, <2>3, <3>1, SameItem
    <3> QED BY <2>1, <3>2 DEF DeviceTypeOK
  <2> QED BY <1>3, <2>2, <2>3 DEF Answer
<1>4. ASSUME NEW h \in Handlers, Accept(h) \/ Reject(h) \/ Fail(h)
      PROVE  DeviceInv'
  BY <1>3, <1>4 DEF Accept, Reject, Fail
<1>5. CASE UNCHANGED device
  BY <1>5 DEF device, DeviceTypeOK, ResolvesWhatItSent, Busy
<1> QED
  BY <1>1, <1>2, <1>4, <1>5 DEF Server, Look, Publish

LEMMA DieType ==
    ASSUME DeviceInv, NEW queue \in Seq(ClientRequests), NEW saves \in Saves,
           Die(queue, saves), UNCHANGED used
    PROVE  DeviceInv'
  BY DelayedType DEF Die, DeviceInv, DeviceTypeOK, ResolvesWhatItSent, Busy,
                     Saves

\* The files and coroutines keep their types, and the flush loop its place in
\* the queue, through every step of the player, the network and a crash.
LEMMA DeviceStep ==
    ASSUME DeviceInv, [SyncNext]_syncVars
    PROVE  DeviceInv'
<1> USE DEF DeviceInv
<1>1. CASE Flush
  <2>1. /\ flight' = Sending(items, who)
        /\ UNCHANGED <<who, items, dead, late, store, game, used>>
    BY <1>1 DEF Flush
  <2> QED
    BY <2>1, SendingType DEF DeviceTypeOK, ResolvesWhatItSent, Busy, SentAs
<1>2. CASE Expire \/ Logout \/ \E u \in Users : Login(u)
  BY <1>2 DEF Expire, Logout, Login, DeviceTypeOK, ResolvesWhatItSent, Busy,
              Owners
<1>3. CASE Crash
  BY <1>3, DieType DEF Crash, DeviceTypeOK, Saves
<1>4. CASE CrashFinding
  <2>1. PICK d \in Diffs, hinted \in BOOLEAN :
            /\ MayFind(d, hinted)
            /\ Die(items, Save(store, Found(game.mine, d, hinted)))
            /\ UNCHANGED used
    BY <1>4 DEF CrashFinding
  <2>2. game.mine \in Saved /\ (hinted => game.mine.hints < MaxHints)
    BY <2>1 DEF MayFind, Playing, DeviceTypeOK, Game
  <2>3. Save(store, Found(game.mine, d, hinted)) \in Saves
    BY <2>2, FoundType, SaveType DEF DeviceTypeOK, Saves
  <2> QED BY <2>1, <2>3, DieType DEF DeviceTypeOK
<1>5. CASE CrashResolving
  <2>1. Without(items, flight.pos) \in Seq(ClientRequests)
    BY <1>5, WithoutType DEF CrashResolving, DeviceTypeOK, ResolvesWhatItSent
  <2> QED BY <1>5, <2>1, DieType DEF CrashResolving, DeviceTypeOK, Saves
<1>6. CASE UNCHANGED syncVars
  BY <1>6 DEF syncVars, device, DeviceTypeOK, ResolvesWhatItSent, Busy
<1> QED
  BY <1>1, <1>2, <1>3, <1>4, <1>5, <1>6, SceneType, ClientType, ServerType
  DEF SyncNext

-----------------------------------------------------------------------------
(* The theorems                                                            *)

LEMMA DeviceAlways == SyncSpec => []DeviceInv
<1>1. SyncInit => DeviceInv
  BY DeviceInit
<1>2. DeviceInv /\ [SyncNext]_syncVars => DeviceInv'
  BY DeviceStep
<1> QED
  BY <1>1, <1>2, PTL DEF SyncSpec

\* The loop that flushes the queue removes the very item whose answer it got,
\* whatever is queued and whoever signs in while it waits; what it has sent is that
\* item, and only a further try of it may have gone out as another account.
THEOREM RemovesWhatItSent == SyncSpec => []ResolvesWhatItSent
  BY DeviceAlways, PTL DEF DeviceInv

\* A device, its network and its crashes make the service take no step of its
\* own: the whole system implements LevelService.
THEOREM ImplementsService == SyncSpec => Spec
<1>1. SyncInit => Init
  BY DEF SyncInit
<1>2. DeviceInv /\ [SyncNext]_syncVars => [Next]_vars
  BY ServiceStep DEF DeviceInv
<1> QED
  BY <1>1, <1>2, DeviceAlways, PTL DEF SyncSpec, Spec

\* The files of the device, the coroutines of the client, the copies on their
\* way and the tables of the service hold records of their kind.
THEOREM SyncTypeCorrect == SyncSpec => []SyncTypeOK
  BY ImplementsService, TypeCorrect, DeviceAlways, PTL
  DEF SyncTypeOK, DeviceInv

\* However the device repeats, delays, reorders or forgets its writes, only a
\* proven attempt is completed, its result stays, it is rewarded once, and the
\* permanent score is the best one and one really reached.
THEOREM ServiceHolds ==
    SyncSpec => []CompletedIsProven /\ CompletedIsFinal /\ AnswersAreStable
                /\ []LifetimeDominates /\ []RewardedOnce /\ []BestIsAttained /\ TotalsNeverDrop
                /\ []TotalsMatchRows
  BY ImplementsService, OnlyProvenComplete, CompletedStays, AnswersStay,
     LifetimeIsBest, EveryRewardOnce, BestAlwaysAttained, TotalsOnlyGrow,
     TotalsAreSums

-----------------------------------------------------------------------------
(* What is written.  A write is in the queue, a dead letter, or a copy of   *)
(* it is on its way, at a handler or recorded.                             *)

Queue == {items[i] : i \in DOMAIN items}

Copies ==
    (IF Busy THEN {flight.sent} ELSE {}) \cup late
    \cup {tx[h].req : h \in {g \in Handlers : tx[g] # None}}
    \cup {idem[id].req : id \in {x \in IdemId : idem[x] # None}}

Written == Copies \cup dead \cup Queue

SameWrite(r, s) == r.route = s.route /\ r.key = s.key

\* The write of a route and a step of an attempt has been made.
Spent(written, route, a, step) ==
    \E r \in written : r.route = route /\ r.key = <<a, step>>

\* The player, the files and crashes leave the service alone.
Device == \/ Scene \/ Flush \/ Client
          \/ Expire \/ Logout \/ (\E u \in Users : Login(u))
          \/ Crash \/ CrashFinding \/ CrashResolving

Handles(h) == Look(h) \/ Accept(h) \/ Reject(h) \/ Fail(h)

LEMMA DeviceOrServer ==
    ASSUME [SyncNext]_syncVars
    PROVE  \/ Device
           \/ \E h \in Handlers : Arrive(h) \/ ArriveLate(h) \/ Handles(h)
           \/ \E v \in Versions : Publish(v)
           \/ UNCHANGED syncVars
  BY DEF SyncNext, Server, Device, Handles

LEMMA TablesStand ==
    ASSUME Device
    PROVE  UNCHANGED vars
<1>1. CASE Scene
  BY <1>1 DEF Scene, OpenLevel, MarkFound, FinishLevel, SaveView, Leave, Replay
<1>2. CASE Flush \/ Client
  BY <1>2 DEF Flush, Client, Timeout, Deny, Retry, Renew, GiveUp, Accepted, Rejected
<1>3. CASE Expire \/ Logout \/ \E u \in Users : Login(u)
  BY <1>3 DEF Expire, Logout, Login
<1>4. CASE Crash \/ CrashFinding \/ CrashResolving
  BY <1>4 DEF Crash, CrashFinding, CrashResolving, Die
<1> QED BY <1>1, <1>2, <1>3, <1>4 DEF Device

\* Whatever is committed is committed with a result of its kind.
LEMMA CommitsResult ==
    ASSUME TablesOK, NEW h \in Handlers,
           \/ CommitStart(h) \/ CommitProgress(h) \/ CommitComplete(h)
           \/ CommitCompleteAgain(h)
    PROVE  \E result \in Result : Commit(h, result)
<1> DEFINE r == tx[h].req
<1>1. tx[h] # None /\ r \in Request
  BY RequestType DEF CommitStart, CommitProgress, CommitComplete, CommitCompleteAgain,
                     MayCommit, Open
<1>2. CASE CommitStart(h)
  <2>1. Started(r) \in Attempt
    <3>1. NewAttempt(r) \in Attempt
      BY <1>1, NothingYet DEF NewAttempt, Attempt, Request
    <3> QED BY <1>1, <3>1, AttemptType DEF Started, Request
  <2>2. StartResult(r) \in Result
    BY <1>1, <2>1, NothingYet DEF StartResult, Result, Attempt, Request
  <2> QED BY <1>2, <2>2 DEF CommitStart
<1>3. CASE CommitProgress(h)
  <2>1. attempts[r.attempt] # None
    BY <1>3 DEF CommitProgress, ProgressFits, Owned
  <2>2. Progressed(r) \in Attempt
    <3>1. attempts[r.attempt] \in Attempt /\ r.found \in SUBSET Diffs
      BY <1>1, <2>1, AttemptType DEF Request
    <3>2. MergedHints(r) \in HintCount
      BY <1>1, <2>1, MergedType
    <3> QED BY <3>1, <3>2 DEF Progressed, Attempt
  <2>3. AttemptResult(r.attempt, Progressed(r), best, 0) \in Result
    BY <1>1, <2>2, AttemptResultType DEF TablesOK, Request
  <2> QED BY <1>3, <2>3 DEF CommitProgress
<1>4. CASE CommitComplete(h)
  <2>1. attempts[r.attempt] # None
    BY <1>4 DEF CommitComplete, CompleteFits, Owned
  <2>2. best' \in [Users -> [Versions -> Row \cup {None}]]
    BY <1>1, <1>4, CompleteTables
  <2>3. AttemptResult(r.attempt, Completed(r), best', 1) \in Result
    BY <1>1, <2>1, <2>2, CompletedType, AttemptResultType DEF Request
  <2> QED BY <1>4, <2>3 DEF CommitComplete
<1>5. CASE CommitCompleteAgain(h)
  <2>1. attempts[r.attempt] # None
    BY <1>5 DEF CommitCompleteAgain, AlreadyCompleted, Owned
  <2>2. AttemptResult(r.attempt, attempts[r.attempt], best, 0) \in Result
    BY <1>1, <2>1, AttemptType, AttemptResultType DEF TablesOK, Request
  <2> QED BY <1>5, <2>2 DEF CommitCompleteAgain
<1> QED BY <1>2, <1>3, <1>4, <1>5

\* A handler ends, or its key missed; what it commits is recorded under its key.
LEMMA HandlerTurns ==
    ASSUME TablesOK, NEW h \in Handlers, Handles(h)
    PROVE  /\ tx[h] # None
           /\ \A g \in Handlers : tx'[g] # None =>
                tx[g] # None /\ tx'[g].req = tx[g].req
           /\ \A g \in Handlers \ {h} : tx'[g] = tx[g]
           /\ \A id \in IdemId :
                \/ idem'[id] = idem[id]
                \/ /\ Accept(h) /\ id = Id(tx[h].req)
                   /\ idem'[id] # None /\ idem'[id].req = tx[h].req
<1>1. tx[h] # None
  BY DEF Handles, Look, Accept, Reject, Fail, Miss, Hit, Conflict, Refuse, LoseKeyRace, Abort,
         CommitStart, CommitProgress, CommitComplete, CommitCompleteAgain, MayCommit, Open, Looking
<1>2. tx[h] \in Tx /\ tx[h].req \in Request /\ tx[h].req \in Requests
  BY <1>1, RequestType DEF TablesOK, Tx
<1>3. CASE Look(h)
  <2>1. tx' = [tx EXCEPT ![h] = [tx[h] EXCEPT !.open = TRUE]] /\ idem' = idem
    BY <1>3 DEF Look, Miss, tables
  <2>2. [tx[h] EXCEPT !.open = TRUE].req = tx[h].req
    BY <1>2 DEF Tx
  <2> QED BY <1>1, <2>1, <2>2 DEF TablesOK
<1>4. CASE Reject(h) \/ Fail(h)
  <2>1. tx' = [tx EXCEPT ![h] = None] /\ idem' = idem
    BY <1>4 DEF Reject, Fail, Conflict, Refuse, LoseKeyRace, Abort, Idle, tables
  <2> QED BY <1>1, <2>1 DEF TablesOK
<1>5. CASE Accept(h)
  <2>1. tx' = [tx EXCEPT ![h] = None]
    BY <1>5 DEF Accept, Hit, CommitStart, CommitProgress, CommitComplete, CommitCompleteAgain,
                Commit, Idle
  <2>2. CASE Hit(h)
    BY <1>1, <2>1, <2>2 DEF Hit, tables, TablesOK
  <2>3. CASE ~Hit(h)
    <3>1. PICK result \in Result : Commit(h, result)
      BY <1>5, <2>3, CommitsResult DEF Accept
    <3> DEFINE rec == [req |-> tx[h].req, result |-> result]
    <3>2. idem' = [idem EXCEPT ![Id(tx[h].req)] = rec]
      BY <3>1 DEF Commit
    <3>3. rec.req = tx[h].req
      OBVIOUS
    <3>4. rec # None
      BY <1>2, NoneAssumption DEF IdemRecord
    <3> HIDE DEF rec
    <3>5. \A id \in IdemId : \/ idem'[id] = idem[id]
                             \/ id = Id(tx[h].req) /\ idem'[id] = rec
      BY <3>2 DEF TablesOK
    <3> QED BY <1>1, <1>5, <2>1, <3>3, <3>4, <3>5 DEF TablesOK
  <2> QED BY <2>2, <2>3
<1> QED BY <1>1, <1>3, <1>4, <1>5 DEF Handles
\* What a handler accepts is recorded, under its own key and body; a complete
\* that is recorded has completed its attempt.
LEMMA AcceptTells ==
    ASSUME TablesOK, NEW h \in Handlers, Accept(h)
    PROVE  /\ idem'[Id(tx[h].req)] # None
           /\ SameBody(idem'[Id(tx[h].req)].req, tx[h].req)
           /\ tx[h].req.route = "level_complete" /\ ~Hit(h) =>
                /\ attempts'[tx[h].req.attempt] # None
                /\ attempts'[tx[h].req.attempt].state = "completed"
<1> DEFINE r == tx[h].req
           a == tx[h].req.attempt
<1>1. CASE Hit(h)
  BY <1>1 DEF Hit, tables
<1>2. CASE ~Hit(h)
  <2>1. tx[h] # None
    BY <1>2 DEF Accept, CommitStart, CommitProgress, CommitComplete, CommitCompleteAgain,
                MayCommit, Open
  <2>2. r \in Request /\ r \in Requests /\ Id(r) \in IdemId /\ a \in Attempts
    BY <2>1, RequestType DEF Request
  <2>3. PICK result \in Result : Commit(h, result)
    BY <1>2, CommitsResult DEF Accept
  <2> DEFINE rec == [req |-> r, result |-> result]
  <2>4. idem' = [idem EXCEPT ![Id(r)] = rec] /\ rec.req = r
    BY <2>3 DEF Commit
  <2>5. rec # None
    BY <2>2, NoneAssumption DEF IdemRecord
  <2> HIDE DEF rec
  <2>6. idem'[Id(r)] = rec
    BY <2>2, <2>4 DEF TablesOK
  <2>7. SameBody(rec.req, r)
    BY <2>4 DEF SameBody
  <2>8. ASSUME r.route = "level_complete"
        PROVE  attempts'[a] # None /\ attempts'[a].state = "completed"
    <3>1. CASE CommitComplete(h)
      <4>1. /\ attempts[a] # None
            /\ attempts' = [attempts EXCEPT ![a] = Completed(r)]
        BY <3>1 DEF CommitComplete, CompleteFits, Owned
      <4>2. Completed(r) \in Attempt /\ attempts[a] \in Attempt
        BY <2>2, <4>1, CompletedType, AttemptType
      <4>3. Completed(r).state = "completed"
        BY <4>2 DEF Completed, Attempt
      <4>4. attempts'[a] = Completed(r)
        BY <2>2, <4>1 DEF TablesOK
      <4> QED BY <4>2, <4>3, <4>4, NoneAssumption
    <3>2. CASE CommitCompleteAgain(h)
      BY <3>2 DEF CommitCompleteAgain, AlreadyCompleted, Owned
    <3> QED
      BY <1>2, <2>8, <3>1, <3>2 DEF Accept, CommitStart, CommitProgress
  <2> QED BY <2>4, <2>5, <2>6, <2>7, <2>8
<1> QED BY <1>1, <1>2

\* Nothing is reset, so a completed attempt stays; and a step completes at most
\* one attempt.
LEMMA CompletesOne ==
    ASSUME TablesOK, [Next]_vars
    PROVE  /\ \A a \in Attempts : IsCompleted(a) => attempts'[a] = attempts[a]
           /\ \E a : \A b \in Attempts \ {a} :
                /\ attempts'[b] # None
                /\ attempts'[b].state = "completed"
                => IsCompleted(b)
<1>1. \A u \in Users : Keeps(u)
  BY SyncAssumption DEF Keeps
<1>2. CASE Quiet
  <2>1. \A a \in Attempts : IsCompleted(a) => attempts[a].user \in Users
    BY AttemptType DEF IsCompleted, Attempt
  <2> QED BY <1>1, <1>2, <2>1 DEF Quiet, IsCompleted
<1>3. ASSUME NEW r \in Request, NEW result \in Result, Completes(r, result)
      PROVE  /\ \A a \in Attempts : IsCompleted(a) => attempts'[a] = attempts[a]
             /\ \A b \in Attempts \ {r.attempt} : attempts'[b] = attempts[b]
  BY <1>3 DEF Completes, IsCompleted, TablesOK
<1> QED BY <1>2, <1>3, QuietOrComplete DEF IsCompleted

\* The key of a write names its attempt.
LEMMA Keyed ==
    ASSUME NEW r \in ClientRequests
    PROVE  /\ r.attempt \in Attempts
           /\ r.route \in Routes
           /\ \E step \in Diffs \cup {None} :
                /\ r.key = <<r.attempt, step>>
                /\ step = None <=> r.route # "level_progress"
  BY SyncAssumption
  DEF ClientRequests, StartItem, ProgressItem, CompleteItem, Write, Routes

LEMMA AsKeeps ==
    ASSUME NEW u \in Users, NEW item \in ClientRequests
    PROVE  /\ As(u, item).route = item.route
           /\ As(u, item).key = item.key
           /\ As(u, item).attempt = item.attempt
           /\ As(u, item).level = item.level
           /\ As(u, item).user = u
  BY ItemFields, ConstantsAssumption DEF As, Request

LEMMA SameAttempt ==
    ASSUME NEW r \in ClientRequests, NEW s \in ClientRequests, SameWrite(r, s)
    PROVE  r.attempt = s.attempt
  BY Keyed DEF SameWrite
-----------------------------------------------------------------------------
(* What one step does to the queue and to the copy in flight.              *)

\* A write is submitted: the start of a level that is opened, the progress of a
\* difference just found, or the complete of a level just finished.
Adds(item) ==
    /\ who \in Users
    /\ items' = Append(items, item)
    /\ flight' = IF Busy THEN flight ELSE Sending(Append(items, item), who)
    /\ UNCHANGED <<vars, who, dead, late>>
    /\ \/ \E a \in Attempts, v \in Versions : item = StartItem(who, a, v)
       \/ \E d \in Diffs, hinted \in BOOLEAN :
            /\ MayFind(d, hinted)
            /\ item = ProgressItem(who, Found(game.mine, d, hinted), d)
       \/ Playing("feedback") /\ item = CompleteItem(who, game.mine)

\* An answered write leaves the queue.
Removes ==
    /\ Busy
    /\ items' = Without(items, flight.pos)
    /\ \/ flight.reply = "ok" /\ dead' = dead
       \/ flight.reply = "rejected" /\ dead' = dead \cup {flight.item}
    /\ flight' = None \/ flight' = Sending(Without(items, flight.pos), who)
    /\ UNCHANGED vars

\* The queue stays; the loop ends, starts, or sends the item it is at again.
Rests ==
    /\ UNCHANGED <<items, dead>>
    /\ \/ flight' = None
       \/ flight' = Sending(items, who)
       \/ /\ Busy
          /\ flight' # None
          /\ flight'.pos = flight.pos
          /\ flight'.item = flight.item
          /\ \/ flight'.sent = flight.sent
             \/ who \in Users /\ flight'.sent = As(who, flight.item)

LEMMA SceneKinds ==
    ASSUME DeviceInv, Scene
    PROVE  Rests \/ \E item \in ClientRequests : Adds(item)
<1> USE DEF DeviceInv
<1>1. UNCHANGED <<vars, who, dead, late>>
  BY DEF Scene, OpenLevel, MarkFound, FinishLevel, SaveView, Leave, Replay
<1>2. who \in Users \cup {None}
  BY DEF DeviceTypeOK, Owners
<1>3. ASSUME flight' = flight, items' = items PROVE Rests
  BY <1>1, <1>3 DEF Rests, Busy
<1>4. ASSUME who = None, NEW item, Submit(item) PROVE Rests
  BY <1>1, <1>3, <1>4 DEF Submit
<1>5. ASSUME who # None, NEW item, Submit(item)
      PROVE  /\ items' = Append(items, item)
             /\ flight' = IF Busy THEN flight ELSE Sending(Append(items, item), who)
  BY <1>5 DEF Submit
<1>6. ASSUME NEW v \in Versions, OpenLevel(v) PROVE \E item \in ClientRequests : Adds(item)
  <2>1. PICK a \in Attempts : Submit(StartItem(who, a, v))
    BY <1>6 DEF OpenLevel
  <2>2. who \in Users /\ who # None
    BY <1>2, <1>6 DEF OpenLevel
  <2>3. StartItem(who, a, v) \in ClientRequests
    BY <2>2, StartItemType
  <2>4. Adds(StartItem(who, a, v))
    BY <1>1, <1>5, <2>1, <2>2 DEF Adds
  <2> QED BY <2>3, <2>4
<1>7. ASSUME NEW d \in Diffs, NEW hinted \in BOOLEAN, MarkFound(d, hinted)
      PROVE  Rests \/ \E item \in ClientRequests : Adds(item)
  <2> DEFINE mine == Found(game.mine, d, hinted)
             item == ProgressItem(who, mine, d)
  <2>1. Submit(item) /\ MayFind(d, hinted)
    BY <1>7 DEF MarkFound
  <2>2. mine \in Saved
    <3>1. game.mine \in Saved /\ (hinted => game.mine.hints < MaxHints)
      BY <2>1 DEF MayFind, Playing, DeviceTypeOK, Game
    <3> QED BY <3>1, FoundType
  <2>3. CASE who # None
    <3>1. item \in ClientRequests
      BY <1>2, <2>2, <2>3, ProgressItemType
    <3>2. Adds(item)
      BY <1>1, <1>2, <1>5, <2>1, <2>3 DEF Adds
    <3> QED BY <3>1, <3>2
  <2> QED BY <1>4, <2>1, <2>3
<1>8. CASE FinishLevel
  <2>1. Submit(CompleteItem(who, game.mine)) /\ Playing("feedback")
    BY <1>8 DEF FinishLevel
  <2>2. game.mine \in Saved
    BY <2>1 DEF Playing, DeviceTypeOK, Game
  <2>3. CASE who # None
    <3>1. CompleteItem(who, game.mine) \in ClientRequests
      BY <1>2, <2>2, <2>3, CompleteItemType
    <3>2. Adds(CompleteItem(who, game.mine))
      BY <1>1, <1>2, <1>5, <2>1, <2>3 DEF Adds
    <3> QED BY <3>1, <3>2
  <2> QED BY <1>4, <2>1, <2>3
<1>9. CASE SaveView \/ Leave \/ Replay
  BY <1>3, <1>9 DEF SaveView, Leave, Replay
<1> QED BY <1>6, <1>7, <1>8, <1>9 DEF Scene

LEMMA ClientKinds ==
    ASSUME DeviceInv, Flush \/ Client
    PROVE  Rests \/ Removes
<1> USE DEF DeviceInv
<1>1. CASE Flush
  BY <1>1 DEF Flush, Rests
<1>2. CASE Timeout \/ Deny
  <2>1. Busy /\ flight \in Flight /\ UNCHANGED <<items, dead>>
    BY <1>2, FlightType DEF Timeout, Deny
  <2>2. \/ flight' = [flight EXCEPT !.reply = "failed", !.by = None]
        \/ flight' = [flight EXCEPT !.reply = "denied"]
    BY <1>2 DEF Timeout, Deny
  <2>3. /\ flight' \in Flight
        /\ flight'.pos = flight.pos /\ flight'.item = flight.item
        /\ flight'.sent = flight.sent
    BY <2>1, <2>2 DEF Flight
  <2> QED BY <2>1, <2>3, SyncNoneAssumption DEF Rests
<1>3. CASE Retry \/ Renew
  <2>1. Busy /\ flight \in Flight /\ UNCHANGED <<items, dead>> /\ who \in Users
    BY <1>3, FlightType DEF Retry, Renew, DeviceTypeOK, Owners
  <2>2. PICK tries \in 1 .. MaxTries, renewed \in BOOLEAN : flight' = Again(tries, renewed)
    <3>1. CASE Retry
      <4>1. flight.tries + 1 \in 1 .. MaxTries /\ flight.renewed \in BOOLEAN
        BY <2>1, <3>1, SyncAssumption DEF Retry, Flight
      <4> QED BY <3>1, <4>1 DEF Retry
    <3>2. CASE Renew
      <4>1. 1 \in 1 .. MaxTries
        BY SyncAssumption
      <4> QED BY <3>2, <4>1 DEF Renew
    <3> QED BY <1>3, <3>1, <3>2
  <2>3. As(who, flight.item) \in ClientRequests
    BY <2>1, AsType DEF Flight
  <2>4. /\ flight' \in Flight
        /\ flight'.pos = flight.pos /\ flight'.item = flight.item
        /\ flight'.sent = As(who, flight.item)
    BY <2>1, <2>2, <2>3 DEF Again, Flight
  <2> QED BY <2>1, <2>4, SyncNoneAssumption DEF Rests
<1>4. CASE GiveUp
  BY <1>4 DEF GiveUp, Rests
<1>5. CASE Accepted \/ Rejected
  <2>1. UNCHANGED vars /\ Busy
    BY <1>5 DEF Accepted, Rejected
  <2>2. /\ items' = Without(items, flight.pos)
        /\ flight' = Sending(Without(items, flight.pos), who)
    BY <1>5 DEF Accepted, Rejected, Resolve
  <2>3. \/ flight.reply = "ok" /\ dead' = dead
        \/ flight.reply = "rejected" /\ dead' = dead \cup {flight.item}
    BY <1>5 DEF Accepted, Rejected
  <2> QED BY <2>1, <2>2, <2>3 DEF Removes
<1> QED BY <1>1, <1>2, <1>3, <1>4, <1>5 DEF Client

LEMMA ServerKinds ==
    ASSUME DeviceInv, NEW h \in Handlers, Arrive(h) \/ ArriveLate(h) \/ Handles(h)
    PROVE  Rests
<1> USE DEF DeviceInv
<1>1. UNCHANGED <<items, dead>>
  BY DEF Arrive, ArriveLate, Handles, Look, Accept, Reject, Fail, Answer, device
<1>2. CASE flight' = flight
  BY <1>1, <1>2 DEF Rests, Busy
<1>3. CASE Arrive(h)
  <2>1. Busy /\ flight \in Flight /\ flight' = [flight EXCEPT !.by = h]
    BY <1>3, FlightType DEF Arrive
  <2>2. /\ flight' \in Flight
        /\ flight'.pos = flight.pos /\ flight'.item = flight.item
        /\ flight'.sent = flight.sent
    BY <2>1 DEF Flight
  <2> QED BY <1>1, <2>1, <2>2, SyncNoneAssumption DEF Rests
<1>4. ASSUME NEW reply \in {"ok", "rejected", "failed"}, Answer(h, reply), flight' # flight
      PROVE  Rests
  <2>1. Busy /\ flight \in Flight /\ flight' = [flight EXCEPT !.reply = reply, !.by = None]
    BY <1>4, FlightType DEF Answer
  <2>2. /\ flight' \in Flight
        /\ flight'.pos = flight.pos /\ flight'.item = flight.item
        /\ flight'.sent = flight.sent
    BY <2>1 DEF Flight
  <2> QED BY <1>1, <2>1, <2>2, SyncNoneAssumption DEF Rests
<1> QED
  BY <1>2, <1>3, <1>4 DEF ArriveLate, Handles, Look, Accept, Reject, Fail, device

LEMMA StepKinds ==
    ASSUME DeviceInv, [SyncNext]_syncVars
    PROVE  Rests \/ Removes \/ \E item \in ClientRequests : Adds(item)
<1>1. CASE Expire \/ Logout \/ \E u \in Users : Login(u)
  BY <1>1 DEF Expire, Logout, Login, Rests, Busy
<1>2. CASE Crash \/ CrashFinding
  BY <1>2 DEF Crash, CrashFinding, Die, Rests
<1>3. CASE CrashResolving
  BY <1>3 DEF CrashResolving, Die, Removes
<1>4. CASE (\E v \in Versions : Publish(v)) \/ UNCHANGED syncVars
  BY <1>4 DEF Publish, syncVars, device, Rests, Busy
<1> QED
  BY <1>1, <1>2, <1>3, <1>4, DeviceOrServer, SceneKinds, ClientKinds, ServerKinds
  DEF Device

\* A copy that is new is the one just sent.
LEMMA CopiesStep ==
    ASSUME DeviceInv, TablesOK, [SyncNext]_syncVars, NEW c \in Copies'
    PROVE  c \in Copies \/ (flight' # None /\ c = flight'.sent)
<1>1. \/ flight' # None /\ c = flight'.sent
      \/ c \in late'
      \/ \E h \in Handlers : tx'[h] # None /\ c = tx'[h].req
      \/ \E id \in IdemId : idem'[id] # None /\ c = idem'[id].req
  BY DEF Copies, Busy
<1>2. CASE c \in late'
  <2>1. late' = late \/ late' = Delayed \/ \E r : late' = late \ {r}
    BY DeviceOrServer
    DEF Device, Scene, OpenLevel, MarkFound, FinishLevel, SaveView, Leave, Replay,
        Flush, Client, Timeout, Deny, Retry, Renew, GiveUp, Accepted, Rejected,
        Expire, Logout, Login, Crash, CrashFinding, CrashResolving, Die,
        Arrive, ArriveLate, Handles, Look, Accept, Reject, Fail, Answer, Publish,
        device, syncVars
  <2> QED BY <1>2, <2>1 DEF Delayed, Copies
<1>3. ASSUME NEW g \in Handlers, tx'[g] # None, c = tx'[g].req PROVE c \in Copies
  <2>1. CASE UNCHANGED tx
    BY <1>3, <2>1 DEF Copies
  <2>2. ASSUME NEW h \in Handlers, Handles(h) PROVE c \in Copies
    BY <1>3, <2>2, HandlerTurns DEF Copies
  <2>3. ASSUME NEW h \in Handlers, NEW r \in Copies, Receive(h, r) PROVE c \in Copies
    <3> DEFINE new == [req |-> r, open |-> FALSE]
    <3>1. tx' = [tx EXCEPT ![h] = new] /\ new.req = r
      BY <2>3 DEF Receive
    <3> HIDE DEF new
    <3>2. tx'[g] = tx[g] \/ tx'[g] = new
      BY <3>1 DEF TablesOK
    <3> QED BY <1>3, <2>3, <3>1, <3>2 DEF Copies
  <2>4. ASSUME NEW h \in Handlers, Arrive(h) \/ ArriveLate(h) PROVE c \in Copies
    BY <2>3, <2>4 DEF Arrive, ArriveLate, Copies
  <2>5. CASE Device \/ (\E v \in Versions : Publish(v)) \/ UNCHANGED syncVars
    BY <2>1, <2>5, TablesStand DEF Publish, Transition, syncVars, vars
  <2> QED BY <2>2, <2>4, <2>5, DeviceOrServer
<1>4. ASSUME NEW id \in IdemId, idem'[id] # None, c = idem'[id].req PROVE c \in Copies
  <2>1. CASE UNCHANGED idem
    BY <1>4, <2>1 DEF Copies
  <2>2. ASSUME NEW h \in Handlers, Handles(h) PROVE c \in Copies
    BY <1>4, <2>2, HandlerTurns DEF Copies
  <2>3. CASE \/ Device \/ (\E v \in Versions : Publish(v)) \/ UNCHANGED syncVars
             \/ \E h \in Handlers : Arrive(h) \/ ArriveLate(h)
    BY <2>1, <2>3, TablesStand
    DEF Publish, Transition, Arrive, ArriveLate, Receive, syncVars, vars, tables
  <2> QED BY <2>2, <2>3, DeviceOrServer
<1> QED BY <1>1, <1>2, <1>3, <1>4
-----------------------------------------------------------------------------
(* The queue is sent from its front, and each write waits in it once.      *)

\* The copy in flight is of the first item of its owner.
FrontInv ==
    Busy => /\ flight.sent = As(flight.sent.user, flight.item)
            /\ \A i \in 1 .. flight.pos - 1 : items[i].user # flight.item.user

CopiesType == Copies \subseteq ClientRequests

LEMMA SendingFront ==
    ASSUME NEW queue \in Seq(ClientRequests), NEW u \in Owners,
           Sending(queue, u) # None
    PROVE  /\ Sending(queue, u).pos \in DOMAIN queue
           /\ queue[Sending(queue, u).pos] = Sending(queue, u).item
           /\ Sending(queue, u).item.user = u
           /\ Sending(queue, u).sent = As(u, Sending(queue, u).item)
           /\ u \in Users
           /\ \A i \in 1 .. Sending(queue, u).pos - 1 : queue[i].user # u
           /\ Sending(queue, u).by = None
           /\ Sending(queue, u).reply = "none"
<1>1. PICK j \in DOMAIN queue : queue[j].user = u
  BY DEF Sending
<1> DEFINE k == FirstOf(queue, u)
<1>2. /\ k \in DOMAIN queue /\ queue[k].user = u
      /\ \A i \in DOMAIN queue : queue[i].user = u => k <= i
  BY <1>1, FirstOfType
<1>3. Sending(queue, u) =
        [pos |-> k, item |-> queue[k], sent |-> As(u, queue[k]), tries |-> 1,
         renewed |-> FALSE, by |-> None, reply |-> "none"]
  BY <1>1 DEF Sending
<1>4. u \in Users
  BY <1>2, ItemFields
<1> HIDE DEF k
<1>5. \A i \in 1 .. k - 1 : i \in DOMAIN queue /\ i < k
  BY <1>2
<1>6. \A i \in 1 .. k - 1 : queue[i].user # u
  <2> SUFFICES ASSUME NEW i \in 1 .. k - 1, queue[i].user = u PROVE FALSE
    OBVIOUS
  <2>1. i \in DOMAIN queue /\ i < k /\ k \in Int
    BY <1>2, <1>5
  <2> QED BY <1>2, <2>1
<1> QED BY <1>2, <1>3, <1>4, <1>6

LEMMA WithoutItems ==
    ASSUME NEW queue \in Seq(ClientRequests), NEW i \in DOMAIN queue
    PROVE  /\ DOMAIN Without(queue, i) = 1 .. Len(queue) - 1
           /\ \A j \in 1 .. Len(queue) - 1 :
                /\ j < i => j \in DOMAIN queue /\ Without(queue, i)[j] = queue[j]
                /\ j >= i => j + 1 \in DOMAIN queue /\ Without(queue, i)[j] = queue[j + 1]
           /\ {Without(queue, i)[j] : j \in DOMAIN Without(queue, i)}
                \subseteq {queue[j] : j \in DOMAIN queue}
           /\ \A j \in DOMAIN queue \ {i} :
                queue[j] \in {Without(queue, i)[k] : k \in DOMAIN Without(queue, i)}
<1> DEFINE W == Without(queue, i)
           front == SubSeq(queue, 1, i - 1)
           back == SubSeq(queue, i + 1, Len(queue))
<1>1. i \in 1 .. Len(queue) /\ Len(queue) \in Nat
  OBVIOUS
<1>2. /\ front \in Seq(ClientRequests) /\ back \in Seq(ClientRequests)
      /\ Len(front) = i - 1 /\ Len(back) = Len(queue) - i
      /\ \A j \in 1 .. i - 1 : front[j] = queue[j]
      /\ \A j \in 1 .. Len(queue) - i : back[j] = queue[i + j]
  BY <1>1
<1>3. W = front \o back
  BY DEF Without
<1> HIDE DEF W, front, back
<1>4. /\ Len(W) = Len(queue) - 1 /\ DOMAIN W = 1 .. Len(queue) - 1
      /\ \A j \in 1 .. Len(queue) - 1 : W[j] = IF j < i THEN front[j] ELSE back[j - (i - 1)]
  BY <1>1, <1>2, <1>3
<1>5. \A j \in 1 .. Len(queue) - 1 :
        /\ j < i => j \in DOMAIN queue /\ W[j] = queue[j]
        /\ j >= i => j + 1 \in DOMAIN queue /\ W[j] = queue[j + 1]
  <2> SUFFICES ASSUME NEW j \in 1 .. Len(queue) - 1
               PROVE  /\ j < i => j \in DOMAIN queue /\ W[j] = queue[j]
                      /\ j >= i => j + 1 \in DOMAIN queue /\ W[j] = queue[j + 1]
    OBVIOUS
  <2>1. CASE j < i
    BY <1>1, <1>2, <1>4, <2>1
  <2>2. CASE j >= i
    <3>1. j - (i - 1) \in 1 .. Len(queue) - i /\ i + (j - (i - 1)) = j + 1
      BY <1>1, <2>2
    <3>2. W[j] = queue[j + 1]
      BY <1>1, <1>2, <1>4, <2>2, <3>1
    <3> QED BY <1>1, <2>2, <3>2
  <2> QED BY <1>1, <2>1, <2>2
<1>6. {W[j] : j \in DOMAIN W} \subseteq {queue[j] : j \in DOMAIN queue}
  <2> SUFFICES ASSUME NEW j \in DOMAIN W PROVE W[j] \in {queue[k] : k \in DOMAIN queue}
    OBVIOUS
  <2>1. j < i \/ j >= i
    BY <1>1, <1>4
  <2> QED BY <1>4, <1>5, <2>1
<1>7. \A j \in DOMAIN queue \ {i} : queue[j] \in {W[k] : k \in DOMAIN W}
  <2> SUFFICES ASSUME NEW j \in DOMAIN queue \ {i} PROVE queue[j] \in {W[k] : k \in DOMAIN W}
    OBVIOUS
  <2>1. CASE j < i
    BY <1>1, <1>4, <1>5, <2>1
  <2>2. CASE j > i
    <3>1. j - 1 \in 1 .. Len(queue) - 1 /\ j - 1 >= i /\ (j - 1) + 1 = j
      BY <1>1, <2>2
    <3> QED BY <1>4, <1>5, <3>1
  <2> QED BY <1>1, <2>1, <2>2
<1> QED BY <1>4, <1>5, <1>6, <1>7 DEF W

LEMMA FrontStep ==
    ASSUME DeviceInv, FrontInv, [SyncNext]_syncVars
    PROVE  FrontInv'
<1> USE DEF DeviceInv
<1>1. items \in Seq(ClientRequests) /\ who \in Owners
  BY DEF DeviceTypeOK
<1>2. ASSUME NEW queue \in Seq(ClientRequests), items' = queue,
             flight' = Sending(queue, who)
      PROVE  FrontInv'
  <2>1. CASE flight' = None
    BY <2>1 DEF FrontInv, Busy
  <2>2. CASE flight' # None
    <3>1. /\ flight'.item \in ClientRequests
          /\ flight'.item.user = who
          /\ flight'.sent = As(who, flight'.item)
          /\ who \in Users
          /\ \A i \in 1 .. flight'.pos - 1 : items'[i].user # who
      BY <1>1, <1>2, <2>2, SendingFront
    <3>2. flight'.sent.user = who
      BY <3>1, AsKeeps
    <3> QED BY <3>1, <3>2 DEF FrontInv
  <2> QED BY <2>1, <2>2
<1>3. CASE flight' = None
  BY <1>3 DEF FrontInv, Busy
<1>4. ASSUME Busy, flight'.pos = flight.pos, flight'.item = flight.item,
             \/ flight'.sent = flight.sent
             \/ (who \in Users /\ flight'.sent = As(who, flight.item)),
             \A i \in DOMAIN items : items'[i] = items[i]
      PROVE  FrontInv'
  <2>1. flight.pos \in DOMAIN items /\ flight.item \in ClientRequests
    BY <1>4, FlightType DEF ResolvesWhatItSent, Flight
  <2>2. \A i \in 1 .. flight.pos - 1 : i \in DOMAIN items
    BY <1>1, <2>1
  <2>3. \A i \in 1 .. flight'.pos - 1 : items'[i].user # flight'.item.user
    BY <1>4, <2>2 DEF FrontInv
  <2>4. flight'.sent = As(flight'.sent.user, flight'.item)
    BY <1>4, <2>1, AsKeeps DEF FrontInv
  <2> QED BY <2>3, <2>4 DEF FrontInv
<1>5. CASE Rests
  BY <1>1, <1>2, <1>3, <1>4, <1>5 DEF Rests
<1>6. CASE Removes
  <2>1. Without(items, flight.pos) \in Seq(ClientRequests)
    BY <1>1, <1>6, WithoutType DEF Removes, ResolvesWhatItSent
  <2> QED BY <1>2, <1>3, <1>6, <2>1 DEF Removes
<1>7. ASSUME NEW item \in ClientRequests, Adds(item) PROVE FrontInv'
  <2>1. /\ Append(items, item) \in Seq(ClientRequests)
        /\ \A i \in DOMAIN items : Append(items, item)[i] = items[i]
    BY <1>1
  <2>2. CASE Busy
    BY <1>4, <1>7, <2>1, <2>2 DEF Adds
  <2> QED BY <1>2, <1>7, <2>1, <2>2 DEF Adds
<1> QED BY <1>5, <1>6, <1>7, StepKinds

LEMMA CopiesTypeStep ==
    ASSUME DeviceInv, TablesOK, CopiesType, [SyncNext]_syncVars
    PROVE  CopiesType'
<1>1. flight' # None => flight'.sent \in ClientRequests
  BY DeviceStep DEF DeviceInv, DeviceTypeOK, Flight
<1> QED BY <1>1, CopiesStep DEF CopiesType
-----------------------------------------------------------------------------
(* The saved attempts and the scene.                                       *)

\* Two records of an attempt that differ in the state shown at most.
Same(s, t) == /\ s.attempt = t.attempt /\ s.version = t.version
              /\ s.found = t.found /\ s.hints = t.hints

\* A saved attempt belongs to its level, and only what it has found, or all of
\* it, has ever been written.
SlotFits(s, l, handed, written) ==
    /\ LevelOf[s.version] = l
    /\ s.attempt \in handed
    /\ s.found \subseteq DiffsOf[s.version]
    /\ \A d \in Diffs \ s.found : ~Spent(written, "level_progress", s.attempt, d)
    /\ Spent(written, "level_complete", s.attempt, None) => s.found = DiffsOf[s.version]

SlotsFit ==
    \A u \in Users, l \in Levels :
        store[u][l] # None => SlotFits(store[u][l], l, used, Written)

SlotsDiffer ==
    \A u, w \in Users, l, m \in Levels :
        /\ store[u][l] # None
        /\ store[w][m] # None
        /\ store[u][l].attempt = store[w][m].attempt
        => u = w /\ l = m

\* The scene of a signed-in player plays the attempt that is saved; once all is
\* found, its complete is not written yet.
SceneFits ==
    game # None =>
        /\ game.mine.attempt \in used
        /\ game.phase = "feedback" => game.mine.found = DiffsOf[game.mine.version]
        /\ who # None =>
            /\ store[who][LevelOf[game.mine.version]] # None
            /\ Same(store[who][LevelOf[game.mine.version]], game.mine)
            /\ game.phase = "feedback" =>
                ~Spent(Written, "level_complete", game.mine.attempt, None)

WrittenUsed == \A r \in Written : r.attempt \in used

SlotsInv == SlotsFit /\ SlotsDiffer /\ SceneFits /\ WrittenUsed

\* A step that finds nothing and opens no level.
KeepsSlots ==
    /\ used' = used
    /\ \A u \in Users, l \in Levels :
        store'[u][l] # None => store[u][l] # None /\ Same(store'[u][l], store[u][l])
    /\ game' # None =>
        /\ game # None
        /\ Same(game'.mine, game.mine)
        /\ game'.phase = "feedback" => game.phase = "feedback"
        /\ who' # None =>
            who' = who /\ store'[who][LevelOf[game.mine.version]] # None

SameStore(saves) ==
    \A u \in Users, l \in Levels :
        /\ saves[u][l] = None <=> store[u][l] = None
        /\ store[u][l] # None => Same(saves[u][l], store[u][l])

LEMMA SavedSlots ==
    ASSUME who \in Owners, NEW saves \in Saves, NEW mine \in Saved,
           NEW u \in Users, NEW l \in Levels
    PROVE  Save(saves, mine)[u][l] =
                IF u = who /\ l = LevelOf[mine.version] THEN mine ELSE saves[u][l]
<1>1. CASE who = None
  BY <1>1, NoneAssumption DEF Save
<1>2. CASE who # None
  <2>1. who \in Users /\ LevelOf[mine.version] \in Levels
    BY <1>2, LevelType DEF Owners, Saved
  <2>2. saves[who] \in [Levels -> Saved \cup {None}]
    BY <2>1 DEF Saves
  <2>3. Save(saves, mine) =
            [saves EXCEPT ![who] =
                [saves[who] EXCEPT ![LevelOf[mine.version]] = mine]]
    BY <1>2 DEF Save
  <2>4. [saves[who] EXCEPT ![LevelOf[mine.version]] = mine][l] =
            IF l = LevelOf[mine.version] THEN mine ELSE saves[who][l]
    BY <2>1, <2>2
  <2>5. Save(saves, mine)[u] =
            IF u = who THEN [saves[who] EXCEPT ![LevelOf[mine.version]] = mine]
            ELSE saves[u]
    BY <2>1, <2>3 DEF Saves
  <2> QED BY <2>4, <2>5
<1> QED BY <1>1, <1>2

LEMMA MarkedSame ==
    ASSUME who \in Owners, store \in Saves, flight \in Flight,
           NEW state \in {"synced", "rejected"}
    PROVE  SameStore(Marked(state))
<1> DEFINE level == flight.item.level
<1>1. level \in Levels
  BY ItemFields DEF Flight
<1>2. CASE Marked(state) = store
  BY <1>2 DEF SameStore, Same
<1>3. CASE Marked(state) # store
  <2>1. who # None /\ store[who][level] # None
        /\ Marked(state) = [store EXCEPT ![who][level].state = state]
    BY <1>3 DEF Marked, WithState
  <2>2. who \in Users /\ store[who] \in [Levels -> Saved \cup {None}]
    BY <2>1 DEF Owners, Saves
  <2> DEFINE new == [store[who][level] EXCEPT !.state = state]
             row == [store[who] EXCEPT ![level] = new]
  <2>3. store[who][level] \in Saved
    BY <1>1, <2>1, <2>2
  <2>4. new \in Saved /\ Same(new, store[who][level])
    BY <2>3, StateType DEF Same, Saved
  <2>5. Marked(state) = [store EXCEPT ![who] = row]
    BY <2>1
  <2> HIDE DEF new, level
  <2>6. \A l \in Levels : row[l] = IF l = level THEN new ELSE store[who][l]
    BY <1>1, <2>2
  <2> HIDE DEF row
  <2>7. \A u \in Users : Marked(state)[u] = IF u = who THEN row ELSE store[u]
    BY <2>2, <2>5 DEF Saves
  <2>8. new # None
    BY <2>4, SyncNoneAssumption
  <2> QED BY <2>1, <2>2, <2>4, <2>6, <2>7, <2>8 DEF SameStore, Same
<1> QED BY <1>2, <1>3

\* The scene saves its attempt in another state.
LEMMA SavesState ==
    ASSUME DeviceInv, SceneFits, UNCHANGED <<who, used>>, game # None,
           NEW saves \in Saves, SameStore(saves),
           NEW result \in {"sync_queued", "synced", "rejected"},
           game'.mine = game.mine
               \/ game'.mine = [game.mine EXCEPT !.state = result],
           game'.phase # "feedback",
           store' = Save(saves, [game.mine EXCEPT !.state = result])
    PROVE  KeepsSlots
<1> DEFINE mine == [game.mine EXCEPT !.state = result]
<1>1. /\ game.mine \in Saved
      /\ who \in Owners
      /\ who # None => who \in Users
      /\ LevelOf[game.mine.version] \in Levels
  BY LevelType DEF DeviceInv, DeviceTypeOK, Game, Saved, Owners
<1>2. mine \in Saved /\ Same(mine, game.mine) /\ mine # None
  <2>1. mine \in Saved
    BY <1>1, StateType
  <2>2. Same(mine, game.mine)
    BY <1>1 DEF Same, Saved
  <2> QED BY <2>1, <2>2, SyncNoneAssumption
<1>3. Same(game'.mine, game.mine)
  BY <1>2 DEF Same
<1>4. store' = Save(saves, mine)
  OBVIOUS
<1> HIDE DEF mine
<1>5. \A u \in Users, l \in Levels :
          store'[u][l] = IF u = who /\ l = LevelOf[mine.version] THEN mine ELSE saves[u][l]
  BY <1>1, <1>2, <1>4, SavedSlots
<1>6. mine.version = game.mine.version
  BY <1>2 DEF Same
<1>7. \A u \in Users, l \in Levels :
          store'[u][l] # None => store[u][l] # None /\ Same(store'[u][l], store[u][l])
  BY <1>1, <1>2, <1>5, <1>6, NoneAssumption DEF SameStore, SceneFits, Same
<1>8. who # None => store'[who][LevelOf[game.mine.version]] # None
  BY <1>1, <1>2, <1>5, <1>6
<1> QED BY <1>3, <1>7, <1>8 DEF KeepsSlots

LEMMA EndKeeps ==
    ASSUME DeviceInv, SceneFits, UNCHANGED <<who, used>>,
           NEW saves \in Saves, SameStore(saves),
           NEW result \in {"sync_queued", "synced", "rejected"},
           EndOfFlush(saves, result)
    PROVE  KeepsSlots
<1>1. CASE ~Playing("submitted")
  <2>1. store' = saves /\ game' = game
    BY <1>1 DEF EndOfFlush
  <2>2. game # None /\ who # None => store'[who][LevelOf[game.mine.version]] # None
    <3>1. game # None /\ who # None => who \in Users /\ LevelOf[game.mine.version] \in Levels
      BY LevelType DEF DeviceInv, DeviceTypeOK, Owners, Game, Saved
    <3> QED BY <2>1, <3>1 DEF SameStore, SceneFits
  <2>3. \A u \in Users, l \in Levels :
            store'[u][l] # None => store[u][l] # None /\ Same(store'[u][l], store[u][l])
    BY <2>1 DEF SameStore
  <2> QED BY <2>1, <2>2, <2>3 DEF KeepsSlots, Same
<1>2. CASE Playing("submitted")
  <2>1. /\ game # None
        /\ game' = Finished(game.mine, result)
        /\ store' = Save(saves, [game.mine EXCEPT !.state = result])
    BY <1>2 DEF EndOfFlush, Playing
  <2>2. game'.mine = [game.mine EXCEPT !.state = result] /\ game'.phase # "feedback"
    BY <2>1 DEF Finished
  <2> QED BY <2>1, <2>2, SavesState
<1> QED BY <1>1, <1>2

LEMMA FinishKeeps ==
    ASSUME DeviceInv, SceneFits, FinishLevel
    PROVE  KeepsSlots /\ game'.phase # "feedback"
<1>1. /\ game # None /\ UNCHANGED <<who, used>>
      /\ game \in Game /\ store \in Saves
  BY DEF FinishLevel, Playing, DeviceInv, DeviceTypeOK, Saves
<1>2. SameStore(store)
  BY DEF SameStore, Same
<1>3. CASE Busy \/ who = None
  <2>1. /\ game' = Finished(game.mine, "sync_queued")
        /\ store' = Save(store, [game.mine EXCEPT !.state = "sync_queued"])
    BY <1>3 DEF FinishLevel
  <2>2. game'.mine = [game.mine EXCEPT !.state = "sync_queued"] /\ game'.phase # "feedback"
    BY <2>1 DEF Finished
  <2> QED BY <1>1, <1>2, <2>1, <2>2, SavesState
<1>4. CASE ~(Busy \/ who = None)
  <2>1. store' = store /\ game' = [game EXCEPT !.phase = "submitted"]
    BY <1>4 DEF FinishLevel
  <2>2. game'.mine = game.mine /\ game'.phase # "feedback"
    BY <1>1, <2>1 DEF Game
  <2> QED BY <1>1, <2>1, <2>2 DEF KeepsSlots, SceneFits, Same
<1> QED BY <1>3, <1>4

\* All that is written after a step is written before it, or one of these.
NewIn(new) ==
    \A r \in Written' : \E s \in Written \cup new :
        SameWrite(r, s) /\ r.attempt = s.attempt /\ r.level = s.level

Opens(v, a) ==
    LET saved == store[who][LevelOf[v]]
        resumed == IF saved = None THEN FALSE ELSE Resumes(saved, v)
        mine == IF resumed THEN saved ELSE Fresh(a, v)
    IN
    /\ who \in Users
    /\ who' = who
    /\ IF resumed THEN a = saved.attempt ELSE a \notin used
    /\ used' = used \cup {a}
    /\ game' = [mine |-> mine, phase |-> "play", result |-> "sync_queued"]
    /\ store' = Save(store, mine)

FindsOne(d, hinted) ==
    LET mine == Found(game.mine, d, hinted) IN
    /\ MayFind(d, hinted)
    /\ UNCHANGED <<who, used>>
    /\ store' = Save(store, mine)
    /\ \/ game' = None
       \/ game' = [game EXCEPT !.mine = mine,
                !.phase = IF mine.found = DiffsOf[mine.version]
                          THEN "feedback" ELSE "play"]

Finishes ==
    /\ Playing("feedback")
    /\ who \in Users
    /\ KeepsSlots
    /\ game'.phase # "feedback"

LEMMA WrittenStep ==
    ASSUME DeviceInv, DeviceInv', TablesOK, FrontInv', [SyncNext]_syncVars,
           NEW new, Queue' \subseteq Queue \cup new, dead' \subseteq dead \cup Queue
    PROVE  NewIn(new)
<1> SUFFICES ASSUME NEW r \in Written'
             PROVE  \E s \in Written \cup new :
                        SameWrite(r, s) /\ r.attempt = s.attempt /\ r.level = s.level
  BY DEF NewIn
<1>1. CASE r \in Written \cup new
  BY <1>1 DEF SameWrite
<1>2. CASE r \in Copies' /\ r \notin Copies
  <2>1. flight' # None /\ r = flight'.sent
    BY <1>2, CopiesStep
  <2>2. /\ flight'.pos \in DOMAIN items'
        /\ items'[flight'.pos] = flight'.item
        /\ flight'.item \in ClientRequests
        /\ flight'.sent \in ClientRequests
    BY <2>1 DEF DeviceInv, DeviceTypeOK, ResolvesWhatItSent, Busy, Flight
  <2>3. flight'.item \in Queue'
    BY <2>2 DEF Queue
  <2>4. r = As(r.user, flight'.item) /\ r.user \in Users
    BY <2>1, <2>2, ItemFields DEF FrontInv, Busy
  <2>5. /\ SameWrite(r, flight'.item)
        /\ r.attempt = flight'.item.attempt /\ r.level = flight'.item.level
    BY <2>2, <2>4, AsKeeps DEF SameWrite
  <2> QED BY <2>3, <2>5 DEF Written
<1>3. r \in Copies' \cup dead' \cup Queue'
  BY DEF Written
<1> QED BY <1>1, <1>2, <1>3 DEF Written

\* What a step does to the queue and the dead letters, whatever it does else.
LEMMA QueueSteps ==
    ASSUME DeviceInv
    PROVE  /\ Rests \/ Removes => Queue' \subseteq Queue
           /\ Rests \/ Removes \/ (\E item : Adds(item)) => dead' \subseteq dead \cup Queue
           /\ \A item : Adds(item) => Queue' \subseteq Queue \cup {item}
<1>1. items \in Seq(ClientRequests)
  BY DEF DeviceInv, DeviceTypeOK
<1>2. ASSUME Rests PROVE Queue' = Queue /\ dead' = dead
  BY <1>2 DEF Rests, Queue
<1>3. ASSUME Removes PROVE Queue' \subseteq Queue /\ dead' \subseteq dead \cup Queue
  <2>1. /\ flight.pos \in DOMAIN items
        /\ items' = Without(items, flight.pos)
        /\ flight.item = items[flight.pos]
        /\ dead' \subseteq dead \cup {flight.item}
    BY <1>3 DEF Removes, DeviceInv, ResolvesWhatItSent
  <2>2. Queue' \subseteq Queue
    BY <1>1, <2>1, WithoutItems DEF Queue
  <2> QED BY <2>1, <2>2 DEF Queue
<1>4. ASSUME NEW item, Adds(item) PROVE Queue' \subseteq Queue \cup {item} /\ dead' = dead
  <2>1. items' = Append(items, item) /\ dead' = dead
    BY <1>4 DEF Adds
  <2>2. \A i \in DOMAIN items' : (i \in DOMAIN items /\ items'[i] = items[i])
                            \/ items'[i] = item
    BY <1>1, <2>1
  <2> QED BY <2>1, <2>2 DEF Queue
<1> QED BY <1>2, <1>3, <1>4

LEMMA QuietKeeps ==
    ASSUME DeviceInv, SceneFits,
           Flush \/ Client \/ Server \/ Expire \/ Logout \/ (\E u \in Users : Login(u))
           \/ Crash \/ CrashResolving \/ UNCHANGED syncVars \/ SaveView \/ Leave \/ Replay
    PROVE  KeepsSlots
<1> USE DEF DeviceInv
<1>1. /\ who \in Owners /\ store \in Saves
      /\ who # None => who \in Users
      /\ game # None => /\ game.mine \in Saved /\ game.mine \notin {None}
                        /\ LevelOf[game.mine.version] \in Levels
      /\ Busy => flight \in Flight
  BY LevelType, SyncNoneAssumption DEF DeviceTypeOK, Owners, Saves, Game, Saved, Busy
<1>2. ASSUME store' = store, used' = used, game' = None \/ (game' = game /\ who' \in {who, None})
      PROVE  KeepsSlots
  BY <1>1, <1>2 DEF KeepsSlots, SceneFits, Same
<1>3. CASE Flush \/ Timeout \/ Deny \/ Retry \/ Renew \/ Server \/ Expire \/ Logout
           \/ (\E u \in Users : Login(u)) \/ Crash \/ CrashResolving \/ UNCHANGED syncVars
           \/ Leave
  BY <1>2, <1>3 DEF Flush, Timeout, Deny, Retry, Renew, Server, Arrive, ArriveLate, Look,
      Accept, Reject, Fail, Answer, Publish, Expire, Logout, Login, Crash, CrashResolving,
      Die, Leave, syncVars, device
<1>4. SameStore(store)
  BY DEF SameStore, Same
<1>5. CASE GiveUp
  <2>1. UNCHANGED <<who, used>> /\ EndOfFlush(store, game.result)
    BY <1>5 DEF GiveUp
  <2>2. CASE Playing("submitted")
    <3>1. game.result \in {"sync_queued", "synced", "rejected"}
      BY <2>2 DEF Playing, DeviceTypeOK, Game
    <3> QED BY <1>1, <1>4, <2>1, <3>1, EndKeeps
  <2>3. CASE ~Playing("submitted")
    BY <1>2, <2>1, <2>3 DEF EndOfFlush
  <2> QED BY <2>2, <2>3
<1>6. ASSUME NEW state \in {"synced", "rejected"}, Resolve(state), Busy, UNCHANGED <<who, used>>
      PROVE  KeepsSlots
  <2>1. SameStore(Marked(state)) /\ Marked(state) \in Saves
    <3>1. flight.item.level \in Levels
      BY <1>1, <1>6, ItemFields DEF Flight
    <3> QED BY <1>1, <1>6, <3>1, MarkedSame, WithStateType DEF Marked
  <2>2. CASE EndOfFlush(Marked(state), Recent(state)) /\ Playing("submitted")
    <3>1. Recent(state) \in {"sync_queued", "synced", "rejected"}
      BY <2>2 DEF Recent, Playing, DeviceTypeOK, Game
    <3> QED BY <1>6, <2>1, <2>2, <3>1, EndKeeps
  <2>3. CASE /\ store' = Marked(state)
             /\ \/ game' = game
                \/ game # None /\ game' = [game EXCEPT !.result = Recent(state)]
    <3>1. game' # None => /\ game # None /\ game'.mine = game.mine
                          /\ game'.phase = game.phase
      BY <2>3 DEF DeviceTypeOK, Game
    <3>2. game' # None /\ who # None => store'[who][LevelOf[game.mine.version]] # None
      BY <1>1, <2>1, <2>3, <3>1 DEF SameStore, SceneFits
    <3>3. \A u \in Users, l \in Levels :
            store'[u][l] # None => store[u][l] # None /\ Same(store'[u][l], store[u][l])
      BY <2>1, <2>3 DEF SameStore
    <3> QED BY <1>6, <3>1, <3>2, <3>3 DEF KeepsSlots, Same
  <2> QED BY <1>6, <2>2, <2>3 DEF Resolve, EndOfFlush, Playing
<1>7. CASE Accepted \/ Rejected
  BY <1>6, <1>7 DEF Accepted, Rejected
<1>8. CASE SaveView
  <2>1. store' = Save(store, game.mine) /\ UNCHANGED <<who, game, used>> /\ game # None
    BY <1>8 DEF SaveView
  <2>2. \A u \in Users, l \in Levels :
            store'[u][l] = IF u = who /\ l = LevelOf[game.mine.version]
                           THEN game.mine ELSE store[u][l]
    BY <1>1, <2>1, SavedSlots
  <2>3. \A u \in Users, l \in Levels :
            store'[u][l] # None => store[u][l] # None /\ Same(store'[u][l], store[u][l])
    <3> SUFFICES ASSUME NEW u \in Users, NEW l \in Levels, store'[u][l] # None
                 PROVE  store[u][l] # None /\ Same(store'[u][l], store[u][l])
      OBVIOUS
    <3>1. CASE u = who /\ l = LevelOf[game.mine.version]
      BY <1>1, <2>1, <2>2, <3>1, NoneAssumption DEF SceneFits, Same
    <3>2. CASE ~(u = who /\ l = LevelOf[game.mine.version])
      BY <2>2, <3>2 DEF Same
    <3> QED BY <3>1, <3>2
  <2>4. who # None => store'[who][LevelOf[game.mine.version]] # None
    BY <1>1, <2>1, <2>2
  <2> QED BY <2>1, <2>3, <2>4 DEF KeepsSlots, Same
<1>9. CASE Replay
  <2> DEFINE level == LevelOf[game.mine.version]
  <2>1. /\ game # None /\ game' = None /\ used' = used
        /\ store' = IF who = None THEN store ELSE [store EXCEPT ![who][level] = None]
    BY <1>9 DEF Replay, Playing
  <2>2. ASSUME NEW u \in Users, NEW l \in Levels
        PROVE  store'[u][l] = store[u][l] \/ store'[u][l] = None
    <3>1. CASE who = None
      BY <2>1, <3>1
    <3>2. CASE who # None
      <4>1. who \in Users /\ store[who] \in [Levels -> Saved \cup {None}]
        BY <1>1, <3>2 DEF Saves
      <4>2. store' = [store EXCEPT ![who] = [store[who] EXCEPT ![level] = None]]
        BY <2>1, <3>2
      <4> HIDE DEF level
      <4>3. store'[u] = IF u = who THEN [store[who] EXCEPT ![level] = None] ELSE store[u]
        BY <1>1, <4>1, <4>2 DEF Saves
      <4> QED BY <4>1, <4>3
    <3> QED BY <3>1, <3>2
  <2> QED BY <2>1, <2>2 DEF KeepsSlots, Same
<1> QED BY <1>3, <1>5, <1>7, <1>8, <1>9 DEF Client
LEMMA StepWrites ==
    ASSUME DeviceInv, TablesOK, FrontInv, SceneFits, [SyncNext]_syncVars
    PROVE  \/ KeepsSlots /\ NewIn({})
           \/ Finishes /\ NewIn({CompleteItem(who, game.mine)})
           \/ \E d \in Diffs, hinted \in BOOLEAN :
                /\ FindsOne(d, hinted)
                /\ \/ NewIn({})
                   \/ /\ who \in Users
                      /\ NewIn({ProgressItem(who, Found(game.mine, d, hinted), d)})
           \/ \E v \in Versions, a \in Attempts :
                Opens(v, a) /\ NewIn({StartItem(who, a, v)})
<1>1. DeviceInv' /\ FrontInv'
  BY DeviceStep, FrontStep
<1>2. ASSUME NEW new, Queue' \subseteq Queue \cup new, dead' \subseteq dead \cup Queue
      PROVE  NewIn(new)
  BY <1>1, <1>2, WrittenStep
<1>3. dead' \subseteq dead \cup Queue
  BY StepKinds, QueueSteps
<1>4. ASSUME NEW item, Submit(item), who \in Users, dead' = dead
      PROVE  NewIn({item})
  <2>1. items' = Append(items, item) /\ items \in Seq(ClientRequests)
    BY <1>4, NoneAssumption DEF Submit, DeviceInv, DeviceTypeOK
  <2>2. \A i \in DOMAIN items' : (i \in DOMAIN items /\ items'[i] = items[i])
                            \/ items'[i] = item
    BY <2>1
  <2>3. Queue' \subseteq Queue \cup {item}
    BY <2>1, <2>2 DEF Queue
  <2> QED BY <1>2, <1>3, <2>3
<1>5. ASSUME NEW item, items' = items PROVE NewIn({item}) /\ NewIn({})
  <2>1. Queue' = Queue
    BY <1>5 DEF Queue
  <2> QED BY <1>2, <1>3, <2>1
<1>6. who # None => who \in Users
  BY DEF DeviceInv, DeviceTypeOK, Owners
<1>7. ASSUME NEW v \in Versions, OpenLevel(v)
      PROVE  \E a \in Attempts : Opens(v, a) /\ NewIn({StartItem(who, a, v)})
  <2>1. who \in Users /\ who' = who /\ dead' = dead
    BY <1>6, <1>7 DEF OpenLevel
  <2>2. PICK a \in Attempts :
          LET saved == store[who][LevelOf[v]]
              resumed == IF saved = None THEN FALSE ELSE Resumes(saved, v)
              mine == IF resumed THEN saved ELSE Fresh(a, v)
          IN
          /\ IF resumed THEN a = saved.attempt ELSE a \notin used
          /\ used' = used \cup {a}
          /\ game' = [mine |-> mine, phase |-> "play", result |-> "sync_queued"]
          /\ store' = Save(store, mine)
          /\ Submit(StartItem(who, a, v))
    BY <1>7 DEF OpenLevel
  <2>3. Opens(v, a)
    BY <2>1, <2>2 DEF Opens
  <2> QED BY <1>4, <2>1, <2>2, <2>3
<1>8. ASSUME NEW d \in Diffs, NEW hinted \in BOOLEAN, MarkFound(d, hinted)
      PROVE  /\ FindsOne(d, hinted)
             /\ \/ NewIn({})
                \/ /\ who \in Users
                   /\ NewIn({ProgressItem(who, Found(game.mine, d, hinted), d)})
  <2>1. FindsOne(d, hinted)
    BY <1>8 DEF MarkFound, FindsOne
  <2>2. Submit(ProgressItem(who, Found(game.mine, d, hinted), d)) /\ dead' = dead
    BY <1>8 DEF MarkFound
  <2>3. CASE who = None
    BY <1>5, <2>1, <2>2, <2>3 DEF Submit
  <2> QED BY <1>4, <1>6, <2>1, <2>2, <2>3
<1>9. CASE FinishLevel
  <2>1. KeepsSlots /\ game'.phase # "feedback"
    BY <1>9, FinishKeeps
  <2>2. Submit(CompleteItem(who, game.mine)) /\ dead' = dead /\ Playing("feedback")
    BY <1>9 DEF FinishLevel
  <2>3. CASE who = None
    BY <1>5, <2>1, <2>2, <2>3 DEF Submit
  <2> QED BY <1>4, <1>6, <2>1, <2>2, <2>3 DEF Finishes
<1>10. CASE SaveView \/ Leave \/ Replay
  BY <1>5, <1>10, QuietKeeps DEF SaveView, Leave, Replay
<1>11. CASE CrashFinding
  <2>1. PICK d \in Diffs, hinted \in BOOLEAN :
            /\ MayFind(d, hinted)
            /\ Die(items, Save(store, Found(game.mine, d, hinted)))
            /\ UNCHANGED used
    BY <1>11 DEF CrashFinding
  <2>2. FindsOne(d, hinted) /\ items' = items
    BY <2>1 DEF Die, FindsOne
  <2> QED BY <1>5, <2>2
<1>12. ASSUME Rests \/ Removes, KeepsSlots PROVE KeepsSlots /\ NewIn({})
  <2>1. Queue' \subseteq Queue
    BY <1>12, QueueSteps
  <2> QED BY <1>2, <1>3, <1>12, <2>1
<1>13. CASE \/ Flush \/ Client \/ Server \/ Expire \/ Logout \/ (\E u \in Users : Login(u))
            \/ Crash \/ CrashResolving \/ UNCHANGED syncVars
  <2>1. Rests \/ Removes
    <3>1. CASE Server
      BY <3>1, ServerKinds DEF Server, Handles, Publish, Rests, Busy, device
    <3>2. CASE Flush \/ Client
      BY <3>2, ClientKinds
    <3>3. CASE \/ Expire \/ Logout \/ (\E u \in Users : Login(u))
               \/ Crash \/ UNCHANGED syncVars
      BY <3>3 DEF Expire, Logout, Login, Crash, Die, syncVars, device, Rests, Busy
    <3>4. CASE CrashResolving
      BY <3>4 DEF CrashResolving, Die, Removes
    <3> QED BY <1>13, <3>1, <3>2, <3>3, <3>4
  <2>2. KeepsSlots
    BY <1>13, QuietKeeps
  <2> QED BY <1>12, <2>1, <2>2
<1> QED BY <1>7, <1>8, <1>9, <1>10, <1>11, <1>13 DEF SyncNext, Scene
LEMMA StillFits ==
    ASSUME NEW s, NEW t, NEW l, NEW handed, NEW handed2, NEW written, NEW written2,
           SlotFits(s, l, handed, written), Same(t, s), handed \subseteq handed2,
           \A route, step : Spent(written2, route, s.attempt, step)
                => Spent(written, route, s.attempt, step)
    PROVE  SlotFits(t, l, handed2, written2)
  BY DEF SlotFits, Same

LEMMA WrittenType ==
    ASSUME DeviceInv, CopiesType
    PROVE  Written \subseteq ClientRequests
<1>1. items \in Seq(ClientRequests) /\ dead \subseteq ClientRequests
  BY DEF DeviceInv, DeviceTypeOK
<1>2. Queue \subseteq ClientRequests
  BY <1>1 DEF Queue
<1> QED BY <1>1, <1>2 DEF Written, CopiesType

LEMMA SpentUsed ==
    ASSUME DeviceInv, CopiesType, WrittenUsed, NEW route, NEW a, NEW step,
           Spent(Written, route, a, step)
    PROVE  a \in used
<1>1. PICK r \in Written : r.key = <<a, step>>
  BY DEF Spent
<1> QED BY <1>1, WrittenType, Keyed DEF WrittenUsed

LEMMA SpentStep ==
    ASSUME NEW new, NewIn(new), NEW route, NEW a, NEW step,
           Spent(Written', route, a, step)
    PROVE  Spent(Written, route, a, step) \/ Spent(new, route, a, step)
  BY DEF NewIn, Spent, SameWrite

LEMMA UsedStep ==
    ASSUME WrittenUsed, used \subseteq used', NEW new, NewIn(new),
           \A r \in new : r.attempt \in used'
    PROVE  WrittenUsed'
  BY DEF WrittenUsed, NewIn

LEMMA KeepsSlotsStep ==
    ASSUME DeviceInv, CopiesType, SlotsInv, KeepsSlots,
           \/ NewIn({})
           \/ Finishes /\ NewIn({CompleteItem(who, game.mine)})
    PROVE  SlotsInv'
<1> USE DEF SlotsInv
<1> DEFINE item == CompleteItem(who, game.mine)
<1>1. ASSUME NEW route, NEW a, NEW step, Spent(Written', route, a, step)
      PROVE  \/ Spent(Written, route, a, step)
             \/ Finishes /\ a = game.mine.attempt /\ route = "level_complete"
  <2>1. ~Spent({}, route, a, step)
    BY DEF Spent
  <2>2. Spent({item}, route, a, step) => a = game.mine.attempt /\ route = "level_complete"
    BY DEF Spent, CompleteItem, Write
  <2> QED BY <1>1, <2>1, <2>2, SpentStep
<1>2. used' = used
  BY DEF KeepsSlots
<1>3. WrittenUsed'
  <2>1. Finishes => item.attempt \in used
    BY DEF Finishes, Playing, SceneFits, CompleteItem, Write
  <2> QED BY <1>2, <2>1, UsedStep
<1>4. SlotsDiffer'
  BY DEF SlotsDiffer, KeepsSlots, Same
<1>5. ASSUME NEW u \in Users, NEW l \in Levels, store'[u][l] # None
      PROVE  SlotFits(store'[u][l], l, used', Written')
  <2> DEFINE s == store[u][l]
  <2>1. s # None /\ Same(store'[u][l], s) /\ SlotFits(s, l, used, Written)
    BY <1>5 DEF KeepsSlots, SlotsFit
  <2>2. CASE \A route, step : Spent(Written', route, s.attempt, step)
                => Spent(Written, route, s.attempt, step)
    BY <1>2, <2>1, <2>2, StillFits
  <2>3. CASE Finishes /\ s.attempt = game.mine.attempt
    <3>1. game # None /\ who \in Users /\ who # None /\ game.phase = "feedback"
      BY <2>3, NoneAssumption DEF Finishes, Playing
    <3>2. LevelOf[game.mine.version] \in Levels
      BY <3>1, LevelType DEF DeviceInv, DeviceTypeOK, Game, Saved
    <3>3. u = who /\ l = LevelOf[game.mine.version]
      BY <2>1, <2>3, <3>1, <3>2 DEF SceneFits, SlotsDiffer, Same
    <3>4. s.found = DiffsOf[s.version]
      BY <3>1, <3>3 DEF SceneFits, Same
    <3>5. \A d : Spent(Written', "level_progress", s.attempt, d)
                    => Spent(Written, "level_progress", s.attempt, d)
      BY <1>1
    <3> HIDE DEF s
    <3> QED BY <1>2, <2>1, <3>4, <3>5 DEF SlotFits, Same
  <2> QED BY <1>1, <2>2, <2>3
<1>6. SlotsFit'
  BY <1>5 DEF SlotsFit
<1>7. SceneFits'
  <2> SUFFICES ASSUME game' # None PROVE SceneFits'
    BY DEF SceneFits
  <2>1. /\ game # None /\ Same(game'.mine, game.mine)
        /\ game'.phase = "feedback" => game.phase = "feedback" /\ ~Finishes
    BY DEF KeepsSlots, Finishes
  <2>2. game'.mine.attempt \in used'
    BY <1>2, <2>1 DEF SceneFits, Same
  <2>3. game'.phase = "feedback" => game'.mine.found = DiffsOf[game'.mine.version]
    BY <2>1 DEF SceneFits, Same
  <2>4. ASSUME who' # None
        PROVE  /\ store'[who'][LevelOf[game'.mine.version]] # None
               /\ Same(store'[who'][LevelOf[game'.mine.version]], game'.mine)
               /\ game'.phase = "feedback" =>
                    ~Spent(Written', "level_complete", game'.mine.attempt, None)
    <3> DEFINE level == LevelOf[game.mine.version]
    <3>1. who' = who /\ who \in Users /\ who # None /\ store'[who][level] # None
      BY <2>1, <2>4 DEF KeepsSlots, DeviceInv, DeviceTypeOK, Owners
    <3>2. level \in Levels /\ LevelOf[game'.mine.version] = level
      BY <2>1, LevelType DEF DeviceInv, DeviceTypeOK, Game, Saved, Same
    <3>3. Same(store'[who][level], store[who][level])
      BY <3>1, <3>2 DEF KeepsSlots
    <3>4. Same(store[who][level], game.mine)
      BY <2>1, <3>1 DEF SceneFits
    <3>5. game'.phase = "feedback" =>
                    ~Spent(Written', "level_complete", game'.mine.attempt, None)
      BY <1>1, <2>1, <3>1 DEF SceneFits, Same
    <3> HIDE DEF level
    <3> QED BY <2>1, <3>1, <3>2, <3>3, <3>4, <3>5 DEF Same
  <2> QED BY <2>2, <2>3, <2>4 DEF SceneFits
<1> QED BY <1>3, <1>4, <1>6, <1>7

LEMMA FindsSlotsStep ==
    ASSUME DeviceInv, CopiesType, SlotsInv, NEW d \in Diffs, NEW hinted \in BOOLEAN,
           FindsOne(d, hinted),
           \/ NewIn({})
           \/ /\ who \in Users
              /\ NewIn({ProgressItem(who, Found(game.mine, d, hinted), d)})
    PROVE  SlotsInv'
<1> USE DEF SlotsInv
<1> DEFINE mine == Found(game.mine, d, hinted)
           item == ProgressItem(who, mine, d)
           level == LevelOf[game.mine.version]
<1>1. /\ game # None /\ game.mine \in Saved /\ level \in Levels
      /\ (hinted => game.mine.hints < MaxHints)
      /\ d \in DiffsOf[game.mine.version] /\ d \notin game.mine.found
  BY LevelType DEF FindsOne, MayFind, Playing, DeviceInv, DeviceTypeOK, Game, Saved
<1>2. /\ mine \in Saved
      /\ mine.attempt = game.mine.attempt /\ mine.version = game.mine.version
      /\ mine.found = game.mine.found \cup {d}
  <2>1. mine \in Saved
    BY <1>1, FoundType
  <2> QED BY <1>1, <2>1 DEF Found, Saved
<1>3. /\ used' = used /\ who' = who /\ store' = Save(store, mine)
      /\ \/ game' = None
         \/ /\ game'.mine = mine
            /\ game'.phase = IF mine.found = DiffsOf[mine.version] THEN "feedback" ELSE "play"
  <2>1. game \in Game
    BY <1>1 DEF DeviceInv, DeviceTypeOK
  <2> QED BY <2>1 DEF FindsOne, Game
<1>4. item.attempt = game.mine.attempt /\ item.key = <<game.mine.attempt, d>>
      /\ item.route = "level_progress"
  BY <1>2 DEF ProgressItem, Write
<1> HIDE DEF mine, item
<1>5. \A u \in Users, l \in Levels :
        store'[u][l] = IF u = who /\ l = level THEN mine ELSE store[u][l]
  BY <1>2, <1>3, SavedSlots DEF DeviceInv, DeviceTypeOK, Saves
<1>6. ASSUME NEW route, NEW a, NEW step, Spent(Written', route, a, step)
      PROVE  \/ Spent(Written, route, a, step)
             \/ /\ who \in Users
                /\ route = "level_progress" /\ a = game.mine.attempt /\ step = d
  <2>1. ~Spent({}, route, a, step)
    BY DEF Spent
  <2>2. Spent({item}, route, a, step) =>
            route = "level_progress" /\ a = game.mine.attempt /\ step = d
    BY <1>4 DEF Spent
  <2> QED BY <1>6, <2>1, <2>2, SpentStep DEF item, mine
<1>7. WrittenUsed'
  <2>1. item.attempt \in used
    BY <1>1, <1>4 DEF SceneFits
  <2> QED BY <1>3, <2>1, UsedStep DEF item, mine
<1> DEFINE old == store[who][level]
<1>8. ASSUME who \in Users
      PROVE  /\ who # None /\ old # None /\ Same(old, game.mine)
             /\ SlotFits(old, level, used, Written)
             /\ ~Spent(Written', "level_complete", mine.attempt, None)
             /\ SlotFits(mine, level, used', Written')
  <2>1. who # None
    BY <1>8, NoneAssumption
  <2>2. old # None /\ Same(old, game.mine)
    BY <1>1, <2>1 DEF SceneFits
  <2>3. SlotFits(old, level, used, Written)
    BY <1>1, <1>8, <2>2 DEF SlotsFit
  <2>4. ~Spent(Written', "level_complete", mine.attempt, None)
    BY <1>1, <1>2, <1>6, <2>2, <2>3 DEF SlotFits, Same
  <2>5. \A e \in Diffs \ mine.found : ~Spent(Written', "level_progress", mine.attempt, e)
    BY <1>2, <1>6, <2>2, <2>3 DEF SlotFits, Same
  <2>6. mine.found \subseteq DiffsOf[mine.version]
    BY <1>1, <1>2, <2>2, <2>3 DEF SlotFits, Same
  <2>7. SlotFits(mine, level, used', Written')
    BY <1>1, <1>2, <1>3, <2>4, <2>5, <2>6 DEF SlotFits, SceneFits
  <2> QED BY <2>1, <2>2, <2>3, <2>4, <2>7
<1>9. ASSUME NEW u \in Users, NEW l \in Levels, ~(u = who /\ l = level), store[u][l] # None
      PROVE  /\ SlotFits(store[u][l], l, used', Written')
             /\ who \in Users => store[u][l].attempt # mine.attempt
  <2>1. SlotFits(store[u][l], l, used, Written)
    BY <1>9 DEF SlotsFit
  <2>2. who \in Users => store[u][l].attempt # mine.attempt
    BY <1>1, <1>2, <1>8, <1>9 DEF SlotsDiffer, Same
  <2>3. \A route, step : Spent(Written', route, store[u][l].attempt, step)
                => Spent(Written, route, store[u][l].attempt, step)
    BY <1>2, <1>6, <2>2
  <2>4. Same(store[u][l], store[u][l])
    BY DEF Same
  <2> QED BY <1>3, <2>1, <2>2, <2>3, <2>4, StillFits
<1> HIDE DEF level, old
<1>10. SlotsFit'
  BY <1>5, <1>8, <1>9 DEF SlotsFit
<1>11. SlotsDiffer'
  <2> SUFFICES ASSUME NEW u \in Users, NEW w \in Users, NEW l \in Levels, NEW m \in Levels,
                      store'[u][l] # None, store'[w][m] # None,
                      store'[u][l].attempt = store'[w][m].attempt
               PROVE  u = w /\ l = m
    BY DEF SlotsDiffer
  <2>1. CASE (u = who /\ l = level) /\ ~(w = who /\ m = level)
    BY <1>5, <1>9, <2>1
  <2>2. CASE ~(u = who /\ l = level) /\ (w = who /\ m = level)
    BY <1>5, <1>9, <2>2
  <2>3. CASE ~(u = who /\ l = level) /\ ~(w = who /\ m = level)
    BY <1>5, <2>3 DEF SlotsDiffer
  <2> QED BY <2>1, <2>2, <2>3
<1>12. SceneFits'
  <2> SUFFICES ASSUME game' # None PROVE SceneFits'
    BY DEF SceneFits
  <2>1. /\ game'.mine = mine /\ mine.attempt \in used'
        /\ game'.phase = "feedback" => mine.found = DiffsOf[mine.version]
    BY <1>1, <1>2, <1>3 DEF SceneFits
  <2>2. ASSUME who' # None
        PROVE  /\ store'[who'][LevelOf[mine.version]] # None
               /\ Same(store'[who'][LevelOf[mine.version]], mine)
               /\ ~Spent(Written', "level_complete", mine.attempt, None)
    <3>1. who \in Users /\ who' = who
      BY <1>3, <2>2 DEF DeviceInv, DeviceTypeOK, Owners
    <3>2. LevelOf[mine.version] = level
      BY <1>2 DEF level
    <3>3. store'[who][level] = mine /\ mine # None
      BY <1>1, <1>2, <1>5, <3>1, SyncNoneAssumption DEF level
    <3> QED BY <1>8, <3>1, <3>2, <3>3 DEF Same
  <2> QED BY <2>1, <2>2 DEF SceneFits
<1> QED BY <1>7, <1>10, <1>11, <1>12
LEMMA OpensSlotsStep ==
    ASSUME DeviceInv, CopiesType, SlotsInv, NEW v \in Versions, NEW a \in Attempts,
           Opens(v, a), NewIn({StartItem(who, a, v)})
    PROVE  SlotsInv'
<1> USE DEF SlotsInv
<1> DEFINE level == LevelOf[v]
           saved == store[who][level]
           resumed == IF saved = None THEN FALSE ELSE Resumes(saved, v)
           mine == IF resumed THEN saved ELSE Fresh(a, v)
           item == StartItem(who, a, v)
<1>1. /\ who \in Users /\ level \in Levels /\ who # None
      /\ who' = who /\ store' = Save(store, mine)
      /\ used' = used \cup {a}
      /\ game'.mine = mine /\ game'.phase = "play" /\ game' # None
      /\ IF resumed THEN a = saved.attempt ELSE a \notin used
  <2>1. /\ who \in Users /\ level \in Levels /\ who # None
        /\ who' = who /\ store' = Save(store, mine)
        /\ used' = used \cup {a}
        /\ game' = [mine |-> mine, phase |-> "play", result |-> "sync_queued"]
        /\ IF resumed THEN a = saved.attempt ELSE a \notin used
    BY LevelType, NoneAssumption DEF Opens
  <2>2. mine \in Saved
    <3>1. CASE resumed
      BY <2>1, <3>1 DEF DeviceInv, DeviceTypeOK
    <3>2. CASE ~resumed
      BY <3>2, NothingYet DEF Fresh, Saved
    <3> QED BY <3>1, <3>2
  <2> HIDE DEF mine, resumed
  <2>3. game' \in Game /\ game'.mine = mine /\ game'.phase = "play"
    BY <2>1, <2>2 DEF Game
  <2> QED BY <2>1, <2>3, SyncNoneAssumption
<1>2. ASSUME NEW route, NEW b, NEW step, Spent(Written', route, b, step)
      PROVE  Spent(Written, route, b, step) \/ route = "level_start"
  <2>1. Spent({item}, route, b, step) => route = "level_start"
    BY DEF Spent, StartItem, Write
  <2> QED BY <1>2, <2>1, SpentStep
<1>3. WrittenUsed'
  <2>1. item.attempt = a
    BY DEF StartItem, Write
  <2> QED BY <1>1, <2>1, UsedStep
<1>4. ASSUME NEW s, NEW l, SlotFits(s, l, used, Written)
      PROVE  SlotFits(s, l, used', Written')
  BY <1>1, <1>2, <1>4 DEF SlotFits
<1>5. CASE resumed
  <2>1. saved # None /\ saved \in Saved /\ a = saved.attempt /\ mine = saved
    BY <1>1, <1>5 DEF DeviceInv, DeviceTypeOK
  <2>2. SlotFits(saved, level, used, Written)
    BY <1>1, <2>1 DEF SlotsFit
  <2>3. LevelOf[saved.version] = level /\ a \in used
    BY <2>1, <2>2 DEF SlotFits
  <2> HIDE DEF saved, mine, resumed, level
  <2>4. \A u \in Users, l \in Levels : store'[u][l] = store[u][l]
    BY <1>1, <2>1, <2>3, SavedSlots DEF DeviceInv, DeviceTypeOK, Saves, saved
  <2>5. SlotsDiffer'
    BY <2>4 DEF SlotsDiffer
  <2>6. SlotsFit'
    BY <1>4, <2>4 DEF SlotsFit
  <2>7. store'[who'][LevelOf[game'.mine.version]] = saved
    BY <1>1, <2>1, <2>3, <2>4 DEF saved
  <2>8. SceneFits'
    BY <1>1, <2>1, <2>7 DEF SceneFits, Same
  <2> QED BY <1>3, <2>5, <2>6, <2>8
<1>6. CASE ~resumed
  <2>1. /\ mine \in Saved /\ mine # None
        /\ mine.attempt = a /\ mine.version = v /\ mine.found = {}
        /\ a \notin used
    <3>1. mine = Fresh(a, v) /\ a \notin used
      BY <1>1, <1>6
    <3> QED BY <3>1, NothingYet, SyncNoneAssumption DEF Fresh, Saved
  <2> HIDE DEF saved, mine, resumed
  <2>2. \A u \in Users, l \in Levels :
            store'[u][l] = IF u = who /\ l = level THEN mine ELSE store[u][l]
    BY <1>1, <2>1, SavedSlots DEF DeviceInv, DeviceTypeOK, Saves
  <2>3. \A u \in Users, l \in Levels : store[u][l] # None => store[u][l].attempt # a
    BY <2>1 DEF SlotsFit, SlotFits
  <2>4. SlotsDiffer'
    <3> SUFFICES ASSUME NEW u \in Users, NEW w \in Users, NEW l \in Levels, NEW m \in Levels,
                        store'[u][l] # None, store'[w][m] # None,
                        store'[u][l].attempt = store'[w][m].attempt
                 PROVE  u = w /\ l = m
      BY DEF SlotsDiffer
    <3> HIDE DEF level
    <3>1. CASE (u = who /\ l = level) /\ ~(w = who /\ m = level)
      BY <2>1, <2>2, <2>3, <3>1
    <3>2. CASE ~(u = who /\ l = level) /\ (w = who /\ m = level)
      BY <2>1, <2>2, <2>3, <3>2
    <3>3. CASE ~(u = who /\ l = level) /\ ~(w = who /\ m = level)
      BY <2>2, <3>3 DEF SlotsDiffer
    <3> QED BY <3>1, <3>2, <3>3
  <2>5. \A route, step : ~Spent(Written, route, a, step)
    BY <2>1, SpentUsed
  <2>6. SlotFits(mine, level, used', Written')
    BY <1>1, <1>2, <2>1, <2>5 DEF SlotFits
  <2>7. SlotsFit'
    <3> SUFFICES ASSUME NEW u \in Users, NEW l \in Levels, store'[u][l] # None
                 PROVE  SlotFits(store'[u][l], l, used', Written')
      BY DEF SlotsFit
    <3> QED BY <1>4, <2>2, <2>6 DEF SlotsFit
  <2>8. store'[who'][LevelOf[game'.mine.version]] = mine
    BY <1>1, <2>1, <2>2
  <2>9. SceneFits'
    BY <1>1, <2>1, <2>8 DEF SceneFits, Same
  <2> QED BY <1>3, <2>4, <2>7, <2>9
<1> QED BY <1>5, <1>6

LEMMA SlotsStep ==
    ASSUME DeviceInv, TablesOK, CopiesType, FrontInv, SlotsInv, [SyncNext]_syncVars
    PROVE  SlotsInv'
<1>1. SceneFits
  BY DEF SlotsInv
<1>2. Finishes => KeepsSlots
  BY DEF Finishes
<1> QED BY <1>1, <1>2, StepWrites, KeepsSlotsStep, FindsSlotsStep, OpensSlotsStep

\* A write that is submitted, if not a start, was never written before.
LEMMA AddsFresh ==
    ASSUME DeviceInv, SlotsInv, NEW item, Adds(item), item.route # "level_start"
    PROVE  \A r \in Written : ~SameWrite(r, item)
<1> USE DEF SlotsInv
<1>1. who \in Users /\ who # None
  BY NoneAssumption DEF Adds
<1>2. CASE \E a \in Attempts, v \in Versions : item = StartItem(who, a, v)
  BY <1>2 DEF StartItem, Write
<1>3. ASSUME NEW d \in Diffs, NEW hinted \in BOOLEAN, MayFind(d, hinted),
             item = ProgressItem(who, Found(game.mine, d, hinted), d)
      PROVE  \A r \in Written : ~SameWrite(r, item)
  <2> DEFINE level == LevelOf[game.mine.version]
  <2>1. /\ game # None /\ game.mine \in Saved /\ level \in Levels
        /\ d \notin game.mine.found
    BY <1>3, LevelType DEF MayFind, Playing, DeviceInv, DeviceTypeOK, Game, Saved
  <2>2. Found(game.mine, d, hinted).attempt = game.mine.attempt
    BY <2>1 DEF Found, Saved
  <2>3. item.route = "level_progress" /\ item.key = <<game.mine.attempt, d>>
    BY <1>3, <2>2 DEF ProgressItem, Write
  <2>4. ~Spent(Written, "level_progress", game.mine.attempt, d)
    BY <1>1, <2>1 DEF SceneFits, SlotsFit, SlotFits, Same
  <2> QED BY <2>3, <2>4 DEF Spent, SameWrite
<1>4. CASE Playing("feedback") /\ item = CompleteItem(who, game.mine)
  <2>1. item.route = "level_complete" /\ item.key = <<game.mine.attempt, None>>
    BY <1>4 DEF CompleteItem, Write
  <2>2. ~Spent(Written, "level_complete", game.mine.attempt, None)
    BY <1>1, <1>4 DEF Playing, SceneFits
  <2> QED BY <2>1, <2>2 DEF Spent, SameWrite
<1> QED BY <1>2, <1>3, <1>4 DEF Adds
-----------------------------------------------------------------------------
(* The queue is strict.                                                    *)

\* A write that is not a start waits once.
SingleInv ==
    \A i, j \in DOMAIN items :
        i # j /\ items[j].route # "level_start" => ~SameWrite(items[i], items[j])

\* A copy of a waiting write says the same, and the write is the first of its
\* owner.
OrderInv ==
    \A c \in Copies, j \in DOMAIN items :
        items[j].route # "level_start" /\ SameWrite(c, items[j]) =>
            /\ c = As(c.user, items[j])
            /\ \A i \in 1 .. j - 1 : items[i].user # items[j].user

\* A record is filed under the key of its request.
RecordsFit == \A id \in IdemId : idem[id] # None => Id(idem[id].req) = id

QueueInv == SingleInv /\ OrderInv /\ RecordsFit

LEMMA SingleStep ==
    ASSUME DeviceInv, SlotsInv, SingleInv, [SyncNext]_syncVars
    PROVE  SingleInv'
<1>1. items \in Seq(ClientRequests)
  BY DEF DeviceInv, DeviceTypeOK
<1>2. CASE Rests
  BY <1>2 DEF Rests, SingleInv
<1>3. CASE Removes
  <2> DEFINE p == flight.pos
             From(j) == IF j < p THEN j ELSE j + 1
  <2>1. p \in DOMAIN items /\ items' = Without(items, p) /\ p \in Nat
    BY <1>1, <1>3 DEF Removes, DeviceInv, ResolvesWhatItSent
  <2>2. DOMAIN items' = 1 .. Len(items) - 1
    BY <1>1, <2>1, WithoutItems
  <2> HIDE DEF p
  <2>3. ASSUME NEW j \in DOMAIN items' PROVE From(j) \in DOMAIN items /\ items'[j] = items[From(j)]
    <3>1. j < p \/ j >= p
      BY <1>1, <2>1, <2>2
    <3> QED BY <1>1, <2>1, <2>2, <3>1, WithoutItems
  <2>4. \A i, j \in DOMAIN items' : i # j => From(i) # From(j)
    BY <1>1, <2>1, <2>2
  <2> HIDE DEF From
  <2> QED BY <2>3, <2>4 DEF SingleInv
<1>4. ASSUME NEW item \in ClientRequests, Adds(item) PROVE SingleInv'
  <2>1. items' = Append(items, item) /\ DOMAIN items' = 1 .. Len(items) + 1
        /\ DOMAIN items = 1 .. Len(items)
        /\ items'[Len(items) + 1] = item
        /\ \A i \in DOMAIN items : items'[i] = items[i]
    BY <1>1, <1>4 DEF Adds
  <2>2. \A i \in DOMAIN items :
            item.route # "level_start" => ~SameWrite(items[i], item) /\ ~SameWrite(item, items[i])
    <3> SUFFICES ASSUME NEW i \in DOMAIN items, item.route # "level_start"
                 PROVE  ~SameWrite(items[i], item)
      BY DEF SameWrite
    <3>1. items[i] \in Written
      BY DEF Written, Queue
    <3> QED BY <1>4, <3>1, AddsFresh
  <2>3. \A i \in DOMAIN items :
            items[i].route # "level_start" => ~SameWrite(item, items[i])
    BY <2>2 DEF SameWrite
  <2> SUFFICES ASSUME NEW i \in DOMAIN items', NEW j \in DOMAIN items', i # j,
                      items'[j].route # "level_start"
               PROVE  ~SameWrite(items'[i], items'[j])
    BY DEF SingleInv
  <2>4. CASE i \in DOMAIN items /\ j \in DOMAIN items
    BY <2>1, <2>4 DEF SingleInv
  <2>5. CASE i \notin DOMAIN items
    <3>1. i = Len(items) + 1 /\ j \in DOMAIN items
      BY <1>1, <2>1, <2>5
    <3> QED BY <2>1, <2>3, <3>1
  <2>6. CASE j \notin DOMAIN items
    <3>1. j = Len(items) + 1 /\ i \in DOMAIN items
      BY <1>1, <2>1, <2>6
    <3> QED BY <2>1, <2>2, <3>1
  <2> QED BY <2>4, <2>5, <2>6
<1> QED BY <1>2, <1>3, <1>4, StepKinds

LEMMA OrderStep ==
    ASSUME DeviceInv, DeviceInv', TablesOK, FrontInv', SingleInv', SlotsInv, OrderInv,
           [SyncNext]_syncVars
    PROVE  OrderInv'
<1>1. items \in Seq(ClientRequests) /\ items' \in Seq(ClientRequests)
  BY DEF DeviceInv, DeviceTypeOK
<1> SUFFICES ASSUME NEW c \in Copies', NEW j \in DOMAIN items',
                    items'[j].route # "level_start", SameWrite(c, items'[j])
             PROVE  /\ c = As(c.user, items'[j])
                    /\ \A i \in 1 .. j - 1 : items'[i].user # items'[j].user
  BY DEF OrderInv
<1>2. CASE flight' # None /\ c = flight'.sent
  <2>1. /\ flight'.pos \in DOMAIN items'
        /\ items'[flight'.pos] = flight'.item
        /\ flight'.item \in ClientRequests
        /\ flight'.sent \in ClientRequests
    BY <1>2 DEF DeviceInv, DeviceTypeOK, ResolvesWhatItSent, Busy, Flight
  <2>2. /\ c = As(c.user, flight'.item) /\ c.user \in Users
        /\ \A i \in 1 .. flight'.pos - 1 : items'[i].user # flight'.item.user
    BY <1>2, <2>1, ItemFields DEF FrontInv, Busy
  <2>3. SameWrite(flight'.item, items'[j])
    BY <2>1, <2>2, AsKeeps DEF SameWrite
  <2>4. j = flight'.pos
    BY <2>1, <2>3 DEF SingleInv
  <2> QED BY <2>1, <2>2, <2>4
<1>3. CASE c \in Copies
  <2>1. CASE Rests
    BY <1>3, <2>1 DEF Rests, OrderInv
  <2>2. CASE Removes
    <3> DEFINE p == flight.pos
               From(k) == IF k < p THEN k ELSE k + 1
    <3>1. p \in DOMAIN items /\ items' = Without(items, p) /\ p \in Nat
      BY <1>1, <2>2 DEF Removes, DeviceInv, ResolvesWhatItSent
    <3>2. DOMAIN items' = 1 .. Len(items) - 1
      BY <1>1, <3>1, WithoutItems
    <3> HIDE DEF p
    <3>3. ASSUME NEW k \in DOMAIN items'
          PROVE  From(k) \in DOMAIN items /\ items'[k] = items[From(k)]
      <4>1. k < p \/ k >= p
        BY <1>1, <3>1, <3>2
      <4> QED BY <1>1, <3>1, <3>2, <4>1, WithoutItems
    <3>4. \A i \in 1 .. j - 1 : i \in DOMAIN items' /\ From(i) \in 1 .. From(j) - 1
      BY <1>1, <3>1, <3>2
    <3> HIDE DEF From
    <3> QED BY <1>3, <3>3, <3>4 DEF OrderInv
  <2>3. ASSUME NEW item \in ClientRequests, Adds(item)
        PROVE  /\ c = As(c.user, items'[j])
               /\ \A i \in 1 .. j - 1 : items'[i].user # items'[j].user
    <3>1. items' = Append(items, item) /\ DOMAIN items' = 1 .. Len(items) + 1
          /\ DOMAIN items = 1 .. Len(items)
          /\ items'[Len(items) + 1] = item
          /\ \A i \in DOMAIN items : items'[i] = items[i]
      BY <1>1, <2>3 DEF Adds
    <3>2. j \in DOMAIN items
      <4> SUFFICES ASSUME j = Len(items) + 1 PROVE FALSE
        BY <1>1, <3>1
      <4>1. SameWrite(c, item) /\ item.route # "level_start" /\ c \in Written
        BY <1>3, <3>1 DEF Written
      <4> QED BY <2>3, <4>1, AddsFresh
    <3>3. \A i \in 1 .. j - 1 : i \in DOMAIN items
      BY <1>1, <3>1, <3>2
    <3> QED BY <1>3, <3>1, <3>2, <3>3 DEF OrderInv
  <2> QED BY <2>1, <2>2, <2>3, StepKinds
<1> QED BY <1>2, <1>3, CopiesStep

LEMMA RecordsFitStep ==
    ASSUME TablesOK, RecordsFit, [SyncNext]_syncVars
    PROVE  RecordsFit'
<1>1. CASE UNCHANGED idem
  BY <1>1 DEF RecordsFit
<1>2. ASSUME NEW h \in Handlers, Handles(h) PROVE RecordsFit'
  BY <1>2, HandlerTurns DEF RecordsFit
<1>3. CASE \/ Device \/ (\E v \in Versions : Publish(v)) \/ UNCHANGED syncVars
           \/ \E h \in Handlers : Arrive(h) \/ ArriveLate(h)
  BY <1>1, <1>3, TablesStand
  DEF Publish, Transition, Arrive, ArriveLate, Receive, syncVars, vars, tables
<1> QED BY <1>2, <1>3, DeviceOrServer

\* What makes InOrder inductive: the copy in flight is of its owner's first
\* write, what is saved of an attempt tells what was ever written of it, so no
\* write waits twice and every copy around is of the first write of its owner.
WritesInv ==
    /\ TablesOK /\ DeviceInv /\ CopiesType /\ FrontInv /\ SlotsInv /\ QueueInv

LEMMA WritesInit == SyncInit => WritesInv
<1> SUFFICES ASSUME SyncInit PROVE WritesInv
  OBVIOUS
<1>1. TablesOK /\ DeviceInv
  BY InitType, DeviceInit DEF SyncInit
<1>2. Copies = {} /\ Written = {} /\ DOMAIN items = {}
  BY DEF SyncInit, Init, Copies, Written, Queue, Busy
<1>3. CopiesType /\ FrontInv /\ SlotsInv /\ QueueInv
  BY <1>2 DEF CopiesType, FrontInv, SlotsInv, SlotsFit, SlotsDiffer, SceneFits, WrittenUsed,
              QueueInv, SingleInv, OrderInv, RecordsFit, SyncInit, Init, Busy
<1> QED BY <1>1, <1>3 DEF WritesInv

LEMMA WritesStep == WritesInv /\ [SyncNext]_syncVars => WritesInv'
<1> SUFFICES ASSUME WritesInv, [SyncNext]_syncVars PROVE WritesInv'
  OBVIOUS
<1>1. /\ TablesOK /\ DeviceInv /\ CopiesType /\ FrontInv /\ SlotsInv
      /\ SingleInv /\ OrderInv /\ RecordsFit
  BY DEF WritesInv, QueueInv
<1>2. TablesOK'
  BY <1>1, ServiceStep, NextType DEF DeviceInv
<1>3. DeviceInv' /\ CopiesType' /\ FrontInv' /\ SlotsInv' /\ SingleInv' /\ RecordsFit'
  BY <1>1, DeviceStep, CopiesTypeStep, FrontStep, SlotsStep, SingleStep, RecordsFitStep
<1>4. OrderInv'
  BY <1>1, <1>3, OrderStep
<1> QED BY <1>2, <1>3, <1>4 DEF WritesInv, QueueInv

LEMMA WritesAlways == SyncSpec => []WritesInv
<1> QED BY WritesInit, WritesStep, PTL DEF SyncSpec

\* The queue is replayed strictly in order: whatever was retried, delayed or cut
\* off by a crash, the server knows none of the writes a player has waiting but
\* the first.
THEOREM ReplayedInOrder == SyncSpec => []InOrder
<1>1. WritesInv => InOrder
  <2> SUFFICES ASSUME WritesInv, NEW i \in DOMAIN items, NEW j \in DOMAIN items, i < j,
                      items[i].user = items[j].user, items[j].route # "level_start",
                      Seen(items[j])
               PROVE  FALSE
    BY DEF InOrder
  <2>1. items \in Seq(ClientRequests) /\ items[j] \in ClientRequests
    BY DEF WritesInv, DeviceInv, DeviceTypeOK
  <2>2. Id(items[j]) \in IdemId
    BY <2>1, ItemFields, ConstantsAssumption DEF Id, IdemId, Request
  <2> DEFINE c == idem[Id(items[j])].req
  <2>3. c \in Copies
    BY <2>2 DEF Seen, Copies
  <2>4. Id(c) = Id(items[j])
    BY <2>2 DEF Seen, WritesInv, QueueInv, RecordsFit
  <2>5. SameWrite(c, items[j])
    BY <2>4 DEF Id, SameWrite
  <2>6. i \in 1 .. j - 1
    BY <2>1
  <2> QED BY <2>3, <2>5, <2>6 DEF WritesInv, QueueInv, OrderInv
<1> QED BY <1>1, WritesAlways, PTL
-----------------------------------------------------------------------------
(* What becomes of a completion.                                           *)

\* The handler that works on the copy in flight works on that very request.
ByInv ==
    Busy /\ flight.by # None =>
        /\ flight.reply = "none"
        /\ tx[flight.by] # None
        /\ tx[flight.by].req = flight.sent

\* An accepted copy is recorded.
OkInv ==
    Busy /\ flight.reply = "ok" =>
        /\ idem[Id(flight.sent)] # None
        /\ SameBody(idem[Id(flight.sent)].req, flight.sent)

\* A recorded complete has completed its attempt.
DoneInv ==
    \A id \in IdemId :
        idem[id] # None /\ idem[id].req.route = "level_complete" =>
            IsCompleted(idem[id].req.attempt)

\* A complete of which a copy is around waits, is a dead letter, or has counted.
FateInv ==
    \A c \in Copies : c.route = "level_complete" =>
        Holds(Queue, c.attempt) \/ Holds(dead, c.attempt) \/ IsCompleted(c.attempt)

FlightKnown == ByInv /\ OkInv

LEMMA DeviceFlight ==
    ASSUME DeviceInv, Device
    PROVE  flight' = None \/ flight' = flight
           \/ (flight'.by = None /\ flight'.reply \notin {"ok", "rejected"})
<1> USE DEF DeviceInv
<1>1. items \in Seq(ClientRequests) /\ who \in Owners
  BY DEF DeviceTypeOK
<1>2. ASSUME NEW queue \in Seq(ClientRequests), flight' = Sending(queue, who)
      PROVE  flight' = None \/ (flight'.by = None /\ flight'.reply \notin {"ok", "rejected"})
  BY <1>1, <1>2, SendingFront
<1>3. CASE Scene
  <2>1. Rests \/ \E item \in ClientRequests : Adds(item)
    BY <1>3, SceneKinds
  <2>2. ASSUME NEW item \in ClientRequests, Adds(item)
        PROVE  flight' = None \/ flight' = flight
               \/ (flight'.by = None /\ flight'.reply \notin {"ok", "rejected"})
    <3>1. Append(items, item) \in Seq(ClientRequests)
      BY <1>1
    <3> QED BY <1>2, <2>2, <3>1 DEF Adds
  <2>3. \/ flight' = flight
        \/ \E item : Submit(item)
    BY <1>3 DEF Scene, OpenLevel, MarkFound, FinishLevel, SaveView, Leave, Replay
  <2>4. CASE Rests
    <3>1. ASSUME NEW item, Submit(item) PROVE flight' = flight
      BY <2>4, <3>1, <1>1 DEF Rests, Submit
    <3> QED BY <2>3, <3>1
  <2> QED BY <2>1, <2>2, <2>4
<1>4. CASE Flush
  BY <1>1, <1>2, <1>4 DEF Flush
<1>5. CASE Timeout \/ Deny \/ Retry \/ Renew
  <2>1. flight \in Flight
    BY <1>5, FlightType DEF Timeout, Deny, Retry, Renew
  <2> QED BY <1>5, <2>1 DEF Timeout, Deny, Retry, Renew, Again, Flight
<1>6. CASE Accepted \/ Rejected
  <2>1. flight' = Sending(Without(items, flight.pos), who) /\ Busy
    BY <1>6 DEF Accepted, Rejected, Resolve
  <2>2. Without(items, flight.pos) \in Seq(ClientRequests)
    BY <1>1, <2>1, WithoutType DEF ResolvesWhatItSent
  <2> QED BY <1>2, <2>1, <2>2
<1>7. CASE \/ GiveUp \/ Expire \/ Logout \/ (\E u \in Users : Login(u))
           \/ Crash \/ CrashFinding \/ CrashResolving
  BY <1>7 DEF GiveUp, Expire, Logout, Login, Crash, CrashFinding, CrashResolving, Die
<1> QED BY <1>3, <1>4, <1>5, <1>6, <1>7 DEF Device, Client

LEMMA KnownStep ==
    ASSUME TablesOK, DeviceInv, FlightKnown, [SyncNext]_syncVars
    PROVE  FlightKnown'
<1> USE DEF FlightKnown
<1>1. ASSUME Busy PROVE flight \in Flight /\ Id(flight.sent) \in IdemId
  <2>1. flight \in Flight
    BY <1>1, FlightType DEF DeviceInv
  <2> QED BY <2>1, RequestsAssumption, ConstantsAssumption DEF Flight, Id, IdemId, Request
<1>2. [Next]_vars
  BY ServiceStep DEF DeviceInv
<1>3. ASSUME flight' = flight, flight # None PROVE OkInv'
  <2>1. CASE flight.reply = "ok"
    <3>1. idem[Id(flight.sent)] # None
      BY <1>3, <2>1 DEF OkInv, Busy
    <3>2. idem'[Id(flight.sent)] = idem[Id(flight.sent)]
      BY <1>1, <1>2, <1>3, <3>1, StepKeepsAnswers DEF Busy
    <3> QED BY <1>3, <2>1, <3>2 DEF OkInv, Busy
  <2> QED BY <1>3, <2>1 DEF OkInv
<1>4. CASE flight' = None
  BY <1>4 DEF ByInv, OkInv, Busy
<1>5. CASE flight' # None /\ flight'.by = None /\ flight'.reply # "ok"
  BY <1>5 DEF ByInv, OkInv
<1>6. CASE flight' = flight /\ UNCHANGED tx
  BY <1>3, <1>4, <1>6 DEF ByInv, Busy
<1>7. CASE Device
  BY <1>4, <1>5, <1>6, <1>7, DeviceFlight, TablesStand DEF vars
<1>8. ASSUME NEW h \in Handlers, Arrive(h) PROVE FlightKnown'
  <2> DEFINE new == [req |-> flight.sent, open |-> FALSE]
  <2>1. /\ Busy /\ flight \in Flight /\ flight.reply = "none"
        /\ flight' = [flight EXCEPT !.by = h]
        /\ tx' = [tx EXCEPT ![h] = new]
    BY <1>1, <1>8 DEF Arrive, Receive
  <2>2. new # None /\ new.req = flight.sent
    <3>1. new \in Tx
      BY <2>1, RequestsAssumption DEF Flight, Tx
    <3> QED BY <3>1, NoneAssumption
  <2> HIDE DEF new
  <2>3. tx'[h] = new
    BY <2>1 DEF TablesOK
  <2>4. flight'.by = h /\ flight'.reply = "none" /\ flight'.sent = flight.sent
    BY <2>1 DEF Flight
  <2> QED BY <2>2, <2>3, <2>4 DEF ByInv, OkInv
<1>9. ASSUME NEW h \in Handlers, ArriveLate(h) PROVE FlightKnown'
  <2>1. tx[h] = None /\ flight' = flight /\ \A g \in Handlers \ {h} : tx'[g] = tx[g]
    BY <1>9 DEF ArriveLate, Receive, TablesOK
  <2>2. flight # None /\ flight.by # None => flight.by \in Handlers \ {h}
    BY <1>1, <2>1 DEF ByInv, Busy, Flight
  <2>3. ByInv'
    BY <2>1, <2>2 DEF ByInv, Busy
  <2> QED BY <1>3, <1>4, <2>1, <2>3
<1>10. ASSUME NEW h \in Handlers, Handles(h) PROVE FlightKnown'
  <2>1. /\ \A g \in Handlers \ {h} : tx'[g] = tx[g]
        /\ tx[h] # None
        /\ tx'[h] # None => tx'[h].req = tx[h].req
    BY <1>10, HandlerTurns
  <2>2. Busy /\ flight.by # None => flight.by \in Handlers
    BY <1>1 DEF Flight
  <2>3. CASE Look(h)
    <3>1. flight' = flight /\ tx'[h] # None
      <4>1. tx' = [tx EXCEPT ![h].open = TRUE] /\ flight' = flight
        BY <2>3 DEF Look, Miss, device
      <4>2. tx'[h] = [tx[h] EXCEPT !.open = TRUE]
        BY <4>1 DEF TablesOK
      <4>3. [tx[h] EXCEPT !.open = TRUE] \in Tx
        BY <2>1, RequestType DEF Tx
      <4> QED BY <4>1, <4>2, <4>3, NoneAssumption
    <3>2. ByInv'
      BY <2>1, <2>2, <3>1 DEF ByInv, Busy
    <3> QED BY <1>3, <1>4, <3>1, <3>2
  <2>4. ASSUME NEW reply \in {"ok", "rejected", "failed"}, Answer(h, reply),
               reply = "ok" => Accept(h)
        PROVE  FlightKnown'
    <3>1. CASE Busy /\ flight.by = h
      <4>1. /\ flight \in Flight
            /\ flight' = [flight EXCEPT !.reply = reply, !.by = None]
            /\ tx[h].req = flight.sent
        BY <1>1, <2>1, <2>4, <3>1, NoneAssumption, SyncAssumption DEF Answer, ByInv
      <4>2. flight'.by = None /\ flight'.reply = reply /\ flight'.sent = flight.sent
        BY <4>1 DEF Flight
      <4>3. OkInv'
        BY <2>4, <4>1, <4>2, AcceptTells DEF OkInv
      <4> QED BY <4>2, <4>3 DEF ByInv
    <3>2. CASE ~(Busy /\ flight.by = h)
      <4>1. flight' = flight
        BY <2>4, <3>2 DEF Answer
      <4>2. ByInv'
        BY <2>1, <2>2, <3>2, <4>1 DEF ByInv, Busy
      <4> QED BY <1>3, <1>4, <4>1, <4>2
    <3> QED BY <3>1, <3>2
  <2> QED BY <1>10, <2>3, <2>4 DEF Handles, Accept, Reject, Fail
<1>11. CASE (\E v \in Versions : Publish(v)) \/ UNCHANGED syncVars
  BY <1>6, <1>11 DEF Publish, Transition, syncVars, vars, device
<1> QED BY <1>7, <1>8, <1>9, <1>10, <1>11, DeviceOrServer

LEMMA DoneStep ==
    ASSUME TablesOK, DeviceTypeOK, CopiesType, DoneInv, [SyncNext]_syncVars
    PROVE  DoneInv'
<1>1. [Next]_vars
  BY ServiceStep
<1>2. \A a \in Attempts : IsCompleted(a) =>
            attempts'[a] # None /\ attempts'[a].state = "completed"
  BY <1>1, CompletesOne DEF IsCompleted
<1>3. ASSUME NEW id \in IdemId, idem[id] # None,
             idem[id].req.route = "level_complete"
      PROVE  LET a == idem[id].req.attempt IN
             attempts'[a] # None /\ attempts'[a].state = "completed"
  <2>1. idem[id].req \in Copies
    BY <1>3 DEF Copies
  <2>2. idem[id].req.attempt \in Attempts
    BY <2>1, Keyed DEF CopiesType
  <2> QED BY <1>2, <1>3, <2>2 DEF DoneInv
<1>4. CASE UNCHANGED idem
  BY <1>3, <1>4 DEF DoneInv, IsCompleted
<1>5. ASSUME NEW h \in Handlers, Handles(h) PROVE DoneInv'
  <2> SUFFICES ASSUME NEW id \in IdemId, idem'[id] # None,
                      idem'[id].req.route = "level_complete"
               PROVE  LET a == idem'[id].req.attempt IN
                      attempts'[a] # None /\ attempts'[a].state = "completed"
    BY DEF DoneInv, IsCompleted
  <2>1. CASE idem'[id] = idem[id]
    BY <1>3, <2>1
  <2>2. CASE idem'[id] # idem[id]
    <3>1. Accept(h) /\ idem'[id].req = tx[h].req
      BY <1>5, <2>2, HandlerTurns
    <3>2. ~Hit(h)
      BY <2>2 DEF Hit, tables
    <3> QED BY <3>1, <3>2, AcceptTells
  <2> QED BY <2>1, <2>2
<1>6. CASE \/ Device \/ (\E v \in Versions : Publish(v)) \/ UNCHANGED syncVars
           \/ \E h \in Handlers : Arrive(h) \/ ArriveLate(h)
  BY <1>4, <1>6, TablesStand
  DEF Publish, Transition, Arrive, ArriveLate, Receive, syncVars, vars, tables
<1> QED BY <1>5, <1>6, DeviceOrServer
\* What is answered "accepted" has counted.
LEMMA OkCounts ==
    ASSUME DeviceInv, RecordsFit, DoneInv, OkInv, FrontInv, Busy, flight.reply = "ok",
           flight.item.route = "level_complete"
    PROVE  IsCompleted(flight.item.attempt)
<1> DEFINE id == Id(flight.sent)
           rec == idem[id].req
<1>1. /\ flight \in Flight /\ flight.item \in ClientRequests
      /\ flight.sent \in ClientRequests
  BY FlightType DEF DeviceInv, Flight
<1>2. /\ flight.sent.route = "level_complete"
      /\ flight.sent.attempt = flight.item.attempt
  BY <1>1, AsKeeps, ItemFields DEF FrontInv
<1>3. id \in IdemId
  BY <1>1, ItemFields, ConstantsAssumption DEF Id, IdemId, Request
<1>4. idem[id] # None /\ SameBody(rec, flight.sent)
  BY DEF OkInv
<1>5. Id(rec) = id
  BY <1>3, <1>4 DEF RecordsFit
<1>6. rec.route = "level_complete" /\ rec.attempt = flight.item.attempt
  BY <1>2, <1>4, <1>5 DEF Id, SameBody
<1> QED BY <1>3, <1>4, <1>6 DEF DoneInv

\* A completion that waits goes on to wait unless it is refused or has counted.
LEMMA HoldsStep ==
    ASSUME DeviceInv, TablesOK, RecordsFit, DoneInv, OkInv, FrontInv, [SyncNext]_syncVars,
           NEW a \in Attempts, Holds(Queue, a)
    PROVE  \/ Holds(Queue', a)
           \/ Holds(dead', a)
           \/ attempts'[a] # None /\ attempts'[a].state = "completed"
<1>1. items \in Seq(ClientRequests)
  BY DEF DeviceInv, DeviceTypeOK
<1>2. PICK i \in DOMAIN items : items[i].route = "level_complete" /\ items[i].attempt = a
  BY DEF Holds, Queue
<1>3. CASE Rests
  BY <1>2, <1>3 DEF Rests, Holds, Queue
<1>4. ASSUME NEW item \in ClientRequests, Adds(item) PROVE Holds(Queue', a)
  <2>1. i \in DOMAIN items' /\ items'[i] = items[i]
    BY <1>1, <1>4 DEF Adds
  <2> QED BY <1>2, <2>1 DEF Holds, Queue
<1>5. CASE Removes
  <2>1. /\ flight.pos \in DOMAIN items /\ items[flight.pos] = flight.item /\ Busy
        /\ items' = Without(items, flight.pos)
    BY <1>5 DEF Removes, DeviceInv, ResolvesWhatItSent
  <2>2. CASE i # flight.pos
    <3>1. items[i] \in Queue'
      BY <1>1, <2>1, <2>2, WithoutItems DEF Queue
    <3> QED BY <1>2, <3>1 DEF Holds
  <2>3. CASE i = flight.pos /\ flight.reply = "rejected"
    <3>1. flight.item \in dead'
      BY <1>5, <2>3 DEF Removes
    <3> QED BY <1>2, <2>1, <2>3, <3>1 DEF Holds
  <2>4. CASE i = flight.pos /\ flight.reply = "ok"
    <3>1. IsCompleted(a)
      BY <1>2, <2>1, <2>4, OkCounts
    <3>2. [Next]_vars
      BY ServiceStep DEF DeviceInv
    <3> QED BY <3>1, <3>2, CompletesOne DEF IsCompleted
  <2> QED BY <1>5, <2>2, <2>3, <2>4 DEF Removes
<1> QED BY <1>3, <1>4, <1>5, StepKinds

LEMMA DeadStays ==
    ASSUME DeviceInv, [SyncNext]_syncVars
    PROVE  dead \subseteq dead'
  BY StepKinds DEF Rests, Removes, Adds

LEMMA FateStep ==
    ASSUME DeviceInv, DeviceInv', FrontInv', TablesOK, CopiesType, RecordsFit, DoneInv, OkInv,
           FrontInv, FateInv, [SyncNext]_syncVars
    PROVE  FateInv'
<1> SUFFICES ASSUME NEW c \in Copies', c.route = "level_complete"
             PROVE  \/ Holds(Queue', c.attempt)
                    \/ Holds(dead', c.attempt)
                    \/ /\ attempts'[c.attempt] # None
                       /\ attempts'[c.attempt].state = "completed"
  BY DEF FateInv, IsCompleted
<1>1. CASE c \in Copies
  <2>1. c.attempt \in Attempts
    BY <1>1, Keyed DEF CopiesType
  <2>2. CASE Holds(dead, c.attempt)
    BY <2>2, DeadStays DEF Holds
  <2>3. CASE IsCompleted(c.attempt)
    <3>1. [Next]_vars
      BY ServiceStep DEF DeviceInv
    <3> QED BY <2>1, <2>3, <3>1, CompletesOne DEF IsCompleted
  <2> QED BY <1>1, <2>1, <2>2, <2>3, HoldsStep DEF FateInv
<1>2. CASE flight' # None /\ c = flight'.sent
  <2>1. /\ flight'.pos \in DOMAIN items'
        /\ items'[flight'.pos] = flight'.item
        /\ flight'.item \in ClientRequests
        /\ flight'.sent \in ClientRequests
    BY <1>2 DEF DeviceInv, DeviceTypeOK, ResolvesWhatItSent, Busy, Flight
  <2>2. c = As(c.user, flight'.item) /\ c.user \in Users
    BY <1>2, <2>1, ItemFields DEF FrontInv, Busy
  <2>3. flight'.item.route = "level_complete" /\ flight'.item.attempt = c.attempt
    BY <2>1, <2>2, AsKeeps
  <2> QED BY <2>1, <2>3 DEF Holds, Queue
<1> QED BY <1>1, <1>2, CopiesStep

\* An attempt is completed by a complete of it that a handler works on.
LEMMA CompletedByCopy ==
    ASSUME TablesOK, CopiesType, [SyncNext]_syncVars, NEW a \in Attempts, ~IsCompleted(a),
           attempts'[a] # None, attempts'[a].state = "completed"
    PROVE  \E c \in Copies : c.route = "level_complete" /\ c.attempt = a
<1>1. attempts'[a] # attempts[a]
  BY DEF IsCompleted
<1>2. PICK h \in Handlers : Handles(h)
  BY <1>1, DeviceOrServer, TablesStand
  DEF Publish, Transition, Arrive, ArriveLate, Receive, syncVars, vars, tables
<1> DEFINE r == tx[h].req
<1>3. tx[h] # None
  BY <1>2, HandlerTurns
<1>4. r \in Copies /\ r.attempt \in Attempts
  BY <1>3, RequestType DEF Copies, Request
<1>5. CASE CommitComplete(h)
  <2>1. attempts' = [attempts EXCEPT ![r.attempt] = Completed(r)] /\ r.route = "level_complete"
    BY <1>5 DEF CommitComplete
  <2>2. r.attempt = a
    BY <1>1, <1>4, <2>1 DEF TablesOK
  <2> QED BY <1>4, <2>1, <2>2
<1>6. CASE CommitStart(h)
  <2>1. attempts' = [attempts EXCEPT ![r.attempt] = Started(r)]
    BY <1>6 DEF CommitStart
  <2>2. r.attempt = a /\ attempts'[a] = Started(r)
    BY <1>1, <1>4, <2>1 DEF TablesOK
  <2> QED BY <1>1, <2>2 DEF Started, NewAttempt
<1>7. CASE CommitProgress(h)
  <2>1. attempts' = [attempts EXCEPT ![r.attempt] = Progressed(r)] /\ ProgressFits(r)
    BY <1>7 DEF CommitProgress
  <2>2. r.attempt = a /\ attempts'[a] = Progressed(r)
    BY <1>1, <1>4, <2>1 DEF TablesOK
  <2>3. attempts[a] \in Attempt /\ attempts[a].state = "in_progress"
    BY <2>1, <2>2, AttemptType DEF ProgressFits, Owned
  <2>4. Progressed(r).state = "in_progress"
    BY <2>2, <2>3 DEF Progressed, Attempt
  <2> QED BY <2>2, <2>4
<1>8. CASE ~(CommitComplete(h) \/ CommitStart(h) \/ CommitProgress(h))
  BY <1>1, <1>2, <1>8
  DEF Handles, Look, Accept, Reject, Fail, Miss, Hit, Conflict, Refuse, LoseKeyRace, Abort,
      CommitCompleteAgain, tables
<1> QED BY <1>5, <1>6, <1>7, <1>8

\* What makes NeverGivenUp provable: a copy of a complete is around only while
\* its completion waits, is refused or has counted, and an accepted copy is one
\* whose attempt the service has completed.
OutboxInv == WritesInv /\ FlightKnown /\ DoneInv /\ FateInv

LEMMA OutboxInit == SyncInit => OutboxInv
<1> SUFFICES ASSUME SyncInit PROVE OutboxInv
  OBVIOUS
<1>1. Copies = {}
  BY DEF SyncInit, Init, Copies, Busy
<1>2. FlightKnown /\ DoneInv /\ FateInv
  BY <1>1 DEF SyncInit, Init, FlightKnown, ByInv, OkInv, DoneInv, FateInv, Busy
<1> QED BY <1>2, WritesInit DEF OutboxInv

LEMMA OutboxStep == OutboxInv /\ [SyncNext]_syncVars => OutboxInv'
<1> SUFFICES ASSUME OutboxInv, [SyncNext]_syncVars PROVE OutboxInv'
  OBVIOUS
<1>1. /\ WritesInv /\ FlightKnown /\ DoneInv /\ FateInv
      /\ TablesOK /\ DeviceInv /\ CopiesType /\ FrontInv /\ RecordsFit
      /\ OkInv /\ DeviceTypeOK
  BY DEF OutboxInv, WritesInv, QueueInv, FlightKnown, DeviceInv
<1>2. WritesInv'
  BY <1>1, WritesStep
<1>3. DeviceInv' /\ FrontInv'
  BY <1>2 DEF WritesInv
<1>4. FlightKnown' /\ DoneInv'
  BY <1>1, KnownStep, DoneStep
<1>5. FateInv'
  BY <1>1, <1>3, FateStep
<1> QED BY <1>2, <1>4, <1>5 DEF OutboxInv

LEMMA OutboxAlways == SyncSpec => []OutboxInv
<1> QED BY OutboxInit, OutboxStep, PTL DEF SyncSpec

Fates == [a \in Attempts |-> Fate(a)]

LEMMA FateCases ==
    ASSUME NEW a \in Attempts
    PROVE  /\ Fates[a] = IF attempts[a] # None /\ attempts[a].state = "completed" THEN "counted"
                         ELSE IF Holds(Queue, a) THEN "waiting"
                         ELSE IF Holds(dead, a) THEN "refused" ELSE "open"
           /\ Fates'[a] = IF attempts'[a] # None /\ attempts'[a].state = "completed" THEN "counted"
                          ELSE IF Holds(Queue', a) THEN "waiting"
                          ELSE IF Holds(dead', a) THEN "refused" ELSE "open"
  BY DEF Fates, Fate, IsCompleted, Queue

\* One attempt's end changes at most, and only as the outbox promises.
LEMMA FateMoves ==
    ASSUME OutboxInv, [SyncNext]_syncVars, NEW a \in Attempts
    PROVE  \/ Fates'[a] = Fates[a]
           \/ Fates[a] = "open" /\ Fates'[a] = "waiting"
           \/ Fates[a] \in {"waiting", "refused"} /\ Fates'[a] = "counted"
           \/ Fates[a] = "waiting" /\ Fates'[a] = "refused"
<1>1. /\ TablesOK /\ DeviceInv /\ CopiesType /\ FrontInv /\ RecordsFit /\ SlotsInv
      /\ DoneInv /\ FateInv /\ OkInv
  BY DEF OutboxInv, WritesInv, QueueInv, FlightKnown
<1>2. [Next]_vars
  BY <1>1, ServiceStep DEF DeviceInv
<1> DEFINE Done == attempts[a] # None /\ attempts[a].state = "completed"
           DoneNow == attempts'[a] # None /\ attempts'[a].state = "completed"
<1>3. Done => DoneNow
  BY <1>1, <1>2, CompletesOne DEF IsCompleted
<1>4. ~Done /\ DoneNow => Holds(Queue, a) \/ Holds(dead, a)
  <2> SUFFICES ASSUME ~Done, DoneNow PROVE Holds(Queue, a) \/ Holds(dead, a)
    OBVIOUS
  <2>1. PICK c \in Copies : c.route = "level_complete" /\ c.attempt = a
    BY <1>1, CompletedByCopy DEF IsCompleted
  <2> QED BY <1>1, <2>1 DEF FateInv, IsCompleted
<1>5. Holds(Queue, a) => Holds(Queue', a) \/ Holds(dead', a) \/ DoneNow
  BY <1>1, HoldsStep
<1>6. Holds(dead, a) => Holds(dead', a)
  BY <1>1, DeadStays DEF Holds
<1>7. Holds(dead', a) => Holds(dead, a) \/ Holds(Queue, a)
  <2>1. dead' \subseteq dead \cup Queue
    BY <1>1, StepKinds, QueueSteps
  <2> QED BY <2>1 DEF Holds
<1>8. Holds(Queue', a) /\ ~Holds(Queue, a) => ~Holds(dead, a)
  <2> SUFFICES ASSUME NEW i \in Queue', i.route = "level_complete", i.attempt = a,
                      ~Holds(Queue, a), NEW r \in dead, r.route = "level_complete",
                      r.attempt = a
               PROVE  FALSE
    BY DEF Holds
  <2>1. ~(Queue' \subseteq Queue)
    BY DEF Holds
  <2>2. PICK item \in ClientRequests : Adds(item)
    BY <1>1, <2>1, StepKinds, QueueSteps
  <2>3. item = i
    BY <1>1, <2>2, QueueSteps DEF Holds
  <2>4. r \in ClientRequests /\ r \in Written
    BY <1>1 DEF DeviceInv, DeviceTypeOK, Written
  <2>5. SameWrite(r, item)
    BY <2>2, <2>3, <2>4, Keyed DEF SameWrite
  <2> QED BY <1>1, <2>2, <2>3, <2>4, <2>5, AddsFresh
<1> HIDE DEF Done, DoneNow
<1>9. /\ Fates[a] = IF Done THEN "counted" ELSE IF Holds(Queue, a) THEN "waiting"
                    ELSE IF Holds(dead, a) THEN "refused" ELSE "open"
      /\ Fates'[a] = IF DoneNow THEN "counted" ELSE IF Holds(Queue', a) THEN "waiting"
                     ELSE IF Holds(dead', a) THEN "refused" ELSE "open"
  BY FateCases DEF Done, DoneNow
<1> QED BY <1>3, <1>4, <1>5, <1>6, <1>7, <1>8, <1>9

LEMMA OneFate ==
    ASSUME OutboxInv, [SyncNext]_syncVars
    PROVE  \E b : \A a \in Attempts \ {b} : Fates'[a] = Fates[a]
<1>1. TablesOK /\ DeviceInv
  BY DEF OutboxInv, WritesInv
<1>2. [Next]_vars
  BY <1>1, ServiceStep DEF DeviceInv
<1>3. items \in Seq(ClientRequests)
  BY <1>1 DEF DeviceInv, DeviceTypeOK
<1>4. CASE Rests
  <2>1. Queue' = Queue /\ dead' = dead
    BY <1>4 DEF Rests, Queue
  <2>2. PICK b : \A a \in Attempts \ {b} :
                /\ attempts'[a] # None
                /\ attempts'[a].state = "completed"
                => IsCompleted(a)
    BY <1>1, <1>2, CompletesOne
  <2>3. \A a \in Attempts \ {b} :
            (attempts'[a] # None /\ attempts'[a].state = "completed")
            <=> (attempts[a] # None /\ attempts[a].state = "completed")
    BY <1>1, <1>2, <2>2, CompletesOne DEF IsCompleted
  <2>4. ASSUME NEW a \in Attempts \ {b} PROVE Fates'[a] = Fates[a]
    BY <2>1, <2>3, FateCases
  <2> QED BY <2>4
<1>5. ASSUME UNCHANGED vars, NEW b,
             \A a \in Attempts \ {b} : Holds(Queue', a) <=> Holds(Queue, a),
             \A a \in Attempts \ {b} : Holds(dead', a) <=> Holds(dead, a)
      PROVE  \A a \in Attempts \ {b} : Fates'[a] = Fates[a]
  <2>1. attempts' = attempts
    BY <1>5 DEF vars, tables
  <2> QED BY <1>5, <2>1, FateCases
<1>6. CASE Removes
  <2>1. /\ flight.pos \in DOMAIN items /\ items[flight.pos] = flight.item
        /\ items' = Without(items, flight.pos) /\ UNCHANGED vars
    BY <1>1, <1>6 DEF Removes, DeviceInv, ResolvesWhatItSent
  <2>2. Queue' \subseteq Queue
    BY <1>1, <1>6, QueueSteps
  <2>3. Queue \subseteq Queue' \cup {flight.item}
    <3> SUFFICES ASSUME NEW j \in DOMAIN items PROVE items[j] \in Queue' \cup {flight.item}
      BY DEF Queue
    <3>1. CASE j # flight.pos
      BY <1>3, <2>1, <3>1, WithoutItems DEF Queue
    <3> QED BY <2>1, <3>1
  <2>4. dead \subseteq dead' /\ dead' \subseteq dead \cup {flight.item}
    BY <1>6 DEF Removes
  <2>5. \A a \in Attempts \ {flight.item.attempt} :
            /\ Holds(Queue', a) <=> Holds(Queue, a)
            /\ Holds(dead', a) <=> Holds(dead, a)
    BY <2>2, <2>3, <2>4 DEF Holds
  <2> QED BY <1>5, <2>1, <2>5
<1>7. ASSUME NEW item \in ClientRequests, Adds(item)
      PROVE  \E b : \A a \in Attempts \ {b} : Fates'[a] = Fates[a]
  <2>1. UNCHANGED vars /\ dead' = dead /\ Queue' \subseteq Queue \cup {item}
    BY <1>1, <1>7, QueueSteps DEF Adds
  <2>2. \A j \in DOMAIN items : j \in DOMAIN items' /\ items'[j] = items[j]
    BY <1>3, <1>7 DEF Adds
  <2>3. Queue \subseteq Queue'
    BY <2>2 DEF Queue
  <2>4. \A a \in Attempts \ {item.attempt} : Holds(Queue', a) <=> Holds(Queue, a)
    BY <2>1, <2>3 DEF Holds
  <2> QED BY <1>5, <2>1, <2>4
<1> QED BY <1>1, <1>4, <1>6, <1>7, StepKinds

\* A completion handed to the queue of a signed-in player is never dropped: it
\* waits until it is counted or refused, and what is counted stays counted.
THEOREM CompletionsAreKept == SyncSpec => NeverGivenUp
<1>1. SyncInit => Outbox!Init
  <2> SUFFICES ASSUME SyncInit PROVE \A a \in Attempts : Fates[a] = "open"
    BY DEF Outbox!Init, Fates
  <2>1. Queue = {} /\ dead = {} /\ \A a \in Attempts : attempts[a] = None
    BY DEF SyncInit, Init, Queue
  <2> QED BY <2>1, FateCases DEF Holds
<1>2. OutboxInv /\ [SyncNext]_syncVars => [Outbox!Next]_Fates
  <2> SUFFICES ASSUME OutboxInv, [SyncNext]_syncVars, Fates' # Fates
               PROVE  Outbox!Next
    OBVIOUS
  <2>1. PICK b : \A a \in Attempts \ {b} : Fates'[a] = Fates[a]
    BY OneFate
  <2>2. /\ Fates = [a \in Attempts |-> Fates[a]]
        /\ Fates' = [a \in Attempts |-> Fates'[a]]
    BY DEF Fates
  <2>3. b \in Attempts /\ Fates'[b] # Fates[b]
    BY <2>1, <2>2
  <2>4. Fates' = [Fates EXCEPT ![b] = Fates'[b]]
    BY <2>1, <2>2, <2>3
  <2>5. \/ Fates[b] = "open" /\ Fates'[b] = "waiting"
        \/ Fates[b] \in {"waiting", "refused"} /\ Fates'[b] = "counted"
        \/ Fates[b] = "waiting" /\ Fates'[b] = "refused"
    BY <2>3, FateMoves
  <2> QED
    BY <2>3, <2>4, <2>5
    DEF Outbox!Next, Outbox!Submit, Outbox!Settle, Outbox!Count, Outbox!Refuse, Fates
<1> QED
  BY <1>1, <1>2, OutboxAlways, PTL DEF SyncSpec, NeverGivenUp, Outbox!Safety, Fates

-----------------------------------------------------------------------------
(* An attempt belongs to one level.                                        *)

\* Where an attempt is placed: by a write, by a saved level, by its row at the
\* service and by the scene.
WrittenPlaces == {<<r.attempt, r.level>> : r \in Written}

SavedPlaces == {<<store[s[1]][s[2]].attempt, s[2]>> :
                    s \in {x \in Users \X Levels : store[x[1]][x[2]] # None}}

RowPlaces == {<<a, LevelOf[attempts[a].version]>> :
                    a \in {b \in Attempts : attempts[b] # None}}

ScenePlaces ==
    IF game = None THEN {} ELSE {<<game.mine.attempt, LevelOf[game.mine.version]>>}

Places == WrittenPlaces \cup SavedPlaces \cup RowPlaces \cup ScenePlaces

\* An attempt id is never used for a second level, and none is placed before it
\* was handed out.
HomeInv ==
    /\ \A p, q \in Places : p[1] = q[1] => p[2] = q[2]
    /\ \A p \in Places : p[1] \in used

LEMMA RowsStep ==
    ASSUME TablesOK, CopiesType, [SyncNext]_syncVars, NEW a \in Attempts, attempts'[a] # None
    PROVE  <<a, LevelOf[attempts'[a].version]>> \in RowPlaces \cup WrittenPlaces
<1>1. CASE attempts'[a] = attempts[a]
  BY <1>1 DEF RowPlaces
<1>2. ASSUME attempts'[a] # attempts[a] PROVE <<a, LevelOf[attempts'[a].version]>> \in RowPlaces \cup WrittenPlaces
  <2>1. PICK h \in Handlers : Handles(h)
    BY <1>2, DeviceOrServer, TablesStand
    DEF Publish, Transition, Arrive, ArriveLate, Receive, syncVars, vars, tables
  <2> DEFINE r == tx[h].req
  <2>2. tx[h] # None
    BY <2>1, HandlerTurns
  <2>3. r \in Copies /\ r \in ClientRequests /\ r.attempt \in Attempts
    BY <2>2, RequestType DEF Copies, Request, CopiesType
  <2>4. CASE CommitComplete(h)
    <3>1. attempts' = [attempts EXCEPT ![r.attempt] = Completed(r)] /\ CompleteFits(r)
      BY <2>4 DEF CommitComplete
    <3>2. r.attempt = a /\ attempts'[a] = Completed(r) /\ attempts[a] # None
      BY <1>2, <2>3, <3>1 DEF TablesOK, CompleteFits, Owned
    <3>3. attempts[a] \in Attempt
      BY <3>2, AttemptType
    <3>4. attempts'[a].version = attempts[a].version
      BY <3>2, <3>3 DEF Completed, Attempt
    <3> QED BY <3>2, <3>4 DEF RowPlaces
  <2>5. CASE CommitProgress(h)
    <3>1. attempts' = [attempts EXCEPT ![r.attempt] = Progressed(r)] /\ ProgressFits(r)
      BY <2>5 DEF CommitProgress
    <3>2. r.attempt = a /\ attempts'[a] = Progressed(r) /\ attempts[a] # None
      BY <1>2, <2>3, <3>1 DEF TablesOK, ProgressFits, Owned
    <3>3. attempts[a] \in Attempt
      BY <3>2, AttemptType
    <3>4. attempts'[a].version = attempts[a].version
      BY <3>2, <3>3 DEF Progressed, Attempt
    <3> QED BY <3>2, <3>4 DEF RowPlaces
  <2>6. CASE CommitStart(h)
    <3>1. attempts' = [attempts EXCEPT ![r.attempt] = Started(r)]
      BY <2>6 DEF CommitStart
    <3>2. r.attempt = a /\ attempts'[a] = NewAttempt(r)
      BY <1>2, <2>3, <3>1 DEF TablesOK, Started
    <3>3. attempts'[a].version = r.version
      BY <3>2 DEF NewAttempt
    <3>4. r.level = LevelOf[r.version]
      BY <2>3 DEF ClientRequests, StartItem, ProgressItem, CompleteItem, Write
    <3>5. <<a, LevelOf[attempts'[a].version]>> = <<r.attempt, r.level>> /\ r \in Written
      BY <2>3, <3>2, <3>3, <3>4 DEF Written
    <3> QED BY <3>5 DEF WrittenPlaces
  <2>7. CASE ~(CommitComplete(h) \/ CommitStart(h) \/ CommitProgress(h))
    BY <1>2, <2>1, <2>7
    DEF Handles, Look, Accept, Reject, Fail, Miss, Hit, Conflict, Refuse, LoseKeyRace, Abort,
        CommitCompleteAgain, tables
  <2> QED BY <2>4, <2>5, <2>6, <2>7
<1> QED BY <1>1, <1>2

LEMMA WrittenPlacesStep ==
    ASSUME NEW new, NewIn(new)
    PROVE  WrittenPlaces' \subseteq WrittenPlaces \cup {<<r.attempt, r.level>> : r \in new}
  BY DEF NewIn, WrittenPlaces

LEMMA KeptPlaces ==
    ASSUME DeviceInv, KeepsSlots
    PROVE  SavedPlaces' \subseteq SavedPlaces /\ ScenePlaces' \subseteq ScenePlaces
<1>1. ASSUME NEW u \in Users, NEW l \in Levels, store'[u][l] # None
      PROVE  <<store'[u][l].attempt, l>> \in SavedPlaces
  <2>1. store[u][l] # None /\ store'[u][l].attempt = store[u][l].attempt
    BY <1>1 DEF KeepsSlots, Same
  <2>2. <<u, l>> \in {x \in Users \X Levels : store[x[1]][x[2]] # None}
    BY <2>1
  <2> QED BY <2>1, <2>2 DEF SavedPlaces
<1>2. SavedPlaces' \subseteq SavedPlaces
  BY <1>1 DEF SavedPlaces
<1>3. ScenePlaces' \subseteq ScenePlaces
  BY DEF KeepsSlots, Same, ScenePlaces
<1> QED BY <1>2, <1>3

\* A step places nothing anew but a fresh attempt.
LEMMA PlacesStep ==
    ASSUME WritesInv, [SyncNext]_syncVars
    PROVE  \/ Places' \subseteq Places /\ used \subseteq used'
           \/ \E a \in Attempts, l \in Levels :
                /\ a \notin used
                /\ used' = used \cup {a}
                /\ Places' \subseteq Places \cup {<<a, l>>}
<1>1. /\ TablesOK /\ DeviceInv /\ CopiesType /\ FrontInv /\ SlotsInv
      /\ SceneFits /\ SlotsFit /\ who \in Owners /\ store \in Saves
  BY DEF WritesInv, SlotsInv, DeviceInv, DeviceTypeOK, Saves
<1>2. RowPlaces' \subseteq RowPlaces \cup WrittenPlaces
  <2>1. ASSUME NEW a \in Attempts, attempts'[a] # None
        PROVE  <<a, LevelOf[attempts'[a].version]>> \in RowPlaces \cup WrittenPlaces
    BY <1>1, <2>1, RowsStep
  <2> QED BY <2>1 DEF RowPlaces
<1>3. CASE KeepsSlots /\ NewIn({})
  <2>1. WrittenPlaces' \subseteq WrittenPlaces
    BY <1>3, WrittenPlacesStep
  <2>2. used' = used
    BY <1>3 DEF KeepsSlots
  <2> QED BY <1>1, <1>2, <1>3, <2>1, <2>2, KeptPlaces DEF Places
<1>4. CASE Finishes /\ NewIn({CompleteItem(who, game.mine)})
  <2>1. KeepsSlots /\ game # None
    BY <1>4 DEF Finishes, Playing
  <2>2. \A r \in {CompleteItem(who, game.mine)} : <<r.attempt, r.level>> \in ScenePlaces
    BY <2>1 DEF CompleteItem, Write, ScenePlaces
  <2>3. WrittenPlaces' \subseteq WrittenPlaces \cup ScenePlaces
    BY <1>4, <2>2, WrittenPlacesStep
  <2>4. used' = used
    BY <2>1 DEF KeepsSlots
  <2> QED BY <1>1, <1>2, <2>1, <2>3, <2>4, KeptPlaces DEF Places
<1>5. ASSUME NEW d \in Diffs, NEW hinted \in BOOLEAN, FindsOne(d, hinted),
             \/ NewIn({})
             \/ /\ who \in Users
                /\ NewIn({ProgressItem(who, Found(game.mine, d, hinted), d)})
      PROVE  Places' \subseteq Places /\ used' = used
  <2> DEFINE mine == Found(game.mine, d, hinted)
             item == ProgressItem(who, mine, d)
             level == LevelOf[game.mine.version]
  <2>1. game # None /\ game \in Game /\ game.mine \in Saved /\ (hinted => game.mine.hints < MaxHints)
    BY <1>1, <1>5 DEF FindsOne, MayFind, Playing, DeviceInv, DeviceTypeOK, Game
  <2>2. /\ mine \in Saved
        /\ mine.attempt = game.mine.attempt /\ mine.version = game.mine.version
    <3>1. mine \in Saved
      BY <1>5, <2>1, FoundType DEF FindsOne, MayFind
    <3> QED BY <2>1, <3>1 DEF Found, Saved
  <2>3. /\ used' = used /\ store' = Save(store, mine)
        /\ game' = None \/ (game' # None /\ game'.mine = mine)
    <3>1. used' = used /\ store' = Save(store, mine)
      BY <1>5 DEF FindsOne
    <3>2. game' = None \/ game'.mine = mine
      BY <1>5, <2>1 DEF FindsOne, Game
    <3> QED BY <3>1, <3>2
  <2>4. item.attempt = game.mine.attempt /\ item.level = level
    BY <2>2 DEF ProgressItem, Write
  <2> HIDE DEF mine, item
  <2>5. <<game.mine.attempt, level>> \in ScenePlaces
    BY <2>1 DEF ScenePlaces
  <2>6. ScenePlaces' \subseteq ScenePlaces
    BY <2>1, <2>2, <2>3 DEF ScenePlaces
  <2>7. WrittenPlaces' \subseteq WrittenPlaces \cup ScenePlaces
    <3>1. CASE NewIn({})
      BY <3>1, WrittenPlacesStep
    <3>2. CASE NewIn({item})
      BY <2>4, <2>5, <3>2, WrittenPlacesStep
    <3> QED BY <1>5, <3>1, <3>2 DEF item, mine
  <2>8. ASSUME NEW u \in Users, NEW l \in Levels, store'[u][l] # None
        PROVE  <<store'[u][l].attempt, l>> \in SavedPlaces \cup ScenePlaces
    <3>1. store'[u][l] = IF u = who /\ l = LevelOf[mine.version] THEN mine ELSE store[u][l]
      BY <1>1, <2>2, <2>3, SavedSlots
    <3>2. CASE u = who /\ l = LevelOf[mine.version]
      BY <2>2, <2>5, <3>1, <3>2
    <3>3. CASE ~(u = who /\ l = LevelOf[mine.version])
      <4>1. <<u, l>> \in {x \in Users \X Levels : store[x[1]][x[2]] # None}
        BY <2>8, <3>1, <3>3
      <4> QED BY <3>1, <3>3, <4>1 DEF SavedPlaces
    <3> QED BY <3>2, <3>3
  <2>9. SavedPlaces' \subseteq SavedPlaces \cup ScenePlaces
    BY <2>8 DEF SavedPlaces
  <2> QED BY <1>2, <2>3, <2>6, <2>7, <2>9 DEF Places
<1>6. ASSUME NEW v \in Versions, NEW a \in Attempts, Opens(v, a), NewIn({StartItem(who, a, v)})
      PROVE  /\ Places' \subseteq Places \cup {<<a, LevelOf[v]>>}
             /\ used' = used \cup {a}
             /\ <<a, LevelOf[v]>> \in Places \/ a \notin used
  <2> DEFINE level == LevelOf[v]
             saved == store[who][level]
             resumed == IF saved = None THEN FALSE ELSE Resumes(saved, v)
             mine == IF resumed THEN saved ELSE Fresh(a, v)
  <2>1. /\ who \in Users /\ level \in Levels /\ who # None
        /\ store' = Save(store, mine)
        /\ used' = used \cup {a}
        /\ game' = [mine |-> mine, phase |-> "play", result |-> "sync_queued"]
        /\ IF resumed THEN a = saved.attempt ELSE a \notin used
    BY <1>6, LevelType, NoneAssumption DEF Opens
  <2>2. ASSUME resumed PROVE <<a, level>> \in Places
    <3>1. saved # None /\ saved \in Saved /\ a = saved.attempt
      BY <1>1, <2>1, <2>2 DEF Saves
    <3>2. <<who, level>> \in {x \in Users \X Levels : store[x[1]][x[2]] # None}
      BY <2>1, <3>1
    <3>3. <<a, level>> \in SavedPlaces
      BY <3>1, <3>2 DEF SavedPlaces
    <3> QED BY <3>3 DEF Places
  <2>3. ~resumed => a \notin used
    BY <2>1
  <2>4. mine \in Saved /\ mine.attempt = a /\ LevelOf[mine.version] = level
    <3>1. CASE resumed
      <4>1. saved # None /\ mine = saved /\ mine \in Saved /\ a = saved.attempt
        BY <1>1, <2>1, <3>1 DEF Saves
      <4> QED BY <1>1, <2>1, <4>1 DEF SlotsFit, SlotFits
    <3>2. CASE ~resumed
      BY <3>2, NothingYet DEF Fresh, Saved
    <3> QED BY <3>1, <3>2
  <2> HIDE DEF mine, resumed, saved
  <2>5. ScenePlaces' \subseteq {<<a, level>>}
    BY <2>1, <2>4 DEF ScenePlaces
  <2>6. \A r \in {StartItem(who, a, v)} : <<r.attempt, r.level>> = <<a, level>>
    BY DEF StartItem, Write
  <2>7. WrittenPlaces' \subseteq WrittenPlaces \cup {<<a, level>>}
    BY <1>6, <2>6, WrittenPlacesStep
  <2>8. ASSUME NEW u \in Users, NEW l \in Levels, store'[u][l] # None
        PROVE  <<store'[u][l].attempt, l>> \in SavedPlaces \cup {<<a, level>>}
    <3>1. store'[u][l] = IF u = who /\ l = LevelOf[mine.version] THEN mine ELSE store[u][l]
      BY <1>1, <2>1, <2>4, SavedSlots
    <3>2. CASE u = who /\ l = LevelOf[mine.version]
      BY <2>4, <3>1, <3>2
    <3>3. CASE ~(u = who /\ l = LevelOf[mine.version])
      <4>1. <<u, l>> \in {x \in Users \X Levels : store[x[1]][x[2]] # None}
        BY <2>8, <3>1, <3>3
      <4> QED BY <3>1, <3>3, <4>1 DEF SavedPlaces
    <3> QED BY <3>2, <3>3
  <2>9. SavedPlaces' \subseteq SavedPlaces \cup {<<a, level>>}
    BY <2>8 DEF SavedPlaces
  <2> QED BY <1>2, <2>1, <2>2, <2>3, <2>5, <2>7, <2>9 DEF Places
<1>7. ASSUME NEW v \in Versions, NEW a \in Attempts, Opens(v, a), NewIn({StartItem(who, a, v)})
      PROVE  \/ Places' \subseteq Places /\ used \subseteq used'
             \/ \E b \in Attempts, l \in Levels :
                  /\ b \notin used
                  /\ used' = used \cup {b}
                  /\ Places' \subseteq Places \cup {<<b, l>>}
  <2>1. /\ Places' \subseteq Places \cup {<<a, LevelOf[v]>>}
        /\ used' = used \cup {a}
        /\ <<a, LevelOf[v]>> \in Places \/ a \notin used
    BY <1>6, <1>7
  <2>2. CASE <<a, LevelOf[v]>> \in Places
    BY <2>1, <2>2
  <2>3. CASE a \notin used
    BY <2>1, <2>3, LevelType
  <2> QED BY <2>1, <2>2, <2>3
<1>8. \/ KeepsSlots /\ NewIn({})
      \/ Finishes /\ NewIn({CompleteItem(who, game.mine)})
      \/ \E d \in Diffs, hinted \in BOOLEAN :
           /\ FindsOne(d, hinted)
           /\ \/ NewIn({})
              \/ /\ who \in Users
                 /\ NewIn({ProgressItem(who, Found(game.mine, d, hinted), d)})
      \/ \E v \in Versions, a \in Attempts :
           Opens(v, a) /\ NewIn({StartItem(who, a, v)})
  BY <1>1, StepWrites
<1> QED BY <1>3, <1>4, <1>5, <1>7, <1>8

LEMMA HomeStep ==
    ASSUME WritesInv, HomeInv, [SyncNext]_syncVars
    PROVE  HomeInv'
<1>1. CASE Places' \subseteq Places /\ used \subseteq used'
  BY <1>1 DEF HomeInv
<1>2. ASSUME NEW a \in Attempts, NEW l \in Levels, a \notin used, used' = used \cup {a},
             Places' \subseteq Places \cup {<<a, l>>}
      PROVE  HomeInv'
  BY <1>2 DEF HomeInv
<1> QED BY <1>1, <1>2, PlacesStep

-----------------------------------------------------------------------------
(* What is shown and saved as synced, for one player.                      *)

\* The attempts the device takes for completed: the one its scene shows as
\* synced, or will when its submit goes on, and the one just accepted.
SceneTruth ==
    IF game = None THEN {}
    ELSE IF \/ game.mine.state = "synced"
            \/ game.phase = "submitted" /\ game.result = "synced"
         THEN {game.mine.attempt} ELSE {}

FlightTruth ==
    IF ~Busy THEN {}
    ELSE IF flight.reply = "ok" /\ IsComplete THEN {flight.item.attempt} ELSE {}

Truth == SceneTruth \cup FlightTruth

\* The levels saved as synced, and those that may be from what is known now.
SyncedIn(saves) ==
    {s \in Users \X Levels :
        saves[s[1]][s[2]] # None /\ saves[s[1]][s[2]].state = "synced"}

Backed ==
    SyncedIn(store)
    \cup {s \in Users \X Levels :
            s[1] = who /\ \E a \in Truth : <<a, s[2]>> \in Places}

\* Until the last difference is found the scene has no result to show.
NoResultYet ==
    game # None /\ game.phase \in {"play", "feedback"} => game.result = "sync_queued"

\* What a step tells of completions is backed by what was known before it.
TellsTruth == SceneTruth' \subseteq Truth /\ SyncedIn(store') \subseteq Backed

LEMMA SaveBacked ==
    ASSUME DeviceTypeOK, NEW saves \in Saves, NEW mine \in Saved,
           SyncedIn(saves) \subseteq Backed,
           mine.state = "synced" =>
               mine.attempt \in Truth /\ <<mine.attempt, LevelOf[mine.version]>> \in Places
    PROVE  SyncedIn(Save(saves, mine)) \subseteq Backed
<1> SUFFICES ASSUME NEW u \in Users, NEW l \in Levels,
                    Save(saves, mine)[u][l] # None,
                    Save(saves, mine)[u][l].state = "synced"
             PROVE  <<u, l>> \in Backed
  BY DEF SyncedIn
<1>1. Save(saves, mine)[u][l] =
            IF u = who /\ l = LevelOf[mine.version] THEN mine ELSE saves[u][l]
  BY SavedSlots DEF DeviceTypeOK
<1>2. CASE u = who /\ l = LevelOf[mine.version]
  BY <1>1, <1>2 DEF Backed
<1>3. CASE ~(u = who /\ l = LevelOf[mine.version])
  <2>1. <<u, l>> \in SyncedIn(saves)
    BY <1>1, <1>3 DEF SyncedIn
  <2> QED BY <2>1
<1> QED BY <1>2, <1>3

LEMMA MarkedBacked ==
    ASSUME DeviceInv, Busy, NEW state \in {"synced", "rejected"},
           state = "synced" => flight.reply = "ok"
    PROVE  SyncedIn(Marked(state)) \subseteq Backed /\ Marked(state) \in Saves
<1> DEFINE level == flight.item.level
<1>1. /\ flight \in Flight /\ flight.item \in ClientRequests /\ level \in Levels
      /\ who \in Owners /\ store \in Saves
  BY FlightType, ItemFields DEF DeviceInv, DeviceTypeOK, Flight, Saves
<1>2. CASE Marked(state) = store
  BY <1>1, <1>2 DEF Backed
<1>3. CASE Marked(state) # store
  <2>1. /\ who # None /\ store[who][level] # None /\ IsComplete
        /\ Marked(state) = [store EXCEPT ![who][level].state = state]
    BY <1>3 DEF Marked, WithState
  <2>2. who \in Users /\ store[who] \in [Levels -> Saved \cup {None}]
    BY <1>1, <2>1 DEF Owners, Saves
  <2> DEFINE new == [store[who][level] EXCEPT !.state = state]
             row == [store[who] EXCEPT ![level] = new]
  <2>3. store[who][level] \in Saved
    BY <1>1, <2>1, <2>2
  <2>4. new \in Saved /\ new.state = state
    BY <2>3, StateType DEF Saved
  <2>5. Marked(state) = [store EXCEPT ![who] = row]
    BY <2>1
  <2>6. state = "synced" => <<who, level>> \in Backed
    <3> SUFFICES ASSUME state = "synced" PROVE <<who, level>> \in Backed
      OBVIOUS
    <3>1. flight.item.attempt \in Truth
      BY <2>1 DEF Truth, FlightTruth
    <3>2. flight.item \in Written
      BY DEF DeviceInv, ResolvesWhatItSent, Written, Queue
    <3>3. <<flight.item.attempt, level>> \in Places
      BY <3>2 DEF Places, WrittenPlaces
    <3> QED BY <1>1, <2>2, <3>1, <3>3 DEF Backed
  <2> HIDE DEF new, level
  <2>7. \A l \in Levels : row[l] = IF l = level THEN new ELSE store[who][l]
    BY <1>1, <2>2
  <2> HIDE DEF row
  <2>8. \A u \in Users : Marked(state)[u] = IF u = who THEN row ELSE store[u]
    BY <1>1, <2>2, <2>5 DEF Saves
  <2>9. ASSUME NEW u \in Users, NEW l \in Levels, Marked(state)[u][l] # None,
               Marked(state)[u][l].state = "synced"
        PROVE  <<u, l>> \in Backed
    <3>1. CASE u = who /\ l = level
      BY <2>4, <2>6, <2>7, <2>8, <2>9, <3>1
    <3>2. CASE ~(u = who /\ l = level)
      <4>1. Marked(state)[u][l] = store[u][l]
        BY <2>7, <2>8, <3>2
      <4>2. <<u, l>> \in SyncedIn(store)
        BY <2>9, <4>1 DEF SyncedIn
      <4> QED BY <4>2 DEF Backed
    <3> QED BY <3>1, <3>2
  <2>10. SyncedIn(Marked(state)) \subseteq Backed
    BY <2>9 DEF SyncedIn
  <2>11. Marked(state) \in Saves
    BY <1>1, WithStateType DEF Marked, level
  <2> QED BY <2>10, <2>11
<1> QED BY <1>2, <1>3

\* The end of the flush loop tells the scene what it found.
LEMMA EndTells ==
    ASSUME DeviceInv, NoResultYet, NEW saves \in Saves, SyncedIn(saves) \subseteq Backed,
           NEW result \in {"sync_queued", "synced", "rejected"},
           Playing("submitted") /\ result = "synced" => game.mine.attempt \in Truth,
           EndOfFlush(saves, result)
    PROVE  TellsTruth /\ NoResultYet'
<1>1. CASE ~Playing("submitted")
  <2>1. store' = saves /\ game' = game
    BY <1>1 DEF EndOfFlush
  <2>2. SceneTruth' = SceneTruth
    BY <2>1 DEF SceneTruth
  <2>3. SyncedIn(store') \subseteq Backed
    BY <2>1
  <2> QED BY <2>1, <2>2, <2>3 DEF TellsTruth, Truth, NoResultYet
<1>2. CASE Playing("submitted")
  <2> DEFINE mine == [game.mine EXCEPT !.state = result]
  <2>1. /\ game # None /\ game \in Game /\ game.mine \in Saved /\ DeviceTypeOK
        /\ game' = Finished(game.mine, result)
        /\ store' = Save(saves, mine)
    BY <1>2 DEF EndOfFlush, Playing, DeviceInv, DeviceTypeOK, Game
  <2>2. /\ mine \in Saved /\ mine.state = result
        /\ mine.attempt = game.mine.attempt /\ mine.version = game.mine.version
    BY <2>1, StateType DEF Saved
  <2>3. /\ game'.mine = mine /\ game'.phase \in {"done", "stuck"} /\ game'.result = result
        /\ game' # None
    <3>1. game' \in Game
      BY <2>1, FinishedType
    <3> QED BY <2>1, <3>1, SyncNoneAssumption DEF Finished
  <2> HIDE DEF mine
  <2>4. SceneTruth' \subseteq Truth
    BY <1>2, <2>2, <2>3 DEF SceneTruth
  <2>5. <<game.mine.attempt, LevelOf[game.mine.version]>> \in Places
    BY <2>1 DEF Places, ScenePlaces
  <2>6. SyncedIn(store') \subseteq Backed
    BY <1>2, <2>1, <2>2, <2>5, SaveBacked
  <2> QED BY <2>3, <2>4, <2>6 DEF TellsTruth, NoResultYet
<1> QED BY <1>1, <1>2

LEMMA ResolveTells ==
    ASSUME DeviceInv, NoResultYet, Busy, NEW state \in {"synced", "rejected"},
           state = "synced" => flight.reply = "ok", Resolve(state)
    PROVE  TellsTruth /\ NoResultYet'
<1>1. SyncedIn(Marked(state)) \subseteq Backed /\ Marked(state) \in Saves
  BY MarkedBacked
<1>2. ASSUME Playing("submitted")
      PROVE  /\ Recent(state) \in {"sync_queued", "synced", "rejected"}
             /\ Recent(state) = "synced" => game.mine.attempt \in Truth
  <2>1. game # None /\ game \in Game /\ game.phase = "submitted"
    BY <1>2 DEF Playing, DeviceInv, DeviceTypeOK
  <2>2. game.result \in {"sync_queued", "synced", "rejected"}
    BY <2>1 DEF Game
  <2>3. CASE IsComplete /\ flight.item.attempt = game.mine.attempt
    BY <2>3 DEF Recent, Truth, FlightTruth
  <2>4. CASE ~(IsComplete /\ flight.item.attempt = game.mine.attempt)
    BY <2>1, <2>2, <2>4 DEF Recent, Truth, SceneTruth
  <2> QED BY <2>3, <2>4
<1>3. CASE flight' = None
  <2>1. EndOfFlush(Marked(state), Recent(state))
    BY <1>3 DEF Resolve
  <2>2. CASE Playing("submitted")
    BY <1>1, <1>2, <2>1, <2>2, EndTells
  <2>3. CASE ~Playing("submitted")
    <3>1. EndOfFlush(Marked(state), "rejected")
      BY <2>1, <2>3 DEF EndOfFlush
    <3> QED BY <1>1, <3>1, EndTells
  <2> QED BY <2>2, <2>3
<1>4. CASE flight' # None
  <2>1. /\ store' = Marked(state)
        /\ game' = IF Playing("submitted") THEN [game EXCEPT !.result = Recent(state)] ELSE game
    BY <1>4 DEF Resolve
  <2>2. SyncedIn(store') \subseteq Backed
    BY <1>1, <2>1
  <2>3. CASE Playing("submitted")
    <3>1. /\ game # None /\ game \in Game /\ game.phase = "submitted"
      BY <2>3 DEF Playing, DeviceInv, DeviceTypeOK
    <3>2. /\ game' \in Game /\ game'.mine = game.mine /\ game'.phase = "submitted"
          /\ game'.result = Recent(state)
      BY <1>2, <2>1, <2>3, <3>1 DEF Game
    <3>3. SceneTruth' \subseteq Truth
      BY <1>2, <2>3, <3>1, <3>2 DEF SceneTruth, Truth
    <3> QED BY <2>2, <3>2, <3>3 DEF TellsTruth, NoResultYet
  <2>4. CASE ~Playing("submitted")
    <3>1. SceneTruth' = SceneTruth
      BY <2>1, <2>4 DEF SceneTruth
    <3> QED BY <2>1, <2>2, <2>4, <3>1 DEF TellsTruth, Truth, NoResultYet
  <2> QED BY <2>3, <2>4
<1> QED BY <1>3, <1>4

\* A scene that saves the attempt it has tells nothing new.
LEMMA SceneSaves ==
    ASSUME DeviceTypeOK, game # None, NEW mine \in Saved,
           mine.attempt = game.mine.attempt, mine.version = game.mine.version,
           mine.state \in {game.mine.state, "in_progress", "sync_queued", "rejected"}
    PROVE  SyncedIn(Save(store, mine)) \subseteq Backed
<1>1. <<game.mine.attempt, LevelOf[game.mine.version]>> \in Places
  BY DEF Places, ScenePlaces
<1>2. mine.state = "synced" => game.mine.attempt \in Truth
  BY DEF Truth, SceneTruth
<1>3. store \in Saves /\ SyncedIn(store) \subseteq Backed
  BY DEF DeviceTypeOK, Saves, Backed
<1> QED BY <1>1, <1>2, <1>3, SaveBacked

LEMMA SceneTells ==
    ASSUME DeviceInv, NoResultYet, Scene \/ CrashFinding
    PROVE  TellsTruth /\ NoResultYet'
<1>1. /\ DeviceTypeOK /\ store \in Saves /\ who \in Owners
      /\ SyncedIn(store) \subseteq Backed
      /\ game # None => game \in Game /\ game.mine \in Saved
  BY DEF DeviceInv, DeviceTypeOK, Saves, Backed, Game
<1>2. ASSUME game' = None, SyncedIn(store') \subseteq Backed
      PROVE  TellsTruth /\ NoResultYet'
  BY <1>2 DEF TellsTruth, SceneTruth, NoResultYet
<1>3. ASSUME NEW v \in Versions, OpenLevel(v) PROVE TellsTruth /\ NoResultYet'
  <2> DEFINE saved == store[who][LevelOf[v]]
             resumed == IF saved = None THEN FALSE ELSE Resumes(saved, v)
  <2>1. PICK a \in Attempts :
            LET mine == IF resumed THEN saved ELSE Fresh(a, v) IN
            /\ game' = [mine |-> mine, phase |-> "play", result |-> "sync_queued"]
            /\ store' = Save(store, mine)
    BY <1>3 DEF OpenLevel
  <2> DEFINE mine == IF resumed THEN saved ELSE Fresh(a, v)
  <2>2. who \in Users /\ LevelOf[v] \in Levels
    BY <1>1, <1>3, LevelType DEF OpenLevel, Owners
  <2>3. mine \in Saved /\ mine.state # "synced"
    <3>1. CASE resumed
      <4>1. saved # None /\ mine = saved /\ saved.state # "synced"
        BY <3>1 DEF Resumes
      <4> QED BY <1>1, <2>2, <4>1 DEF Saves
    <3>2. CASE ~resumed
      BY <3>2, NothingYet DEF Fresh, Saved
    <3> QED BY <3>1, <3>2
  <2> HIDE DEF mine
  <2>4. game' = [mine |-> mine, phase |-> "play", result |-> "sync_queued"]
        /\ store' = Save(store, mine)
    BY <2>1 DEF mine
  <2>5. game'.mine = mine /\ game'.phase = "play" /\ game'.result = "sync_queued"
    BY <2>4
  <2>6. SyncedIn(store') \subseteq Backed
    BY <1>1, <2>3, <2>4, SaveBacked
  <2>7. SceneTruth' = {}
    BY <2>3, <2>5 DEF SceneTruth
  <2> QED BY <2>5, <2>6, <2>7 DEF TellsTruth, NoResultYet
<1>4. ASSUME NEW d \in Diffs, NEW hinted \in BOOLEAN, MayFind(d, hinted)
      PROVE  LET mine == Found(game.mine, d, hinted) IN
             /\ mine \in Saved /\ mine.state = game.mine.state
             /\ mine.attempt = game.mine.attempt
             /\ SyncedIn(Save(store, mine)) \subseteq Backed
  <2> DEFINE mine == Found(game.mine, d, hinted)
  <2>1. game # None /\ game.mine \in Saved /\ (hinted => game.mine.hints < MaxHints)
    BY <1>1, <1>4 DEF MayFind, Playing
  <2>2. mine \in Saved
    BY <2>1, FoundType
  <2>3. /\ mine.attempt = game.mine.attempt /\ mine.version = game.mine.version
        /\ mine.state = game.mine.state
    BY <2>1, <2>2 DEF Found, Saved
  <2> HIDE DEF mine
  <2>4. SyncedIn(Save(store, mine)) \subseteq Backed
    BY <1>1, <2>1, <2>2, <2>3, SceneSaves
  <2> QED BY <2>2, <2>3, <2>4 DEF mine
<1>5. ASSUME NEW d \in Diffs, NEW hinted \in BOOLEAN, MarkFound(d, hinted)
      PROVE  TellsTruth /\ NoResultYet'
  <2> DEFINE mine == Found(game.mine, d, hinted)
             phase == IF mine.found = DiffsOf[mine.version] THEN "feedback" ELSE "play"
  <2>1. MayFind(d, hinted) /\ store' = Save(store, mine)
        /\ game' = [game EXCEPT !.mine = mine, !.phase = phase]
    BY <1>5 DEF MarkFound
  <2>2. game # None /\ game \in Game /\ game.phase = "play"
    BY <1>1, <2>1 DEF MayFind, Playing
  <2>3. /\ mine \in Saved /\ mine.state = game.mine.state
        /\ mine.attempt = game.mine.attempt
        /\ SyncedIn(Save(store, mine)) \subseteq Backed
    BY <1>4, <2>1
  <2>4. phase \in {"feedback", "play"}
    OBVIOUS
  <2> HIDE DEF mine, phase
  <2>5. /\ game'.mine = mine /\ game'.phase \in {"feedback", "play"}
        /\ game'.result = game.result /\ game' # None
    <3>1. game' \in Game /\ game'.mine = mine /\ game'.phase = phase /\ game'.result = game.result
      BY <2>1, <2>2, <2>3, <2>4 DEF Game
    <3> QED BY <2>4, <3>1, SyncNoneAssumption
  <2>6. SceneTruth' \subseteq Truth
    BY <2>2, <2>3, <2>5 DEF SceneTruth, Truth
  <2> QED BY <2>1, <2>2, <2>3, <2>5, <2>6 DEF TellsTruth, NoResultYet
<1>6. CASE FinishLevel
  <2>1. /\ game # None /\ game \in Game /\ game.mine \in Saved /\ game.phase = "feedback"
        /\ game.result = "sync_queued"
    BY <1>1, <1>6 DEF FinishLevel, Playing, NoResultYet
  <2>2. CASE Busy \/ who = None
    <3> DEFINE mine == [game.mine EXCEPT !.state = "sync_queued"]
    <3>1. game' = Finished(game.mine, "sync_queued") /\ store' = Save(store, mine)
      BY <1>6, <2>2 DEF FinishLevel
    <3>2. /\ mine \in Saved /\ mine.state = "sync_queued"
          /\ mine.attempt = game.mine.attempt /\ mine.version = game.mine.version
      BY <2>1, StateType DEF Saved
    <3>3. game'.mine = mine /\ game'.phase = "done" /\ game'.result = "sync_queued"
      BY <3>1 DEF Finished
    <3> HIDE DEF mine
    <3>4. SyncedIn(store') \subseteq Backed
      BY <1>1, <2>1, <3>1, <3>2, SceneSaves
    <3>5. SceneTruth' = {}
      BY <3>2, <3>3 DEF SceneTruth
    <3> QED BY <3>3, <3>4, <3>5 DEF TellsTruth, NoResultYet
  <2>3. CASE ~(Busy \/ who = None)
    <3>1. store' = store /\ game' = [game EXCEPT !.phase = "submitted"]
      BY <1>6, <2>3 DEF FinishLevel
    <3>2. game'.mine = game.mine /\ game'.phase = "submitted" /\ game'.result = "sync_queued"
      BY <2>1, <3>1 DEF Game
    <3>3. SceneTruth' \subseteq SceneTruth
      BY <2>1, <3>2 DEF SceneTruth
    <3> QED BY <1>1, <3>1, <3>2, <3>3 DEF TellsTruth, NoResultYet, Truth
  <2> QED BY <2>2, <2>3
<1>7. CASE SaveView
  <2>1. game # None /\ store' = Save(store, game.mine) /\ game' = game
    BY <1>7 DEF SaveView
  <2>2. SyncedIn(store') \subseteq Backed
    BY <1>1, <2>1, SceneSaves
  <2>3. SceneTruth' = SceneTruth
    BY <2>1 DEF SceneTruth
  <2> QED BY <2>1, <2>2, <2>3 DEF TellsTruth, Truth, NoResultYet
<1>8. CASE Leave
  BY <1>1, <1>2, <1>8 DEF Leave
<1>9. CASE Replay
  <2> DEFINE level == LevelOf[game.mine.version]
  <2>1. /\ game # None /\ game.mine \in Saved /\ game' = None
        /\ store' = IF who = None THEN store ELSE [store EXCEPT ![who][level] = None]
    BY <1>1, <1>9 DEF Replay, Playing
  <2>2. CASE who = None
    BY <1>1, <1>2, <2>1, <2>2
  <2>3. CASE who # None
    <3>1. who \in Users /\ store[who] \in [Levels -> Saved \cup {None}]
      BY <1>1, <2>3 DEF Owners, Saves
    <3> DEFINE row == [store[who] EXCEPT ![level] = None]
    <3>2. store' = [store EXCEPT ![who] = row]
      BY <2>1, <2>3
    <3>3. \A l \in Levels : row[l] = None \/ row[l] = store[who][l]
      BY <3>1
    <3> HIDE DEF row
    <3>4. \A u \in Users : store'[u] = IF u = who THEN row ELSE store[u]
      BY <1>1, <3>1, <3>2 DEF Saves
    <3>5. \A u \in Users, l \in Levels : store'[u][l] = None \/ store'[u][l] = store[u][l]
      BY <3>3, <3>4
    <3>6. SyncedIn(store') \subseteq SyncedIn(store)
      BY <3>5 DEF SyncedIn
    <3> QED BY <1>1, <1>2, <2>1, <3>6
  <2> QED BY <2>2, <2>3
<1>10. CASE CrashFinding
  <2>1. PICK d \in Diffs, hinted \in BOOLEAN :
            /\ MayFind(d, hinted)
            /\ Die(items, Save(store, Found(game.mine, d, hinted)))
    BY <1>10 DEF CrashFinding
  <2>2. game' = None /\ store' = Save(store, Found(game.mine, d, hinted))
    BY <2>1 DEF Die
  <2>3. SyncedIn(store') \subseteq Backed
    BY <1>4, <2>1, <2>2
  <2> QED BY <1>2, <2>2, <2>3
<1> QED BY <1>3, <1>5, <1>6, <1>7, <1>8, <1>9, <1>10 DEF Scene

LEMMA StepTells ==
    ASSUME DeviceInv, NoResultYet, [SyncNext]_syncVars
    PROVE  TellsTruth /\ NoResultYet'
<1>1. /\ DeviceTypeOK /\ store \in Saves /\ SyncedIn(store) \subseteq Backed
  BY DEF DeviceInv, DeviceTypeOK, Saves, Backed
<1>2. ASSUME store' = store, game' = game PROVE TellsTruth /\ NoResultYet'
  <2>1. SceneTruth' = SceneTruth
    BY <1>2 DEF SceneTruth
  <2> QED BY <1>1, <1>2, <2>1 DEF TellsTruth, Truth, NoResultYet
<1>3. CASE Server \/ Flush \/ Timeout \/ Deny \/ Retry \/ Renew \/ Expire \/ Logout
           \/ (\E u \in Users : Login(u)) \/ UNCHANGED syncVars
  <2>1. store' = store /\ game' = game
    BY <1>3 DEF Server, Arrive, ArriveLate, Look, Accept, Reject, Fail, Answer, Publish,
                Flush, Timeout, Deny, Retry, Renew, Expire, Logout, Login, syncVars, device
  <2> QED BY <1>2, <2>1
<1>4. CASE Crash \/ CrashResolving
  <2>1. store' = store /\ game' = None
    BY <1>4 DEF Crash, CrashResolving, Die
  <2> QED BY <1>1, <2>1 DEF TellsTruth, SceneTruth, NoResultYet
<1>5. CASE Scene \/ CrashFinding
  BY <1>5, SceneTells
<1>6. CASE Accepted
  BY <1>6, ResolveTells DEF Accepted
<1>7. CASE Rejected
  BY <1>7, ResolveTells DEF Rejected
<1>8. CASE GiveUp
  <2>1. EndOfFlush(store, game.result)
    BY <1>8 DEF GiveUp
  <2>2. CASE Playing("submitted")
    <3>1. /\ game.result \in {"sync_queued", "synced", "rejected"}
          /\ game.result = "synced" => game.mine.attempt \in Truth
      BY <1>1, <2>2 DEF Playing, DeviceTypeOK, Game, Truth, SceneTruth
    <3> QED BY <1>1, <2>1, <3>1, EndTells
  <2>3. CASE ~Playing("submitted")
    <3>1. EndOfFlush(store, "rejected")
      BY <2>1, <2>3 DEF EndOfFlush
    <3> QED BY <1>1, <3>1, EndTells
  <2> QED BY <2>2, <2>3
<1> QED BY <1>3, <1>4, <1>5, <1>6, <1>7, <1>8 DEF SyncNext, Client

\* One player uses the device.  (With two, a retry sends the write of the one
\* as the other: see SentAsOwner.)
OneUser == \A u, w \in Users : u = w

\* What makes SyncedIsTrue provable: the scene takes only completed attempts for
\* completed, and a level is saved as synced only if it was credited.
TruthInv ==
    /\ HomeInv /\ NoResultYet
    /\ \A a \in SceneTruth : attempts[a] # None /\ attempts[a].state = "completed"
    /\ \A s \in SyncedIn(store) : lifetime[s[1]][s[2]] # None

LEMMA CreditsStay ==
    ASSUME TablesOK, [Next]_vars, NEW u \in Users, NEW l \in Levels, lifetime[u][l] # None
    PROVE  lifetime'[u][l] # None
<1>1. ASSUME NEW h \in Handlers, CommitComplete(h) PROVE lifetime'[u][l] # None
  <2>1. PICK r \in Request :
            /\ attempts[r.attempt] # None
            /\ best' = [best EXCEPT ![r.user][attempts[r.attempt].version] = NewBest(r)]
            /\ lifetime' = [lifetime EXCEPT ![r.user][r.level] = NewLifetime(r)]
    BY <1>1, CompleteRows
  <2>2. lifetime'[u][l] \in Row
    BY <2>1, RowsGrow
  <2> QED BY <2>2, NoneAssumption
<1>2. CASE UNCHANGED lifetime
  BY <1>2
<1>3. UNCHANGED lifetime \/ \E h \in Handlers : CommitComplete(h)
  BY DEF Next, Handle, Receive, Hit, Conflict, Miss, LoseKeyRace, Abort, Refuse, CommitStart,
         CommitProgress, CommitCompleteAgain, Reset, Transition, vars, tables
<1> QED BY <1>1, <1>2, <1>3

LEMMA TruthIsCompleted ==
    ASSUME OutboxInv, TruthInv, NEW a \in Truth
    PROVE  a \in Attempts /\ IsCompleted(a)
<1>1. DeviceInv /\ RecordsFit /\ DoneInv /\ OkInv /\ FrontInv
  BY DEF OutboxInv, WritesInv, QueueInv, FlightKnown
<1>2. CASE a \in SceneTruth
  <2>1. a \in Attempts
    BY <1>1, <1>2 DEF SceneTruth, DeviceInv, DeviceTypeOK, Game, Saved
  <2> QED BY <1>2, <2>1 DEF TruthInv, IsCompleted
<1>3. CASE a \in FlightTruth
  <2>1. Busy /\ flight.reply = "ok" /\ flight.item.route = "level_complete"
        /\ a = flight.item.attempt
    BY <1>3 DEF FlightTruth, IsComplete
  <2>2. flight.item \in ClientRequests
    BY <1>1, <2>1, FlightType DEF DeviceInv, Flight
  <2> QED BY <1>1, <2>1, <2>2, OkCounts, Keyed
<1> QED BY <1>2, <1>3 DEF Truth

LEMMA BackedIsCredited ==
    ASSUME OneUser, OutboxInv, LifetimeDominates, TruthInv, NEW s \in Backed
    PROVE  s \in Users \X Levels /\ lifetime[s[1]][s[2]] # None
<1>1. CASE s \in SyncedIn(store)
  BY <1>1 DEF TruthInv, SyncedIn
<1>2. ASSUME s \in Users \X Levels, NEW a \in Truth, <<a, s[2]>> \in Places
      PROVE  lifetime[s[1]][s[2]] # None
  <2>1. a \in Attempts /\ IsCompleted(a)
    BY TruthIsCompleted
  <2>2. attempts[a].user \in Users /\ attempts[a].version \in Versions
    BY <2>1, AttemptType DEF IsCompleted, OutboxInv, WritesInv, Attempt
  <2>3. <<a, LevelOf[attempts[a].version]>> \in Places
    BY <2>1 DEF IsCompleted, Places, RowPlaces
  <2>4. LevelOf[attempts[a].version] = s[2]
    BY <1>2, <2>3 DEF TruthInv, HomeInv
  <2>5. attempts[a].user = s[1]
    BY <1>2, <2>2 DEF OneUser
  <2> QED BY <2>1, <2>4, <2>5 DEF LifetimeDominates, Dominates
<1> QED BY <1>1, <1>2 DEF Backed

LEMMA TruthStep ==
    ASSUME OneUser, OutboxInv, LifetimeDominates, TruthInv, [SyncNext]_syncVars
    PROVE  TruthInv'
<1>1. TablesOK /\ DeviceInv /\ WritesInv /\ HomeInv /\ NoResultYet
  BY DEF OutboxInv, WritesInv, TruthInv
<1>2. [Next]_vars
  BY <1>1, ServiceStep DEF DeviceInv
<1>3. HomeInv'
  BY <1>1, HomeStep
<1>4. TellsTruth /\ NoResultYet'
  BY <1>1, StepTells
<1>5. ASSUME NEW a \in SceneTruth'
      PROVE  attempts'[a] # None /\ attempts'[a].state = "completed"
  <2>1. a \in Attempts /\ IsCompleted(a)
    BY <1>4, TruthIsCompleted DEF TellsTruth
  <2> QED BY <1>1, <1>2, <2>1, CompletesOne DEF IsCompleted
<1>6. ASSUME NEW s \in SyncedIn(store') PROVE lifetime'[s[1]][s[2]] # None
  <2>1. s \in Users \X Levels /\ lifetime[s[1]][s[2]] # None
    BY <1>4, BackedIsCredited DEF TellsTruth
  <2> QED BY <1>1, <1>2, <2>1, CreditsStay
<1> QED BY <1>3, <1>4, <1>5, <1>6 DEF TruthInv

LEMMA TruthInit == SyncInit => TruthInv
<1> SUFFICES ASSUME SyncInit PROVE TruthInv
  OBVIOUS
<1>1. /\ game = None /\ items = <<>> /\ dead = {} /\ flight = None /\ late = {}
      /\ \A u \in Users, l \in Levels : store[u][l] = None
      /\ \A a \in Attempts : attempts[a] = None
      /\ \A h \in Handlers : tx[h] = None
      /\ \A id \in IdemId : idem[id] = None
  BY DEF SyncInit, Init
<1>2. Written = {}
  BY <1>1 DEF Written, Queue, Copies, Busy
<1>3. Places = {}
  BY <1>1, <1>2 DEF Places, WrittenPlaces, SavedPlaces, RowPlaces, ScenePlaces
<1>4. SceneTruth = {} /\ SyncedIn(store) = {}
  BY <1>1 DEF SceneTruth, SyncedIn
<1> QED BY <1>1, <1>3, <1>4 DEF TruthInv, HomeInv, NoResultYet

\* For one player "synced" is true, where it is saved and where it is shown,
\* whatever is retried, delayed, resumed or cut off by a crash.
THEOREM SyncedIsWarranted == OneUser => (SyncSpec => []SyncedIsTrue)
<1> SUFFICES ASSUME OneUser PROVE SyncSpec => []SyncedIsTrue
  OBVIOUS
<1>1. OutboxInv /\ LifetimeDominates /\ TruthInv /\ [SyncNext]_syncVars => TruthInv'
  BY TruthStep
<1>2. TruthInv => SyncedIsTrue
  <2> SUFFICES ASSUME TruthInv PROVE SyncedIsTrue
    OBVIOUS
  <2>1. SyncedIsCredited
    <3> SUFFICES ASSUME NEW u \in Users, NEW l \in Levels,
                        store[u][l] # None, store[u][l].state = "synced"
                 PROVE  lifetime[u][l] # None
      BY DEF SyncedIsCredited
    <3>1. <<u, l>> \in SyncedIn(store)
      BY DEF SyncedIn
    <3> QED BY <3>1 DEF TruthInv
  <2>2. ShownSyncedIsCompleted
    BY DEF ShownSyncedIsCompleted, TruthInv, SceneTruth, IsCompleted
  <2> QED BY <2>1, <2>2 DEF SyncedIsTrue
<1> QED
  BY <1>1, <1>2, TruthInit, OutboxAlways, ImplementsService, LifetimeIsBest, PTL DEF SyncSpec
-----------------------------------------------------------------------------
(* Why a write is refused.                                                 *)

\* A puzzle has no differences (none are read for one).
PuzzlesArePlain == \A v \in PuzzleVersions : DiffsOf[v] = {}

StartOf(r) == StartItem(r.user, r.attempt, r.version)

\* The start of the attempt is refused, or the service has begun the attempt
\* with this version.
Begun(deads, rows, r) ==
    \/ StartOf(r) \in deads
    \/ rows[r.attempt] # None /\ rows[r.attempt].version = r.version

\* An attempt is begun, and ended, by a write that is recorded.
RowsInv ==
    /\ \A id \in IdemId : idem[id] # None /\ idem[id].req.route = "level_start" =>
            /\ attempts[idem[id].req.attempt] # None
            /\ attempts[idem[id].req.attempt].version = idem[id].req.version
    /\ \A a \in Attempts : attempts[a] # None =>
            idem[<<attempts[a].user, "level_start", <<a, None>>>>] # None
    /\ \A a \in Attempts : IsCompleted(a) =>
            \E id \in IdemId : /\ idem[id] # None
                               /\ idem[id].req.route = "level_complete"
                               /\ idem[id].req.attempt = a

\* Before any other write of an attempt waits its start, unless the attempt is
\* begun or its start refused; the saved attempts have their start behind them
\* or in the queue.
BegunInv ==
    /\ \A j \in DOMAIN items : items[j].route # "level_start" =>
            \/ Begun(dead, attempts, items[j])
            \/ \E i \in 1 .. j - 1 : items[i] = StartOf(items[j])
    /\ \A u \in Users, l \in Levels : store[u][l] # None =>
            LET s == [user |-> u, attempt |-> store[u][l].attempt,
                      version |-> store[u][l].version]
            IN  Begun(dead, attempts, s) \/ StartOf(s) \in Queue

\* What a write reports belongs to its version, and a complete reports all.
BodyFits(r) ==
    /\ r.route = "level_progress" => r.found \subseteq DiffsOf[r.version]
    /\ r.route = "level_complete" => r.found = DiffsOf[r.version]
    /\ r.route # "level_start" => r.version \notin PuzzleVersions

BodyInv ==
    /\ \A r \in Queue : BodyFits(r)
    /\ Playing("feedback") => game.mine.version \notin PuzzleVersions

\* While a progress waits, the complete of its attempt comes after it.
Ends(r, a) == r.route = "level_complete" /\ r.attempt = a

LastInv ==
    \A j \in DOMAIN items : items[j].route = "level_progress" =>
        /\ \A c \in Copies \cup dead : ~Ends(c, items[j].attempt)
        /\ \A i \in 1 .. j - 1 : ~Ends(items[i], items[j].attempt)

\* A refusal of the write in flight has its cause.
ReplyInv ==
    Busy /\ flight.reply = "rejected" /\ flight.item.route # "level_start" =>
        StartOf(flight.item) \in dead

CauseInv ==
    /\ RowsInv /\ BegunInv /\ BodyInv /\ LastInv /\ ReplyInv
    /\ RefusedHasCause

\* An attempt once begun stays, with its player and its version.
LEMMA RowsStay ==
    ASSUME TablesOK, [Next]_vars, NEW a \in Attempts, attempts[a] # None
    PROVE  /\ attempts'[a] # None
           /\ attempts'[a].user = attempts[a].user
           /\ attempts'[a].version = attempts[a].version
<1>1. attempts[a] \in Attempt
  BY AttemptType
<1>2. ASSUME NEW r \in Request, r.attempt = a, attempts'[a] = Progressed(r), ProgressFits(r)
      PROVE  /\ attempts'[a] \in Attempt
             /\ attempts'[a].user = attempts[a].user
             /\ attempts'[a].version = attempts[a].version
  <2>1. r.found \in SUBSET Diffs /\ MergedHints(r) \in HintCount
    BY <1>2, MergedType DEF Request
  <2> QED BY <1>1, <1>2, <2>1 DEF Progressed, Attempt
<1>3. ASSUME NEW r \in Request, r.attempt = a, attempts'[a] = Completed(r), CompleteFits(r)
      PROVE  /\ attempts'[a] \in Attempt
             /\ attempts'[a].user = attempts[a].user
             /\ attempts'[a].version = attempts[a].version
  <2>1. Completed(r) \in Attempt
    BY <1>3, CompletedType
  <2> QED BY <1>1, <1>3, <2>1 DEF Completed, Attempt
<1>4. ASSUME attempts'[a] = None PROVE FALSE
  <2>1. ASSUME NEW u \in Users, NEW l \in Levels, Reset(u, l) PROVE FALSE
    BY <2>1, SyncAssumption DEF Reset
  <2>2. ASSUME NEW h \in Handlers, Handle(h) PROVE FALSE
    <3> DEFINE r == tx[h].req
    <3>1. CASE CommitStart(h)
      <4>1. attempts' = [attempts EXCEPT ![r.attempt] = Started(r)] /\ r \in Request
        BY <3>1, RequestType DEF CommitStart, MayCommit, Open
      <4>2. attempts'[a] = attempts[a]
        BY <4>1 DEF TablesOK, Started, Request
      <4> QED BY <1>4, <4>2
    <3>2. CASE CommitProgress(h)
      <4>1. attempts' = [attempts EXCEPT ![r.attempt] = Progressed(r)] /\ r \in Request
            /\ ProgressFits(r)
        BY <3>2, RequestType DEF CommitProgress, MayCommit, Open
      <4>2. attempts'[a] = attempts[a] \/ (r.attempt = a /\ attempts'[a] = Progressed(r))
        BY <4>1 DEF TablesOK
      <4> QED BY <1>2, <1>4, <4>1, <4>2, NoneAssumption
    <3>3. CASE CommitComplete(h)
      <4>1. attempts' = [attempts EXCEPT ![r.attempt] = Completed(r)] /\ r \in Request
            /\ CompleteFits(r)
        BY <3>3, RequestType DEF CommitComplete, MayCommit, Open
      <4>2. attempts'[a] = attempts[a] \/ (r.attempt = a /\ attempts'[a] = Completed(r))
        BY <4>1 DEF TablesOK
      <4> QED BY <1>3, <1>4, <4>1, <4>2, NoneAssumption
    <3>4. CASE ~(CommitStart(h) \/ CommitProgress(h) \/ CommitComplete(h))
      BY <1>4, <2>2, <3>4
      DEF Handle, Receive, Hit, Conflict, Miss, LoseKeyRace, Abort, Refuse,
          CommitCompleteAgain, tables
    <3> QED BY <3>1, <3>2, <3>3, <3>4
  <2> QED BY <1>4, <2>1, <2>2 DEF Next, Transition, vars, tables
<1> QED BY <1>2, <1>3, <1>4, AttemptSteps DEF AttemptStep

LEMMA BegunStays ==
    ASSUME TablesOK, DeviceInv, [SyncNext]_syncVars, NEW r, r.attempt \in Attempts,
           Begun(dead, attempts, r)
    PROVE  Begun(dead', attempts', r)
<1>1. [Next]_vars /\ dead \subseteq dead'
  BY ServiceStep, DeadStays DEF DeviceInv
<1> QED BY <1>1, RowsStay DEF Begun

\* Only an accepted request changes a row: its own, and it is recorded.
LEMMA RowWriter ==
    ASSUME TablesOK, [SyncNext]_syncVars, NEW a \in Attempts, attempts'[a] # attempts[a]
    PROVE  \E h \in Handlers :
            LET r == tx[h].req IN
            /\ Accept(h) /\ ~Hit(h)
            /\ r \in Copies /\ r \in Request /\ r.attempt = a
            /\ \/ /\ r.route = "level_start"
                  /\ attempts[a] = None /\ attempts'[a] = NewAttempt(r)
               \/ r.route = "level_progress" /\ attempts[a] # None
                  /\ attempts'[a].state = "in_progress"
               \/ r.route = "level_complete" /\ attempts[a] # None
<1>1. PICK h \in Handlers : Handles(h)
  BY DeviceOrServer, TablesStand
  DEF Publish, Transition, Arrive, ArriveLate, Receive, syncVars, vars, tables
<1> DEFINE r == tx[h].req
<1>2. tx[h] # None
  BY <1>1, HandlerTurns
<1>3. r \in Copies /\ r \in Request /\ r.attempt \in Attempts
  BY <1>2, RequestType DEF Copies, Request
<1>4. Accept(h) /\ ~Hit(h)
  BY <1>1 DEF Handles, Look, Reject, Fail, Miss, Hit, Conflict, Refuse, LoseKeyRace, Abort, tables
<1>5. CASE CommitComplete(h)
  <2>1. attempts' = [attempts EXCEPT ![r.attempt] = Completed(r)] /\ r.route = "level_complete"
        /\ attempts[r.attempt] # None
    BY <1>5 DEF CommitComplete, CompleteFits, Owned
  <2>2. r.attempt = a
    BY <1>3, <2>1 DEF TablesOK
  <2> QED BY <1>3, <1>4, <2>1, <2>2
<1>6. CASE CommitStart(h)
  <2>1. attempts' = [attempts EXCEPT ![r.attempt] = Started(r)] /\ r.route = "level_start"
    BY <1>6 DEF CommitStart
  <2>2. r.attempt = a /\ attempts'[a] = Started(r)
    BY <1>3, <2>1 DEF TablesOK
  <2>3. attempts[a] = None /\ attempts'[a] = NewAttempt(r)
    BY <2>2 DEF Started
  <2> QED BY <1>3, <1>4, <2>1, <2>2, <2>3
<1>7. CASE CommitProgress(h)
  <2>1. attempts' = [attempts EXCEPT ![r.attempt] = Progressed(r)] /\ ProgressFits(r)
        /\ r.route = "level_progress"
    BY <1>7 DEF CommitProgress
  <2>2. r.attempt = a /\ attempts'[a] = Progressed(r)
    BY <1>3, <2>1 DEF TablesOK
  <2>3. attempts[a] # None /\ attempts[a] \in Attempt /\ attempts[a].state = "in_progress"
    BY <2>1, <2>2, AttemptType DEF ProgressFits, Owned
  <2>4. Progressed(r).state = "in_progress"
    BY <2>2, <2>3 DEF Progressed, Attempt
  <2> QED BY <1>3, <1>4, <2>1, <2>2, <2>3, <2>4
<1> QED BY <1>4, <1>5, <1>6, <1>7 DEF Accept, CommitCompleteAgain

\* What is accepted for the first time is recorded as it was sent.
LEMMA Recorded ==
    ASSUME TablesOK, NEW h \in Handlers, Accept(h), ~Hit(h)
    PROVE  LET r == tx[h].req IN
           /\ Id(r) \in IdemId
           /\ idem[Id(r)] = None
           /\ idem'[Id(r)] # None
           /\ idem'[Id(r)].req = r
<1> DEFINE r == tx[h].req
<1>1. idem[Id(r)] = None /\ tx[h] # None
  BY DEF Accept, CommitStart, CommitProgress, CommitComplete, CommitCompleteAgain,
         MayCommit, Open
<1>2. Id(r) \in IdemId
  BY <1>1, RequestType
<1>3. idem'[Id(r)] # None
  BY AcceptTells
<1>4. Handles(h)
  BY DEF Handles
<1>5. idem'[Id(r)].req = r
  BY <1>1, <1>2, <1>3, <1>4, HandlerTurns
<1> QED BY <1>1, <1>2, <1>3, <1>5

LEMMA RowsInvStep ==
    ASSUME TablesOK, DeviceInv, CopiesType, RowsInv, [SyncNext]_syncVars
    PROVE  RowsInv'
<1>1. [Next]_vars
  BY ServiceStep DEF DeviceInv
<1>2. \A id \in IdemId : idem[id] # None =>
            /\ idem'[id] = idem[id]
            /\ idem[id].req.attempt \in Attempts
  <2> SUFFICES ASSUME NEW id \in IdemId, idem[id] # None
               PROVE  idem'[id] = idem[id] /\ idem[id].req.attempt \in Attempts
    OBVIOUS
  <2>1. idem[id].req \in Copies
    BY DEF Copies
  <2> QED BY <1>1, <2>1, StepKeepsAnswers, Keyed DEF CopiesType
<1>3. ASSUME NEW a \in Attempts, NEW u \in Users
      PROVE  <<u, "level_start", <<a, None>>>> \in IdemId
  BY SyncAssumption DEF IdemId, Routes
<1>4. ASSUME NEW r \in ClientRequests, r.route = "level_start"
      PROVE  Id(r) = <<r.user, "level_start", <<r.attempt, None>>>>
  BY <1>4, Keyed DEF Id
<1>5. ASSUME NEW id \in IdemId, idem'[id] # None, idem'[id].req.route = "level_start"
      PROVE  /\ attempts'[idem'[id].req.attempt] # None
             /\ attempts'[idem'[id].req.attempt].version = idem'[id].req.version
  <2>1. CASE idem[id] # None
    BY <1>1, <1>2, <1>5, <2>1, RowsStay DEF RowsInv
  <2>2. CASE idem[id] = None
    <3>1. PICK h \in Handlers : Handles(h)
      BY <1>5, <2>2, DeviceOrServer, TablesStand
      DEF Publish, Transition, Arrive, ArriveLate, Receive, syncVars, vars, tables
    <3> DEFINE r == tx[h].req
    <3>2. Accept(h) /\ idem'[id].req = r /\ tx[h] # None
      BY <1>5, <2>2, <3>1, HandlerTurns
    <3>3. ~Hit(h)
      BY <1>5, <2>2 DEF Hit, tables
    <3>4. r \in ClientRequests /\ r.attempt \in Attempts /\ r.user \in Users
      <4>1. r \in Copies
        BY <3>2 DEF Copies
      <4> QED BY <4>1, Keyed, ItemFields DEF CopiesType
    <3>5. CommitStart(h) /\ StartFits(r)
          /\ attempts' = [attempts EXCEPT ![r.attempt] = Started(r)]
      BY <1>5, <3>2, <3>3 DEF Accept, CommitStart, CommitProgress, CommitComplete,
                              CommitCompleteAgain
    <3>6. attempts[r.attempt] = None
      <4> SUFFICES ASSUME attempts[r.attempt] # None PROVE FALSE
        OBVIOUS
      <4>1. attempts[r.attempt].user = r.user
        BY <3>5 DEF StartFits
      <4>2. idem[Id(r)] # None
        BY <1>4, <1>5, <3>2, <3>4, <4>1 DEF RowsInv
      <4> QED BY <3>2, <3>3, <4>2, Recorded
    <3>7. attempts'[r.attempt] = NewAttempt(r)
      BY <3>4, <3>5, <3>6 DEF TablesOK, Started
    <3>8. NewAttempt(r) # None /\ NewAttempt(r).version = r.version
      <4>1. r \in Request
        BY <3>2, RequestType
      <4>2. NewAttempt(r) \in Attempt
        BY <4>1, NothingYet DEF NewAttempt, Attempt, Request
      <4> QED BY <4>2, NoneAssumption DEF NewAttempt
    <3> QED BY <3>2, <3>7, <3>8
  <2> QED BY <2>1, <2>2
<1>6. ASSUME NEW a \in Attempts, attempts'[a] # None
      PROVE  idem'[<<attempts'[a].user, "level_start", <<a, None>>>>] # None
  <2>1. CASE attempts[a] # None
    <3>1. attempts'[a].user = attempts[a].user /\ attempts[a].user \in Users
      BY <1>1, <2>1, RowsStay, AttemptType DEF Attempt
    <3>2. idem[<<attempts[a].user, "level_start", <<a, None>>>>] # None
      BY <2>1 DEF RowsInv
    <3> QED BY <1>2, <1>3, <3>1, <3>2
  <2>2. CASE attempts[a] = None
    <3>1. PICK h \in Handlers :
            /\ Accept(h) /\ ~Hit(h)
            /\ tx[h].req \in Copies /\ tx[h].req.attempt = a
            /\ tx[h].req.route = "level_start" /\ attempts'[a] = NewAttempt(tx[h].req)
      BY <1>6, <2>2, RowWriter
    <3>2. Id(tx[h].req) = <<attempts'[a].user, "level_start", <<a, None>>>>
      BY <1>4, <3>1 DEF NewAttempt, CopiesType
    <3> QED BY <3>1, <3>2, Recorded
  <2> QED BY <2>1, <2>2
<1>7. ASSUME NEW a \in Attempts, attempts'[a] # None, attempts'[a].state = "completed"
      PROVE  \E id \in IdemId : /\ idem'[id] # None
                                /\ idem'[id].req.route = "level_complete"
                                /\ idem'[id].req.attempt = a
  <2>1. CASE IsCompleted(a)
    BY <1>2, <2>1 DEF RowsInv
  <2>2. CASE ~IsCompleted(a)
    <3>1. attempts'[a] # attempts[a]
      BY <1>7, <2>2 DEF IsCompleted
    <3>2. PICK h \in Handlers :
            LET r == tx[h].req IN
            /\ Accept(h) /\ ~Hit(h)
            /\ r.attempt = a
            /\ \/ attempts'[a] = NewAttempt(r)
               \/ attempts'[a].state = "in_progress"
               \/ r.route = "level_complete"
      BY <3>1, RowWriter
    <3>3. tx[h].req.route = "level_complete"
      BY <1>7, <3>2 DEF NewAttempt
    <3> QED BY <3>2, <3>3, Recorded
  <2> QED BY <2>1, <2>2
<1> QED BY <1>5, <1>6, <1>7 DEF RowsInv, IsCompleted

\* A start that leaves the queue was refused, or has begun its attempt.
LEMMA StartEnds ==
    ASSUME DeviceInv, FrontInv, OkInv, RecordsFit, RowsInv, Removes, NEW r,
           flight.item = StartOf(r)
    PROVE  Begun(dead', attempts', r)
<1>1. /\ flight \in Flight /\ flight.item \in ClientRequests
      /\ flight.sent \in ClientRequests
  BY FlightType DEF Removes, DeviceInv, Flight
<1>2. /\ StartOf(r).route = "level_start" /\ StartOf(r).attempt = r.attempt
      /\ StartOf(r).version = r.version
  BY DEF StartOf, StartItem, Write
<1>3. CASE flight.reply = "rejected"
  BY <1>3 DEF Removes, Begun
<1>4. CASE flight.reply = "ok"
  <2> DEFINE rec == idem[Id(flight.sent)].req
  <2>1. Id(flight.sent) \in IdemId
    BY <1>1, ItemFields, ConstantsAssumption DEF Id, IdemId, Request
  <2>2. idem[Id(flight.sent)] # None /\ SameBody(rec, flight.sent)
    BY <1>4 DEF OkInv, Removes
  <2>3. Id(rec) = Id(flight.sent)
    BY <2>1, <2>2 DEF RecordsFit
  <2>4. flight.sent = As(flight.sent.user, flight.item) /\ flight.sent.user \in Users
    BY <1>1, ItemFields DEF FrontInv, Removes
  <2>5. /\ flight.sent.route = "level_start" /\ flight.sent.attempt = r.attempt
        /\ flight.sent.version = r.version
    <3>1. flight.sent.version = flight.item.version
      BY <1>1, <2>4, ItemFields, ConstantsAssumption DEF As, Request
    <3> QED BY <1>1, <1>2, <2>4, <3>1, AsKeeps
  <2>6. rec.route = "level_start" /\ rec.attempt = r.attempt /\ rec.version = r.version
    BY <2>2, <2>3, <2>5 DEF Id, SameBody
  <2>7. attempts' = attempts
    BY DEF Removes, vars, tables
  <2> QED BY <2>1, <2>2, <2>6, <2>7 DEF RowsInv, Begun
<1> QED BY <1>3, <1>4 DEF Removes

\* A saved attempt was saved before, or its start has just been queued.
LEMMA SavesBegin ==
    ASSUME DeviceInv, SlotsInv, [SyncNext]_syncVars, NEW u \in Users, NEW l \in Levels,
           store'[u][l] # None
    PROVE  \/ /\ store[u][l] # None
              /\ store'[u][l].attempt = store[u][l].attempt
              /\ store'[u][l].version = store[u][l].version
           \/ StartItem(u, store'[u][l].attempt, store'[u][l].version) \in Queue'
<1> DEFINE Goal == \/ /\ store[u][l] # None
                      /\ store'[u][l].attempt = store[u][l].attempt
                      /\ store'[u][l].version = store[u][l].version
                   \/ StartItem(u, store'[u][l].attempt, store'[u][l].version) \in Queue'
<1> USE DEF DeviceInv, SlotsInv
<1>1. who \in Owners /\ store \in Saves /\ items \in Seq(ClientRequests)
  BY DEF DeviceTypeOK, Saves
<1>2. CASE KeepsSlots
  BY <1>2 DEF KeepsSlots, Same
<1>3. ASSUME NEW d \in Diffs, NEW hinted \in BOOLEAN, MayFind(d, hinted),
             store' = Save(store, Found(game.mine, d, hinted))
      PROVE  Goal
  <2> DEFINE mine == Found(game.mine, d, hinted)
             level == LevelOf[game.mine.version]
  <2>1. game # None /\ game.mine \in Saved /\ (hinted => game.mine.hints < MaxHints)
    BY <1>3 DEF MayFind, Playing, DeviceTypeOK, Game
  <2>2. mine \in Saved
    BY <2>1, FoundType
  <2>3. mine.attempt = game.mine.attempt /\ mine.version = game.mine.version
    BY <2>1 DEF Found, Saved
  <2> HIDE DEF mine
  <2>4. store'[u][l] = IF u = who /\ l = LevelOf[mine.version] THEN mine ELSE store[u][l]
    BY <1>1, <1>3, <2>2, SavedSlots DEF mine
  <2>5. CASE u = who /\ l = LevelOf[mine.version]
    <3>1. store[who][level] # None /\ Same(store[who][level], game.mine)
      BY <2>1, <2>5, NoneAssumption DEF SceneFits
    <3> QED BY <2>3, <2>4, <2>5, <3>1 DEF Same
  <2>6. CASE ~(u = who /\ l = LevelOf[mine.version])
    <3>1. store'[u][l] = store[u][l]
      BY <2>4, <2>6
    <3> QED BY <3>1
  <2> QED BY <2>5, <2>6
<1>4. ASSUME NEW v \in Versions, OpenLevel(v) PROVE Goal
  <2> DEFINE saved == store[who][LevelOf[v]]
             resumed == IF saved = None THEN FALSE ELSE Resumes(saved, v)
  <2>1. who \in Users /\ who # None
    BY <1>1, <1>4 DEF OpenLevel, Owners
  <2>2. LevelOf[v] \in Levels
    BY LevelType
  <2>3. PICK a \in Attempts :
          LET mine == IF resumed THEN saved ELSE Fresh(a, v) IN
          /\ IF resumed THEN a = saved.attempt ELSE a \notin used
          /\ store' = Save(store, mine)
          /\ Submit(StartItem(who, a, v))
    BY <1>4 DEF OpenLevel
  <2>4. StartItem(who, a, v) \in Queue'
    <3>1. items' = Append(items, StartItem(who, a, v))
      BY <2>1, <2>3 DEF Submit
    <3>2. Len(items) + 1 \in DOMAIN items' /\ items'[Len(items) + 1] = StartItem(who, a, v)
      BY <1>1, <3>1
    <3> QED BY <3>2 DEF Queue
  <2>5. CASE resumed
    <3>1. saved \in Saved /\ saved # None
      BY <1>1, <2>1, <2>2, <2>5 DEF Saves
    <3>2. store' = Save(store, saved)
      BY <2>3, <2>5
    <3> HIDE DEF saved, resumed
    <3>3. store'[u][l] = IF u = who /\ l = LevelOf[saved.version] THEN saved ELSE store[u][l]
      BY <1>1, <3>1, <3>2, SavedSlots
    <3>4. CASE u = who /\ l = LevelOf[saved.version]
      <4>1. store'[u][l] = saved
        BY <3>3, <3>4
      <4>2. l = LevelOf[v] \/ l # LevelOf[v]
        OBVIOUS
      <4>3. LevelOf[saved.version] = LevelOf[v]
        BY <2>1, <2>2, <3>1 DEF SlotsInv, SlotsFit, SlotFits, saved
      <4> QED BY <3>1, <3>4, <4>1, <4>3 DEF saved
    <3>5. CASE ~(u = who /\ l = LevelOf[saved.version])
      BY <3>3, <3>5
    <3> QED BY <3>4, <3>5
  <2>6. CASE ~resumed
    <3>1. Fresh(a, v) \in Saved /\ Fresh(a, v).attempt = a /\ Fresh(a, v).version = v
      BY NothingYet DEF Fresh, Saved
    <3>2. store' = Save(store, Fresh(a, v))
      BY <2>3, <2>6
    <3>3. store'[u][l] = IF u = who /\ l = LevelOf[v] THEN Fresh(a, v) ELSE store[u][l]
      BY <1>1, <3>1, <3>2, SavedSlots
    <3> QED BY <2>4, <3>1, <3>3
  <2> QED BY <2>5, <2>6
<1>5. ASSUME NEW d \in Diffs, NEW hinted \in BOOLEAN, MarkFound(d, hinted) PROVE Goal
  BY <1>3, <1>5 DEF MarkFound
<1>6. CASE CrashFinding
  BY <1>3, <1>6 DEF CrashFinding, Die
<1>7. CASE FinishLevel
  BY <1>2, <1>7, FinishKeeps
<1>8. CASE \/ Flush \/ Client \/ Server \/ Expire \/ Logout \/ (\E w \in Users : Login(w))
           \/ Crash \/ CrashResolving \/ UNCHANGED syncVars \/ SaveView \/ Leave \/ Replay
  BY <1>2, <1>8, QuietKeeps
<1> QED BY <1>4, <1>5, <1>6, <1>7, <1>8 DEF SyncNext, Scene

LEMMA BegunStep ==
    ASSUME WritesInv, WritesInv', OkInv, RowsInv, BegunInv, [SyncNext]_syncVars
    PROVE  BegunInv'
<1>1. /\ TablesOK /\ DeviceInv /\ FrontInv /\ RecordsFit /\ SlotsInv /\ SceneFits
      /\ items \in Seq(ClientRequests) /\ items' \in Seq(ClientRequests)
      /\ store \in Saves /\ store' \in Saves
  BY DEF WritesInv, QueueInv, SlotsInv, DeviceInv, DeviceTypeOK, Saves
<1> DEFINE p == flight.pos
           From(j) == IF j < p THEN j ELSE j + 1
<1>2. ASSUME Removes
      PROVE  /\ p \in DOMAIN items /\ p \in Nat /\ items' = Without(items, p)
             /\ items[p] = flight.item
             /\ DOMAIN items' = 1 .. Len(items) - 1
             /\ \A j \in 1 .. Len(items) - 1 : j < p => items'[j] = items[j]
  <2>1. p \in DOMAIN items /\ p \in Nat /\ items' = Without(items, p) /\ items[p] = flight.item
    BY <1>1, <1>2 DEF Removes, DeviceInv, ResolvesWhatItSent
  <2> HIDE DEF p
  <2> QED BY <1>1, <2>1, WithoutItems
<1>3. ASSUME Removes, NEW r, StartOf(r) \in Queue
      PROVE  StartOf(r) \in Queue' \/ Begun(dead', attempts', r)
  <2>1. PICK i \in DOMAIN items : items[i] = StartOf(r)
    BY <1>3 DEF Queue
  <2>2. CASE i = p
    BY <1>1, <1>2, <1>3, <2>1, <2>2, StartEnds
  <2>3. CASE i # p
    BY <1>1, <1>2, <1>3, <2>1, <2>3, WithoutItems DEF Queue
  <2> QED BY <2>2, <2>3
<1>4. ASSUME NEW r, StartOf(r) \in Queue
      PROVE  StartOf(r) \in Queue' \/ Begun(dead', attempts', r)
  <2>1. CASE Rests
    BY <1>4, <2>1 DEF Rests, Queue
  <2>2. ASSUME NEW item \in ClientRequests, Adds(item) PROVE StartOf(r) \in Queue'
    <3>1. \A i \in DOMAIN items : i \in DOMAIN items' /\ items'[i] = items[i]
      BY <1>1, <2>2 DEF Adds
    <3> QED BY <1>4, <3>1 DEF Queue
  <2> QED BY <1>1, <1>3, <1>4, <2>1, <2>2, StepKinds
<1>5. ASSUME NEW u \in Users, NEW l \in Levels, store'[u][l] # None
      PROVE  LET s == [user |-> u, attempt |-> store'[u][l].attempt,
                       version |-> store'[u][l].version]
             IN  Begun(dead', attempts', s) \/ StartOf(s) \in Queue'
  <2> DEFINE s == [user |-> u, attempt |-> store'[u][l].attempt,
                   version |-> store'[u][l].version]
  <2>1. StartOf(s) = StartItem(u, store'[u][l].attempt, store'[u][l].version)
    BY DEF StartOf
  <2>2. CASE StartItem(u, store'[u][l].attempt, store'[u][l].version) \in Queue'
    BY <2>1, <2>2
  <2>3. CASE /\ store[u][l] # None
             /\ store'[u][l].attempt = store[u][l].attempt
             /\ store'[u][l].version = store[u][l].version
    <3>1. Begun(dead, attempts, s) \/ StartOf(s) \in Queue
      BY <2>3 DEF BegunInv
    <3>2. s.attempt \in Attempts
      BY <1>1, <1>5 DEF Saves, Saved
    <3> HIDE DEF s
    <3>3. Begun(dead', attempts', s) \/ StartOf(s) \in Queue'
      BY <1>1, <1>4, <3>1, <3>2, BegunStays
    <3> QED BY <3>3 DEF s
  <2> QED BY <1>1, <1>5, <2>2, <2>3, SavesBegin
<1>6. ASSUME NEW j \in DOMAIN items, items[j].route # "level_start"
      PROVE  \/ Begun(dead', attempts', items[j])
             \/ \E i \in 1 .. j - 1 : items[i] = StartOf(items[j])
  <2>1. items[j].attempt \in Attempts
    BY <1>1, Keyed
  <2> QED BY <1>1, <1>6, <2>1, BegunStays DEF BegunInv
<1>7. ASSUME NEW j \in DOMAIN items', items'[j].route # "level_start"
      PROVE  \/ Begun(dead', attempts', items'[j])
             \/ \E i \in 1 .. j - 1 : items'[i] = StartOf(items'[j])
  <2>1. CASE Rests
    BY <1>6, <1>7, <2>1 DEF Rests
  <2>2. CASE Removes
    <3>1. From(j) \in DOMAIN items /\ items'[j] = items[From(j)]
      <4>1. j < p \/ j >= p
        BY <1>1, <1>2, <2>2
      <4> QED BY <1>1, <1>2, <2>2, <4>1, WithoutItems
    <3>2. ASSUME NEW i \in 1 .. From(j) - 1, items[i] = StartOf(items[From(j)])
          PROVE  \/ Begun(dead', attempts', items'[j])
                 \/ \E k \in 1 .. j - 1 : items'[k] = StartOf(items'[j])
      <4>1. CASE i = p
        <5>1. flight.item = StartOf(items'[j])
          BY <1>2, <2>2, <3>1, <3>2, <4>1
        <5> QED BY <1>1, <2>2, <5>1, StartEnds
      <4>2. CASE i < p
        <5>1. i \in 1 .. Len(items) - 1 /\ i \in 1 .. j - 1
          BY <1>1, <1>2, <1>7, <2>2, <4>2
        <5>2. items'[i] = items[i]
          BY <1>2, <2>2, <4>2, <5>1
        <5> QED BY <3>1, <3>2, <5>1, <5>2
      <4>3. CASE i > p
        <5>1. i - 1 \in 1 .. Len(items) - 1 /\ i - 1 >= p /\ i - 1 \in 1 .. j - 1
              /\ (i - 1) + 1 = i
          BY <1>1, <1>2, <1>7, <2>2, <4>3
        <5>2. items'[i - 1] = items[(i - 1) + 1]
          BY <1>1, <1>2, <2>2, <5>1, WithoutItems
        <5> QED BY <3>1, <3>2, <5>1, <5>2
      <4> QED BY <1>1, <1>2, <2>2, <4>1, <4>2, <4>3
    <3> HIDE DEF From, p
    <3> QED BY <1>6, <1>7, <3>1, <3>2
  <2>3. ASSUME NEW item \in ClientRequests, Adds(item)
        PROVE  \/ Begun(dead', attempts', items'[j])
               \/ \E i \in 1 .. j - 1 : items'[i] = StartOf(items'[j])
    <3>1. items' = Append(items, item) /\ DOMAIN items' = 1 .. Len(items) + 1
          /\ DOMAIN items = 1 .. Len(items)
          /\ items'[Len(items) + 1] = item
          /\ \A i \in DOMAIN items : items'[i] = items[i]
      BY <1>1, <2>3 DEF Adds
    <3>2. CASE j \in DOMAIN items
      <4>1. \A i \in 1 .. j - 1 : i \in DOMAIN items
        BY <1>1, <3>1, <3>2
      <4> QED BY <1>6, <1>7, <3>1, <3>2, <4>1
    <3>3. CASE j = Len(items) + 1
      <4> DEFINE mine == game.mine
                 level == LevelOf[game.mine.version]
                 s == [user |-> who, attempt |-> store[who][level].attempt,
                       version |-> store[who][level].version]
      <4>1. /\ game # None /\ mine \in Saved /\ level \in Levels
            /\ item.user = who /\ item.attempt = mine.attempt /\ item.version = mine.version
            /\ who \in Users /\ who # None
        <5>1. item.route # "level_start" /\ who \in Users /\ who # None
          BY <1>7, <2>3, <3>1, <3>3, NoneAssumption DEF Adds
        <5>2. game # None /\ mine \in Saved
              /\ \/ \E d \in Diffs, hinted \in BOOLEAN :
                        item = ProgressItem(who, Found(mine, d, hinted), d)
                 \/ item = CompleteItem(who, mine)
          BY <1>1, <2>3, <5>1
          DEF Adds, StartItem, Write, MayFind, Playing, DeviceInv, DeviceTypeOK, Game
        <5>3. \A d \in Diffs, hinted \in BOOLEAN :
                Found(mine, d, hinted).attempt = mine.attempt
                /\ Found(mine, d, hinted).version = mine.version
          BY <5>2 DEF Found, Saved
        <5>4. item.user = who /\ item.attempt = mine.attempt /\ item.version = mine.version
          BY <5>2, <5>3 DEF ProgressItem, CompleteItem, Write
        <5> QED BY <5>1, <5>2, <5>4, LevelType DEF Saved
      <4>2. store[who][level] # None /\ Same(store[who][level], mine)
        BY <1>1, <4>1 DEF SceneFits
      <4>3. Begun(dead, attempts, s) \/ StartOf(s) \in Queue
        BY <4>1, <4>2 DEF BegunInv
      <4>4. s.user = item.user /\ s.attempt = item.attempt /\ s.version = item.version
        BY <4>1, <4>2 DEF Same
      <4> HIDE DEF s
      <4>5. /\ StartOf(s) = StartOf(item)
            /\ Begun(dead, attempts, s) => Begun(dead, attempts, item)
        BY <4>4 DEF StartOf, Begun
      <4>6. CASE Begun(dead, attempts, item)
        <5>1. item.attempt \in Attempts
          BY Keyed
        <5> QED BY <1>1, <3>1, <3>3, <4>6, <5>1, BegunStays
      <4>7. CASE StartOf(item) \in Queue
        <5>1. PICK i \in DOMAIN items : items[i] = StartOf(item)
          BY <4>7 DEF Queue
        <5>2. i \in 1 .. j - 1
          BY <1>1, <3>1, <3>3
        <5> QED BY <3>1, <3>3, <5>1, <5>2
      <4> QED BY <4>3, <4>5, <4>6, <4>7
    <3> QED BY <1>1, <3>1, <3>2, <3>3
  <2> QED BY <1>1, <2>1, <2>2, <2>3, StepKinds
<1> QED BY <1>5, <1>7 DEF BegunInv

\* What a scene queues reports differences of its version; a puzzle has none.
LEMMA AddsBody ==
    ASSUME PuzzlesArePlain, DeviceInv, SceneFits, BodyInv, NEW item, Adds(item)
    PROVE  BodyFits(item)
<1>1. ASSUME NEW d \in Diffs, NEW hinted \in BOOLEAN, MayFind(d, hinted),
             item = ProgressItem(who, Found(game.mine, d, hinted), d)
      PROVE  BodyFits(item)
  <2>1. /\ game.mine \in Saved /\ d \in DiffsOf[game.mine.version]
    BY <1>1 DEF MayFind, Playing, DeviceInv, DeviceTypeOK, Game
  <2>2. item.route = "level_progress" /\ item.found = {d} /\ item.version = game.mine.version
    BY <1>1, <2>1 DEF ProgressItem, Write, Found, Saved
  <2> QED BY <2>1, <2>2 DEF BodyFits, PuzzlesArePlain
<1>2. CASE Playing("feedback") /\ item = CompleteItem(who, game.mine)
  <2>1. game.mine.found = DiffsOf[game.mine.version] /\ game.mine.version \notin PuzzleVersions
    BY <1>2 DEF Playing, SceneFits, BodyInv
  <2> QED BY <1>2, <2>1 DEF CompleteItem, Write, BodyFits
<1>3. ASSUME NEW a \in Attempts, NEW v \in Versions, item = StartItem(who, a, v)
      PROVE  BodyFits(item)
  BY <1>3 DEF StartItem, Write, BodyFits
<1> QED BY <1>1, <1>2, <1>3 DEF Adds

LEMMA BodyStep ==
    ASSUME PuzzlesArePlain, TablesOK, DeviceInv, FrontInv, SceneFits, BodyInv,
           [SyncNext]_syncVars
    PROVE  BodyInv'
<1>1. \A r \in Queue' : r \in Queue \/ BodyFits(r)
  <2>1. CASE Rests \/ Removes
    BY <2>1, QueueSteps
  <2>2. ASSUME NEW item, Adds(item) PROVE \A r \in Queue' : r \in Queue \/ BodyFits(r)
    BY <2>2, QueueSteps, AddsBody
  <2> QED BY <2>1, <2>2, StepKinds
<1>2. \A r \in Queue' : BodyFits(r)
  BY <1>1 DEF BodyInv
<1>3. ASSUME game' # None, game'.phase = "feedback"
      PROVE  game'.mine.version \notin PuzzleVersions
  <2>1. CASE KeepsSlots
    BY <1>3, <2>1 DEF KeepsSlots, Same, BodyInv, Playing
  <2>2. ASSUME NEW d \in Diffs, NEW hinted \in BOOLEAN, FindsOne(d, hinted)
        PROVE  game'.mine.version \notin PuzzleVersions
    <3>1. /\ game \in Game /\ game.mine \in Saved /\ d \in DiffsOf[game.mine.version]
      BY <2>2 DEF FindsOne, MayFind, Playing, DeviceInv, DeviceTypeOK, Game
    <3> DEFINE mine == Found(game.mine, d, hinted)
    <3>2. mine.version = game.mine.version
      BY <3>1 DEF Found, Saved
    <3> HIDE DEF mine
    <3>3. game'.mine = mine
      BY <1>3, <2>2, <3>1 DEF FindsOne, Game, mine
    <3> QED BY <3>1, <3>2, <3>3 DEF PuzzlesArePlain
  <2>3. ASSUME NEW v \in Versions, NEW a \in Attempts, Opens(v, a) PROVE FALSE
    BY <1>3, <2>3 DEF Opens
  <2> QED BY <2>1, <2>2, <2>3, StepWrites DEF Finishes
<1> QED BY <1>2, <1>3 DEF BodyInv, Playing

\* A write in flight is the first of the queue, as it was queued.
LEMMA FirstInFlight ==
    ASSUME OneUser, DeviceInv, FrontInv, Busy
    PROVE  /\ flight.pos = 1 /\ 1 \in DOMAIN items
           /\ items[1] = flight.item
           /\ flight.item \in ClientRequests
           /\ flight.sent = flight.item
<1>1. /\ flight \in Flight /\ flight.item \in ClientRequests /\ flight.sent \in ClientRequests
      /\ flight.pos \in DOMAIN items /\ items[flight.pos] = flight.item
      /\ items \in Seq(ClientRequests)
  BY FlightType DEF DeviceInv, DeviceTypeOK, ResolvesWhatItSent, Flight
<1>2. \A i \in DOMAIN items : items[i].user = flight.item.user
  BY <1>1, ItemFields DEF OneUser
<1>3. \A i \in 1 .. flight.pos - 1 : i \in DOMAIN items
  BY <1>1
<1>4. flight.pos = 1
  <2> SUFFICES ASSUME flight.pos # 1 PROVE FALSE
    OBVIOUS
  <2>1. 1 \in 1 .. flight.pos - 1
    BY <1>1
  <2> QED BY <1>2, <1>3, <2>1 DEF FrontInv
<1>5. flight.sent = flight.item
  <2>1. flight.sent = As(flight.sent.user, flight.item)
    BY DEF FrontInv
  <2>2. flight.sent.user = flight.item.user
    BY <1>1, ItemFields DEF OneUser
  <2>3. flight.item \in Request
    BY <1>1, ItemFields, ConstantsAssumption
  <2> QED BY <2>1, <2>2, <2>3 DEF As, Request
<1> QED BY <1>1, <1>4, <1>5

LEMMA LastStep ==
    ASSUME OneUser, WritesInv, WritesInv', LastInv, [SyncNext]_syncVars
    PROVE  LastInv'
<1>1. /\ TablesOK /\ DeviceInv /\ DeviceInv' /\ FrontInv /\ FrontInv' /\ SlotsInv
      /\ items \in Seq(ClientRequests) /\ items' \in Seq(ClientRequests)
  BY DEF WritesInv, DeviceInv, DeviceTypeOK
<1> SUFFICES ASSUME NEW j \in DOMAIN items', items'[j].route = "level_progress"
             PROVE  /\ \A c \in Copies' \cup dead' : ~Ends(c, items'[j].attempt)
                    /\ \A i \in 1 .. j - 1 : ~Ends(items'[i], items'[j].attempt)
  BY DEF LastInv
<1> DEFINE a == items'[j].attempt
<1>2. /\ \A c \in Copies \cup dead' : ~Ends(c, a)
      /\ \A i \in 1 .. j - 1 : ~Ends(items'[i], a)
  <2>1. CASE Rests
    BY <2>1 DEF Rests, LastInv
  <2>2. CASE Removes
    <3> DEFINE p == flight.pos
    <3>1. /\ p = 1 /\ 1 \in DOMAIN items /\ items[1] = flight.item
          /\ items' = Without(items, 1) /\ dead' \subseteq dead \cup {flight.item}
      BY <1>1, <2>2, FirstInFlight DEF Removes
    <3>2. /\ DOMAIN items' = 1 .. Len(items) - 1
          /\ \A i \in DOMAIN items' : i + 1 \in DOMAIN items /\ items'[i] = items[i + 1]
      <4>1. /\ DOMAIN Without(items, 1) = 1 .. Len(items) - 1
            /\ \A i \in 1 .. Len(items) - 1 :
                    i >= 1 => i + 1 \in DOMAIN items /\ Without(items, 1)[i] = items[i + 1]
        BY <1>1, <3>1, WithoutItems
      <4> QED BY <3>1, <4>1
    <3>3. /\ items'[j] = items[j + 1] /\ j + 1 \in DOMAIN items
          /\ 1 \in 1 .. (j + 1) - 1
          /\ \A i \in 1 .. j - 1 : i + 1 \in 1 .. (j + 1) - 1 /\ items'[i] = items[i + 1]
      BY <1>1, <3>2
    <3>4. /\ \A c \in Copies \cup dead : ~Ends(c, a)
          /\ \A i \in 1 .. (j + 1) - 1 : ~Ends(items[i], a)
      BY <3>3 DEF LastInv
    <3> HIDE DEF a
    <3> QED BY <3>1, <3>3, <3>4
  <2>3. ASSUME NEW item \in ClientRequests, Adds(item)
        PROVE  /\ \A c \in Copies \cup dead' : ~Ends(c, a)
               /\ \A i \in 1 .. j - 1 : ~Ends(items'[i], a)
    <3>1. /\ items' = Append(items, item) /\ DOMAIN items' = 1 .. Len(items) + 1
          /\ DOMAIN items = 1 .. Len(items)
          /\ items'[Len(items) + 1] = item
          /\ \A i \in DOMAIN items : items'[i] = items[i]
          /\ dead' = dead
      BY <1>1, <2>3 DEF Adds
    <3>2. \A i \in 1 .. j - 1 : i \in DOMAIN items
      BY <1>1, <3>1
    <3>3. CASE j \in DOMAIN items
      BY <3>1, <3>2, <3>3 DEF LastInv
    <3>4. CASE j = Len(items) + 1
      <4>1. item.route = "level_progress" /\ a = item.attempt
        BY <3>1, <3>4
      <4>2. PICK d \in Diffs, hinted \in BOOLEAN :
                MayFind(d, hinted) /\ item = ProgressItem(who, Found(game.mine, d, hinted), d)
        BY <2>3, <4>1 DEF Adds, StartItem, CompleteItem, Write
      <4>3. /\ game # None /\ game.mine \in Saved /\ d \notin game.mine.found
            /\ d \in DiffsOf[game.mine.version] /\ who \in Users /\ who # None
        BY <1>1, <2>3, <4>2, NoneAssumption
        DEF Adds, MayFind, Playing, DeviceInv, DeviceTypeOK, Game
      <4>4. a = game.mine.attempt
        BY <4>1, <4>2, <4>3 DEF ProgressItem, Write, Found, Saved
      <4>5. ~Spent(Written, "level_complete", game.mine.attempt, None)
        <5>1. LevelOf[game.mine.version] \in Levels
          BY <4>3, LevelType DEF Saved
        <5> QED BY <1>1, <4>3, <5>1 DEF SlotsInv, SceneFits, SlotsFit, SlotFits, Same
      <4>6. \A c \in Written : ~Ends(c, a)
        <5> SUFFICES ASSUME NEW c \in Written, Ends(c, a) PROVE FALSE
          OBVIOUS
        <5>1. c \in ClientRequests
          BY <1>1, WrittenType DEF WritesInv
        <5>2. c.key = <<a, None>> /\ c.route = "level_complete"
          BY <5>1, Keyed DEF Ends
        <5> QED BY <4>4, <4>5, <5>2 DEF Spent
      <4> HIDE DEF a
      <4> QED BY <3>1, <3>2, <4>6 DEF Written, Queue
    <3> QED BY <1>1, <3>1, <3>3, <3>4
  <2> QED BY <1>1, <2>1, <2>2, <2>3, StepKinds
<1>3. ASSUME NEW c \in Copies', Ends(c, a) PROVE FALSE
  <2>1. flight' # None /\ c = flight'.sent
    BY <1>1, <1>2, <1>3, CopiesStep
  <2> DEFINE p == flight'.pos
  <2>2. /\ p \in DOMAIN items' /\ items'[p] = flight'.item
        /\ flight'.item \in ClientRequests /\ flight'.sent \in ClientRequests
    BY <1>1, <2>1 DEF DeviceInv, DeviceTypeOK, ResolvesWhatItSent, Busy, Flight
  <2>3. /\ c = As(c.user, flight'.item) /\ c.user \in Users
        /\ \A i \in 1 .. p - 1 : items'[i].user # flight'.item.user
    BY <1>1, <2>1, <2>2, ItemFields DEF FrontInv, Busy
  <2> HIDE DEF p
  <2>4. Ends(items'[p], a)
    BY <1>3, <2>2, <2>3, AsKeeps DEF Ends
  <2>5. p # j
    BY <2>4 DEF Ends
  <2>6. ~(p < j)
    BY <1>1, <1>2, <2>2, <2>4
  <2>7. j \in 1 .. p - 1
    BY <1>1, <2>2, <2>5, <2>6
  <2>8. items'[j].user # flight'.item.user
    BY <2>3, <2>7
  <2>9. items'[j].user \in Users /\ flight'.item.user \in Users
    BY <1>1, <2>2, ItemFields
  <2> QED BY <2>8, <2>9 DEF OneUser
<1> QED BY <1>2, <1>3

\* The service accepts the first write of the queue if its attempt is begun.
LEMMA BegunIsAccepted ==
    ASSUME OneUser, WritesInv, CompletedIsProven, BestIsAttained, RowsInv, BodyInv, LastInv,
           1 \in DOMAIN items, items[1].route # "level_start",
           NEW h \in Handlers, tx[h] # None, tx[h].req = items[1],
           attempts[items[1].attempt] # None,
           attempts[items[1].attempt].version = items[1].version
    PROVE  ~Conflict(h) /\ ~Refuse(h)
<1> DEFINE r == items[1]
           row == attempts[r.attempt]
<1>1. /\ TablesOK /\ r \in ClientRequests /\ r \in Request /\ r \in Queue
      /\ r.attempt \in Attempts /\ r.route \in Routes /\ r.user \in Users
      /\ Id(r) \in IdemId
  <2>1. TablesOK /\ items \in Seq(ClientRequests)
    BY DEF WritesInv, DeviceInv, DeviceTypeOK
  <2>2. r \in ClientRequests
    BY <2>1
  <2>3. r \in Request /\ r.attempt \in Attempts /\ r.route \in Routes /\ r.user \in Users
    BY <2>2, ItemFields, Keyed, ConstantsAssumption
  <2>4. Id(r) \in IdemId
    BY <2>3 DEF Id, IdemId, Request
  <2> QED BY <2>1, <2>2, <2>3, <2>4 DEF Queue
<1>2. row \in Attempt /\ row.user = r.user
  <2>1. row \in Attempt
    BY <1>1, AttemptType
  <2> QED BY <1>1, <2>1 DEF Attempt, OneUser
<1>3. Owned(r)
  BY <1>2 DEF Owned
<1>4. OfLevel(r)
  <2>1. r.level = LevelOf[r.version]
    BY <1>1 DEF ClientRequests, StartItem, ProgressItem, CompleteItem, Write
  <2> QED BY <2>1 DEF OfLevel
<1>5. BodyFits(r)
  BY <1>1 DEF BodyInv
<1>6. ~Conflict(h)
  <2> SUFFICES ASSUME Conflict(h) PROVE FALSE
    OBVIOUS
  <2> DEFINE c == idem[Id(r)].req
  <2>1. idem[Id(r)] # None /\ ~SameBody(c, r)
    BY DEF Conflict
  <2>2. c \in Copies /\ Id(c) = Id(r)
    BY <1>1, <2>1 DEF Copies, WritesInv, QueueInv, RecordsFit
  <2>3. SameWrite(c, r)
    BY <2>2 DEF Id, SameWrite
  <2>4. c = As(c.user, r) /\ c.user = r.user
    BY <2>2, <2>3 DEF WritesInv, QueueInv, OrderInv, Id
  <2>5. c = r
    BY <1>1, <2>4 DEF As, Request
  <2> QED BY <2>1, <2>5 DEF SameBody
<1>7. ~Refuse(h)
  <2> SUFFICES ASSUME ~Fits(r) PROVE FALSE
    BY DEF Refuse
  <2>1. CASE r.route = "level_progress"
    <3>1. row.state # "completed"
      <4> SUFFICES ASSUME row.state = "completed" PROVE FALSE
        OBVIOUS
      <4>1. IsCompleted(r.attempt)
        BY DEF IsCompleted
      <4>2. PICK id \in IdemId : /\ idem[id] # None
                                 /\ idem[id].req.route = "level_complete"
                                 /\ idem[id].req.attempt = r.attempt
        BY <1>1, <4>1 DEF RowsInv
      <4>3. idem[id].req \in Copies
        BY <4>2 DEF Copies
      <4> QED BY <2>1, <4>2, <4>3 DEF LastInv, Ends
    <3>2. row.state = "in_progress"
      BY <1>2, <3>1 DEF Attempt
    <3>3. r.found \subseteq DiffsOf[row.version] /\ row.version \notin PuzzleVersions
      BY <1>5, <2>1 DEF BodyFits
    <3>4. ProgressFits(r)
      BY <1>3, <1>4, <3>2, <3>3 DEF ProgressFits
    <3> QED BY <2>1, <3>4 DEF Fits
  <2>2. CASE r.route = "level_complete"
    <3>1. CASE row.state = "completed"
      BY <1>3, <1>4, <2>2, <3>1 DEF Fits, AlreadyCompleted
    <3>2. CASE row.state # "completed"
      <4>1. row.state = "in_progress"
        BY <1>2, <3>2 DEF Attempt
      <4>2. r.found = DiffsOf[row.version] /\ row.version \notin PuzzleVersions
        BY <1>5, <2>2 DEF BodyFits
      <4>3. row.found \subseteq DiffsOf[row.version]
        BY <1>1 DEF CompletedIsProven
      <4>4. Proven(r)
        BY <4>2, <4>3 DEF Proven, Finds
      <4>5. BestKeyFree(r.user, row.version, r.attempt)
        <5> SUFFICES ASSUME NEW w \in Users, NEW x \in Versions, best[w][x] # None,
                            best[w][x].attempt = r.attempt
                     PROVE  FALSE
          BY DEF BestKeyFree
        <5>1. Keeps(w)
          BY SyncAssumption DEF Keeps
        <5>2. IsCompleted(r.attempt)
          BY <5>1 DEF BestIsAttained
        <5> QED BY <3>2, <5>2 DEF IsCompleted
      <4>6. CompleteFits(r)
        BY <1>3, <1>4, <4>1, <4>4, <4>5 DEF CompleteFits
      <4> QED BY <2>2, <4>6 DEF Fits
    <3> QED BY <3>1, <3>2
  <2> QED BY <1>1, <2>1, <2>2 DEF Routes
<1> QED BY <1>6, <1>7

LEMMA ReplyStep ==
    ASSUME OneUser, OutboxInv, CompletedIsProven, BestIsAttained, CauseInv,
           [SyncNext]_syncVars
    PROVE  ReplyInv'
<1>1. /\ TablesOK /\ DeviceInv /\ FrontInv /\ ByInv /\ WritesInv
      /\ RowsInv /\ BegunInv /\ BodyInv /\ LastInv /\ ReplyInv
  BY DEF OutboxInv, WritesInv, FlightKnown, CauseInv
<1>2. dead \subseteq dead'
  BY <1>1, DeadStays
<1>3. CASE flight' = flight \/ flight' = None
  BY <1>1, <1>2, <1>3 DEF ReplyInv, Busy
<1>4. CASE flight' # None /\ flight'.reply # "rejected"
  BY <1>4 DEF ReplyInv
<1>5. CASE Device
  BY <1>1, <1>3, <1>4, <1>5, DeviceFlight
<1>6. ASSUME NEW h \in Handlers, Arrive(h) PROVE ReplyInv'
  <2>1. flight \in Flight /\ flight' = [flight EXCEPT !.by = h] /\ flight.reply = "none"
    BY <1>1, <1>6, FlightType DEF Arrive, DeviceInv
  <2>2. flight'.reply = "none"
    BY <2>1 DEF Flight
  <2> QED BY <2>2 DEF ReplyInv
<1>7. ASSUME NEW h \in Handlers, NEW reply \in {"ok", "failed"}, Answer(h, reply)
      PROVE  ReplyInv'
  <2>1. CASE flight' = flight
    BY <1>3, <2>1
  <2>2. CASE flight' # flight
    <3>1. flight \in Flight /\ flight' = [flight EXCEPT !.reply = reply, !.by = None]
      BY <1>1, <1>7, <2>2, FlightType DEF Answer, DeviceInv
    <3>2. flight'.reply = reply
      BY <3>1 DEF Flight
    <3> QED BY <3>2 DEF ReplyInv
  <2> QED BY <2>1, <2>2
<1>8. ASSUME NEW h \in Handlers, Reject(h), flight' # flight, flight'.item.route # "level_start"
      PROVE  StartOf(flight'.item) \in dead'
  <2>1. /\ Busy /\ flight.by = h /\ flight \in Flight
        /\ flight' = [flight EXCEPT !.reply = "rejected", !.by = None]
    BY <1>1, <1>8, FlightType DEF Reject, Answer, DeviceInv
  <2>2. flight'.item = flight.item
    BY <2>1 DEF Flight
  <2>3. tx[h] # None /\ tx[h].req = flight.sent
    BY <1>1, <2>1, SyncAssumption DEF ByInv
  <2>4. 1 \in DOMAIN items /\ items[1] = flight.item /\ flight.sent = flight.item
    BY <1>1, <2>1, FirstInFlight
  <2>5. Begun(dead, attempts, items[1])
    <3>1. ~ \E i \in 1 .. 1 - 1 : items[i] = StartOf(items[1])
      OBVIOUS
    <3> QED BY <1>1, <1>8, <2>2, <2>4, <3>1 DEF BegunInv
  <2>6. ~(/\ attempts[items[1].attempt] # None
          /\ attempts[items[1].attempt].version = items[1].version)
    BY <1>1, <1>8, <2>2, <2>3, <2>4, BegunIsAccepted DEF Reject
  <2> QED BY <1>2, <2>2, <2>4, <2>5, <2>6 DEF Begun
<1>9. ASSUME NEW h \in Handlers, Handles(h) PROVE ReplyInv'
  <2>1. CASE Reject(h)
    BY <1>3, <1>8, <2>1 DEF ReplyInv
  <2>2. CASE Look(h)
    BY <1>3, <2>2 DEF Look, device
  <2>3. CASE Accept(h) \/ Fail(h)
    BY <1>7, <2>3 DEF Accept, Fail
  <2> QED BY <1>9, <2>1, <2>2, <2>3 DEF Handles
<1>10. CASE \/ (\E v \in Versions : Publish(v)) \/ UNCHANGED syncVars
            \/ \E h \in Handlers : ArriveLate(h)
  BY <1>3, <1>10 DEF Publish, ArriveLate, syncVars, device
<1> QED BY <1>5, <1>6, <1>9, <1>10, DeviceOrServer

\* What makes RefusedHasCause provable: the write in flight is the first of the
\* queue, and by then its attempt is begun with its version and not yet ended,
\* so the service accepts it; or else its start was refused.
LEMMA CauseStep ==
    ASSUME OneUser, PuzzlesArePlain, OutboxInv, OutboxInv', CompletedIsProven,
           BestIsAttained, CauseInv, [SyncNext]_syncVars
    PROVE  CauseInv'
<1>1. /\ TablesOK /\ DeviceInv /\ FrontInv /\ CopiesType /\ SlotsInv /\ SceneFits
      /\ WritesInv /\ WritesInv' /\ OkInv
      /\ RowsInv /\ BegunInv /\ BodyInv /\ LastInv /\ ReplyInv /\ RefusedHasCause
  BY DEF OutboxInv, WritesInv, SlotsInv, FlightKnown, CauseInv
<1>2. RowsInv'
  BY <1>1, RowsInvStep
<1>3. BegunInv'
  BY <1>1, BegunStep
<1>4. BodyInv'
  BY <1>1, BodyStep
<1>5. LastInv'
  BY <1>1, LastStep
<1>6. ReplyInv'
  BY ReplyStep
<1>7. \A item \in dead' : StartOf(item) \in dead'
  <2> SUFFICES ASSUME NEW item \in dead', item \notin dead PROVE StartOf(item) \in dead'
    BY <1>1, DeadStays DEF RefusedHasCause, StartOf
  <2>1. Removes /\ flight.reply = "rejected" /\ item = flight.item
    BY <1>1, StepKinds DEF Rests, Removes, Adds
  <2>2. CASE item.route # "level_start"
    BY <1>1, <2>1, <2>2, DeadStays DEF ReplyInv, Removes
  <2>3. CASE item.route = "level_start"
    <3>1. item \in ClientRequests
      BY <1>1, <2>1, FlightType DEF Removes, DeviceInv, Flight
    <3>2. PICK u \in Users, a \in Attempts, v \in Versions : item = StartItem(u, a, v)
      BY <2>3, <3>1 DEF ClientRequests, ProgressItem, CompleteItem, Write
    <3>3. StartOf(item) = item
      BY <3>2 DEF StartOf, StartItem, Write
    <3> QED BY <3>3
  <2> QED BY <2>2, <2>3
<1>8. RefusedHasCause'
  BY <1>7 DEF RefusedHasCause, StartOf
<1> QED BY <1>2, <1>3, <1>4, <1>5, <1>6, <1>8 DEF CauseInv

LEMMA CauseInit == SyncInit => CauseInv
<1> SUFFICES ASSUME SyncInit PROVE CauseInv
  OBVIOUS
<1>1. /\ game = None /\ DOMAIN items = {} /\ dead = {} /\ flight = None
      /\ \A u \in Users, l \in Levels : store[u][l] = None
      /\ \A a \in Attempts : attempts[a] = None
      /\ \A id \in IdemId : idem[id] = None
  BY DEF SyncInit, Init
<1>2. RowsInv /\ BegunInv /\ BodyInv /\ LastInv /\ ReplyInv /\ RefusedHasCause
  BY <1>1 DEF RowsInv, IsCompleted, BegunInv, BodyInv, Queue, Playing, LastInv, ReplyInv,
              Busy, RefusedHasCause
<1> QED BY <1>2 DEF CauseInv

\* For one player, the service refuses a progress or a complete only if it
\* refused the start of its attempt, whatever was retried, delayed, resumed
\* with a newer version or cut off by a crash.
THEOREM RefusalsHaveCause ==
    OneUser /\ PuzzlesArePlain => (SyncSpec => []RefusedHasCause)
<1> SUFFICES ASSUME OneUser, PuzzlesArePlain PROVE SyncSpec => []RefusedHasCause
  OBVIOUS
<1>1. OutboxInv /\ OutboxInv' /\ CompletedIsProven /\ BestIsAttained /\ CauseInv
      /\ [SyncNext]_syncVars => CauseInv'
  BY CauseStep
<1>2. CauseInv => RefusedHasCause
  BY DEF CauseInv
<1> QED
  BY <1>1, <1>2, CauseInit, OutboxAlways, ImplementsService, OnlyProvenComplete,
     BestAlwaysAttained, PTL DEF SyncSpec

=============================================================================
