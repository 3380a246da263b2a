------------------------ MODULE ContentWorker_proofs ------------------------
(***************************************************************************)
(* Proofs about ContentWorker: whatever workers take jobs from one another *)
(* and stop where they like, a job's results match its status, each        *)
(* attempt gives at most one of them, and a settled job stays as it is.    *)
(***************************************************************************)
EXTENDS ContentWorker, FiniteSetTheorems, TLAPS

\* What AttemptsCover needs of a job that has not been created.
NotYet ==
    \A j \in Jobs : jobs[j] = None => results[j] = 0 /\ Holders(j) = {}

Inv == TypeOK /\ ResultsMatchStatus /\ AttemptsCover /\ NotYet

\* A job's row is a record of its type.
LEMMA JobFields ==
    ASSUME TypeOK, NEW j \in Jobs, jobs[j] # None
    PROVE  /\ jobs[j] \in Job
           /\ jobs[j].status \in JobStatus
           /\ jobs[j].attempts \in 0 .. MaxAttempts
           /\ jobs[j].stale \in BOOLEAN
BY WorkerAssumption DEF TypeOK, Job

LEMMA HoldersFinite ==
    ASSUME NEW j
    PROVE  IsFiniteSet(Holders(j)) /\ Cardinality(Holders(j)) \in Nat
BY WorkerAssumption, FS_Subset, FS_CardinalityType DEF Holders

\* What one job's row may become while no worker's claim and no result changes.
LEMMA JobsMove ==
    ASSUME Inv, UNCHANGED <<results, holds>>,
           jobs' \in [Jobs -> Job \cup {None}],
           \A j \in Jobs : jobs[j] = None => jobs'[j] = None \/ jobs'[j].status = "pending",
           \A j \in Jobs : jobs[j] # None =>
                /\ jobs'[j] # None
                /\ jobs'[j].attempts >= jobs[j].attempts
                /\ Settled(j) => jobs'[j] = jobs[j]
                /\ ~Settled(j) => jobs'[j].status \notin Done
    PROVE  (ResultsMatchStatus /\ AttemptsCover /\ NotYet)'
<1> USE WorkerAssumption
<1>1. results \in [Jobs -> Nat]
  BY DEF Inv, TypeOK
<1>2. \A j \in Jobs : Settled(j)' <=> Settled(j)
  BY DEF Settled, Done
<1>3. ResultsMatchStatus'
  BY <1>2 DEF Inv, ResultsMatchStatus, Settled
<1>4. \A j \in Jobs : Holders(j)' = Holders(j)
  BY DEF Holders
<1>5. NotYet'
  BY <1>4 DEF Inv, NotYet
<1>6. AttemptsCover'
  <2> SUFFICES ASSUME NEW j \in Jobs, jobs'[j] # None
               PROVE  results[j] + Cardinality(Holders(j)) <= jobs'[j].attempts
    BY <1>4 DEF AttemptsCover
  <2>1. jobs'[j] \in Job
    OBVIOUS
  <2>2. jobs'[j].attempts \in Nat
    BY <2>1 DEF Job
  <2>3. Cardinality(Holders(j)) \in Nat
    BY HoldersFinite
  <2>4. CASE jobs[j] = None
    <3>1. results[j] = 0 /\ Holders(j) = {}
      BY <2>4 DEF Inv, NotYet
    <3>2. Cardinality(Holders(j)) = 0
      BY <3>1, FS_EmptySet
    <3>3. QED
      BY <3>1, <3>2, <2>2
  <2>5. CASE jobs[j] # None
    <3>1. results[j] + Cardinality(Holders(j)) <= jobs[j].attempts
      BY <2>5 DEF Inv, AttemptsCover
    <3>2. jobs[j].attempts \in Nat /\ jobs'[j].attempts >= jobs[j].attempts
      BY <2>5, JobFields DEF Inv
    <3>3. QED
      BY <3>1, <3>2, <2>2, <2>3, <1>1
  <2>6. QED
    BY <2>4, <2>5
<1>7. QED
  BY <1>3, <1>5, <1>6

LEMMA InitInv == Init => Inv
<1> SUFFICES ASSUME Init PROVE Inv
  OBVIOUS
<1> USE WorkerAssumption
<1>1. TypeOK
  BY DEF Init, TypeOK, Steps
<1>2. \A j \in Jobs : Holders(j) = {}
  BY DEF Init, Holders
<1>3. ResultsMatchStatus
  BY DEF Init, ResultsMatchStatus, Settled
<1>4. AttemptsCover /\ NotYet
  BY <1>2 DEF Init, AttemptsCover, NotYet
<1>5. QED
  BY <1>1, <1>3, <1>4 DEF Inv

-----------------------------------------------------------------------------
(* The types                                                               *)

LEMMA NextType ==
    ASSUME TypeOK, NotYet, [Next]_vars
    PROVE  TypeOK'
<1> USE WorkerAssumption
<1>1. ASSUME NEW j \in Jobs, Create(j)
      PROVE  TypeOK'
  <2> DEFINE new == [status |-> "pending", attempts |-> 0, stale |-> FALSE]
  <2>1. new \in Job
    BY DEF Job, JobStatus
  <2>2. jobs' = [jobs EXCEPT ![j] = new] /\ UNCHANGED <<results, step, holds, rows>>
    BY <1>1 DEF Create
  <2>3. new.status = "pending" /\ ~new.stale
    OBVIOUS
  <2> HIDE DEF new
  <2>4. QED
    BY <2>1, <2>2, <2>3 DEF TypeOK
<1>2. ASSUME NEW j \in Jobs, LockAges(j)
      PROVE  TypeOK'
  <2> DEFINE new == [jobs[j] EXCEPT !.stale = TRUE]
  <2>1. jobs[j] \in Job /\ jobs[j].status = "running"
    BY <1>2, JobFields DEF LockAges
  <2>2. new \in Job /\ new.status = "running"
    BY <2>1 DEF Job
  <2>3. jobs' = [jobs EXCEPT ![j] = new] /\ UNCHANGED <<results, step, holds, rows>>
    BY <1>2 DEF LockAges, TypeOK
  <2> HIDE DEF new
  <2>4. QED
    BY <2>2, <2>3 DEF TypeOK
<1>3. ASSUME NEW s \in Sessions, SignIn(s)
      PROVE  TypeOK'
  BY <1>3 DEF SignIn, TypeOK, Row
<1>4. ASSUME NEW s \in Sessions, NEW t \in Sessions, Rotate(s, t)
      PROVE  TypeOK'
  <2> DEFINE old == [rows[s] EXCEPT !.live = FALSE]
             new == [live |-> TRUE, old |-> FALSE, from |-> s]
  <2>1. rows[s] \in Row /\ s # t
    BY <1>4 DEF Rotate, TypeOK
  <2>2. old \in Row /\ new \in Row
    BY <2>1 DEF Row
  <2>3. rows' = [rows EXCEPT ![s] = old, ![t] = new] /\ UNCHANGED <<jobs, results, step, holds>>
    BY <1>4 DEF Rotate, TypeOK
  <2> HIDE DEF old, new
  <2>4. QED
    BY <2>2, <2>3 DEF TypeOK
<1>5. ASSUME NEW s \in Sessions, SessionAges(s)
      PROVE  TypeOK'
  <2> DEFINE old == [rows[s] EXCEPT !.old = TRUE, !.live = FALSE]
  <2>1. rows[s] \in Row
    BY <1>5 DEF SessionAges, TypeOK
  <2>2. old \in Row
    BY <2>1 DEF Row
  <2>3. rows' = [rows EXCEPT ![s] = old] /\ UNCHANGED <<jobs, results, step, holds>>
    BY <1>5 DEF SessionAges, TypeOK
  <2> HIDE DEF old
  <2>4. QED
    BY <2>2, <2>3 DEF TypeOK
<1>6. ASSUME NEW w \in Workers, PurgeSessions(w)
      PROVE  TypeOK'
  BY <1>6 DEF PurgeSessions, TypeOK, Goto, Steps
<1>7. ASSUME NEW w \in Workers, PurgeFails(w)
      PROVE  TypeOK'
  BY <1>7 DEF PurgeFails, TypeOK, Goto, Steps
<1>8. ASSUME NEW w \in Workers, RecoverJobs(w)
      PROVE  TypeOK'
  <2>1. \A j \in Jobs : Abandoned(j) =>
            /\ [jobs[j] EXCEPT !.status = "pending", !.stale = FALSE] \in Job
            /\ ~[jobs[j] EXCEPT !.status = "pending", !.stale = FALSE].stale
    BY JobFields DEF Abandoned, Job, JobStatus
  <2>2. jobs' \in [Jobs -> Job \cup {None}]
    BY <1>8, <2>1 DEF RecoverJobs, TypeOK
  <2>3. \A j \in Jobs : jobs'[j] # None => (jobs'[j].stale => jobs'[j].status = "running")
    BY <1>8, <2>1 DEF RecoverJobs, TypeOK
  <2>4. QED
    BY <1>8, <2>2, <2>3 DEF RecoverJobs, TypeOK, Goto, Steps
<1>9. ASSUME NEW w \in Workers, FailJobs(w)
      PROVE  TypeOK'
  <2>1. \A j \in Jobs : Exhausted(j) =>
            /\ [jobs[j] EXCEPT !.status = "failed", !.stale = FALSE] \in Job
            /\ ~[jobs[j] EXCEPT !.status = "failed", !.stale = FALSE].stale
    BY JobFields DEF Exhausted, Job, JobStatus
  <2>2. jobs' \in [Jobs -> Job \cup {None}]
    BY <1>9, <2>1 DEF FailJobs, TypeOK
  <2>3. \A j \in Jobs : jobs'[j] # None => (jobs'[j].stale => jobs'[j].status = "running")
    BY <1>9, <2>1 DEF FailJobs, TypeOK
  <2>4. QED
    BY <1>9, <2>2, <2>3 DEF FailJobs, TypeOK, Goto, Steps
<1>10. ASSUME NEW w \in Workers, HourPasses(w)
       PROVE  TypeOK'
  BY <1>10 DEF HourPasses, TypeOK, Goto, Steps
<1>11. ASSUME NEW w \in Workers, Claim(w)
       PROVE  TypeOK'
  <2>1. PICK j \in Jobs :
            /\ Claimable(j)
            /\ jobs' = [jobs EXCEPT
                    ![j] = [status |-> "running", attempts |-> jobs[j].attempts + 1,
                            stale |-> FALSE]]
            /\ holds' = [holds EXCEPT ![w] = j]
            /\ Goto(w, "check")
            /\ UNCHANGED <<results, rows>>
    BY <1>11 DEF Claim, TypeOK
  <2> DEFINE new == [status |-> "running", attempts |-> jobs[j].attempts + 1,
                     stale |-> FALSE]
  <2>2. jobs[j].attempts + 1 \in 0 .. MaxAttempts
    BY <2>1, JobFields DEF Claimable
  <2>3. new \in Job /\ ~new.stale
    BY <2>2 DEF Job, JobStatus
  <2>4. jobs' = [jobs EXCEPT ![j] = new]
    BY <2>1
  <2> HIDE DEF new
  <2>5. /\ holds' = [holds EXCEPT ![w] = j]
        /\ Goto(w, "check")
        /\ UNCHANGED <<results, rows>>
    BY <2>1
  <2>6. /\ jobs' \in [Jobs -> Job \cup {None}]
        /\ \A k \in Jobs :
            jobs'[k] # None => (jobs'[k].stale => jobs'[k].status = "running")
    BY <2>3, <2>4 DEF TypeOK
  <2>7. QED
    BY <2>5, <2>6 DEF TypeOK, Goto, Steps
<1>12. ASSUME NEW w \in Workers, Finish(w)
       PROVE  TypeOK'
  <2>1. PICK j \in Jobs : j = holds[w]
    BY <1>12 DEF Finish, TypeOK
  <2> DEFINE new == [jobs[j] EXCEPT !.status = Verdict(j), !.stale = FALSE]
  <2>2. jobs[j] # None
    BY <2>1 DEF NotYet, Holders
  <2>3. jobs[j] \in Job
    BY <2>2, JobFields
  <2>4. new \in Job /\ ~new.stale
    BY <2>3 DEF Job, JobStatus, Verdict
  <2>5. /\ jobs' = [jobs EXCEPT ![j] = new]
        /\ results' = [results EXCEPT ![j] = results[j] + 1]
        /\ holds' = [holds EXCEPT ![w] = None]
        /\ Goto(w, "poll")
        /\ UNCHANGED rows
    BY <1>12, <2>1 DEF Finish, TypeOK
  <2> HIDE DEF new
  <2>6. QED
    BY <2>4, <2>5 DEF TypeOK, Goto, Steps
<1>13. ASSUME NEW w \in Workers, Exit(w)
       PROVE  TypeOK'
  BY <1>13 DEF Exit, TypeOK, Goto, Steps
<1>14. ASSUME NEW w \in Workers, Restart(w)
       PROVE  TypeOK'
  BY <1>14 DEF Restart, TypeOK, Goto, Steps
<1>15. CASE UNCHANGED vars
  BY <1>15 DEF vars, TypeOK
<1>16. QED
  BY <1>1, <1>2, <1>3, <1>4, <1>5, <1>6, <1>7, <1>8, <1>9, <1>10, <1>11, <1>12,
     <1>13, <1>14, <1>15 DEF Next, Work

-----------------------------------------------------------------------------
(* The invariant                                                           *)

\* Jobs and claims as they are.
LEMMA NothingMoves ==
    ASSUME Inv, UNCHANGED <<jobs, results, holds>>
    PROVE  (ResultsMatchStatus /\ AttemptsCover /\ NotYet)'
BY DEF Inv, ResultsMatchStatus, AttemptsCover, NotYet, Holders, Settled

LEMMA CreateKeeps ==
    ASSUME Inv, TypeOK', NEW j \in Jobs, Create(j)
    PROVE  (ResultsMatchStatus /\ AttemptsCover /\ NotYet)'
<1> DEFINE new == [status |-> "pending", attempts |-> 0, stale |-> FALSE]
<1>1. jobs[j] = None /\ jobs' = [jobs EXCEPT ![j] = new] /\ UNCHANGED <<results, holds>>
  BY DEF Create
<1>2. new.status = "pending"
  OBVIOUS
<1> HIDE DEF new
<1>3. /\ jobs' \in [Jobs -> Job \cup {None}]
      /\ jobs'[j] = new
      /\ \A k \in Jobs : k # j => jobs'[k] = jobs[k]
  BY <1>1 DEF Inv, TypeOK
<1>4. \A k \in Jobs : jobs[k] # None =>
            jobs'[k] = jobs[k] /\ jobs[k].attempts \in Nat
  BY <1>1, <1>3, JobFields DEF Inv
<1>5. \A k \in Jobs : jobs[k] # None =>
            /\ jobs'[k] # None
            /\ jobs'[k].attempts >= jobs[k].attempts
            /\ Settled(k) => jobs'[k] = jobs[k]
            /\ ~Settled(k) => jobs'[k].status \notin Done
  BY <1>4 DEF Settled
<1>6. \A k \in Jobs : jobs[k] = None => jobs'[k] = None \/ jobs'[k].status = "pending"
  BY <1>2, <1>3
<1>7. QED
  BY <1>1, <1>3, <1>5, <1>6, JobsMove

LEMMA LockAgesKeeps ==
    ASSUME Inv, TypeOK', NEW j \in Jobs, LockAges(j)
    PROVE  (ResultsMatchStatus /\ AttemptsCover /\ NotYet)'
<1> USE WorkerAssumption
<1> DEFINE new == [jobs[j] EXCEPT !.stale = TRUE]
<1>1. jobs[j] # None /\ jobs[j].status = "running" /\ UNCHANGED <<results, holds>>
  BY DEF LockAges
<1>2. jobs[j] \in Job /\ jobs[j].attempts \in Nat
  BY <1>1, JobFields DEF Inv
<1>3. new \in Job /\ new.status = "running" /\ new.attempts = jobs[j].attempts
  BY <1>1, <1>2 DEF Job
<1>4. jobs' = [jobs EXCEPT ![j] = new]
  BY DEF LockAges, Inv, TypeOK
<1> HIDE DEF new
<1>5. /\ jobs' \in [Jobs -> Job \cup {None}]
      /\ jobs'[j] = new
      /\ \A k \in Jobs : k # j => jobs'[k] = jobs[k]
  BY <1>3, <1>4 DEF Inv, TypeOK
<1>6. \A k \in Jobs : jobs[k] # None =>
            /\ jobs'[k] # None
            /\ jobs'[k].attempts >= jobs[k].attempts
            /\ Settled(k) => jobs'[k] = jobs[k]
            /\ ~Settled(k) => jobs'[k].status \notin Done
  BY <1>1, <1>2, <1>3, <1>5, JobFields DEF Inv, Settled, Done
<1>7. \A k \in Jobs : jobs[k] = None => jobs'[k] = None
  BY <1>1, <1>5
<1>8. QED
  BY <1>1, <1>5, <1>6, <1>7, JobsMove

\* RecoverJobs and FailJobs: some pending or running jobs get another status.
LEMMA SweepKeeps ==
    ASSUME Inv, NEW S \in SUBSET Jobs,
           jobs' \in [Jobs -> Job \cup {None}],
           \A j \in S : /\ jobs[j] # None
                        /\ jobs[j].status \in {"pending", "running"}
                        /\ jobs'[j] # None
                        /\ jobs'[j].status \in {"pending", "failed"}
                        /\ jobs'[j].attempts = jobs[j].attempts,
           \A j \in Jobs \ S : jobs'[j] = jobs[j],
           UNCHANGED <<results, holds>>
    PROVE  (ResultsMatchStatus /\ AttemptsCover /\ NotYet)'
<1>1. ASSUME NEW j \in Jobs, jobs[j] # None
      PROVE  /\ jobs'[j] # None
             /\ jobs'[j].attempts >= jobs[j].attempts
             /\ Settled(j) => jobs'[j] = jobs[j]
             /\ ~Settled(j) => jobs'[j].status \notin Done
  <2>1. jobs[j].attempts \in Nat
    BY <1>1, JobFields, WorkerAssumption DEF Inv
  <2>2. CASE j \in S
    BY <2>1, <2>2 DEF Settled, Done
  <2>3. CASE j \notin S
    BY <1>1, <2>1, <2>3 DEF Settled
  <2>4. QED
    BY <2>2, <2>3
<1>2. \A j \in Jobs : jobs[j] = None => jobs'[j] = None
  OBVIOUS
<1>3. QED
  BY <1>1, <1>2, JobsMove

LEMMA RecoverKeeps ==
    ASSUME Inv, TypeOK', NEW w \in Workers, RecoverJobs(w)
    PROVE  (ResultsMatchStatus /\ AttemptsCover /\ NotYet)'
<1> DEFINE S == {j \in Jobs : Abandoned(j)}
<1>1. ASSUME NEW j \in S
      PROVE  /\ jobs[j] # None
             /\ jobs[j].status \in {"pending", "running"}
             /\ jobs'[j] # None
             /\ jobs'[j].status \in {"pending", "failed"}
             /\ jobs'[j].attempts = jobs[j].attempts
  <2>1. jobs[j] # None /\ jobs[j].status = "running" /\ j \in Jobs
    BY <1>1 DEF Abandoned
  <2>2. jobs[j] \in Job
    BY <2>1, JobFields DEF Inv
  <2>3. jobs'[j] = [jobs[j] EXCEPT !.status = "pending", !.stale = FALSE]
    BY <1>1 DEF RecoverJobs
  <2>4. /\ jobs'[j] \in Job
        /\ jobs'[j].status = "pending"
        /\ jobs'[j].attempts = jobs[j].attempts
    BY <2>2, <2>3 DEF Job, JobStatus
  <2>5. QED
    BY <2>1, <2>4, WorkerAssumption
<1>2. \A j \in Jobs \ S : jobs'[j] = jobs[j]
  BY DEF RecoverJobs
<1>3. jobs' \in [Jobs -> Job \cup {None}] /\ UNCHANGED <<results, holds>>
  BY DEF TypeOK, RecoverJobs
<1>4. S \in SUBSET Jobs
  OBVIOUS
<1> HIDE DEF S
<1>5. QED
  BY <1>1, <1>2, <1>3, <1>4, SweepKeeps

LEMMA FailKeeps ==
    ASSUME Inv, TypeOK', NEW w \in Workers, FailJobs(w)
    PROVE  (ResultsMatchStatus /\ AttemptsCover /\ NotYet)'
<1> DEFINE S == {j \in Jobs : Exhausted(j)}
<1>1. ASSUME NEW j \in S
      PROVE  /\ jobs[j] # None
             /\ jobs[j].status \in {"pending", "running"}
             /\ jobs'[j] # None
             /\ jobs'[j].status \in {"pending", "failed"}
             /\ jobs'[j].attempts = jobs[j].attempts
  <2>1. jobs[j] # None /\ jobs[j].status \in {"pending", "running"} /\ j \in Jobs
    BY <1>1 DEF Exhausted
  <2>2. jobs[j] \in Job
    BY <2>1, JobFields DEF Inv
  <2>3. jobs'[j] = [jobs[j] EXCEPT !.status = "failed", !.stale = FALSE]
    BY <1>1 DEF FailJobs
  <2>4. /\ jobs'[j] \in Job
        /\ jobs'[j].status = "failed"
        /\ jobs'[j].attempts = jobs[j].attempts
    BY <2>2, <2>3 DEF Job, JobStatus
  <2>5. QED
    BY <2>1, <2>4, WorkerAssumption
<1>2. \A j \in Jobs \ S : jobs'[j] = jobs[j]
  BY DEF FailJobs
<1>3. jobs' \in [Jobs -> Job \cup {None}] /\ UNCHANGED <<results, holds>>
  BY DEF TypeOK, FailJobs
<1>4. S \in SUBSET Jobs
  OBVIOUS
<1> HIDE DEF S
<1>5. QED
  BY <1>1, <1>2, <1>3, <1>4, SweepKeeps

\* The claim: one more attempt, and one more worker that holds the job.
LEMMA ClaimKeeps ==
    ASSUME Inv, TypeOK', NEW w \in Workers, Claim(w)
    PROVE  (ResultsMatchStatus /\ AttemptsCover /\ NotYet)'
<1> USE WorkerAssumption
<1>1. PICK j \in Jobs :
          /\ step[w] = "poll"
          /\ Claimable(j)
          /\ jobs' = [jobs EXCEPT
                  ![j] = [status |-> "running", attempts |-> jobs[j].attempts + 1,
                          stale |-> FALSE]]
          /\ holds' = [holds EXCEPT ![w] = j]
          /\ UNCHANGED <<results, rows>>
  BY DEF Claim, Inv, TypeOK
<1> DEFINE new == [status |-> "running", attempts |-> jobs[j].attempts + 1,
                   stale |-> FALSE]
<1>2. /\ holds[w] = None
      /\ jobs[j] # None
      /\ jobs[j].status = "pending"
      /\ holds' = [holds EXCEPT ![w] = j]
      /\ results' = results
  BY <1>1 DEF Inv, TypeOK, Claimable
<1>3. new.status = "running" /\ new.attempts = jobs[j].attempts + 1
  OBVIOUS
<1>4. jobs' = [jobs EXCEPT ![j] = new]
  BY <1>1
<1> HIDE DEF new
<1>5. /\ jobs'[j] = new
      /\ \A k \in Jobs : k # j => jobs'[k] = jobs[k]
  BY <1>4 DEF Inv, TypeOK
<1>6. jobs'[j] # None
  <2>1. new \in Job \/ new = None
    BY <1>5 DEF TypeOK
  <2>2. jobs[j].attempts \in Nat
    BY <1>2, JobFields DEF Inv
  <2>3. new \in Job
    BY <1>2, JobFields, <1>1 DEF new, Inv, Job, JobStatus, Claimable
  <2>4. QED
    BY <2>3, <1>5
<1>7. Holders(j)' = Holders(j) \cup {w}
  BY <1>2 DEF Holders, Inv, TypeOK
<1>8. \A k \in Jobs : k # j => Holders(k)' = Holders(k)
  BY <1>2 DEF Holders, Inv, TypeOK
<1>9. w \notin Holders(j)
  BY <1>2 DEF Holders
<1>10. Cardinality(Holders(j)') = Cardinality(Holders(j)) + 1
  BY <1>7, <1>9, HoldersFinite, FS_AddElement
<1>11. ResultsMatchStatus'
  BY <1>2, <1>3, <1>5 DEF Inv, ResultsMatchStatus, Settled, Done
<1>12. NotYet'
  BY <1>2, <1>5, <1>6, <1>8 DEF Inv, NotYet
<1>13. AttemptsCover'
  <2> SUFFICES ASSUME NEW k \in Jobs, jobs'[k] # None
               PROVE  results[k] + Cardinality(Holders(k)') <= jobs'[k].attempts
    BY <1>2 DEF AttemptsCover
  <2>1. CASE k = j
    <3>1. results[j] + Cardinality(Holders(j)) <= jobs[j].attempts
      BY <1>2 DEF Inv, AttemptsCover
    <3>2. /\ jobs[j].attempts \in Nat
          /\ results[j] \in Nat
          /\ Cardinality(Holders(j)) \in Nat
      BY <1>2, JobFields, HoldersFinite DEF Inv, TypeOK
    <3>3. jobs'[j].attempts = jobs[j].attempts + 1
      BY <1>3, <1>5
    <3>4. QED
      BY <2>1, <3>1, <3>2, <3>3, <1>10
  <2>2. CASE k # j
    BY <2>2, <1>5, <1>8 DEF Inv, AttemptsCover
  <2>3. QED
    BY <2>1, <2>2
<1>14. QED
  BY <1>11, <1>12, <1>13

\* The end of a check: one more result, and one worker less that holds the job.
LEMMA FinishKeeps ==
    ASSUME Inv, TypeOK', NEW w \in Workers, Finish(w)
    PROVE  (ResultsMatchStatus /\ AttemptsCover /\ NotYet)'
<1> USE WorkerAssumption
<1>1. PICK j \in Jobs : j = holds[w]
  BY DEF Finish, Inv, TypeOK
<1> DEFINE new == [jobs[j] EXCEPT !.status = Verdict(j), !.stale = FALSE]
<1>2. jobs[j] # None
  BY <1>1 DEF Inv, NotYet, Holders
<1>3. jobs[j] \in Job /\ jobs[j].attempts \in Nat
  BY <1>2, JobFields DEF Inv
<1>4. new \in Job /\ new.status = Verdict(j) /\ new.attempts = jobs[j].attempts
  BY <1>3 DEF Job, JobStatus, Verdict
<1>5. /\ jobs' = [jobs EXCEPT ![j] = new]
      /\ results' = [results EXCEPT ![j] = results[j] + 1]
      /\ holds' = [holds EXCEPT ![w] = None]
  BY <1>1 DEF Finish, Inv, TypeOK
<1> HIDE DEF new
<1>6. /\ jobs'[j] = new
      /\ results'[j] = results[j] + 1
      /\ results[j] \in Nat
      /\ \A k \in Jobs : k # j => jobs'[k] = jobs[k] /\ results'[k] = results[k]
  BY <1>5 DEF Inv, TypeOK
<1>7. new # None
  BY <1>4
<1>8. Holders(j)' = Holders(j) \ {w} /\ w \in Holders(j)
  BY <1>1, <1>5 DEF Holders, Inv, TypeOK
<1>9. \A k \in Jobs : k # j => Holders(k)' = Holders(k)
  BY <1>1, <1>5 DEF Holders, Inv, TypeOK
<1>10. Cardinality(Holders(j)') = Cardinality(Holders(j)) - 1
  BY <1>8, HoldersFinite, FS_RemoveElement
<1>11. ResultsMatchStatus'
  BY <1>4, <1>6, <1>7 DEF Inv, ResultsMatchStatus, Settled, Done, Verdict
<1>12. NotYet'
  BY <1>6, <1>7, <1>9 DEF Inv, NotYet
<1>13. AttemptsCover'
  <2> SUFFICES ASSUME NEW k \in Jobs, jobs'[k] # None
               PROVE  results'[k] + Cardinality(Holders(k)') <= jobs'[k].attempts
    BY DEF AttemptsCover
  <2>1. CASE k = j
    <3>1. results[j] + Cardinality(Holders(j)) <= jobs[j].attempts
      BY <1>2 DEF Inv, AttemptsCover
    <3>2. Cardinality(Holders(j)) \in Nat
      BY HoldersFinite
    <3>3. jobs'[j].attempts = jobs[j].attempts
      BY <1>4, <1>6
    <3>4. QED
      BY <2>1, <3>1, <3>2, <3>3, <1>3, <1>6, <1>10
  <2>2. CASE k # j
    BY <2>2, <1>6, <1>9 DEF Inv, AttemptsCover
  <2>3. QED
    BY <2>1, <2>2
<1>14. QED
  BY <1>11, <1>12, <1>13

\* A worker that stops lets go of its job.
LEMMA ExitKeeps ==
    ASSUME Inv, TypeOK', NEW w \in Workers, Exit(w)
    PROVE  (ResultsMatchStatus /\ AttemptsCover /\ NotYet)'
<1> USE WorkerAssumption
<1>1. UNCHANGED <<jobs, results>> /\ holds' = [holds EXCEPT ![w] = None]
  BY DEF Exit
<1>2. \A j \in Jobs : Holders(j)' \subseteq Holders(j)
  BY <1>1 DEF Holders, Inv, TypeOK
<1>3. \A j \in Jobs : Cardinality(Holders(j)') <= Cardinality(Holders(j))
                        /\ Cardinality(Holders(j)') \in Nat
  BY <1>2, HoldersFinite, FS_Subset, FS_CardinalityType
<1>4. AttemptsCover'
  <2> SUFFICES ASSUME NEW j \in Jobs, jobs[j] # None
               PROVE  results[j] + Cardinality(Holders(j)') <= jobs[j].attempts
    BY <1>1 DEF AttemptsCover
  <2>1. results[j] + Cardinality(Holders(j)) <= jobs[j].attempts
    BY DEF Inv, AttemptsCover
  <2>2. jobs[j].attempts \in Nat
    BY JobFields DEF Inv
  <2>3. results[j] \in Nat /\ Cardinality(Holders(j)) \in Nat
    BY HoldersFinite DEF Inv, TypeOK
  <2>4. /\ Cardinality(Holders(j)') <= Cardinality(Holders(j))
        /\ Cardinality(Holders(j)') \in Nat
    BY <1>3, Zenon
  <2> HIDE WorkerAssumption
  <2>5. QED
    BY <2>1, <2>2, <2>3, <2>4
<1>5. ResultsMatchStatus' /\ NotYet'
  BY <1>1, <1>2 DEF Inv, ResultsMatchStatus, NotYet, Settled
<1>6. QED
  BY <1>4, <1>5

LEMMA NextKeeps == Inv /\ [Next]_vars => Inv'
<1> SUFFICES ASSUME Inv, [Next]_vars PROVE Inv'
  OBVIOUS
<1>1. TypeOK'
  BY NextType DEF Inv
<1>2. ASSUME NEW j \in Jobs, Create(j)
      PROVE  Inv'
  BY <1>1, <1>2, CreateKeeps DEF Inv
<1>3. ASSUME NEW j \in Jobs, LockAges(j)
      PROVE  Inv'
  BY <1>1, <1>3, LockAgesKeeps DEF Inv
<1>4. ASSUME NEW w \in Workers, Work(w)
      PROVE  Inv'
  <2>1. CASE RecoverJobs(w)
    BY <1>1, <2>1, RecoverKeeps DEF Inv
  <2>2. CASE FailJobs(w)
    BY <1>1, <2>2, FailKeeps DEF Inv
  <2>3. CASE Claim(w)
    BY <1>1, <2>3, ClaimKeeps DEF Inv
  <2>4. CASE Finish(w)
    BY <1>1, <2>4, FinishKeeps DEF Inv
  <2>5. CASE Exit(w)
    BY <1>1, <2>5, ExitKeeps DEF Inv
  <2>6. CASE PurgeSessions(w) \/ PurgeFails(w) \/ HourPasses(w) \/ Restart(w)
    <3>1. UNCHANGED <<jobs, results, holds>>
      BY <2>6 DEF PurgeSessions, PurgeFails, HourPasses, Restart
    <3>2. QED
      BY <1>1, <3>1, NothingMoves DEF Inv
  <2>7. QED
    BY <1>4, <2>1, <2>2, <2>3, <2>4, <2>5, <2>6 DEF Work
<1>5. ASSUME UNCHANGED <<jobs, results, holds>>
      PROVE  Inv'
  BY <1>1, <1>5, NothingMoves DEF Inv
<1>6. QED
  BY <1>2, <1>3, <1>4, <1>5 DEF Next, vars, SignIn, SessionAges, Rotate

\* Every reachable state satisfies the invariant.
THEOREM Invariant == Spec => []Inv
BY InitInv, NextKeeps, PTL DEF Spec

\* The tables hold rows of their schema, whatever the workers do.
THEOREM WorkerTypeCorrect == Spec => []TypeOK
<1>1. Inv => TypeOK
  BY DEF Inv
<1>2. QED
  BY <1>1, Invariant, PTL

\* Exactly the settled jobs have quality results, at most one per attempt
\* (ProcessOne and Maintain, service.go:113-172).
THEOREM ResultsCorrect == Spec => []ResultsAreCounted
<1>1. Inv => ResultsAreCounted
  BY DEF Inv, ResultsAreCounted
<1>2. QED
  BY <1>1, Invariant, PTL

\* A settled job is never reopened, failed or decided otherwise, though a
\* worker that lost its job finishes it all the same (service.go:168).
THEOREM SettledStays == Spec => SettledIsFinal
<1>1. ASSUME Inv, [Next]_vars
      PROVE  [\A j \in Jobs : Settled(j) => jobs'[j] = jobs[j]]_vars
  <2> SUFFICES ASSUME Next, NEW j \in Jobs, Settled(j)
               PROVE  jobs'[j] = jobs[j]
    BY <1>1
  <2> USE WorkerAssumption
  <2>1. /\ jobs[j] # None
        /\ jobs[j] \in Job
        /\ jobs[j].status \in Done
        /\ jobs[j].status = Verdict(j)
        /\ ~jobs[j].stale
    BY <1>1, JobFields DEF Inv, TypeOK, ResultsMatchStatus, Settled, Done
  <2>2. CASE \E k \in Jobs : Create(k) \/ LockAges(k)
    BY <1>1, <2>1, <2>2 DEF Create, LockAges, Inv, TypeOK, Done
  <2>3. CASE \E w \in Workers : RecoverJobs(w) \/ FailJobs(w)
    <3>1. ~Abandoned(j) /\ ~Exhausted(j)
      BY <2>1 DEF Abandoned, Exhausted, Done
    <3>2. QED
      BY <2>3, <3>1 DEF RecoverJobs, FailJobs
  <2>4. ASSUME NEW w \in Workers, Claim(w)
        PROVE  jobs'[j] = jobs[j]
    <3>1. PICK k \in Jobs :
             /\ Claimable(k)
             /\ \A i \in Jobs : i # k => jobs'[i] = jobs[i]
      BY <1>1, <2>4 DEF Claim, Inv, TypeOK
    <3>2. k # j
      BY <2>1, <3>1 DEF Claimable, Done
    <3>3. QED
      BY <1>1, <3>1, <3>2 DEF Inv, TypeOK
  <2>5. ASSUME NEW w \in Workers, Finish(w)
        PROVE  jobs'[j] = jobs[j]
    <3>1. CASE holds[w] = j
      <4>1. jobs'[j] = [jobs[j] EXCEPT !.status = Verdict(j), !.stale = FALSE]
        BY <1>1, <2>5, <3>1 DEF Finish, Inv, TypeOK
      <4>2. QED
        BY <2>1, <4>1 DEF Job
    <3>2. CASE holds[w] # j
      BY <1>1, <2>5, <3>2 DEF Finish, Inv, TypeOK
    <3>3. QED
      BY <3>1, <3>2
  <2>6. CASE jobs' = jobs
    BY <2>6
  <2>7. QED
    BY <2>2, <2>3, <2>4, <2>5, <2>6 DEF Next, Work, SignIn, SessionAges, Rotate,
       PurgeSessions, PurgeFails, HourPasses, Exit, Restart
<1>2. QED
  BY <1>1, Invariant, PTL DEF Spec, SettledIsFinal
=============================================================================
