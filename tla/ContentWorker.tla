--------------------------- MODULE ContentWorker ---------------------------
(***************************************************************************)
(* The content worker (server/internal/generation/service.go and           *)
(* cmd/worker): processes that claim generation jobs, check them and write *)
(* the result, and that every hour maintain the tables.                    *)
(*                                                                         *)
(* Each statement or transaction of a worker is an action: workers run     *)
(* side by side and any of them may stop between two.  Any error ends the  *)
(* process, and systemd starts it again, when maintenance is due at once.  *)
(*                                                                         *)
(* The first statement of the maintenance deletes old rows of              *)
(* user_sessions, so that table is here as well, as far as that statement  *)
(* and its foreign key (migration 002) see it.  The two statements on      *)
(* idempotency_records and analytics_events touch nothing modelled here.   *)
(***************************************************************************)
EXTENDS Integers, FiniteSets

CONSTANTS
    Jobs,         \* job ids, numbered in the order they are created
    Passing,      \* the jobs whose input passes the quality check
    MaxAttempts,  \* generation_jobs.max_attempts
    Workers,
    Steady,       \* the workers that keep being restarted and make progress
    Sessions,
    None

JobStatus == {"pending", "running", "completed", "quality_failed", "failed"}
Done == {"completed", "quality_failed"}
Job == [status : JobStatus, attempts : 0 .. MaxAttempts, stale : BOOLEAN]
Row == [live : BOOLEAN, old : BOOLEAN, from : Sessions \cup {None}]

ASSUME WorkerAssumption ==
    /\ Jobs \subseteq Nat
    /\ Passing \subseteq Jobs
    /\ IsFiniteSet(Workers)
    /\ Steady \subseteq Workers
    /\ MaxAttempts \in Nat \ {0}
    /\ None \notin Job
    /\ None \notin Row
    /\ None \notin Jobs
    /\ None \notin Sessions

VARIABLES
    jobs,      \* generation_jobs; stale: locked more than 15 minutes ago
    results,   \* quality_results: how many rows a job has
    step,      \* what a worker does next
    holds,     \* the job a worker has claimed, or None
    rows       \* user_sessions; old: past the 7 days they are kept

vars == <<jobs, results, step, holds, rows>>

Steps == {"down", "sessions", "recover", "abandon", "poll", "check"}

Init ==
    /\ jobs = [j \in Jobs |-> None]
    /\ results = [j \in Jobs |-> 0]
    /\ step = [w \in Workers |-> "down"]
    /\ holds = [w \in Workers |-> None]
    /\ rows = [s \in Sessions |-> None]

Goto(w, next) == step' = [step EXCEPT ![w] = next]

-----------------------------------------------------------------------------
(* The rest of the system and time.                                        *)

\* createGenerationJob: the ids are those of the console.
Create(j) ==
    /\ jobs[j] = None
    /\ \A k \in Jobs : k < j => jobs[k] # None
    /\ jobs' = [jobs EXCEPT ![j] =
                    [status |-> "pending", attempts |-> 0, stale |-> FALSE]]
    /\ UNCHANGED <<results, step, holds, rows>>

\* 15 minutes pass since the job was claimed.
LockAges(j) ==
    /\ jobs[j] # None
    /\ jobs[j].status = "running"
    /\ ~jobs[j].stale
    /\ jobs' = [jobs EXCEPT ![j].stale = TRUE]
    /\ UNCHANGED <<results, step, holds, rows>>

SignIn(s) ==
    /\ rows[s] = None
    /\ rows' = [rows EXCEPT ![s] = [live |-> TRUE, old |-> FALSE, from |-> None]]
    /\ UNCHANGED <<jobs, results, step, holds>>

\* Refresh: the session is revoked, and its successor refers to it.
Rotate(s, t) ==
    /\ rows[s] # None
    /\ rows[s].live
    /\ rows[t] = None
    /\ rows' = [rows EXCEPT ![s].live = FALSE,
                    ![t] = [live |-> TRUE, old |-> FALSE, from |-> s]]
    /\ UNCHANGED <<jobs, results, step, holds>>

\* Seven days after it was revoked, or after its refresh token expired.
SessionAges(s) ==
    /\ rows[s] # None
    /\ ~rows[s].old
    /\ rows' = [rows EXCEPT ![s].old = TRUE, ![s].live = FALSE]
    /\ UNCHANGED <<jobs, results, step, holds>>

-----------------------------------------------------------------------------
(* Maintain                                                                *)

OldRows == {s \in Sessions : IF rows[s] = None THEN FALSE ELSE rows[s].old}

Children(s) ==
    {t \in Sessions : IF rows[t] = None THEN FALSE ELSE rows[t].from = s}

\* An old row that a newer one refers to.
PurgeBlocked == \E s \in OldRows : ~(Children(s) \subseteq OldRows)

\* A row that another one refers to cannot be deleted; of two old rows the one
\* that refers to the other may, or may not, be deleted first.
PurgeSessions(w) ==
    /\ step[w] = "sessions"
    /\ ~PurgeBlocked
    /\ rows' = [s \in Sessions |-> IF s \in OldRows THEN None ELSE rows[s]]
    /\ Goto(w, "recover")
    /\ UNCHANGED <<jobs, results, holds>>

PurgeFails(w) ==
    /\ step[w] = "sessions"
    /\ \E s \in OldRows : Children(s) # {}
    /\ Goto(w, "down")
    /\ UNCHANGED <<jobs, results, holds, rows>>

Abandoned(j) ==
    /\ jobs[j] # None
    /\ jobs[j].status = "running"
    /\ jobs[j].stale
    /\ jobs[j].attempts < MaxAttempts

RecoverJobs(w) ==
    /\ step[w] = "recover"
    /\ jobs' = [j \in Jobs |->
            IF Abandoned(j)
            THEN [jobs[j] EXCEPT !.status = "pending", !.stale = FALSE]
            ELSE jobs[j]]
    /\ Goto(w, "abandon")
    /\ UNCHANGED <<results, holds, rows>>

\* Mutant: whatever the status.
Spent(j) == jobs[j] # None /\ jobs[j].attempts >= MaxAttempts

\* Mutant: only of the jobs that wait.
SpentWaiting(j) ==
    /\ jobs[j] # None
    /\ jobs[j].status = "pending"
    /\ jobs[j].attempts >= MaxAttempts

\* Running jobs are included, however recently they were claimed.
Exhausted(j) ==
    /\ jobs[j] # None
    /\ jobs[j].status \in {"pending", "running"}
    /\ jobs[j].attempts >= MaxAttempts

FailJobs(w) ==
    /\ step[w] = "abandon"
    /\ jobs' = [j \in Jobs |->
            IF Exhausted(j)
            THEN [jobs[j] EXCEPT !.status = "failed", !.stale = FALSE]
            ELSE jobs[j]]
    /\ Goto(w, "poll")
    /\ UNCHANGED <<results, holds, rows>>

-----------------------------------------------------------------------------
(* Run and ProcessOne                                                      *)

\* An hour has passed: the loop maintains before it polls again.
HourPasses(w) ==
    /\ step[w] = "poll"
    /\ Goto(w, "sessions")
    /\ UNCHANGED <<jobs, results, holds, rows>>

Claimable(j) ==
    /\ jobs[j] # None
    /\ jobs[j].status = "pending"
    /\ jobs[j].attempts < MaxAttempts

\* The oldest one, but for those that other workers are locking just now.
NextInLine(w, j) ==
    Cardinality({k \in Jobs : k < j /\ Claimable(k)})
        <= Cardinality({x \in Workers \ {w} : step[x] = "poll"})

\* Mutant: the attempt is not counted.
ClaimUncounted(w) ==
    \E j \in Jobs :
        /\ step[w] = "poll"
        /\ Claimable(j)
        /\ NextInLine(w, j)
        /\ jobs' = [jobs EXCEPT ![j].status = "running"]
        /\ holds' = [holds EXCEPT ![w] = j]
        /\ Goto(w, "check")
        /\ UNCHANGED <<results, rows>>

Claim(w) ==
    \E j \in Jobs :
        /\ step[w] = "poll"
        /\ Claimable(j)
        /\ NextInLine(w, j)
        /\ jobs' = [jobs EXCEPT
                ![j] = [status |-> "running", attempts |-> @.attempts + 1,
                        stale |-> FALSE]]
        /\ holds' = [holds EXCEPT ![w] = j]
        /\ Goto(w, "check")
        /\ UNCHANGED <<results, rows>>

Verdict(j) == IF j \in Passing THEN "completed" ELSE "quality_failed"

\* Mutant: locked_at is left as it is.
FinishLocked(w) ==
    /\ step[w] = "check"
    /\ results' = [results EXCEPT ![holds[w]] = @ + 1]
    /\ jobs' = [jobs EXCEPT ![holds[w]].status = Verdict(holds[w])]
    /\ holds' = [holds EXCEPT ![w] = None]
    /\ Goto(w, "poll")
    /\ UNCHANGED rows

\* The result is inserted and the job updated by its id alone: the worker does
\* not look whether the job is still its own.
Finish(w) ==
    /\ step[w] = "check"
    /\ results' = [results EXCEPT ![holds[w]] = @ + 1]
    /\ jobs' = [jobs EXCEPT ![holds[w]] =
                    [@ EXCEPT !.status = Verdict(holds[w]), !.stale = FALSE]]
    /\ holds' = [holds EXCEPT ![w] = None]
    /\ Goto(w, "poll")
    /\ UNCHANGED rows

\* A failed statement, a lost connection, SIGTERM or a crash, anywhere.
Exit(w) ==
    /\ step[w] # "down"
    /\ holds' = [holds EXCEPT ![w] = None]
    /\ Goto(w, "down")
    /\ UNCHANGED <<jobs, results, rows>>

\* systemd, Restart=on-failure; lastMaintenance is zero.
Restart(w) ==
    /\ step[w] = "down"
    /\ Goto(w, "sessions")
    /\ UNCHANGED <<jobs, results, holds, rows>>

-----------------------------------------------------------------------------

Work(w) ==
    \/ PurgeSessions(w)
    \/ PurgeFails(w)
    \/ RecoverJobs(w)
    \/ FailJobs(w)
    \/ HourPasses(w)
    \/ Claim(w)
    \/ Finish(w)
    \/ Exit(w)
    \/ Restart(w)

Next ==
    \/ \E w \in Workers : Work(w)
    \/ \E j \in Jobs : Create(j) \/ LockAges(j)
    \/ \E s \in Sessions : SignIn(s) \/ SessionAges(s)
    \/ \E s, t \in Sessions : Rotate(s, t)

Spec == Init /\ [][Next]_vars

\* Time passes.  systemd restarts a steady worker that has ended, and it is not
\* ended so often that a statement it comes to again and again never runs.  The
\* other workers may stop anywhere and for good.
Fairness ==
    /\ \A j \in Jobs : WF_vars(LockAges(j))
    /\ \A w \in Steady :
        /\ WF_vars(Restart(w))
        /\ SF_vars(HourPasses(w))
        /\ SF_vars(PurgeSessions(w))
        /\ SF_vars(RecoverJobs(w))
        /\ SF_vars(FailJobs(w))
        /\ SF_vars(Claim(w))
        /\ SF_vars(Finish(w))

FairSpec == Spec /\ Fairness

-----------------------------------------------------------------------------
(* Properties                                                              *)

\* The tables hold rows of their schema, only a running job is locked, and a
\* worker holds a job just while it checks it.
TypeOK ==
    /\ jobs \in [Jobs -> Job \cup {None}]
    /\ results \in [Jobs -> Nat]
    /\ step \in [Workers -> Steps]
    /\ holds \in [Workers -> Jobs \cup {None}]
    /\ rows \in [Sessions -> Row \cup {None}]
    /\ \A w \in Workers : step[w] = "check" <=> holds[w] # None
    /\ \A j \in Jobs :
        jobs[j] # None => (jobs[j].stale => jobs[j].status = "running")

Settled(j) == jobs[j] # None /\ jobs[j].status \in Done

\* A job has a quality result exactly when it is settled, and with the verdict
\* of its check: a worker that lost its lock to the maintenance, and finishes
\* after another one took the job over or the job was given up, leaves no
\* result behind a job that is pending, running or failed.
ResultsMatchStatus ==
    \A j \in Jobs :
        /\ results[j] > 0 <=> Settled(j)
        /\ Settled(j) => jobs[j].status = Verdict(j)

\* At most one result per attempt, and at most MaxAttempts of each, however
\* many workers took the job from one another.
Holders(j) == {w \in Workers : holds[w] = j}

AttemptsCover ==
    \A j \in Jobs : jobs[j] # None =>
        results[j] + Cardinality(Holders(j)) <= jobs[j].attempts

\* The two together.
ResultsAreCounted == ResultsMatchStatus /\ AttemptsCover

\* A settled job is never reopened, failed or decided otherwise.
SettledIsFinal ==
    [][\A j \in Jobs : Settled(j) => jobs'[j] = jobs[j]]_vars

\* Every job is settled or given up in the end, whichever workers crash when,
\* as long as no old session keeps the maintenance from its later statements.
JobsSettle ==
    []<>PurgeBlocked \/ \A j \in Jobs :
        jobs[j] # None ~> jobs[j] # None /\ jobs[j].status \in Done \cup {"failed"}

\* Claim (service.go:113): "Maintain keeps operational tables bounded and makes
\* abandoned jobs retryable."
AbandonedIsRetried ==
    \A j \in Jobs : Abandoned(j) ~> ~Abandoned(j)
=============================================================================
