----------------------------- MODULE JobRunner -----------------------------
(***************************************************************************)
(* The durable single-worker job runner (jobs/runner.py) over the table of *)
(* jobs: claiming the earliest due job, running its handler outside of any *)
(* transaction, settling the row in a transaction of its own, exponential  *)
(* backoff, crashes of the process and the recovery at start-up.           *)
(*                                                                         *)
(* Time is counted in ticks of BACKOFF_BASE_SECONDS / BackoffBase.  due[j] *)
(* is next_attempt_at as seen from now: positive while the job must wait,  *)
(* negative once it is overdue (exact down to -MaxLate).                   *)
(***************************************************************************)
EXTENDS Integers, FiniteSets

CONSTANTS
    Jobs,
    NoJob,
    MaxAttempts,    \* AppJob.max_attempts
    BackoffBase,    \* BACKOFF_BASE_SECONDS in ticks
    BackoffMax,     \* BACKOFF_MAX_SECONDS in ticks
    MaxLate,        \* how far back the order of overdue jobs is remembered
    MaxCrashes,     \* crashes of the process
    MaxBusy         \* settlements that find the database locked for too long

ASSUME JobRunnerAssumption ==
    /\ NoJob \notin Jobs
    /\ MaxAttempts \in Nat \ {0} /\ BackoffBase \in Nat \ {0} /\ BackoffMax \in Nat
    /\ MaxLate \in Nat /\ MaxCrashes \in Nat /\ MaxBusy \in Nat

VARIABLES
    state,      \* AppJob.state, "NONE" before the row exists
    attempts,   \* AppJob.attempts
    due,        \* AppJob.next_attempt_at
    job,        \* the job the worker holds
    step,       \* what has become of its handler
    alive,      \* whether the process runs
    ran,        \* jobs whose handler has run to the end (history)
    crashes, busy
vars == <<state, attempts, due, job, step, alive, ran, crashes, busy>>

JobStates == {"QUEUED", "RUNNING", "SUCCEEDED", "FAILED", "RETRY"}
Settled   == {"SUCCEEDED", "FAILED"}
Claimable == {"QUEUED", "RETRY"}
Outcomes  == {"running", "returned", "permanent", "raised"}

Idle        == job = NoJob
On(j, o)    == job = j /\ step = o
LetGo       == job' = NoJob /\ step' = "idle"

(* Mutant of Due: a job in RETRY is not looked for.                         *)
DueFirstTime(j) == state[j] = "QUEUED" /\ due[j] <= 0

Due(j) == state[j] \in Claimable /\ due[j] <= 0

(* min(BACKOFF_BASE_SECONDS * 2 ** (attempts - 1), BACKOFF_MAX_SECONDS)    *)
Delay(n) ==
    LET d == BackoffBase * 2 ^ (n - 1) IN IF d < BackoffMax THEN d ELSE BackoffMax

-----------------------------------------------------------------------------
(* enqueue_job, called by the API and by handlers.                         *)
Enqueue(j) ==
    /\ alive /\ state[j] = "NONE"
    /\ state' = [state EXCEPT ![j] = "QUEUED"]
    /\ due' = [due EXCEPT ![j] = 0]
    /\ UNCHANGED <<attempts, job, step, alive, ran, crashes, busy>>

(* _claim_next_job                                                         *)
Claim(j) ==
    /\ alive /\ Idle
    /\ Due(j) /\ \A k \in Jobs : Due(k) => due[j] <= due[k]
    /\ state' = [state EXCEPT ![j] = "RUNNING"]
    /\ attempts' = [attempts EXCEPT ![j] = @ + 1]
    /\ job' = j /\ step' = "running"
    /\ UNCHANGED <<due, alive, ran, crashes, busy>>

(* The handler returns, raises PermanentJobError (or there is none for the *)
(* type), or raises anything else.                                         *)
HandlerReturns(j) ==
    /\ alive /\ On(j, "running")
    /\ step' = "returned"
    /\ ran' = ran \union {j}
    /\ UNCHANGED <<state, attempts, due, job, alive, crashes, busy>>

HandlerRaises(j) ==
    /\ alive /\ On(j, "running")
    /\ step' \in {"permanent", "raised"}
    /\ UNCHANGED <<state, attempts, due, job, alive, ran, crashes, busy>>

(* Mutant of Succeed: the row is settled before the handler has returned.   *)
SucceedEarly(j) ==
    /\ alive /\ On(j, "running")
    /\ state' = [state EXCEPT ![j] = "SUCCEEDED"]
    /\ LetGo
    /\ UNCHANGED <<attempts, due, alive, ran, crashes, busy>>

(* The end of _run_job.                                                    *)
Succeed(j) ==
    /\ alive /\ On(j, "returned")
    /\ state' = [state EXCEPT ![j] = "SUCCEEDED"]
    /\ LetGo
    /\ UNCHANGED <<attempts, due, alive, ran, crashes, busy>>

Fail(j) ==
    /\ alive
    /\ \/ On(j, "permanent")
       \/ On(j, "raised") /\ attempts[j] >= MaxAttempts
    /\ state' = [state EXCEPT ![j] = "FAILED"]
    /\ LetGo
    /\ UNCHANGED <<attempts, due, alive, ran, crashes, busy>>

(* Mutant of Retry: one attempt too many.                                   *)
RetryOnceMore(j) ==
    /\ alive /\ On(j, "raised") /\ attempts[j] <= MaxAttempts
    /\ state' = [state EXCEPT ![j] = "RETRY"]
    /\ due' = [due EXCEPT ![j] = Delay(attempts[j])]
    /\ LetGo
    /\ UNCHANGED <<attempts, alive, ran, crashes, busy>>

Retry(j) ==
    /\ alive /\ On(j, "raised") /\ attempts[j] < MaxAttempts
    /\ state' = [state EXCEPT ![j] = "RETRY"]
    /\ due' = [due EXCEPT ![j] = Delay(attempts[j])]
    /\ LetGo
    /\ UNCHANGED <<attempts, alive, ran, crashes, busy>>

(* The write lock is not free within busy_timeout, before the handler runs *)
(* or when the row is to be settled: run_forever logs the exception and    *)
(* goes on with the next job.                                              *)
DatabaseBusy ==
    /\ alive /\ ~Idle /\ busy < MaxBusy
    /\ LetGo /\ busy' = busy + 1
    /\ UNCHANGED <<state, attempts, due, alive, ran, crashes>>

-----------------------------------------------------------------------------
Crash ==
    /\ alive /\ crashes < MaxCrashes
    /\ alive' = FALSE /\ LetGo /\ crashes' = crashes + 1
    /\ UNCHANGED <<state, attempts, due, ran, busy>>

(* Mutant of RecoverStaleJobs: nothing is recovered.                        *)
RecoverNothing ==
    /\ ~alive /\ alive' = TRUE
    /\ UNCHANGED <<state, attempts, due, job, step, ran, crashes, busy>>

(* The process starts again: recover_stale_jobs.                           *)
RecoverStaleJobs ==
    /\ ~alive /\ alive' = TRUE
    /\ state' = [j \in Jobs |-> IF state[j] = "RUNNING" THEN "RETRY" ELSE state[j]]
    /\ due' = [j \in Jobs |-> IF state[j] = "RUNNING" THEN 0 ELSE due[j]]
    /\ UNCHANGED <<attempts, job, step, ran, crashes, busy>>

(* Time passes for the jobs that wait.                                     *)
Tick ==
    /\ \E j \in Jobs : state[j] \in Claimable /\ due[j] > -MaxLate
    /\ due' = [j \in Jobs |-> IF state[j] \in Claimable /\ due[j] > -MaxLate
                              THEN due[j] - 1 ELSE due[j]]
    /\ UNCHANGED <<state, attempts, job, step, alive, ran, crashes, busy>>

-----------------------------------------------------------------------------
Init ==
    /\ state = [j \in Jobs |-> "NONE"] /\ attempts = [j \in Jobs |-> 0]
    /\ due = [j \in Jobs |-> 0] /\ job = NoJob /\ step = "idle" /\ alive = TRUE
    /\ ran = {} /\ crashes = 0 /\ busy = 0

Settle(j) == Succeed(j) \/ Fail(j) \/ Retry(j)

Next ==
    \/ \E j \in Jobs : \/ Enqueue(j) \/ Claim(j)
                       \/ HandlerReturns(j) \/ HandlerRaises(j) \/ Settle(j)
    \/ DatabaseBusy \/ Crash \/ RecoverStaleJobs \/ Tick

Spec == Init /\ [][Next]_vars

(* The loop of run_forever never stops, handlers end (their network calls  *)
(* and subprocesses have timeouts), the service manager restarts the       *)
(* process and time passes.                                                *)
Fairness ==
    /\ WF_vars(\E j \in Jobs : Claim(j))
    /\ \A j \in Jobs : /\ WF_vars(Settle(j))
                       /\ WF_vars(HandlerReturns(j) \/ HandlerRaises(j))
    /\ WF_vars(RecoverStaleJobs) /\ WF_vars(Tick)

LiveSpec == Spec /\ Fairness

-----------------------------------------------------------------------------
(* The columns of a job and the worker's place have their types.           *)
TypeOK ==
    /\ state \in [Jobs -> JobStates \union {"NONE"}]
    /\ attempts \in [Jobs -> Nat] /\ due \in [Jobs -> Int]
    /\ job \in Jobs \union {NoJob} /\ step \in Outcomes \union {"idle"}
    /\ alive \in BOOLEAN /\ ran \subseteq Jobs
    /\ crashes \in Nat /\ busy \in Nat

(* max_attempts holds up to restarts: a restart gives every job that was   *)
(* running one more try, whatever its count, and never more than one.      *)
AttemptsBounded == \A j \in Jobs : attempts[j] <= MaxAttempts + crashes

(* A job is RUNNING only in the worker's hands, unless the database turned *)
(* its settlement down or the process is down.                             *)
RunningIsHeld ==
    busy = 0 /\ alive =>
        \A j \in Jobs : state[j] = "RUNNING" <=> job = j

(* The queue as its users see it: a job is open, succeeded or failed, and  *)
(* it succeeds only after its handler ran to the end.                      *)
Queue == INSTANCE JobQueue WITH
    open      <- {j \in Jobs : state[j] \in Claimable \union {"RUNNING"}},
    succeeded <- {j \in Jobs : state[j] = "SUCCEEDED"},
    failed    <- {j \in Jobs : state[j] = "FAILED"}

ImplementsJobQueue == Queue!Spec

(* Every job is settled in the end, through retries and restarts, as long  *)
(* as the database is never locked for longer than the busy timeout.       *)
EveryJobSettles ==
    \A j \in Jobs : state[j] = "QUEUED" ~> state[j] \in Settled \/ busy > 0

(* runner.py, header: the row is settled in a short transaction of its     *)
(* own, so a handler that crashes still leaves an accurate RETRY or FAILED *)
(* state behind.  Refuted: a settlement that waits for the write lock      *)
(* longer than busy_timeout leaves the job RUNNING.                        *)
AccurateStateLeftBehind ==
    [][\A j \in Jobs : On(j, "raised") /\ Idle' /\ alive' =>
           state'[j] \in {"RETRY", "FAILED"}]_vars
=============================================================================
