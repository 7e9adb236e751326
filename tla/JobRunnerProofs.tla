-------------------------- MODULE JobRunnerProofs --------------------------
(***************************************************************************)
(* Proofs about JobRunner, for any set of jobs, any limits and any number  *)
(* of crashes and of locked databases.                                     *)
(***************************************************************************)
EXTENDS JobRunner, TLAPS

(* Raising a number to a power and capping it yields a whole number of     *)
(* ticks, whatever the cap.                                                *)
LEMMA DelayType == \A n \in Nat \ {0} : Delay(n) \in Int
<1> SUFFICES ASSUME NEW n \in Nat \ {0} PROVE Delay(n) \in Int
  OBVIOUS
<1>1. 2 ^ (n - 1) \in Int
  OBVIOUS
<1>2. QED
  BY <1>1, JobRunnerAssumption DEF Delay

(* The worker's hands: what it holds is RUNNING and was claimed.           *)
WorkerShape ==
    job # NoJob => alive /\ state[job] = "RUNNING"

(* The counts behind the bound: a job that may be claimed has a try left,  *)
(* or owes its last one to a restart; a job found RUNNING by a process     *)
(* that is down has not been given the try of the restart to come.         *)
Counted ==
    \A j \in Jobs :
        /\ attempts[j] <= MaxAttempts + crashes
        /\ state[j] \in {"NONE"} \union Claimable => attempts[j] < MaxAttempts + crashes
        /\ ~alive => attempts[j] < MaxAttempts + crashes
        /\ state[j] = "RUNNING" => attempts[j] > 0

IInv == TypeOK /\ WorkerShape /\ Counted

LEMMA RunnerInit == Init => IInv
BY JobRunnerAssumption
   DEF Init, IInv, TypeOK, WorkerShape, Counted, JobStates, Claimable

LEMMA RunnerStep == IInv /\ [Next]_vars => IInv'
<1> SUFFICES ASSUME IInv, [Next]_vars PROVE IInv'
  OBVIOUS
<1> USE JobRunnerAssumption DEF IInv, TypeOK, WorkerShape, Counted, JobStates, Claimable,
        Outcomes, Idle, On, LetGo
<1>1. ASSUME NEW j \in Jobs, Enqueue(j) PROVE IInv'
  BY <1>1 DEF Enqueue
<1>2. ASSUME NEW j \in Jobs, Claim(j) PROVE IInv'
  BY <1>2 DEF Claim, Due
<1>3. ASSUME NEW j \in Jobs, HandlerReturns(j) \/ HandlerRaises(j) PROVE IInv'
  BY <1>3 DEF HandlerReturns, HandlerRaises
<1>4. ASSUME NEW j \in Jobs, Succeed(j) \/ Fail(j) PROVE IInv'
  BY <1>4 DEF Succeed, Fail
<1>5. ASSUME NEW j \in Jobs, Retry(j) PROVE IInv'
  <2>1. attempts[j] \in Nat \ {0}
    BY <1>5 DEF Retry
  <2>2. Delay(attempts[j]) \in Int
    BY <2>1, DelayType
  <2>3. TypeOK'
    BY <1>5, <2>2 DEF Retry
  <2>4. WorkerShape' /\ Counted'
    BY <1>5 DEF Retry
  <2>5. QED
    BY <2>3, <2>4
<1>6. CASE DatabaseBusy
  BY <1>6 DEF DatabaseBusy
<1>7. CASE Crash
  <2>1. /\ crashes' = crashes + 1 /\ LetGo /\ ~alive'
        /\ UNCHANGED <<state, attempts, due, ran, busy>>
    BY <1>7 DEF Crash
  <2>2. Counted'
    BY <2>1
  <2>3. TypeOK'
    <3>1. alive' \in BOOLEAN
      BY <1>7, Zenon DEF Crash
    <3>2. crashes' \in Nat
      BY <2>1
    <3>3. QED
      BY <2>1, <3>1, <3>2
  <2>4. WorkerShape'
    BY <2>1
  <2>5. QED
    BY <2>2, <2>3, <2>4
<1>8. CASE RecoverStaleJobs
  BY <1>8 DEF RecoverStaleJobs
<1>9. CASE Tick
  BY <1>9 DEF Tick
<1>10. CASE UNCHANGED vars
  BY <1>10 DEF vars
<1>11. QED
  BY <1>1, <1>2, <1>3, <1>4, <1>5, <1>6, <1>7, <1>8, <1>9, <1>10 DEF Next, Settle

LEMMA RunnerInvariant == Spec => []IInv
BY RunnerInit, RunnerStep, PTL DEF Spec

(* A job is tried at most max_attempts times, plus once for every restart  *)
(* of the process.                                                         *)
THEOREM AttemptsAreBounded == Spec => []AttemptsBounded
<1>1. IInv => AttemptsBounded
  BY DEF IInv, Counted, AttemptsBounded
<1>2. QED
  BY <1>1, RunnerInvariant, PTL

-----------------------------------------------------------------------------
(* As long as the database answers, RUNNING means in the worker's hands.   *)
HeldStep == busy = 0 /\ alive => \A j \in Jobs :
                state[j] = "RUNNING" => job = j

LEMMA HeldPreserved == IInv /\ HeldStep /\ [Next]_vars => HeldStep'
<1> SUFFICES ASSUME IInv, HeldStep, [Next]_vars, busy' = 0, alive',
                    NEW k \in Jobs, state'[k] = "RUNNING"
             PROVE  job' = k
  BY DEF HeldStep
<1> USE JobRunnerAssumption DEF IInv, TypeOK, Idle, On, LetGo
<1>1. busy = 0 /\ ~DatabaseBusy
  <2>1. busy' = busy \/ busy' = busy + 1
    BY DEF Next, vars, Enqueue, Claim, HandlerReturns, HandlerRaises, Settle, Succeed, Fail,
           Retry, DatabaseBusy, Crash, RecoverStaleJobs, Tick
  <2>2. busy = 0
    BY <2>1
  <2>3. QED
    BY <2>2 DEF DatabaseBusy
<1>2. ASSUME alive, state[k] = "RUNNING", job' = job
      PROVE  job' = k
  BY <1>1, <1>2 DEF HeldStep
<1>3. ASSUME NEW j \in Jobs, Enqueue(j) \/ Claim(j)
      PROVE  job' = k
  BY <1>1, <1>2, <1>3 DEF Enqueue, Claim, HeldStep
<1>4. ASSUME NEW j \in Jobs, HandlerReturns(j) \/ HandlerRaises(j)
      PROVE  job' = k
  BY <1>1, <1>4 DEF HandlerReturns, HandlerRaises, HeldStep
<1>5. ASSUME NEW j \in Jobs, Settle(j) PROVE FALSE
  BY <1>1, <1>5 DEF Settle, Succeed, Fail, Retry, HeldStep
<1>6. CASE DatabaseBusy
  BY <1>1, <1>6 DEF DatabaseBusy
<1>7. CASE Crash \/ RecoverStaleJobs
  BY <1>7 DEF Crash, RecoverStaleJobs
<1>8. CASE Tick \/ UNCHANGED vars
  BY <1>2, <1>8 DEF Tick, vars
<1>9. QED
  BY <1>3, <1>4, <1>5, <1>6, <1>7, <1>8 DEF Next

(* A job is RUNNING exactly while the worker holds it, unless a settlement *)
(* was turned down or the process is down.                                 *)
THEOREM RunningMeansHeld == Spec => []RunningIsHeld
<1>1. Init => HeldStep
  BY DEF Init, HeldStep
<1>2. IInv /\ HeldStep => RunningIsHeld
  BY JobRunnerAssumption DEF IInv, WorkerShape, HeldStep, RunningIsHeld
<1>3. Spec => []HeldStep
  BY <1>1, RunnerInvariant, HeldPreserved, PTL DEF Spec
<1>4. QED
  BY <1>2, <1>3, RunnerInvariant, PTL

-----------------------------------------------------------------------------
(* Refinement: what the worker holds after a return has run to the end,    *)
(* and every step of the runner is a step of the queue or shows nothing.   *)
ReturnedRan == \A j \in Jobs : On(j, "returned") => j \in ran

LEMMA ReturnedStep == ReturnedRan /\ [Next]_vars => ReturnedRan'
BY DEF ReturnedRan, Next, vars, Enqueue, Claim, HandlerReturns, HandlerRaises, Settle, Succeed,
       Fail, Retry, DatabaseBusy, Crash, RecoverStaleJobs, Tick, On, LetGo

Open      == {j \in Jobs : state[j] \in Claimable \union {"RUNNING"}}
Succeeded == {j \in Jobs : state[j] = "SUCCEEDED"}
Failed    == {j \in Jobs : state[j] = "FAILED"}

LEMMA QueueStep == IInv /\ ReturnedRan /\ [Next]_vars => [Queue!Next]_Queue!vars
<1> SUFFICES ASSUME IInv, ReturnedRan, [Next]_vars PROVE [Queue!Next]_Queue!vars
  OBVIOUS
<1> USE JobRunnerAssumption DEF IInv, TypeOK, WorkerShape, Claimable, On, Idle, LetGo,
        Queue!Next, Queue!vars, Queue!Enqueue, Queue!Run, Queue!Succeed, Queue!Fail
<1>1. ASSUME NEW j \in Jobs, Enqueue(j) PROVE Queue!Enqueue(j)
  BY <1>1 DEF Enqueue
<1>2. ASSUME NEW j \in Jobs, HandlerReturns(j) PROVE Queue!Run(j)
  <2>1. state[j] = "RUNNING" /\ state' = state /\ ran' = ran \union {j}
    BY <1>2 DEF HandlerReturns
  <2>2. QED
    BY <2>1
<1>3. ASSUME NEW j \in Jobs, Succeed(j) PROVE Queue!Succeed(j)
  <2>1. /\ state[j] = "RUNNING" /\ j \in ran /\ ran' = ran
        /\ state' = [state EXCEPT ![j] = "SUCCEEDED"]
    BY <1>3 DEF Succeed, ReturnedRan
  <2>2. QED
    BY <2>1
<1>4. ASSUME NEW j \in Jobs, Fail(j) PROVE Queue!Fail(j)
  <2>1. /\ state[j] = "RUNNING" /\ ran' = ran
        /\ state' = [state EXCEPT ![j] = "FAILED"]
    BY <1>4 DEF Fail
  <2>2. QED
    BY <2>1
<1>5. ASSUME NEW j \in Jobs, Claim(j) \/ Retry(j) \/ HandlerRaises(j)
      PROVE  UNCHANGED Queue!vars
  <2>1. /\ state[j] \in Claimable \union {"RUNNING"} /\ ran' = ran
        /\ \/ state' = [state EXCEPT ![j] = "RUNNING"]
           \/ state' = [state EXCEPT ![j] = "RETRY"]
           \/ state' = state
    BY <1>5 DEF Claim, Due, Retry, HandlerRaises
  <2>2. QED
    BY <2>1
<1>6. CASE DatabaseBusy \/ Crash \/ RecoverStaleJobs \/ Tick \/ UNCHANGED vars
  BY <1>6 DEF DatabaseBusy, Crash, RecoverStaleJobs, Tick, vars
<1>7. QED
  BY <1>1, <1>2, <1>3, <1>4, <1>5, <1>6 DEF Next, Settle

(* The runner implements the queue its users rely on.                      *)
THEOREM RunnerImplementsQueue == Spec => ImplementsJobQueue
<1>1. Init => Queue!Init /\ ReturnedRan
  BY DEF Init, Queue!Init, ReturnedRan, Claimable, On, Idle
<1>2. Spec => [](IInv /\ ReturnedRan)
  BY <1>1, RunnerInvariant, ReturnedStep, PTL DEF Spec
<1>3. QED
  BY <1>1, <1>2, QueueStep, PTL DEF Spec, ImplementsJobQueue, Queue!Spec
=============================================================================
