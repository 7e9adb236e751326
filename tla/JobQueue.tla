------------------------------ MODULE JobQueue ------------------------------
(***************************************************************************)
(* What the durable job queue promises: a job that was enqueued stays open *)
(* until it is settled once and for all; it is only called succeeded after *)
(* its handler has run to the end, and no handler runs for a settled job.  *)
(* The handler may run to the end more than once.                          *)
(***************************************************************************)
CONSTANT Jobs

VARIABLES open, succeeded, failed, ran
vars == <<open, succeeded, failed, ran>>

Init == open = {} /\ succeeded = {} /\ failed = {} /\ ran = {}

Enqueue(j) ==
    /\ j \notin open \union succeeded \union failed
    /\ open' = open \union {j}
    /\ UNCHANGED <<succeeded, failed, ran>>

Run(j) ==
    /\ j \in open
    /\ ran' = ran \union {j}
    /\ UNCHANGED <<open, succeeded, failed>>

Succeed(j) ==
    /\ j \in open /\ j \in ran
    /\ open' = open \ {j} /\ succeeded' = succeeded \union {j}
    /\ UNCHANGED <<failed, ran>>

Fail(j) ==
    /\ j \in open
    /\ open' = open \ {j} /\ failed' = failed \union {j}
    /\ UNCHANGED <<succeeded, ran>>

Next == \E j \in Jobs : Enqueue(j) \/ Run(j) \/ Succeed(j) \/ Fail(j)

Spec == Init /\ [][Next]_vars
=============================================================================
