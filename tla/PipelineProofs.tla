--------------------------- MODULE PipelineProofs ---------------------------
(***************************************************************************)
(* Proofs about the chain of jobs of Pipeline, for any number of           *)
(* recordings, rooms, restarts and requests: what the queues hold, the     *)
(* types, the one clustering job, the chain from a finished upload to the  *)
(* analysis of its room, and the transcripts that stay.                    *)
(***************************************************************************)
EXTENDS Pipeline, FiniteSetTheorems, SequenceTheorems, TLAPS

-----------------------------------------------------------------------------
(* Queues.  A job is in a queue, or is there once at most.                 *)
Has(s, j)  == \E i \in DOMAIN s : s[i] = j
Once(s, j) == \A i, k \in DOMAIN s : s[i] = j /\ s[k] = j => i = k

LEMMA AppendHas ==
    ASSUME NEW S, NEW s \in Seq(S), NEW e \in S
    PROVE  /\ Append(s, e) \in Seq(S)
           /\ \A j : Has(Append(s, e), j) <=> Has(s, j) \/ j = e
           /\ \A j : Once(s, j) /\ (j # e \/ ~Has(s, j)) => Once(Append(s, e), j)
<1> DEFINE t == Append(s, e)
<1>1. t \in Seq(S) /\ Len(t) = Len(s) + 1 /\ t[Len(t)] = e /\ \A i \in 1 .. Len(s) : t[i] = s[i]
  BY AppendProperties
<1>2. DOMAIN t = 1 .. Len(s) + 1 /\ DOMAIN s = 1 .. Len(s) /\ Len(s) \in Nat
  BY <1>1, LenProperties
<1>3. ASSUME NEW j PROVE Has(t, j) <=> Has(s, j) \/ j = e
  BY <1>1, <1>2 DEF Has
<1>4. ASSUME NEW j, Once(s, j), j # e \/ ~Has(s, j) PROVE Once(t, j)
  BY <1>1, <1>2, <1>4 DEF Has, Once
<1>5. QED
  BY <1>1, <1>3, <1>4

LEMMA TailHas ==
    ASSUME NEW S, NEW s \in Seq(S), s # <<>>
    PROVE  /\ Head(s) \in S /\ Tail(s) \in Seq(S)
           /\ \A j : Has(s, j) <=> Has(Tail(s), j) \/ j = Head(s)
           /\ \A j : Once(s, j) => /\ Once(Tail(s), j)
                                   /\ j = Head(s) => ~Has(Tail(s), j)
<1> DEFINE t == Tail(s)
<1>1. /\ Head(s) \in S /\ t \in Seq(S) /\ Len(t) = Len(s) - 1
      /\ \A i \in 1 .. Len(t) : t[i] = s[i + 1]
  BY HeadTailProperties
<1>2. /\ DOMAIN t = 1 .. Len(s) - 1 /\ DOMAIN s = 1 .. Len(s)
      /\ Len(s) \in Nat \ {0} /\ Head(s) = s[1]
  BY <1>1, LenProperties, EmptySeq
<1>3. ASSUME NEW j PROVE Has(s, j) <=> Has(t, j) \/ j = Head(s)
  <2>1. ASSUME NEW i \in DOMAIN s, s[i] = j, i # 1 PROVE Has(t, j)
    <3>1. i - 1 \in DOMAIN t /\ t[i - 1] = j
      BY <1>1, <1>2, <2>1
    <3>2. QED
      BY <3>1 DEF Has
  <2>2. QED
    BY <1>1, <1>2, <2>1 DEF Has
<1>4. ASSUME NEW j, Once(s, j) PROVE Once(t, j) /\ (j = Head(s) => ~Has(t, j))
  BY <1>1, <1>2, <1>4 DEF Has, Once
<1>5. QED
  BY <1>1, <1>3, <1>4

LEMMA ConcatHas ==
    ASSUME NEW S, NEW s \in Seq(S), NEW t \in Seq(S)
    PROVE  /\ s \o t \in Seq(S)
           /\ \A j : Has(s \o t, j) <=> Has(s, j) \/ Has(t, j)
           /\ \A j : Once(s, j) /\ ~Has(t, j) => Once(s \o t, j)
           /\ \A j : Once(t, j) /\ ~Has(s, j) => Once(s \o t, j)
<1> DEFINE u == s \o t
<1>1. /\ u \in Seq(S) /\ Len(u) = Len(s) + Len(t)
      /\ \A i \in 1 .. Len(s) + Len(t) : u[i] = IF i <= Len(s) THEN s[i] ELSE t[i - Len(s)]
  BY ConcatProperties
<1>2. /\ DOMAIN u = 1 .. Len(s) + Len(t) /\ DOMAIN s = 1 .. Len(s) /\ DOMAIN t = 1 .. Len(t)
      /\ Len(s) \in Nat /\ Len(t) \in Nat
  BY <1>1, LenProperties
<1>3. ASSUME NEW j PROVE Has(u, j) <=> Has(s, j) \/ Has(t, j)
  <2>1. ASSUME NEW i \in DOMAIN t, t[i] = j PROVE Has(u, j)
    <3>1. i + Len(s) \in DOMAIN u /\ u[i + Len(s)] = j
      BY <1>1, <1>2, <2>1
    <3>2. QED
      BY <3>1 DEF Has
  <2>2. ASSUME NEW i \in DOMAIN s, s[i] = j PROVE Has(u, j)
    BY <1>1, <1>2, <2>2 DEF Has
  <2>3. ASSUME NEW i \in DOMAIN u, u[i] = j PROVE Has(s, j) \/ Has(t, j)
    <3>1. CASE i <= Len(s)
      BY <1>1, <1>2, <2>3, <3>1 DEF Has
    <3>2. CASE i > Len(s)
      BY <1>1, <1>2, <2>3, <3>2 DEF Has
    <3>3. QED
      BY <1>2, <3>1, <3>2
  <2>4. QED
    BY <2>1, <2>2, <2>3 DEF Has
<1>4. ASSUME NEW j, Once(s, j), ~Has(t, j) PROVE Once(u, j)
  <2>1. ASSUME NEW i \in DOMAIN u, u[i] = j PROVE i \in DOMAIN s /\ s[i] = j
    <3>1. CASE i <= Len(s)
      BY <1>1, <1>2, <2>1, <3>1
    <3>2. CASE i > Len(s)
      BY <1>1, <1>2, <1>4, <2>1, <3>2 DEF Has
    <3>3. QED
      BY <1>2, <3>1, <3>2
  <2>2. QED
    BY <1>4, <2>1 DEF Once
<1>5. ASSUME NEW j, Once(t, j), ~Has(s, j) PROVE Once(u, j)
  <2>1. ASSUME NEW i \in DOMAIN u, u[i] = j
        PROVE  i - Len(s) \in DOMAIN t /\ t[i - Len(s)] = j
    <3>1. CASE i <= Len(s)
      BY <1>1, <1>2, <1>5, <2>1, <3>1 DEF Has
    <3>2. CASE i > Len(s)
      BY <1>1, <1>2, <2>1, <3>2
    <3>3. QED
      BY <1>2, <3>1, <3>2
  <2>2. QED
    BY <1>2, <1>5, <2>1 DEF Once
<1>6. QED
  BY <1>1, <1>3, <1>4, <1>5

LEMMA RemoveAtHas ==
    ASSUME NEW S, NEW s \in Seq(S), NEW n \in DOMAIN s
    PROVE  /\ s[n] \in S /\ RemoveAt(s, n) \in Seq(S)
           /\ \A j : Has(s, j) <=> Has(RemoveAt(s, n), j) \/ j = s[n]
           /\ \A j : Once(s, j) => /\ Once(RemoveAt(s, n), j)
                                   /\ j = s[n] => ~Has(RemoveAt(s, n), j)
<1> DEFINE a == SubSeq(s, 1, n - 1)
           b == SubSeq(s, n + 1, Len(s))
           t == RemoveAt(s, n)
<1>1. Len(s) \in Nat /\ DOMAIN s = 1 .. Len(s) /\ n \in 1 .. Len(s) /\ s \in [1 .. Len(s) -> S]
  BY LenProperties
<1>2. /\ a \in Seq(S) /\ Len(a) = n - 1 /\ \A i \in 1 .. n - 1 : a[i] = s[i]
  <2>1. \A i \in 1 .. n - 1 : s[i] \in S
    BY <1>1
  <2>2. 1 \in Int /\ n - 1 \in Int
    BY <1>1
  <2>3. /\ a \in Seq(S) /\ Len(a) = IF 1 <= n - 1 THEN n - 1 - 1 + 1 ELSE 0
        /\ \A i \in 1 .. n - 1 - 1 + 1 : a[i] = s[1 + i - 1]
    BY <2>1, <2>2, SubSeqProperties
  <2>4. QED
    BY <1>1, <2>3
<1>3. /\ b \in Seq(S) /\ Len(b) = Len(s) - n /\ \A i \in 1 .. Len(s) - n : b[i] = s[n + i]
  <2>1. \A i \in n + 1 .. Len(s) : s[i] \in S
    BY <1>1
  <2>2. n + 1 \in Int /\ Len(s) \in Int
    BY <1>1
  <2>3. /\ b \in Seq(S) /\ Len(b) = IF n + 1 <= Len(s) THEN Len(s) - (n + 1) + 1 ELSE 0
        /\ \A i \in 1 .. Len(s) - (n + 1) + 1 : b[i] = s[n + 1 + i - 1]
    BY <2>1, <2>2, SubSeqProperties
  <2>4. QED
    BY <1>1, <2>3
<1> HIDE DEF a, b
<1>4. /\ t \in Seq(S) /\ Len(t) = Len(s) - 1
      /\ \A i \in 1 .. Len(s) - 1 : t[i] = IF i < n THEN s[i] ELSE s[i + 1]
  <2>1. /\ t \in Seq(S) /\ Len(t) = (n - 1) + (Len(s) - n)
        /\ \A i \in 1 .. (n - 1) + (Len(s) - n) :
              t[i] = IF i <= n - 1 THEN a[i] ELSE b[i - (n - 1)]
    <3>1. t = a \o b
      BY DEF RemoveAt, a, b
    <3>2. QED
      BY <1>2, <1>3, <3>1, ConcatProperties
  <2>2. ASSUME NEW i \in 1 .. Len(s) - 1 PROVE t[i] = IF i < n THEN s[i] ELSE s[i + 1]
    <3>1. t[i] = IF i <= n - 1 THEN a[i] ELSE b[i - (n - 1)]
      BY <1>1, <2>1
    <3>2. CASE i < n
      BY <1>1, <1>2, <2>2, <3>1, <3>2
    <3>3. CASE i >= n
      <4>1. i - (n - 1) \in 1 .. Len(s) - n /\ n + (i - (n - 1)) = i + 1
        BY <1>1, <2>2, <3>3
      <4>2. b[i - (n - 1)] = s[n + (i - (n - 1))]
        BY <1>3, <4>1
      <4>3. QED
        BY <1>1, <2>2, <3>1, <3>3, <4>1, <4>2
    <3>4. QED
      BY <1>1, <2>2, <3>2, <3>3
  <2>3. QED
    BY <1>1, <2>1, <2>2
<1>5. DOMAIN t = 1 .. Len(s) - 1
  BY <1>1, <1>4, LenProperties
<1> HIDE DEF t
<1>6. ASSUME NEW j PROVE Has(s, j) <=> Has(t, j) \/ j = s[n]
  <2>1. ASSUME NEW i \in DOMAIN s, s[i] = j, i # n PROVE Has(t, j)
    <3>1. CASE i < n
      BY <1>1, <1>4, <1>5, <2>1, <3>1 DEF Has
    <3>2. CASE i > n
      <4>1. i - 1 \in DOMAIN t /\ t[i - 1] = j
        BY <1>1, <1>4, <1>5, <2>1, <3>2
      <4>2. QED
        BY <4>1 DEF Has
    <3>3. QED
      BY <1>1, <2>1, <3>1, <3>2
  <2>2. ASSUME NEW i \in DOMAIN t, t[i] = j PROVE Has(s, j)
    BY <1>1, <1>4, <1>5, <2>2 DEF Has
  <2>3. QED
    BY <2>1, <2>2 DEF Has
<1>7. ASSUME NEW j, Once(s, j) PROVE Once(t, j) /\ (j = s[n] => ~Has(t, j))
  <2> DEFINE p(i) == IF i < n THEN i ELSE i + 1
  <2>1. \A i \in DOMAIN t : p(i) \in DOMAIN s /\ p(i) # n /\ t[i] = s[p(i)]
    BY <1>1, <1>4, <1>5
  <2>2. \A i, k \in DOMAIN t : p(i) = p(k) => i = k
    BY <1>1, <1>5
  <2> HIDE DEF p
  <2>3. QED
    BY <1>7, <2>1, <2>2 DEF Has, Once
<1>8. QED
  BY <1>1, <1>4, <1>6, <1>7 DEF t

LEMMA SetToSeqHas ==
    ASSUME NEW T, IsFiniteSet(T)
    PROVE  /\ SetToSeq(T) \in Seq(T)
           /\ \A j : Has(SetToSeq(T), j) <=> j \in T
<1> DEFINE n == Cardinality(T)
           q == SetToSeq(T)
<1>1. n \in Nat /\ \E f \in [1 .. n -> T] : IsInjective(f)
  BY FS_CardinalityType DEF ExistsBijection, Bijection, Injection
<1>2. q \in [1 .. n -> T] /\ IsInjective(q)
  BY <1>1 DEF SetToSeq
<1>3. q \in Surjection(1 .. n, T)
  <2>1. q \in Injection(1 .. n, T)
    BY <1>2 DEF Injection
  <2>2. 1 \in Int /\ n \in Int
    BY <1>1
  <2>3. Cardinality(1 .. n) = n
    BY <1>1, <2>2, FS_Interval
  <2>4. QED
    BY <2>1, <2>3, FS_Injection
<1>4. q \in Seq(T)
  BY <1>1, <1>2, SeqDef
<1>5. QED
  BY <1>2, <1>3, <1>4 DEF Has, Surjection
-----------------------------------------------------------------------------
(* Types.  Every job the handlers name is one of Jobs, and there are       *)
(* finitely many of each kind.                                             *)
LEMMA JobsExist ==
    /\ \A r \in Recordings : /\ Of("ASSEMBLE_AUDIO", r) \in Jobs
                             /\ Of("TRANSCRIBE_FINAL", r) \in Jobs
                             /\ Of("TRANSCRIBE_FROM_LIVE", r) \in Jobs
    /\ \A m \in Rooms : Of("ANALYZE_ROOM", m) \in Jobs
    /\ Of("ANALYZE_ROUND", "round") \in Jobs /\ Of("FINALIZE_ROUND", "round") \in Jobs
BY DEF Jobs

LEMMA FiniteJobs ==
    /\ \A F \in SUBSET Recordings : IsFiniteSet({Of("ASSEMBLE_AUDIO", r) : r \in F})
    /\ IsFiniteSet({Of("ANALYZE_ROOM", m) : m \in Rooms})
<1>1. ASSUME NEW t, NEW X, IsFiniteSet(X) PROVE IsFiniteSet({Of(t, x) : x \in X})
  <2> DEFINE f == [x \in X |-> Of(t, x)]
  <2>1. f \in Surjection(X, {Of(t, x) : x \in X})
    BY DEF Surjection
  <2> HIDE DEF f
  <2>2. QED
    BY <1>1, <2>1, FS_Surjection
<1>2. \A F \in SUBSET Recordings : IsFiniteSet(F)
  BY PipelineAssumption, FS_Subset
<1>3. QED
  BY <1>1, <1>2, PipelineAssumption

(* Several jobs put at the end of the queue at once.                       *)
LEMMA EnqueueAll ==
    ASSUME NEW T \in SUBSET Jobs, IsFiniteSet(T), JobTypes, queue' = queue \o SetToSeq(T)
    PROVE  /\ queue' \in Seq(Jobs)
           /\ \A j : Has(queue', j) <=> Has(queue, j) \/ j \in T
           /\ \A j : Once(queue, j) /\ j \notin T => Once(queue', j)
<1>1. SetToSeq(T) \in Seq(Jobs) /\ \A j : Has(SetToSeq(T), j) <=> j \in T
  BY SetToSeqHas, SeqMonotonic
<1>2. QED
  BY <1>1, ConcatHas DEF JobTypes

(* One more job at the end of a queue of jobs, and a job that was raised.   *)
LEMMA EnqueueTypes ==
    ASSUME JobTypes, NEW j \in Jobs, Enqueue(j)
    PROVE  queue' \in Seq(Jobs)
BY AppendHas DEF JobTypes, Enqueue

(* Where a crash leaves the jobs: in the queue, the one it ran at its end. *)
LEMMA CrashQueue ==
    ASSUME JobTypes, Crash
    PROVE  /\ queue' \in Seq(Jobs) /\ stale' = <<>> /\ delayed' = delayed /\ failed' = failed
           /\ \A j : Has(queue', j) <=> Has(queue, j) \/ Has(stale, j) \/ (~Idle /\ j = job)
           /\ \A j : /\ Once(queue, j) /\ Once(stale, j)
                     /\ ~(Has(queue, j) /\ Has(stale, j))
                     /\ ~Idle /\ job = j => ~Has(queue, j) /\ ~Has(stale, j)
                     => Once(queue', j)
<1> DEFINE q == queue \o stale
           t == IF Idle THEN <<>> ELSE <<job>>
<1>1. /\ queue' = q \o t /\ stale' = <<>> /\ delayed' = delayed /\ failed' = failed
      /\ queue \in Seq(Jobs) /\ stale \in Seq(Jobs)
  BY DEF Crash, JobTypes
<1>2. /\ t \in Seq(Jobs) /\ \A j : Has(t, j) <=> ~Idle /\ j = job
      /\ \A j : Once(t, j)
  <2>1. CASE Idle
    BY <2>1 DEF Has, Once
  <2>2. CASE ~Idle
    <3>1. job \in Jobs
      BY <2>2 DEF JobTypes, Idle
    <3>2. t = <<job>> /\ t \in Seq(Jobs) /\ DOMAIN t = {1} /\ t[1] = job
      BY <2>2, <3>1
    <3>3. QED
      BY <2>2, <3>2 DEF Has, Once
  <2>3. QED
    BY <2>1, <2>2
<1>3. /\ q \in Seq(Jobs) /\ \A j : Has(q, j) <=> Has(queue, j) \/ Has(stale, j)
      /\ \A j : Once(queue, j) /\ ~Has(stale, j) => Once(q, j)
      /\ \A j : Once(stale, j) /\ ~Has(queue, j) => Once(q, j)
  BY <1>1, ConcatHas
<1> HIDE DEF q, t
<1>4. /\ q \o t \in Seq(Jobs) /\ \A j : Has(q \o t, j) <=> Has(q, j) \/ Has(t, j)
      /\ \A j : Once(q, j) /\ ~Has(t, j) => Once(q \o t, j)
      /\ \A j : Once(t, j) /\ ~Has(q, j) => Once(q \o t, j)
  BY <1>2, <1>3, ConcatHas
<1>5. QED
  BY <1>1, <1>2, <1>3, <1>4

(* A handler that raises hands its job on: to the delayed, to the failed   *)
(* or to those that stay RUNNING.                                          *)
LEMMA RaisedJob ==
    ASSUME JobTypes, HandlerRaises
    PROVE  /\ job \in Jobs /\ job' = NoJob /\ step' = "idle" /\ seen' = {} /\ queue' = queue
           /\ delayed' \in Seq(Jobs) /\ stale' \in Seq(Jobs) /\ failed' \subseteq Jobs
           /\ \/ /\ delayed' = delayed /\ stale' = stale /\ failed' = failed \union {job}
              \/ /\ stale' = stale /\ failed' = failed
                 /\ \A j : Has(delayed', j) <=> Has(delayed, j) \/ j = job
                 /\ \A j : Once(delayed, j) /\ (j # job \/ ~Has(delayed, j)) => Once(delayed', j)
              \/ /\ delayed' = delayed /\ failed' = failed
                 /\ \A j : Has(stale', j) <=> Has(stale, j) \/ j = job
                 /\ \A j : Once(stale, j) /\ (j # job \/ ~Has(stale, j)) => Once(stale', j)
<1>1. job \in Jobs /\ job' = NoJob /\ step' = "idle" /\ seen' = {} /\ queue' = queue
  BY DEF HandlerRaises, LetGo, Idle, JobTypes
<1>2. /\ delayed \in Seq(Jobs) /\ stale \in Seq(Jobs) /\ failed \subseteq Jobs
      /\ \/ delayed' = delayed /\ stale' = stale /\ failed' = failed \union {job}
         \/ delayed' = Append(delayed, job) /\ stale' = stale /\ failed' = failed
         \/ delayed' = delayed /\ stale' = Append(stale, job) /\ failed' = failed
  BY DEF HandlerRaises, JobTypes
<1>3. CASE delayed' = Append(delayed, job)
  BY <1>1, <1>2, <1>3, AppendHas
<1>4. CASE stale' = Append(stale, job)
  BY <1>1, <1>2, <1>4, AppendHas
<1>5. CASE delayed' = delayed /\ stale' = stale /\ failed' = failed \union {job}
  BY <1>1, <1>2, <1>5
<1>6. QED
  BY <1>2, <1>3, <1>4, <1>5

(* What a handler has read: a room's material before it asks the model,    *)
(* the rooms that are left while it enqueues their analyses.               *)
SeenShape ==
    /\ step # "idle" => job \in Jobs
    /\ \A m \in Rooms : At("ANALYZE_ROOM", m, "asked") => seen \subseteq Recordings \union {Chat}
    /\ At("FINALIZE_ROUND", "round", "rooms") => seen \subseteq Rooms

Types == TypeOK /\ SeenShape

LEMMA TypesInit == Init => Types
BY PipelineAssumption
   DEF Init, Types, TypeOK, DataTypes, JobTypes, CountTypes, SeenShape, At, Of, NoJob,
       Steps, RecStates, OpenStates

LEMMA TypesStep == Types /\ [Next]_vars => Types'
<1> SUFFICES ASSUME Types, [Next]_vars PROVE Types'
  OBVIOUS
<1> USE DEF Types, TypeOK
<1>1. CASE Claim
  <2>1. DataTypes' /\ CountTypes'
    BY <1>1 DEF Claim, DataTypes, CountTypes, dataVars, envVars
  <2>2. JobTypes'
    BY <1>1, TailHas DEF Claim, JobTypes, Steps, later
  <2>3. SeenShape'
    BY <1>1, TailHas DEF Claim, JobTypes, SeenShape, At
  <2>4. QED
    BY <2>1, <2>2, <2>3
<1>2. CASE Settle
  <2>1. job \in Jobs \/ job = NoJob
    BY DEF JobTypes
  <2>2. step = "refused" => job \in Jobs
    BY <2>1 DEF JobTypes, SeenShape
  <2>3. QED
    BY <1>2, <2>2 DEF Settle, LetGo, DataTypes, JobTypes, CountTypes, SeenShape, At, Of, NoJob,
       Steps, dataVars, envVars
<1>3. CASE DelayIsOver
  <2>1. DataTypes' /\ CountTypes' /\ SeenShape'
    BY <1>3 DEF DelayIsOver, DataTypes, CountTypes, SeenShape, At, dataVars, envVars, workVars
  <2>2. JobTypes'
    BY <1>3, RemoveAtHas, AppendHas DEF DelayIsOver, Enqueue, JobTypes, workVars
  <2>3. QED
    BY <2>1, <2>2
<1>4. CASE Crash
  <2>1. DataTypes' /\ CountTypes'
    BY <1>4 DEF Crash, DataTypes, CountTypes, BetweenCommits, dataVars
  <2>2. JobTypes'
    BY <1>4, CrashQueue DEF Crash, LetGo, JobTypes, Steps
  <2>3. SeenShape'
    BY <1>4 DEF Crash, LetGo, SeenShape
  <2>4. QED
    BY <2>1, <2>2, <2>3
<1>5. ASSUME NEW r \in Recordings, AssembleAudio(r) PROVE Types'
  <2>1. DataTypes' /\ CountTypes'
    BY <1>5 DEF AssembleAudio, DataTypes, CountTypes, RecStates, OpenStates, envVars
  <2>2. JobTypes' /\ SeenShape'
    BY <1>5, JobsExist DEF AssembleAudio, Goto, JobTypes, SeenShape, At, Of, Steps, later
  <2>3. QED
    BY <2>1, <2>2
<1>6. ASSUME NEW r \in Recordings, EnqueueTranscription(r) PROVE Types'
  <2>1. DataTypes' /\ CountTypes'
    BY <1>6 DEF EnqueueTranscription, DataTypes, CountTypes, dataVars, envVars
  <2>2. JobTypes'
    BY <1>6, AppendHas, JobsExist
       DEF EnqueueTranscription, Enqueue, Goto, JobTypes, Steps, later
  <2>3. SeenShape'
    BY <1>6 DEF EnqueueTranscription, Goto, SeenShape, At
  <2>4. QED
    BY <2>1, <2>2, <2>3
<1>7. ASSUME NEW r \in Recordings, TranscribeFinal(r) PROVE Types'
  <2>1. DataTypes' /\ CountTypes'
    BY <1>7 DEF TranscribeFinal, DataTypes, CountTypes, RecStates, OpenStates, envVars
  <2>2. JobTypes' /\ SeenShape'
    BY <1>7 DEF TranscribeFinal, Goto, JobTypes, SeenShape, At, Steps, later
  <2>3. QED
    BY <2>1, <2>2
<1>8. ASSUME NEW r \in Recordings, ProviderAnswers(r) PROVE Types'
  <2>1. DataTypes' /\ CountTypes'
    BY <1>8 DEF ProviderAnswers, DataTypes, CountTypes, RecStates, OpenStates, envVars
  <2>2. JobTypes' /\ SeenShape'
    BY <1>8 DEF ProviderAnswers, Goto, JobTypes, SeenShape, At, Steps, later
  <2>3. QED
    BY <2>1, <2>2
<1>9. ASSUME NEW r \in Recordings, FallBackToLive(r) PROVE Types'
  <2>1. DataTypes' /\ CountTypes'
    BY <1>9 DEF FallBackToLive, DataTypes, CountTypes, dataVars, envVars
  <2>2. JobTypes' /\ SeenShape'
    BY <1>9, AppendHas, JobsExist
       DEF FallBackToLive, Enqueue, Goto, JobTypes, SeenShape, At, Steps, later
  <2>3. QED
    BY <2>1, <2>2
<1>10. ASSUME NEW r \in Recordings, TranscribeFromLive(r) PROVE Types'
  <2>1. DataTypes' /\ CountTypes'
    BY <1>10 DEF TranscribeFromLive, DataTypes, CountTypes, RecStates, OpenStates, envVars
  <2>2. JobTypes' /\ SeenShape'
    BY <1>10 DEF TranscribeFromLive, Goto, JobTypes, SeenShape, At, Steps, later
  <2>3. QED
    BY <2>1, <2>2
<1>11. ASSUME NEW r \in Recordings, EnqueueRoomAnalysis(r) PROVE Types'
  <2>1. DataTypes' /\ CountTypes'
    BY <1>11 DEF EnqueueRoomAnalysis, DataTypes, CountTypes, dataVars, envVars
  <2>2. JobTypes' /\ SeenShape'
    BY <1>11, AppendHas, JobsExist, PipelineAssumption
       DEF EnqueueRoomAnalysis, Enqueue, Goto, JobTypes, SeenShape, At, Steps, later
  <2>3. QED
    BY <2>1, <2>2
<1>12. ASSUME NEW m \in Rooms, AnalyzeRoom(m) PROVE Types'
  <2>1. DataTypes' /\ CountTypes'
    BY <1>12 DEF AnalyzeRoom, DataTypes, CountTypes, dataVars, envVars
  <2>2. Material(m) \subseteq Recordings \union {Chat}
    BY DEF Material
  <2>3. JobTypes' /\ SeenShape'
    BY <1>12, <2>2 DEF AnalyzeRoom, JobTypes, SeenShape, At, Of, Steps, later
  <2>4. QED
    BY <2>1, <2>3
<1>13. ASSUME NEW m \in Rooms, RoomAnswer(m) PROVE Types'
  <2>1. DataTypes' /\ CountTypes'
    BY <1>13 DEF RoomAnswer, DataTypes, CountTypes, SeenShape, envVars
  <2>2. JobTypes' /\ SeenShape'
    BY <1>13 DEF RoomAnswer, Goto, JobTypes, SeenShape, At, Of, Steps, later
  <2>3. QED
    BY <2>1, <2>2
<1>14. ASSUME NEW m \in Rooms, MaybeFinishRound(m) PROVE Types'
  <2>1. DataTypes' /\ CountTypes'
    BY <1>14 DEF MaybeFinishRound, DataTypes, CountTypes, dataVars, envVars
  <2>2. JobTypes' /\ SeenShape'
    <3>1. queue' \in Seq(Jobs)
      BY <1>14, EnqueueTypes, JobsExist DEF MaybeFinishRound, NoEnqueue, JobTypes
    <3>2. QED
      BY <1>14, <3>1 DEF MaybeFinishRound, Goto, JobTypes, SeenShape, At, Steps, later
  <2>3. QED
    BY <2>1, <2>2
<1>15. CASE AnalyzeRound \/ RoundAnswer
  <2>1. DataTypes' /\ CountTypes'
    BY <1>15 DEF AnalyzeRound, RoundAnswer, DataTypes, CountTypes, envVars
  <2>2. JobTypes' /\ SeenShape'
    BY <1>15 DEF AnalyzeRound, RoundAnswer, Goto, JobTypes, SeenShape, At, Of, Steps, later
  <2>3. QED
    BY <2>1, <2>2
<1>16. CASE FinalizeRound
  <2>1. DataTypes' /\ CountTypes'
    BY <1>16 DEF FinalizeRound, DataTypes, CountTypes, RecStates, OpenStates, envVars
  <2>2. queue' \in Seq(Jobs)
    <3>1. PICK F \in SUBSET Recordings :
             queue' = queue \o SetToSeq({Of("ASSEMBLE_AUDIO", r) : r \in F})
      BY <1>16 DEF FinalizeRound
    <3>2. {Of("ASSEMBLE_AUDIO", r) : r \in F} \in SUBSET Jobs
      BY JobsExist
    <3>3. QED
      BY <3>1, <3>2, FiniteJobs, EnqueueAll
  <2>3. JobTypes' /\ SeenShape'
    BY <1>16, <2>2 DEF FinalizeRound, JobTypes, SeenShape, At, Of, Steps, later
  <2>4. QED
    BY <2>1, <2>3
<1>17. CASE EnqueueRoom
  <2>1. DataTypes' /\ CountTypes'
    BY <1>17 DEF EnqueueRoom, DataTypes, CountTypes, dataVars, envVars
  <2>2. JobTypes'
    <3>1. seen \subseteq Rooms /\ job' = job /\ UNCHANGED later
      BY <1>17 DEF EnqueueRoom, SeenShape
    <3>2. step' \in Steps /\ seen' \subseteq seen
      BY <1>17 DEF EnqueueRoom, JobTypes, Steps
    <3>3. queue' \in Seq(Jobs)
      BY <1>17, <3>1, AppendHas, JobsExist DEF EnqueueRoom, Enqueue, NoEnqueue, JobTypes
    <3>4. QED
      BY <3>1, <3>2, <3>3 DEF JobTypes, later
  <2>3. SeenShape'
    BY <1>17 DEF EnqueueRoom, SeenShape, At, Of
  <2>4. QED
    BY <2>1, <2>2, <2>3
<1>18. ASSUME NEW r \in Recordings, CompleteUpload(r) \/ WaitForChunks(r) PROVE Types'
  <2>1. DataTypes' /\ CountTypes' /\ SeenShape'
    BY <1>18 DEF CompleteUpload, WaitForChunks, DataTypes, CountTypes, SeenShape, At,
       RecStates, OpenStates, envVars, workVars
  <2>2. JobTypes'
    <3>1. queue' \in Seq(Jobs)
      BY <1>18, EnqueueTypes, JobsExist DEF CompleteUpload, WaitForChunks, JobTypes
    <3>2. QED
      BY <1>18, <3>1 DEF CompleteUpload, WaitForChunks, JobTypes, later, workVars
  <2>3. QED
    BY <2>1, <2>2
<1>19. CASE EndRound
  <2>1. DataTypes' /\ CountTypes' /\ SeenShape'
    BY <1>19 DEF EndRound, DataTypes, CountTypes, SeenShape, At, envVars, workVars
  <2>2. JobTypes'
    BY <1>19, AppendHas, JobsExist DEF EndRound, Enqueue, JobTypes, later, workVars
  <2>3. QED
    BY <2>1, <2>2
<1>20. CASE SweepStalledUploads
  BY <1>20 DEF SweepStalledUploads, DataTypes, JobTypes, CountTypes, SeenShape, At,
     RecStates, OpenStates, later, workVars
<1>21. CASE RequestAnalysis
  <2>1. {Of("ANALYZE_ROOM", m) : m \in Rooms} \in SUBSET Jobs
    BY JobsExist
  <2>2. queue' \in Seq(Jobs)
    BY <1>21, <2>1, FiniteJobs, EnqueueAll DEF RequestAnalysis
  <2>3. QED
    BY <1>21, <2>2 DEF RequestAnalysis, DataTypes, JobTypes, CountTypes, SeenShape, At,
       dataVars, later, workVars
<1>22. CASE UNCHANGED vars
  BY <1>22 DEF vars, dataVars, later, workVars, envVars, DataTypes, JobTypes, CountTypes,
     SeenShape, At
<1>23. CASE HandlerRaises
  <2>1. DataTypes' /\ CountTypes'
    BY <1>23 DEF HandlerRaises, DataTypes, CountTypes, BetweenCommits, dataVars
  <2>2. JobTypes' /\ SeenShape'
    BY <1>23, RaisedJob DEF JobTypes, SeenShape, At, Steps
  <2>3. QED
    BY <2>1, <2>2
<1>24. CASE ImportChat
  <2>1. DataTypes' /\ CountTypes'
    BY <1>24 DEF ImportChat, DataTypes, CountTypes, envVars
  <2>2. JobTypes' /\ SeenShape'
    BY <1>24 DEF ImportChat, Goto, JobTypes, SeenShape, At, Of, Steps, later
  <2>3. QED
    BY <2>1, <2>2
<1>25. QED
  BY <1>1, <1>2, <1>3, <1>4, <1>5, <1>6, <1>7, <1>8, <1>9, <1>10, <1>11, <1>12, <1>13,
     <1>14, <1>15, <1>16, <1>17, <1>18, <1>19, <1>20, <1>21, <1>22, <1>23, <1>24
     DEF Next, Worker, Handler

(* Columns, queue and worker hold what they may hold, in every order of    *)
(* the handlers, the uploads, the sweep and the restarts.                  *)
THEOREM PipelineTypes == Spec => []TypeOK
<1>1. Types => TypeOK
  BY DEF Types
<1>2. QED
  BY <1>1, TypesInit, TypesStep, PTL DEF Spec
-----------------------------------------------------------------------------
(* The clustering job, by its places: at most once in the queue, at most   *)
(* once among the delayed, never in both, and in neither while it runs.    *)
Clustering == Of("ANALYZE_ROUND", "round")

OneAtMost ==
    /\ Once(queue, Clustering) /\ Once(delayed, Clustering) /\ Once(stale, Clustering)
    /\ ~(Has(queue, Clustering) /\ Has(delayed, Clustering))
    /\ ~(Has(queue, Clustering) /\ Has(stale, Clustering))
    /\ ~(Has(delayed, Clustering) /\ Has(stale, Clustering))
    /\ job = Clustering => /\ ~Has(queue, Clustering) /\ ~Has(delayed, Clustering)
                           /\ ~Has(stale, Clustering)

LEMMA OneFrame ==
    ASSUME OneAtMost, queue' = queue, delayed' = delayed, stale' = stale,
           job' \in {job, NoJob}
    PROVE  OneAtMost'
BY DEF OneAtMost, Clustering, NoJob, Of

(* Whatever else is enqueued does not count.                               *)
LEMMA OneOther ==
    ASSUME JobTypes, OneAtMost, NEW e \in Jobs, e # Clustering, Enqueue(e),
           delayed' = delayed, stale' = stale, job' = job
    PROVE  OneAtMost'
BY AppendHas DEF OneAtMost, JobTypes, Enqueue, Clustering

LEMMA OneOthers ==
    ASSUME JobTypes, OneAtMost, NEW T \in SUBSET Jobs, IsFiniteSet(T), Clustering \notin T,
           queue' = queue \o SetToSeq(T), delayed' = delayed, stale' = stale, job' = job
    PROVE  OneAtMost'
BY EnqueueAll DEF OneAtMost, Clustering

LEMMA OneStep == Types /\ OneAtMost /\ [Next]_vars => OneAtMost'
<1> SUFFICES ASSUME Types, OneAtMost, [Next]_vars PROVE OneAtMost'
  OBVIOUS
<1>0. JobTypes
  BY DEF Types, TypeOK
<1>1. CASE Claim
  <2>1. /\ job' = Head(queue) /\ queue' = Tail(queue) /\ queue # <<>> /\ delayed' = delayed
        /\ queue \in Seq(Jobs) /\ stale' = stale
    BY <1>0, <1>1 DEF Claim, later, JobTypes
  <2>2. QED
    BY <2>1, TailHas DEF OneAtMost, Clustering
<1>2. CASE DelayIsOver
  <2>1. PICK i \in DOMAIN delayed : Enqueue(delayed[i]) /\ delayed' = RemoveAt(delayed, i)
    BY <1>2 DEF DelayIsOver
  <2>2. /\ delayed[i] \in Jobs
        /\ \A j : Has(delayed, j) <=> Has(delayed', j) \/ j = delayed[i]
        /\ \A j : Once(delayed, j) => /\ Once(delayed', j)
                                      /\ j = delayed[i] => ~Has(delayed', j)
    BY <1>0, <2>1, RemoveAtHas DEF JobTypes
  <2>3. /\ \A j : Has(queue', j) <=> Has(queue, j) \/ j = delayed[i]
        /\ \A j : Once(queue, j) /\ (j # delayed[i] \/ ~Has(queue, j)) => Once(queue', j)
    BY <1>0, <2>1, <2>2, AppendHas DEF JobTypes, Enqueue
  <2>4. job' = job /\ stale' = stale
    BY <1>2 DEF DelayIsOver, workVars
  <2>5. QED
    BY <2>2, <2>3, <2>4 DEF OneAtMost, Clustering
<1>3. CASE Crash
  <2>1. /\ stale' = <<>> /\ delayed' = delayed
        /\ \A j : Has(queue', j) <=> Has(queue, j) \/ Has(stale, j) \/ (~Idle /\ j = job)
        /\ \A j : /\ Once(queue, j) /\ Once(stale, j)
                  /\ ~(Has(queue, j) /\ Has(stale, j))
                  /\ ~Idle /\ job = j => ~Has(queue, j) /\ ~Has(stale, j)
                  => Once(queue', j)
    BY <1>0, <1>3, CrashQueue
  <2>2. job' = NoJob /\ NoJob # Clustering /\ \A j : ~Has(stale', j) /\ Once(stale', j)
    BY <1>3, <2>1 DEF Crash, LetGo, NoJob, Clustering, Of, Has, Once
  <2>3. QED
    BY <2>1, <2>2 DEF OneAtMost
<1>4. CASE HandlerRaises
  <2>1. NoJob # Clustering
    BY DEF NoJob, Clustering, Of
  <2>2. QED
    BY <1>0, <1>4, <2>1, RaisedJob DEF OneAtMost
<1>5. ASSUME NEW r \in Recordings, AssembleAudio(r) PROVE OneAtMost'
  BY <1>5, OneFrame DEF AssembleAudio, Goto, later
<1>6. ASSUME NEW m \in Rooms, RoomAnswer(m) PROVE OneAtMost'
  BY <1>6, OneFrame DEF RoomAnswer, Goto, later
<1>7. ASSUME NEW r \in Recordings,
             EnqueueTranscription(r) \/ FallBackToLive(r) \/ EnqueueRoomAnalysis(r)
                \/ CompleteUpload(r)
      PROVE  OneAtMost'
  <2>1. delayed' = delayed /\ stale' = stale /\ job' = job
    BY <1>7 DEF EnqueueTranscription, FallBackToLive, EnqueueRoomAnalysis, CompleteUpload,
       Goto, later, workVars
  <2>2. \E e \in Jobs : e # Clustering /\ Enqueue(e)
    <3>1. RoomOf[r] \in Rooms
      BY PipelineAssumption
    <3>2. CASE EnqueueTranscription(r)
      <4>1. \/ Enqueue(Of("TRANSCRIBE_FINAL", r)) \/ Enqueue(Of("TRANSCRIBE_FROM_LIVE", r))
        BY <3>2 DEF EnqueueTranscription
      <4>2. QED
        BY <4>1, JobsExist DEF Clustering, Of
    <3>3. CASE FallBackToLive(r)
      BY <3>3, JobsExist DEF FallBackToLive, Clustering, Of
    <3>4. CASE EnqueueRoomAnalysis(r)
      BY <3>1, <3>4, JobsExist DEF EnqueueRoomAnalysis, Clustering, Of
    <3>5. CASE CompleteUpload(r)
      BY <3>5, JobsExist DEF CompleteUpload, Clustering, Of
    <3>6. QED
      BY <1>7, <3>2, <3>3, <3>4, <3>5
  <2>3. QED
    BY <1>0, <2>1, <2>2, OneOther
<1>8. ASSUME NEW m \in Rooms, MaybeFinishRound(m) PROVE OneAtMost'
  <2>1. delayed' = delayed /\ stale' = stale /\ job' = job
    BY <1>8 DEF MaybeFinishRound, Goto, later
  <2>2. CASE NoEnqueue
    BY <2>1, <2>2, OneFrame DEF NoEnqueue
  <2>3. CASE RoundCanFinish /\ Enqueue(Clustering)
    <3>1. /\ ~Has(queue, Clustering) /\ ~Has(delayed, Clustering)
          /\ ~Has(stale, Clustering) /\ job # Clustering
      BY <2>3 DEF RoundCanFinish, Live, Has, Clustering, Of, NoJob
    <3>2. QED
      BY <1>0, <2>1, <2>3, <3>1, AppendHas, JobsExist
         DEF OneAtMost, JobTypes, Enqueue, Clustering
  <2>4. QED
    BY <1>8, <2>2, <2>3 DEF MaybeFinishRound, Clustering
<1>9. CASE FinalizeRound
  <2>1. PICK F \in SUBSET Recordings :
           queue' = queue \o SetToSeq({Of("ASSEMBLE_AUDIO", r) : r \in F})
    BY <1>9 DEF FinalizeRound
  <2>2. /\ {Of("ASSEMBLE_AUDIO", r) : r \in F} \in SUBSET Jobs
        /\ Clustering \notin {Of("ASSEMBLE_AUDIO", r) : r \in F}
    BY JobsExist DEF Clustering, Of
  <2>3. delayed' = delayed /\ stale' = stale /\ job' = job
    BY <1>9 DEF FinalizeRound, later
  <2>4. QED
    BY <1>0, <2>1, <2>2, <2>3, FiniteJobs, OneOthers
<1>10. CASE RequestAnalysis
  <2>1. /\ {Of("ANALYZE_ROOM", m) : m \in Rooms} \in SUBSET Jobs
        /\ Clustering \notin {Of("ANALYZE_ROOM", m) : m \in Rooms}
    BY JobsExist DEF Clustering, Of
  <2>2. delayed' = delayed /\ stale' = stale /\ job' = job
    BY <1>10 DEF RequestAnalysis, later, workVars
  <2>3. QED
    BY <1>0, <1>10, <2>1, <2>2, FiniteJobs, OneOthers DEF RequestAnalysis
<1>11. CASE EnqueueRoom
  <2>1. delayed' = delayed /\ stale' = stale /\ job' = job
    BY <1>11 DEF EnqueueRoom, later
  <2>2. NoEnqueue \/ \E m \in Rooms : Enqueue(Of("ANALYZE_ROOM", m))
    BY <1>11 DEF EnqueueRoom, Types, SeenShape
  <2>3. QED
    <3>1. \A m \in Rooms : Of("ANALYZE_ROOM", m) \in Jobs \ {Clustering}
      BY JobsExist DEF Clustering, Of
    <3>2. QED
      BY <1>0, <2>1, <2>2, <3>1, OneFrame, OneOther DEF NoEnqueue
<1>12. CASE EndRound
  <2>1. /\ Enqueue(Of("FINALIZE_ROUND", "round")) /\ job' = job
        /\ delayed' = delayed /\ stale' = stale
    BY <1>12 DEF EndRound, later, workVars
  <2>2. Of("FINALIZE_ROUND", "round") \in Jobs \ {Clustering}
    BY JobsExist DEF Clustering, Of
  <2>3. QED
    BY <1>0, <2>1, <2>2, OneOther
<1>13. ASSUME NEW r \in Recordings, \/ TranscribeFinal(r) \/ ProviderAnswers(r)
                                    \/ TranscribeFromLive(r) \/ WaitForChunks(r)
       PROVE  OneAtMost'
  BY <1>13, OneFrame DEF TranscribeFinal, ProviderAnswers, TranscribeFromLive, WaitForChunks,
     Goto, later, workVars
<1>14. CASE \/ \E m \in Rooms : AnalyzeRoom(m)
            \/ AnalyzeRound \/ RoundAnswer \/ ImportChat \/ Settle \/ SweepStalledUploads
            \/ UNCHANGED vars
  BY <1>14, OneFrame DEF AnalyzeRoom, AnalyzeRound, RoundAnswer, ImportChat, Settle, LetGo,
     SweepStalledUploads, Goto, later, workVars, vars
<1>15. QED
  BY <1>1, <1>2, <1>3, <1>4, <1>5, <1>6, <1>7, <1>8, <1>9, <1>10, <1>11, <1>12, <1>13, <1>14
     DEF Next, Worker, Handler

(* What occurs once at most in a queue is counted once at most.            *)
LEMMA OnceIsCounted ==
    ASSUME NEW s, NEW j, Once(s, j)
    PROVE  Cardinality({i \in DOMAIN s : s[i] = j}) = IF Has(s, j) THEN 1 ELSE 0
<1>1. CASE Has(s, j)
  <2>1. PICK k \in DOMAIN s : s[k] = j
    BY <1>1 DEF Has
  <2>2. {i \in DOMAIN s : s[i] = j} = {k}
    BY <2>1 DEF Once
  <2>3. QED
    BY <1>1, <2>2, FS_Singleton
<1>2. CASE ~Has(s, j)
  <2>1. {i \in DOMAIN s : s[i] = j} = {}
    BY <1>2 DEF Has
  <2>2. QED
    BY <1>2, <2>1, FS_EmptySet
<1>3. QED
  BY <1>1, <1>2

(* One clustering of the round at most is queued, delayed or running,      *)
(* although every room of the round and every restart may ask for one.     *)
THEOREM RoundIsClusteredOnce == Spec => []OneClusteringJob
<1>1. Init => OneAtMost
  BY DEF Init, OneAtMost, Once, Has
<1>2. OneAtMost => OneClusteringJob
  BY OnceIsCounted DEF OneAtMost, OneClusteringJob, Count, Clustering
<1>3. Spec => [](Types /\ OneAtMost)
  BY <1>1, TypesInit, TypesStep, OneStep, PTL DEF Spec
<1>4. QED
  BY <1>2, <1>3, PTL
-----------------------------------------------------------------------------
LEMMA NoJobIsNone == NoJob \notin Jobs
<1>1. \A j \in Jobs : j.type # "none"
  BY DEF Jobs, Of
<1>2. NoJob.type = "none"
  BY DEF NoJob, Of
<1>3. QED
  BY <1>1, <1>2

(* The chain.  A job that waits its turn stays in line until it is claimed.*)
Coming(j) == Has(queue, j) \/ Has(delayed, j) \/ Has(stale, j)
Kept(j)   == Coming(j) \/ j \in failed

LEMMA EnqueuedComes ==
    ASSUME JobTypes, NEW e \in Jobs, Enqueue(e), delayed' = delayed, stale' = stale
    PROVE  Coming(e)' /\ \A j : Coming(j) => Coming(j)'
BY AppendHas DEF JobTypes, Enqueue, Coming

(* Nor does one that its handler raised or a crash cut off get lost.       *)
LEMMA PutBack ==
    ASSUME JobTypes, HandlerRaises \/ Crash
    PROVE  /\ \A j \in Jobs : j = job => Kept(j)'
           /\ \A j : Coming(j) => Coming(j)'
<1>1. CASE HandlerRaises
  BY <1>1, RaisedJob DEF Coming, Kept
<1>2. CASE Crash
  <2>1. NoJob \notin Jobs
    BY NoJobIsNone
  <2>2. QED
    BY <1>2, <2>1, CrashQueue DEF Coming, Kept, Idle
<1>3. QED
  BY <1>1, <1>2

LEMMA SameLine ==
    ASSUME queue' = queue, delayed' = delayed, stale' = stale
    PROVE  \A j : Coming(j) => Coming(j)'
BY DEF Coming

LEMMA ComingStep ==
    ASSUME Types, [Next]_vars, NEW j, Coming(j)
    PROVE  Coming(j)' \/ (Claim /\ job' = j)
<1>0. JobTypes
  BY DEF Types, TypeOK
<1>1. CASE Claim
  <2>1. /\ job' = Head(queue) /\ queue' = Tail(queue) /\ queue # <<>> /\ delayed' = delayed
        /\ queue \in Seq(Jobs) /\ stale' = stale
    BY <1>0, <1>1 DEF Claim, later, JobTypes
  <2>2. QED
    BY <1>1, <2>1, TailHas DEF Coming
<1>2. CASE DelayIsOver
  <2>1. PICK i \in DOMAIN delayed : Enqueue(delayed[i]) /\ delayed' = RemoveAt(delayed, i)
    BY <1>2 DEF DelayIsOver
  <2>2. /\ delayed[i] \in Jobs /\ stale' = stale
        /\ \A k : Has(delayed, k) <=> Has(delayed', k) \/ k = delayed[i]
    BY <1>0, <1>2, <2>1, RemoveAtHas DEF JobTypes, DelayIsOver
  <2>3. \A k : Has(queue', k) <=> Has(queue, k) \/ k = delayed[i]
    BY <1>0, <2>1, <2>2, AppendHas DEF JobTypes, Enqueue
  <2>4. QED
    BY <2>2, <2>3 DEF Coming
<1>3. CASE HandlerRaises \/ Crash
  BY <1>0, <1>3, PutBack
<1>4. ASSUME NEW r \in Recordings, AssembleAudio(r) PROVE Coming(j)'
  BY <1>4, SameLine DEF AssembleAudio, later
<1>5. ASSUME NEW m \in Rooms, RoomAnswer(m) PROVE Coming(j)'
  BY <1>5, SameLine DEF RoomAnswer, later
<1>6. ASSUME NEW e \in Jobs, Enqueue(e), delayed' = delayed, stale' = stale PROVE Coming(j)'
  BY <1>0, <1>6, EnqueuedComes
<1>7. ASSUME NEW r \in Recordings,
             EnqueueTranscription(r) \/ FallBackToLive(r) \/ EnqueueRoomAnalysis(r)
                \/ CompleteUpload(r)
      PROVE  Coming(j)'
  <2>1. delayed' = delayed /\ stale' = stale
    BY <1>7 DEF EnqueueTranscription, FallBackToLive, EnqueueRoomAnalysis, CompleteUpload, later
  <2>2. CASE EnqueueTranscription(r)
    <3>1. \/ Enqueue(Of("TRANSCRIBE_FINAL", r)) \/ Enqueue(Of("TRANSCRIBE_FROM_LIVE", r))
      BY <2>2 DEF EnqueueTranscription
    <3>2. QED
      BY <1>6, <2>1, <3>1, JobsExist
  <2>3. CASE FallBackToLive(r)
    BY <1>6, <2>1, <2>3, JobsExist DEF FallBackToLive
  <2>4. CASE EnqueueRoomAnalysis(r)
    BY <1>6, <2>1, <2>4, JobsExist, PipelineAssumption DEF EnqueueRoomAnalysis
  <2>5. CASE CompleteUpload(r)
    BY <1>6, <2>1, <2>5, JobsExist DEF CompleteUpload
  <2>6. QED
    BY <1>7, <2>2, <2>3, <2>4, <2>5
<1>8. ASSUME NEW m \in Rooms, MaybeFinishRound(m) PROVE Coming(j)'
  BY <1>6, <1>8, SameLine, JobsExist DEF MaybeFinishRound, NoEnqueue, later
<1>9. CASE FinalizeRound
  <2>1. PICK F \in SUBSET Recordings :
           queue' = queue \o SetToSeq({Of("ASSEMBLE_AUDIO", r) : r \in F})
    BY <1>9 DEF FinalizeRound
  <2>2. {Of("ASSEMBLE_AUDIO", r) : r \in F} \in SUBSET Jobs
    BY JobsExist
  <2>3. \A k : Has(queue, k) => Has(queue', k)
    BY <1>0, <2>1, <2>2, FiniteJobs, EnqueueAll
  <2>4. QED
    BY <1>9, <2>3 DEF FinalizeRound, later, Coming
<1>10. CASE RequestAnalysis
  <2>1. {Of("ANALYZE_ROOM", m) : m \in Rooms} \in SUBSET Jobs
    BY JobsExist
  <2>2. \A k : Has(queue, k) => Has(queue', k)
    BY <1>0, <1>10, <2>1, FiniteJobs, EnqueueAll DEF RequestAnalysis
  <2>3. QED
    BY <1>10, <2>2 DEF RequestAnalysis, later, Coming
<1>11. CASE EnqueueRoom
  <2>1. /\ delayed' = delayed /\ stale' = stale
        /\ NoEnqueue \/ \E m \in Rooms : Enqueue(Of("ANALYZE_ROOM", m))
    BY <1>11 DEF EnqueueRoom, Types, SeenShape, later
  <2>2. QED
    BY <1>6, <2>1, SameLine, JobsExist DEF NoEnqueue
<1>12. CASE EndRound
  BY <1>6, <1>12, JobsExist DEF EndRound, later
<1>13. ASSUME NEW r \in Recordings, \/ TranscribeFinal(r) \/ ProviderAnswers(r)
                                    \/ TranscribeFromLive(r) \/ WaitForChunks(r)
       PROVE  Coming(j)'
  BY <1>13, SameLine DEF TranscribeFinal, ProviderAnswers, TranscribeFromLive, WaitForChunks,
     later
<1>14. CASE \/ \E m \in Rooms : AnalyzeRoom(m)
            \/ AnalyzeRound \/ RoundAnswer \/ ImportChat \/ Settle \/ SweepStalledUploads
            \/ UNCHANGED vars
  BY <1>14, SameLine DEF AnalyzeRoom, AnalyzeRound, RoundAnswer, ImportChat, Settle,
     SweepStalledUploads, later, vars
<1>15. QED
  BY <1>1, <1>2, <1>3, <1>4, <1>5, <1>7, <1>8, <1>9, <1>10, <1>11, <1>12, <1>13, <1>14
     DEF Next, Worker, Handler

LEMMA FailedStays == Types /\ [Next]_vars => failed \subseteq failed'
<1> SUFFICES ASSUME Types, [Next]_vars PROVE failed \subseteq failed'
  OBVIOUS
<1>1. CASE HandlerRaises \/ Settle
  BY <1>1 DEF HandlerRaises, Settle
<1>2. CASE failed' = failed
  BY <1>2
<1>3. CASE \E r \in Recordings : AssembleAudio(r)
  BY <1>2, <1>3 DEF AssembleAudio, later
<1>4. CASE \E m \in Rooms : RoomAnswer(m)
  BY <1>2, <1>4 DEF RoomAnswer, later
<1>5. CASE \E r \in Recordings : \/ EnqueueTranscription(r) \/ TranscribeFinal(r)
                                 \/ ProviderAnswers(r) \/ FallBackToLive(r)
                                 \/ TranscribeFromLive(r) \/ EnqueueRoomAnalysis(r)
                                 \/ CompleteUpload(r) \/ WaitForChunks(r)
  BY <1>2, <1>5 DEF EnqueueTranscription, TranscribeFinal, ProviderAnswers, FallBackToLive,
     TranscribeFromLive, EnqueueRoomAnalysis, CompleteUpload, WaitForChunks, later
<1>6. CASE \E m \in Rooms : AnalyzeRoom(m) \/ MaybeFinishRound(m)
  BY <1>2, <1>6 DEF AnalyzeRoom, MaybeFinishRound, later
<1>7. CASE \/ AnalyzeRound \/ RoundAnswer \/ ImportChat \/ FinalizeRound \/ EnqueueRoom
           \/ Claim \/ DelayIsOver \/ Crash \/ EndRound \/ SweepStalledUploads \/ RequestAnalysis
           \/ UNCHANGED vars
  BY <1>2, <1>7 DEF AnalyzeRound, RoundAnswer, ImportChat, FinalizeRound, EnqueueRoom, Claim,
     DelayIsOver, Crash, EndRound, SweepStalledUploads, RequestAnalysis, later, vars
<1>8. QED
  BY <1>1, <1>3, <1>4, <1>5, <1>6, <1>7 DEF Next, Worker, Handler

(* What a recording's state, its transcript and the worker's place in a    *)
(* handler say about one another.                                          *)
RecordShape(r) ==
    /\ At("TRANSCRIBE_FINAL", r, "called") => rec[r] = "TRANSCRIBING"
    /\ transcript[r] = "final" => rec[r] = "TRANSCRIBED"
    /\ rec[r] = "TRANSCRIBED" => transcript[r] # "none"
    /\ At("ANALYZE_ROOM", RoomOf[r], "asked") /\ transcript[r] # "none" => r \in seen
    /\ transcript[r] = "live" => r \in captions
    /\ At("TRANSCRIBE_FROM_LIVE", r, "next") => transcript[r] = "live"

RecordShapes == \A r \in Recordings : RecordShape(r)

LEMMA CaptionsStay == [Next]_vars => captions' = captions
BY DEF Next, Worker, Handler, Claim, Settle, HandlerRaises, DelayIsOver, Crash, AssembleAudio,
   EnqueueTranscription, TranscribeFinal, ProviderAnswers, FallBackToLive,
   TranscribeFromLive, EnqueueRoomAnalysis, AnalyzeRoom, RoomAnswer, MaybeFinishRound,
   AnalyzeRound, RoundAnswer, ImportChat, FinalizeRound, EnqueueRoom, CompleteUpload,
   WaitForChunks, EndRound, SweepStalledUploads, RequestAnalysis, dataVars, vars

LEMMA RecordStep == Types /\ RecordShapes /\ [Next]_vars => RecordShapes'
<1> SUFFICES ASSUME Types, RecordShapes, [Next]_vars, NEW r \in Recordings
             PROVE  RecordShape(r)'
  BY DEF RecordShapes
<1>0. /\ RecordShape(r) /\ RoomOf[r] \in Rooms
      /\ rec \in [Recordings -> RecStates] /\ captions' = captions
      /\ transcript \in [Recordings -> {"none", "live", "final"}]
  BY PipelineAssumption, CaptionsStay DEF RecordShapes, Types, TypeOK, DataTypes
<1>1. CASE rec'[r] = rec[r] /\ transcript'[r] = transcript[r] /\ UNCHANGED workVars
  BY <1>0, <1>1 DEF RecordShape, At, workVars
<1>2. ASSUME rec'[r] = rec[r], transcript'[r] = transcript[r],
             \/ step' \notin {"called", "asked", "next"}
             \/ /\ job' # Of("TRANSCRIBE_FINAL", r) /\ job' # Of("ANALYZE_ROOM", RoomOf[r])
                /\ job' # Of("TRANSCRIBE_FROM_LIVE", r)
      PROVE  RecordShape(r)'
  BY <1>0, <1>2 DEF RecordShape, At
<1>3. CASE Claim \/ Settle \/ HandlerRaises \/ Crash
  BY <1>2, <1>3 DEF Claim, Settle, HandlerRaises, Crash, LetGo, dataVars
<1>4. CASE DelayIsOver \/ EndRound \/ RequestAnalysis \/ UNCHANGED vars
  BY <1>1, <1>4 DEF DelayIsOver, EndRound, RequestAnalysis, dataVars, vars
<1>5. ASSUME NEW q \in Recordings, AssembleAudio(q) PROVE RecordShape(r)'
  <2>1. /\ transcript' = transcript /\ step' \notin {"called", "asked"}
        /\ job' = Of("ASSEMBLE_AUDIO", q)
    BY <1>5 DEF AssembleAudio, Goto, At
  <2>2. \/ rec'[r] = rec[r]
        \/ rec[r] = "ASSEMBLING" /\ rec'[r] \notin {"ASSEMBLING", "TRANSCRIBED"}
    BY <1>0, <1>5 DEF AssembleAudio
  <2>3. QED
    BY <1>0, <2>1, <2>2 DEF RecordShape, At, Of
<1>6. ASSUME NEW q \in Recordings,
             EnqueueTranscription(q) \/ FallBackToLive(q) \/ EnqueueRoomAnalysis(q)
      PROVE  RecordShape(r)'
  BY <1>2, <1>6 DEF EnqueueTranscription, FallBackToLive, EnqueueRoomAnalysis, Goto, dataVars
<1>7. ASSUME NEW q \in Recordings, TranscribeFinal(q) PROVE RecordShape(r)'
  <2>1. transcript' = transcript /\ job' = job /\ job = Of("TRANSCRIBE_FINAL", q)
    BY <1>7 DEF TranscribeFinal, Goto, At
  <2>2. CASE q = r
    <3>1. \/ rec'[r] = rec[r] /\ step' = "settle"
          \/ /\ rec[r] \in {"AUDIO_READY", "TRANSCRIPTION_FAILED"}
             /\ rec'[r] = "TRANSCRIBING"
      BY <1>0, <1>7, <2>2 DEF TranscribeFinal, Goto
    <3>2. QED
      BY <1>0, <2>1, <3>1 DEF RecordShape, At, Of
  <2>3. CASE q # r
    BY <1>0, <1>2, <1>7, <2>1, <2>3 DEF TranscribeFinal, Of
  <2>4. QED
    BY <2>2, <2>3
<1>8. ASSUME NEW q \in Recordings, ProviderAnswers(q) PROVE RecordShape(r)'
  <2>1. /\ job' = job /\ job = Of("TRANSCRIBE_FINAL", q) /\ step = "called"
        /\ step' \notin {"called", "asked"} /\ job' # Of("TRANSCRIBE_FROM_LIVE", r)
    BY <1>8 DEF ProviderAnswers, Goto, At, Of
  <2>2. CASE q = r
    <3>1. rec[r] = "TRANSCRIBING"
      BY <1>0, <2>1, <2>2 DEF RecordShape, At
    <3>2. \/ rec'[r] = "TRANSCRIBED" /\ transcript'[r] = "final"
          \/ rec'[r] = "TRANSCRIPTION_FAILED" /\ transcript'[r] = transcript[r]
      BY <1>0, <1>8, <2>2 DEF ProviderAnswers
    <3>3. QED
      BY <1>0, <2>1, <3>1, <3>2 DEF RecordShape, At
  <2>3. CASE q # r
    <3>1. rec'[r] = rec[r] /\ transcript'[r] = transcript[r]
      BY <1>0, <1>8, <2>3 DEF ProviderAnswers
    <3>2. job' # Of("TRANSCRIBE_FINAL", r) /\ job' # Of("ANALYZE_ROOM", RoomOf[r])
      BY <2>1, <2>3 DEF Of
    <3>3. QED
      BY <1>2, <2>1, <3>1, <3>2
  <2>4. QED
    BY <2>2, <2>3
<1>9. ASSUME NEW q \in Recordings, TranscribeFromLive(q) PROVE RecordShape(r)'
  <2>1. step' \notin {"called", "asked"} /\ job' = Of("TRANSCRIBE_FROM_LIVE", q)
    BY <1>9 DEF TranscribeFromLive, Goto, At
  <2>2. CASE q = r
    <3>1. \/ rec'[r] = rec[r] /\ transcript'[r] = transcript[r] /\ step' = "settle"
          \/ /\ transcript[r] # "final" /\ transcript'[r] = "live" /\ r \in captions
             /\ rec'[r] = rec[r] \/ rec'[r] = "TRANSCRIBED"
      BY <1>0, <1>9, <2>2 DEF TranscribeFromLive, Goto
    <3>2. QED
      BY <1>0, <2>1, <3>1 DEF RecordShape, At
  <2>3. CASE q # r
    <3>1. rec'[r] = rec[r] /\ transcript'[r] = transcript[r]
      BY <1>0, <1>9, <2>3 DEF TranscribeFromLive
    <3>2. QED
      BY <1>2, <2>1, <2>3, <3>1 DEF Of
  <2>4. QED
    BY <2>2, <2>3
<1>10. ASSUME NEW m \in Rooms, AnalyzeRoom(m) PROVE RecordShape(r)'
  <2>1. CASE step' = "finish"
    BY <1>2, <1>10, <2>1 DEF AnalyzeRoom, dataVars
  <2>2. CASE step' = "asked" /\ seen' = Material(m) /\ job' = Of("ANALYZE_ROOM", m)
    BY <1>0, <1>10, <2>2 DEF AnalyzeRoom, RecordShape, Material, At, Of, dataVars
  <2>3. QED
    BY <1>10, <2>1, <2>2 DEF AnalyzeRoom, At
<1>11. ASSUME NEW m \in Rooms, RoomAnswer(m) \/ MaybeFinishRound(m) PROVE RecordShape(r)'
  BY <1>2, <1>11 DEF RoomAnswer, MaybeFinishRound, Goto, dataVars
<1>12. CASE AnalyzeRound \/ RoundAnswer \/ ImportChat
  <2>1. /\ job' = job /\ job.type \in {"ANALYZE_ROUND", "FINALIZE_ROUND"}
        /\ rec' = rec /\ transcript' = transcript
    BY <1>12 DEF AnalyzeRound, RoundAnswer, ImportChat, Goto, At, Of
  <2>2. QED
    BY <1>2, <2>1 DEF Of
<1>13. CASE FinalizeRound
  <2>1. transcript' = transcript /\ step' = "rooms"
    BY <1>13 DEF FinalizeRound
  <2>2. rec'[r] = rec[r] \/ (rec[r] = "WAITING_FOR_CHUNKS" /\ rec'[r] = "ASSEMBLING")
    BY <1>13 DEF FinalizeRound
  <2>3. QED
    BY <1>0, <2>1, <2>2 DEF RecordShape, At
<1>14. CASE EnqueueRoom
  BY <1>2, <1>14 DEF EnqueueRoom, At, dataVars
<1>15. ASSUME NEW q \in Recordings, CompleteUpload(q) \/ WaitForChunks(q)
       PROVE  RecordShape(r)'
  <2>1. transcript' = transcript /\ UNCHANGED workVars
    BY <1>15 DEF CompleteUpload, WaitForChunks
  <2>2. \/ rec'[r] = rec[r]
        \/ /\ rec[r] \in OpenStates \union {"UPLOAD_INCOMPLETE"}
           /\ rec'[r] \in {"ASSEMBLING", "WAITING_FOR_CHUNKS"}
    BY <1>0, <1>15 DEF CompleteUpload, WaitForChunks, OpenStates
  <2>3. QED
    BY <1>0, <2>1, <2>2 DEF RecordShape, At, workVars, OpenStates
<1>16. CASE SweepStalledUploads
  <2>1. transcript' = transcript /\ UNCHANGED workVars
    BY <1>16 DEF SweepStalledUploads
  <2>2. rec'[r] = rec[r] \/ (rec[r] \in OpenStates /\ rec'[r] = "UPLOAD_INCOMPLETE")
    BY <1>16 DEF SweepStalledUploads
  <2>3. QED
    BY <1>0, <2>1, <2>2 DEF RecordShape, At, workVars, OpenStates
<1>17. QED
  BY <1>3, <1>4, <1>5, <1>6, <1>7, <1>8, <1>9, <1>10, <1>11, <1>12, <1>13, <1>14, <1>15,
     <1>16 DEF Next, Worker, Handler

(* Nothing leaves the line while the worker is busy or stays idle.         *)
LEMMA LineIsKept ==
    ASSUME Types, [Next]_vars, job' = job \/ ~Idle
    PROVE  \A j : (Coming(j) => Coming(j)') /\ (Kept(j) => Kept(j)')
<1>1. ASSUME Claim PROVE FALSE
  <2>1. Head(queue) \in Jobs
    BY <1>1, TailHas DEF Claim, Types, TypeOK, JobTypes
  <2>2. NoJob \notin Jobs
    BY NoJobIsNone
  <2>3. QED
    BY <1>1, <2>1, <2>2 DEF Claim, Idle
<1>2. QED
  BY <1>1, ComingStep, FailedStays DEF Kept

(* Where a recording's way goes on, state by state: sharper than Follow in *)
(* that a job in the worker's hands only counts while it has not done its  *)
(* part yet.                                                               *)
ToAssembly(r) == Kept(Of("ASSEMBLE_AUDIO", r)) \/ At("ASSEMBLE_AUDIO", r, "begin")
ToLive(r) ==
    \/ Kept(Of("TRANSCRIBE_FROM_LIVE", r)) \/ At("TRANSCRIBE_FROM_LIVE", r, "begin")
    \/ r \notin captions
ToTranscription(r) ==
    \/ ToLive(r)
    \/ Kept(Of("TRANSCRIBE_FINAL", r)) \/ At("TRANSCRIBE_FINAL", r, "begin")
ToStored(r) ==
    /\ transcript[r] = "live"
    /\ \/ Kept(Of("TRANSCRIBE_FROM_LIVE", r))
       \/ \E s \in {"begin", "next"} : At("TRANSCRIBE_FROM_LIVE", r, s)
ToAnalysis(r) ==
    \/ r \in findings[RoomOf[r]] \/ FALSE \in AnalysisReady
    \/ Kept(Of("ANALYZE_ROOM", RoomOf[r]))
    \/ At("ANALYZE_ROOM", RoomOf[r], "begin") \/ At("ANALYZE_ROOM", RoomOf[r], "asked")
    \/ At("TRANSCRIBE_FINAL", r, "next") \/ ToStored(r)

OnItsWay(r) ==
    /\ rec[r] = "ASSEMBLING" => ToAssembly(r)
    /\ rec[r] = "AUDIO_READY" => At("ASSEMBLE_AUDIO", r, "next") \/ ToTranscription(r)
    /\ rec[r] = "TRANSCRIBING" => At("TRANSCRIBE_FINAL", r, "called")
    /\ rec[r] = "TRANSCRIPTION_FAILED" =>
          At("TRANSCRIBE_FINAL", r, "fallback") \/ ToTranscription(r)
    /\ rec[r] = "TRANSCRIBED" => ToAnalysis(r)

Chain == \A r \in Recordings \ cut : OnItsWay(r)

(* While the worker is busy, a recording's way only changes where the      *)
(* worker is on it.                                                        *)
LEMMA WayLines ==
    ASSUME Types, [Next]_vars, ~Idle, NEW r \in Recordings, captions' = captions
    PROVE  /\ ToAssembly(r) => ToAssembly(r)' \/ At("ASSEMBLE_AUDIO", r, "begin")
           /\ ToLive(r) => ToLive(r)' \/ At("TRANSCRIBE_FROM_LIVE", r, "begin")
           /\ ToTranscription(r) => \/ ToTranscription(r)'
                                    \/ At("TRANSCRIBE_FROM_LIVE", r, "begin")
                                    \/ At("TRANSCRIBE_FINAL", r, "begin")
           /\ ToStored(r) => \/ ToStored(r)' \/ transcript'[r] # transcript[r]
                             \/ At("TRANSCRIBE_FROM_LIVE", r, "begin")
                             \/ At("TRANSCRIBE_FROM_LIVE", r, "next")
           /\ ToAnalysis(r) => \/ ToAnalysis(r)' \/ findings' # findings
                               \/ At("ANALYZE_ROOM", RoomOf[r], "begin")
                               \/ At("ANALYZE_ROOM", RoomOf[r], "asked")
                               \/ At("TRANSCRIBE_FINAL", r, "next")
                               \/ ToStored(r)
           /\ ToLive(r)' => ToTranscription(r)'
           /\ ToStored(r)' => ToAnalysis(r)'
<1>1. \A j : (Coming(j) => Coming(j)') /\ (Kept(j) => Kept(j)')
  BY LineIsKept
<1>2. ToAssembly(r) => ToAssembly(r)' \/ At("ASSEMBLE_AUDIO", r, "begin")
  BY <1>1 DEF ToAssembly
<1>3. ToLive(r) => ToLive(r)' \/ At("TRANSCRIBE_FROM_LIVE", r, "begin")
  BY <1>1 DEF ToLive
<1>4. (ToLive(r)' => ToTranscription(r)') /\ (ToStored(r)' => ToAnalysis(r)')
  BY DEF ToTranscription, ToAnalysis
<1>5. ToTranscription(r) => \/ ToTranscription(r)'
                            \/ At("TRANSCRIBE_FROM_LIVE", r, "begin")
                            \/ At("TRANSCRIBE_FINAL", r, "begin")
  BY <1>1, <1>3 DEF ToTranscription
<1>6. ToAnalysis(r) => \/ ToAnalysis(r)' \/ findings' # findings
                       \/ At("ANALYZE_ROOM", RoomOf[r], "begin")
                       \/ At("ANALYZE_ROOM", RoomOf[r], "asked")
                       \/ At("TRANSCRIBE_FINAL", r, "next")
                       \/ ToStored(r)
  BY <1>1 DEF ToAnalysis
<1>7. ToStored(r) => \/ ToStored(r)' \/ transcript'[r] # transcript[r]
                     \/ At("TRANSCRIBE_FROM_LIVE", r, "begin")
                     \/ At("TRANSCRIBE_FROM_LIVE", r, "next")
  BY <1>1 DEF ToStored
<1>8. QED
  BY <1>2, <1>3, <1>4, <1>5, <1>6, <1>7

(* The worker's places that a recording's way leads through.               *)
Stations(r) ==
    {<<Of("ASSEMBLE_AUDIO", r), "begin">>, <<Of("ASSEMBLE_AUDIO", r), "next">>,
     <<Of("TRANSCRIBE_FINAL", r), "begin">>, <<Of("TRANSCRIBE_FINAL", r), "called">>,
     <<Of("TRANSCRIBE_FINAL", r), "fallback">>, <<Of("TRANSCRIBE_FINAL", r), "next">>,
     <<Of("TRANSCRIBE_FROM_LIVE", r), "begin">>, <<Of("TRANSCRIBE_FROM_LIVE", r), "next">>,
     <<Of("ANALYZE_ROOM", RoomOf[r]), "begin">>, <<Of("ANALYZE_ROOM", RoomOf[r]), "asked">>}

(* A step that neither touches a recording nor leaves such a place leaves  *)
(* it on its way.                                                          *)
LEMMA WayFrame ==
    ASSUME Types, [Next]_vars, NEW r \in Recordings, OnItsWay(r), job' = job \/ ~Idle,
           rec'[r] = rec[r], captions' = captions, transcript'[r] = transcript[r],
           r \in findings[RoomOf[r]] => r \in findings'[RoomOf[r]],
           UNCHANGED <<job, step>> \/ <<job, step>> \notin Stations(r)
    PROVE  OnItsWay(r)'
<1>1. \A j : (Coming(j) => Coming(j)') /\ (Kept(j) => Kept(j)')
  BY LineIsKept
<1>2. ASSUME NEW t, NEW s, NEW x, At(t, x, s), <<Of(t, x), s>> \in Stations(r)
      PROVE  At(t, x, s)'
  BY <1>2 DEF At
<1>3. (ToAssembly(r) => ToAssembly(r)') /\ (ToLive(r) => ToLive(r)')
  BY <1>1, <1>2 DEF ToAssembly, ToLive, Stations
<1>4. ToTranscription(r) => ToTranscription(r)'
  BY <1>1, <1>2, <1>3 DEF ToTranscription, Stations
<1>5. ToStored(r) => ToStored(r)'
  BY <1>1, <1>2 DEF ToStored, Stations
<1>6. ToAnalysis(r) => ToAnalysis(r)'
  BY <1>1, <1>2, <1>5 DEF ToAnalysis, Stations
<1>7. QED
  BY <1>2, <1>3, <1>4, <1>6 DEF OnItsWay, Stations

LEMMA ChainStep ==
    ASSUME Types, RecordShapes, [Next]_vars, NEW r \in Recordings, r \notin cut', OnItsWay(r)
    PROVE  OnItsWay(r)'
<1>0. /\ RecordShape(r) /\ RoomOf[r] \in Rooms /\ JobTypes
      /\ rec \in [Recordings -> RecStates]
      /\ findings \in [Rooms -> SUBSET (Recordings \union {Chat})]
      /\ transcript \in [Recordings -> {"none", "live", "final"}]
  BY PipelineAssumption DEF RecordShapes, Types, TypeOK, DataTypes
<1>1. ASSUME NEW e \in Jobs, Enqueue(e), delayed' = delayed, stale' = stale
      PROVE  Coming(e)' /\ Kept(e)'
  BY <1>0, <1>1, EnqueuedComes DEF Kept
<1>2. CASE Claim
  <2>1. /\ \A j : Coming(j) => Coming(j)' \/ (job' = j /\ step' = "begin")
        /\ \A j : Kept(j) => Kept(j)' \/ (job' = j /\ step' = "begin")
    BY <1>2, ComingStep, FailedStays DEF Claim, Kept
  <2>2. /\ \A t, x, s : At(t, x, s) => t = "none"
        /\ rec' = rec /\ captions' = captions /\ findings' = findings
        /\ transcript' = transcript
    BY <1>2 DEF Claim, Idle, At, Of, NoJob, dataVars
  <2>3. ToAssembly(r) => ToAssembly(r)'
    BY <2>1, <2>2 DEF ToAssembly, At
  <2>4. ToLive(r) => ToLive(r)'
    BY <2>1, <2>2 DEF ToLive, At
  <2>5. ToTranscription(r) => ToTranscription(r)'
    BY <2>1, <2>2, <2>4 DEF ToTranscription, At
  <2>6. ToAnalysis(r) => ToAnalysis(r)'
    BY <2>1, <2>2 DEF ToAnalysis, ToStored, At
  <2>7. QED
    BY <2>2, <2>3, <2>4, <2>5, <2>6 DEF OnItsWay
<1>3. CASE DelayIsOver \/ EndRound \/ RequestAnalysis \/ UNCHANGED vars
  BY <1>3, WayFrame DEF DelayIsOver, EndRound, RequestAnalysis, dataVars, workVars, vars
<1>4. CASE Settle
  <2>1. /\ <<job, step>> \notin Stations(r) /\ rec' = rec /\ transcript' = transcript
        /\ captions' = captions /\ findings' = findings
    BY <1>4 DEF Settle, Stations, dataVars
  <2>2. CASE Idle
    BY <1>4, <2>1, <2>2, WayFrame DEF Settle, LetGo, Idle
  <2>3. CASE ~Idle
    BY <2>1, <2>3, WayFrame
  <2>4. QED
    BY <2>2, <2>3
<1>5. ASSUME NEW t, NEW x, NEW s, At(t, x, s), t # "none", <<Of(t, x), s>> \notin Stations(r),
             rec'[r] = rec[r], captions' = captions, transcript'[r] = transcript[r],
             r \in findings[RoomOf[r]] => r \in findings'[RoomOf[r]]
      PROVE  OnItsWay(r)'
  <2>1. ~Idle /\ <<job, step>> \notin Stations(r)
    BY <1>5 DEF At, Idle, Of, NoJob
  <2>2. QED
    BY <1>5, <2>1, WayFrame
<1>6. ASSUME NEW q \in Recordings, AssembleAudio(q) PROVE OnItsWay(r)'
  <2>1. /\ At("ASSEMBLE_AUDIO", q, "begin") /\ captions' = captions /\ findings' = findings
        /\ ~Idle /\ transcript' = transcript
    BY <1>6 DEF AssembleAudio, At, Idle, Of, NoJob
  <2>2. CASE q # r
    <3>1. <<Of("ASSEMBLE_AUDIO", q), "begin">> \notin Stations(r) /\ rec'[r] = rec[r]
      BY <1>0, <1>6, <2>2 DEF Stations, Of, AssembleAudio
    <3>2. QED
      BY <1>5, <2>1, <3>1
  <2>3. CASE q = r /\ rec'[r] # rec[r]
    <3>1. \/ rec'[r] = "AUDIO_READY" /\ At("ASSEMBLE_AUDIO", r, "next")'
          \/ rec'[r] \in {"WAITING_FOR_CHUNKS", "AUDIO_INVALID"}
      BY <1>0, <1>6, <2>3 DEF AssembleAudio, Goto, At
    <3>2. QED
      BY <3>1 DEF OnItsWay, ToTranscription
  <2>5. CASE q = r /\ rec'[r] = rec[r]
    <3>1. \A t, x, s : At(t, x, s) => t = "ASSEMBLE_AUDIO" /\ s = "begin"
      BY <2>1 DEF At, Of
    <3>2. rec[r] # "ASSEMBLING"
      BY <1>0, <1>6, <2>5 DEF AssembleAudio
    <3>3. QED
      BY <2>1, <2>5, <3>1, <3>2, WayLines DEF OnItsWay
  <2>6. QED
    BY <2>2, <2>3, <2>5
<1>7. ASSUME NEW q \in Recordings, EnqueueTranscription(q) PROVE OnItsWay(r)'
  <2>1. /\ At("ASSEMBLE_AUDIO", q, "next") /\ rec' = rec /\ captions' = captions
        /\ findings' = findings /\ transcript' = transcript
        /\ delayed' = delayed /\ stale' = stale
        /\ \E e \in {Of("TRANSCRIBE_FINAL", q), Of("TRANSCRIBE_FROM_LIVE", q)} : Enqueue(e)
    BY <1>7 DEF EnqueueTranscription, dataVars, later
  <2>2. CASE q # r
    <3>1. <<Of("ASSEMBLE_AUDIO", q), "next">> \notin Stations(r)
      BY <2>2 DEF Stations, Of
    <3>2. QED
      BY <1>5, <2>1, <3>1
  <2>3. CASE q = r
    <3>1. Coming(Of("TRANSCRIBE_FINAL", r))' \/ Coming(Of("TRANSCRIBE_FROM_LIVE", r))'
      BY <1>1, <2>1, <2>3, JobsExist
    <3>2. ToTranscription(r)'
      BY <3>1 DEF ToTranscription, ToLive, Kept
    <3>3. ~Idle /\ \A t, x, s : At(t, x, s) => t = "ASSEMBLE_AUDIO" /\ s = "next"
      BY <2>1 DEF At, Of, Idle, NoJob
    <3>4. QED
      BY <2>1, <3>2, <3>3, WayLines DEF OnItsWay
  <2>4. QED
    BY <2>2, <2>3
<1>8. ASSUME NEW q \in Recordings, TranscribeFinal(q) PROVE OnItsWay(r)'
  <2>1. /\ At("TRANSCRIBE_FINAL", q, "begin") /\ captions' = captions
        /\ findings' = findings /\ transcript' = transcript
    BY <1>8 DEF TranscribeFinal
  <2>2. CASE q # r
    <3>1. <<Of("TRANSCRIBE_FINAL", q), "begin">> \notin Stations(r) /\ rec'[r] = rec[r]
      BY <1>0, <1>8, <2>2 DEF Stations, Of, TranscribeFinal
    <3>2. QED
      BY <1>5, <2>1, <3>1
  <2>3. CASE q = r /\ rec[r] \in {"AUDIO_READY", "TRANSCRIPTION_FAILED"}
    BY <1>0, <1>8, <2>3 DEF TranscribeFinal, Goto, At, OnItsWay
  <2>4. CASE q = r /\ rec[r] \notin {"AUDIO_READY", "TRANSCRIPTION_FAILED"}
    <3>1. ~Idle /\ \A t, x, s : At(t, x, s) => t = "TRANSCRIBE_FINAL" /\ s = "begin"
      BY <2>1 DEF At, Of, Idle, NoJob
    <3>2. rec' = rec
      BY <1>8, <2>4 DEF TranscribeFinal
    <3>3. QED
      BY <2>1, <2>4, <3>1, <3>2, WayLines DEF OnItsWay
  <2>5. QED
    BY <2>2, <2>3, <2>4
<1>9. ASSUME NEW q \in Recordings, ProviderAnswers(q) PROVE OnItsWay(r)'
  <2>1. /\ At("TRANSCRIBE_FINAL", q, "called") /\ captions' = captions
        /\ findings' = findings
    BY <1>9 DEF ProviderAnswers
  <2>2. CASE q # r
    <3>1. /\ <<Of("TRANSCRIBE_FINAL", q), "called">> \notin Stations(r) /\ rec'[r] = rec[r]
          /\ transcript'[r] = transcript[r]
      BY <1>0, <1>9, <2>2 DEF Stations, Of, ProviderAnswers
    <3>2. QED
      BY <1>5, <2>1, <3>1
  <2>3. CASE q = r
    <3>1. \/ rec'[r] = "TRANSCRIBED" /\ At("TRANSCRIBE_FINAL", r, "next")'
          \/ rec'[r] = "TRANSCRIPTION_FAILED" /\ At("TRANSCRIBE_FINAL", r, "fallback")'
      BY <1>0, <1>9, <2>1, <2>3 DEF ProviderAnswers, Goto, At
    <3>2. QED
      BY <3>1 DEF OnItsWay, ToAnalysis
  <2>4. QED
    BY <2>2, <2>3
<1>10. ASSUME NEW q \in Recordings, FallBackToLive(q) PROVE OnItsWay(r)'
  <2>1. /\ At("TRANSCRIBE_FINAL", q, "fallback") /\ rec' = rec /\ captions' = captions
        /\ findings' = findings /\ transcript' = transcript
        /\ delayed' = delayed /\ stale' = stale /\ Enqueue(Of("TRANSCRIBE_FROM_LIVE", q))
    BY <1>10 DEF FallBackToLive, dataVars, later
  <2>2. CASE q # r
    <3>1. <<Of("TRANSCRIBE_FINAL", q), "fallback">> \notin Stations(r)
      BY <2>2 DEF Stations, Of
    <3>2. QED
      BY <1>5, <2>1, <3>1
  <2>3. CASE q = r
    <3>1. ToLive(r)'
      BY <1>1, <2>1, <2>3, JobsExist DEF ToLive, Kept
    <3>2. ~Idle /\ \A t, x, s : At(t, x, s) => t = "TRANSCRIBE_FINAL" /\ s = "fallback"
      BY <2>1 DEF At, Of, Idle, NoJob
    <3>3. QED
      BY <2>1, <3>1, <3>2, WayLines DEF OnItsWay
  <2>4. QED
    BY <2>2, <2>3
<1>11. ASSUME NEW q \in Recordings, TranscribeFromLive(q) PROVE OnItsWay(r)'
  <2>1. /\ At("TRANSCRIBE_FROM_LIVE", q, "begin") /\ captions' = captions
        /\ findings' = findings
    BY <1>11 DEF TranscribeFromLive
  <2>2. CASE q # r
    <3>1. /\ <<Of("TRANSCRIBE_FROM_LIVE", q), "begin">> \notin Stations(r) /\ rec'[r] = rec[r]
          /\ transcript'[r] = transcript[r]
      BY <1>0, <1>11, <2>2 DEF Stations, Of, TranscribeFromLive
    <3>2. QED
      BY <1>5, <2>1, <3>1
  <2>3. CASE q = r
    <3>1. ~Idle /\ \A t, x, s : At(t, x, s) => t = "TRANSCRIBE_FROM_LIVE" /\ s = "begin"
      BY <2>1 DEF At, Of, Idle, NoJob
    <3>2. CASE transcript[r] = "final" \/ r \notin captions
      <4>1. /\ rec' = rec /\ (r \notin captions \/ rec[r] = "TRANSCRIBED")
        BY <1>0, <1>11, <2>3, <3>2 DEF TranscribeFromLive, RecordShape
      <4>2. r \notin captions => ToLive(r)'
        BY <2>1 DEF ToLive
      <4>3. ~ToStored(r)
        BY <1>0, <3>2 DEF ToStored, RecordShape
      <4>4. QED
        BY <2>1, <3>1, <4>1, <4>2, <4>3, WayLines DEF OnItsWay
    <3>3. CASE ~(transcript[r] = "final" \/ r \notin captions)
      <4>1. /\ At("TRANSCRIBE_FROM_LIVE", r, "next")' /\ transcript'[r] = "live"
            /\ \/ rec'[r] = "TRANSCRIBED"
               \/ /\ rec'[r] = rec[r]
                  /\ rec[r] \notin {"AUDIO_READY", "TRANSCRIBING", "TRANSCRIPTION_FAILED"}
        BY <1>0, <1>11, <2>1, <2>3, <3>3 DEF TranscribeFromLive, Goto, At
      <4>2. ToAnalysis(r)'
        BY <4>1 DEF ToAnalysis, ToStored
      <4>3. QED
        BY <2>1, <3>1, <4>1, <4>2, WayLines DEF OnItsWay
    <3>4. QED
      BY <3>2, <3>3
  <2>4. QED
    BY <2>2, <2>3
<1>12. ASSUME NEW q \in Recordings, EnqueueRoomAnalysis(q) PROVE OnItsWay(r)'
  <2>1. PICK t \in {"TRANSCRIBE_FINAL", "TRANSCRIBE_FROM_LIVE"} : At(t, q, "next")
    BY <1>12 DEF EnqueueRoomAnalysis
  <2>2. /\ rec' = rec /\ captions' = captions /\ findings' = findings
        /\ transcript' = transcript /\ delayed' = delayed /\ stale' = stale
        /\ Enqueue(Of("ANALYZE_ROOM", RoomOf[q]))
    BY <1>12 DEF EnqueueRoomAnalysis, dataVars, later
  <2>3. CASE q # r
    <3>1. <<Of(t, q), "next">> \notin Stations(r)
      BY <2>1, <2>3 DEF Stations, Of
    <3>2. QED
      BY <1>5, <2>1, <2>2, <3>1
  <2>4. CASE q = r
    <3>1. Kept(Of("ANALYZE_ROOM", RoomOf[r]))'
      BY <1>0, <1>1, <2>2, <2>4, JobsExist
    <3>2. ToAnalysis(r)'
      BY <3>1 DEF ToAnalysis
    <3>3. ~Idle /\ \A u, x, s : At(u, x, s) => s = "next" /\ u # "ASSEMBLE_AUDIO"
      BY <2>1 DEF At, Of, Idle, NoJob
    <3>4. QED
      BY <2>2, <3>2, <3>3, WayLines DEF OnItsWay
  <2>5. QED
    BY <2>3, <2>4
<1>13. ASSUME NEW m \in Rooms, AnalyzeRoom(m) PROVE OnItsWay(r)'
  <2>1. /\ At("ANALYZE_ROOM", m, "begin") /\ rec' = rec /\ captions' = captions
        /\ findings' = findings /\ job' = job /\ transcript' = transcript
    BY <1>13 DEF AnalyzeRoom, dataVars
  <2>2. CASE m # RoomOf[r]
    <3>1. <<Of("ANALYZE_ROOM", m), "begin">> \notin Stations(r)
      BY <2>2 DEF Stations, Of
    <3>2. QED
      BY <1>5, <2>1, <3>1
  <2>3. CASE m = RoomOf[r]
    <3>1. ~Idle /\ \A t, x, s : At(t, x, s) => t = "ANALYZE_ROOM" /\ s = "begin"
      BY <2>1 DEF At, Of, Idle, NoJob
    <3>2. rec[r] = "TRANSCRIBED" => ToAnalysis(r)'
      <4>1. CASE FALSE \in AnalysisReady
        BY <4>1 DEF ToAnalysis
      <4>2. CASE FALSE \notin AnalysisReady /\ rec[r] = "TRANSCRIBED"
        <5>1. r \in Material(m)
          BY <1>0, <2>3, <4>2 DEF RecordShape, Material
        <5>2. step' = "asked"
          BY <1>13, <4>2, <5>1, PipelineAssumption DEF AnalyzeRoom
        <5>3. At("ANALYZE_ROOM", RoomOf[r], "asked")'
          BY <2>1, <2>3, <5>2 DEF At
        <5>4. QED
          BY <5>3 DEF ToAnalysis
      <4>3. QED
        BY <4>1, <4>2
    <3>3. QED
      BY <2>1, <3>1, <3>2, WayLines DEF OnItsWay
  <2>4. QED
    BY <2>2, <2>3
<1>14. ASSUME NEW m \in Rooms, RoomAnswer(m) PROVE OnItsWay(r)'
  <2>1. /\ At("ANALYZE_ROOM", m, "asked") /\ rec' = rec /\ captions' = captions
        /\ transcript' = transcript
    BY <1>14 DEF RoomAnswer
  <2>2. CASE m # RoomOf[r]
    <3>1. <<Of("ANALYZE_ROOM", m), "asked">> \notin Stations(r)
      BY <2>2 DEF Stations, Of
    <3>2. findings'[RoomOf[r]] = findings[RoomOf[r]]
      BY <1>0, <1>14, <2>2 DEF RoomAnswer
    <3>3. QED
      BY <1>5, <2>1, <3>1, <3>2
  <2>3. CASE m = RoomOf[r]
    <3>1. ~Idle /\ \A t, x, s : At(t, x, s) => t = "ANALYZE_ROOM" /\ s = "asked"
      BY <2>1 DEF At, Of, Idle, NoJob
    <3>2. rec[r] = "TRANSCRIBED" => ToAnalysis(r)'
      <4>1. rec[r] = "TRANSCRIBED" => r \in seen
        BY <1>0, <2>1, <2>3 DEF RecordShape
      <4>2. findings' = [findings EXCEPT ![m] = seen]
        BY <1>14 DEF RoomAnswer
      <4>3. QED
        BY <1>0, <2>3, <4>1, <4>2 DEF ToAnalysis
    <3>3. QED
      BY <2>1, <3>1, <3>2, WayLines DEF OnItsWay
  <2>4. QED
    BY <2>2, <2>3
<1>15. ASSUME NEW m \in Rooms, MaybeFinishRound(m) PROVE OnItsWay(r)'
  <2>1. /\ At("ANALYZE_ROOM", m, "finish") /\ rec' = rec /\ captions' = captions
        /\ transcript' = transcript
    BY <1>15 DEF MaybeFinishRound, dataVars
  <2>2. findings' = findings
    BY <1>15 DEF MaybeFinishRound, dataVars
  <2>3. <<Of("ANALYZE_ROOM", m), "finish">> \notin Stations(r)
    BY DEF Stations
  <2>4. QED
    BY <1>5, <2>1, <2>2, <2>3
<1>16. CASE AnalyzeRound \/ RoundAnswer \/ ImportChat
  <2>1. /\ rec' = rec /\ captions' = captions /\ findings' = findings
        /\ transcript' = transcript
        /\ \/ \E s : At("ANALYZE_ROUND", "round", s)
           \/ At("FINALIZE_ROUND", "round", "begin")
    BY <1>16 DEF AnalyzeRound, RoundAnswer, ImportChat
  <2>2. \A s : /\ <<Of("ANALYZE_ROUND", "round"), s>> \notin Stations(r)
              /\ <<Of("FINALIZE_ROUND", "round"), s>> \notin Stations(r)
    BY DEF Stations, Of
  <2>3. QED
    BY <1>5, <2>1, <2>2
<1>17. CASE FinalizeRound
  <2>1. PICK F \in SUBSET {q \in Recordings : rec[q] = "WAITING_FOR_CHUNKS"} :
           /\ rec' = [q \in Recordings |-> IF q \in F THEN "ASSEMBLING" ELSE rec[q]]
           /\ queue' = queue \o SetToSeq({Of("ASSEMBLE_AUDIO", q) : q \in F})
    BY <1>17 DEF FinalizeRound
  <2>2. CASE r \in F
    <3> DEFINE T == {Of("ASSEMBLE_AUDIO", q) : q \in F}
    <3>1. T \in SUBSET Jobs
      BY JobsExist
    <3>2. IsFiniteSet(T)
      BY FiniteJobs
    <3>3. Of("ASSEMBLE_AUDIO", r) \in T
      BY <2>2
    <3>4. Has(queue', Of("ASSEMBLE_AUDIO", r))
      <4> HIDE DEF T
      <4>1. queue' = queue \o SetToSeq(T)
        BY <2>1 DEF T
      <4>2. \A j : Has(queue', j) <=> Has(queue, j) \/ j \in T
        BY <1>0, <3>1, <3>2, <4>1, EnqueueAll
      <4>3. QED
        BY <3>3, <4>2
    <3>5. ToAssembly(r)'
      BY <3>4 DEF ToAssembly, Kept, Coming
    <3>6. rec'[r] = "ASSEMBLING"
      BY <2>1, <2>2
    <3>7. QED
      BY <3>5, <3>6 DEF OnItsWay
  <2>3. CASE r \notin F
    <3>1. /\ At("FINALIZE_ROUND", "round", "fold") /\ rec'[r] = rec[r]
          /\ captions' = captions /\ findings' = findings /\ transcript' = transcript
      BY <1>17, <2>1, <2>3 DEF FinalizeRound
    <3>2. <<Of("FINALIZE_ROUND", "round"), "fold">> \notin Stations(r)
      BY DEF Stations, Of
    <3>3. QED
      BY <1>5, <3>1, <3>2
  <2>4. QED
    BY <2>2, <2>3
<1>18. CASE EnqueueRoom
  <2>1. /\ At("FINALIZE_ROUND", "round", "rooms") /\ rec' = rec /\ captions' = captions
        /\ findings' = findings /\ transcript' = transcript
    BY <1>18 DEF EnqueueRoom, dataVars
  <2>2. <<Of("FINALIZE_ROUND", "round"), "rooms">> \notin Stations(r)
    BY DEF Stations
  <2>3. QED
    BY <1>5, <2>1, <2>2
<1>19. ASSUME NEW q \in Recordings, CompleteUpload(q) PROVE OnItsWay(r)'
  <2>1. /\ UNCHANGED workVars /\ captions' = captions /\ findings' = findings
        /\ transcript' = transcript
    BY <1>19 DEF CompleteUpload
  <2>2. CASE q # r
    <3>1. rec'[r] = rec[r]
      BY <1>0, <1>19, <2>2 DEF CompleteUpload
    <3>2. QED
      BY <2>1, <3>1, WayFrame DEF workVars
  <2>3. CASE q = r
    <3>1. rec'[r] = "ASSEMBLING"
      BY <1>0, <1>19, <2>3 DEF CompleteUpload
    <3>2. Kept(Of("ASSEMBLE_AUDIO", r))'
      BY <1>1, <1>19, <2>3, JobsExist DEF CompleteUpload, later
    <3>3. QED
      BY <3>1, <3>2 DEF OnItsWay, ToAssembly
  <2>4. QED
    BY <2>2, <2>3
<1>20. ASSUME NEW q \in Recordings, WaitForChunks(q) PROVE OnItsWay(r)'
  <2>1. /\ UNCHANGED workVars /\ captions' = captions /\ findings' = findings
        /\ transcript' = transcript
    BY <1>20 DEF WaitForChunks
  <2>2. rec'[r] = rec[r] \/ rec'[r] = "WAITING_FOR_CHUNKS"
    BY <1>0, <1>20 DEF WaitForChunks
  <2>3. CASE rec'[r] = rec[r]
    BY <2>1, <2>3, WayFrame DEF workVars
  <2>4. QED
    BY <2>2, <2>3 DEF OnItsWay
<1>21. CASE SweepStalledUploads
  <2>1. /\ UNCHANGED workVars /\ captions' = captions /\ findings' = findings
        /\ transcript' = transcript
    BY <1>21 DEF SweepStalledUploads
  <2>2. rec'[r] = rec[r] \/ rec'[r] = "UPLOAD_INCOMPLETE"
    BY <1>0, <1>21 DEF SweepStalledUploads
  <2>3. CASE rec'[r] = rec[r]
    BY <2>1, <2>3, WayFrame DEF workVars
  <2>4. QED
    BY <2>2, <2>3 DEF OnItsWay
<1>22. CASE HandlerRaises \/ Crash
  <2>1. /\ rec' = rec /\ captions' = captions /\ findings' = findings
        /\ transcript' = transcript /\ cut' = cut \union BetweenCommits
    BY <1>22 DEF HandlerRaises, Crash, dataVars
  <2>2. \A j : Kept(j) => Kept(j)'
    BY <1>0, <1>22, PutBack, FailedStays DEF Kept
  <2>3. \A t, x, s : At(t, x, s) /\ Of(t, x) \in Jobs => Kept(Of(t, x))'
    BY <1>0, <1>22, PutBack DEF At
  <2>4. /\ ~At("ASSEMBLE_AUDIO", r, "next")
        /\ ~At("TRANSCRIBE_FINAL", r, "called") /\ ~At("TRANSCRIBE_FINAL", r, "next")
    BY <2>1 DEF BetweenCommits
  <2>5. ToAssembly(r) => ToAssembly(r)'
    BY <2>2, <2>3, JobsExist DEF ToAssembly
  <2>6. ToLive(r) => ToLive(r)'
    BY <2>1, <2>2, <2>3, JobsExist DEF ToLive
  <2>7. /\ ToTranscription(r) => ToTranscription(r)'
        /\ At("TRANSCRIBE_FINAL", r, "fallback") => ToTranscription(r)'
    BY <2>2, <2>3, <2>6, JobsExist DEF ToTranscription
  <2>8. ToAnalysis(r) => ToAnalysis(r)'
    BY <1>0, <2>1, <2>2, <2>3, <2>4, JobsExist DEF ToAnalysis, ToStored
  <2>9. QED
    BY <2>1, <2>4, <2>5, <2>7, <2>8 DEF OnItsWay
<1>23. QED
  BY <1>2, <1>3, <1>4, <1>6, <1>7, <1>8, <1>9, <1>10, <1>11, <1>12, <1>13, <1>14, <1>15,
     <1>16, <1>17, <1>18, <1>19, <1>20, <1>21, <1>22 DEF Next, Worker, Handler

LEMMA CutGrows == [Next]_vars => cut \subseteq cut'
BY DEF Next, Worker, Handler, Claim, Settle, HandlerRaises, DelayIsOver, Crash, AssembleAudio,
   EnqueueTranscription, TranscribeFinal, ProviderAnswers, FallBackToLive,
   TranscribeFromLive, EnqueueRoomAnalysis, AnalyzeRoom, RoomAnswer, MaybeFinishRound,
   AnalyzeRound, RoundAnswer, ImportChat, FinalizeRound, EnqueueRoom, CompleteUpload,
   WaitForChunks, EndRound, SweepStalledUploads, RequestAnalysis, envVars, vars

(* The chain breaks nowhere but between two commits of a handler: any      *)
(* other recording on its way has a job that takes it further, or one that *)
(* has failed for good, and a transcript no finding has looked at has its  *)
(* room's analysis to come, whatever raises, crashes and interleaves.      *)
THEOREM ChainIsUnbroken == Spec => []ChainUnbroken
<1>1. Init => RecordShapes /\ Chain
  BY DEF Init, RecordShapes, RecordShape, Chain, OnItsWay, At, NoJob
<1>2. Types /\ RecordShapes /\ Chain /\ [Next]_vars => Chain'
  <2> SUFFICES ASSUME Types, RecordShapes, Chain, [Next]_vars,
                      NEW r \in Recordings, r \notin cut'
               PROVE  OnItsWay(r)'
    BY DEF Chain
  <2>1. OnItsWay(r)
    BY CutGrows DEF Chain
  <2>2. QED
    BY <2>1, ChainStep
<1>3. Types /\ RecordShapes /\ Chain => ChainUnbroken
  <2> SUFFICES ASSUME Types, RecordShapes, Chain, NEW r \in Recordings \ cut PROVE Follow(r)
    BY DEF ChainUnbroken
  <2>1. \A j : Kept(j) => Goes(j)
    BY DEF Coming, Kept, Has, Live, Goes
  <2>2. \A t, x, s : t # "none" /\ At(t, x, s) => Goes(Of(t, x))
    BY DEF At, Live, Goes, Of, NoJob
  <2>3. OnItsWay(r)
    BY DEF Chain
  <2>4. QED
    BY <2>1, <2>2, <2>3
       DEF Follow, OnItsWay, ToAssembly, ToTranscription, ToLive, ToAnalysis, ToStored
<1>4. Spec => [](Types /\ RecordShapes /\ Chain)
  BY <1>1, <1>2, TypesInit, TypesStep, RecordStep, PTL DEF Spec
<1>5. QED
  BY <1>3, <1>4, PTL

-----------------------------------------------------------------------------
(* Transcripts.                                                            *)
Sources == {"none", "live", "final"}

(* The part of TypeOK that the theorem needs.                              *)
Transcribed == transcript \in [Recordings -> Sources]

(* One step writes at most one transcript, and live captions only where    *)
(* no transcript of the audio is.                                          *)
LEMMA TranscriptStep ==
    ASSUME Transcribed, [Next]_vars
    PROVE  /\ Transcribed'
           /\ \A r \in Recordings : transcript[r] = "final" => transcript'[r] = "final"
<1> USE DEF Transcribed, Sources
<1> DEFINE Goal == /\ Transcribed'
                   /\ \A r \in Recordings :
                        transcript[r] = "final" => transcript'[r] = "final"
<1>1. ASSUME NEW r \in Recordings, ProviderAnswers(r) PROVE Goal
  BY <1>1 DEF ProviderAnswers
<1>2. ASSUME NEW r \in Recordings, TranscribeFromLive(r) PROVE Goal
  BY <1>2 DEF TranscribeFromLive
<1>3. ASSUME UNCHANGED transcript PROVE Goal
  BY <1>3
<1>4. ASSUME Handler PROVE Goal
  <2>1. ASSUME NEW r \in Recordings,
               \/ AssembleAudio(r) \/ EnqueueTranscription(r) \/ TranscribeFinal(r)
               \/ FallBackToLive(r) \/ EnqueueRoomAnalysis(r)
        PROVE  Goal
    BY <1>3, <2>1 DEF AssembleAudio, EnqueueTranscription, TranscribeFinal,
       FallBackToLive, EnqueueRoomAnalysis, dataVars
  <2>2. ASSUME NEW m \in Rooms, AnalyzeRoom(m) \/ RoomAnswer(m) \/ MaybeFinishRound(m)
        PROVE  Goal
    BY <1>3, <2>2 DEF AnalyzeRoom, RoomAnswer, MaybeFinishRound, dataVars
  <2>3. ASSUME AnalyzeRound \/ RoundAnswer \/ ImportChat \/ FinalizeRound \/ EnqueueRoom
        PROVE  Goal
    BY <1>3, <2>3 DEF AnalyzeRound, RoundAnswer, ImportChat, FinalizeRound, EnqueueRoom, dataVars
  <2>4. QED
    BY <1>1, <1>2, <1>4, <2>1, <2>2, <2>3 DEF Handler
<1>5. ASSUME Claim \/ Settle \/ HandlerRaises \/ DelayIsOver \/ Crash PROVE Goal
  BY <1>3, <1>5 DEF Claim, Settle, HandlerRaises, DelayIsOver, Crash, dataVars
<1>6. ASSUME \/ \E r \in Recordings : CompleteUpload(r) \/ WaitForChunks(r)
             \/ EndRound \/ SweepStalledUploads \/ RequestAnalysis
      PROVE  Goal
  BY <1>3, <1>6 DEF CompleteUpload, WaitForChunks, EndRound, SweepStalledUploads,
     RequestAnalysis, dataVars
<1>7. ASSUME UNCHANGED vars PROVE Goal
  BY <1>3, <1>7 DEF vars, dataVars
<1>8. QED
  BY <1>4, <1>5, <1>6, <1>7 DEF Next, Worker

(* A transcript made from the audio is never replaced by live captions nor *)
(* dropped, in whatever order and however often the two transcription jobs *)
(* of a recording run, with failures and restarts.                         *)
THEOREM FinalIsNeverReplaced == Spec => FinalTranscriptWins
<1>1. Init => Transcribed
  BY DEF Init, Transcribed, Sources
<1>2. Transcribed /\ [Next]_vars => Transcribed'
  BY TranscriptStep
<1>3. Spec => []Transcribed
  BY <1>1, <1>2, PTL DEF Spec
<1>4. Transcribed /\ [Next]_vars =>
        [\A r \in Recordings : transcript[r] = "final" => transcript'[r] = "final"]_vars
  BY TranscriptStep
<1>5. QED
  BY <1>3, <1>4, PTL DEF Spec, FinalTranscriptWins
=============================================================================
