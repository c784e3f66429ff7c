---------------------- MODULE PasswordResetQueueProofs ----------------------
(* Safety of PasswordResetQueue for any jobs, workers, capacity and budget. *)
EXTENDS PasswordResetQueue, FiniteSetTheorems, TLAPS

USE QueueAssumption

LEMMA TypeInitially == Init => TypeOK
  BY DEF Init, TypeOK

(* The job of a worker that has one. *)
LEMMA BusyHasJob ==
  ASSUME TypeOK, NEW w \in Worker, worker[w].at # "idle"
  PROVE  /\ worker[w].job \in Job /\ worker[w].attempt \in Nat
         /\ worker[w].at \in {"claimed", "remove", "release"}
  BY DEF TypeOK, Idle, Busy

(* A worker that goes on with its job, and one that is done with it. *)
LEMMA WorkerMoves ==
  ASSUME TypeOK, NEW w \in Worker, worker[w].at # "idle",
         NEW step \in {"claimed", "remove", "release"}, WorkerAt(w, step)
  PROVE  /\ worker' \in [Worker -> {Idle} \cup Busy]
         /\ worker'[w] = [at |-> step, job |-> worker[w].job, attempt |-> worker[w].attempt]
         /\ \A v \in Worker \ {w} : worker'[v] = worker[v]
  <1>1. [at |-> step, job |-> worker[w].job, attempt |-> worker[w].attempt] \in Busy
    BY BusyHasJob DEF Busy
  <1>2. QED
    BY <1>1 DEF TypeOK, WorkerAt

LEMMA WorkerDone ==
  ASSUME TypeOK, NEW w \in Worker, WorkerReturns(w)
  PROVE  /\ worker' \in [Worker -> {Idle} \cup Busy]
         /\ worker'[w] = Idle
         /\ \A v \in Worker \ {w} : worker'[v] = worker[v]
  BY DEF TypeOK, WorkerReturns

(* A claim gives an idle worker a job and the next attempt of it. *)
LEMMA Claims ==
  ASSUME TypeOK, NEW w \in Worker, Claim(w)
  PROVE  \E j \in Job :
    /\ worker[w].at = "idle" /\ Claimable(j)
    /\ attempts[j] \in Nat
    /\ attempts' = [attempts EXCEPT ![j] = attempts[j] + 1]
    /\ lease' = [lease EXCEPT ![j] = "held"]
    /\ worker'[w] = [at |-> IF attempts[j] + 1 > MaxAttempts THEN "remove" ELSE "claimed",
                     job |-> j, attempt |-> attempts[j] + 1]
    /\ worker' \in [Worker -> {Idle} \cup Busy]
    /\ \A v \in Worker \ {w} : worker'[v] = worker[v]
    /\ UNCHANGED <<enqueuing, queue, resting, faults, history>>
  <1>1. PICK j \in Job :
          /\ At(w, "idle")
          /\ Claimable(j)
          /\ attempts' = [attempts EXCEPT ![j] = @ + 1]
          /\ lease' = [lease EXCEPT ![j] = "held"]
          /\ worker' = [worker EXCEPT ![w] =
               [at |-> IF Exhausted(attempts[j] + 1) THEN "remove" ELSE "claimed",
                job |-> j, attempt |-> attempts[j] + 1]]
          /\ UNCHANGED <<enqueuing, queue, resting, faults, history>>
    BY DEF Claim
  <1>2. attempts[j] \in Nat /\ attempts[j] + 1 \in Nat
    BY DEF TypeOK
  <1>3. [at |-> IF attempts[j] + 1 > MaxAttempts THEN "remove" ELSE "claimed",
         job |-> j, attempt |-> attempts[j] + 1] \in Busy
    BY <1>2 DEF Busy
  <1>4. /\ worker' \in [Worker -> {Idle} \cup Busy]
        /\ worker'[w] = [at |-> IF attempts[j] + 1 > MaxAttempts THEN "remove" ELSE "claimed",
                         job |-> j, attempt |-> attempts[j] + 1]
        /\ \A v \in Worker \ {w} : worker'[v] = worker[v]
    BY <1>1, <1>3 DEF TypeOK, Exhausted
  <1>5. attempts' = [attempts EXCEPT ![j] = attempts[j] + 1]
    BY <1>1
  <1>6. QED
    BY <1>1, <1>2, <1>4, <1>5 DEF At

(* Working on a job ends with its removal or its release. *)
LEMMA Processes ==
  ASSUME TypeOK, NEW w \in Worker, Process(w)
  PROVE  \E step \in {"remove", "release"} :
    /\ worker'[w] = [at |-> step, job |-> worker[w].job, attempt |-> worker[w].attempt]
    /\ step = "remove" => worker[w].job \in settled'
    /\ worker' \in [Worker -> {Idle} \cup Busy]
    /\ \A v \in Worker \ {w} : worker'[v] = worker[v]
  <1>1. worker[w].at # "idle"
    BY DEF Process, At
  <1>2. PICK step \in {"remove", "release"} :
          WorkerAt(w, step) /\ (step = "remove" => worker[w].job \in settled')
    BY DEF Process
  <1>3. step \in {"claimed", "remove", "release"}
    OBVIOUS
  <1>4. /\ worker'[w] = [at |-> step, job |-> worker[w].job, attempt |-> worker[w].attempt]
        /\ worker' \in [Worker -> {Idle} \cup Busy]
        /\ \A v \in Worker \ {w} : worker'[v] = worker[v]
    BY <1>1, <1>2, <1>3, WorkerMoves
  <1>5. QED
    BY <1>2, <1>4

LEMMA TypeKept == TypeOK /\ [Next]_vars => TypeOK'
  <1> SUFFICES ASSUME TypeOK, [Next]_vars PROVE TypeOK'
    OBVIOUS
  <1>1. CASE UNCHANGED vars
    BY <1>1 DEF vars, TypeOK, jobVars, history
  <1>2. ASSUME NEW j \in Job, Enqueue(j) PROVE TypeOK'
    BY <1>2 DEF Enqueue, EnqueueLock, EnqueueInsert, EnqueueCommit, EnqueueFails,
                TypeOK, jobVars, history
  <1>3. ASSUME NEW j \in Job, Time(j) \/ Stall(j) PROVE TypeOK'
    BY <1>3 DEF Time, Rested, LeaseExpires, Stall, Fault, TypeOK, jobVars, history
  <1>4. ASSUME NEW w \in Worker, Claim(w) PROVE TypeOK'
    <2>1. PICK j \in Job :
            /\ attempts[j] \in Nat
            /\ attempts' = [attempts EXCEPT ![j] = attempts[j] + 1]
            /\ lease' = [lease EXCEPT ![j] = "held"]
            /\ worker' \in [Worker -> {Idle} \cup Busy]
            /\ UNCHANGED <<enqueuing, queue, resting, faults, history>>
      BY <1>4, Claims
    <2>2. attempts' \in [Job -> Nat] /\ lease' \in [Job -> {"none", "held", "expired"}]
      BY <2>1 DEF TypeOK
    <2>3. QED
      BY <2>1, <2>2 DEF TypeOK, history
  <1>5. ASSUME NEW w \in Worker, Process(w) PROVE TypeOK'
    <2>1. worker[w].job \in Job
      BY <1>5, BusyHasJob DEF Process, At
    <2>2. worker' \in [Worker -> {Idle} \cup Busy]
      BY <1>5, Processes
    <2>3. QED
      BY <1>5, <2>1, <2>2 DEF Process, TypeOK, jobVars
  <1>6. ASSUME NEW w \in Worker, Remove(w) PROVE TypeOK'
    BY <1>6, WorkerDone DEF Remove, Delete, TypeOK, history
  <1>7. ASSUME NEW w \in Worker, Release(w) PROVE TypeOK'
    <2>1. worker[w].job \in Job
      BY <1>7, BusyHasJob DEF Release, At
    <2>2. QED
      BY <1>7, <2>1, WorkerDone DEF Release, Delete, TypeOK, history
  <1>8. ASSUME NEW w \in Worker, WorkerFails(w) PROVE TypeOK'
    BY <1>8, WorkerDone DEF WorkerFails, Fault, TypeOK, jobVars, history
  <1>9. QED
    BY <1>1, <1>2, <1>3, <1>4, <1>5, <1>6, <1>7, <1>8 DEF Next, WorkerStep

(* Every reachable state is well typed. *)
THEOREM TypeCorrect == Spec => []TypeOK
  BY TypeInitially, TypeKept, PTL DEF Spec

-----------------------------------------------------------------------------
(* The budget: a claim either counts as an attempt still to be worked on, or it
   is beyond the budget. *)

ClaimedBy(j) == {w \in Worker : worker[w].at = "claimed" /\ worker[w].job = j}

Counted == \A j \in Job :
  /\ runs[j] + Cardinality(ClaimedBy(j)) <= attempts[j]
  /\ runs[j] + Cardinality(ClaimedBy(j)) <= MaxAttempts

LEMMA ClaimedIsFinite ==
  ASSUME NEW j \in Job
  PROVE  IsFiniteSet(ClaimedBy(j)) /\ Cardinality(ClaimedBy(j)) \in Nat
  <1>1. ClaimedBy(j) \subseteq Worker
    BY DEF ClaimedBy
  <1>2. IsFiniteSet(ClaimedBy(j))
    BY <1>1, FS_Subset
  <1>3. QED
    BY <1>2, FS_CardinalityType

LEMMA CountedInitially == Init => Counted
  <1> SUFFICES ASSUME Init, NEW j \in Job
               PROVE  /\ runs[j] + Cardinality(ClaimedBy(j)) <= attempts[j]
                      /\ runs[j] + Cardinality(ClaimedBy(j)) <= MaxAttempts
    BY DEF Counted
  <1>1. ClaimedBy(j) = {}
    BY DEF Init, ClaimedBy, Idle
  <1>2. Cardinality(ClaimedBy(j)) = 0
    BY <1>1, FS_EmptySet
  <1>3. QED
    BY <1>2 DEF Init

(* A worker that is done, or not claimed before, leaves the count as low. *)
LEMMA CountedIfFewer ==
  ASSUME TypeOK, Counted, UNCHANGED <<runs, attempts>>,
         \A j \in Job : ClaimedBy(j)' \subseteq ClaimedBy(j)
  PROVE  Counted'
  <1> SUFFICES ASSUME NEW j \in Job
               PROVE  /\ runs'[j] + Cardinality(ClaimedBy(j)') <= attempts'[j]
                      /\ runs'[j] + Cardinality(ClaimedBy(j)') <= MaxAttempts
    BY DEF Counted
  <1>1. IsFiniteSet(ClaimedBy(j)) /\ Cardinality(ClaimedBy(j)) \in Nat
    BY ClaimedIsFinite
  <1>2. /\ Cardinality(ClaimedBy(j)') \in Nat
        /\ Cardinality(ClaimedBy(j)') <= Cardinality(ClaimedBy(j))
    BY <1>1, FS_Subset, FS_CardinalityType
  <1>3. runs[j] \in Nat /\ attempts[j] \in Nat
    BY DEF TypeOK
  <1>4. QED
    BY <1>1, <1>2, <1>3 DEF Counted

LEMMA ClaimCounts ==
  ASSUME TypeOK, Counted, NEW w \in Worker, Claim(w)
  PROVE  Counted'
  <1>1. PICK j \in Job :
          /\ worker[w].at = "idle"
          /\ attempts[j] \in Nat
          /\ attempts' = [attempts EXCEPT ![j] = attempts[j] + 1]
          /\ worker'[w] = [at |-> IF attempts[j] + 1 > MaxAttempts THEN "remove"
                                                                   ELSE "claimed",
                           job |-> j, attempt |-> attempts[j] + 1]
          /\ \A v \in Worker \ {w} : worker'[v] = worker[v]
          /\ runs' = runs
    BY Claims DEF history
  <1>2. ASSUME NEW i \in Job
        PROVE  /\ runs'[i] + Cardinality(ClaimedBy(i)') <= attempts'[i]
               /\ runs'[i] + Cardinality(ClaimedBy(i)') <= MaxAttempts
    <2>1. /\ IsFiniteSet(ClaimedBy(i)) /\ Cardinality(ClaimedBy(i)) \in Nat
          /\ w \notin ClaimedBy(i)
      BY <1>1, ClaimedIsFinite DEF ClaimedBy
    <2>2. runs[i] \in Nat /\ attempts[i] \in Nat /\ attempts'[i] >= attempts[i]
      BY <1>1 DEF TypeOK
    <2>3. CASE i = j /\ attempts[j] + 1 <= MaxAttempts
      <3>1. worker'[w].at = "claimed" /\ worker'[w].job = i
        BY <1>1, <2>3
      <3>2. ClaimedBy(i)' = ClaimedBy(i) \cup {w}
        BY <1>1, <3>1 DEF ClaimedBy
      <3>3. Cardinality(ClaimedBy(i)') = Cardinality(ClaimedBy(i)) + 1
        BY <2>1, <3>2, FS_AddElement
      <3>4. attempts'[i] = attempts[i] + 1
        BY <1>1, <2>3 DEF TypeOK
      <3>5. QED
        BY <1>1, <2>1, <2>2, <2>3, <3>3, <3>4 DEF Counted
    <2>4. CASE ~(i = j /\ attempts[j] + 1 <= MaxAttempts)
      <3>1. ~(worker'[w].at = "claimed" /\ worker'[w].job = i)
        BY <1>1, <2>4
      <3>2. ClaimedBy(i)' = ClaimedBy(i)
        BY <1>1, <3>1 DEF ClaimedBy
      <3>3. QED
        BY <1>1, <2>1, <2>2, <3>2 DEF Counted
    <2>5. QED
      BY <2>3, <2>4
  <1>3. QED
    BY <1>2 DEF Counted

LEMMA ProcessCounts ==
  ASSUME TypeOK, Counted, NEW w \in Worker, Process(w)
  PROVE  Counted'
  <1> DEFINE j == worker[w].job
  <1>1. /\ worker[w].at = "claimed" /\ j \in Job
        /\ runs' = [runs EXCEPT ![j] = @ + 1]
        /\ attempts' = attempts
    BY BusyHasJob DEF Process, At, jobVars
  <1>2. /\ worker'[w].at # "claimed"
        /\ \A v \in Worker \ {w} : worker'[v] = worker[v]
    <2>1. PICK step \in {"remove", "release"} :
            /\ worker'[w] = [at |-> step, job |-> worker[w].job, attempt |-> worker[w].attempt]
            /\ \A v \in Worker \ {w} : worker'[v] = worker[v]
      BY Processes
    <2>2. worker'[w].at = step
      BY <2>1
    <2>3. QED
      BY <2>1, <2>2
  <1>3. ASSUME NEW i \in Job
        PROVE  /\ runs'[i] + Cardinality(ClaimedBy(i)') <= attempts'[i]
               /\ runs'[i] + Cardinality(ClaimedBy(i)') <= MaxAttempts
    <2>1. IsFiniteSet(ClaimedBy(i)) /\ Cardinality(ClaimedBy(i)) \in Nat
      BY ClaimedIsFinite
    <2>2. runs[i] \in Nat /\ attempts[i] \in Nat
      BY DEF TypeOK
    <2>3. ClaimedBy(i)' = ClaimedBy(i) \ {w}
      BY <1>2 DEF ClaimedBy
    <2>4. Cardinality(ClaimedBy(i)') =
            IF w \in ClaimedBy(i) THEN Cardinality(ClaimedBy(i)) - 1
                                  ELSE Cardinality(ClaimedBy(i))
      BY <2>1, <2>3, FS_RemoveElement
    <2>5. w \in ClaimedBy(i) <=> i = j
      BY <1>1 DEF ClaimedBy
    <2>6. runs'[i] = IF i = j THEN runs[i] + 1 ELSE runs[i]
      BY <1>1 DEF TypeOK
    <2>7. QED
      BY <1>1, <2>1, <2>2, <2>4, <2>5, <2>6 DEF Counted
  <1>4. QED
    BY <1>3 DEF Counted

LEMMA CountedKept == TypeOK /\ Counted /\ [Next]_vars => Counted'
  <1> SUFFICES ASSUME TypeOK, Counted, [Next]_vars PROVE Counted'
    OBVIOUS
  <1>1. CASE UNCHANGED <<worker, runs, attempts>>
    BY <1>1, CountedIfFewer DEF ClaimedBy
  <1>2. ASSUME NEW j \in Job, Enqueue(j) \/ Time(j) \/ Stall(j)
        PROVE  UNCHANGED <<worker, runs, attempts>>
    BY <1>2 DEF Enqueue, EnqueueLock, EnqueueInsert, EnqueueCommit, EnqueueFails,
                Time, Rested, LeaseExpires, Stall, jobVars, history
  <1>3. ASSUME NEW w \in Worker, Remove(w) \/ Release(w) \/ WorkerFails(w)
        PROVE  Counted'
    <2>1. UNCHANGED <<runs, attempts>> /\ WorkerReturns(w)
      BY <1>3 DEF Remove, Release, WorkerFails, Delete, jobVars, history
    <2>2. \A j \in Job : ClaimedBy(j)' \subseteq ClaimedBy(j)
      BY <2>1, WorkerDone DEF ClaimedBy, Idle
    <2>3. QED
      BY <2>1, <2>2, CountedIfFewer
  <1>4. QED
    BY <1>1, <1>2, <1>3, ClaimCounts, ProcessCounts DEF Next, WorkerStep, vars, jobVars,
       history

(* A request costs at most MaxAttempts tokens and mails, however many workers die
   or stall: every worker of it stands for an attempt of its own. *)
THEOREM BudgetHolds == Spec => []RunsBounded
  <1>1. TypeOK /\ Counted => RunsBounded
    <2> SUFFICES ASSUME TypeOK, Counted, NEW j \in Job PROVE runs[j] <= MaxAttempts
      BY DEF RunsBounded
    <2>1. Cardinality(ClaimedBy(j)) \in Nat /\ runs[j] \in Nat
      BY ClaimedIsFinite DEF TypeOK
    <2>2. QED
      BY <2>1 DEF Counted
  <1>2. QED
    BY <1>1, CountedInitially, CountedKept, TypeCorrect, PTL DEF Spec

-----------------------------------------------------------------------------
(* The lease: a worker has its job under a lease that runs, or has outstayed it. *)

LeaseCovers == \A w \in Worker : \A j \in Job :
  OnJob(w, j) => j \in stalled \/ lease[j] = "held"

LEMMA LeaseInitially == Init => LeaseCovers /\ OneWorker
  BY DEF Init, LeaseCovers, OneWorker, OnJob, Idle

LEMMA LeaseKept ==
  TypeOK /\ LeaseCovers /\ OneWorker /\ [Next]_vars => LeaseCovers' /\ OneWorker'
  <1> SUFFICES ASSUME TypeOK, LeaseCovers, OneWorker, [Next]_vars
               PROVE  LeaseCovers' /\ OneWorker'
    OBVIOUS
  <1>1. CASE UNCHANGED <<worker, lease, stalled>>
    BY <1>1 DEF LeaseCovers, OneWorker, OnJob
  <1>2. ASSUME NEW j \in Job, Enqueue(j) \/ Rested(j)
        PROVE  UNCHANGED <<worker, lease, stalled>>
    BY <1>2 DEF Enqueue, EnqueueLock, EnqueueInsert, EnqueueCommit, EnqueueFails,
                Rested, jobVars, history
  <1>3. ASSUME NEW j \in Job, LeaseExpires(j) PROVE LeaseCovers' /\ OneWorker'
    BY <1>3 DEF LeaseExpires, LeaseCovers, OneWorker, OnJob, TypeOK, history
  <1>4. ASSUME NEW j \in Job, Stall(j) PROVE LeaseCovers' /\ OneWorker'
    BY <1>4 DEF Stall, LeaseCovers, OneWorker, OnJob, TypeOK
  <1>5. ASSUME NEW w \in Worker, Claim(w) PROVE LeaseCovers' /\ OneWorker'
    <2>1. PICK j \in Job :
            /\ worker[w].at = "idle" /\ Claimable(j)
            /\ lease' = [lease EXCEPT ![j] = "held"]
            /\ worker'[w] = [at |-> IF attempts[j] + 1 > MaxAttempts THEN "remove"
                                                                     ELSE "claimed",
                             job |-> j, attempt |-> attempts[j] + 1]
            /\ \A v \in Worker \ {w} : worker'[v] = worker[v]
            /\ UNCHANGED <<enqueuing, queue, resting, faults, history>>
      BY <1>5, Claims
    <2>2. \A v \in Worker : OnJob(v, j) => j \in stalled
      BY <2>1 DEF LeaseCovers, Claimable
    <2>3. worker'[w].job = j /\ stalled' = stalled
      BY <2>1 DEF history
    <2>4. LeaseCovers'
      BY <2>1, <2>3 DEF LeaseCovers, OnJob, TypeOK
    <2>5. OneWorker'
      BY <2>1, <2>2, <2>3 DEF OneWorker, OnJob
    <2>6. QED
      BY <2>4, <2>5
  <1>6. ASSUME NEW w \in Worker, Process(w) PROVE LeaseCovers' /\ OneWorker'
    <2>1. PICK step \in {"remove", "release"} :
            /\ worker'[w] = [at |-> step, job |-> worker[w].job, attempt |-> worker[w].attempt]
            /\ \A v \in Worker \ {w} : worker'[v] = worker[v]
      BY <1>6, Processes
    <2>2. worker'[w].job = worker[w].job
      BY <2>1
    <2>3. UNCHANGED <<lease, stalled>> /\ \A v \in Worker : worker'[v].job = worker[v].job
      BY <1>6, <2>1, <2>2 DEF Process, jobVars
    <2>4. QED
      BY <2>3 DEF LeaseCovers, OneWorker, OnJob
  <1>7. ASSUME NEW w \in Worker, Remove(w) \/ Release(w) \/ WorkerFails(w)
        PROVE  LeaseCovers' /\ OneWorker'
    <2>1. WorkerReturns(w) /\ stalled' = stalled
      BY <1>7 DEF Remove, Release, WorkerFails, history
    <2>2. /\ worker'[w].job = NoJob
          /\ \A v \in Worker \ {w} : worker'[v] = worker[v]
      BY <2>1, WorkerDone DEF Idle
    <2>3. \A j \in Job : lease'[j] = lease[j] \/ OnJob(w, j)
      BY <1>7, BusyHasJob
         DEF Remove, Release, WorkerFails, Delete, OnJob, TypeOK, jobVars
    <2>4. OneWorker'
      BY <2>1, <2>2 DEF OneWorker, OnJob
    <2>5. ASSUME NEW v \in Worker, NEW j \in Job, OnJob(v, j)'
          PROVE  j \in stalled' \/ lease'[j] = "held"
      <3>1. v # w /\ OnJob(v, j)
        BY <2>2, <2>5 DEF OnJob
      <3>2. CASE OnJob(w, j)
        BY <2>1, <3>1, <3>2 DEF OneWorker
      <3>3. CASE ~OnJob(w, j)
        BY <2>1, <2>3, <3>1, <3>3 DEF LeaseCovers
      <3>4. QED
        BY <3>2, <3>3
    <2>6. QED
      BY <2>4, <2>5 DEF LeaseCovers
  <1>8. QED
    BY <1>1, <1>2, <1>3, <1>4, <1>5, <1>6, <1>7 DEF Next, WorkerStep, Time, vars

(* Two workers have the same job only after one of them outstayed its lease. *)
THEOREM LeaseExcludes == Spec => []OneWorker
  BY LeaseInitially, LeaseKept, TypeCorrect, PTL DEF Spec

-----------------------------------------------------------------------------
(* Rows leave for a reason *)

Reasons == \A w \in Worker :
  /\ worker[w].at = "remove" =>
       worker[w].job \in settled \/ worker[w].attempt > MaxAttempts
  /\ worker[w].at # "idle" => worker[w].attempt <= attempts[worker[w].job]

LEMMA ReasonsInitially == Init => Reasons /\ AcceptedIsKept
  BY DEF Init, Reasons, AcceptedIsKept, Idle

LEMMA ReasonsKept ==
  TypeOK /\ Reasons /\ AcceptedIsKept /\ [Next]_vars => Reasons' /\ AcceptedIsKept'
  <1> SUFFICES ASSUME TypeOK, Reasons, AcceptedIsKept, [Next]_vars
               PROVE  Reasons' /\ AcceptedIsKept'
    OBVIOUS
  <1>1. CASE UNCHANGED vars
    BY <1>1 DEF vars, Reasons, AcceptedIsKept, jobVars, history
  <1>2. ASSUME NEW j \in Job, Enqueue(j) \/ Time(j) \/ Stall(j)
        PROVE  Reasons' /\ AcceptedIsKept'
    <2>1. UNCHANGED <<worker, attempts, settled>>
      BY <1>2 DEF Enqueue, EnqueueLock, EnqueueInsert, EnqueueCommit, EnqueueFails,
                  Time, Rested, LeaseExpires, Stall, jobVars, history
    <2>2. \A i \in Job : enqueuing'[i] = "accepted" /\ i \notin queue' =>
            enqueuing[i] = "accepted" /\ i \notin queue
      BY <1>2 DEF Enqueue, EnqueueLock, EnqueueInsert, EnqueueCommit, EnqueueFails,
                  Time, Rested, LeaseExpires, Stall, jobVars, history, TypeOK
    <2>3. QED
      BY <2>1, <2>2 DEF Reasons, AcceptedIsKept
  <1>3. ASSUME NEW w \in Worker, Claim(w) PROVE Reasons' /\ AcceptedIsKept'
    <2>1. PICK j \in Job :
            /\ attempts[j] \in Nat
            /\ attempts' = [attempts EXCEPT ![j] = attempts[j] + 1]
            /\ worker'[w] = [at |-> IF attempts[j] + 1 > MaxAttempts THEN "remove"
                                                                     ELSE "claimed",
                             job |-> j, attempt |-> attempts[j] + 1]
            /\ \A v \in Worker \ {w} : worker'[v] = worker[v]
            /\ UNCHANGED <<enqueuing, queue, resting, faults, history>>
      BY <1>3, Claims
    <2>2. \A i \in Job : attempts'[i] >= attempts[i] /\ attempts[i] \in Nat
      BY <2>1 DEF TypeOK
    <2>3. attempts'[j] = attempts[j] + 1
      BY <2>1 DEF TypeOK
    <2>4. ASSUME NEW v \in Worker
          PROVE  /\ worker'[v].at = "remove" =>
                      worker'[v].job \in settled' \/ worker'[v].attempt > MaxAttempts
                 /\ worker'[v].at # "idle" => worker'[v].attempt <= attempts'[worker'[v].job]
      <3>1. CASE v = w
        BY <2>1, <2>3, <3>1
      <3>2. CASE v # w
        <4>1. worker'[v] = worker[v] /\ settled' = settled
          BY <2>1, <3>2 DEF history
        <4>2. worker[v].at # "idle" => worker[v].job \in Job /\ worker[v].attempt \in Nat
          BY BusyHasJob
        <4>3. worker[v].at # "idle" => worker[v].attempt <= attempts'[worker[v].job]
          <5>1. ASSUME worker[v].at # "idle"
                PROVE  worker[v].attempt <= attempts'[worker[v].job]
            <6>1. worker[v].attempt <= attempts[worker[v].job]
              BY <5>1 DEF Reasons
            <6>2. PICK i \in Job : i = worker[v].job
              BY <4>2, <5>1
            <6>3. attempts'[i] \in Nat /\ attempts'[i] >= attempts[i]
              BY <2>1, <2>2 DEF TypeOK
            <6>4. QED
              BY <2>2, <4>2, <5>1, <6>1, <6>2, <6>3
          <5>2. QED
            BY <5>1
        <4>4. QED
          BY <4>1, <4>3 DEF Reasons
      <3>3. QED
        BY <3>1, <3>2
    <2>5. AcceptedIsKept'
      BY <2>1, <2>2 DEF AcceptedIsKept, history
    <2>6. QED
      BY <2>4, <2>5 DEF Reasons
  <1>4. ASSUME NEW w \in Worker, Process(w) PROVE Reasons' /\ AcceptedIsKept'
    <2>1. /\ UNCHANGED <<enqueuing, queue, attempts>>
          /\ settled \subseteq settled'
          /\ worker[w].at # "idle"
      BY <1>4 DEF Process, At, jobVars
    <2>2. PICK step \in {"remove", "release"} :
            /\ worker'[w] = [at |-> step, job |-> worker[w].job, attempt |-> worker[w].attempt]
            /\ step = "remove" => worker[w].job \in settled'
            /\ \A v \in Worker \ {w} : worker'[v] = worker[v]
      BY <1>4, Processes
    <2>4. ASSUME NEW v \in Worker
          PROVE  /\ worker'[v].at = "remove" =>
                      worker'[v].job \in settled' \/ worker'[v].attempt > MaxAttempts
                 /\ worker'[v].at # "idle" => worker'[v].attempt <= attempts'[worker'[v].job]
      BY <2>1, <2>2 DEF Reasons
    <2>5. QED
      BY <2>1, <2>4 DEF Reasons, AcceptedIsKept
  <1>5. ASSUME NEW w \in Worker, Remove(w) \/ Release(w) \/ WorkerFails(w)
        PROVE  Reasons' /\ AcceptedIsKept'
    <2>1. UNCHANGED <<enqueuing, attempts, settled>> /\ WorkerReturns(w)
      BY <1>5 DEF Remove, Release, WorkerFails, Delete, jobVars, history
    <2>2. Reasons'
      BY <2>1, WorkerDone DEF Reasons, Idle
    <2>3. \A j \in queue : j \in queue' \/ j \in settled \/ attempts[j] >= MaxAttempts
      <3>1. CASE WorkerFails(w)
        BY <3>1 DEF WorkerFails, jobVars
      <3>2. CASE Remove(w) \/ Release(w)
        <4>1. /\ worker[w].job \in Job /\ worker[w].attempt \in Nat
              /\ worker[w].attempt <= attempts[worker[w].job]
          BY <3>2, BusyHasJob DEF Remove, Release, At, Reasons
        <4>2. attempts[worker[w].job] \in Nat
          BY <4>1 DEF TypeOK
        <4>3. QED
          BY <3>2, <4>1, <4>2 DEF Remove, Release, At, Delete, LastAttempt, Reasons
      <3>3. QED
        BY <1>5, <3>1, <3>2
    <2>4. AcceptedIsKept'
      BY <2>1, <2>3 DEF AcceptedIsKept
    <2>5. QED
      BY <2>2, <2>4
  <1>6. QED
    BY <1>1, <1>2, <1>3, <1>4, <1>5 DEF Next, WorkerStep

(* An acknowledged request leaves the table only when its mail was sent, nobody
   has its address, or its budget is used up. *)
THEOREM AcceptedAreKept == Spec => []AcceptedIsKept
  BY ReasonsInitially, ReasonsKept, TypeCorrect, PTL DEF Spec

-----------------------------------------------------------------------------
(* The capacity: whoever inserted a row holds the lock, and nobody else can have
   filled the table since. *)

LockHeld ==
  /\ \A i, j \in Job :
       enqueuing[i] \in {"locked", "inserted"} /\ enqueuing[j] \in {"locked", "inserted"}
         => i = j
  /\ \A j \in Job : enqueuing[j] = "inserted" => Cardinality(queue) < Capacity

LEMMA CapacityInitially == Init => LockHeld /\ QueueBounded
  BY FS_EmptySet DEF Init, LockHeld, QueueBounded

LEMMA QueueIsFinite ==
  ASSUME TypeOK
  PROVE  IsFiniteSet(queue) /\ Cardinality(queue) \in Nat
  BY FS_Subset, FS_CardinalityType DEF TypeOK

LEMMA CapacityKept ==
  TypeOK /\ LockHeld /\ QueueBounded /\ [Next]_vars => LockHeld' /\ QueueBounded'
  <1> SUFFICES ASSUME TypeOK, LockHeld, QueueBounded, [Next]_vars
               PROVE  LockHeld' /\ QueueBounded'
    OBVIOUS
  <1> USE QueueIsFinite
  <1>1. CASE UNCHANGED enqueuing /\ queue' \subseteq queue
    <2>1. Cardinality(queue') \in Nat /\ Cardinality(queue') <= Cardinality(queue)
      BY <1>1, FS_Subset, FS_CardinalityType
    <2>2. QED
      BY <1>1, <2>1 DEF LockHeld, QueueBounded
  <1>2. ASSUME NEW j \in Job, EnqueueLock(j) \/ EnqueueInsert(j) \/ EnqueueFails(j)
        PROVE  LockHeld' /\ QueueBounded'
    BY <1>2 DEF EnqueueLock, EnqueueInsert, EnqueueFails, QueueLocked, LockHeld,
                QueueBounded, TypeOK, jobVars
  <1>3. ASSUME NEW j \in Job, EnqueueCommit(j) PROVE LockHeld' /\ QueueBounded'
    <2>1. /\ queue' = queue \cup {j}
          /\ \A i \in Job : enqueuing'[i] \in {"locked", "inserted"} =>
               i # j /\ enqueuing[i] \in {"locked", "inserted"}
          /\ enqueuing[j] = "inserted"
      BY <1>3 DEF EnqueueCommit, TypeOK
    <2>2. Cardinality(queue') <= Cardinality(queue) + 1 /\ Cardinality(queue') \in Nat
      <3>1. IsFiniteSet(queue) /\ Cardinality(queue) \in Nat
        OBVIOUS
      <3>2. Cardinality(queue \cup {j}) =
              IF j \in queue THEN Cardinality(queue) ELSE Cardinality(queue) + 1
        BY <3>1, FS_AddElement
      <3>3. QED
        BY <2>1, <3>1, <3>2
    <2>3. QueueBounded'
      BY <2>1, <2>2 DEF LockHeld, QueueBounded
    <2>4. LockHeld'
      BY <2>1 DEF LockHeld
    <2>5. QED
      BY <2>3, <2>4
  <1>4. ASSUME NEW j \in Job, Time(j) \/ Stall(j)
        PROVE  UNCHANGED enqueuing /\ queue' \subseteq queue
    BY <1>4 DEF Time, Rested, LeaseExpires, Stall
  <1>5. ASSUME NEW w \in Worker, WorkerStep(w) \/ WorkerFails(w)
        PROVE  UNCHANGED enqueuing /\ queue' \subseteq queue
    BY <1>5 DEF WorkerStep, Claim, Process, Remove, Release, WorkerFails, Delete, jobVars
  <1>6. QED
    BY <1>1, <1>2, <1>3, <1>4, <1>5 DEF Next, Enqueue, vars

(* The table never holds more requests than its capacity, however many arrive at
   the same time. *)
THEOREM CapacityHolds == Spec => []QueueBounded
  BY CapacityInitially, CapacityKept, TypeCorrect, PTL DEF Spec

(* Capacity and budget together. *)
THEOREM QueueIsBounded == Spec => []BoundsHold
  BY CapacityHolds, BudgetHolds, PTL DEF BoundsHold
=============================================================================
