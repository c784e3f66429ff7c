------------------------- MODULE PasswordResetQueue -------------------------
(***************************************************************************)
(* The table auth.password_reset_request as a queue: requests are stored   *)
(* before they are acknowledged, workers of every API process lease them   *)
(* for a minute, retry them a few times and delete them.  A step is one    *)
(* statement on the table, or the attempt to mail between two of them.     *)
(***************************************************************************)
EXTENDS Integers, FiniteSets

CONSTANTS
  Job,          \* requests, by the id of their row
  Worker,       \* workers of all processes, restarted ones included
  Capacity,     \* passwordResetQueueSize
  MaxAttempts,  \* claims that may be worked on
  MaxFaults,    \* bound: failing statements, dying workers and stalls
  NoJob

ASSUME QueueAssumption ==
  /\ IsFiniteSet(Job) /\ IsFiniteSet(Worker)
  /\ Capacity \in Nat /\ MaxAttempts \in Nat \ {0} /\ MaxFaults \in Nat
  /\ NoJob \notin Job

VARIABLES
  enqueuing,   \* where Enqueue is with each request
  queue,       \* rows that are committed
  attempts,    \* the column attempts
  lease,       \* claimed_at: NULL, less than a minute ago, or longer
  resting,     \* rows whose available_at is still to come
  worker,      \* what each worker does, to which job, at which attempt
  faults,      \* faults so far
  runs,        \* times that a job was worked on
  settled,     \* jobs whose mail was sent or whose address is unknown
  stalled      \* jobs whose lease ran out while somebody worked on them

vars == <<enqueuing, queue, attempts, lease, resting, worker, faults, runs,
          settled, stalled>>

jobVars == <<queue, attempts, lease, resting>>
history == <<runs, settled, stalled>>

Idle == [at |-> "idle", job |-> NoJob, attempt |-> 0]
Busy == [at : {"claimed", "remove", "release"}, job : Job, attempt : Nat]

TypeOK ==
  /\ enqueuing \in [Job -> {"new", "locked", "inserted", "accepted", "refused"}]
  /\ queue \subseteq Job
  /\ attempts \in [Job -> Nat]
  /\ lease \in [Job -> {"none", "held", "expired"}]
  /\ resting \subseteq Job
  /\ worker \in [Worker -> {Idle} \cup Busy]
  /\ faults \in 0..MaxFaults
  /\ runs \in [Job -> Nat]
  /\ settled \subseteq Job /\ stalled \subseteq Job

Init ==
  /\ enqueuing = [j \in Job |-> "new"]
  /\ queue = {}
  /\ attempts = [j \in Job |-> 0]
  /\ lease = [j \in Job |-> "none"]
  /\ resting = {}
  /\ worker = [w \in Worker |-> Idle]
  /\ faults = 0
  /\ runs = [j \in Job |-> 0]
  /\ settled = {}
  /\ stalled = {}

-----------------------------------------------------------------------------
(* Each definition of this module named "bug" is a mistake that could be made in
   the definition after it; the specification uses none of them. *)

bugQueueLocked == FALSE
(* The advisory lock, held to the end of the transaction. *)
QueueLocked == \E j \in Job : enqueuing[j] \in {"locked", "inserted"}

EnqueueLock(j) ==
  /\ enqueuing[j] = "new"
  /\ ~QueueLocked
  /\ enqueuing' = [enqueuing EXCEPT ![j] = "locked"]
  /\ UNCHANGED <<jobVars, worker, faults, history>>

(* The row is inserted if what is committed leaves room for it. *)
EnqueueInsert(j) ==
  /\ enqueuing[j] = "locked"
  /\ enqueuing' = [enqueuing EXCEPT ![j] =
       IF Cardinality(queue) < Capacity THEN "inserted" ELSE "refused"]
  /\ UNCHANGED <<jobVars, worker, faults, history>>

(* A commit that fails may have reached the database nevertheless. *)
EnqueueCommit(j) ==
  /\ enqueuing[j] = "inserted"
  /\ queue' = queue \cup {j}
  /\ enqueuing' \in {[enqueuing EXCEPT ![j] = answer] : answer \in {"accepted", "refused"}}
  /\ UNCHANGED <<attempts, lease, resting, worker, faults, history>>

(* A statement fails, the request is cancelled or the process dies. *)
EnqueueFails(j) ==
  /\ enqueuing[j] \in {"locked", "inserted"}
  /\ enqueuing' = [enqueuing EXCEPT ![j] = "refused"]
  /\ UNCHANGED <<jobVars, worker, faults, history>>

-----------------------------------------------------------------------------
(* The workers *)

OnJob(w, j) == worker[w].job = j
At(w, step) == worker[w].at = step
WorkerAt(w, step) == worker' = [worker EXCEPT ![w] =
  [at |-> step, job |-> worker[w].job, attempt |-> worker[w].attempt]]
bugWorkerReturns(w) == worker' = [worker EXCEPT ![w].at = "idle"]
WorkerReturns(w) == worker' = [worker EXCEPT ![w] = Idle]

(* The row goes; its attempts stay on record for the properties. *)
Delete(j) ==
  /\ queue' = queue \ {j}
  /\ lease' = [lease EXCEPT ![j] = "none"]
  /\ resting' = resting \ {j}
  /\ UNCHANGED attempts

Fault == faults < MaxFaults /\ faults' = faults + 1

bugExpiredIsLost(j) == j \in queue \ resting /\ lease[j] = "none"
bugLeaseIgnored(j) == j \in queue \ resting
(* The row may be claimed. *)
Claimable(j) == j \in queue \ resting /\ lease[j] # "held"

(* The budget was used up by workers that died or were late. *)
Exhausted(attempt) == attempt > MaxAttempts

(* SKIP LOCKED takes the oldest row that no other statement has locked at this
   moment, which may be any of them. *)
Claim(w) == \E j \in Job :
  /\ At(w, "idle")
  /\ Claimable(j)
  /\ attempts' = [attempts EXCEPT ![j] = @ + 1]
  /\ lease' = [lease EXCEPT ![j] = "held"]
  /\ worker' = [worker EXCEPT ![w] =
       [at |-> IF Exhausted(attempts[j] + 1) THEN "remove" ELSE "claimed",
        job |-> j, attempt |-> attempts[j] + 1]]
  /\ UNCHANGED <<enqueuing, queue, resting, faults, history>>

(* The learner is looked up, a token is stored and mailed.  All of it has ten
   seconds, and a shutdown makes it fail at once; a mail whose sending failed
   may have been sent. *)
Process(w) ==
  LET j == worker[w].job IN
  /\ At(w, "claimed")
  /\ runs' = [runs EXCEPT ![j] = @ + 1]
  /\ \/ settled' = settled \cup {j} /\ WorkerAt(w, "remove")
     \/ UNCHANGED settled /\ WorkerAt(w, "release")
  /\ UNCHANGED <<enqueuing, jobVars, faults, stalled>>

Remove(w) ==
  /\ At(w, "remove")
  /\ Delete(worker[w].job)
  /\ WorkerReturns(w)
  /\ UNCHANGED <<enqueuing, faults, history>>

bugLastAttempt(attempt) == attempt >= MaxAttempts - 1
LastAttempt(attempt) == attempt >= MaxAttempts

(* Nothing asks who holds the lease by now: the update matches the row by its id. *)
Release(w) ==
  LET j == worker[w].job IN
  /\ At(w, "release")
  /\ IF LastAttempt(worker[w].attempt) THEN Delete(j)
     ELSE /\ lease' = [lease EXCEPT ![j] = "none"]
          /\ resting' = resting \cup ({j} \cap queue)
          /\ UNCHANGED <<queue, attempts>>
  /\ WorkerReturns(w)
  /\ UNCHANGED <<enqueuing, faults, history>>

(* The process of a worker dies, or the statement that ends the job fails: the
   row stays claimed. *)
WorkerFails(w) ==
  /\ ~At(w, "idle")
  /\ Fault
  /\ WorkerReturns(w)
  /\ UNCHANGED <<enqueuing, jobVars, history>>

-----------------------------------------------------------------------------
(* Time *)

(* The pause after a failed attempt is over. *)
Rested(j) ==
  /\ j \in resting
  /\ resting' = resting \ {j}
  /\ UNCHANGED <<enqueuing, queue, attempts, lease, worker, faults, history>>

(* A minute has passed since the row was claimed.  A worker needs at most twelve
   seconds, so it is gone by then, ... *)
LeaseExpires(j) ==
  /\ lease[j] = "held"
  /\ \A w \in Worker : ~OnJob(w, j)
  /\ lease' = [lease EXCEPT ![j] = "expired"]
  /\ UNCHANGED <<enqueuing, queue, attempts, resting, worker, faults, history>>

(* ... unless its machine stood still. *)
Stall(j) ==
  /\ lease[j] = "held"
  /\ \E w \in Worker : OnJob(w, j)
  /\ Fault
  /\ lease' = [lease EXCEPT ![j] = "expired"]
  /\ stalled' = stalled \cup {j}
  /\ UNCHANGED <<enqueuing, queue, attempts, resting, worker, runs, settled>>

WorkerStep(w) == Claim(w) \/ Process(w) \/ Remove(w) \/ Release(w)
Enqueue(j) == EnqueueLock(j) \/ EnqueueInsert(j) \/ EnqueueCommit(j) \/ EnqueueFails(j)
Time(j) == Rested(j) \/ LeaseExpires(j)

Next ==
  \/ \E j \in Job : Enqueue(j) \/ Time(j) \/ Stall(j)
  \/ \E w \in Worker : WorkerStep(w) \/ WorkerFails(w)

Spec == Init /\ [][Next]_vars

(* Workers go on and time passes; requests come as they like. *)
FairSpec ==
  /\ Spec
  /\ \A w \in Worker : WF_vars(WorkerStep(w))
  /\ \A j \in Job : WF_vars(Time(j))

-----------------------------------------------------------------------------
(* Properties *)

(* Requests that arrive at the same time do not overfill the table: each counts
   what the others have committed. *)
QueueBounded == Cardinality(queue) <= Capacity

(* A request costs at most MaxAttempts tokens and mails, whatever died, stalled
   or was late in between. *)
RunsBounded == \A j \in Job : runs[j] <= MaxAttempts

(* The table and the work it causes are bounded, whatever arrives, dies or
   stalls. *)
BoundsHold == QueueBounded /\ RunsBounded

(* A request that was acknowledged waits in the table until its mail is sent or
   its budget is used up: no crash and no late statement of another worker
   loses it. *)
AcceptedIsKept == \A j \in Job :
  enqueuing[j] = "accepted" /\ j \notin queue =>
    j \in settled \/ attempts[j] >= MaxAttempts

(* Two workers have the same job only after one of them outstayed its lease. *)
OneWorker == \A v, w \in Worker : \A j \in Job :
  OnJob(v, j) /\ OnJob(w, j) /\ v # w => j \in stalled

(* Every request leaves the table in the end: neither a worker that died nor a
   failed statement blocks it for good. *)
RequestsLeave == \A j \in Job : j \in queue ~> j \notin queue
=============================================================================
