------------------------------ MODULE JobQueue ------------------------------
(***************************************************************************)
(* The Postgres-backed job queue of ScoutLead (agent/job_queue): the rows  *)
(* of queue_jobs, the worker processes that claim, execute, complete and   *)
(* fail them, the recovery a starting worker runs, the sessions that       *)
(* enqueue, and the administrator who cancels and retries a data job.      *)
(*                                                                         *)
(* The database runs at READ COMMITTED and no method of QueueRepository    *)
(* but claim_next locks the rows it reads, so each method is one action up *)
(* to its SELECT and another from there to its COMMIT.  A row is a set of  *)
(* columns, each a function on the row ids; ids grow in created_at order.  *)
(***************************************************************************)
EXTENDS Integers, FiniteSets

CONSTANTS
    Worker,       \* worker processes (job_queue.worker:run)
    Client,       \* sessions of the API, a scheduler or a handler that enqueue
    Work,         \* what a job is for: its type and the subject of its payload
    NoWork,       \* the work of a row that is not inserted yet
    Keyed,        \* the work enqueued by enqueue_once, under an idempotency key
    DataWork,     \* the index refresh and source fetches of one admin data job
    Urgency,      \* Urgency[k]: the priority claim_next sorts the work by
    MaxJobs,      \* bound: rows ever inserted
    MaxAttempts,  \* QueueJobModel.max_attempts
    StaleAfter,   \* ticks after which a RUNNING row counts as interrupted (3600 s)
    RetryDelay,   \* ticks a failed row waits per attempt (30 s)
    MaxCrashes,   \* bound: crashes of worker processes
    MaxRetries    \* bound: administrator retries

ASSUME ConstantsAssumption ==
    /\ NoWork \notin Work
    /\ Keyed \subseteq Work
    /\ DataWork \subseteq Work
    /\ Urgency \in [Work -> Nat]
    /\ MaxJobs \in Nat
    /\ MaxAttempts \in Nat \ {0}
    /\ StaleAfter \in Nat \ {0}
    /\ RetryDelay \in Nat
    /\ MaxCrashes \in Nat
    /\ MaxRetries \in Nat

ASSUME ActorsDisjoint == Worker \cap Client = {}

JobId == 1..MaxJobs

VARIABLES
    status,    \* "absent" until the row is inserted
    work,      \* the row's type, payload and idempotency_key
    attempts,
    due,       \* ticks left until run_after
    lockAge,   \* ticks since locked_at, up to StaleAfter
    nextId,    \* the next row to insert
    pc,        \* where each process is
    held,      \* the row a worker is executing or failing, 0 for none
    heldAge,   \* ticks since that worker claimed it, up to StaleAfter
    seen,      \* the rows a process read and has not written back yet
    wanted,    \* the work a client is enqueueing
    crashes,
    retries,
    claims,    \* history: how often each row was claimed
    suspect    \* history: rows a worker overran, or that a stale write hit

rows == <<status, work, attempts, due, lockAge, nextId>>
procs == <<pc, held, heldAge, seen, wanted>>
bounds == <<crashes, retries>>
history == <<claims, suspect>>
vars == <<rows, procs, bounds, history>>

Actor == Worker \cup Client

(***************************************************************************)
(* Rows                                                                    *)
(***************************************************************************)

JobStatus == {"queued", "running", "completed", "dead_letter", "canceled"}
ActiveStatus == {"queued", "running"}
Active(j) == status[j] \in ActiveStatus

\* A row as an ORM object holds it after a SELECT: the columns the code decides on.
Snapshot(j) == [id |-> j, attempts |-> attempts[j], claim |-> claims[j]]

KeyTaken(k) == \E j \in JobId : Active(j) /\ work[j] = k

\* The partial unique index uq_queue_jobs_active_idempotency over the rows that
\* a COMMIT would leave; the COMMIT raises IntegrityError when it is FALSE.
IndexAllows(newStatus, newWork) ==
    \A i, j \in JobId :
        /\ newStatus[i] \in ActiveStatus
        /\ newStatus[j] \in ActiveStatus
        /\ newWork[i] = newWork[j]
        /\ newWork[i] \in Keyed
        => i = j

\* The rows read in S that another process wrote since: their status is not the
\* expected one any more, or is it again after another claim.
Outdated(S, expected) ==
    {s.id : s \in {r \in S : status[r.id] # expected \/ claims[r.id] # r.claim}}

Init ==
    /\ status = [j \in JobId |-> "absent"]
    /\ work = [j \in JobId |-> NoWork]
    /\ attempts = [j \in JobId |-> 0]
    /\ due = [j \in JobId |-> 0]
    /\ lockAge = [j \in JobId |-> 0]
    /\ nextId = 1
    /\ pc = [a \in Actor |-> IF a \in Worker THEN "down" ELSE "idle"]
    /\ held = [w \in Worker |-> 0]
    /\ heldAge = [w \in Worker |-> 0]
    /\ seen = [a \in Actor |-> {}]
    /\ wanted = [c \in Client |-> NoWork]
    /\ crashes = 0
    /\ retries = 0
    /\ claims = [j \in JobId |-> 0]
    /\ suspect = {}

(***************************************************************************)
(* Enqueueing                                                              *)
(***************************************************************************)

Insert(k) ==
    /\ nextId <= MaxJobs
    /\ status' = [status EXCEPT ![nextId] = "queued"]
    /\ work' = [work EXCEPT ![nextId] = k]
    /\ nextId' = nextId + 1
    /\ UNCHANGED <<attempts, due, lockAge>>

\* enqueue: a plain INSERT without a key.
Enqueue(k) ==
    /\ k \notin Keyed
    /\ Insert(k)
    /\ UNCHANGED <<procs, bounds, history>>

\* enqueue_once, first SELECT: an active row of the key is returned as it is.
EnqueueOnceSelect(c, k) ==
    /\ pc[c] = "idle"
    /\ k \in Keyed
    /\ ~KeyTaken(k)
    /\ nextId <= MaxJobs
    /\ pc' = [pc EXCEPT ![c] = "inserting"]
    /\ wanted' = [wanted EXCEPT ![c] = k]
    /\ UNCHANGED <<rows, held, heldAge, seen, bounds, history>>

\* (mutant) The INSERT without the unique index behind it.
MutInsertUnindexed(c) ==
    /\ pc[c] = "inserting"
    /\ pc' = [pc EXCEPT ![c] = "idle"]
    /\ wanted' = [wanted EXCEPT ![c] = NoWork]
    /\ Insert(wanted[c])
    /\ UNCHANGED <<held, heldAge, seen, bounds, history>>

\* enqueue_once, the nested INSERT.  Another session may have inserted the key
\* since the SELECT: then the index refuses the row and the code selects again,
\* finding that row or re-raising (it returns to its caller either way).
EnqueueOnceInsert(c) ==
    /\ pc[c] = "inserting"
    /\ pc' = [pc EXCEPT ![c] = "idle"]
    /\ wanted' = [wanted EXCEPT ![c] = NoWork]
    /\ IF KeyTaken(wanted[c]) \/ nextId > MaxJobs
       THEN UNCHANGED rows
       ELSE Insert(wanted[c])
    /\ UNCHANGED <<held, heldAge, seen, bounds, history>>

(***************************************************************************)
(* A worker process starting                                               *)
(***************************************************************************)

\* (mutants) The age test left out, and off by one tick.
MutInterruptedAnyAge(j) == status[j] = "running"
MutInterruptedEarly(j) == status[j] = "running" /\ lockAge[j] >= StaleAfter - 1

Interrupted(j) == status[j] = "running" /\ lockAge[j] >= StaleAfter

\* run -> _recover_interrupted_jobs: the SELECT of recover_stale_running.  This
\* is the only place that calls it: a worker that keeps running never does.
StartAndSelectStale(w) ==
    /\ pc[w] = "down"
    /\ seen' = [seen EXCEPT ![w] = {Snapshot(j) : j \in {i \in JobId : Interrupted(i)}}]
    /\ pc' = [pc EXCEPT ![w] = IF seen'[w] = {} THEN "idle" ELSE "recovering"]
    /\ UNCHANGED <<rows, held, heldAge, wanted, bounds, history>>

Ids(S) == {s.id : s \in S}

Requeued(S) == Ids({s \in S : s.attempts < MaxAttempts})

\* The statuses after the attempts at the rows read in S ended without success.
AfterFailure(S) ==
    [j \in JobId |-> IF j \in Requeued(S) THEN "queued"
                     ELSE IF j \in Ids(S) THEN "dead_letter"
                     ELSE status[j]]

\* recover_stale_running: the UPDATEs and their COMMIT.  An IntegrityError
\* leaves run() and with it the process.
RecoverStale(w) ==
    /\ pc[w] = "recovering"
    /\ IF IndexAllows(AfterFailure(seen[w]), work)
       THEN /\ status' = AfterFailure(seen[w])
            /\ due' = [j \in JobId |-> IF j \in Requeued(seen[w]) THEN 0 ELSE due[j]]
            /\ suspect' = suspect \cup Outdated(seen[w], "running")
            /\ pc' = [pc EXCEPT ![w] = "idle"]
       ELSE /\ pc' = [pc EXCEPT ![w] = "down"]
            /\ UNCHANGED <<status, due, suspect>>
    /\ seen' = [seen EXCEPT ![w] = {}]
    /\ UNCHANGED <<work, attempts, lockAge, nextId, held, heldAge, wanted, bounds, claims>>

(***************************************************************************)
(* One turn of the worker loop (run_once)                                  *)
(***************************************************************************)

\* (mutant) run_after compared the wrong way round.
MutClaimableNotDue(j) == status[j] = "queued" /\ due[j] > 0

Claimable(j) == status[j] = "queued" /\ due[j] = 0

\* ORDER BY priority, created_at.
Before(i, j) ==
    \/ Urgency[work[i]] < Urgency[work[j]]
    \/ Urgency[work[i]] = Urgency[work[j]] /\ i <= j

\* claim_next: SELECT ... FOR UPDATE SKIP LOCKED LIMIT 1, UPDATE and COMMIT hold
\* the row lock throughout, so they are one step.
ClaimNext(w, j) ==
    /\ pc[w] = "idle"
    /\ Claimable(j)
    /\ \A i \in JobId : Claimable(i) => Before(j, i)
    /\ status' = [status EXCEPT ![j] = "running"]
    /\ attempts' = [attempts EXCEPT ![j] = @ + 1]
    /\ lockAge' = [lockAge EXCEPT ![j] = 0]
    /\ claims' = [claims EXCEPT ![j] = @ + 1]
    /\ pc' = [pc EXCEPT ![w] = "executing"]
    /\ held' = [held EXCEPT ![w] = j]
    /\ heldAge' = [heldAge EXCEPT ![w] = 0]
    /\ UNCHANGED <<work, due, nextId, seen, wanted, bounds, suspect>>

Release(w, next) ==
    /\ pc' = [pc EXCEPT ![w] = next]
    /\ held' = [held EXCEPT ![w] = 0]
    /\ heldAge' = [heldAge EXCEPT ![w] = 0]
    /\ seen' = [seen EXCEPT ![w] = {}]

\* The handler returned: complete sets the status by id, from the object the
\* claim cached, whatever the row holds by now.
Complete(w) ==
    /\ pc[w] = "executing"
    /\ status' = [status EXCEPT ![held[w]] = "completed"]
    /\ Release(w, "idle")
    /\ UNCHANGED <<work, attempts, due, lockAge, nextId, wanted, bounds, history>>

\* The handler raised: rollback, then fail re-reads the row.
FailSelect(w) ==
    /\ pc[w] = "executing"
    /\ status[held[w]] = "running"
    /\ pc' = [pc EXCEPT ![w] = "failing"]
    /\ seen' = [seen EXCEPT ![w] = {Snapshot(held[w])}]
    /\ UNCHANGED <<rows, held, heldAge, wanted, bounds, history>>

\* fail raises ConflictError("only running jobs can fail"); nothing in run_once
\* or run catches it and the process exits.
FailConflict(w) ==
    /\ pc[w] = "executing"
    /\ status[held[w]] # "running"
    /\ Release(w, "down")
    /\ UNCHANGED <<rows, wanted, bounds, history>>

\* fail: the UPDATE and COMMIT.
FailWrite(w) ==
    /\ pc[w] = "failing"
    /\ IF IndexAllows(AfterFailure(seen[w]), work)
       THEN /\ status' = AfterFailure(seen[w])
            /\ due' = [j \in JobId |->
                          IF j \in Requeued(seen[w])
                          THEN RetryDelay * (CHOOSE s \in seen[w] : s.id = j).attempts
                          ELSE due[j]]
            /\ suspect' = suspect \cup Outdated(seen[w], "running")
            /\ Release(w, "idle")
       ELSE /\ UNCHANGED <<status, due, suspect>>
            /\ Release(w, "down")
    /\ UNCHANGED <<work, attempts, lockAge, nextId, wanted, bounds, claims>>

\* The process dies (deploy, out of memory, lost connection) at any point.
Crash(w) ==
    /\ crashes < MaxCrashes
    /\ pc[w] # "down"
    /\ crashes' = crashes + 1
    /\ Release(w, "down")
    /\ UNCHANGED <<rows, wanted, retries, history>>

(***************************************************************************)
(* The administrator's operations on a data job (admin/service.py)         *)
(***************************************************************************)

DataJobs == {j \in JobId : status[j] # "absent" /\ work[j] \in DataWork}

\* cancel_data_job: reads the root and its fetches, refuses when one is RUNNING.
CancelSelect(c) ==
    /\ pc[c] = "idle"
    /\ \A j \in DataJobs : status[j] # "running"
    /\ \E j \in DataJobs : status[j] = "queued"
    /\ seen' = [seen EXCEPT ![c] = {Snapshot(j) : j \in {i \in DataJobs : status[i] = "queued"}}]
    /\ pc' = [pc EXCEPT ![c] = "canceling"]
    /\ UNCHANGED <<rows, held, heldAge, wanted, bounds, history>>

CancelWrite(c) ==
    /\ pc[c] = "canceling"
    /\ status' = [j \in JobId |-> IF j \in Ids(seen[c]) THEN "canceled" ELSE status[j]]
    /\ suspect' = suspect \cup Outdated(seen[c], "queued")
    /\ pc' = [pc EXCEPT ![c] = "idle"]
    /\ seen' = [seen EXCEPT ![c] = {}]
    /\ UNCHANGED <<work, attempts, due, lockAge, nextId, held, heldAge, wanted, bounds, claims>>

\* retry_data_job: reads the dead-lettered rows and starts them over.
RetrySelect(c) ==
    /\ pc[c] = "idle"
    /\ retries < MaxRetries
    /\ \E j \in DataJobs : status[j] = "dead_letter"
    /\ seen' = [seen EXCEPT ![c] = {Snapshot(j) : j \in {i \in DataJobs : status[i] = "dead_letter"}}]
    /\ pc' = [pc EXCEPT ![c] = "retrying"]
    /\ retries' = retries + 1
    /\ UNCHANGED <<rows, held, heldAge, wanted, crashes, history>>

\* (mutant) The review_state "pending" written to the row's status.
MutRetryPending(c) ==
    /\ pc[c] = "retrying"
    /\ status' = [j \in JobId |-> IF j \in Ids(seen[c]) THEN "pending" ELSE status[j]]
    /\ pc' = [pc EXCEPT ![c] = "idle"]
    /\ seen' = [seen EXCEPT ![c] = {}]
    /\ UNCHANGED <<work, attempts, due, lockAge, nextId, held, heldAge, wanted, bounds, history>>

RetryWrite(c) ==
    /\ pc[c] = "retrying"
    /\ LET ids == Ids(seen[c])
           newStatus == [j \in JobId |-> IF j \in ids THEN "queued" ELSE status[j]]
       IN  IF IndexAllows(newStatus, work)
           THEN /\ status' = newStatus
                /\ attempts' = [j \in JobId |-> IF j \in ids THEN 0 ELSE attempts[j]]
                /\ due' = [j \in JobId |-> IF j \in ids THEN 0 ELSE due[j]]
                /\ suspect' = suspect \cup Outdated(seen[c], "dead_letter")
           ELSE UNCHANGED <<status, attempts, due, suspect>>
    /\ pc' = [pc EXCEPT ![c] = "idle"]
    /\ seen' = [seen EXCEPT ![c] = {}]
    /\ UNCHANGED <<work, lockAge, nextId, held, heldAge, wanted, bounds, claims>>

(***************************************************************************)
(* Time                                                                    *)
(***************************************************************************)

Older(age) == IF age < StaleAfter THEN age + 1 ELSE age

Busy(w) == pc[w] \in {"executing", "failing"}

\* A tick.  A worker whose claim is StaleAfter old has overrun: the next worker
\* to start will take its row for interrupted.
Tick ==
    /\ due' = [j \in JobId |-> IF due[j] > 0 THEN due[j] - 1 ELSE 0]
    /\ lockAge' = [j \in JobId |-> IF status[j] = "running" THEN Older(lockAge[j]) ELSE 0]
    /\ heldAge' = [w \in Worker |-> IF Busy(w) THEN Older(heldAge[w]) ELSE 0]
    /\ suspect' = suspect \cup {held[w] : w \in {v \in Worker : Busy(v) /\ heldAge'[v] = StaleAfter}}
    /\ UNCHANGED <<status, work, attempts, nextId, pc, held, seen, wanted, bounds, claims>>

WorkerStep(w) ==
    \/ StartAndSelectStale(w)
    \/ RecoverStale(w)
    \/ \E j \in JobId : ClaimNext(w, j)
    \/ Complete(w)
    \/ FailSelect(w)
    \/ FailConflict(w)
    \/ FailWrite(w)

ClientStep(c) ==
    \/ \E k \in Work : EnqueueOnceSelect(c, k)
    \/ EnqueueOnceInsert(c)
    \/ CancelSelect(c)
    \/ CancelWrite(c)
    \/ RetrySelect(c)
    \/ RetryWrite(c)

Next ==
    \/ \E k \in Work : Enqueue(k)
    \/ \E c \in Client : ClientStep(c)
    \/ \E w \in Worker : WorkerStep(w) \/ Crash(w)
    \/ Tick

Spec == Init /\ [][Next]_vars

\* The worker loop never returns and its process is restarted when it exits; the
\* tools a handler calls have timeouts, so it returns or raises; time passes.
Fairness ==
    /\ WF_vars(Tick)
    /\ \A w \in Worker : WF_vars(WorkerStep(w))

FairSpec == Spec /\ Fairness

-----------------------------------------------------------------------------
(***************************************************************************)
(* Properties                                                              *)
(***************************************************************************)

Snapshots == [id : JobId, attempts : Nat, claim : Nat]

\* Every variable has its type.
TypeOK ==
    /\ status \in [JobId -> JobStatus \cup {"absent"}]
    /\ work \in [JobId -> Work \cup {NoWork}]
    /\ attempts \in [JobId -> Nat]
    /\ due \in [JobId -> Nat]
    /\ lockAge \in [JobId -> 0..StaleAfter]
    /\ nextId \in 1..(MaxJobs + 1)
    /\ pc \in [Actor -> {"down", "recovering", "idle", "executing", "failing",
                         "inserting", "canceling", "retrying"}]
    /\ held \in [Worker -> 0..MaxJobs]
    /\ heldAge \in [Worker -> 0..StaleAfter]
    /\ seen \in [Actor -> SUBSET Snapshots]
    /\ wanted \in [Client -> Work \cup {NoWork}]
    /\ crashes \in 0..MaxCrashes
    /\ retries \in 0..MaxRetries
    /\ claims \in [JobId -> Nat]
    /\ suspect \in SUBSET JobId

\* The workers that are executing the handler of a row, or failing it.
Holders(j) == {w \in Worker : Busy(w) /\ held[w] = j}

\* At no time do two active rows carry the same idempotency key, whatever
\* enqueue_once, the recovery, a failure and an administrator's retry interleave.
ActiveKeyUnique == IndexAllows(status, work)

\* A row is executed by two workers at once, or completed, canceled, requeued or
\* buried under a worker that is executing it, only if a worker overran the
\* staleness threshold on it or a write from an outdated read hit it: claim_next's
\* row lock and the age test of recover_stale_running exclude every other way.
SingleExecution ==
    \A j \in JobId \ suspect :
        \A v, w \in Holders(j) : v = w /\ status[j] = "running"

\* No row is claimed more often than max_attempts in one life, and none is left
\* queued with its attempts used up, under the same exception.
AttemptsBounded ==
    \A j \in JobId \ suspect :
        /\ attempts[j] <= MaxAttempts
        /\ status[j] = "queued" => attempts[j] < MaxAttempts

\* The queue implements the abstract lease, its history variable being the rows
\* that were overrun or hit by an outdated write.  In particular a completed or
\* canceled job never runs again, and a buried one only if it is retried.
Lease == INSTANCE JobLease WITH
            Job <- JobId,
            stage <- status,
            lessees <- [j \in JobId |-> Holders(j)],
            exposed <- suspect
ImplementsLease == Lease!Spec

\* The same by idempotency key: whichever rows come and go under a key of enqueue_once,
\* the work under it is leased to one worker at a time, until one of its rows is suspect.
KeyStage(k) ==
    IF \E j \in JobId : work[j] = k /\ status[j] = "running" THEN "running"
    ELSE IF KeyTaken(k) THEN "queued" ELSE "none"
KeyHolders(k) == {w \in Worker : \E j \in JobId : work[j] = k /\ w \in Holders(j)}

PerKey == INSTANCE KeyLease WITH
             Key <- Keyed,
             stage <- [k \in Keyed |-> KeyStage(k)],
             lessees <- [k \in Keyed |-> KeyHolders(k)],
             exposed <- {k \in Keyed : \E j \in suspect : work[j] = k}
ImplementsKeyLease == PerKey!Spec

\* Work handed to the queue is settled: if no process crashes, every queued row
\* is completed, dead-lettered or canceled in the end, however often its handler
\* raises or overruns.
Settled(j) == status[j] \in {"completed", "dead_letter", "canceled"}
QueuedJobsSettle == \A j \in JobId : status[j] = "queued" ~> Settled(j)

\* What worker.py's _recover_interrupted_jobs is named for: a row whose worker
\* died does not stay RUNNING for ever.
Orphaned(j) == status[j] = "running" /\ Holders(j) = {}
InterruptedJobsAreRecovered == \A j \in JobId : Orphaned(j) ~> ~Orphaned(j)
=============================================================================
