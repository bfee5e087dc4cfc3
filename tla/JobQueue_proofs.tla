-------------------------- MODULE JobQueue_proofs --------------------------
(***************************************************************************)
(* Theorems about the job queue, for any number of workers, sessions, rows *)
(* and kinds of work.                                                      *)
(***************************************************************************)
EXTENDS JobQueue, TLAPS

(***************************************************************************)
(* Type correctness                                                        *)
(***************************************************************************)

\* What AfterFailure leaves in a row is a status.
LEMMA AfterFailureType ==
    ASSUME TypeOK, NEW S
    PROVE  AfterFailure(S) \in [JobId -> JobStatus \cup {"absent"}]
BY DEF AfterFailure, TypeOK, JobStatus

\* The snapshots a SELECT returns are well typed.
LEMMA SnapshotType ==
    ASSUME TypeOK, NEW j \in JobId
    PROVE  Snapshot(j) \in Snapshots
BY DEF Snapshot, Snapshots, TypeOK

\* Rows named by well-typed snapshots are rows.
LEMMA IdsType ==
    ASSUME NEW S \in SUBSET Snapshots
    PROVE  /\ Ids(S) \subseteq JobId
           /\ Requeued(S) \subseteq Ids(S)
           /\ \A e : Outdated(S, e) \subseteq Ids(S)
BY DEF Ids, Requeued, Outdated, Snapshots

\* Releasing a row keeps the types of what a process remembers.
LEMMA ReleaseType ==
    ASSUME TypeOK, NEW w \in Worker, NEW next \in {"down", "idle"}, Release(w, next)
    PROVE  /\ pc' \in [Actor -> {"down", "recovering", "idle", "executing", "failing",
                                 "inserting", "canceling", "retrying"}]
           /\ held' \in [Worker -> 0..MaxJobs]
           /\ heldAge' \in [Worker -> 0..StaleAfter]
           /\ seen' \in [Actor -> SUBSET Snapshots]
<1>1. 0 \in 0..MaxJobs /\ 0 \in 0..StaleAfter
  BY ConstantsAssumption
<1> QED
  BY <1>1 DEF Release, TypeOK

\* Inserting a row keeps the types of the rows.
LEMMA InsertType ==
    ASSUME TypeOK, NEW k \in Work \cup {NoWork}, Insert(k)
    PROVE  /\ status' \in [JobId -> JobStatus \cup {"absent"}]
           /\ work' \in [JobId -> Work \cup {NoWork}]
           /\ attempts' \in [JobId -> Nat]
           /\ due' \in [JobId -> Nat]
           /\ lockAge' \in [JobId -> 0..StaleAfter]
           /\ nextId' \in 1..(MaxJobs + 1)
<1>1. nextId' \in 1..(MaxJobs + 1)
  BY ConstantsAssumption DEF Insert, TypeOK
<1> QED
  BY <1>1 DEF Insert, TypeOK, JobStatus

\* A worker that is executing or failing does so to a row.
HoldsRow == \A w \in Worker : Busy(w) => held[w] \in JobId

\* The initial values are of their types.
LEMMA InitType == Init => TypeOK
<1> SUFFICES ASSUME Init PROVE TypeOK
  OBVIOUS
<1>1. /\ 0 \in 0..MaxJobs /\ 0 \in 0..StaleAfter /\ 1 \in 1..(MaxJobs + 1)
      /\ 0 \in 0..MaxCrashes /\ 0 \in 0..MaxRetries
  BY ConstantsAssumption
<1> QED
  BY <1>1 DEF Init, TypeOK, Actor

\* A client's steps keep the types.
LEMMA ClientType ==
    ASSUME TypeOK, NEW c \in Client, ClientStep(c)
    PROVE  TypeOK'
<1> c \in Actor
  BY DEF Actor
<1>1. CASE \E k \in Work : EnqueueOnceSelect(c, k)
  BY <1>1 DEF EnqueueOnceSelect, TypeOK, rows, bounds, history
<1>2. CASE EnqueueOnceInsert(c)
  <2>1. wanted[c] \in Work \cup {NoWork}
    BY DEF TypeOK
  <2>2. CASE UNCHANGED rows
    BY <1>2, <2>2 DEF EnqueueOnceInsert, TypeOK, rows, bounds, history
  <2>3. CASE Insert(wanted[c])
    BY <1>2, <2>1, <2>3, InsertType DEF EnqueueOnceInsert, TypeOK, bounds, history
  <2> QED
    BY <1>2, <2>2, <2>3 DEF EnqueueOnceInsert
<1>3. CASE CancelSelect(c)
  <2>1. seen' \in [Actor -> SUBSET Snapshots]
    BY <1>3, SnapshotType DEF CancelSelect, DataJobs, TypeOK
  <2> QED
    BY <1>3, <2>1 DEF CancelSelect, TypeOK, rows, bounds, history
<1>4. CASE CancelWrite(c)
  <2>1. seen[c] \in SUBSET Snapshots
    BY DEF TypeOK
  <2>2. suspect' \in SUBSET JobId
    BY <1>4, <2>1, IdsType DEF CancelWrite, TypeOK
  <2> QED
    BY <1>4, <2>2 DEF CancelWrite, TypeOK, bounds, JobStatus
<1>5. CASE RetrySelect(c)
  <2>1. seen' \in [Actor -> SUBSET Snapshots]
    BY <1>5, SnapshotType DEF RetrySelect, DataJobs, TypeOK
  <2>2. retries' \in 0..MaxRetries
    BY <1>5, ConstantsAssumption DEF RetrySelect, TypeOK
  <2> QED
    BY <1>5, <2>1, <2>2 DEF RetrySelect, TypeOK, rows, history
<1>6. CASE RetryWrite(c)
  <2>1. seen[c] \in SUBSET Snapshots
    BY DEF TypeOK
  <2>2. suspect' \in SUBSET JobId
    BY <1>6, <2>1, IdsType DEF RetryWrite, TypeOK
  <2> QED
    BY <1>6, <2>2 DEF RetryWrite, TypeOK, bounds, JobStatus
<1> QED
  BY <1>1, <1>2, <1>3, <1>4, <1>5, <1>6 DEF ClientStep

\* A worker's steps keep the types.
LEMMA WorkerType ==
    ASSUME TypeOK, HoldsRow, NEW w \in Worker, WorkerStep(w) \/ Crash(w)
    PROVE  TypeOK'
<1> w \in Actor
  BY DEF Actor
<1>0. seen[w] \in SUBSET Snapshots
  BY DEF TypeOK
<1>1. CASE StartAndSelectStale(w)
  <2>1. seen' \in [Actor -> SUBSET Snapshots]
    BY <1>1, SnapshotType DEF StartAndSelectStale, TypeOK
  <2> QED
    BY <1>1, <2>1 DEF StartAndSelectStale, TypeOK, rows, bounds, history
<1>2. CASE RecoverStale(w)
  <2>1. suspect' \in SUBSET JobId
    BY <1>0, <1>2, IdsType DEF RecoverStale, TypeOK
  <2>2. /\ status' \in [JobId -> JobStatus \cup {"absent"}]
        /\ due' \in [JobId -> Nat]
    BY <1>2, AfterFailureType DEF RecoverStale, TypeOK
  <2> QED
    BY <1>2, <2>1, <2>2 DEF RecoverStale, TypeOK, bounds
<1>3. CASE \E j \in JobId : ClaimNext(w, j)
  <2>1. /\ JobId \subseteq 0..MaxJobs
        /\ 0 \in 0..StaleAfter
    BY ConstantsAssumption DEF JobId
  <2> QED
    BY <1>3, <2>1 DEF ClaimNext, TypeOK, bounds, JobStatus
<1>4. CASE Complete(w)
  <2>1. status' \in [JobId -> JobStatus \cup {"absent"}]
    BY <1>4 DEF Complete, TypeOK, JobStatus
  <2> QED
    BY <1>4, <2>1, ReleaseType DEF Complete, TypeOK, bounds, history
<1>5. CASE FailSelect(w)
  <2>2. held[w] \in JobId
    BY <1>5 DEF FailSelect, HoldsRow, Busy
  <2>3. seen' \in [Actor -> SUBSET Snapshots]
    BY <1>5, <2>2, SnapshotType DEF FailSelect, TypeOK
  <2> QED
    BY <1>5, <2>3 DEF FailSelect, TypeOK, rows, bounds, history
<1>6. CASE FailConflict(w)
  BY <1>6, ReleaseType DEF FailConflict, TypeOK, rows, bounds, history
<1>7. CASE FailWrite(w)
  <2>1. suspect' \in SUBSET JobId
    BY <1>0, <1>7, IdsType DEF FailWrite, TypeOK
  <2>2. status' \in [JobId -> JobStatus \cup {"absent"}]
    BY <1>7, AfterFailureType DEF FailWrite, TypeOK
  <2>3. ASSUME NEW j \in Requeued(seen[w])
        PROVE  RetryDelay * (CHOOSE s \in seen[w] : s.id = j).attempts \in Nat
    <3>1. \E s \in seen[w] : s.id = j
      BY <2>3 DEF Requeued, Ids
    <3>2. (CHOOSE s \in seen[w] : s.id = j) \in Snapshots
      BY <1>0, <3>1
    <3>3. (CHOOSE s \in seen[w] : s.id = j).attempts \in Nat
      BY <3>2 DEF Snapshots
    <3> QED
      BY <3>3, ConstantsAssumption
  <2>4. due' \in [JobId -> Nat]
    BY <1>7, <2>3 DEF FailWrite, TypeOK
  <2>5. Release(w, "idle") \/ Release(w, "down")
    BY <1>7 DEF FailWrite
  <2> QED
    BY <1>7, <2>1, <2>2, <2>4, <2>5, ReleaseType DEF FailWrite, TypeOK, bounds
<1>8. CASE Crash(w)
  <2>1. crashes' \in 0..MaxCrashes
    BY <1>8, ConstantsAssumption DEF Crash, TypeOK
  <2> QED
    BY <1>8, <2>1, ReleaseType DEF Crash, TypeOK, rows, history
<1> QED
  BY <1>1, <1>2, <1>3, <1>4, <1>5, <1>6, <1>7, <1>8 DEF WorkerStep

\* The passing of time keeps the types.
LEMMA TickType ==
    ASSUME TypeOK, HoldsRow, Tick
    PROVE  TypeOK'
<1>1. \A a \in 0..StaleAfter : Older(a) \in 0..StaleAfter
  BY ConstantsAssumption DEF Older
<1>2. 0 \in 0..StaleAfter
  BY ConstantsAssumption
<1>3. lockAge' \in [JobId -> 0..StaleAfter]
  BY <1>1, <1>2 DEF Tick, TypeOK
<1>4. heldAge' \in [Worker -> 0..StaleAfter]
  BY <1>1, <1>2 DEF Tick, TypeOK
<1>5. due' \in [JobId -> Nat]
  BY DEF Tick, TypeOK
<1>6. suspect' \in SUBSET JobId
  BY DEF Tick, TypeOK, HoldsRow
<1> QED
  BY <1>3, <1>4, <1>5, <1>6 DEF Tick, TypeOK, bounds

\* Only a claim makes a worker busy, and it names a row.
LEMMA HoldsRowStep ==
    ASSUME TypeOK, HoldsRow, [Next]_vars
    PROVE  HoldsRow'
<1> SUFFICES ASSUME NEW v \in Worker, Busy(v)'
             PROVE  held'[v] \in JobId
  BY DEF HoldsRow
<1> v \in Actor
  BY DEF Actor
<1> USE DEF TypeOK, HoldsRow, Busy
<1>1. ASSUME NEW w \in Worker, NEW j \in JobId, ClaimNext(w, j)
      PROVE  held'[v] \in JobId
  BY <1>1 DEF ClaimNext
<1>2. ASSUME NEW w \in Worker, FailSelect(w)
      PROVE  held'[v] \in JobId
  BY <1>2 DEF FailSelect
<1>3. ASSUME NEW w \in Worker, NEW next \in {"down", "idle"}, Release(w, next)
      PROVE  held'[v] \in JobId
  BY <1>3 DEF Release
<1>4. ASSUME NEW w \in Worker, StartAndSelectStale(w) \/ RecoverStale(w)
      PROVE  held'[v] \in JobId
  BY <1>4 DEF StartAndSelectStale, RecoverStale
<1>5. ASSUME NEW c \in Client, ClientStep(c)
      PROVE  held'[v] \in JobId
  <2> v # c
    BY ActorsDisjoint
  <2> QED
    BY <1>5 DEF ClientStep, EnqueueOnceSelect, EnqueueOnceInsert, CancelSelect,
             CancelWrite, RetrySelect, RetryWrite
<1>6. CASE UNCHANGED procs \/ Tick
  BY <1>6 DEF Tick, procs
<1>7. ASSUME NEW w \in Worker, WorkerStep(w) \/ Crash(w)
      PROVE  held'[v] \in JobId
  BY <1>1, <1>2, <1>3, <1>4, <1>7
     DEF WorkerStep, Complete, FailConflict, FailWrite, Crash
<1> QED
  BY <1>5, <1>6, <1>7 DEF Next, Enqueue, vars

\* The type invariant, with what a worker holds, is inductive.
LEMMA TypeStep ==
    ASSUME TypeOK, HoldsRow, [Next]_vars
    PROVE  TypeOK'
<1>1. ASSUME NEW k \in Work, Enqueue(k)
      PROVE  TypeOK'
  BY <1>1, InsertType DEF Enqueue, TypeOK, procs, bounds, history
<1>2. CASE UNCHANGED vars
  BY <1>2 DEF TypeOK, vars, rows, procs, bounds, history
<1> QED
  BY <1>1, <1>2, ClientType, WorkerType, TickType DEF Next

\* The queue's variables always have their types, and a busy worker a row.
THEOREM TypeCorrect == Spec => [](TypeOK /\ HoldsRow)
<1>1. Init => TypeOK /\ HoldsRow
  <2>1. Init => HoldsRow
    BY DEF Init, HoldsRow, Busy, Actor
  <2> QED
    BY <2>1, InitType
<1>2. TypeOK /\ HoldsRow /\ [Next]_vars => (TypeOK /\ HoldsRow)'
  BY TypeStep, HoldsRowStep
<1> QED
  BY <1>1, <1>2, PTL DEF Spec

(***************************************************************************)
(* One active row per idempotency key                                      *)
(***************************************************************************)

\* A change that activates no row and renames none keeps the keys unique.
LEMMA NoNewActive ==
    ASSUME ActiveKeyUnique, work' = work,
           \A j \in JobId : status'[j] \in ActiveStatus => status[j] \in ActiveStatus
    PROVE  ActiveKeyUnique'
BY DEF ActiveKeyUnique, IndexAllows

\* An insertion keeps the keys unique if its key is not taken.
LEMMA InsertUnique ==
    ASSUME TypeOK, ActiveKeyUnique, NEW k, Insert(k), k \in Keyed => ~KeyTaken(k)
    PROVE  ActiveKeyUnique'
BY DEF ActiveKeyUnique, IndexAllows, Insert, KeyTaken, Active, ActiveStatus, TypeOK

\* Every step keeps the active keys unique.
LEMMA KeyStep ==
    ASSUME TypeOK, HoldsRow, ActiveKeyUnique, [Next]_vars
    PROVE  ActiveKeyUnique'
<1>1. ASSUME NEW k \in Work, Enqueue(k)
      PROVE  ActiveKeyUnique'
  BY <1>1, InsertUnique DEF Enqueue
<1>2. ASSUME NEW c \in Client, ClientStep(c)
      PROVE  ActiveKeyUnique'
  <2>1. CASE UNCHANGED <<status, work>>
    BY <2>1, NoNewActive
  <2>2. CASE EnqueueOnceInsert(c)
    <3>1. CASE Insert(wanted[c]) /\ ~KeyTaken(wanted[c])
      BY <3>1, InsertUnique
    <3> QED
      BY <2>1, <2>2, <3>1 DEF EnqueueOnceInsert, rows
  <2>3. CASE CancelWrite(c)
    BY <2>3, NoNewActive DEF CancelWrite, ActiveStatus, TypeOK
  <2>4. CASE RetryWrite(c)
    <3>1. CASE IndexAllows(status', work)
      BY <2>4, <3>1 DEF RetryWrite, ActiveKeyUnique
    <3> QED
      BY <2>1, <2>4, <3>1 DEF RetryWrite
  <2> QED
    BY <1>2, <2>1, <2>2, <2>3, <2>4
       DEF ClientStep, EnqueueOnceSelect, CancelSelect, RetrySelect, rows
<1>3. ASSUME NEW w \in Worker, WorkerStep(w) \/ Crash(w)
      PROVE  ActiveKeyUnique'
  <2>1. CASE UNCHANGED <<status, work>>
    BY <2>1, NoNewActive
  <2>2. CASE RecoverStale(w) \/ FailWrite(w)
    <3>1. CASE IndexAllows(status', work)
      BY <2>2, <3>1 DEF RecoverStale, FailWrite, ActiveKeyUnique
    <3> QED
      BY <2>1, <2>2, <3>1 DEF RecoverStale, FailWrite
  <2>3. ASSUME NEW j \in JobId, ClaimNext(w, j)
        PROVE  ActiveKeyUnique'
    BY <2>3, NoNewActive DEF ClaimNext, Claimable, ActiveStatus, TypeOK
  <2>4. CASE Complete(w)
    BY <2>4, NoNewActive DEF Complete, ActiveStatus, TypeOK
  <2> QED
    BY <1>3, <2>1, <2>2, <2>3, <2>4
       DEF WorkerStep, StartAndSelectStale, FailSelect, FailConflict, Crash, rows
<1>4. CASE Tick \/ UNCHANGED vars
  BY <1>4, NoNewActive DEF Tick, vars, rows
<1> QED
  BY <1>1, <1>2, <1>3, <1>4 DEF Next

\* No idempotency key is ever active twice.
THEOREM KeysUnique == Spec => []ActiveKeyUnique
<1>1. Init => ActiveKeyUnique
  BY DEF Init, ActiveKeyUnique, IndexAllows, ActiveStatus
<1>2. TypeOK /\ HoldsRow /\ ActiveKeyUnique /\ [Next]_vars => ActiveKeyUnique'
  BY KeyStep
<1> QED
  BY <1>1, <1>2, TypeCorrect, PTL DEF Spec

(***************************************************************************)
(* The lease: single execution, and the refinement of JobLease             *)
(***************************************************************************)

\* Rows from nextId on are not inserted, and nobody has read or claimed one.
FreshRows ==
    /\ \A j \in JobId : j >= nextId => status[j] = "absent" /\ attempts[j] = 0
    /\ \A a \in Actor : \A s \in seen[a] : s.id < nextId /\ s.claim <= claims[s.id]
    /\ \A w \in Worker : Busy(w) => held[w] < nextId

\* A row that is not suspect runs for one worker, which claimed it when the row
\* says and has not overrun.
LeaseHeld ==
    \A w \in Worker : Busy(w) /\ held[w] \notin suspect =>
        /\ status[held[w]] = "running"
        /\ heldAge[w] = lockAge[held[w]]
        /\ heldAge[w] < StaleAfter
        /\ \A v \in Worker : Busy(v) /\ held[v] = held[w] => v = w

\* What a failing worker read of its row still holds of it...
FailureCurrent ==
    \A w \in Worker : pc[w] = "failing" =>
        \A s \in seen[w] :
            /\ s.id = held[w]
            /\ s.id \notin suspect => s.claim = claims[s.id] /\ s.attempts = attempts[s.id]

\* ...and a row a starting worker found interrupted has no executor for as long
\* as nobody has claimed it again.
RecoveryCurrent ==
    \A w \in Worker : pc[w] = "recovering" =>
        \A s \in seen[w] :
            s.id \notin suspect /\ status[s.id] = "running" /\ claims[s.id] = s.claim
                => Holders(s.id) = {} /\ s.attempts = attempts[s.id]

LeaseInv ==
    /\ FreshRows
    /\ LeaseHeld
    /\ FailureCurrent
    /\ RecoveryCurrent
    /\ AttemptsBounded

\* The rows of a SELECT on inserted rows are inserted rows, as they are.
LEMMA FreshSnapshot ==
    ASSUME TypeOK, FreshRows, NEW j \in JobId, status[j] # "absent"
    PROVE  /\ Snapshot(j).id = j
           /\ Snapshot(j).id < nextId
           /\ Snapshot(j).claim = claims[j]
           /\ Snapshot(j).claim <= claims[j]
           /\ Snapshot(j).attempts = attempts[j]
<1>1. j < nextId
  BY DEF FreshRows, TypeOK, JobId
<1>2. claims[j] \in Nat
  BY DEF TypeOK
<1> QED
  BY <1>1, <1>2 DEF Snapshot

\* The fresh rows stay fresh when a step writes, reads and claims inserted rows.
LEMMA FreshStep ==
    ASSUME TypeOK, TypeOK', HoldsRow', FreshRows, nextId <= nextId',
           \A j \in JobId : claims[j] <= claims'[j],
           \A j \in JobId : j >= nextId' => status'[j] = status[j] /\ attempts'[j] = attempts[j],
           \A a \in Actor : \A s \in seen'[a] :
               s \in seen[a] \/ (s.id < nextId /\ s.claim <= claims'[s.id]),
           \A w \in Worker : Busy(w)' => (Busy(w) /\ held'[w] = held[w]) \/ held'[w] < nextId
    PROVE  FreshRows'
<1>0. nextId \in Int /\ nextId' \in Int
  BY ConstantsAssumption DEF TypeOK
<1>1. \A j \in JobId : j >= nextId' => status'[j] = "absent" /\ attempts'[j] = 0
  <2> \A j \in JobId : j >= nextId' => j >= nextId
    BY <1>0 DEF JobId
  <2> QED
    BY DEF FreshRows
<1>2. ASSUME NEW a \in Actor, NEW s \in seen'[a]
      PROVE  s.id < nextId' /\ s.claim <= claims'[s.id]
  <2>1. s \in Snapshots
    BY <1>2 DEF TypeOK
  <2>2. s.id \in JobId /\ s.id \in Int /\ s.claim \in Int
    BY <2>1 DEF Snapshots, JobId
  <2>3. claims[s.id] \in Int /\ claims'[s.id] \in Int /\ claims[s.id] <= claims'[s.id]
    BY <2>2 DEF TypeOK
  <2>4. s.id < nextId /\ s.claim <= claims'[s.id]
    <3>1. CASE s \in seen[a]
      <4>1. s.id < nextId /\ s.claim <= claims[s.id]
        BY <3>1 DEF FreshRows
      <4> QED
        BY <4>1, <2>2, <2>3
    <3> QED
      BY <1>2, <3>1
  <2> QED
    BY <2>2, <2>4, <1>0
<1>3. ASSUME NEW w \in Worker, Busy(w)'
      PROVE  held'[w] < nextId'
  <2>1. held'[w] \in Int
    BY <1>3 DEF HoldsRow, JobId
  <2>2. held'[w] < nextId
    BY <1>3 DEF FreshRows
  <2> QED
    BY <2>1, <2>2, <1>0
<1> QED
  BY <1>1, <1>2, <1>3 DEF FreshRows

\* The same for a step that claims and reads nothing.
LEMMA FreshKept ==
    ASSUME TypeOK, TypeOK', HoldsRow', FreshRows, nextId <= nextId', claims' = claims,
           \A a \in Actor : seen'[a] \subseteq seen[a],
           \A w \in Worker : Busy(w)' => Busy(w) /\ held'[w] = held[w],
           \A j \in JobId : j >= nextId' => status'[j] = status[j] /\ attempts'[j] = attempts[j]
    PROVE  FreshRows'
<1>1. \A j \in JobId : claims[j] <= claims'[j]
  BY DEF TypeOK
<1>2. \A a \in Actor : \A s \in seen'[a] :
          s \in seen[a] \/ (s.id < nextId /\ s.claim <= claims'[s.id])
  OBVIOUS
<1>3. \A w \in Worker : Busy(w)' => (Busy(w) /\ held'[w] = held[w]) \/ held'[w] < nextId
  OBVIOUS
<1> QED
  BY <1>1, <1>2, <1>3, FreshStep

\* A step that writes only rows nobody executes, and starts no read.
LEMMA IdleRowsStep ==
    ASSUME TypeOK, HoldsRow, LeaseHeld, FailureCurrent, RecoveryCurrent,
           UNCHANGED <<held, heldAge, lockAge, claims>>,
           suspect \subseteq suspect',
           \A w \in Worker : Busy(w)' <=> Busy(w),
           \A w \in Worker : pc'[w] \in {"failing", "recovering"} =>
               pc'[w] = pc[w] /\ seen'[w] = seen[w],
           \A j \in JobId \ suspect' :
               \/ status'[j] = status[j] /\ attempts'[j] = attempts[j]
               \/ Holders(j) = {} /\ status'[j] # "running"
    PROVE  LeaseHeld' /\ FailureCurrent' /\ RecoveryCurrent'
<1>1. \A j \in JobId : Holders(j)' = Holders(j)
  BY DEF Holders
<1>2. ASSUME NEW w \in Worker, Busy(w), held[w] \notin suspect'
      PROVE  status'[held[w]] = status[held[w]] /\ attempts'[held[w]] = attempts[held[w]]
  <2>1. held[w] \in JobId \ suspect'
    BY <1>2 DEF HoldsRow
  <2>2. w \in Holders(held[w])
    BY <1>2 DEF Holders
  <2> QED
    BY <2>1, <2>2
<1>3. LeaseHeld'
  BY <1>2 DEF LeaseHeld
<1>4. FailureCurrent'
  BY <1>2 DEF FailureCurrent, Busy
<1>5. RecoveryCurrent'
  <2> SUFFICES ASSUME NEW w \in Worker, pc'[w] = "recovering", NEW s \in seen'[w],
                      s.id \notin suspect', status'[s.id] = "running",
                      claims[s.id] = s.claim
               PROVE  Holders(s.id)' = {} /\ s.attempts = attempts'[s.id]
    BY DEF RecoveryCurrent
  <2>1. s \in seen[w] /\ pc[w] = "recovering"
    OBVIOUS
  <2>2. s.id \in JobId \ suspect'
    BY <2>1 DEF TypeOK, Actor, Snapshots
  <2>3. status[s.id] = "running" /\ attempts'[s.id] = attempts[s.id]
    BY <2>2
  <2> QED
    BY <1>1, <2>1, <2>2, <2>3 DEF RecoveryCurrent
<1> QED
  BY <1>3, <1>4, <1>5

\* A step by which a worker lets go of the row it executes, and writes no other.
LEMMA ReleasedStep ==
    ASSUME TypeOK, HoldsRow, LeaseHeld, FailureCurrent, RecoveryCurrent,
           NEW w \in Worker, NEW next \in {"down", "idle"}, Release(w, next),
           UNCHANGED <<lockAge, claims, attempts>>,
           suspect \subseteq suspect',
           \A j \in JobId \ suspect' :
               \/ status'[j] = status[j]
               \/ Busy(w) /\ j = held[w] /\ status'[j] # "running"
    PROVE  LeaseHeld' /\ FailureCurrent' /\ RecoveryCurrent'
<1> w \in Actor
  BY DEF Actor
<1>1. /\ ~Busy(w)' /\ pc'[w] \notin {"failing", "recovering"}
      /\ \A v \in Worker : v # w => /\ pc'[v] = pc[v] /\ held'[v] = held[v]
                                    /\ heldAge'[v] = heldAge[v] /\ seen'[v] = seen[v]
                                    /\ Busy(v)' = Busy(v)
  BY DEF Release, TypeOK, Busy, Actor
<1>2. \A j \in JobId : Holders(j)' \subseteq Holders(j)
  BY <1>1 DEF Holders
<1>3. LeaseHeld'
  <2> SUFFICES ASSUME NEW v \in Worker, Busy(v)', held'[v] \notin suspect'
               PROVE  /\ status'[held'[v]] = "running"
                      /\ heldAge'[v] = lockAge[held'[v]]
                      /\ heldAge'[v] < StaleAfter
                      /\ \A u \in Worker : Busy(u)' /\ held'[u] = held'[v] => u = v
    BY DEF LeaseHeld
  <2>1. v # w /\ Busy(v) /\ held'[v] = held[v] /\ held[v] \in JobId \ suspect'
    BY <1>1 DEF HoldsRow
  <2>2. /\ status[held[v]] = "running"
        /\ heldAge[v] = lockAge[held[v]]
        /\ heldAge[v] < StaleAfter
        /\ \A u \in Worker : Busy(u) /\ held[u] = held[v] => u = v
    BY <2>1 DEF LeaseHeld
  <2>3. status'[held[v]] = status[held[v]]
    BY <2>1, <2>2
  <2> QED
    BY <1>1, <2>1, <2>2, <2>3
<1>4. FailureCurrent'
  BY <1>1 DEF FailureCurrent
<1>5. RecoveryCurrent'
  <2> SUFFICES ASSUME NEW v \in Worker, pc'[v] = "recovering", NEW s \in seen'[v],
                      s.id \notin suspect', status'[s.id] = "running",
                      claims[s.id] = s.claim
               PROVE  Holders(s.id)' = {} /\ s.attempts = attempts[s.id]
    BY DEF RecoveryCurrent
  <2>1. s \in seen[v] /\ pc[v] = "recovering"
    BY <1>1
  <2>2. s.id \in JobId \ suspect'
    BY <2>1 DEF TypeOK, Actor, Snapshots
  <2>3. status[s.id] = "running"
    BY <2>2
  <2> QED
    BY <1>2, <2>1, <2>2, <2>3 DEF RecoveryCurrent
<1> QED
  BY <1>3, <1>4, <1>5

\* A process that only reads, or a client's step that writes no row.
LEMMA ClientReadStep ==
    ASSUME TypeOK, HoldsRow, LeaseInv, NEW c \in Client,
           \/ \E k \in Work : EnqueueOnceSelect(c, k)
           \/ CancelSelect(c)
           \/ RetrySelect(c)
           \/ EnqueueOnceInsert(c) /\ UNCHANGED rows
    PROVE  LeaseInv'
<1> c \in Actor /\ c \notin Worker
  BY ActorsDisjoint DEF Actor
<1>1. /\ UNCHANGED <<rows, held, heldAge, history>>
      /\ \A w \in Worker : pc'[w] = pc[w] /\ seen'[w] = seen[w]
      /\ \A a \in Actor : a # c => seen'[a] = seen[a]
  BY DEF EnqueueOnceSelect, CancelSelect, RetrySelect, EnqueueOnceInsert, TypeOK, Actor
<1>2. \A s \in seen'[c] : s.id < nextId /\ s.claim <= claims[s.id]
  BY FreshSnapshot DEF EnqueueOnceSelect, CancelSelect, RetrySelect, EnqueueOnceInsert,
                       TypeOK, LeaseInv, FreshRows, DataJobs
<1>3. FreshRows'
  BY <1>1, <1>2 DEF LeaseInv, FreshRows, rows, history, Busy
<1>4. \A w \in Worker : Busy(w)' <=> Busy(w)
  BY <1>1 DEF Busy
<1>5. \A j \in JobId : Holders(j)' = Holders(j)
  BY <1>1, <1>4 DEF Holders
<1>6. LeaseHeld'
  BY <1>1, <1>4 DEF LeaseInv, LeaseHeld, rows, history
<1>7. FailureCurrent'
  BY <1>1 DEF LeaseInv, FailureCurrent, rows, history
<1>8. RecoveryCurrent'
  <2>1. \A w \in Worker : \A s \in seen[w] : s.id \in JobId
    BY DEF TypeOK, Actor, Snapshots
  <2> QED
    BY <1>1, <1>5, <2>1 DEF LeaseInv, RecoveryCurrent, rows, history
<1>9. AttemptsBounded'
  BY <1>1 DEF LeaseInv, AttemptsBounded, rows, history
<1> QED
  BY <1>3, <1>6, <1>7, <1>8, <1>9 DEF LeaseInv

\* An insertion keeps the lease invariant: the new row is nobody's yet.
LEMMA InsertLease ==
    ASSUME TypeOK, TypeOK', HoldsRow, HoldsRow', LeaseInv, NEW k, Insert(k),
           UNCHANGED <<held, heldAge, seen, history>>,
           \A w \in Worker : pc'[w] = pc[w]
    PROVE  LeaseInv'
<1>0. nextId \in JobId /\ nextId' = nextId + 1 /\ nextId \in Int
  BY ConstantsAssumption DEF Insert, TypeOK, JobId
<1>1. \A j \in JobId : j # nextId => status'[j] = status[j]
  BY DEF Insert, TypeOK
<1>2. status'[nextId] = "queued" /\ attempts[nextId] = 0 /\ Holders(nextId) = {}
  <2>1. Holders(nextId) = {}
    BY <1>0 DEF LeaseInv, FreshRows, Holders
  <2> QED
    BY <1>0, <2>1 DEF Insert, TypeOK, LeaseInv, FreshRows
<1>3. \A w \in Worker : Busy(w)' <=> Busy(w)
  BY DEF Busy
<1>4. FreshRows'
  <2>1. \A j \in JobId : j >= nextId' => j # nextId
    BY <1>0
  <2>2. \A a \in Actor : seen'[a] \subseteq seen[a]
    OBVIOUS
  <2>3. \A j \in JobId : j >= nextId' => status'[j] = status[j] /\ attempts'[j] = attempts[j]
    BY <1>1, <2>1 DEF Insert
  <2>4. nextId <= nextId' /\ claims' = claims
    BY <1>0 DEF history
  <2>5. \A w \in Worker : Busy(w)' => Busy(w) /\ held'[w] = held[w]
    BY <1>3
  <2> QED
    BY <2>2, <2>3, <2>4, <2>5, FreshKept DEF LeaseInv
<1>5. LeaseHeld' /\ FailureCurrent' /\ RecoveryCurrent'
  <2>1. \A j \in JobId \ suspect' :
               \/ status'[j] = status[j] /\ attempts'[j] = attempts[j]
               \/ Holders(j) = {} /\ status'[j] # "running"
    BY <1>1, <1>2 DEF Insert
  <2> QED
    BY <1>3, <2>1, IdleRowsStep DEF LeaseInv, Insert, history
<1>6. AttemptsBounded'
  <2>1. 0 < MaxAttempts
    BY ConstantsAssumption
  <2> QED
    BY <1>1, <1>2, <2>1 DEF LeaseInv, AttemptsBounded, Insert, history
<1> QED
  BY <1>4, <1>5, <1>6 DEF LeaseInv

\* The rows a process wrote back are not suspect only if they are as it read them.
LEMMA CurrentUnlessSuspect ==
    ASSUME TypeOK, NEW a \in Actor, NEW e, suspect' = suspect \cup Outdated(seen[a], e),
           NEW s \in seen[a], s.id \notin suspect'
    PROVE  s.id \in JobId /\ status[s.id] = e /\ s.claim = claims[s.id]
BY DEF Outdated, TypeOK, Snapshots

\* A row that is not RUNNING is executed by nobody, unless it is suspect.
LEMMA WaitingHasNoHolder ==
    ASSUME HoldsRow, LeaseHeld, NEW j \in JobId \ suspect, status[j] # "running"
    PROVE  Holders(j) = {}
BY DEF LeaseHeld, Holders

\* An administrator's write.
LEMMA AdminLease ==
    ASSUME TypeOK, TypeOK', HoldsRow, HoldsRow', LeaseInv, NEW c \in Client,
           CancelWrite(c) \/ RetryWrite(c)
    PROVE  LeaseInv'
<1> c \in Actor /\ c \notin Worker
  BY ActorsDisjoint DEF Actor
<1>1. CASE RetryWrite(c) /\ UNCHANGED <<status, attempts, suspect>>
  <2>1. \A w \in Worker : pc'[w] = pc[w] /\ seen'[w] = seen[w]
    BY <1>1 DEF RetryWrite, TypeOK
  <2>2. FreshRows'
    <3>1. \A a \in Actor : seen'[a] \subseteq seen[a]
      BY <1>1 DEF RetryWrite, TypeOK
    <3>2. \A w \in Worker : Busy(w)' => Busy(w) /\ held'[w] = held[w]
      BY <1>1, <2>1 DEF Busy, RetryWrite
    <3>3. nextId <= nextId' /\ claims' = claims
      BY <1>1 DEF TypeOK, RetryWrite
    <3>4. \A j \in JobId : j >= nextId' => status'[j] = status[j] /\ attempts'[j] = attempts[j]
      BY <1>1
    <3> QED
      BY <3>1, <3>2, <3>3, <3>4, FreshKept DEF LeaseInv
  <2>3. \A w \in Worker : Busy(w)' <=> Busy(w)
    BY <2>1 DEF Busy
  <2>4. LeaseHeld' /\ FailureCurrent' /\ RecoveryCurrent'
    BY <1>1, <2>1, <2>3, IdleRowsStep DEF RetryWrite, LeaseInv
  <2> QED
    BY <1>1, <2>2, <2>4 DEF LeaseInv, AttemptsBounded
<1>2. CASE \E e \in {"queued", "dead_letter"} :
              /\ suspect' = suspect \cup Outdated(seen[c], e)
              /\ \A j \in JobId : j \notin Ids(seen[c]) =>
                    status'[j] = status[j] /\ attempts'[j] = attempts[j]
              /\ \A j \in Ids(seen[c]) :
                    \/ status'[j] = "canceled" /\ attempts'[j] = attempts[j]
                    \/ status'[j] = "queued" /\ attempts'[j] = 0
  <2> PICK e \in {"queued", "dead_letter"} :
              /\ suspect' = suspect \cup Outdated(seen[c], e)
              /\ \A j \in JobId : j \notin Ids(seen[c]) =>
                    status'[j] = status[j] /\ attempts'[j] = attempts[j]
              /\ \A j \in Ids(seen[c]) :
                    \/ status'[j] = "canceled" /\ attempts'[j] = attempts[j]
                    \/ status'[j] = "queued" /\ attempts'[j] = 0
    BY <1>2
  <2>0. /\ \A w \in Worker : pc'[w] = pc[w] /\ seen'[w] = seen[w]
        /\ \A a \in Actor : seen'[a] \subseteq seen[a]
        /\ UNCHANGED <<held, heldAge, lockAge, claims, nextId>>
    <3>1. /\ seen' = [seen EXCEPT ![c] = {}]
          /\ pc' = [pc EXCEPT ![c] = "idle"]
          /\ UNCHANGED <<held, heldAge, lockAge, claims, nextId>>
      BY DEF CancelWrite, RetryWrite
    <3> QED
      BY <3>1 DEF TypeOK
  <2>1. \A w \in Worker : Busy(w)' <=> Busy(w)
    BY <2>0 DEF Busy
  <2>2. \A j \in Ids(seen[c]) : j \in JobId /\ j < nextId
    BY DEF Ids, LeaseInv, FreshRows, TypeOK, Snapshots
  <2>3. FreshRows'
    <3>1. \A j \in JobId : j >= nextId => j \notin Ids(seen[c])
      BY <2>2, ConstantsAssumption DEF JobId, TypeOK
    <3>2. nextId <= nextId' /\ claims' = claims
      BY <2>0 DEF TypeOK
    <3>3. \A j \in JobId : j >= nextId' => status'[j] = status[j] /\ attempts'[j] = attempts[j]
      BY <2>0, <3>1
    <3>4. \A w \in Worker : Busy(w)' => Busy(w) /\ held'[w] = held[w]
      BY <2>0, <2>1
    <3> QED
      BY <2>0, <3>2, <3>3, <3>4, FreshKept DEF LeaseInv
  <2>4. \A j \in JobId \ suspect' :
               \/ status'[j] = status[j] /\ attempts'[j] = attempts[j]
               \/ Holders(j) = {} /\ status'[j] # "running"
    <3> TAKE j \in JobId \ suspect'
    <3>1. CASE j \in Ids(seen[c])
      <4>1. PICK s \in seen[c] : s.id = j
        BY <3>1 DEF Ids
      <4>2. status[j] = e
        BY <4>1, CurrentUnlessSuspect
      <4>3. Holders(j) = {}
        BY <4>2, WaitingHasNoHolder DEF LeaseInv
      <4> QED
        BY <3>1, <4>3
    <3> QED
      BY <3>1
  <2>5. LeaseHeld' /\ FailureCurrent' /\ RecoveryCurrent'
    BY <2>0, <2>1, <2>4, IdleRowsStep DEF LeaseInv
  <2>6. AttemptsBounded'
    <3>1. 0 < MaxAttempts /\ 0 <= MaxAttempts
      BY ConstantsAssumption
    <3> QED
      BY <3>1 DEF LeaseInv, AttemptsBounded
  <2> QED
    BY <2>3, <2>5, <2>6 DEF LeaseInv
<1>3. Ids(seen[c]) \subseteq JobId
  BY IdsType DEF TypeOK
<1>4. CASE CancelWrite(c)
  BY <1>2, <1>3, <1>4 DEF CancelWrite
<1>5. CASE RetryWrite(c)
  BY <1>1, <1>2, <1>3, <1>5 DEF RetryWrite
<1> QED
  BY <1>4, <1>5

\* The recovery of a starting worker: its SELECT.
LEMMA StartLease ==
    ASSUME TypeOK, TypeOK', HoldsRow, HoldsRow', LeaseInv, NEW w \in Worker,
           StartAndSelectStale(w)
    PROVE  LeaseInv'
<1> w \in Actor
  BY DEF Actor
<1>1. /\ UNCHANGED <<rows, held, heldAge, claims, suspect>>
      /\ UNCHANGED <<status, attempts, lockAge, nextId>>
      /\ pc' = [pc EXCEPT ![w] = pc'[w]]
      /\ pc[w] = "down" /\ pc'[w] \in {"idle", "recovering"}
      /\ seen' = [seen EXCEPT ![w] = {Snapshot(j) : j \in {i \in JobId : Interrupted(i)}}]
  BY DEF StartAndSelectStale, TypeOK, rows, history
<1>2. \A v \in Worker : (Busy(v)' <=> Busy(v)) /\ (v # w => pc'[v] = pc[v] /\ seen'[v] = seen[v])
  BY <1>1 DEF Busy, TypeOK, Actor
<1>3. \A j \in JobId : Holders(j)' = Holders(j)
  BY <1>1, <1>2 DEF Holders
<1>4. ASSUME NEW j \in JobId, Interrupted(j), j \notin suspect
      PROVE  Holders(j) = {}
  BY <1>4, ConstantsAssumption DEF LeaseInv, LeaseHeld, Holders, Interrupted, TypeOK
<1>5. ASSUME NEW s \in seen'[w]
      PROVE  /\ s.id < nextId /\ s.claim <= claims[s.id]
             /\ s.attempts = attempts[s.id]
             /\ s.id \notin suspect => Holders(s.id) = {}
  <2>1. PICK j \in JobId : Interrupted(j) /\ s = Snapshot(j)
    BY <1>1, <1>5 DEF TypeOK
  <2>2. status[j] # "absent"
    BY <2>1 DEF Interrupted
  <2>3. /\ s.id = j /\ s.id < nextId /\ s.claim <= claims[j]
        /\ s.attempts = attempts[j]
    BY <2>1, <2>2, FreshSnapshot DEF LeaseInv
  <2> QED
    BY <1>4, <2>1, <2>3
<1>6. FreshRows'
  <2>1. \A a \in Actor : \A s \in seen'[a] :
           s \in seen[a] \/ (s.id < nextId /\ s.claim <= claims'[s.id])
    <3> TAKE a \in Actor
    <3> TAKE s \in seen'[a]
    <3>1. CASE a = w
      BY <1>1, <1>5, <3>1
    <3>2. CASE a # w
      BY <1>1, <3>2 DEF TypeOK
    <3> QED
      BY <3>1, <3>2
  <2>2. \A v \in Worker : Busy(v)' => (Busy(v) /\ held'[v] = held[v]) \/ held'[v] < nextId
    BY <1>1, <1>2
  <2>3. nextId <= nextId' /\ \A j \in JobId : claims[j] <= claims'[j]
    BY <1>1 DEF TypeOK
  <2>4. \A j \in JobId : j >= nextId' => status'[j] = status[j] /\ attempts'[j] = attempts[j]
    BY <1>1
  <2> QED
    BY <2>1, <2>2, <2>3, <2>4, FreshStep DEF LeaseInv
<1>7. LeaseHeld'
  BY <1>1, <1>2 DEF LeaseInv, LeaseHeld
<1>8. FailureCurrent'
  <2>1. \A v \in Worker : pc'[v] = "failing" => pc[v] = "failing" /\ seen'[v] = seen[v]
    BY <1>1, <1>2
  <2>2. UNCHANGED <<held, suspect, claims, attempts>>
    BY <1>1
  <2> QED
    BY <2>1, <2>2 DEF LeaseInv, FailureCurrent
<1>9. RecoveryCurrent'
  <2> SUFFICES ASSUME NEW v \in Worker, pc'[v] = "recovering", NEW s \in seen'[v],
                      s.id \notin suspect, status[s.id] = "running",
                      claims[s.id] = s.claim
               PROVE  Holders(s.id)' = {} /\ s.attempts = attempts[s.id]
    BY <1>1 DEF RecoveryCurrent
  <2>1. s.id \in JobId
    BY DEF TypeOK, Actor, Snapshots
  <2>2. CASE v = w
    BY <1>3, <1>5, <2>1, <2>2
  <2>3. CASE v # w
    BY <1>2, <1>3, <2>1, <2>3 DEF LeaseInv, RecoveryCurrent
  <2> QED
    BY <2>2, <2>3
<1>10. AttemptsBounded'
  BY <1>1 DEF LeaseInv, AttemptsBounded
<1> QED
  BY <1>6, <1>7, <1>8, <1>9, <1>10 DEF LeaseInv

\* The recovery's UPDATEs.
LEMMA RecoverLease ==
    ASSUME TypeOK, TypeOK', HoldsRow, HoldsRow', LeaseInv, NEW w \in Worker,
           RecoverStale(w)
    PROVE  LeaseInv'
<1> w \in Actor
  BY DEF Actor
<1>1. /\ UNCHANGED <<attempts, lockAge, nextId, held, heldAge, claims>>
      /\ seen' = [seen EXCEPT ![w] = {}]
      /\ pc[w] = "recovering" /\ pc'[w] \in {"idle", "down"}
      /\ pc' = [pc EXCEPT ![w] = pc'[w]]
  BY DEF RecoverStale, TypeOK
<1>2. /\ \A v \in Worker : Busy(v)' <=> Busy(v)
      /\ \A v \in Worker : pc'[v] \in {"failing", "recovering"} => pc'[v] = pc[v] /\ seen'[v] = seen[v]
      /\ \A a \in Actor : seen'[a] \subseteq seen[a]
  BY <1>1 DEF Busy, TypeOK, Actor
<1>3. \/ status' = status /\ suspect' = suspect
      \/ status' = AfterFailure(seen[w]) /\ suspect' = suspect \cup Outdated(seen[w], "running")
  BY DEF RecoverStale
<1>4. \A j \in JobId : status'[j] = status[j] \/ j \in Ids(seen[w])
  BY <1>3, IdsType DEF AfterFailure, TypeOK
<1>5. FreshRows'
  <2>1. \A j \in Ids(seen[w]) : j \in JobId /\ j < nextId
    BY DEF Ids, LeaseInv, FreshRows, TypeOK, Snapshots
  <2>2. \A j \in JobId : j >= nextId => j \notin Ids(seen[w])
    BY <2>1, ConstantsAssumption DEF JobId, TypeOK
  <2>3. nextId <= nextId' /\ claims' = claims
    BY <1>1 DEF TypeOK
  <2>4. \A j \in JobId : j >= nextId' => status'[j] = status[j] /\ attempts'[j] = attempts[j]
    BY <1>1, <1>4, <2>2
  <2>5. \A v \in Worker : Busy(v)' => Busy(v) /\ held'[v] = held[v]
    BY <1>1, <1>2
  <2> QED
    BY <1>2, <2>3, <2>4, <2>5, FreshKept DEF LeaseInv
<1>6. ASSUME NEW j \in JobId \ suspect', status'[j] # status[j]
      PROVE  /\ Holders(j) = {}
             /\ status'[j] \in {"queued", "dead_letter"}
             /\ status'[j] = "queued" => attempts[j] < MaxAttempts
  <2>0. /\ status' = AfterFailure(seen[w])
        /\ suspect' = suspect \cup Outdated(seen[w], "running")
    BY <1>3, <1>6
  <2>1. PICK s \in seen[w] : s.id = j
    BY <1>4, <1>6 DEF Ids
  <2>2. status[j] = "running" /\ s.claim = claims[j] /\ j \notin suspect
    BY <1>6, <2>0, <2>1, CurrentUnlessSuspect
  <2>3. Holders(j) = {} /\ s.attempts = attempts[j]
    BY <1>1, <2>1, <2>2 DEF LeaseInv, RecoveryCurrent
  <2>4. status'[j] \in {"queued", "dead_letter"}
    <3>1. status'[j] = IF j \in Requeued(seen[w]) THEN "queued"
                       ELSE IF j \in Ids(seen[w]) THEN "dead_letter" ELSE status[j]
      BY <1>6, <2>0 DEF AfterFailure
    <3> QED
      BY <1>6, <3>1
  <2>5. ASSUME status'[j] = "queued"
        PROVE  attempts[j] < MaxAttempts
    <3>1. j \in Requeued(seen[w])
      BY <1>4, <1>6, <2>0, <2>5 DEF AfterFailure
    <3>2. PICK t \in seen[w] : t.id = j /\ t.attempts < MaxAttempts
      BY <3>1 DEF Requeued, Ids
    <3>3. t.claim = claims[j]
      BY <1>6, <2>0, <3>2, CurrentUnlessSuspect
    <3>4. t.attempts = attempts[j]
      BY <1>1, <2>2, <3>2, <3>3 DEF LeaseInv, RecoveryCurrent
    <3> QED
      BY <3>2, <3>4
  <2> QED
    BY <2>3, <2>4, <2>5
<1>7. suspect \subseteq suspect'
  BY <1>3
<1>8. LeaseHeld' /\ FailureCurrent' /\ RecoveryCurrent'
  <2>1. \A j \in JobId \ suspect' :
               \/ status'[j] = status[j] /\ attempts'[j] = attempts[j]
               \/ Holders(j) = {} /\ status'[j] # "running"
    BY <1>1, <1>6
  <2> QED
    BY <1>1, <1>2, <1>7, <2>1, IdleRowsStep DEF LeaseInv
<1>9. AttemptsBounded'
  BY <1>1, <1>6, <1>7 DEF LeaseInv, AttemptsBounded
<1> QED
  BY <1>5, <1>8, <1>9 DEF LeaseInv

\* A claim.
LEMMA ClaimLease ==
    ASSUME TypeOK, TypeOK', HoldsRow, HoldsRow', LeaseInv, NEW w \in Worker,
           NEW j \in JobId, ClaimNext(w, j)
    PROVE  LeaseInv'
<1> w \in Actor
  BY DEF Actor
<1>1. /\ status[j] = "queued" /\ status' = [status EXCEPT ![j] = "running"]
      /\ attempts' = [attempts EXCEPT ![j] = @ + 1]
      /\ lockAge' = [lockAge EXCEPT ![j] = 0]
      /\ claims' = [claims EXCEPT ![j] = @ + 1]
      /\ held' = [held EXCEPT ![w] = j]
      /\ heldAge' = [heldAge EXCEPT ![w] = 0]
      /\ pc' = [pc EXCEPT ![w] = "executing"]
      /\ pc[w] = "idle"
      /\ UNCHANGED <<seen, nextId, suspect>>
  BY DEF ClaimNext, Claimable
<1>2. \A i \in JobId : i # j =>
          /\ status'[i] = status[i] /\ attempts'[i] = attempts[i]
          /\ lockAge'[i] = lockAge[i] /\ claims'[i] = claims[i]
  BY <1>1 DEF TypeOK
<1>3. /\ status'[j] = "running" /\ lockAge'[j] = 0
      /\ attempts'[j] = attempts[j] + 1 /\ claims'[j] = claims[j] + 1
  BY <1>1 DEF TypeOK
<1>4. /\ Busy(w)' /\ ~Busy(w) /\ held'[w] = j /\ heldAge'[w] = 0 /\ pc'[w] = "executing"
      /\ \A v \in Worker : v # w => /\ Busy(v)' = Busy(v) /\ pc'[v] = pc[v]
                                    /\ held'[v] = held[v] /\ heldAge'[v] = heldAge[v]
  BY <1>1 DEF TypeOK, Busy, Actor
<1>5. \A v \in Worker : Busy(v) /\ held[v] \notin suspect => held[v] # j
  BY <1>1 DEF LeaseInv, LeaseHeld
<1>6. FreshRows'
  <2>1. \A i \in JobId : claims[i] <= claims'[i]
    <3> TAKE i \in JobId
    <3>1. claims[i] \in Nat
      BY DEF TypeOK
    <3> QED
      BY <1>2, <1>3, <3>1
  <2>2. j < nextId
    BY <1>1 DEF LeaseInv, FreshRows, TypeOK, JobId
  <2>3. \A v \in Worker : Busy(v)' => (Busy(v) /\ held'[v] = held[v]) \/ held'[v] < nextId
    BY <1>4, <2>2
  <2>4. \A i \in JobId : i >= nextId' => status'[i] = status[i] /\ attempts'[i] = attempts[i]
    BY <1>1, <1>2, <2>2 DEF JobId, TypeOK
  <2>5. \A a \in Actor : \A s \in seen'[a] :
           s \in seen[a] \/ (s.id < nextId /\ s.claim <= claims'[s.id])
    BY <1>1
  <2>6. nextId <= nextId'
    BY <1>1 DEF TypeOK
  <2> QED
    BY <2>1, <2>3, <2>4, <2>5, <2>6, FreshStep DEF LeaseInv
<1>7. LeaseHeld'
  <2> SUFFICES ASSUME NEW v \in Worker, Busy(v)', held'[v] \notin suspect
               PROVE  /\ status'[held'[v]] = "running"
                      /\ heldAge'[v] = lockAge'[held'[v]]
                      /\ heldAge'[v] < StaleAfter
                      /\ \A u \in Worker : Busy(u)' /\ held'[u] = held'[v] => u = v
    BY <1>1 DEF LeaseHeld
  <2>1. CASE v = w
    <3>1. \A u \in Worker : u # w /\ Busy(u)' => held'[u] # j
      BY <1>4, <1>5, <2>1
    <3> QED
      BY <1>3, <1>4, <2>1, <3>1, ConstantsAssumption
  <2>2. CASE v # w
    <3>1. /\ held'[v] = held[v] /\ heldAge'[v] = heldAge[v] /\ Busy(v)
          /\ held[v] # j /\ held[v] \in JobId
      BY <1>4, <1>5, <2>2 DEF HoldsRow
    <3>2. /\ status[held[v]] = "running"
          /\ heldAge[v] = lockAge[held[v]]
          /\ heldAge[v] < StaleAfter
          /\ \A u \in Worker : Busy(u) /\ held[u] = held[v] => u = v
      BY <3>1 DEF LeaseInv, LeaseHeld
    <3> QED
      BY <1>2, <1>4, <3>1, <3>2
  <2> QED
    BY <2>1, <2>2
<1>8. FailureCurrent'
  <2> SUFFICES ASSUME NEW v \in Worker, pc'[v] = "failing", NEW s \in seen'[v]
               PROVE  /\ s.id = held'[v]
                      /\ s.id \notin suspect => /\ s.claim = claims'[s.id]
                                                /\ s.attempts = attempts'[s.id]
    BY <1>1 DEF FailureCurrent
  <2>1. v # w /\ pc[v] = "failing" /\ s \in seen[v] /\ held'[v] = held[v] /\ Busy(v)
    BY <1>1, <1>4 DEF Busy
  <2>2. /\ s.id = held[v] /\ held[v] \in JobId
        /\ s.id \notin suspect => s.claim = claims[s.id] /\ s.attempts = attempts[s.id]
    BY <2>1 DEF LeaseInv, FailureCurrent, HoldsRow
  <2> QED
    BY <1>2, <1>5, <2>1, <2>2
<1>9. RecoveryCurrent'
  <2> SUFFICES ASSUME NEW v \in Worker, pc'[v] = "recovering", NEW s \in seen'[v],
                      s.id \notin suspect, status'[s.id] = "running",
                      claims'[s.id] = s.claim
               PROVE  Holders(s.id)' = {} /\ s.attempts = attempts'[s.id]
    BY <1>1 DEF RecoveryCurrent
  <2>1. v # w /\ pc[v] = "recovering" /\ s \in seen[v]
    BY <1>1, <1>4
  <2>2. s.id \in JobId /\ s.claim <= claims[s.id] /\ s.claim \in Nat
    BY <2>1 DEF LeaseInv, FreshRows, TypeOK, Actor, Snapshots
  <2>3. s.id # j
    BY <1>3, <2>2 DEF TypeOK
  <2>4. Holders(s.id) = {} /\ s.attempts = attempts[s.id]
    BY <1>2, <2>1, <2>2, <2>3 DEF LeaseInv, RecoveryCurrent
  <2>5. Holders(s.id)' = {}
    BY <1>4, <2>3, <2>4 DEF Holders
  <2> QED
    BY <1>2, <2>2, <2>3, <2>4, <2>5
<1>10. AttemptsBounded'
  <2> SUFFICES ASSUME NEW i \in JobId, i \notin suspect
               PROVE  /\ attempts'[i] <= MaxAttempts
                      /\ status'[i] = "queued" => attempts'[i] < MaxAttempts
    BY <1>1 DEF AttemptsBounded
  <2>1. /\ attempts[i] <= MaxAttempts
        /\ status[i] = "queued" => attempts[i] < MaxAttempts
    BY DEF LeaseInv, AttemptsBounded
  <2>2. attempts[i] \in Nat /\ MaxAttempts \in Nat
    BY ConstantsAssumption DEF TypeOK
  <2> QED
    BY <1>1, <1>2, <1>3, <2>1, <2>2
<1> QED
  BY <1>6, <1>7, <1>8, <1>9, <1>10 DEF LeaseInv

\* Every end of an execution: Complete, FailConflict, FailWrite, Crash.
LEMMA EndLease ==
    ASSUME TypeOK, TypeOK', HoldsRow, HoldsRow', LeaseInv,
           NEW w \in Worker, NEW next \in {"down", "idle"}, Release(w, next),
           UNCHANGED <<attempts, lockAge, nextId, claims>>,
           suspect \subseteq suspect',
           \A j \in JobId :
               \/ status'[j] = status[j]
               \/ /\ Busy(w) /\ j = held[w] /\ status'[j] # "running"
                  /\ status'[j] = "queued" /\ j \notin suspect' => attempts[j] < MaxAttempts
    PROVE  LeaseInv'
<1> w \in Actor
  BY DEF Actor
<1>1. LeaseHeld' /\ FailureCurrent' /\ RecoveryCurrent'
  BY ReleasedStep DEF LeaseInv
<1>2. AttemptsBounded'
  BY DEF LeaseInv, AttemptsBounded
<1>3. FreshRows'
  <2>1. /\ \A a \in Actor : seen'[a] \subseteq seen[a]
        /\ \A v \in Worker : Busy(v)' => Busy(v) /\ held'[v] = held[v]
    BY DEF Release, TypeOK, Busy, Actor
  <2>2. Busy(w) => held[w] < nextId /\ held[w] \in JobId
    BY DEF LeaseInv, FreshRows, HoldsRow
  <2>3. \A j \in JobId : j >= nextId' => status'[j] = status[j] /\ attempts'[j] = attempts[j]
    BY <2>2 DEF JobId, TypeOK
  <2>4. nextId <= nextId' /\ claims' = claims
    BY DEF TypeOK
  <2> QED
    BY <2>1, <2>3, <2>4, FreshKept DEF LeaseInv
<1> QED
  BY <1>1, <1>2, <1>3 DEF LeaseInv

\* fail reads the row of an execution that raised.
LEMMA FailSelectLease ==
    ASSUME TypeOK, TypeOK', HoldsRow, HoldsRow', LeaseInv, NEW w \in Worker, FailSelect(w)
    PROVE  LeaseInv'
<1> w \in Actor
  BY DEF Actor
<1> held[w] \in JobId
  BY DEF FailSelect, HoldsRow, Busy
<1>1. /\ UNCHANGED <<status, attempts, lockAge, nextId, held, heldAge, claims, suspect>>
      /\ pc' = [pc EXCEPT ![w] = "failing"]
      /\ pc[w] = "executing" /\ status[held[w]] = "running"
      /\ seen' = [seen EXCEPT ![w] = {Snapshot(held[w])}]
  BY DEF FailSelect, rows, history
<1>2. /\ \A v \in Worker : Busy(v)' <=> Busy(v)
      /\ \A v \in Worker : v # w => pc'[v] = pc[v] /\ seen'[v] = seen[v]
      /\ \A a \in Actor : a # w => seen'[a] = seen[a]
      /\ pc'[w] = "failing" /\ seen'[w] = {Snapshot(held[w])}
  BY <1>1 DEF Busy, TypeOK, Actor
<1>3. \A j \in JobId : Holders(j)' = Holders(j)
  BY <1>1, <1>2 DEF Holders
<1>4. /\ Snapshot(held[w]).id = held[w] /\ Snapshot(held[w]).id < nextId
      /\ Snapshot(held[w]).claim = claims[held[w]]
      /\ Snapshot(held[w]).claim <= claims[held[w]]
      /\ Snapshot(held[w]).attempts = attempts[held[w]]
  BY <1>1, FreshSnapshot DEF LeaseInv
<1>5. FreshRows'
  <2>1. \A a \in Actor : \A s \in seen'[a] :
           s \in seen[a] \/ (s.id < nextId /\ s.claim <= claims'[s.id])
    BY <1>1, <1>2, <1>4
  <2>2. \A v \in Worker : Busy(v)' => (Busy(v) /\ held'[v] = held[v]) \/ held'[v] < nextId
    BY <1>1, <1>2
  <2>3. nextId <= nextId' /\ \A j \in JobId : claims[j] <= claims'[j]
    BY <1>1 DEF TypeOK
  <2>4. \A j \in JobId : j >= nextId' => status'[j] = status[j] /\ attempts'[j] = attempts[j]
    BY <1>1
  <2> QED
    BY <2>1, <2>2, <2>3, <2>4, FreshStep DEF LeaseInv
<1>6. LeaseHeld' /\ AttemptsBounded'
  BY <1>1, <1>2 DEF LeaseInv, LeaseHeld, AttemptsBounded
<1>7. FailureCurrent'
  <2> SUFFICES ASSUME NEW v \in Worker, pc'[v] = "failing", NEW s \in seen'[v]
               PROVE  /\ s.id = held[v]
                      /\ s.id \notin suspect => /\ s.claim = claims[s.id]
                                                /\ s.attempts = attempts[s.id]
    BY <1>1 DEF FailureCurrent
  <2>1. CASE v = w
    BY <1>2, <1>4, <2>1
  <2>2. CASE v # w
    BY <1>2, <2>2 DEF LeaseInv, FailureCurrent
  <2> QED
    BY <2>1, <2>2
<1>8. RecoveryCurrent'
  <2> SUFFICES ASSUME NEW v \in Worker, pc'[v] = "recovering", NEW s \in seen'[v],
                      s.id \notin suspect, status[s.id] = "running",
                      claims[s.id] = s.claim
               PROVE  Holders(s.id)' = {} /\ s.attempts = attempts[s.id]
    BY <1>1 DEF RecoveryCurrent
  <2>1. v # w /\ pc[v] = "recovering" /\ s \in seen[v]
    BY <1>2
  <2>2. s.id \in JobId
    BY <2>1 DEF TypeOK, Actor, Snapshots
  <2> QED
    BY <1>3, <2>1, <2>2 DEF LeaseInv, RecoveryCurrent
<1> QED
  BY <1>5, <1>6, <1>7, <1>8 DEF LeaseInv

\* Time passes: the clocks of a row and of its one executor advance together.
LEMMA TickLease ==
    ASSUME TypeOK, TypeOK', HoldsRow, HoldsRow', LeaseInv, Tick
    PROVE  LeaseInv'
<1>1. /\ UNCHANGED <<status, attempts, nextId, pc, held, seen, claims>>
      /\ suspect \subseteq suspect'
      /\ \A w \in Worker : Busy(w)' = Busy(w)
  BY DEF Tick, Busy
<1>2. \A j \in JobId : Holders(j)' = Holders(j)
  BY <1>1 DEF Holders
<1>3. FreshRows'
  <2>1. nextId <= nextId' /\ claims' = claims
    BY <1>1 DEF TypeOK
  <2> QED
    BY <1>1, <2>1, FreshKept DEF LeaseInv
<1>4. LeaseHeld'
  <2> SUFFICES ASSUME NEW w \in Worker, Busy(w), held[w] \notin suspect'
               PROVE  /\ status[held[w]] = "running"
                      /\ heldAge'[w] = lockAge'[held[w]]
                      /\ heldAge'[w] < StaleAfter
                      /\ \A v \in Worker : Busy(v) /\ held[v] = held[w] => v = w
    BY <1>1 DEF LeaseHeld
  <2>1. /\ status[held[w]] = "running" /\ heldAge[w] = lockAge[held[w]]
        /\ \A v \in Worker : Busy(v) /\ held[v] = held[w] => v = w
        /\ held[w] \in JobId
    BY <1>1 DEF LeaseInv, LeaseHeld, HoldsRow
  <2>2. heldAge'[w] = Older(heldAge[w]) /\ lockAge'[held[w]] = Older(lockAge[held[w]])
    BY <2>1 DEF Tick
  <2>3. heldAge'[w] # StaleAfter
    BY DEF Tick
  <2>4. heldAge'[w] \in 0..StaleAfter
    BY DEF TypeOK
  <2> QED
    BY <2>1, <2>2, <2>3, <2>4, ConstantsAssumption
<1>5. FailureCurrent'
  BY <1>1 DEF LeaseInv, FailureCurrent
<1>6. RecoveryCurrent'
  <2>1. \A w \in Worker : \A s \in seen[w] : s.id \in JobId
    BY DEF TypeOK, Actor, Snapshots
  <2> QED
    BY <1>1, <1>2, <2>1 DEF LeaseInv, RecoveryCurrent
<1>7. AttemptsBounded'
  BY <1>1 DEF LeaseInv, AttemptsBounded
<1> QED
  BY <1>3, <1>4, <1>5, <1>6, <1>7 DEF LeaseInv

\* The rows an end of execution writes.
LEMMA FailWriteRows ==
    ASSUME TypeOK, HoldsRow, LeaseInv, NEW w \in Worker, FailWrite(w)
    PROVE  /\ \E next \in {"down", "idle"} : Release(w, next)
           /\ UNCHANGED <<attempts, lockAge, nextId, claims>>
           /\ suspect \subseteq suspect'
           /\ \A j \in JobId :
                 \/ status'[j] = status[j]
                 \/ /\ Busy(w) /\ j = held[w] /\ status'[j] \in {"queued", "dead_letter"}
                    /\ status'[j] = "queued" /\ j \notin suspect' => attempts[j] < MaxAttempts
<1>1. /\ \E next \in {"down", "idle"} : Release(w, next)
      /\ UNCHANGED <<attempts, lockAge, nextId, claims>>
      /\ suspect \subseteq suspect'
      /\ pc[w] = "failing"
  BY DEF FailWrite
<1>2. ASSUME NEW j \in JobId, status'[j] # status[j]
      PROVE  /\ Busy(w) /\ j = held[w] /\ status'[j] \in {"queued", "dead_letter"}
             /\ status'[j] = "queued" /\ j \notin suspect' => attempts[j] < MaxAttempts
  <2>1. status' = AfterFailure(seen[w])
    BY <1>2 DEF FailWrite
  <2>2. status'[j] = IF j \in Requeued(seen[w]) THEN "queued"
                     ELSE IF j \in Ids(seen[w]) THEN "dead_letter" ELSE status[j]
    BY <2>1 DEF AfterFailure
  <2>3. j \in Ids(seen[w])
    BY <1>2, <2>2 DEF Requeued, Ids
  <2>4. j = held[w] /\ Busy(w)
    BY <1>1, <2>3 DEF Ids, LeaseInv, FailureCurrent, Busy
  <2>5. status'[j] \in {"queued", "dead_letter"}
    BY <2>2, <2>3
  <2>6. ASSUME status'[j] = "queued", j \notin suspect'
        PROVE  attempts[j] < MaxAttempts
    <3>1. PICK s \in seen[w] : s.id = j /\ s.attempts < MaxAttempts
      BY <1>2, <2>2, <2>6 DEF Requeued, Ids
    <3>2. s.attempts = attempts[j]
      BY <1>1, <2>6, <3>1 DEF LeaseInv, FailureCurrent
    <3> QED
      BY <3>1, <3>2
  <2> QED
    BY <2>4, <2>5, <2>6
<1> QED
  BY <1>1, <1>2

\* Every step keeps the lease invariant.
LEMMA LeaseStep ==
    ASSUME TypeOK, TypeOK', HoldsRow, HoldsRow', LeaseInv, [Next]_vars
    PROVE  LeaseInv'
<1>1. ASSUME NEW k \in Work, Enqueue(k)
      PROVE  LeaseInv'
  BY <1>1, InsertLease DEF Enqueue, procs
<1>2. ASSUME NEW c \in Client, ClientStep(c)
      PROVE  LeaseInv'
  <2>1. CASE EnqueueOnceInsert(c) /\ ~UNCHANGED rows
    <3>1. Insert(wanted[c]) /\ UNCHANGED <<held, heldAge, seen, history>>
      BY <2>1 DEF EnqueueOnceInsert
    <3>2. \A w \in Worker : pc'[w] = pc[w]
      BY <2>1, ActorsDisjoint DEF EnqueueOnceInsert, TypeOK, Actor
    <3> QED
      BY <3>1, <3>2, InsertLease
  <2> QED
    BY <1>2, <2>1, AdminLease, ClientReadStep DEF ClientStep
<1>3. ASSUME NEW w \in Worker, WorkerStep(w) \/ Crash(w)
      PROVE  LeaseInv'
  <2>1. CASE Complete(w)
    <3>1. /\ Release(w, "idle") /\ UNCHANGED <<attempts, lockAge, nextId, claims, suspect>>
          /\ status' = [status EXCEPT ![held[w]] = "completed"] /\ Busy(w)
      BY <2>1 DEF Complete, history, Busy
    <3>2. \A j \in JobId : \/ status'[j] = status[j]
                           \/ /\ Busy(w) /\ j = held[w] /\ status'[j] # "running"
                              /\ status'[j] = "queued" /\ j \notin suspect' => attempts[j] < MaxAttempts
      BY <3>1 DEF TypeOK
    <3> QED
      BY <3>1, <3>2, EndLease
  <2>2. CASE FailConflict(w) \/ Crash(w)
    BY <2>2, EndLease DEF FailConflict, Crash, rows, history
  <2>3. CASE FailWrite(w)
    <3>1. PICK next \in {"down", "idle"} : Release(w, next)
      BY <2>3, FailWriteRows
    <3>2. \A j \in JobId : \/ status'[j] = status[j]
                           \/ /\ Busy(w) /\ j = held[w] /\ status'[j] # "running"
                              /\ status'[j] = "queued" /\ j \notin suspect' => attempts[j] < MaxAttempts
      <4> TAKE j \in JobId
      <4> QED
        BY <2>3, FailWriteRows
    <3> QED
      BY <2>3, <3>1, <3>2, FailWriteRows, EndLease
  <2> QED
    BY <1>3, <2>1, <2>2, <2>3, StartLease, RecoverLease, ClaimLease, FailSelectLease
       DEF WorkerStep
<1>4. CASE UNCHANGED vars
  BY <1>4 DEF vars, rows, procs, bounds, history, LeaseInv, FreshRows, LeaseHeld,
              FailureCurrent, RecoveryCurrent, AttemptsBounded, Busy, Holders
<1> QED
  BY <1>1, <1>2, <1>3, <1>4, TickLease DEF Next

\* The lease invariant holds of an empty table.
LEMMA LeaseInit == Init => LeaseInv
<1> SUFFICES ASSUME Init PROVE LeaseInv
  OBVIOUS
<1>1. \A w \in Worker : pc[w] = "down" /\ ~Busy(w)
  BY DEF Init, Actor, Busy
<1>2. FreshRows
  BY <1>1 DEF Init, FreshRows
<1>3. LeaseHeld /\ FailureCurrent /\ RecoveryCurrent
  BY <1>1 DEF LeaseHeld, FailureCurrent, RecoveryCurrent
<1>4. AttemptsBounded
  BY ConstantsAssumption DEF Init, AttemptsBounded
<1> QED
  BY <1>2, <1>3, <1>4 DEF LeaseInv

\* The lease invariant, with the types it needs, holds in every behaviour.
LEMMA LeaseCorrect == Spec => [](TypeOK /\ HoldsRow /\ LeaseInv)
<1>1. TypeOK /\ HoldsRow /\ LeaseInv /\ TypeOK' /\ HoldsRow' /\ [Next]_vars => LeaseInv'
  BY LeaseStep
<1> QED
  BY <1>1, LeaseInit, TypeCorrect, PTL DEF Spec

\* No two workers execute one row, and no row leaves RUNNING under its worker,
\* unless the row was overrun or hit by an outdated write.
THEOREM SingleExecutionHolds == Spec => []SingleExecution
<1>1. LeaseInv => SingleExecution
  BY DEF LeaseInv, LeaseHeld, SingleExecution, Holders
<1> QED
  BY <1>1, LeaseCorrect, PTL

\* No row is claimed more than max_attempts times in one life, or queued with
\* its attempts used up, under the same exception.
THEOREM AttemptsAreBounded == Spec => []AttemptsBounded
<1>1. LeaseInv => AttemptsBounded
  BY DEF LeaseInv
<1> QED
  BY <1>1, LeaseCorrect, PTL

(***************************************************************************)
(* The refinement: every step of the queue is a step of the lease          *)
(***************************************************************************)

LeaseLawful == \A j \in JobId \ suspect' : Lease!Lawful(j)

\* Steps that change nobody's hold on a row: what they write, nobody holds.
LEMMA UnheldLawful ==
    ASSUME HoldsRow, LeaseInv, UNCHANGED held, suspect \subseteq suspect',
           \A w \in Worker : Busy(w)' <=> Busy(w),
           \A j \in JobId \ suspect' :
               \/ status'[j] = status[j]
               \/ status[j] = "absent" /\ status'[j] = "queued"
               \/ status[j] = "queued" /\ status'[j] = "canceled"
               \/ status[j] = "dead_letter" /\ status'[j] = "queued"
               \/ /\ status[j] = "running" /\ status'[j] \in {"queued", "dead_letter"}
                  /\ Holders(j) = {}
    PROVE  LeaseLawful
<1>1. \A j \in JobId : Holders(j)' = Holders(j)
  BY DEF Holders
<1> SUFFICES ASSUME NEW j \in JobId, j \notin suspect'
             PROVE  Lease!Lawful(j)
  BY DEF LeaseLawful
<1>2. status[j] # "running" => Holders(j) = {}
  BY WaitingHasNoHolder DEF LeaseInv
<1> QED
  BY <1>1, <1>2 DEF Lease!Lawful, Lease!Unmoved, Lease!Handled, Lease!Recovered,
                    Lease!Moves, Lease!Idle

\* The end of an execution releases the row, or orphans it.
LEMMA EndLawful ==
    ASSUME TypeOK, HoldsRow, LeaseInv, NEW w \in Worker, NEW next \in {"down", "idle"},
           Release(w, next), suspect \subseteq suspect',
           \A j \in JobId :
               \/ status'[j] = status[j]
               \/ /\ Busy(w) /\ j = held[w]
                  /\ status'[j] \in {"completed", "queued", "dead_letter"}
    PROVE  LeaseLawful
<1> w \in Actor
  BY DEF Actor
<1> SUFFICES ASSUME NEW j \in JobId, j \notin suspect'
             PROVE  Lease!Lawful(j)
  BY DEF LeaseLawful
<1>1. /\ ~Busy(w)'
      /\ \A v \in Worker : v # w => Busy(v)' = Busy(v) /\ held'[v] = held[v]
  BY DEF Release, TypeOK, Busy, Actor
<1>2. CASE Busy(w) /\ j = held[w]
  <2>1. status[j] = "running" /\ \A v \in Worker : Busy(v) /\ held[v] = j => v = w
    BY <1>2 DEF LeaseInv, LeaseHeld
  <2>2. Holders(j) = {w} /\ Holders(j)' = {}
    BY <1>1, <1>2, <2>1 DEF Holders
  <2> QED
    BY <1>2, <2>1, <2>2 DEF Lease!Lawful, Lease!Released, Lease!Orphaned, Lease!Moves
<1>3. CASE ~(Busy(w) /\ j = held[w])
  <2>1. Holders(j)' = Holders(j)
    BY <1>1, <1>3 DEF Holders
  <2> QED
    BY <1>3, <2>1 DEF Lease!Lawful, Lease!Unmoved
<1> QED
  BY <1>2, <1>3

\* A claim leases the row.
LEMMA ClaimLawful ==
    ASSUME TypeOK, HoldsRow, LeaseInv, NEW w \in Worker, NEW i \in JobId, ClaimNext(w, i)
    PROVE  LeaseLawful
<1> w \in Actor
  BY DEF Actor
<1> SUFFICES ASSUME NEW j \in JobId, j \notin suspect'
             PROVE  Lease!Lawful(j)
  BY DEF LeaseLawful
<1>1. /\ status[i] = "queued" /\ status' = [status EXCEPT ![i] = "running"]
      /\ held' = [held EXCEPT ![w] = i] /\ pc' = [pc EXCEPT ![w] = "executing"]
      /\ pc[w] = "idle" /\ suspect' = suspect
  BY DEF ClaimNext, Claimable
<1>2. /\ Busy(w)' /\ ~Busy(w) /\ held'[w] = i
      /\ \A v \in Worker : v # w => Busy(v)' = Busy(v) /\ held'[v] = held[v]
  BY <1>1 DEF TypeOK, Busy, Actor
<1>3. CASE j = i
  <2>1. Holders(j) = {}
    BY <1>1, <1>3, WaitingHasNoHolder DEF LeaseInv
  <2>2. Holders(j)' = {w}
    BY <1>2, <1>3, <2>1 DEF Holders
  <2>3. status'[j] = "running"
    BY <1>1, <1>3 DEF TypeOK
  <2> QED
    BY <1>1, <1>3, <2>1, <2>2, <2>3 DEF Lease!Lawful, Lease!Leased, Lease!Moves
<1>4. CASE j # i
  <2>1. Holders(j)' = Holders(j)
    BY <1>2, <1>4 DEF Holders
  <2>2. status'[j] = status[j]
    BY <1>1, <1>4 DEF TypeOK
  <2> QED
    BY <2>1, <2>2 DEF Lease!Lawful, Lease!Unmoved
<1> QED
  BY <1>3, <1>4

\* The writes that wait for no lease: insertion, cancellation, retry, recovery.
LEMMA WriteLawful ==
    ASSUME TypeOK, HoldsRow, LeaseInv,
           \/ \E k \in Work \cup {NoWork} : Insert(k) /\ UNCHANGED <<held, history>>
                                            /\ \A w \in Worker : pc'[w] = pc[w]
           \/ \E c \in Client : CancelWrite(c) \/ RetryWrite(c)
           \/ \E w \in Worker : RecoverStale(w)
    PROVE  LeaseLawful
<1>1. ASSUME NEW k \in Work \cup {NoWork}, Insert(k), UNCHANGED <<held, history>>,
             \A w \in Worker : pc'[w] = pc[w]
      PROVE  LeaseLawful
  <2>1. nextId \in JobId
    BY <1>1, ConstantsAssumption DEF Insert, TypeOK, JobId
  <2>2. status[nextId] = "absent"
    BY <2>1 DEF LeaseInv, FreshRows, JobId
  <2>3. \A j \in JobId : status'[j] = status[j] \/ (status[j] = "absent" /\ status'[j] = "queued")
    BY <1>1, <2>1, <2>2 DEF Insert, TypeOK
  <2>4. suspect \subseteq suspect' /\ \A w \in Worker : Busy(w)' <=> Busy(w)
    BY <1>1 DEF history, Busy
  <2> QED
    BY <1>1, <2>3, <2>4, UnheldLawful
<1>2. ASSUME NEW c \in Client, CancelWrite(c) \/ RetryWrite(c)
      PROVE  LeaseLawful
  <2> c \in Actor /\ c \notin Worker
    BY ActorsDisjoint DEF Actor
  <2>1. \A w \in Worker : Busy(w)' <=> Busy(w)
    <3>1. pc' = [pc EXCEPT ![c] = "idle"]
      BY <1>2 DEF CancelWrite, RetryWrite
    <3> QED
      BY <3>1 DEF Busy, TypeOK, Actor
  <2>2. \A j \in JobId \ suspect' :
            \/ status'[j] = status[j]
            \/ status[j] = "queued" /\ status'[j] = "canceled"
            \/ status[j] = "dead_letter" /\ status'[j] = "queued"
    <3> TAKE j \in JobId \ suspect'
    <3>1. CASE j \in Ids(seen[c])
      <4>1. PICK s \in seen[c] : s.id = j
        BY <3>1 DEF Ids
      <4>2. CASE CancelWrite(c)
        <5>1. status[j] = "queued"
          BY <4>1, <4>2, CurrentUnlessSuspect DEF CancelWrite
        <5> QED
          BY <3>1, <4>2, <5>1 DEF CancelWrite
      <4>3. CASE RetryWrite(c)
        <5>1. CASE UNCHANGED status
          BY <5>1
        <5>2. CASE suspect' = suspect \cup Outdated(seen[c], "dead_letter")
          <6>1. status[j] = "dead_letter"
            BY <4>1, <5>2, CurrentUnlessSuspect
          <6> QED
            BY <3>1, <4>3, <6>1 DEF RetryWrite
        <5> QED
          BY <4>3, <5>1, <5>2 DEF RetryWrite
      <4> QED
        BY <1>2, <4>2, <4>3
    <3>2. CASE j \notin Ids(seen[c])
      BY <1>2, <3>2 DEF CancelWrite, RetryWrite
    <3> QED
      BY <3>1, <3>2
  <2>3. suspect \subseteq suspect' /\ UNCHANGED held
    BY <1>2 DEF CancelWrite, RetryWrite
  <2> QED
    BY <2>1, <2>2, <2>3, UnheldLawful
<1>3. ASSUME NEW w \in Worker, RecoverStale(w)
      PROVE  LeaseLawful
  <2> w \in Actor
    BY DEF Actor
  <2>1. /\ suspect \subseteq suspect' /\ UNCHANGED held
        /\ \A v \in Worker : Busy(v)' <=> Busy(v)
    BY <1>3 DEF RecoverStale, Busy, TypeOK, Actor
  <2>2. ASSUME NEW j \in JobId \ suspect', status'[j] # status[j]
        PROVE  /\ status[j] = "running" /\ status'[j] \in {"queued", "dead_letter"}
               /\ Holders(j) = {}
    <3>1. /\ status' = AfterFailure(seen[w])
          /\ suspect' = suspect \cup Outdated(seen[w], "running")
      BY <1>3, <2>2 DEF RecoverStale
    <3>2. status'[j] = IF j \in Requeued(seen[w]) THEN "queued"
                       ELSE IF j \in Ids(seen[w]) THEN "dead_letter" ELSE status[j]
      BY <3>1 DEF AfterFailure
    <3>3. PICK s \in seen[w] : s.id = j
      BY <2>2, <3>2 DEF Requeued, Ids
    <3>4. status[j] = "running" /\ s.claim = claims[j] /\ j \notin suspect
      BY <3>1, <3>3, CurrentUnlessSuspect
    <3>5. Holders(j) = {}
      BY <1>3, <3>3, <3>4 DEF RecoverStale, LeaseInv, RecoveryCurrent
    <3> QED
      BY <2>2, <3>2, <3>4, <3>5
  <2> QED
    BY <2>1, <2>2, UnheldLawful
<1> QED
  BY <1>1, <1>2, <1>3

\* Every step of the queue does to each row what the abstract lease allows.
LEMMA StepLawful ==
    ASSUME TypeOK, HoldsRow, LeaseInv, [Next]_vars
    PROVE  LeaseLawful /\ suspect \subseteq suspect'
<1>1. ASSUME NEW k \in Work, Enqueue(k)
      PROVE  LeaseLawful /\ suspect \subseteq suspect'
  BY <1>1, WriteLawful DEF Enqueue, procs, history
<1>2. ASSUME NEW c \in Client, ClientStep(c)
      PROVE  LeaseLawful /\ suspect \subseteq suspect'
  <2> c \in Actor /\ c \notin Worker
    BY ActorsDisjoint DEF Actor
  <2>1. CASE CancelWrite(c) \/ RetryWrite(c)
    BY <2>1, WriteLawful DEF CancelWrite, RetryWrite
  <2>2. CASE EnqueueOnceInsert(c) /\ ~UNCHANGED rows
    <3>1. Insert(wanted[c]) /\ UNCHANGED <<held, history>>
      BY <2>2 DEF EnqueueOnceInsert
    <3>2. wanted[c] \in Work \cup {NoWork} /\ \A w \in Worker : pc'[w] = pc[w]
      BY <2>2 DEF EnqueueOnceInsert, TypeOK, Actor
    <3> QED
      BY <3>1, <3>2, WriteLawful DEF history
  <2>3. CASE UNCHANGED <<rows, held, suspect>> /\ \A w \in Worker : pc'[w] = pc[w]
    BY <2>3, UnheldLawful DEF rows, Busy
  <2>4. \A w \in Worker : CancelSelect(c) \/ RetrySelect(c) \/ EnqueueOnceInsert(c)
                          \/ (\E k \in Work : EnqueueOnceSelect(c, k)) => pc'[w] = pc[w]
    BY DEF CancelSelect, RetrySelect, EnqueueOnceSelect, EnqueueOnceInsert, TypeOK, Actor
  <2> QED
    BY <1>2, <2>1, <2>2, <2>3, <2>4
       DEF ClientStep, CancelSelect, RetrySelect, EnqueueOnceSelect, EnqueueOnceInsert, history
<1>3. ASSUME NEW w \in Worker, WorkerStep(w) \/ Crash(w)
      PROVE  LeaseLawful /\ suspect \subseteq suspect'
  <2> w \in Actor
    BY DEF Actor
  <2>1. CASE StartAndSelectStale(w) \/ FailSelect(w)
    <3>1. UNCHANGED <<status, held, suspect>>
      BY <2>1 DEF StartAndSelectStale, FailSelect, rows, history
    <3>2. \A v \in Worker : Busy(v)' <=> Busy(v)
      BY <2>1 DEF StartAndSelectStale, FailSelect, Busy, TypeOK, Actor
    <3> QED
      BY <3>1, <3>2, UnheldLawful
  <2>2. CASE RecoverStale(w)
    BY <2>2, WriteLawful DEF RecoverStale
  <2>3. CASE \E j \in JobId : ClaimNext(w, j)
    BY <2>3, ClaimLawful DEF ClaimNext
  <2>4. CASE Complete(w)
    <3>1. /\ Release(w, "idle") /\ UNCHANGED suspect
          /\ status' = [status EXCEPT ![held[w]] = "completed"] /\ Busy(w)
      BY <2>4 DEF Complete, history, Busy
    <3>2. \A j \in JobId : \/ status'[j] = status[j]
                           \/ /\ Busy(w) /\ j = held[w]
                              /\ status'[j] \in {"completed", "queued", "dead_letter"}
      BY <3>1 DEF TypeOK
    <3> QED
      BY <3>1, <3>2, EndLawful
  <2>5. CASE FailConflict(w) \/ Crash(w)
    BY <2>5, EndLawful DEF FailConflict, Crash, rows, history
  <2>6. CASE FailWrite(w)
    <3>1. PICK next \in {"down", "idle"} : Release(w, next)
      BY <2>6, FailWriteRows
    <3>2. \A j \in JobId : \/ status'[j] = status[j]
                           \/ /\ Busy(w) /\ j = held[w]
                              /\ status'[j] \in {"completed", "queued", "dead_letter"}
      <4> TAKE j \in JobId
      <4> QED
        BY <2>6, FailWriteRows
    <3> QED
      BY <2>6, <3>1, <3>2, FailWriteRows, EndLawful
  <2> QED
    BY <1>3, <2>1, <2>2, <2>3, <2>4, <2>5, <2>6 DEF WorkerStep
<1>4. CASE Tick \/ UNCHANGED vars
  <2>1. UNCHANGED <<status, held, pc>> /\ suspect \subseteq suspect'
    BY <1>4 DEF Tick, vars, rows, procs, history
  <2> QED
    BY <2>1, UnheldLawful DEF Busy
<1> QED
  BY <1>1, <1>2, <1>3, <1>4 DEF Next

\* The queue implements the abstract lease.
THEOREM Refinement == Spec => ImplementsLease
<1>1. Init => Lease!Init
  BY DEF Init, Lease!Init, Holders, Busy, Actor
<1>2. TypeOK /\ TypeOK' /\ HoldsRow /\ LeaseInv /\ [Next]_vars => [Lease!Next]_(Lease!leaseVars)
  <2> SUFFICES ASSUME TypeOK, TypeOK', HoldsRow, LeaseInv, [Next]_vars
               PROVE  Lease!Next
    OBVIOUS
  <2>1. status' \in [JobId -> Lease!Stage]
    BY DEF TypeOK, Lease!Stage, JobStatus
  <2>2. [j \in JobId |-> Holders(j)]' \in [JobId -> SUBSET Worker]
    BY DEF Holders
  <2>3. suspect' \in SUBSET JobId
    BY DEF TypeOK
  <2>4. LeaseLawful /\ suspect \subseteq suspect'
    BY StepLawful
  <2> QED
    BY <2>1, <2>2, <2>3, <2>4 DEF Lease!Next, LeaseLawful
<1> QED
  BY <1>1, <1>2, LeaseCorrect, PTL DEF Spec, ImplementsLease, Lease!Spec

(***************************************************************************)
(* The same by idempotency key: what the clients of the queue rely on      *)
(***************************************************************************)

\* The rows that are not inserted yet are for nothing.
Blank == \A j \in JobId : j >= nextId => work[j] = NoWork

\* A row says what it is for as long as it is there, and a step inserts one at most.
LEMMA WorkStays ==
    ASSUME TypeOK, FreshRows, Blank, [Next]_vars
    PROVE  /\ Blank'
           /\ \A j \in JobId : \/ work'[j] = work[j]
                               \/ work[j] = NoWork /\ status[j] = "absent"
<1>1. CASE \E k : Insert(k)
  <2>1. /\ nextId \in JobId /\ nextId' = nextId + 1 /\ nextId \in Int
        /\ \A j \in JobId \ {nextId} : work'[j] = work[j]
    BY <1>1, ConstantsAssumption DEF Insert, TypeOK, JobId
  <2> QED
    BY <2>1 DEF Blank, FreshRows, JobId
<1>2. CASE UNCHANGED <<work, nextId>>
  BY <1>2 DEF Blank
<1>3. ASSUME NEW c \in Client, ClientStep(c)
      PROVE  (\E k : Insert(k)) \/ UNCHANGED <<work, nextId>>
  BY <1>3 DEF ClientStep, EnqueueOnceSelect, EnqueueOnceInsert, CancelSelect, CancelWrite,
              RetrySelect, RetryWrite, rows
<1>4. ASSUME NEW w \in Worker, WorkerStep(w) \/ Crash(w)
      PROVE  UNCHANGED <<work, nextId>>
  BY <1>4 DEF WorkerStep, StartAndSelectStale, RecoverStale, ClaimNext, Complete, FailSelect,
              FailConflict, FailWrite, Crash, rows
<1>5. Tick \/ UNCHANGED vars => UNCHANGED <<work, nextId>>
  BY DEF Tick, vars, rows
<1> QED
  BY <1>1, <1>2, <1>3, <1>4, <1>5 DEF Next, Enqueue

\* A row that is not active waits at most after a step, and nobody holds it.
LEMMA RestingRow ==
    ASSUME TypeOK, TypeOK', HoldsRow, HoldsRow', LeaseInv, LeaseInv', suspect \subseteq suspect',
           NEW j \in JobId \ suspect', Lease!Lawful(j), ~Active(j)
    PROVE  Holders(j) = {} /\ Holders(j)' = {} /\ (Active(j)' => status'[j] = "queued")
<1>1. Holders(j) = {}
  BY WaitingHasNoHolder DEF LeaseInv, Active, ActiveStatus
<1>2. status'[j] # "running"
  BY <1>1 DEF Lease!Lawful, Lease!Unmoved, Lease!Handled, Lease!Leased, Lease!Released,
              Lease!Orphaned, Lease!Recovered, Lease!Moves, Active, ActiveStatus
<1>3. Holders(j)' = {}
  BY <1>2 DEF LeaseInv, LeaseHeld, Holders
<1> QED
  BY <1>1, <1>2, <1>3 DEF Active, ActiveStatus

\* One active row stands for its key, before a step and after it.
LEMMA KeyOfRow ==
    ASSUME NEW k \in Keyed, NEW a \in JobId
    PROVE  /\ (/\ ActiveKeyUnique /\ work[a] = k /\ Active(a)
               /\ \A j \in JobId \ {a} : work[j] = k => Holders(j) = {})
                  => KeyStage(k) = status[a] /\ KeyHolders(k) = Holders(a)
           /\ (/\ ActiveKeyUnique /\ work[a] = k /\ Active(a)
               /\ \A j \in JobId \ {a} : work[j] = k => Holders(j) = {})'
                  => KeyStage(k)' = status'[a] /\ KeyHolders(k)' = Holders(a)'
<1>1. ASSUME ActiveKeyUnique, work[a] = k, Active(a),
             \A j \in JobId \ {a} : work[j] = k => Holders(j) = {}
      PROVE  KeyStage(k) = status[a] /\ KeyHolders(k) = Holders(a)
  <2>1. \A j \in JobId : work[j] = k /\ Active(j) => j = a
    BY <1>1 DEF ActiveKeyUnique, IndexAllows, Active
  <2>2. KeyStage(k) = status[a]
    BY <1>1, <2>1 DEF KeyStage, KeyTaken, Active, ActiveStatus
  <2>3. KeyHolders(k) = Holders(a)
    BY <1>1 DEF KeyHolders, Holders
  <2> QED
    BY <2>2, <2>3
<1>2. ASSUME ActiveKeyUnique', work'[a] = k, Active(a)',
             \A j \in JobId \ {a} : work'[j] = k => Holders(j)' = {}
      PROVE  KeyStage(k)' = status'[a] /\ KeyHolders(k)' = Holders(a)'
  <2>1. \A j \in JobId : work'[j] = k /\ Active(j)' => j = a
    BY <1>2 DEF ActiveKeyUnique, IndexAllows, Active
  <2>2. KeyStage(k)' = status'[a]
    BY <1>2, <2>1 DEF KeyStage, KeyTaken, Active, ActiveStatus
  <2>3. KeyHolders(k)' = Holders(a)'
    BY <1>2 DEF KeyHolders, Holders
  <2> QED
    BY <2>2, <2>3
<1> QED
  BY <1>1, <1>2

\* A key none of whose rows runs or is held waits at most.
LEMMA KeyAtRest ==
    ASSUME NEW k \in Keyed,
           \A j \in JobId : work'[j] = k => Holders(j)' = {} /\ (Active(j)' => status'[j] = "queued")
    PROVE  KeyStage(k)' \in {"none", "queued"} /\ KeyHolders(k)' = {}
<1>1. KeyStage(k)' \in {"none", "queued"}
  BY DEF KeyStage, KeyTaken, Active, ActiveStatus
<1>2. KeyHolders(k)' = {}
  BY DEF KeyHolders
<1> QED
  BY <1>1, <1>2

\* A step does to every key what the abstract lease of keys allows.
LEMMA KeyLawful ==
    ASSUME TypeOK, TypeOK', HoldsRow, HoldsRow', LeaseInv, LeaseInv', ActiveKeyUnique,
           ActiveKeyUnique', Blank, [Next]_vars, NEW k \in Keyed,
           \A j \in suspect' : work'[j] # k
    PROVE  PerKey!Lawful(k)
<1>1. \A j \in JobId \ suspect' : Lease!Lawful(j)
  BY StepLawful DEF LeaseLawful
<1>2. suspect \subseteq suspect'
  BY StepLawful
<1>3. k # NoWork /\ (\A j \in JobId : work[j] = k => work'[j] = k)
  BY WorkStays, ConstantsAssumption DEF LeaseInv
<1>4. ASSUME NEW j \in JobId, work'[j] = k
      PROVE  /\ j \notin suspect' /\ Lease!Lawful(j)
             /\ work[j] = k \/ status[j] = "absent"
  <2>1. j \notin suspect' /\ Lease!Lawful(j)
    BY <1>1, <1>4
  <2> QED
    BY <1>4, <2>1, WorkStays DEF LeaseInv
<1>5. CASE \A j \in JobId : work[j] = k => ~Active(j)
  <2>1. \A j \in JobId : work'[j] = k =>
            Holders(j) = {} /\ Holders(j)' = {} /\ (Active(j)' => status'[j] = "queued")
    <3> SUFFICES ASSUME NEW j \in JobId, work'[j] = k
                 PROVE  Holders(j) = {} /\ Holders(j)' = {} /\ (Active(j)' => status'[j] = "queued")
      OBVIOUS
    <3>1. ~Active(j)
      BY <1>4, <1>5 DEF Active, ActiveStatus
    <3> QED
      BY <1>2, <1>4, <3>1, RestingRow
  <2>2. KeyStage(k) = "none" /\ KeyHolders(k) = {}
    BY <1>3, <1>5, <2>1 DEF KeyStage, KeyHolders, KeyTaken, Active, ActiveStatus
  <2>3. KeyStage(k)' \in {"none", "queued"} /\ KeyHolders(k)' = {}
    BY <2>1, KeyAtRest
  <2> QED
    BY <2>2, <2>3 DEF PerKey!Lawful, PerKey!Unmoved, PerKey!Handled, PerKey!Moves, PerKey!Idle
<1>6. ASSUME NEW a \in JobId, work[a] = k, Active(a)
      PROVE  PerKey!Lawful(k)
  <2>1. a \notin suspect /\ a \notin suspect' /\ work'[a] = k /\ Lease!Lawful(a)
    BY <1>2, <1>3, <1>4, <1>6
  <2>2. \A j \in JobId \ {a} : work'[j] = k =>
            Holders(j) = {} /\ Holders(j)' = {} /\ (Active(j)' => status'[j] = "queued")
    <3> SUFFICES ASSUME NEW j \in JobId \ {a}, work'[j] = k
                 PROVE  Holders(j) = {} /\ Holders(j)' = {} /\ (Active(j)' => status'[j] = "queued")
      OBVIOUS
    <3>1. ~Active(j)
      BY <1>4, <1>6 DEF Active, ActiveStatus, ActiveKeyUnique, IndexAllows
    <3> QED
      BY <1>2, <1>4, <3>1, RestingRow
  <2>3. KeyStage(k) = status[a] /\ KeyHolders(k) = Holders(a) /\ status[a] \in {"queued", "running"}
    BY <1>3, <1>6, <2>2, KeyOfRow DEF Active, ActiveStatus
  <2>4. CASE Active(a)'
    <3>1. KeyStage(k)' = status'[a] /\ KeyHolders(k)' = Holders(a)' /\ status'[a] \in {"queued", "running"}
      BY <2>1, <2>2, <2>4, KeyOfRow DEF Active, ActiveStatus
    <3> QED
      BY <2>1, <2>3, <3>1
         DEF Lease!Lawful, Lease!Unmoved, Lease!Handled, Lease!Leased, Lease!Released,
             Lease!Orphaned, Lease!Recovered, Lease!Moves, Lease!Idle,
             PerKey!Lawful, PerKey!Unmoved, PerKey!Handled, PerKey!Leased, PerKey!Released,
             PerKey!Orphaned, PerKey!Recovered, PerKey!Moves, PerKey!Idle
  <2>5. CASE ~Active(a)'
    <3>1. Holders(a)' = {}
      BY <2>1, <2>5 DEF LeaseInv, LeaseHeld, Holders, Active, ActiveStatus
    <3>2. KeyStage(k)' \in {"none", "queued"} /\ KeyHolders(k)' = {}
      BY <2>2, <2>5, <3>1, KeyAtRest
    <3> QED
      BY <2>1, <2>3, <2>5, <3>1, <3>2
         DEF Lease!Lawful, Lease!Unmoved, Lease!Handled, Lease!Leased, Lease!Released,
             Lease!Orphaned, Lease!Recovered, Lease!Moves, Lease!Idle, Active, ActiveStatus,
             PerKey!Lawful, PerKey!Unmoved, PerKey!Handled, PerKey!Released,
             PerKey!Recovered, PerKey!Moves, PerKey!Idle
  <2> QED
    BY <2>4, <2>5
<1> QED
  BY <1>5, <1>6

\* The rows of the queue that come and go under an idempotency key are one job to
\* whoever enqueues by it: it waits, is leased to one worker and ends with that lease,
\* until one of its rows is suspect.
THEOREM KeysAreLeased == Spec => ImplementsKeyLease
<1>1. Init => PerKey!Init /\ Blank
  BY DEF Init, PerKey!Init, KeyStage, KeyTaken, KeyHolders, Holders, Busy, Actor, Active,
         ActiveStatus, Blank
<1>2. TypeOK /\ LeaseInv /\ Blank /\ [Next]_vars => Blank'
  BY WorkStays DEF LeaseInv
<1>3. TypeOK /\ TypeOK' /\ HoldsRow /\ HoldsRow' /\ LeaseInv /\ LeaseInv' /\ ActiveKeyUnique
      /\ ActiveKeyUnique' /\ Blank /\ [Next]_vars => [PerKey!Next]_(PerKey!leaseVars)
  <2> SUFFICES ASSUME TypeOK, TypeOK', HoldsRow, HoldsRow', LeaseInv, LeaseInv',
                      ActiveKeyUnique, ActiveKeyUnique', Blank, [Next]_vars
               PROVE  PerKey!Next
    OBVIOUS
  <2>1. [k \in Keyed |-> KeyStage(k)]' \in [Keyed -> PerKey!Stage]
    BY DEF KeyStage, PerKey!Stage
  <2>2. [k \in Keyed |-> KeyHolders(k)]' \in [Keyed -> SUBSET Worker]
    BY DEF KeyHolders
  <2>3. {k \in Keyed : \E j \in suspect : work[j] = k}
           \subseteq {k \in Keyed : \E j \in suspect : work[j] = k}'
    <3>1. suspect \subseteq suspect' /\ suspect \subseteq JobId
      BY StepLawful DEF TypeOK
    <3>2. \A k \in Keyed, j \in JobId : work[j] = k => work'[j] = k
      BY WorkStays, ConstantsAssumption DEF LeaseInv
    <3> QED
      BY <3>1, <3>2
  <2>4. \A k \in Keyed : (\A j \in suspect' : work'[j] # k) => PerKey!Lawful(k)
    BY KeyLawful
  <2>5. \A k \in Keyed \ {i \in Keyed : \E j \in suspect : work[j] = i}' : PerKey!Lawful(k)
    BY <2>4
  <2>6. {k \in Keyed : \E j \in suspect : work[j] = k}' \in SUBSET Keyed
    OBVIOUS
  <2> QED
    BY <2>1, <2>2, <2>3, <2>5, <2>6 DEF PerKey!Next
<1> QED
  BY <1>1, <1>2, <1>3, LeaseCorrect, KeysUnique, PTL DEF Spec, ImplementsKeyLease, PerKey!Spec

=============================================================================
