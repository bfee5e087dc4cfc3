----------------------------- MODULE IndexRefresh -----------------------------
(***************************************************************************)
(* The refreshes of one segment of the business index: the scheduler that  *)
(* asks for them (business_index/scheduler.py) and the audience expansion  *)
(* that does too, the workers that plan a refresh, fetch its sources and   *)
(* process what they return (business_index/pipeline.py), and the          *)
(* administrator who orders, releases, discards, cancels and retries data  *)
(* jobs (admin/service.py).                                                *)
(*                                                                         *)
(* What happens to a source item and to a business is the matter of        *)
(* SourceItems: here a fetch returns one item or none, and an item is      *)
(* either staged for the administrator or on its way through the stages.   *)
(***************************************************************************)
EXTENDS Integers, FiniteSets

CONSTANTS
    Source,      \* entries of the segment's source plan
    Worker,      \* worker processes
    NoRow,       \* what a process holds when it holds no row
    MaxRoots,    \* bound: refreshes ever asked for
    MaxPlans,    \* bound: plannings of one refresh
    MaxAdmin,    \* bound: requests of the administrator
    MaxFaults    \* bound: failures of handlers and crashes

ASSUME BoundsAssumption ==
    /\ MaxRoots \in Nat /\ MaxPlans \in Nat
    /\ MaxAdmin \in Nat /\ MaxFaults \in Nat

Root == 1..MaxRoots

\* The rows of queue_jobs: a refresh, the fetches its n-th planning inserted, and
\* the resolution and audit of the item a fetch stored, which are one row here.
Row(kind, r, s, n) == [kind |-> kind, root |-> r, sources |-> s, plan |-> n]
PlanRow(r) == Row("plan", r, {}, 0)
FetchRow(r, s, n) == Row("fetch", r, {s}, n)
Fetch == {FetchRow(r, s, n) : r \in Root, s \in Source, n \in 1..MaxPlans}
ItemRow(f) == [f EXCEPT !.kind = "item"]
QueueRow == {PlanRow(r) : r \in Root}
            \cup UNION {{f, ItemRow(f)} : f \in Fetch}

ASSUME NoRowIsNoRow == NoRow \notin QueueRow

\* Rows with one idempotency key: the refreshes of the segment, the fetches of a
\* source, and otherwise the row itself.
SameKey(k) ==
    {j \in QueueRow : IF k.kind \in {"plan", "fetch"}
                      THEN j.kind = k.kind /\ j.sources = k.sources
                      ELSE j = k}

VARIABLES
    status,    \* status of each row
    mode,      \* of each refresh: asked for by nobody, by the system, or by the
               \* administrator who wants it "automatic" or "review" first
    gate,      \* review_state of each refresh
    plans,     \* how often each refresh has been planned
    staged,    \* fetches whose item waits for the administrator, unprocessed
    next,      \* next_refresh_at: "due", or "later"
    pc,        \* where each worker is in its handler
    at,        \* the row it runs
    todo,      \* the sources its planning has yet to enqueue
    desk,      \* what the administrator's request is doing
    file,      \* the refresh it is about
    pile,      \* the rows it read and has yet to write
    gateNext,  \* the review_state it has yet to write
    requests,
    faults,
    hasty,     \* history: refreshes decided on while they were being planned
    snatched   \* history: rows claimed between a cancellation's read and its write

procs == <<pc, at, todo>>
people == <<desk, file, pile, gateNext, requests>>
history == <<hasty, snatched>>
vars == <<status, mode, gate, plans, staged, next, procs, people, faults, history>>

ActiveRow(k) == status[k] \in {"queued", "running"}
Children(r) == {f \in Fetch : f.root = r}
Unused == {r \in Root : mode[r] = "none"}
Staged(r) == {f \in staged : f.root = r}

Init ==
    /\ status = [k \in QueueRow |-> "none"]
    /\ mode = [r \in Root |-> "none"]
    /\ gate = [r \in Root |-> "pending"]
    /\ plans = [r \in Root |-> 0]
    /\ staged = {}
    /\ next = "due"
    /\ pc = [w \in Worker |-> "idle"]
    /\ at = [w \in Worker |-> NoRow]
    /\ todo = [w \in Worker |-> {}]
    /\ desk = "none"
    /\ file = 0
    /\ pile = {}
    /\ gateNext = "pending"
    /\ requests = 0
    /\ faults = 0
    /\ hasty = {}
    /\ snatched = {}

(***************************************************************************)
(* The queue                                                               *)
(***************************************************************************)

\* (mutant) An active row of the key is not looked for.
MutEnqueueOnce(k) == status' = [status EXCEPT ![k] = "queued"]

\* enqueue_once: an active row of the key stands for the new one.
EnqueueOnce(k) ==
    IF \E j \in SameKey(k) : ActiveRow(j)
    THEN UNCHANGED status
    ELSE status' = [status EXCEPT ![k] = "queued"]

\* enqueue_business_index_refresh: the payload of an active refresh stays as it is.
AskRefresh(m) ==
    LET r == CHOOSE q \in Unused : TRUE
    IN  IF \E q \in Root : ActiveRow(PlanRow(q))
        THEN UNCHANGED <<status, mode>>
        ELSE /\ Unused # {}
             /\ EnqueueOnce(PlanRow(r))
             /\ mode' = [mode EXCEPT ![r] = m]

\* claim_next; a fetch begins with a read of the segment.
Claim(w, k) ==
    /\ pc[w] = "idle"
    /\ status[k] = "queued"
    /\ status' = [status EXCEPT ![k] = "running"]
    /\ at' = [at EXCEPT ![w] = k]
    /\ pc' = [pc EXCEPT ![w] = k.kind]
    /\ snatched' = IF desk = "canceling" /\ k \in pile THEN snatched \cup {k} ELSE snatched
    /\ UNCHANGED <<mode, gate, plans, staged, next, todo, people, faults, hasty>>

\* (mutant) The worker keeps the row.
MutEnded(w) ==
    /\ pc' = [pc EXCEPT ![w] = "idle"]
    /\ todo' = [todo EXCEPT ![w] = {}]
    /\ at' = at

\* A worker is done with its row.
Ended(w) ==
    /\ at' = [at EXCEPT ![w] = NoRow]
    /\ pc' = [pc EXCEPT ![w] = "idle"]
    /\ todo' = [todo EXCEPT ![w] = {}]

\* queue.complete, whatever the row's status has become.
Complete(w) ==
    /\ pc[w] = "finish"
    /\ status' = [status EXCEPT ![at[w]] = "done"]
    /\ Ended(w)
    /\ UNCHANGED <<mode, gate, plans, staged, next, people, faults, history>>

\* A handler raises, and queue.fail retries the row or gives it up.
Fail(w, exhausted) ==
    /\ pc[w] \notin {"idle", "finish"}
    /\ faults < MaxFaults
    /\ faults' = faults + 1
    /\ \A j \in SameKey(at[w]) \ {at[w]} : exhausted \/ ~ActiveRow(j)
    /\ status' = [status EXCEPT ![at[w]] = IF exhausted THEN "dead" ELSE "queued"]
    /\ Ended(w)
    /\ UNCHANGED <<mode, gate, plans, staged, next, people, history>>

\* A worker process dies and is started again: its row stays RUNNING.
Crash(w) ==
    /\ pc[w] # "idle"
    /\ faults < MaxFaults
    /\ faults' = faults + 1
    /\ Ended(w)
    /\ UNCHANGED <<status, mode, gate, plans, staged, next, people, history>>

\* recover_stale_running, on a row nobody runs.
Recover(k, exhausted) ==
    /\ status[k] = "running"
    /\ \A w \in Worker : at[w] # k
    /\ status' = [status EXCEPT ![k] = IF exhausted THEN "dead" ELSE "queued"]
    /\ UNCHANGED <<mode, gate, plans, staged, next, procs, people, faults, history>>

(***************************************************************************)
(* plan_refresh                                                            *)
(***************************************************************************)

Review(w) == mode[at[w].root] = "review"

\* The source plan is rebuilt and the next refresh put off, in one commit.
Plan(w, sources) ==
    /\ pc[w] = "plan"
    /\ plans[at[w].root] < MaxPlans
    /\ plans' = [plans EXCEPT ![at[w].root] = @ + 1]
    /\ next' = "later"
    /\ todo' = [todo EXCEPT ![w] = sources]
    /\ pc' = [pc EXCEPT ![w] = IF sources # {} THEN "spread" ELSE "void"]
    /\ UNCHANGED <<status, mode, gate, staged, at, people, faults, history>>

\* One fetch is enqueued per commit.
Spread(w) ==
    /\ pc[w] = "spread"
    /\ \E s \in todo[w] :
          /\ EnqueueOnce(FetchRow(at[w].root, s, plans[at[w].root]))
          /\ todo' = [todo EXCEPT ![w] = @ \ {s}]
          /\ pc' = [pc EXCEPT ![w] = IF todo[w] # {s} THEN "spread"
                                     ELSE "finish"]
    /\ UNCHANGED <<mode, gate, plans, staged, next, at, people, faults, history>>

\* With nothing to fetch the refresh is complete, unsuccessful.
FinishEmpty(w) ==
    /\ pc[w] = "void"
    /\ next' = "later"
    /\ pc' = [pc EXCEPT ![w] = "finish"]
    /\ UNCHANGED <<status, mode, gate, plans, staged, at, todo, people, faults, history>>

(***************************************************************************)
(* fetch_source, resolve_identity and audit_opportunity                    *)
(***************************************************************************)

\* What the provider returned is stored: nothing, or an item.
Store(w) ==
    /\ pc[w] = "fetch"
    /\ \/ /\ pc' = [pc EXCEPT ![w] = "settle"]
          /\ UNCHANGED staged
       \/ /\ Review(w)
          /\ staged' = staged \cup {at[w]}
          /\ pc' = [pc EXCEPT ![w] = "settle"]
       \/ /\ ~Review(w)
          /\ pc' = [pc EXCEPT ![w] = "handoff"]
          /\ UNCHANGED staged
    /\ UNCHANGED <<status, mode, gate, plans, next, at, todo, people, faults, history>>

HandOff(w) ==
    /\ pc[w] = "handoff"
    /\ EnqueueOnce(ItemRow(at[w]))
    /\ pc' = [pc EXCEPT ![w] = "finish"]
    /\ UNCHANGED <<mode, gate, plans, staged, next, at, todo, people, faults, history>>

\* An audit ends in _maybe_complete; an item that is not resolved ends before it.
RunItem(w) ==
    /\ pc[w] = "item"
    /\ \/ pc' = [pc EXCEPT ![w] = "settle"]
       \/ pc' = [pc EXCEPT ![w] = "finish"]
    /\ UNCHANGED <<status, mode, gate, plans, staged, next, at, todo, people, faults, history>>

\* _maybe_complete: is any other stage of the segment active?
Look(w) ==
    /\ pc[w] = "settle"
    /\ pc' = [pc EXCEPT ![w] =
                IF \E k \in QueueRow \ {at[w]} : k.kind # "plan" /\ ActiveRow(k)
                THEN "finish" ELSE "close"]
    /\ UNCHANGED <<status, mode, gate, plans, staged, next, at, todo, people, faults, history>>

\* complete_refresh: a week if any source ever succeeded, or else a day.
Close(w) ==
    /\ pc[w] = "close"
    /\ next' = "later"
    /\ pc' = [pc EXCEPT ![w] = "finish"]
    /\ UNCHANGED <<status, mode, gate, plans, staged, at, todo, people, faults, history>>

(***************************************************************************)
(* Who asks for refreshes                                                  *)
(***************************************************************************)

\* A review_first batch of the administrator, as _segments_awaiting_admin_review
\* sees it.
Released == {"approved", "discarded", "canceled"}
Blocked == \E r \in Root : mode[r] = "review" /\ gate[r] \notin Released

\* Time passes, up to next_refresh_at.
Elapse ==
    /\ next # "due"
    /\ next' = "due"
    /\ UNCHANGED <<status, mode, gate, plans, staged, procs, people, faults, history>>

\* enqueue_due_business_index_refreshes. What may happen between its reads and
\* its enqueue is what Expand, which reads nothing, allows.
Schedule ==
    /\ next = "due"
    /\ ~Blocked
    /\ AskRefresh("system")
    /\ UNCHANGED <<gate, plans, staged, next, procs, people, faults, history>>

\* enqueue_profile_source_expansion, for an audience that lacks businesses.
Expand ==
    /\ AskRefresh("system")
    /\ UNCHANGED <<gate, plans, staged, next, procs, people, faults, history>>

(***************************************************************************)
(* The administrator, one request at a time                                *)
(***************************************************************************)

Requesting ==
    /\ desk = "none"
    /\ requests < MaxAdmin
    /\ requests' = requests + 1

\* The refresh of a data job and its fetches; a data job is an administrator's.
Records(r) == {PlanRow(r)} \cup Children(r)
DataJob(r) == mode[r] \in {"automatic", "review"}

\* A decision taken on a batch whose planning has not ended.
Decide(r) ==
    /\ hasty' = IF ActiveRow(PlanRow(r)) THEN hasty \cup {r} ELSE hasty
    /\ UNCHANGED <<snatched>>

\* create_data_job: nothing is collected for the segment at the moment ...
StartCreate(m) ==
    /\ Requesting
    /\ \A k \in QueueRow : k.kind \in {"plan", "fetch"} => ~ActiveRow(k)
    /\ desk' = m
    /\ UNCHANGED <<status, mode, gate, plans, staged, next, procs, file, pile, gateNext, faults, history>>

\* ... and its refresh is enqueued.
EndCreate ==
    /\ desk \in {"automatic", "review"}
    /\ AskRefresh(desk)
    /\ desk' = "none"
    /\ UNCHANGED <<gate, plans, staged, next, procs, file, pile, gateNext, requests, faults, history>>

\* validate_data_job: all staged items, a sample or a selection.
StartValidate(r, S) ==
    /\ Requesting
    /\ mode[r] = "review"
    /\ \A f \in Children(r) : ~ActiveRow(f)
    /\ S # {} /\ S \subseteq Staged(r)
    /\ desk' = "validating"
    /\ file' = r
    /\ pile' = S
    /\ gateNext' = IF S = Staged(r) THEN "approved" ELSE "sample"
    /\ Decide(r)
    /\ UNCHANGED <<status, mode, gate, plans, staged, next, procs, faults>>

\* Every item is queued in a transaction of its own.
ValidateOne ==
    /\ desk = "validating"
    /\ \E f \in pile :
          /\ staged' = staged \ {f}
          /\ EnqueueOnce(ItemRow(f))
          /\ pile' = pile \ {f}
    /\ UNCHANGED <<mode, gate, plans, next, procs, desk, file, gateNext, requests, faults, history>>

\* (mutant) A sample releases the batch.
MutEndValidate ==
    /\ desk = "validating" /\ pile = {}
    /\ gate' = [gate EXCEPT ![file] = "approved"]
    /\ desk' = "none" /\ file' = 0 /\ gateNext' = "pending"
    /\ UNCHANGED <<status, mode, plans, staged, next, procs, pile, requests, faults, history>>

EndValidate ==
    /\ desk = "validating" /\ pile = {}
    /\ gate' = [gate EXCEPT ![file] = gateNext]
    /\ desk' = "none" /\ file' = 0 /\ gateNext' = "pending"
    /\ UNCHANGED <<status, mode, plans, staged, next, procs, pile, requests, faults, history>>

\* discard_data_job
Discard(r) ==
    /\ Requesting
    /\ mode[r] = "review"
    /\ \A f \in Children(r) : ~ActiveRow(f)
    /\ staged' = staged \ Staged(r)
    /\ gate' = [gate EXCEPT ![r] = "discarded"]
    /\ Decide(r)
    /\ UNCHANGED <<status, mode, plans, next, procs, desk, file, pile, gateNext, faults>>

\* cancel_data_job reads the rows: none runs and one is queued ...
StartCancel(r) ==
    /\ Requesting
    /\ DataJob(r)
    /\ \A k \in Records(r) : status[k] # "running"
    /\ desk' = "canceling"
    /\ file' = r
    /\ pile' = {k \in Records(r) : status[k] = "queued"}
    /\ pile' # {}
    /\ UNCHANGED <<status, mode, gate, plans, staged, next, procs, gateNext, faults, history>>

\* ... and writes those it found queued.
EndCancel ==
    /\ desk = "canceling"
    /\ status' = [k \in QueueRow |-> IF k \in pile THEN "canceled" ELSE status[k]]
    /\ gate' = [gate EXCEPT ![file] = "canceled"]
    /\ desk' = "none" /\ file' = 0 /\ pile' = {}
    /\ UNCHANGED <<mode, plans, staged, next, procs, gateNext, requests, faults, history>>

\* (mutant) The rows that were given up are queued again, the gate stays as it is.
MutRetry(r) ==
    LET dead == {k \in Records(r) : status[k] = "dead"}
    IN  /\ Requesting
        /\ DataJob(r)
        /\ dead # {}
        /\ \A k \in dead : \A j \in SameKey(k) \ {k} : ~ActiveRow(j) /\ j \notin dead
        /\ status' = [k \in QueueRow |-> IF k \in dead THEN "queued" ELSE status[k]]
        /\ UNCHANGED <<mode, gate, plans, staged, next, procs, desk, file, pile, gateNext, faults, history>>

\* retry_data_job; the unique index on active keys refuses a row whose key is taken.
Retry(r) ==
    LET dead == {k \in Records(r) : status[k] = "dead"}
    IN  /\ Requesting
        /\ DataJob(r)
        /\ dead # {}
        /\ \A k \in dead : \A j \in SameKey(k) \ {k} : ~ActiveRow(j) /\ j \notin dead
        /\ status' = [k \in QueueRow |-> IF k \in dead THEN "queued" ELSE status[k]]
        /\ gate' = [gate EXCEPT ![r] = "pending"]
        /\ UNCHANGED <<mode, plans, staged, next, procs, desk, file, pile, gateNext, faults, history>>

(***************************************************************************)
(* Specification                                                           *)
(***************************************************************************)

Handle(w) ==
    \/ Complete(w)
    \/ \E sources \in SUBSET Source : Plan(w, sources)
    \/ Spread(w)
    \/ FinishEmpty(w)
    \/ Store(w)
    \/ HandOff(w)
    \/ RunItem(w)
    \/ Look(w)
    \/ Close(w)

Proceed == ValidateOne \/ EndValidate \/ EndCancel

Next ==
    \/ \E w \in Worker :
          \/ Handle(w)
          \/ \E k \in QueueRow : Claim(w, k)
          \/ \E exhausted \in BOOLEAN : Fail(w, exhausted)
          \/ Crash(w)
    \/ \E k \in QueueRow, exhausted \in BOOLEAN : Recover(k, exhausted)
    \/ Elapse
    \/ Schedule
    \/ Expand
    \/ \E m \in {"automatic", "review"} : StartCreate(m)
    \/ EndCreate
    \/ \E r \in Root, S \in SUBSET staged : StartValidate(r, S)
    \/ Proceed
    \/ \E r \in Root : Discard(r) \/ StartCancel(r) \/ Retry(r)

Spec == Init /\ [][Next]_vars

(***************************************************************************)
(* Properties                                                              *)
(***************************************************************************)

TypeOK ==
    /\ status \in [QueueRow -> {"none", "queued", "running", "done", "dead", "canceled"}]
    /\ mode \in [Root -> {"none", "system", "automatic", "review"}]
    /\ gate \in [Root -> {"pending", "sample"} \cup Released]
    /\ plans \in [Root -> 0..MaxPlans]
    /\ staged \subseteq Fetch
    /\ next \in {"due", "later"}
    /\ pc \in [Worker -> {"idle", "plan", "spread", "void", "fetch",
                          "handoff", "item",
                          "settle", "close", "finish"}]
    /\ at \in [Worker -> QueueRow \cup {NoRow}]
    /\ \A w \in Worker : pc[w] = "idle" <=> at[w] = NoRow
    /\ todo \in [Worker -> SUBSET Source]
    /\ desk \in {"none", "automatic", "review", "validating", "canceling"}
    /\ file \in Root \cup {0}
    /\ pile \subseteq QueueRow
    /\ gateNext \in {"pending", "sample", "approved"}
    /\ requests \in 0..MaxAdmin
    /\ faults \in 0..MaxFaults
    /\ hasty \subseteq Root
    /\ snatched \subseteq QueueRow

\* As long as a review_first batch is being collected, and as long as it holds
\* items nobody looked at unless it was canceled, its gate keeps the scheduler
\* from the segment. The exceptions are what the code lets happen: a decision
\* taken while the batch is planned, a cancellation that overtook a worker.
GateCoversBatch ==
    \A r \in Root :
        mode[r] = "review" /\ r \notin hasty /\ Records(r) \cap snatched = {} =>
            /\ (\E k \in Records(r) : ActiveRow(k)) => gate[r] \notin Released
            /\ Staged(r) # {} => gate[r] \in {"pending", "sample", "canceled"}

\* No two workers fetch one source at a time, unless a cancellation gave the row
\* of one of them to the next refresh.
OneFetchPerSource ==
    \A v, w \in Worker :
        v # w /\ at[v] # NoRow /\ at[w] # NoRow /\ at[v].kind = "fetch" /\ at[w].kind = "fetch"
              /\ at[v].sources = at[w].sources
            => {at[v], at[w]} \cap snatched # {}

\* The keys of enqueue_once, as the rows that share one: the work under each is leased as
\* the queue promises, until a worker claims a row while it is being canceled.
RowKey == {SameKey(k) : k \in QueueRow}
KeyStage(K) ==
    IF \E k \in K : status[k] = "running" THEN "running"
    ELSE IF \E k \in K : status[k] = "queued" THEN "queued" ELSE "none"

Lease == INSTANCE KeyLease WITH
            Key <- RowKey,
            stage <- [K \in RowKey |-> KeyStage(K)],
            lessees <- [K \in RowKey |-> {w \in Worker : at[w] \in K}],
            exposed <- {K \in RowKey : K \cap snatched # {}}
ImplementsKeyLease == Lease!Spec
=============================================================================
