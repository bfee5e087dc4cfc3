------------------------------- MODULE SearchRun -------------------------------
(***************************************************************************)
(* Searches of the business index: a request searches the index and asks   *)
(* for the evaluation of what is pending (source_requests/service.py), a   *)
(* worker has a batch of businesses evaluated by the language model        *)
(* (search_evaluations/service.py) and finalises the search, a user pauses *)
(* resumes and deletes searches (campaigns/service.py), and failed jobs    *)
(* fail them (job_queue/worker.py). All of it happens while other jobs     *)
(* bring new evidence on the businesses.                                   *)
(*                                                                         *)
(* The searches have one contract, as reruns of a search do. What its      *)
(* structured criteria and contact requirements make of a business is a    *)
(* function of the evidence, Fit. Evidence stands for its fingerprint.     *)
(***************************************************************************)
EXTENDS Integers, FiniteSets

CONSTANTS
    Search,       \* the campaigns that searches are filed as
    Business,     \* the members of the segment
    Evidence,     \* what may be known of a business
    Fit,          \* what the structured criteria make of it
    NoEvidence,   \* not an evidence
    Worker,       \* worker processes
    NoSearch,     \* what a process holds when it holds no search
    ResultCount,  \* results a search asks for
    BatchLimit,   \* businesses an evaluation batch may hold
    MaxFaults,    \* bound: failures of handlers, crashes, lost requests
    MaxEdits      \* bound: requests of the user, new evidence, failures of refreshes

ASSUME BoundsAssumption ==
    /\ ResultCount \in Nat /\ BatchLimit \in Nat
    /\ MaxFaults \in Nat /\ MaxEdits \in Nat

ASSUME FitAssumption ==
    Fit \in [Business -> [Evidence -> {"matched", "unknown", "not_matched"}]]

ASSUME NoSearchIsNoSearch == NoSearch \notin Search /\ NoEvidence \notin Evidence

Status == {"none", "draft", "expanding", "discovering", "paused", "completed", "failed", "deleted"}
Final == {"completed", "failed"}

\* The statuses a search may be completed from.
Completable == {"draft", "expanding", "completed"}

Judgement == {"matched", "rejected", "unknown"}

Nothing == [b \in Business |-> NoEvidence]
NoRows == [b \in Business |-> "none"]

VARIABLES
    status,    \* status of each search
    request,   \* how far the request that creates it has come
    wants,     \* the businesses it is about to have evaluated
    leads,     \* search_match of the leads of each search
    batch,     \* status of the evaluation job of each search
    ids,       \* the businesses it is about
    evidence,  \* what is known of each business
    verdict,   \* the evaluation of each business stored under each evidence
    basis,     \* history: the evidence the model was shown for it
    pc,        \* where each worker is in its handler
    at,        \* the search whose batch it runs
    shown,     \* what it showed the model of the businesses it has yet to store
    loaded,    \* the status its session read first
    desk,      \* what the user is doing, and to which search
    glimpse,   \* the status the user's request read
    doomed,    \* searches about to be failed with the refresh of their segment
    edits,
    faults,
    early,     \* history: searches whose batch ended before they were EXPANDING
    orphaned,  \* history: searches whose batch was given up by a process that died
    drifted    \* history: businesses whose evidence changed while it was evaluated

records == <<status, leads, batch, ids>>
asking == <<request, wants>>
index == <<evidence, verdict, basis>>
procs == <<pc, at, shown, loaded>>
user == <<desk, glimpse, edits>>
history == <<early, orphaned, drifted>>
vars == <<records, asking, index, procs, user, doomed, faults, history>>

\* The businesses whose evaluation a worker has yet to store.
Todo(w) == {b \in Business : shown[w][b] # NoEvidence}

Init ==
    /\ status = [c \in Search |-> "none"]
    /\ request = [c \in Search |-> "none"]
    /\ wants = [c \in Search |-> {}]
    /\ leads = [c \in Search |-> NoRows]
    /\ batch = [c \in Search |-> "none"]
    /\ ids = [c \in Search |-> {}]
    /\ evidence \in [Business -> Evidence]
    /\ verdict = [b \in Business |-> [v \in Evidence |-> "none"]]
    /\ basis = [b \in Business |-> [v \in Evidence |-> NoEvidence]]
    /\ pc = [w \in Worker |-> "idle"]
    /\ at = [w \in Worker |-> NoSearch]
    /\ shown = [w \in Worker |-> Nothing]
    /\ loaded = [w \in Worker |-> "none"]
    /\ desk = <<"none", NoSearch>>
    /\ glimpse = "none"
    /\ doomed = {}
    /\ edits = 0
    /\ faults = 0
    /\ early = {}
    /\ orphaned = {}
    /\ drifted = {}

(***************************************************************************)
(* The index                                                               *)
(***************************************************************************)

\* SearchEvaluationRepository.current: the evaluation of the present evidence.
Current(b) == verdict[b][evidence[b]]

\* BusinessIndexSearchService._search
Matches(b) == Fit[b][evidence[b]] = "matched" /\ Current(b) = "matched"

Rejects(b) == Fit[b][evidence[b]] = "not_matched" \/ Current(b) = "rejected"
Pending == {b \in Business : Fit[b][evidence[b]] # "not_matched" /\ Current(b) = "none"}

Least(m, n) == IF m <= n THEN m ELSE n

\* The matches, as many as were asked for, and if there are too few of them also
\* what is unresolved.
Rows ==
    LET matched == {b \in Business : Matches(b)}
        unresolved == {b \in Business : ~Matches(b) /\ ~Rejects(b)}
    IN  {rows \in [Business -> {"none", "matched", "unknown"}] :
            LET M == {b \in Business : rows[b] = "matched"}
                U == {b \in Business : rows[b] = "unknown"}
            IN  /\ M \subseteq matched
                /\ U \subseteq unresolved
                /\ Cardinality(M) = Least(ResultCount, Cardinality(matched))
                /\ Cardinality(U) = Least(ResultCount - Cardinality(M), Cardinality(unresolved))}

\* Other jobs bring evidence.
EvidenceChanges(b) ==
    /\ edits < MaxEdits
    /\ edits' = edits + 1
    /\ \E e \in Evidence \ {evidence[b]} : evidence' = [evidence EXCEPT ![b] = e]
    /\ drifted' = IF \E w \in Worker : b \in Todo(w) THEN drifted \cup {b} ELSE drifted
    /\ UNCHANGED <<records, asking, verdict, basis, procs, desk, glimpse,
                   doomed, faults, early, orphaned>>

\* materialize_index_candidates: a lead for each row, with what the search found.
Materialized(c, rows) ==
    [b \in Business |-> IF rows[b] # "none" THEN rows[b] ELSE leads[c][b]]

(***************************************************************************)
(* SourceRequestService.create                                             *)
(***************************************************************************)

\* The search is filed.
Create(c) ==
    /\ status[c] = "none"
    /\ status' = [status EXCEPT ![c] = "draft"]
    /\ request' = [request EXCEPT ![c] = "created"]
    /\ UNCHANGED <<leads, batch, ids, wants, index, procs, user, doomed, faults, history>>

\* The index is searched and its rows become leads.
Match(c) ==
    /\ request[c] = "created"
    /\ status[c] # "deleted"
    /\ \E rows \in Rows : leads' = [leads EXCEPT ![c] = Materialized(c, rows)]
    /\ \E S \in SUBSET Pending :
          /\ Cardinality(S) = Least(BatchLimit, Cardinality(Pending))
          /\ wants' = [wants EXCEPT ![c] = S]
    /\ request' = [request EXCEPT ![c] = IF Pending # {} THEN "enqueue" ELSE "finish"]
    /\ UNCHANGED <<status, batch, ids, index, procs, user, doomed, faults, history>>

\* The evaluation of what is pending is enqueued ...
Enqueue(c) ==
    /\ request[c] = "enqueue"
    /\ batch' = [batch EXCEPT ![c] = "queued"]
    /\ ids' = [ids EXCEPT ![c] = wants[c]]
    /\ wants' = [wants EXCEPT ![c] = {}]
    /\ request' = [request EXCEPT ![c] = "expand"]
    /\ UNCHANGED <<status, leads, index, procs, user, doomed, faults, history>>

\* ... before the search is said to be EXPANDING; the session still knows it as a
\* DRAFT, whatever became of it.
Finish(c) ==
    /\ request[c] \in {"expand", "finish"}
    /\ status[c] # "deleted"
    /\ status' = [status EXCEPT ![c] = IF request[c] = "expand" THEN "expanding" ELSE "completed"]
    /\ request' = [request EXCEPT ![c] = "none"]
    /\ UNCHANGED <<leads, batch, ids, wants, index, procs, user, doomed, faults, history>>

\* The request breaks off: the process dies, or the search was deleted.
RequestLost(c) ==
    /\ request[c] # "none"
    /\ \/ faults < MaxFaults /\ faults' = faults + 1
       \/ status[c] = "deleted" /\ UNCHANGED faults
    /\ request' = [request EXCEPT ![c] = "none"]
    /\ wants' = [wants EXCEPT ![c] = {}]
    /\ UNCHANGED <<records, index, procs, user, doomed, history>>

(***************************************************************************)
(* The evaluation batch                                                    *)
(***************************************************************************)

Claim(w, c) ==
    /\ pc[w] = "idle"
    /\ batch[c] = "queued"
    /\ batch' = [batch EXCEPT ![c] = "running"]
    /\ at' = [at EXCEPT ![w] = c]
    /\ pc' = [pc EXCEPT ![w] = "evaluate"]
    /\ UNCHANGED <<status, leads, ids, asking, index, shown, loaded,
                   user, doomed, faults, history>>

\* evaluate_batch reads the evidence and asks the model ...
Evaluate(w) ==
    /\ pc[w] = "evaluate"
    /\ shown' = [shown EXCEPT ![w] =
                    [b \in Business |-> IF b \in ids[at[w]] THEN evidence[b] ELSE NoEvidence]]
    /\ pc' = [pc EXCEPT ![w] = "save"]
    /\ UNCHANGED <<records, asking, index, at, loaded, user, doomed, faults, history>>

\* (mutant) The fingerprint says nothing of the evidence.
MutSave(w) ==
    /\ pc[w] = "save"
    /\ \E b \in Todo(w), j \in Judgement :
          /\ verdict' = [verdict EXCEPT ![b] = [v \in Evidence |-> j]]
          /\ basis' = [basis EXCEPT ![b] = [v \in Evidence |-> shown[w][b]]]
          /\ shown' = [shown EXCEPT ![w][b] = NoEvidence]
    /\ UNCHANGED <<records, asking, evidence, pc, at, loaded,
                   user, doomed, faults, history>>

\* ... and stores an answer for each business, "unknown" if the model left it out,
\* under the fingerprint of what is known by then.
Save(w) ==
    /\ pc[w] = "save"
    /\ \E b \in Todo(w), j \in Judgement :
          /\ verdict' = [verdict EXCEPT ![b][evidence[b]] = j]
          /\ basis' = [basis EXCEPT ![b][evidence[b]] = shown[w][b]]
          /\ shown' = [shown EXCEPT ![w][b] = NoEvidence]
    /\ UNCHANGED <<records, asking, evidence, pc, at, loaded,
                   user, doomed, faults, history>>

\* finalize_search_evaluations loads the search, searches the index again, makes
\* leads of the rows and rejects the leads that are not among them ...
Deliver(w) ==
    /\ pc[w] = "save"
    /\ Todo(w) = {}
    /\ status[at[w]] # "deleted"
    /\ loaded' = [loaded EXCEPT ![w] = status[at[w]]]
    /\ \E rows \in Rows :
          leads' = [leads EXCEPT ![at[w]] =
                       [b \in Business |-> IF rows[b] = "none" /\ @[b] # "none"
                                           THEN "not_matched" ELSE rows[b]]]
    /\ pc' = [pc EXCEPT ![w] = "settle"]
    /\ UNCHANGED <<status, batch, ids, asking, index, at, shown, user, doomed, faults, history>>

\* ... and, if it was EXPANDING when it was loaded, is to complete it: update_status
\* selects it again and checks the transition ...
Settle(w) ==
    /\ pc[w] = "settle"
    /\ \/ /\ loaded[w] = "expanding"
          /\ status[at[w]] \in Completable
          /\ pc' = [pc EXCEPT ![w] = "write"]
          /\ UNCHANGED early
       \/ /\ loaded[w] # "expanding"
          /\ status[at[w]] # "deleted"
          /\ early' = early \cup {at[w]}
          /\ pc' = [pc EXCEPT ![w] = "finish"]
    /\ loaded' = [loaded EXCEPT ![w] = "none"]
    /\ UNCHANGED <<records, asking, index, at, shown, user, doomed, faults, orphaned, drifted>>

\* ... before it writes.
Write(w) ==
    /\ pc[w] = "write"
    /\ status[at[w]] # "deleted"
    /\ status' = [status EXCEPT ![at[w]] = "completed"]
    /\ pc' = [pc EXCEPT ![w] = "finish"]
    /\ UNCHANGED <<leads, batch, ids, asking, index, at, shown, loaded,
                   user, doomed, faults, history>>

\* (mutant) The worker keeps the search.
MutEnded(w) ==
    /\ pc' = [pc EXCEPT ![w] = "idle"]
    /\ shown' = [shown EXCEPT ![w] = Nothing]
    /\ loaded' = [loaded EXCEPT ![w] = "none"]
    /\ at' = at

\* A worker is done with its search.
Ended(w) ==
    /\ pc' = [pc EXCEPT ![w] = "idle"]
    /\ at' = [at EXCEPT ![w] = NoSearch]
    /\ shown' = [shown EXCEPT ![w] = Nothing]
    /\ loaded' = [loaded EXCEPT ![w] = "none"]

\* queue.complete; a row that was deleted with its search ends the process.
Complete(w) ==
    /\ pc[w] = "finish"
    /\ batch' = [batch EXCEPT ![at[w]] = IF @ = "none" THEN "none" ELSE "done"]
    /\ Ended(w)
    /\ UNCHANGED <<status, leads, ids, asking, index, user, doomed, faults, history>>

(***************************************************************************)
(* Failures                                                                *)
(***************************************************************************)

\* finalize_search_evaluations does not find the search.
Lost(w) ==
    /\ pc[w] \in {"save", "settle", "write"}
    /\ Todo(w) = {}
    /\ status[at[w]] = "deleted"

\* The row is retried, or given up: then the search is to be failed.
GiveUp(w, c, exhausted) ==
    /\ batch' = [batch EXCEPT ![c] = IF exhausted THEN "dead" ELSE "queued"]
    /\ pc' = [pc EXCEPT ![w] = IF exhausted THEN "mourn" ELSE "idle"]
    /\ at' = [at EXCEPT ![w] = IF exhausted THEN c ELSE NoSearch]
    /\ shown' = [shown EXCEPT ![w] = Nothing]
    /\ loaded' = [loaded EXCEPT ![w] = "none"]

\* The handler raises.
Fail(w, exhausted) ==
    /\ pc[w] \in {"evaluate", "save", "settle", "write"}
    /\ batch[at[w]] = "running"
    /\ faults < MaxFaults
    /\ faults' = faults + 1
    /\ GiveUp(w, at[w], exhausted)
    /\ UNCHANGED <<status, leads, ids, asking, index, user, doomed, history>>

\* A search that was paused or failed since it was loaded cannot be completed.
Refuse(w, exhausted) ==
    /\ pc[w] = "settle"
    /\ loaded[w] = "expanding"
    /\ status[at[w]] \notin Completable \cup {"deleted"}
    /\ batch[at[w]] = "running"
    /\ GiveUp(w, at[w], exhausted)
    /\ UNCHANGED <<status, leads, ids, asking, index, user, doomed, faults, history>>

\* The search was deleted before its batch was enqueued: the handler raises at every
\* attempt, of which only the last is modelled.
Miss(w) ==
    /\ Lost(w)
    /\ batch[at[w]] = "running"
    /\ GiveUp(w, at[w], TRUE)
    /\ UNCHANGED <<status, leads, ids, asking, index, user, doomed, faults, history>>

\* A process that has neither its search nor its row any more dies of queue.fail.
Collapse(w) ==
    /\ Lost(w)
    /\ batch[at[w]] = "none"
    /\ Ended(w)
    /\ UNCHANGED <<records, asking, index, user, doomed, faults, history>>

\* (mutant) The search of a batch that was given up is left as it is.
MutFailCampaign(w) ==
    /\ pc[w] = "mourn"
    /\ Ended(w)
    /\ early' = IF status[at[w]] # "expanding" THEN early \cup {at[w]} ELSE early
    /\ UNCHANGED <<records, asking, index, user, doomed, faults, orphaned, drifted>>

\* _fail_campaign
FailCampaign(w) ==
    /\ pc[w] = "mourn"
    /\ IF status[at[w]] = "expanding"
       THEN status' = [status EXCEPT ![at[w]] = "failed"] /\ UNCHANGED early
       ELSE early' = early \cup {at[w]} /\ UNCHANGED status
    /\ Ended(w)
    /\ UNCHANGED <<leads, batch, ids, asking, index, user, doomed, faults, orphaned, drifted>>

\* A worker process dies; its row stays RUNNING.
Crash(w) ==
    /\ pc[w] # "idle"
    /\ faults < MaxFaults
    /\ faults' = faults + 1
    /\ orphaned' = IF pc[w] = "mourn" THEN orphaned \cup {at[w]} ELSE orphaned
    /\ Ended(w)
    /\ UNCHANGED <<records, asking, index, user, doomed, early, drifted>>

\* A process died with its batch, whose row says RUNNING until a process starts.
Stranded(c) == batch[c] = "running" /\ \A w \in Worker : at[w] # c

\* _recover_interrupted_jobs, as a worker process starts, for a row nobody runs.
Recover(w, c, exhausted) ==
    /\ pc[w] = "idle"
    /\ Stranded(c)
    /\ GiveUp(w, c, exhausted)
    /\ UNCHANGED <<status, leads, ids, asking, index, user, doomed, faults, history>>

\* _fail_expanding_campaigns, after a refresh of the segment was given up, finds the
\* searches that are EXPANDING ...
RefreshDies ==
    /\ edits < MaxEdits
    /\ edits' = edits + 1
    /\ doomed = {}
    /\ doomed' = {c \in Search : status[c] = "expanding"}
    /\ UNCHANGED <<records, asking, index, procs, desk, glimpse, faults, history>>

\* ... and fails them.
FailExpanding ==
    /\ doomed # {}
    /\ status' = [c \in Search |-> IF c \in doomed /\ status[c] # "deleted"
                                   THEN "failed" ELSE status[c]]
    /\ doomed' = {}
    /\ UNCHANGED <<leads, batch, ids, asking, index, procs, user, faults, history>>

(***************************************************************************)
(* The user                                                                *)
(***************************************************************************)

Editing == desk[1] = "none" /\ edits < MaxEdits /\ edits' = edits + 1

\* (mutant) A search in any state can be paused.
MutStartPause(c) ==
    /\ Editing
    /\ status[c] \notin {"none", "deleted"}
    /\ desk' = <<"pause", c>>
    /\ glimpse' = status[c]
    /\ UNCHANGED <<records, asking, index, procs, doomed, faults, history>>

\* pause and resume read the search and check the transition ...
StartPause(c) ==
    /\ Editing
    /\ status[c] \in {"draft", "expanding", "discovering"}
    /\ desk' = <<"pause", c>>
    /\ glimpse' = status[c]
    /\ UNCHANGED <<records, asking, index, procs, doomed, faults, history>>

StartResume(c) ==
    /\ Editing
    /\ status[c] \in {"draft", "paused"}
    /\ desk' = <<"resume", c>>
    /\ glimpse' = status[c]
    /\ UNCHANGED <<records, asking, index, procs, doomed, faults, history>>

\* ... and write: a search that never got beyond its first stage is resumed as
\* DISCOVERING.
EndEdit ==
    /\ desk[1] # "none"
    /\ status' = [status EXCEPT ![desk[2]] =
                    IF @ = "deleted" THEN @
                    ELSE IF desk[1] = "pause" THEN "paused" ELSE "discovering"]
    /\ desk' = <<"none", NoSearch>>
    /\ glimpse' = "none"
    /\ UNCHANGED <<leads, batch, ids, asking, index, procs, edits, doomed, faults, history>>

\* delete removes the leads and the jobs too.
Delete(c) ==
    /\ Editing
    /\ status[c] \notin {"none", "deleted"}
    /\ status' = [status EXCEPT ![c] = "deleted"]
    /\ leads' = [leads EXCEPT ![c] = NoRows]
    /\ batch' = [batch EXCEPT ![c] = "none"]
    /\ UNCHANGED <<ids, asking, index, procs, desk, glimpse, doomed, faults, history>>

(***************************************************************************)
(* Specification                                                           *)
(***************************************************************************)

Handle(w) ==
    \/ Evaluate(w)
    \/ Save(w)
    \/ Deliver(w)
    \/ Settle(w)
    \/ Write(w)
    \/ Complete(w)
    \/ FailCampaign(w)
    \/ Miss(w)
    \/ Collapse(w)
    \/ \E exhausted \in BOOLEAN : Refuse(w, exhausted)
    \/ \E c \in Search : Claim(w, c)

Ask(c) == Match(c) \/ Enqueue(c) \/ Finish(c)

Next ==
    \/ \E c \in Search :
          \/ Create(c)
          \/ Ask(c)
          \/ RequestLost(c)
          \/ StartPause(c)
          \/ StartResume(c)
          \/ Delete(c)
    \/ \E w \in Worker :
          \/ Handle(w)
          \/ \E exhausted \in BOOLEAN : Fail(w, exhausted)
          \/ \E c \in Search, exhausted \in BOOLEAN : Recover(w, c, exhausted)
          \/ Crash(w)
    \/ \E b \in Business : EvidenceChanges(b)
    \/ RefreshDies
    \/ FailExpanding
    \/ EndEdit

Spec == Init /\ [][Next]_vars

\* Workers work. A process recovers rows only as it starts, and nothing says that one
\* ever starts again.
FairSpec == Spec /\ \A w \in Worker : WF_vars(Handle(w))

(***************************************************************************)
(* Properties                                                              *)
(***************************************************************************)

TypeOK ==
    /\ status \in [Search -> Status]
    /\ request \in [Search -> {"none", "created", "enqueue", "expand", "finish"}]
    /\ wants \in [Search -> SUBSET Business]
    /\ leads \in [Search -> [Business -> {"none", "matched", "unknown", "not_matched"}]]
    /\ batch \in [Search -> {"none", "queued", "running", "done", "dead"}]
    /\ ids \in [Search -> SUBSET Business]
    /\ evidence \in [Business -> Evidence]
    /\ verdict \in [Business -> [Evidence -> Judgement \cup {"none"}]]
    /\ basis \in [Business -> [Evidence -> Evidence \cup {NoEvidence}]]
    /\ pc \in [Worker -> {"idle", "evaluate", "save", "settle", "write", "finish", "mourn"}]
    /\ at \in [Worker -> Search \cup {NoSearch}]
    /\ \A w \in Worker : at[w] = NoSearch <=> pc[w] = "idle"
    /\ shown \in [Worker -> [Business -> Evidence \cup {NoEvidence}]]
    /\ loaded \in [Worker -> Status]
    /\ desk \in {"none", "pause", "resume"} \X (Search \cup {NoSearch})
    /\ desk[1] # "none" => desk[2] \in Search
    /\ glimpse \in Status
    /\ doomed \subseteq Search
    /\ edits \in 0..MaxEdits
    /\ faults \in 0..MaxFaults
    /\ early \subseteq Search /\ orphaned \subseteq Search
    /\ drifted \subseteq Business

\* A search that says it is EXPANDING has a batch that will end it, or a process
\* about to fail it. The exceptions are those of the code: the batch ended before
\* the search was EXPANDING, or its process died before it failed the search.
ExpandingIsServed ==
    \A c \in Search : status[c] = "expanding" =>
        \/ batch[c] \in {"queued", "running"}
        \/ \E w \in Worker : at[w] = c /\ pc[w] = "mourn"
        \/ c \in early \cup orphaned

\* An evaluation counts as current only for the evidence the model was shown,
\* unless new evidence came while the model was asked.
VerdictFitsEvidence ==
    \A b \in Business : Current(b) # "none" => basis[b][evidence[b]] = evidence[b] \/ b \in drifted

\* A search that is COMPLETED or FAILED stays so, except for writers that read it
\* before it was.
FinalIsFinal ==
    [][\A c \in Search : status[c] \in Final /\ status'[c] # status[c] =>
          \/ status'[c] = "deleted"
          \/ desk[2] = c /\ glimpse \notin Final
          \/ c \in doomed
          \/ \E w \in Worker : at[w] = c /\ pc[w] = "write"]_vars

\* Every EXPANDING search ends, is one of those exceptions, or waits for a process to
\* start.
SearchEnds ==
    \A c \in Search :
        status[c] = "expanding" ~>
            status[c] # "expanding" \/ c \in early \cup orphaned \/ Stranded(c)

\* The batch of a search is a job of the queue, and the workers keep to what the queue
\* promises of its key, until its row is deleted with the search.
InBatch == {"evaluate", "save", "settle", "write", "finish"}
Lease == INSTANCE KeyLease WITH
            Key <- Search,
            stage <- [c \in Search |-> IF batch[c] \in {"queued", "running"} THEN batch[c] ELSE "none"],
            lessees <- [c \in Search |-> {w \in Worker : at[w] = c /\ pc[w] \in InBatch}],
            exposed <- {c \in Search : status[c] = "deleted"}
ImplementsKeyLease == Lease!Spec
=============================================================================
