---------------------------- MODULE AudienceRun ----------------------------
(***************************************************************************)
(* The runs of one audience (agent/audience_runs and the routes of         *)
(* agent/territories): a run is created by a request, matched by a worker  *)
(* that took its job or by the request that polls the current batch,       *)
(* waits for coverage until its deadline, and ends READY, PARTIAL or       *)
(* FAILED; meanwhile the user reviews the results it has delivered.        *)
(*                                                                         *)
(* A session keeps the objects it loaded over its commits (the factory has *)
(* expire_on_commit=False), so a run's state is read once per request and  *)
(* an assignment of the value it was loaded with writes nothing.  The job  *)
(* of a run is its latest row of queue_jobs: JobQueue shows that at most   *)
(* one row of a run is active.                                             *)
(***************************************************************************)
EXTENDS AudienceMatching

CONSTANTS
    Worker,       \* worker processes
    Api,          \* API sessions: they create runs, poll and review
    Batch,        \* requested_count, the audience's batch_size
    MaxRuns,      \* bound: runs ever created
    MaxEdits,     \* bound: edits of the audience's criteria
    MaxAttempts,  \* max_attempts of the job
    MaxCrashes,   \* bound: crashes of executors
    CanRaise,     \* matching and expansion may raise (database or provider errors)
    Watched,      \* the audience's page is open and polls the current batch
    Expandable    \* whether a configured provider may cover the niche

ASSUME AudienceAssumption ==
    /\ Worker \cap Api = {}
    /\ Batch \in Nat \ {0}
    /\ MaxRuns \in Nat \ {0}
    /\ MaxEdits \in Nat
    /\ MaxAttempts \in Nat \ {0}
    /\ MaxCrashes \in Nat
    /\ CanRaise \in BOOLEAN
    /\ Watched \in BOOLEAN
    /\ Expandable \in (SUBSET BOOLEAN) \ {{}}

Run == 1..MaxRuns
Executor == Worker \cup Api

VARIABLES
    state,      \* AudienceRunModel.state, "absent" before the run is created
    version,    \* criteria_version of each run
    overdue,    \* deadline_at has passed
    rank,       \* rank[r][b]: rank_position of b's result in r, 0 without one
    review,     \* review[r][b]: what the user made of that result
    coverage,   \* status of the run's coverage request, "none" without one
    jobStatus,  \* the latest job of each run
    tries,      \* its attempts
    nextRun,
    criteria,   \* the audience's current criteria_version
    found,      \* what the facts of each business amount to now
    pc,         \* where each executor is
    on,         \* the run it works on, 0 for none
    mine,       \* its job row is still the latest of that run
    cached,     \* the run's state as its session loaded it
    late,       \* the deadline had passed when it took the time
    pool,       \* the businesses its SELECT of candidates returned
    plan,       \* the ranks it is about to write
    basis,      \* the results it found in the run
    edition,    \* the criteria_version a creating session read
    given,      \* the attempts a poll found when it took a job over
    crashes,
    raced       \* history: businesses last dismissed while a plan had them

runVars == <<state, version, overdue, coverage, nextRun>>
resultVars == <<rank, review>>
jobVars == <<jobStatus, tries>>
audienceVars == <<criteria, found>>
localVars == <<on, mine, cached, late, pool, plan, basis, edition, given>>
vars == <<runVars, resultVars, jobVars, audienceVars, pc, localVars, crashes, raced>>

RunState == {"queued", "matching", "waiting_validation", "ready", "partial", "failed"}
ActiveState == {"queued", "matching", "waiting_validation"}
DeliveredState == {"ready", "partial"}
ReviewState == {"unreviewed", "not_fit", "shortlisted"}
ActiveJob == {"queued", "running"}

NoRanks == [b \in Business |-> 0]
Rows(r) == {b \in Business : rank[r][b] > 0}
Latest == nextRun - 1

Init ==
    /\ state = [r \in Run |-> "absent"]
    /\ version = [r \in Run |-> 0]
    /\ overdue = [r \in Run |-> FALSE]
    /\ rank = [r \in Run |-> NoRanks]
    /\ review = [r \in Run |-> [b \in Business |-> "unreviewed"]]
    /\ coverage = [r \in Run |-> "none"]
    /\ jobStatus = [r \in Run |-> "none"]
    /\ tries = [r \in Run |-> 0]
    /\ nextRun = 1
    /\ criteria = 0
    /\ found \in [Business -> Finding]
    /\ pc = [x \in Executor |-> "idle"]
    /\ on = [x \in Executor |-> 0]
    /\ mine = [x \in Executor |-> FALSE]
    /\ cached = [x \in Executor |-> "absent"]
    /\ late = [x \in Executor |-> FALSE]
    /\ pool = [x \in Executor |-> {}]
    /\ plan = [x \in Executor |-> NoRanks]
    /\ basis = [x \in Executor |-> {}]
    /\ edition = [x \in Executor |-> 0]
    /\ given = [x \in Executor |-> 0]
    /\ crashes = 0
    /\ raced = {}

Goto(x, l) == pc' = [pc EXCEPT ![x] = l]

\* What process was about to write is gone when it returns or raises.
Forget(x) ==
    /\ late' = [late EXCEPT ![x] = FALSE]
    /\ pool' = [pool EXCEPT ![x] = {}]
    /\ plan' = [plan EXCEPT ![x] = NoRanks]
    /\ basis' = [basis EXCEPT ![x] = {}]

\* An executor is done: nothing it loaded outlives its session.
Leave(x) ==
    /\ Goto(x, "idle")
    /\ on' = [on EXCEPT ![x] = 0]
    /\ mine' = [mine EXCEPT ![x] = FALSE]
    /\ cached' = [cached EXCEPT ![x] = "absent"]
    /\ Forget(x)
    /\ edition' = [edition EXCEPT ![x] = 0]
    /\ given' = [given EXCEPT ![x] = 0]

(***************************************************************************)
(* Creating runs                                                           *)
(***************************************************************************)

\* enqueue_once under the run's key: an active job absorbs the request.  The
\* row it inserts is the latest, so nobody holds the latest row any more.
EnqueueRuns(S) ==
    LET fresh == {r \in S : jobStatus[r] \notin ActiveJob}
    IN  /\ jobStatus' = [r \in Run |-> IF r \in fresh THEN "queued" ELSE jobStatus[r]]
        /\ tries' = [r \in Run |-> IF r \in fresh THEN 0 ELSE tries[r]]
        /\ mine' = [x \in Executor |-> mine[x] /\ on[x] \notin fresh]

ActiveRuns == {r \in Run : state[r] \in ActiveState /\ version[r] = criteria}

\* AudienceRunService.create, its SELECT: an active run of the current criteria
\* is returned, and enqueued again by every caller.
CreateSelect(a) ==
    /\ IF ActiveRuns # {}
       THEN /\ EnqueueRuns({Max(ActiveRuns)})
            /\ Goto(a, "idle")
            /\ UNCHANGED edition
       ELSE /\ nextRun <= MaxRuns
            /\ Goto(a, "creating")
            /\ edition' = [edition EXCEPT ![a] = criteria]
            /\ UNCHANGED <<jobVars, mine>>
    /\ UNCHANGED <<runVars, resultVars, audienceVars, on, cached, late, pool, plan, basis, given, crashes, raced>>

\* The refill route, the territory scheduler and the creation of an audience.
Refill(a) == pc[a] = "idle" /\ CreateSelect(a)

\* The INSERT.  The routes and the scheduler commit run and job together;
\* POST /audiences/{id}/runs commits the run first and enqueues it then.
CreateInsert(a) ==
    /\ pc[a] = "creating"
    /\ IF nextRun > MaxRuns
       THEN Goto(a, "idle") /\ UNCHANGED <<runVars, jobVars, mine, on>>
       ELSE /\ state' = [state EXCEPT ![nextRun] = "queued"]
            /\ version' = [version EXCEPT ![nextRun] = edition[a]]
            /\ nextRun' = nextRun + 1
            /\ \/ /\ EnqueueRuns({nextRun})
                  /\ Goto(a, "idle")
                  /\ UNCHANGED on
               \/ /\ Goto(a, "enqueueing")
                  /\ on' = [on EXCEPT ![a] = nextRun]
                  /\ UNCHANGED <<jobVars, mine>>
            /\ UNCHANGED <<overdue, coverage>>
    /\ UNCHANGED <<resultVars, audienceVars, cached, late, pool, plan, basis, edition, given, crashes, raced>>

EnqueueCreated(a) ==
    /\ pc[a] = "enqueueing"
    /\ EnqueueRuns({on[a]})
    /\ Goto(a, "idle")
    /\ on' = [on EXCEPT ![a] = 0]
    /\ UNCHANGED <<runVars, resultVars, audienceVars, cached, late, pool, plan, basis, edition, given, crashes, raced>>

\* enqueue_waiting_audience_runs, once a minute in a worker's loop.
ScheduleWaiting ==
    /\ EnqueueRuns({r \in Run : state[r] = "waiting_validation"})
    /\ UNCHANGED <<runVars, resultVars, audienceVars, pc, on, cached, late, pool, plan, basis,
                   edition, given, crashes, raced>>

(***************************************************************************)
(* AudienceRunService.process, run by a worker or by a polling request     *)
(***************************************************************************)

\* (mutant) The check that the run has not been delivered yet, left out.
MutProcessStart(x) ==
    /\ pc[x] = "starting"
    /\ state' = [state EXCEPT ![on[x]] = IF cached[x] = "matching" THEN @ ELSE "matching"]
    /\ cached' = [cached EXCEPT ![x] = "matching"]
    /\ late' = [late EXCEPT ![x] = overdue[on[x]]]
    /\ Goto(x, "matching")
    /\ UNCHANGED <<version, overdue, coverage, nextRun, resultVars, jobVars, audienceVars,
                   on, mine, pool, plan, basis, edition, given, crashes, raced>>

\* A poll has loaded the audience before, a worker loads it now.
CriteriaSeen(x) == IF x \in Api THEN edition[x] ELSE criteria

\* (mutant) A run that is MATCHING is left to whoever has it.
MutProcessStartBusy(x) ==
    /\ pc[x] = "starting"
    /\ IF cached[x] \in DeliveredState \cup {"matching"}
       THEN Goto(x, "finishing") /\ UNCHANGED <<state, cached, late>>
       ELSE /\ state' = [state EXCEPT ![on[x]] = "matching"]
            /\ cached' = [cached EXCEPT ![x] = "matching"]
            /\ late' = [late EXCEPT ![x] = overdue[on[x]]]
            /\ Goto(x, "matching")
    /\ UNCHANGED <<version, overdue, coverage, nextRun, resultVars, jobVars, audienceVars,
                   on, mine, pool, plan, basis, edition, given, crashes, raced>>

\* Up to its first COMMIT.  A delivered run is returned as it is, one of older
\* criteria fails; both by what the session has loaded.
ProcessStart(x) ==
    LET r == on[x] IN
    /\ pc[x] = "starting"
    /\ IF cached[x] \in DeliveredState
       THEN Goto(x, "finishing") /\ UNCHANGED <<state, cached, late>>
       ELSE IF version[r] # CriteriaSeen(x)
       THEN /\ state' = [state EXCEPT ![r] = IF cached[x] = "failed" THEN @ ELSE "failed"]
            /\ Goto(x, "finishing")
            /\ UNCHANGED <<cached, late>>
       ELSE /\ state' = [state EXCEPT ![r] = IF cached[x] = "matching" THEN @ ELSE "matching"]
            /\ cached' = [cached EXCEPT ![x] = "matching"]
            /\ late' = [late EXCEPT ![x] = overdue[r]]
            /\ Goto(x, "matching")
    /\ UNCHANGED <<version, overdue, coverage, nextRun, resultVars, jobVars, audienceVars,
                   on, mine, pool, plan, basis, edition, given, crashes, raced>>

\* (mutant) Only what was dismissed in the latest run counts.
MutRejected == {b \in Business : \E r \in Run : r = Latest /\ rank[r][b] > 0 /\ review[r][b] = "not_fit"}

Rejected == {b \in Business : \E r \in Run : rank[r][b] > 0 /\ review[r][b] = "not_fit"}

DeliveredBefore(r) == {b \in Business : \E q \in Run \ {r} : rank[q][b] > 0}

\* The SELECT of candidates in match.
ProcessMatch(x) ==
    /\ pc[x] = "matching"
    /\ \E P \in Pools(found) : pool' = [pool EXCEPT ![x] = P]
    /\ Goto(x, "scoring")
    /\ UNCHANGED <<runVars, resultVars, jobVars, audienceVars, on, mine, cached, late,
                   plan, basis, edition, given, crashes, raced>>

\* The ranks a run may give to a window: a full batch if enough of it is left when
\* the rejected are taken out, those no other run has delivered first, each
\* group in the order of the score.
Plans(r, window) ==
    LET eligible == window \ Rejected
        old == DeliveredBefore(r)
        before(b, c) == \/ b \notin old /\ c \in old
                        \/ (b \in old <=> c \in old) /\ ScoredBefore[found[b]][found[c]]
    IN  {p \in [Business -> 0..Batch] :
            LET S == {b \in Business : p[b] > 0}
            IN  /\ S \in Best(Batch, eligible, before)
                /\ {p[b] : b \in S} = 1..Cardinality(S)
                /\ \A b, c \in S : before(b, c) => p[b] < p[c]}

\* The facts of the pool, the rejected, the delivered and the run's own results.
ProcessRead(x) ==
    /\ pc[x] = "scoring"
    /\ \E W \in Windows(pool[x], found) :
          \E p \in Plans(on[x], W) : plan' = [plan EXCEPT ![x] = p]
    /\ pool' = [pool EXCEPT ![x] = {}]
    /\ basis' = [basis EXCEPT ![x] = Rows(on[x])]
    /\ Goto(x, "writing")
    /\ UNCHANGED <<runVars, resultVars, jobVars, audienceVars, on, mine, cached, late,
                   edition, given, crashes, raced>>

\* Another executor of the run has deleted a result this one updates, or inserted
\* one whose business or rank this one inserts (uq_audience_results_run_*).
WriteRaises(x) ==
    LET rows == Rows(on[x]) IN
    \/ basis[x] \ rows # {}
    \/ \E b \in rows \ basis[x] :
          plan[x][b] > 0 \/ \E c \in Business : plan[x][c] = rank[on[x]][b]

Completed(c) == IF c \in {"none", "failed"} THEN c ELSE "completed"

\* (mutant) Results that were not selected keep their temporary rank.
MutWrittenRanks(x) ==
    [b \in Business |-> IF plan[x][b] > 0 THEN plan[x][b]
                        ELSE IF b \in basis[x] THEN -1
                        ELSE rank[on[x]][b]]

WrittenRanks(x) ==
    [b \in Business |-> IF plan[x][b] > 0 THEN plan[x][b]
                        ELSE IF b \in basis[x] THEN 0
                        ELSE rank[on[x]][b]]

\* (mutant) The results that are about to be deleted count towards the batch.
MutOutcome(x, requested) ==
    IF Cardinality(basis[x] \cup {b \in Business : plan[x][b] > 0}) >= Batch
    THEN [state |-> "ready", coverage |-> Completed(coverage[on[x]])]
    ELSE IF late[x]
    THEN [state |-> "partial", coverage |-> Completed(coverage[on[x]])]
    ELSE [state |-> "waiting_validation", coverage |-> requested]

\* (mutant) A run waits only for coverage that is still queued.
MutOutcomeQueued(x, requested) ==
    IF Cardinality({b \in Business : plan[x][b] > 0}) >= Batch
    THEN [state |-> "ready", coverage |-> Completed(coverage[on[x]])]
    ELSE IF late[x]
    THEN [state |-> "partial", coverage |-> Completed(coverage[on[x]])]
    ELSE [state |-> IF requested = "queued" THEN "waiting_validation" ELSE "partial",
          coverage |-> requested]

\* (mutant) A run waits for its coverage past its deadline.
MutOutcomeWaiting(x, requested) ==
    IF Cardinality({b \in Business : plan[x][b] > 0}) >= Batch
    THEN [state |-> "ready", coverage |-> Completed(coverage[on[x]])]
    ELSE [state |-> IF requested \in {"queued", "processing"}
                    THEN "waiting_validation" ELSE "partial",
          coverage |-> requested]

\* The state and the coverage status a run is left with; `requested` is its
\* coverage after _request_coverage.
Outcome(x, requested) ==
    IF Cardinality({b \in Business : plan[x][b] > 0}) >= Batch
    THEN [state |-> "ready", coverage |-> Completed(coverage[on[x]])]
    ELSE IF late[x]
    THEN [state |-> "partial", coverage |-> Completed(coverage[on[x]])]
    ELSE [state |-> IF requested \in {"queued", "processing"}
                    THEN "waiting_validation" ELSE "partial",
          coverage |-> requested]

\* The writes and their COMMIT.  The audience's niche is active, as the program leaves
\* every niche: short of its batch and its deadline the run requests its coverage.  Results that were not selected are deleted, and
\* with them what the user said of them.
ProcessWrite(x) ==
    LET r == on[x]
        requested == IF coverage[r] = "none" THEN "queued" ELSE coverage[r]
        end == Outcome(x, requested)
    IN
    /\ pc[x] = "writing"
    /\ IF WriteRaises(x)
       THEN Goto(x, "raised") /\ UNCHANGED <<state, coverage, rank, review, cached>>
       ELSE /\ rank' = [rank EXCEPT ![r] = WrittenRanks(x)]
            /\ review' = [review EXCEPT ![r] =
                  [b \in Business |-> IF rank'[r][b] > 0 /\ rank[r][b] > 0 THEN @[b]
                                      ELSE "unreviewed"]]
            /\ state' = [state EXCEPT ![r] = end.state]
            /\ coverage' = [coverage EXCEPT ![r] = end.coverage]
            /\ cached' = [cached EXCEPT ![x] = end.state]
            /\ Goto(x, IF end.state = "waiting_validation" /\ end.coverage = "queued"
                       THEN "expanding" ELSE "finishing")
    /\ Forget(x)
    /\ UNCHANGED <<version, overdue, nextRun, jobVars, audienceVars, on, mine,
                   edition, given, crashes, raced>>

\* Any statement of process may raise, and of the expansion a worker makes after it:
\* what was not committed is rolled back.
ProcessRaise(x) ==
    /\ CanRaise
    /\ \/ pc[x] \in {"starting", "matching", "scoring", "writing"}
       \/ pc[x] = "expanding" /\ x \in Worker
    /\ Goto(x, "raised")
    /\ Forget(x)
    /\ UNCHANGED <<runVars, resultVars, jobVars, audienceVars, on, mine, cached, edition,
                   given, crashes, raced>>

(***************************************************************************)
(* The worker around it                                                    *)
(***************************************************************************)

\* bound: attempts past the limit are not told apart.
OneMore(n) == IF n > MaxAttempts THEN n ELSE n + 1

\* claim_next and the load of the run.
ClaimRun(w, r) ==
    /\ pc[w] = "idle"
    /\ jobStatus[r] = "queued"
    /\ jobStatus' = [jobStatus EXCEPT ![r] = "running"]
    /\ tries' = [tries EXCEPT ![r] = OneMore(@)]
    /\ on' = [on EXCEPT ![w] = r]
    /\ mine' = [mine EXCEPT ![w] = TRUE]
    /\ cached' = [cached EXCEPT ![w] = state[r]]
    /\ Goto(w, "starting")
    /\ UNCHANGED <<runVars, resultVars, audienceVars, late, pool, plan, basis, edition, given, crashes, raced>>

\* enqueue_profile_source_expansion and what the worker makes of its answer: a
\* queued request is being processed or has failed, and a run none of whose
\* requests was queued ends PARTIAL.
Expand(w) ==
    LET r == on[w] IN
    /\ pc[w] = "expanding"
    /\ \E covered \in Expandable :
          /\ coverage' = [coverage EXCEPT ![r] =
                IF @ # "queued" THEN @ ELSE IF covered THEN "processing" ELSE "failed"]
          /\ state' = [state EXCEPT ![r] = IF coverage'[r] = "processing" /\ coverage[r] = "queued"
                                           THEN @ ELSE "partial"]
    /\ Goto(w, "finishing")
    /\ UNCHANGED <<version, overdue, nextRun, resultVars, jobVars, audienceVars, localVars, crashes, raced>>

CompleteRun(w) ==
    /\ pc[w] = "finishing"
    /\ jobStatus' = [jobStatus EXCEPT ![on[w]] = IF mine[w] THEN "completed" ELSE @]
    /\ Leave(w)
    /\ UNCHANGED <<runVars, resultVars, tries, audienceVars, crashes, raced>>

\* queue.fail: a job that is not RUNNING any more raises and ends the process.
FailJob(w) ==
    LET r == on[w] IN
    /\ pc[w] = "raised"
    /\ IF mine[w] /\ jobStatus[r] = "running"
       THEN IF tries[r] < MaxAttempts
            THEN jobStatus' = [jobStatus EXCEPT ![r] = "queued"] /\ Leave(w)
            ELSE /\ jobStatus' = [jobStatus EXCEPT ![r] = "dead_letter"]
                 /\ Goto(w, "burying")
                 /\ UNCHANGED <<on, mine, cached, late, pool, plan, basis, edition, given>>
       ELSE Leave(w) /\ UNCHANGED jobStatus
    /\ UNCHANGED <<runVars, resultVars, tries, audienceVars, crashes, raced>>

\* _fail_audience_run, in a transaction of its own and whatever the run's state.
FailRun(w) ==
    /\ pc[w] = "burying"
    /\ state' = [state EXCEPT ![on[w]] = "failed"]
    /\ Leave(w)
    /\ UNCHANGED <<version, overdue, coverage, nextRun, resultVars, jobVars, audienceVars, crashes, raced>>

(***************************************************************************)
(* The request that polls the current batch                                *)
(***************************************************************************)

InitialRun(r) == \A q \in Run \ {r} : state[q] \notin DeliveredState

\* When the poll takes the latest run over from the queue.
TakesOver(r) ==
    /\ InitialRun(r)
    /\ \/ jobStatus[r] = "queued" /\ state[r] # "waiting_validation"
       \/ jobStatus[r] = "completed" /\ state[r] \in {"queued", "matching"}
       \/ jobStatus[r] = "running" /\ overdue[r]

Poll(a) ==
    /\ Watched
    /\ pc[a] = "idle"
    /\ Latest \in Run
    /\ jobStatus[Latest] # "none"
    /\ \/ TakesOver(Latest) /\ Goto(a, "locking")
       \/ /\ ~TakesOver(Latest)
          /\ jobStatus[Latest] = "running" /\ overdue[Latest]
          /\ Goto(a, "stalled")
    /\ on' = [on EXCEPT ![a] = Latest]
    /\ mine' = [mine EXCEPT ![a] = TRUE]
    /\ cached' = [cached EXCEPT ![a] = state[Latest]]
    /\ edition' = [edition EXCEPT ![a] = criteria]
    /\ UNCHANGED <<runVars, resultVars, jobVars, audienceVars, late, pool, plan, basis, given, crashes, raced>>

\* _process_profile_run: the row is locked and re-read, and taken if it is queued,
\* completed, or already running for somebody else.
PollLock(a) ==
    LET r == on[a] IN
    /\ pc[a] = "locking"
    /\ IF mine[a] /\ jobStatus[r] \in {"queued", "running", "completed"}
       THEN /\ jobStatus' = [jobStatus EXCEPT ![r] = "running"]
            /\ given' = [given EXCEPT ![a] = tries[r]]
            /\ tries' = [tries EXCEPT ![r] = OneMore(@)]
            /\ Goto(a, "starting")
            /\ UNCHANGED <<on, mine, cached, late, pool, plan, basis, edition>>
       ELSE Leave(a) /\ UNCHANGED jobVars
    /\ UNCHANGED <<runVars, resultVars, audienceVars, crashes, raced>>

\* Its last transaction: the job is completed, or queued again for a worker to
\* expand the coverage, with the attempts it found.
PollFinish(a) ==
    LET r == on[a] IN
    /\ \/ /\ pc[a] = "finishing"
          /\ jobStatus' = [jobStatus EXCEPT ![r] = IF mine[a] THEN "completed" ELSE @]
          /\ UNCHANGED tries
       \/ /\ pc[a] = "expanding"
          /\ jobStatus' = [jobStatus EXCEPT ![r] = IF mine[a] THEN "queued" ELSE @]
          /\ tries' = [tries EXCEPT ![r] = IF mine[a] THEN given[a] ELSE @]
    /\ Leave(a)
    /\ UNCHANGED <<runVars, resultVars, audienceVars, crashes, raced>>

\* Run and job FAILED: because process raised in the request, or because the
\* deadline passed while the job was running (_fail_stalled_profile_run).
PollFail(a) ==
    /\ pc[a] \in {"raised", "stalled"}
    /\ state' = [state EXCEPT ![on[a]] =
                     IF pc[a] = "stalled" /\ cached[a] = "failed" THEN @ ELSE "failed"]
    /\ jobStatus' = [jobStatus EXCEPT ![on[a]] = IF mine[a] THEN "failed" ELSE @]
    /\ Leave(a)
    /\ UNCHANGED <<version, overdue, coverage, nextRun, resultVars, tries, audienceVars, crashes, raced>>

(***************************************************************************)
(* The user and the world                                                  *)
(***************************************************************************)

\* update_result with a review status: the verdict goes to every result of the
\* business, and a depleted batch is refilled afterwards.
Judge(a, r, b, verdict) ==
    /\ pc[a] = "idle"
    /\ rank[r][b] > 0
    /\ review[r][b] # verdict
    /\ review' = [q \in Run |-> [review[q] EXCEPT ![b] =
          IF rank[q][b] > 0 /\ (verdict = "not_fit" \/ @ = "not_fit") THEN verdict ELSE @]]
    /\ raced' = IF verdict = "not_fit" /\ \E x \in Executor : plan[x][b] > 0
                THEN raced \cup {b} ELSE raced \ {b}
    /\ Goto(a, "refilling")
    /\ UNCHANGED <<runVars, rank, jobVars, audienceVars, localVars, crashes>>

\* update_result with the shortlist flag, on this result alone.
Shortlist(a, r, b) ==
    /\ pc[a] = "idle"
    /\ rank[r][b] > 0
    /\ review' = [review EXCEPT ![r][b] = IF @ = "shortlisted" THEN "unreviewed" ELSE "shortlisted"]
    /\ Goto(a, "refilling")
    /\ UNCHANGED <<runVars, rank, jobVars, audienceVars, localVars, crashes, raced>>

DeliveredRuns == {r \in Run : state[r] \in DeliveredState}
Remaining(r) == {b \in Rows(r) : review[r][b] = "unreviewed"}

RefillThreshold == IF Batch \div 5 > 5 THEN 5 ELSE IF Batch < 10 THEN 1 ELSE Batch \div 5

\* enqueue_refill_if_depleted, for an audience refilled when depleted.
RefillIfDepleted(a) ==
    /\ pc[a] = "refilling"
    /\ IF DeliveredRuns # {} /\ Cardinality(Remaining(Max(DeliveredRuns))) <= RefillThreshold
          /\ (ActiveRuns # {} \/ nextRun <= MaxRuns)
       THEN CreateSelect(a)
       ELSE /\ Goto(a, "idle")
            /\ UNCHANGED <<runVars, resultVars, jobVars, audienceVars, localVars, crashes, raced>>

\* update of the audience's criteria, which also changes what matches.
EditCriteria ==
    /\ criteria < MaxEdits
    /\ criteria' = criteria + 1
    /\ found' \in [Business -> Finding]
    /\ UNCHANGED <<runVars, resultVars, jobVars, pc, localVars, crashes, raced>>

\* Facts are published, expire and are withdrawn.
FactsChange(b) ==
    /\ \E f \in Finding \ {found[b]} : found' = [found EXCEPT ![b] = f]
    /\ UNCHANGED <<runVars, resultVars, jobVars, criteria, pc, localVars, crashes, raced>>

DeadlinePasses(r) ==
    /\ state[r] # "absent" /\ ~overdue[r]
    /\ overdue' = [overdue EXCEPT ![r] = TRUE]
    /\ UNCHANGED <<state, version, coverage, nextRun, resultVars, jobVars, audienceVars, pc,
                   localVars, crashes, raced>>

Crash(x) ==
    /\ crashes < MaxCrashes
    /\ pc[x] # "idle"
    /\ crashes' = crashes + 1
    /\ Leave(x)
    /\ UNCHANGED <<runVars, resultVars, jobVars, audienceVars, raced>>

\* A worker that starts recovers the job of a dead executor (JobQueue has the
\* recovery of jobs that only look dead).
RecoverRun(w, r) ==
    /\ pc[w] = "idle"
    /\ jobStatus[r] = "running"
    /\ \A x \in Executor : ~(on[x] = r /\ mine[x])
    /\ IF tries[r] < MaxAttempts
       THEN jobStatus' = [jobStatus EXCEPT ![r] = "queued"] /\ UNCHANGED <<pc, on>>
       ELSE /\ jobStatus' = [jobStatus EXCEPT ![r] = "dead_letter"]
            /\ Goto(w, "burying")
            /\ on' = [on EXCEPT ![w] = r]
    /\ UNCHANGED <<runVars, resultVars, tries, audienceVars, mine, cached, late, pool, plan, basis,
                   edition, given, crashes, raced>>

Process(x) ==
    \/ ProcessStart(x)
    \/ ProcessMatch(x)
    \/ ProcessRead(x)
    \/ ProcessWrite(x)
    \/ ProcessRaise(x)

WorkerStep(w) ==
    \/ \E r \in Run : ClaimRun(w, r) \/ RecoverRun(w, r)
    \/ Process(w)
    \/ Expand(w)
    \/ CompleteRun(w)
    \/ FailJob(w)
    \/ FailRun(w)

\* What a request does once it is under way.
RequestStep(a) ==
    \/ CreateInsert(a)
    \/ EnqueueCreated(a)
    \/ RefillIfDepleted(a)
    \/ PollLock(a)
    \/ Process(a)
    \/ PollFinish(a)
    \/ PollFail(a)

RequestStart(a) ==
    \/ Refill(a)
    \/ Poll(a)
    \/ \E r \in Run, b \in Business :
          Shortlist(a, r, b) \/ \E verdict \in {"not_fit", "unreviewed"} : Judge(a, r, b, verdict)

Next ==
    \/ \E w \in Worker : WorkerStep(w)
    \/ \E a \in Api : RequestStep(a) \/ RequestStart(a)
    \/ \E x \in Executor : Crash(x)
    \/ ScheduleWaiting
    \/ EditCriteria
    \/ \E b \in Business : FactsChange(b)
    \/ \E r \in Run : DeadlinePasses(r)

Spec == Init /\ [][Next]_vars

\* Workers and requests under way go on, the scheduler ticks, deadlines pass.
Fairness ==
    /\ \A w \in Worker : WF_vars(WorkerStep(w))
    /\ \A a \in Api : WF_vars(RequestStep(a))
    /\ WF_vars(ScheduleWaiting)
    /\ \A r \in Run : WF_vars(DeadlinePasses(r))

FairSpec == Spec /\ Fairness
-----------------------------------------------------------------------------

TypeOK ==
    /\ state \in [Run -> RunState \cup {"absent"}]
    /\ version \in [Run -> 0..MaxEdits]
    /\ overdue \in [Run -> BOOLEAN]
    /\ rank \in [Run -> [Business -> 0..Batch]]
    /\ review \in [Run -> [Business -> ReviewState]]
    /\ coverage \in [Run -> {"none", "queued", "processing", "failed", "completed"}]
    /\ jobStatus \in [Run -> ActiveJob \cup {"none", "completed", "failed", "dead_letter"}]
    /\ tries \in [Run -> 0..MaxAttempts + 1]
    /\ nextRun \in 1..MaxRuns + 1
    /\ criteria \in 0..MaxEdits
    /\ found \in [Business -> Finding]
    /\ pc \in [Executor -> {"idle", "creating", "enqueueing", "refilling", "locking", "stalled",
                            "starting", "matching", "scoring", "writing", "expanding", "finishing",
                            "raised", "burying"}]
    /\ on \in [Executor -> 0..MaxRuns]
    /\ mine \in [Executor -> BOOLEAN]
    /\ cached \in [Executor -> RunState \cup {"absent"}]
    /\ late \in [Executor -> BOOLEAN]
    /\ pool \in [Executor -> SUBSET Business]
    /\ plan \in [Executor -> [Business -> 0..Batch]]
    /\ basis \in [Executor -> SUBSET Business]
    /\ edition \in [Executor -> 0..MaxEdits]
    /\ given \in [Executor -> 0..MaxAttempts + 1]
    /\ crashes \in 0..MaxCrashes
    /\ raced \subseteq Business

\* A run that is READY holds the batch that was asked for, whoever else has been
\* writing its results meanwhile (AudienceRunService.process).
ReadyIsFull == \A r \in Run : state[r] = "ready" => Cardinality(Rows(r)) >= Batch

\* Before its deadline a run ends PARTIAL only when nothing more is coming: its
\* coverage could not be expanded (process and the expansion in run_once).
PartialIsExhausted ==
    \A r \in Run : state[r] = "partial" /\ ~overdue[r] => coverage[r] = "failed"

\* What has been delivered is not withdrawn: a run that ended READY or PARTIAL
\* stays as it is, however often its job is enqueued again.
DeliveredIsFinal ==
    [][\A r \in Run : state[r] \in DeliveredState => state'[r] = state[r]]_vars

\* A business the user has dismissed is not delivered again, whichever run it was
\* dismissed in, unless a run that already had it in its plan was about to write, or
\* the verdict was deleted with its result (process, update_result).
DismissedStaysOut ==
    [][\A r \in Run, b \in Business :
          rank[r][b] = 0 /\ rank'[r][b] > 0 /\ b \notin raced =>
              \A q \in Run : review[q][b] # "not_fit"]_vars

\* Without polls no run is left QUEUED or MATCHING behind a job that has ended: from
\* its first COMMIT on a run is matched again after every crash and every raise,
\* until it ends or its job is given up.  A run that was committed without its job has
\* none, and one whose job was given up is still to be set FAILED, or never will be
\* when its worker dies first (process, run_once, _recover_interrupted_jobs).
ActiveIsServed ==
    \A r \in Run :
        state[r] \in {"queued", "matching"} => jobStatus[r] \in ActiveJob \cup {"none", "dead_letter"}

\* Every run that is created is matched, given up or failed in the end.
RunsSettle ==
    \A r \in Run : state[r] = "queued" ~> state[r] \in DeliveredState \cup {"failed"}

\* The job of a run is a key of the queue, and as long as nobody polls the executors keep
\* to what the queue promises of it.
AtWork == {"starting", "matching", "scoring", "writing", "expanding", "finishing", "raised"}
Lease == INSTANCE KeyLease WITH
            Key <- Run,
            stage <- [r \in Run |-> IF jobStatus[r] \in ActiveJob THEN jobStatus[r] ELSE "none"],
            lessees <- [r \in Run |-> {w \in Worker : on[w] = r /\ mine[w] /\ pc[w] \in AtWork}],
            exposed <- {}
ImplementsKeyLease == Lease!Spec
=============================================================================
