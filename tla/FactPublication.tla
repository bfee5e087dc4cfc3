---------------------------- MODULE FactPublication ----------------------------
(***************************************************************************)
(* The life of one signal of one business: a website is inspected, the     *)
(* observation is stored, a claim is extracted from it and the fact of the *)
(* signal is rewritten (signal_collection/service.py); the claim is        *)
(* validated and the fact published, staged or rejected                    *)
(* (signal_validation/service.py); a sweep demotes what is not supported   *)
(* any more (business_facts/maintenance.py), the scheduler queues the      *)
(* collection of what is missing or stale (signal_collection/scheduler.py) *)
(* and administrators collect and decide (admin/service.py).               *)
(*                                                                         *)
(* Sessions read a fact, compute, and write back the columns they have     *)
(* given another value than the one they loaded; no lock joins the two.    *)
(*                                                                         *)
(* The signal is an active one with a website collector that requires      *)
(* validation and that reconcile_business_facts does not resolve. An       *)
(* observation is the number of its recording, which orders observed_at.   *)
(* What the website shows an inspection is WebsiteInspection.              *)
(***************************************************************************)
EXTENDS WebsiteInspection

CONSTANTS
    NoContent,    \* not a content
    NoFact,       \* the fact does not exist
    Worker,       \* worker processes
    Decision,     \* what administrators decide on staged facts
    MaxObs,       \* bound: observations that are recorded
    MaxEvents     \* bound: requests and decisions of administrators and deaths of jobs

ASSUME BoundsAssumption ==
    /\ MaxObs \in Nat \ {0} /\ MaxEvents \in Nat
    /\ NoContent \notin Content
    /\ Decision \subseteq {"published", "rejected"}

Obs == 1..MaxObs

Quality == {"published", "staged", "rejected"}
Resolution == {"confirmed", "conflicted", "stale"}
Fact == [value : {Value[c] : c \in Telling}, obs : Obs, state : Resolution, quality : Quality]

ASSUME NoFactAssumption == NoFact \notin Fact

\* The two callers of enqueue_signal_collection group businesses in their own way: each
\* has a dedupe key.
Key == {"scheduled", "requested"}
Job == {"none", "queued", "running"}
Verdict == {"passed", "stale", "disagree", "failed"}

VARIABLES
    fact,      \* the row of business_facts
    content,   \* what each observation holds
    aged,      \* the observations that had expired when it was recorded
    claims,    \* observations a claim is recorded for
    expired,   \* observations up to this one are past their freshness
    blank,     \* the newest observation of the website lets no value be extracted
    result,    \* status of the validation result of each observation
    latest,    \* the observation the newest validation result is about, or 0
    collect,   \* the collection jobs
    validate,  \* the validation jobs
    pc,        \* where each worker is in its handler
    key,       \* the key of the job it runs
    mine,      \* the observation it collected or validates, or 0
    seen,      \* the fact as its session loaded it
    outcome,   \* what it has made of the claims it read
    sweep,     \* the fact as the sweep loaded it, and as it is to write it
    events     \* requests, decisions and deaths so far

evidence == <<content, aged, claims, expired, blank>>
results == <<result, latest>>
jobs == <<collect, validate>>
procs == <<pc, key, mine, seen, outcome>>
vars == <<fact, evidence, results, jobs, procs, sweep, events>>

NoSweep == <<NoFact, NoFact>>

Init ==
    /\ fact = NoFact
    /\ content = [o \in Obs |-> NoContent]
    /\ aged = [o \in Obs |-> 0]
    /\ claims = {}
    /\ expired = 0
    /\ blank = FALSE
    /\ result = [o \in Obs |-> "none"]
    /\ latest = 0
    /\ collect = [k \in Key |-> "none"]
    /\ validate = [k \in Key |-> "none"]
    /\ pc = [w \in Worker |-> "idle"]
    /\ key = [w \in Worker |-> "scheduled"]
    /\ mine = [w \in Worker |-> 0]
    /\ seen = [w \in Worker |-> NoFact]
    /\ outcome = [w \in Worker |-> "passed"]
    /\ sweep = NoSweep
    /\ events = 0

(***************************************************************************)
(* Rules                                                                   *)
(***************************************************************************)

\* The number of observations that have been recorded, of rolled back transactions too.
Recorded == Cardinality({o \in Obs : content[o] # NoContent})

\* The newest of a set of observations, 0 if there is none.
Newest(S) == IF S = {} THEN 0 ELSE CHOOSE o \in S : \A p \in S : p <= o

ValueOf(o) == Value[content[o]]

\* A claim other than that of o, current when o was observed, has another value. The
\* claims of the signal have the confidence of its definition, which is high.
Disputed(o, known) == \E c \in known \ {o} : c > aged[o] /\ ValueOf(c) # ValueOf(o)

\* enforce_fact_publication_invariants keeps a published fact that is eligible and whose
\* own observation has passed the latest validation.
Supported(f) == f.state = "confirmed" /\ f.obs > expired /\ latest = f.obs /\ result[f.obs] = "passed"

\* assess_fact_usability.
Useful(f) == f.quality # "rejected" /\ Supported(f)

\* fact_requires_collection.
Due(f) ==
    \/ f = NoFact
    \/ /\ f # NoFact
       /\ \/ f.quality = "staged"
          \/ f.state # "confirmed"
          \/ f.obs <= expired

\* What an UPDATE of the columns in which new differs from the loaded row makes of the
\* row, which another transaction may have written meanwhile.
Written(row, loaded, new) ==
    [c \in DOMAIN row |-> IF new[c] # loaded[c] THEN new[c] ELSE row[c]]

\* enqueue_once returns the active job of the key, if there is one.
Enqueued(queue, k) == [queue EXCEPT ![k] = IF @ = "none" THEN "queued" ELSE @]

(***************************************************************************)
(* Collection                                                              *)
(***************************************************************************)

Rest(w) ==
    /\ pc' = [pc EXCEPT ![w] = "idle"]
    /\ mine' = [mine EXCEPT ![w] = 0]
    /\ seen' = [seen EXCEPT ![w] = NoFact]
    /\ outcome' = [outcome EXCEPT ![w] = "passed"]
    /\ key' = [key EXCEPT ![w] = "scheduled"]

\* A session that resolves the claim of o reads the claims and the fact.
Load(w, o) ==
    /\ mine' = [mine EXCEPT ![w] = o]
    /\ seen' = [seen EXCEPT ![w] = fact]

\* A worker claims a collection. A recent observation that a value can be extracted
\* from is used again; otherwise the session commits and the website is inspected.
Collect(w, k) ==
    LET recent == Newest({o \in claims : o > expired})
    IN
    /\ pc[w] = "idle" /\ collect[k] = "queued"
    /\ collect' = [collect EXCEPT ![k] = "running"]
    /\ key' = [key EXCEPT ![w] = k]
    /\ IF recent # 0 /\ ~blank
       THEN /\ pc' = [pc EXCEPT ![w] = "resolve"]
            /\ Load(w, recent)
            /\ outcome' = [outcome EXCEPT ![w] = IF Disputed(recent, claims) THEN "disagree" ELSE "passed"]
       ELSE /\ pc' = [pc EXCEPT ![w] = "inspect"]
            /\ UNCHANGED <<mine, seen, outcome>>
    /\ UNCHANGED <<fact, evidence, results, validate, sweep, events>>

\* The website answers with something no value can be extracted from, or not at all:
\* there is no claim, and nothing to validate. What was found is recorded, unless it has
\* been found before.
InspectInVain(w) ==
    /\ Telling # Content
    /\ pc[w] = "inspect"
    /\ blank' \in {blank, TRUE}
    /\ collect' = [collect EXCEPT ![key[w]] = "none"]
    /\ Rest(w)
    /\ UNCHANGED <<fact, content, aged, claims, expired, results, validate, sweep, events>>

\* The website shows what it has shown before: _record_source_observation returns the
\* observation of then, and FactClaimRepository its claim.
InspectUnchanged(w) ==
    \E o \in claims :
        /\ pc[w] = "inspect"
        /\ o = Newest({p \in claims : content[p] = content[o]})
        /\ pc' = [pc EXCEPT ![w] = "resolve"]
        /\ Load(w, o)
        /\ outcome' = [outcome EXCEPT ![w] = IF Disputed(o, claims) THEN "disagree" ELSE "passed"]
        /\ UNCHANGED <<fact, evidence, results, jobs, key, sweep, events>>

\* It shows something new: an observation is recorded, with a claim.
InspectChanged(w) ==
    \E c \in Telling :
        LET o == Recorded + 1
        IN
        /\ pc[w] = "inspect"
        /\ o <= MaxObs
        /\ \A p \in claims : content[p] # c
        /\ content' = [content EXCEPT ![o] = c]
        /\ aged' = [aged EXCEPT ![o] = expired]
        /\ pc' = [pc EXCEPT ![w] = "resolve"]
        /\ Load(w, o)
        /\ outcome' = [outcome EXCEPT ![w] =
                          IF \E p \in claims : p > expired /\ ValueOf(p) # Value[c]
                          THEN "disagree" ELSE "passed"]
        /\ UNCHANGED <<fact, claims, expired, blank, results, jobs, key, sweep, events>>

\* FactQualityPolicyService.evaluate.
Evaluated(f) == [f EXCEPT !.quality = IF Useful(f) THEN "published" ELSE "staged"]

\* What the session would make of the fact it loaded: upsert refuses an observation that
\* is older than the fact's.
Resolved(w) ==
    IF seen[w] # NoFact /\ seen[w].obs > mine[w] THEN seen[w]
    ELSE [value |-> ValueOf(mine[w]), obs |-> mine[w], quality |-> "staged",
          state |-> IF outcome[w] = "disagree" THEN "conflicted" ELSE "confirmed"]

\* _resolve and the commit. upsert flushes the fact as staged before evaluate decides.
Resolve(w) ==
    LET new == Resolved(w)
        upserted == IF seen[w] = NoFact THEN new ELSE Written(fact, seen[w], new)
    IN
    /\ pc[w] = "resolve"
    /\ seen[w] # NoFact \/ fact = NoFact
    /\ fact' = Written(upserted, new, Evaluated(new))
    /\ claims' = claims \cup {mine[w]}
    /\ blank' = (blank /\ mine[w] \in claims)
    /\ pc' = [pc EXCEPT ![w] = "collected"]
    /\ mine' = [mine EXCEPT ![w] = 0]
    /\ seen' = [seen EXCEPT ![w] = NoFact]
    /\ outcome' = [outcome EXCEPT ![w] = "passed"]
    /\ UNCHANGED <<content, aged, expired, results, jobs, key, sweep, events>>

\* Another session has inserted the fact meanwhile: the insertion violates the constraint,
\* the transaction is rolled back and the job tried again.
ResolveRefused(w) ==
    /\ pc[w] = "resolve"
    /\ seen[w] = NoFact /\ fact # NoFact
    /\ collect' = [collect EXCEPT ![key[w]] = "queued"]
    /\ Rest(w)
    /\ UNCHANGED <<fact, evidence, results, validate, sweep, events>>

\* (mutant) What the newest result is about is not validated again.
MutCollected(w) ==
    /\ pc[w] = "collected"
    /\ validate' = IF latest = fact.obs THEN validate ELSE Enqueued(validate, key[w])
    /\ collect' = [collect EXCEPT ![key[w]] = "none"]
    /\ Rest(w)
    /\ UNCHANGED <<fact, evidence, results, sweep, events>>

\* The worker enqueues the validation of what it collected, and completes its job.
Collected(w) ==
    /\ pc[w] = "collected"
    /\ validate' = Enqueued(validate, key[w])
    /\ collect' = [collect EXCEPT ![key[w]] = "none"]
    /\ Rest(w)
    /\ UNCHANGED <<fact, evidence, results, sweep, events>>

(***************************************************************************)
(* Validation                                                              *)
(***************************************************************************)

\* _decision: failures come before reasons to review.
Decided(f, o) ==
    CASE ~(content[o] \in Sound /\ f.value = ValueOf(o) /\ f.obs = o) -> "failed"
      [] o <= expired -> "stale"
      [] f.state = "conflicted" \/ Disputed(o, claims) -> "disagree"
      [] OTHER -> "passed"

\* (mutant) The newest observation is validated, whether it has a claim or not.
MutValidate(w, k) ==
    /\ pc[w] = "idle" /\ validate[k] = "queued"
    /\ fact # NoFact
    /\ validate' = [validate EXCEPT ![k] = "running"]
    /\ key' = [key EXCEPT ![w] = k]
    /\ pc' = [pc EXCEPT ![w] = "record"]
    /\ Load(w, Recorded)
    /\ outcome' = [outcome EXCEPT ![w] = Decided(fact, Recorded)]
    /\ UNCHANGED <<fact, evidence, results, collect, sweep, events>>

\* A worker claims a validation: it loads the fact and the newest claim and decides.
Validate(w, k) ==
    LET o == Newest(claims)
    IN
    /\ pc[w] = "idle" /\ validate[k] = "queued"
    /\ fact # NoFact
    /\ validate' = [validate EXCEPT ![k] = "running"]
    /\ key' = [key EXCEPT ![w] = k]
    /\ pc' = [pc EXCEPT ![w] = "record"]
    /\ Load(w, o)
    /\ outcome' = [outcome EXCEPT ![w] = Decided(fact, o)]
    /\ UNCHANGED <<fact, evidence, results, collect, sweep, events>>

\* What the decision makes of the fact that was loaded.
Judged(f, d) ==
    [f EXCEPT !.quality = CASE d = "passed" -> "published" [] d = "failed" -> "rejected" [] OTHER -> "staged",
              !.state = CASE d = "passed" -> "confirmed"
                          [] d = "stale" -> "stale"
                          [] d = "disagree" -> "conflicted"
                          [] OTHER -> f.state]

\* The fact and the result are written and committed. An observation has one result:
\* ValidationRepository.record returns it if it is there.
Record(w) ==
    LET o == mine[w]
    IN
    /\ pc[w] = "record"
    /\ fact' = Written(fact, seen[w], Judged(seen[w], outcome[w]))
    /\ IF result[o] = "none"
       THEN /\ result' = [result EXCEPT ![o] = outcome[w]]
            /\ latest' = o
       ELSE UNCHANGED results
    /\ validate' = [validate EXCEPT ![key[w]] = "none"]
    /\ Rest(w)
    /\ UNCHANGED <<evidence, collect, sweep, events>>

\* A job dies at any point: what its transaction wrote is rolled back, and it is tried
\* again or given up; or it dies with its process and its row stays RUNNING.
Die(w) ==
    \E job \in Job :
        /\ events < MaxEvents
        /\ pc[w] # "idle"
        /\ IF pc[w] = "record"
           THEN validate' = [validate EXCEPT ![key[w]] = job] /\ UNCHANGED collect
           ELSE collect' = [collect EXCEPT ![key[w]] = job] /\ UNCHANGED validate
        /\ Rest(w)
        /\ events' = events + 1
        /\ UNCHANGED <<fact, evidence, results, sweep>>

\* The rows of a key that say RUNNING though nobody runs them.
CollectionStranded(k) ==
    /\ collect[k] = "running"
    /\ \A w \in Worker : key[w] = k => pc[w] \notin {"inspect", "resolve", "collected"}
ValidationStranded(k) ==
    /\ validate[k] = "running"
    /\ \A w \in Worker : key[w] = k => pc[w] # "record"

\* _recover_interrupted_jobs, as a worker process starts: they are tried again or given up.
Recover(k) ==
    \E job \in {"queued", "none"} :
        /\ \/ /\ CollectionStranded(k)
              /\ collect' = [collect EXCEPT ![k] = job]
              /\ UNCHANGED validate
           \/ /\ ValidationStranded(k)
              /\ validate' = [validate EXCEPT ![k] = job]
              /\ UNCHANGED collect
        /\ UNCHANGED <<fact, evidence, results, procs, sweep, events>>

(***************************************************************************)
(* The scheduler and administrators                                        *)
(***************************************************************************)

\* enqueue_due_signal_collections.
Schedule ==
    /\ Due(fact)
    /\ collect["scheduled"] = "none"
    /\ collect' = Enqueued(collect, "scheduled")
    /\ UNCHANGED <<fact, evidence, results, validate, procs, sweep, events>>

\* (mutant) The sweep is content with a result that passed, of whatever observation.
MutSweepFinds ==
    /\ sweep = NoSweep
    /\ fact # NoFact
    /\ fact.quality = "published"
    /\ ~(fact.state = "confirmed" /\ fact.obs > expired /\ latest # 0 /\ result[latest] = "passed")
    /\ sweep' = <<fact, [fact EXCEPT !.quality = "staged",
                                     !.state = IF fact.obs <= expired THEN "stale" ELSE @]>>
    /\ UNCHANGED <<fact, evidence, results, jobs, procs, events>>

\* enforce_fact_publication_invariants loads a published fact that is not supported,
SweepFinds ==
    /\ sweep = NoSweep
    /\ fact # NoFact
    /\ fact.quality = "published"
    /\ ~Supported(fact)
    /\ sweep' = <<fact, [fact EXCEPT !.quality = "staged",
                                     !.state = IF fact.obs <= expired THEN "stale" ELSE @]>>
    /\ UNCHANGED <<fact, evidence, results, jobs, procs, events>>

\* and demotes it.
SweepDemotes ==
    /\ sweep # NoSweep
    /\ fact' = Written(fact, sweep[1], sweep[2])
    /\ sweep' = NoSweep
    /\ UNCHANGED <<evidence, results, jobs, procs, events>>

\* collect_signal_definition.
Request ==
    /\ events < MaxEvents
    /\ collect' = Enqueued(collect, "requested")
    /\ events' = events + 1
    /\ UNCHANGED <<fact, evidence, results, validate, procs, sweep>>

\* validate_signal_facts approves or rejects what is staged. No result is recorded.
Decide ==
    \E d \in Decision :
        /\ events < MaxEvents
        /\ fact # NoFact
        /\ fact.quality = "staged"
        /\ fact' = [fact EXCEPT !.quality = d]
        /\ events' = events + 1
        /\ UNCHANGED <<evidence, results, jobs, procs, sweep>>

\* Time passes: the oldest observation that is current is past its freshness.
Expire ==
    /\ expired < Recorded
    /\ \A w \in Worker : mine[w] # expired + 1 \/ mine[w] \in claims
    /\ expired' = expired + 1
    /\ UNCHANGED <<fact, content, aged, claims, blank, results, jobs, procs, sweep, events>>

Next ==
    \/ \E w \in Worker, k \in Key : Collect(w, k) \/ Validate(w, k)
    \/ \E k \in Key : Recover(k)
    \/ \E w \in Worker :
          \/ InspectInVain(w) \/ InspectUnchanged(w) \/ InspectChanged(w)
          \/ Resolve(w) \/ ResolveRefused(w) \/ Collected(w) \/ Record(w) \/ Die(w)
    \/ Schedule \/ SweepFinds \/ SweepDemotes \/ Request \/ Decide \/ Expire

Spec == Init /\ [][Next]_vars

\* The sweep ticks, and writes what it has loaded.
FairSpec == Spec /\ WF_vars(SweepFinds) /\ WF_vars(SweepDemotes)

\* A handler that runs ends: an inspection has its timeouts. The queue serves its oldest
\* job first, so a queued one has its turn. The scheduler ticks, and takes every fact that
\* is due as long as no more are due than its limit: this is assumed where it makes a
\* counterexample stronger, never where something is to hold.
Fairness ==
    /\ \A w \in Worker :
          /\ WF_vars(InspectInVain(w) \/ InspectUnchanged(w) \/ InspectChanged(w))
          /\ WF_vars(Resolve(w) \/ ResolveRefused(w))
          /\ WF_vars(Collected(w))
          /\ WF_vars(Record(w))
    /\ \A k \in Key :
          /\ SF_vars(\E w \in Worker : Collect(w, k))
          /\ SF_vars(\E w \in Worker : Validate(w, k))
    /\ WF_vars(Schedule)

ScheduledSpec == FairSpec /\ Fairness

(***************************************************************************)
(* Properties                                                              *)
(***************************************************************************)

\* The types of the variables.
TypeOK ==
    /\ fact \in Fact \cup {NoFact}
    /\ content \in [Obs -> Content \cup {NoContent}]
    /\ aged \in [Obs -> 0..MaxObs]
    /\ claims \in SUBSET {o \in Obs : content[o] # NoContent}
    /\ expired \in 0..Recorded
    /\ blank \in BOOLEAN
    /\ result \in [Obs -> Verdict \cup {"none"}]
    /\ latest \in {0} \cup {o \in claims : result[o] # "none"}
    /\ collect \in [Key -> Job] /\ validate \in [Key -> Job]
    /\ pc \in [Worker -> {"idle", "inspect", "resolve", "collected", "record"}]
    /\ key \in [Worker -> Key]
    /\ mine \in [Worker -> 0..Recorded]
    /\ seen \in [Worker -> Fact \cup {NoFact}]
    /\ outcome \in [Worker -> Verdict]
    /\ sweep = NoSweep \/ sweep \in Fact \X Fact
    /\ events \in 0..MaxEvents

\* matching.py takes a published fact without a look at its validation, and a validator may
\* publish a value that another session wrote after the validator had
\* loaded the fact: the columns of both end up in the row. The sweep sees that the newest
\* result is not about the observation of the fact, and demotes it.
Unvalidated ==
    /\ fact # NoFact
    /\ fact.quality = "published"
    /\ ~(latest = fact.obs /\ result[fact.obs] = "passed")
UnvalidatedIsDemoted == Unvalidated ~> ~Unvalidated

\* The value is what a visitor of the pages that were read would say: one shows what the
\* signal is about; or none does, each was seen whole, and one is where it would be.
Place == [contact_form_present |-> "contact", primary_cta_present |-> "homepage",
          quote_or_booking_form_present |-> "quote_or_booking"]
Backed ==
    [c \in Telling |->
        LET pages == ToSet(Inspected(c))
            shown == \E page \in pages, kind \in Sought : Shows(page, kind)
        IN  IF Value[c] = "true" THEN shown
            ELSE /\ ~shown
                 /\ \A page \in pages : page.whole
                 /\ \E page \in pages : Place[Signal] \in Intents(page)]

\* What is served is the value of the observation it names, and the pages of the
\* observation bear it out: if two sessions make a row of which neither has seen the whole,
\* or evidence that fails is approved, the sweep takes it back if nothing else does.
Misattributed ==
    /\ fact # NoFact
    /\ fact.quality = "published"
    /\ ~(Backed[content[fact.obs]] /\ fact.value = ValueOf(fact.obs))
MisattributedIsDemoted == Misattributed ~> ~Misattributed

\* The fact rests on the newest claim, which is current, sound and undisputed.
Publishable ==
    /\ fact # NoFact
    /\ fact.quality = "staged" /\ fact.state = "confirmed"
    /\ Decided(fact, Newest(claims)) = "passed"

\* Its validation is queued, under way, or about to be enqueued.
Owed ==
    \/ \E k \in Key : validate[k] = "queued"
    \/ \E w \in Worker : pc[w] \in {"collected", "record"}

\* A step that leaves such a fact staged and nobody to validate it is one of these: a
\* validator that had loaded another fact has written, and the validation that was asked
\* for meanwhile was absorbed by its own; a worker has died; a row that says RUNNING
\* has absorbed the validation, though nobody runs it; or the sweep has demoted the fact.
\* Only the scheduler comes back to what they leave.
PublishableIsOwed ==
    [][(Publishable /\ ~Owed)' =>
          \/ Publishable /\ ~Owed
          \/ \E w \in Worker : pc[w] = "record" /\ pc'[w] = "idle" /\ seen[w] # fact
          \/ \E w \in Worker :
                pc[w] \in {"collected", "record"} /\ pc'[w] = "idle" /\ events' # events
          \/ \E k \in Key : ValidationStranded(k)
          \/ sweep # NoSweep /\ sweep' = NoSweep]_vars

\* enqueue_due_signal_collections queues "a bounded standing refresh of missing or stale
\* website evidence": a fact whose evidence has expired comes to rest on evidence that has
\* not.
Fresh == fact # NoFact /\ fact.obs > expired
StaleIsRefreshed == fact # NoFact /\ ~Fresh ~> Fresh
=============================================================================
