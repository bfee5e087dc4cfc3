# ScoutLead: formal models

ScoutLead is a FastAPI service on Postgres (SQLAlchemy, READ COMMITTED) with one
or more worker processes that take jobs from a table of the same database. These
modules model what those processes do to the rows they share, check it with TLC
on small instances, and prove the central results with TLAPS for every instance.

Contents: [inventory](#inventory), [modules](#modules),
[the session](#what-every-module-builds-in),
[job queue](#the-job-queue), [audience runs](#the-runs-of-an-audience),
[messages](#outreach-messages), [searches](#searches),
[segment refreshes](#segment-refreshes), [items](#source-items-and-identity),
[facts](#facts), [packages](#outreach-packages),
[runs](#the-runs), [fairness](#fairness),
[proofs](#what-is-proved), [disagreements](#where-the-code-and-its-words-disagree),
[not modelled](#not-modelled), [plan](#plan).

## Inventory

| Part | State | Operations | What is hard | What makes it correct |
|---|---|---|---|---|
| Job queue (`agent/job_queue`, cancel and retry in `agent/admin`) | `queue_jobs`: status, attempts, run_after, locked_at, idempotency key | enqueue, enqueue_once, claim_next, complete, fail, recover_stale_running; cancel and retry of data jobs | workers die, overrun and race; only claim_next locks what it reads | one executor per row; one active row per key; bounded attempts; final is final; queued work settles |
| Audience runs (`agent/audience_runs`, the routes of `agent/territories`) | `audience_runs` and their results with the user's verdicts; coverage requests; deadline | create, process, expansion, scheduler, poll and takeover, review, refill, failure | created by requests, matched by workers *and* by polling requests, failed by either; matching is two transactions around long reads | a READY run is full; PARTIAL only when nothing more is coming; what is delivered stays; every run ends |
| Searches (`agent/source_requests`, `agent/campaigns`, `agent/search_evaluations`) | campaign status, leads, the evaluation job and its businesses, evaluations under a fingerprint of the evidence | create, match, enqueue, evaluate, save, finalise, pause, resume, delete, fail | the batch is committed before the campaign's own status; failed by other jobs; evidence changes while the model answers | an expansion is ended by its own outcome; final is final; an evaluation is of the evidence it is stored under |
| Segment refreshes (`agent/business_index`, `agent/admin`) | refresh, fetch and item jobs, review_state, next_refresh_at | ask, plan, fetch, hand off, close; create, validate, discard, cancel, retry a data job | a segment has one refresh at a time whoever asks; the gate of a staged batch is a column of a job | the gate covers the batch; a source is fetched once at a time |
| Source items (`agent/source_items`, `agent/source_observations`, the stages of `pipeline.py`) | items, rulings, their stage jobs | store, stage, resolve, audit, rule, re-audit, fail | reviewer, administrator and stages write one item; absorbed enqueues; failures recorded later than the job's | nothing unreleased is processed; a rejection stands; no item is stranded |
| Canonical identity (`agent/canonical`) | businesses, their observations | search by listing, by site and phone, by name and place; upsert | the embedding call lies between search and insert | one business per listing; a conflict is reviewed |
| Facts (`agent/business_facts`, `agent/business_validation`, `agent/signal_collection`, `agent/signal_validation`) | observations, claims, the fact, validation results | collect, inspect, resolve, validate, sweep, decide | sessions write back the columns they changed of a row they loaded; a job of the same key absorbs the next | what is served is validated and its own, or is taken back; what could be served is not forgotten but in named cases; what is stale is refreshed (it is not) |
| Outreach packages (`agent/outreach_packages`, `agent/audience_runs/outreach.py`, `agent/outcomes`) | drafts and the fingerprint of their evidence, events, the result's lead and contact | generate, merge, refresh, update, mark sent, promote, hand over | a model is asked between load and store; outcome and event are two transactions | texts speak of the evidence named; edits stay; one lead; one contact |
| Messages (`agent/messages`, `agent/tools/email.py`) | message status, approvals; the lead's policy, shortlist, outcomes | draft, approve, cancel, mark replied, send, in batches or alone | the provider is outside the transaction; a batch decides on rows it loaded minutes ago; an answer can be lost | one mail per approval; no mail after a block the check could see; what was sent is recorded |
| Suppressions and unsubscribe (`agent/suppressions`, `agent/unsubscribe`) | suppression rows, `contact_policy_status` | suppress, unsuppress | read at the check, used after a provider call | see Messages |
| Territories, products, niches | definitions, `criteria_version` | create, read, update, delete, match | edits while runs are under way | see Audience runs |
| Webhooks, authentication, e-mail connections, providers, seeding, reports, wiring, web client, workspaces, definitions | rows of their own | one request, one row | none with another part | [not modelled](#not-modelled) |

How they interact: requests and jobs share nothing but the database. A request
that needs long work inserts a row of `queue_jobs`, in its own transaction or in
the one that writes the subject's row; a worker's loop (`worker.run`) schedules
what is due, claims one job at a time and runs its handler; the handler reads and
writes the subject's rows in transactions of its own and only afterwards does the
worker complete or fail the job. Two requests step outside this order: the poll
of an audience's current batch executes the run's job itself, and the sending of
messages calls a provider in the middle of its work.

## Modules

| Module | Role | Theorems |
|---|---|---|
| `JobLease` | what the queue promises about one job: the abstract specification | |
| `KeyLease` | what the queue promises about one idempotency key: the abstract specification its clients share | |
| `JobQueue` | the queue as it is: rows, SELECTs and COMMITs; implements `JobLease` and `KeyLease` | `JobQueue_proofs` |
| `AudienceMatching` | operators: which businesses the index offers an audience, and in which order | |
| `AudienceRun` | the runs of one audience, over a job per run that behaves as `JobQueue` shows; runs `AudienceMatching` | `AudienceRun_proofs` |
| `SearchRun` | searches, their evaluation batches, and who ends them | `SearchRun_proofs` |
| `IndexRefresh` | the refreshes of one segment and the administrator's data jobs | `IndexRefresh_proofs` |
| `CanonicalIdentity` | operators: how a listing finds its business in a table of businesses | |
| `SourceItems` | the items of a segment through stages, review and release; runs `CanonicalIdentity` | `SourceItems_proofs` |
| `WebsiteInspection` | operators: which pages of a website are read, what they show, and what may be said of it | `FactPublication_proofs` |
| `FactPublication` | one signal of one business: collected, resolved, validated, swept; runs `WebsiteInspection` | `FactPublication_proofs` |
| `OutreachPackage` | the package of one result, up to the contact | `OutreachPackage_proofs` |
| `MessageSend` | the life of outreach messages around the provider | `MessageSend_proofs` |
| `MC...` | the instances TLC checks: symmetry and constant functions | |

How they compose. The queue and its clients meet in `KeyLease`. `JobQueue` implements
it (`KeysAreLeased`, proved): whichever rows come and go under a key of
`enqueue_once`, the work under it waits, is leased to one worker, and is over or waits
again, until one of its rows is `suspect`. The clients name jobs by key, and each is
proved to keep to the same steps, so that none of them lets a worker do what
the queue would not: the stage jobs of `SourceItems` (`JobsAreLeased`), the batch of a
search in `SearchRun`, until it is deleted with the search (`BatchesAreLeased`), the
rows of `IndexRefresh` that share a key, until one is `snatched` (`RowsAreLeased`), and
the job of a run in `AudienceRun` if nobody polls (`RunsAreLeased`); a poll that takes a
run over beside its worker is no lease, and TLC refutes the claim with it. What the
clients leave out of the queue are the `suspect` rows.
`AudienceRun` EXTENDS `AudienceMatching` and says when an executor
searches, when it reads the facts again and when it writes the ranks; `SourceItems`
EXTENDS `CanonicalIdentity` and says when the table is read and when it is written. `FactPublication`
EXTENDS `WebsiteInspection` and says when a website is inspected, and what is stored,
published and taken back of it. `IndexRefresh` says which fetches there
are and when a batch is released; what happens to the items of one fetch is
`SourceItems`, and what becomes of the facts of a published business
`FactPublication`. `OutreachPackage` ends where a message is drafted from a
package, and `MessageSend` begins there. A `message.send` job is one more session
that calls send; its retry is another `SendCheck`.

Definitions whose names begin with `Mut` are deliberately wrong variants of a
definition of the code (a dropped guard, an off-by-one, a status that is not
reset). Nothing uses them in the specification; put in the place of the
definition each must break a property, which shows that the property can tell.

## What every module builds in

* READ COMMITTED with almost no row locks. A method that reads and later commits
  is split there: one action up to the SELECT, another from there to the COMMIT.
  `claim_next` (FOR UPDATE SKIP LOCKED) and the poll's lock are single actions.
* `expire_on_commit=False`. A session that has loaded a row sees it as it was for
  as long as it keeps the object, over its own commits, and an assignment of the
  value it was loaded with writes nothing. Hence `cached` in `AudienceRun`, `seen`
  and the view of a batch in `MessageSend`.
* The identity map is weak. A row that no variable of the request refers to any
  more is read afresh: the run a promotion locks is, the result it was called with
  is not (`known` in `OutreachPackage`).
* An assignment to one column leaves the others to whoever wrote them last: two
  sessions can make a row that neither has seen (`Written` in `FactPublication`).
* Constraints are part of the COMMIT: the partial unique index over active keys
  (`IndexAllows`), the two unique constraints of audience results (`WriteRaises`),
  those on facts (`ResolveRefused`) and packages (`Answered`).
* Slow calls (a model, a provider, an embedding, a website) lie between the read
  and the write of the handler that makes them, never inside an action.
* A process may die anywhere (`Crash`): what it had not committed is gone.

## The job queue

`JobQueue` has the columns of `queue_jobs` as functions on row ids (`status`,
`work`, `attempts`, `due` for run_after, `lockAge` for the age of locked_at), a
program counter per process and what each process holds: the row a worker
executes (`held`) and the snapshot a SELECT left it with (`seen`). Type, payload
and key of a row are one `work`; the error text is left out. `EnqueueOnceSelect`
and `EnqueueOnceInsert` are the two halves of enqueue_once, `StartAndSelectStale`
and `RecoverStale` of recover_stale_running, `FailSelect`, `FailConflict` and
`FailWrite` of fail; `ClaimNext` is claim_next with its order (priority, age);
`Complete` writes by id without looking. `CancelSelect/Write` and
`RetrySelect/Write` are the administrator's operations. `Tick` lets an hour go by
in `StaleAfter` ticks and 30 seconds in `RetryDelay`.

The history variable `suspect` collects the rows a worker overran or that a write
from an outdated read has hit. The code cannot protect those (complete and fail
write by id; the age of locked_at is the only evidence that a worker died), and
every safety property is claimed of all other rows: the properties therefore say
exactly which accidents the design excludes and which it accepts.

## The runs of an audience

`AudienceRun` has per run its state, criteria version, results (`rank`, `review`),
coverage status and job; per executor what its session has loaded and is about to
write. The actions follow the transactions of `process`: `ProcessStart` up to the
COMMIT of MATCHING, `ProcessMatch` (the SELECT of candidates), `ProcessRead` (their
facts, read again and scored; the SELECTs of rejected, delivered and own results;
the ranks, in `Plans`), `ProcessWrite` (delete, rank, insert, state, coverage:
one COMMIT that the constraints may refuse). `ClaimRun`, `Expand`, `CompleteRun`,
`FailJob`, `FailRun` are the worker around it; `Poll`, `PollLock`, `PollFinish`,
`PollFail` the request that takes a run over; `Judge`, `Shortlist` and
`RefillIfDepleted` the review routes; `EditCriteria`, `FactsChange` and
`DeadlinePasses` the world. A match and an expansion may raise (`ProcessRaise`, if
`CanRaise`), and then the job is tried again or given up.

`AudienceMatching` is `ProfileMatchService.match` over what the facts of a business
amount to: a score per signal, or `Unknown` (`found`). `Gaps` are the signals that
make a match. The SELECT orders the matches by number and weight of their gaps and
stops at `PoolSize` (`Pools`); Python orders the pool by a missing website and by
the improvement score, service by service, and stops at `WindowSize` (`Windows`).
Only then does `process` take out what was dismissed and put last what was
delivered. No property is claimed of what comes out: a window that dismissed and
delivered businesses fill is a run that comes out short or repeats, and a pool that
SQL cuts may not hold the best, in the model as in the code. The invariants of the
runs hold whatever is cut.

The history variable `raced` holds the businesses dismissed while an executor had
them in its plan. `DismissedStaysOut` excepts these, and says nothing of verdicts
that no result bears any more: `ProcessWrite` deletes a verdict with the result a
waiting run does not select again.

Abstractions: one niche, hence one coverage request per run; a result row that is
deleted and inserted again between an executor's read and its write counts as the
same row; the scheduler enqueues all waiting runs in one step; the SELECTs of one
poll are atomic; a job is recovered only when nobody executes it (that it can
also happen to a slow worker is JobQueue's subject); archiving an audience is left out.
So is an inactive niche, for which `process` would make no coverage request and turn the
run PARTIAL at once with coverage "none" (audience_runs/service.py:496-522, 748-750):
seeding sets a niche active and nothing sets it otherwise.
In the match, the further keys of both orders (distance, membership, id, the
opportunity score and its adjustment by outcomes) break ties in any way; the
audience has at least one signal; geography and the collection of required
attributes, which only enqueues collections of facts, are left out.

## Outreach messages

`MessageSend` has the status and recipient of each message, the block, shortlist
and outcomes of each lead, and sessions that draft (`DraftSelect`, the LLM call,
`DraftInsert`), approve, cancel and mark replied (`Load` to the transition check,
`Store` to the COMMIT), and send: `SendCheck` (all the checks of send), `Provider`
(mails or not, answers or not), `LoadResult` and `Store` (SENT or FAILED),
`Record` (the outcome, in a later transaction). `StartBatch` selects what a batch
will handle; from then on the batch sees the statuses it selected (`View`).
`mailed` and `approvals` count what no row records. `CapAllows` is the daily cap,
which is skipped where compliance is switched off: `message_send` has it on, the
theorems hold of both.

Abstractions: text and edits of a message; display status of lead and campaign;
one lead per contact, so suppression rows of another lead do not matter; drafts
from outreach packages or campaign templates (they insert the same row); all sends
fall on one day; the message and its lead are read in one step. After the provider has
accepted a mail nothing of `send` raises but its commit: the time it parses
(messages/service.py:390) is the one the three providers of agent/tools/email.py have just
formatted (`utcnow().isoformat()`).

## Searches

`SearchRun` has per search (a campaign) its status, its leads, its evaluation
batch and the businesses in it; the evidence of each business and the evaluation
stored under each fingerprint. `Create`, `Match`, `Enqueue`, `Finish` are the
request, one action per COMMIT, which enqueues the batch before it says
EXPANDING. `Claim`, `Evaluate` (the evidence is shown to the model), `Save` (one
answer, stored under the fingerprint of the evidence of *that* moment), `Deliver`
(the index is searched again and leads are written and rejected), `Settle` (a search
that was EXPANDING when it was loaded is selected again and its transition checked),
`Write` (it is completed) and `Complete` are the worker. A search that was paused or
failed since it was loaded cannot be completed: `Refuse`, and the batch is tried again or
given up. `Fail`, `Miss`, `Collapse`, `FailCampaign`, `Crash`, `Recover`, and
`RefreshDies` with `FailExpanding`, are what else goes wrong. `StartPause`,
`StartResume` (of a paused search or of a DRAFT), `EndEdit` and `Delete` are the user.
What a dead worker was at is `Stranded`, with its row RUNNING, until some process starts
an hour or more later (`Recover`), which nothing obliges it to.

Three history variables name what the code lets happen: `early` (a batch ended
before its search was EXPANDING: nothing will end it), `orphaned` (a process died
between giving the batch up and failing the search), `drifted` (evidence came
while the model was asked).

Abstractions: all searches have one contract; criteria are a function `Fit` of the
evidence; searching, writing leads and rejecting the rest is one step; a batch
whose search was deleted raises at every attempt, of which only the last is
modelled. Left out: consolidation of legacy evaluation jobs at worker start,
evaluations outside a batch, searches without evaluation, the inline refresh of
`business_index/refresh.py`.

## Segment refreshes

`IndexRefresh` has the jobs of one segment as rows by what they are for (refresh,
n-th fetch of a source, item), the mode and gate (`review_state`) of each refresh,
and `next_refresh_at`. `AskRefresh` is shared by scheduler, expansion and
administrator, and returns an active refresh whatever its mode. A worker plans
(`Plan`, then `Spread` with a COMMIT per fetch, or `FinishEmpty`), fetches (`Store`,
`HandOff`), runs an item, and looks whether it was the last (`Look`, `Close`). The
administrator creates (`StartCreate`, `EndCreate`), validates all or a sample
(`StartValidate`, `ValidateOne`, `EndValidate`), discards, cancels (`StartCancel`,
`EndCancel`) and retries. `hasty` and `snatched` are the batches decided on while
they were planned, and the rows a worker claimed under a cancellation.

Abstractions: a fetch returns one item or none; resolution and audit of an item
are one row; a re-run of a fetch shares it; discard and retry are one step; one
administrator's request at a time. Left out: configured searches that are
skipped, source_state and cursors, carrying over of members, fact audits.

## Source items and identity

`SourceItems` has the state of each item, whether it is staged, its business, the
latest decision, the ruling on its listing, the active job of each key, and the
table of businesses. Stages are split at their commits and at slow reads: a
resolution searches (`Search` in `CanonicalIdentity`), asks for an embedding, and
writes what it found by then, be it stale. The reviewer accepts, rejects, marks
duplicates or asks for a re-audit; the administrator releases or discards what
is staged. Failures dead-letter the job in one transaction and fail the item in
another. History: `released`, `human`, `raced`, `absorbed`, `orphaned`, `blind`
(businesses written on a stale search), `disputed` (businesses last resolved in
conflict), `vouched` (disputed ones an item of which a user accepted).

`ConflictIsReviewed` speaks of the business and not of its items on purpose: an item
a user accepted may be moved to another business by a resolve that is recovered
before the audit publishes the first one (three businesses, two copies of the disputed
listing), so no accepted item need be linked to the published business any more.

`CanonicalIdentity` are the rules of `_find_business`: the provider's own id; a
compatible business with the domain or phone; the name and place; else a new
one, in conflict if the shared attributes point elsewhere.

Abstractions: one reviewer and one administrator's request at a time, each
reading and committing in one step; attempts of a job are a choice whether it is
exhausted. Left out: quarantined observations, merging by hand, scores.

## Facts

`FactPublication` has one fact (value, observation, resolution, quality), the
observations of the website in the order of their times, the claims, the
validation results and the jobs under their two keys (the scheduler and the
administrator group businesses differently, so the same business can be collected
twice at once). `Collect`, `InspectInVain`, `InspectUnchanged`, `InspectChanged`,
`Resolve`, `ResolveRefused`, `Collected` are a collection; `Validate` and `Record` a
validation; `SweepFinds` and `SweepDemotes` the sweep; `Schedule`, `Request`, `Decide`
and `Expire` the rest. A job may die at any point (`Die`): it is tried again, given up, or
left behind RUNNING, where it absorbs what is enqueued under its key until a worker starts
(`CollectionStranded`, `ValidationStranded`, `Recover`).

That a fact which could be published is published in the end is not true of this code and
is not claimed: nothing but the scheduler comes back to one that was left staged, and the
scheduler takes 50 businesses at a time, the oldest first, among which facts that stay
stale (`fact_stale`) come again and again. `PublishableIsOwed` says instead how such a
fact can come to be left: every step after which it is `Publishable` and nobody owes it a
validation is one of the cases it names.

`WebsiteInspection` is a website as a function from addresses to answers (`Site`): a
failure, or a document with its forms, frames, links and scripts, and what a renderer
makes of it. `Inspected` is the crawl: both protocols with a second attempt, the
first that answers as homepage, its links in the order of `LinkPriority`, then
guessed paths, up to `MaxPages` pages. `Shows` is what counts as an element,
`Extracted` the value of the signal (found, not found on pages that are whole, not
known), `Evident` the checks of evidence and scope. `FactPublication` uses their
tables over the contents (`Value`, `Telling`, `Sound`); an observation is found again
if its `Payload` is the same. A page that fails to load is not among the pages: a
website whose only other page fails still counts as seen whole, and it is the page
in scope, where there has to be one, that keeps such a finding from being published.

Abstractions: one business, one active signal that needs validation; texts are the
sets of words of the code's lists they contain, up to neighbours of one meaning; a
rendered page keeps its address. Left out: contact details, languages, testimonials
and other text signals, https as a signal, the missing-website status of `pitch_scope`,
versions and status of the definition, confidence, reconcile_business_facts and
the synchronised attributes (and with them the booking form that `_quote_form_fact` would
infer, business_facts/service.py:431), the collectors that do not inspect a website, the
website that a due business must have, and the limit of a tick, for which reason the
scheduler is not fair where something is to hold.

## Outreach packages

`OutreachPackage` has the package (evidence, drafts, e-mail), the result's lead,
contact and evidence, its run's campaign, the outcomes and events, and what the
browser shows. `Generate` and `Answered` are generate around the model's call,
`Find` and `Refresh` the refresh find_for_result does, `Open` and `Save` an edit;
`Mark`, `Promote`, `Contact` and `Note` are mark_sent in its transactions, `Prepare`
and `Promote` the hand-over, `PromoteResult` and `PromoteOther` the promotions by the
audience's page; `ContactElsewhere` is a contact that is recorded in other ways, by the
outcome of a message that was sent or of the user's own; a request may `Die` anywhere;
`Rematch` brings evidence. A refreshed package keeps the e-mail it had, unless that looks
like a generated copy or the new one has no address to go to (`Upgraded`, `Template`), and
a business may have no address at all (`Rendered`). History:
`outdated` (content overwritten by who had not seen it), `relabelled` (texts kept
under other evidence), `raced` (a channel marked by overlapping requests).

Abstractions: a text is the evidence it speaks of and whether the user edited it;
the user edits drafts only; a form of the same fingerprint is accepted whatever
its other parts say, where the code may refuse it; the result stays shortlisted; a lead
is found again, since the snapshots of a result are taken to be of one name
(leads/repository.py:489-500 would not find it under another).
`outcomes` and `events` count what mark_sent records, and `ContactedOnce` is about that
alone: the outcomes of `ContactElsewhere` are not counted, and neither is a `message_sent`
posted to the events of a package (outreach_packages/service.py:413-422), which nothing in
the repository posts.
Left out: playbooks and their validation, drafts that are not generated,
classification of replies, events other than the sent one, suppression at the
hand-over, the message itself.

## The runs

| Run | Instance | Question and result |
|---|---|---|
| `job_queue` | 2 workers, 1 client, 2 works (one keyed), 2 rows, 1 crash, 1 retry | `SingleExecution`, `ImplementsLease` hold: outside `suspect` rows the queue is a lease |
| `job_queue_live` | 2 workers, 2 clients racing for a key, no crash | `ActiveKeyUnique` holds and every queued row settles (`QueuedJobsSettle`) |
| `job_queue_interrupted` | 1 worker, 1 row, 1 crash | violated: an interrupted row can stay RUNNING for ever |
| `audience_run` | 2 workers, 1 user, 2 businesses whose facts change, window of 1 in a pool of 2, 2 runs, 3 attempts, 2 crashes, no poll | `PartialIsExhausted`, `DeliveredIsFinal`, `DismissedStaysOut` hold, and no active run is left behind a job that has ended (`ActiveIsServed`) |
| `audience_settle` | 1 worker, 1 polling user, 1 run, matching may raise, one edit | a READY run is full with two executors (`ReadyIsFull`), and every run ends (`RunsSettle`) |
| `search_run` | 1 search, 2 businesses, 2 states of evidence, 1 worker, 1 fault, 3 requests of the user, news of a business or failures of refreshes | `ExpandingIsServed`, `VerdictFitsEvidence`, `FinalIsFinal`, `SearchEnds` hold but for `early`, `orphaned` and `drifted`, and `SearchEnds` but for a batch that stays `Stranded` |
| `index_refresh` | 2 refreshes of 1 source, planned twice each, 2 workers, 1 fault, 3 requests | `GateCoversBatch`, `OneFetchPerSource` hold but for `hasty` and `snatched` |
| `source_items` | 2 listings in an identity conflict, 2 workers, 2 copies of one listing, 1 decision, 1 fault; with both of these 2 items at most | `ReviewGate`, `RejectionStands`, `NoItemStranded`, `OneBusinessPerListing`, `ConflictIsReviewed` hold but for the histories |
| `fact_publication` | 2 workers, a site that has its form, one whose form page fails, one that is not rendered, 3 observations, 1 request, approval or death, only the sweep fair | nothing unvalidated or misattributed is served for ever, and what is publishable is left without a validation only in the cases `PublishableIsOwed` names |
| `fact_stale` | 1 worker, a site that never changes, every job and every tick fair | violated: a stale fact is never refreshed |
| `message_send` | 2 sessions, 1 lead, 2 messages, 2 mails, 2 approvals, 1 crash, cap 1 that applies | `OneMailPerApproval`, `BlockedLeadGetsNoMail`, `SentIsRecorded` hold |
| `outreach_package` | 4 requests, 2 at once, 2 channels, 2 snapshots of the evidence | the invariants `TextFitsEvidence`, `SentIsContacted`, `ContactedOnce` and the action properties `LeadStays`, `EditsAreKept` hold but for the histories |

Why the bounds are enough. Every hazard in these modules is a race of two: two
workers on a row, a worker and a poll on a run, a batch and a single request on a
message, two generations of one package, a reviewer and a stage on an item; a
third actor repeats what the second did. Two rows are needed for priorities and
for a key that is free again after its first row has ended; two runs for a refill
beside the first; two messages for a batch that has something left to do while
another session interferes; two businesses for a batch that holds fewer than are
pending; two refreshes for one that meets the rest of another; two listings for
an identity conflict and two copies of one for a listing that is fetched again;
two contents for claims that disagree, of which one is not sound, and a third that
tells nothing; six addresses for a homepage behind either protocol, links and guesses; two businesses in a pool of two with a
window of one for a candidate that is cut off, and three findings (nothing, two
small gaps, one missing website) for two orders that disagree; three observations for
a rolled back one that leaves two to disagree; four requests for two overlapping ones
before and after a change of the evidence. Two attempts are the fewest that have
both a retry and an end, and three outlast the two crashes of `audience_run`, so that a
run is matched in the end whose executor died twice. `StaleAfter` of 2 tells "not yet
stale" from "just claimed". Elsewhere one
crash is enough, since after it the process is as it was at the start. `source_items`
has one bound that is no guard (`MCBound`): behaviours with a decision and a fault are
followed up to the third item and not beyond, since two items make up each of its cases
(a listing that is fetched again, two in conflict) and every invariant of that run is
proved as well. All other bounds
are guards and named in the comments of the CONSTANTS; none of them stops a
process that is under way, except that a session at the bound of mails or
approvals does not start another, a refresh at `MaxPlans` is not planned again,
and a website shows nothing new once `MaxObs` observations are recorded. Deadlock is not
checked, because all of these systems may come to rest at their bounds (every row
final, nothing left to enqueue).

## Fairness

* A worker goes on with its loop, its handler returns or raises because the tools
  it calls have timeouts, and a process that exits is restarted by its container
  (`WF` of `WorkerStep`). Nothing is assumed of a handler's speed.
* A request that is under way goes on (`WF` of `RequestStep`, `Continue`): the web
  server runs it to its end, and a provider call ends with an answer or a timeout.
  Nothing is assumed about requests being made.
* Time passes (`Tick`), deadlines pass, and the scheduler of the worker's loop
  ticks once a minute (`ScheduleWaiting`).
* In `fact_publication` only the sweep is fair (`SweepFinds`, `SweepDemotes`): it ticks in
  the loop of every worker and looks at every published fact. Nothing is assumed of
  handlers, claims or the scheduler: its properties are about what the sweep takes back, and
  about steps.
* `ScheduledSpec` adds that handlers end, that each queued job has its turn (`SF` of
  `Collect` and `Validate` per key: two workers may take other jobs in turn, but the queue
  serves its oldest first) and that the scheduler takes the fact when it is due. Only
  `fact_stale` uses it, which is violated: the assumption makes the counterexample stronger,
  since even so the fact stays stale.
* In `SearchRun` a worker that is at work goes on, and one that is idle claims a batch that
  is queued (`Handle`). Requests, edits and failed refreshes may stop half way.
* Crashes, edits, reviews, polls, changes of evidence and enqueueing by users are never
  fair. Nor is, in `SearchRun` and `FactPublication`, the recovery of interrupted rows
  (`Recover`): rows are recovered only when a worker process starts, and only an hour after
  they were claimed (worker.py:325), and `JobQueue` shows one that never is.

`QueuedJobsSettle` and `RunsSettle` are claimed for instances without crashes: with
one, `job_queue_interrupted` shows what happens. `SentIsRecorded` and `SearchEnds` are
checked with a crash and except what it leaves: a message whose session died, a search
whose batch stays `Stranded`. The properties of `fact_publication` allow for deaths and for
rows that stay RUNNING.

## What is proved

By TLAPS, for all workers, clients, sessions, requests, businesses, rows, runs,
searches, listings, channels, batch sizes and limits that satisfy the named
assumptions of the modules (`ConstantsAssumption`, `ActorsDisjoint`,
`AudienceAssumption`, `MatchingAssumption`, `MessageAssumption`, `BoundsAssumption` and, where there
are, the assumptions on listings, on `Fit` and on the values that stand for
nothing); TLC evaluates them on every run.

| Module | Theorem | States |
|---|---|---|
| `JobQueue_proofs` | `TypeCorrect` | `TypeOK`, and a busy worker holds an inserted row |
| | `KeysUnique` | `[]ActiveKeyUnique` |
| | `SingleExecutionHolds` | `[]SingleExecution` |
| | `AttemptsAreBounded` | `[]AttemptsBounded` |
| | `Refinement` | `Spec => ImplementsLease` |
| | `KeysAreLeased` | `Spec => ImplementsKeyLease` |
| `AudienceRun_proofs` | `TypeCorrect`, `ReadyIsFullHolds` | `[]TypeOK`, `[]ReadyIsFull` |
| | `DismissedStaysOutHolds` | `DismissedStaysOut`, an action property |
| | `ActiveIsServedHolds` | `[]ActiveIsServed`, if nobody polls |
| | `PartialIsExhaustedHolds`, `DeliveredIsFinalHolds` | `[]PartialIsExhausted`, `DeliveredIsFinal`, if nobody polls and no run is given up |
| | `RunsAreLeased` | `Spec => ImplementsKeyLease`, if nobody polls |
| `SearchRun_proofs` | `TypeCorrect`, `ExpandingIsServedHolds`, `VerdictFitsEvidenceHolds` | the three invariants |
| | `FinalIsFinalHolds` | `FinalIsFinal`, an action property |
| | `BatchesAreLeased` | `Spec => ImplementsKeyLease` |
| `SourceItems_proofs` | `TypeCorrect`, `ReviewGateHolds`, `NoItemStrandedHolds`, `OneBusinessHolds` | the invariants, the last one `OneBusinessPerListing` |
| | `RejectionStandsHolds`, `ConflictIsReviewedHolds` | `[]RejectionStands`, `[]ConflictIsReviewed` |
| | `JobsAreLeased` | `Spec => ImplementsKeyLease` |
| `IndexRefresh_proofs` | `TypeCorrect`, `GateCoversBatchHolds`, `OneFetchPerSourceHolds` | the three invariants |
| | `RowsAreLeased` | `Spec => ImplementsKeyLease` |
| `FactPublication_proofs` | `TypeCorrect` | `[]TypeOK` |
| | `FactIsClaimedHolds` | a fact rests on an observation that a claim is recorded for |
| | `PublishableIsOwedHolds` | `PublishableIsOwed`, an action property |
| | `SoundIsBacked` | what passes the evidence checks is borne out by the pages that were read, for every website |
| `OutreachPackage_proofs` | `TypeCorrect`, `TextFitsEvidenceHolds`, `SentIsContactedHolds`, `ContactedOnceHolds` | the four invariants |
| | `LeadStaysHolds`, `EditsAreKeptHolds` | the two action properties |
| `MessageSend_proofs` | `TypeCorrect`, `BlockIsNotOverlooked`, `OneMailPerApprovalHolds` | `[]TypeOK`, `[]BlockedLeadGetsNoMail`, `[]OneMailPerApproval` |
| | `SentIsNeverForgotten`, `RecordsAreEarned` | two invariants stated with the proofs: `[]SentIsOwed`, `[]OutcomeIsEarned` |

*The queue.* `ActiveKeyUnique` is inductive with the types: an INSERT is guarded by
the index, every other write that activates a row passes `IndexAllows`. None of
`SingleExecution` and `AttemptsBounded` is inductive alone. The invariant
`LeaseInv` is the conjunction of `FreshRows` (rows not inserted yet are absent with
no attempts, and nobody has read or holds them), `LeaseHeld` (a worker busy with a
row outside `suspect` is alone, finds it RUNNING, has held it exactly as long as
the row has been locked, and for less than `StaleAfter`), `FailureCurrent` (the
snapshot a failing worker read is still the row's claim and attempts),
`RecoveryCurrent` (a row a starting worker found interrupted has no executor for as
long as nobody has claimed it again; if somebody has, the write puts it into
`suspect`) and `AttemptsBounded`. The ages make it inductive: a recovery takes only
rows locked for `StaleAfter`, and a worker that has held one that long has made it
suspect. The refinement is proved row
by row: each step leaves every row outside the new `suspect` unmoved or moves it
along one of `JobLease`'s actions. `KeysAreLeased` is proved from that: `ActiveKeyUnique`
leaves at most one active row under a key, and outside `suspect` only the holder of
that row can be executing anything under it.

*The runs of an audience.* The types need `HoldsRun`: an executor past its first
SELECT works on a run that exists. `ReadyIsFull` then follows from a frame lemma
(`OthersAreQuiet`: no step but `ProcessWrite` touches a result or makes a run
READY) and from `ProcessWrite` itself: it declares READY only when enough results
are selected, and whatever another executor has written in between, the selected
ones are among those the run holds when it commits. `DismissedStaysOut` rests on
`VerdictInv`: a result that bears a verdict is there, and a business in a plan that
some result calls dismissed is `raced`, since plans are made without `Rejected` and
later verdicts on planned businesses are noted (`Calm` has the steps that touch
neither).

*How a run ends.* `PartialIsExhausted` and `DeliveredIsFinal` are claims about one
executor per run. `RunLife` says so: only workers execute, each has the latest job
of its run, and that job is RUNNING (`OneExecutor`); what the executor has read of its
run is still so (`KnowsRun`); numbers not given yet have no job (`Unborn`); and
coverage is completed only with a delivery (`Settled`). A step of anybody else is
`Aside`, a step of the executor is `Solo`, and each keeps `RunLife` by a lemma of its
own. Two hypotheses are needed, because without them the claims are false of the code.
Nobody polls (`~Watched`): a request that takes a run over executes it beside its
worker. And no run is given up (`NothingGivenUp`): the worker that gives a job up
fails the run in a second transaction, which overwrites a run that was enqueued
again in between; and the late enqueue of POST /runs brings a failed run back to
life, whose coverage is then over before it has delivered. TLC finds behaviours of both
kinds, one where the crashes reach the attempts and one where a single attempt is
made and two requests run at once. Both are hypotheses of the two theorems and not of the code, and `audience_run` checks the
properties where they are met: nobody polls, nothing raises, and the attempts outlast the
crashes. That the job of a run is leased (`RunsAreLeased`) needs only the
first: nobody but workers executes (`OnlyWorkersHold`), and only the job's one worker
while it is RUNNING (`JobHeldAlone`), whatever is raised, lost or given up.
`ActiveIsServed` is proved under the same hypothesis alone: a worker that is past its
delivery, or found when it started that there was nothing to do, has a run that is neither
QUEUED nor MATCHING, and stays so while it has the job (`Ended`), because whoever else writes
the run meanwhile can only set it FAILED (`Spares`). `Serving` adds that to the claim, and each
step of a worker at its run keeps it (`ServesAt`).

*Searches.* `ExpandingIsServed` speaks of a batch that is queued or running, and the
worker that runs it may look away from it in several ways; `IInv` therefore says
of every worker what it still owes. `LoadedLater` and `DoomedLater`: a search that
somebody read as EXPANDING (to end it, or to fail it with a failed refresh) has
been past its request since. `RequestOpen`: while a request is on its way, its
search has no outcome yet. `FinishedFor` and `AwaitedIsServed`: a worker about to
complete its job has settled the search if it was EXPANDING, and until then the
batch counts as running: from its check of the transition to its write it is one that may
still complete the search, whatever the user makes of it in between. `VerdictFitsEvidence` needs `ShownIsCurrent` (what the
model is shown is the evidence of now, unless the business has drifted) and
`StoredFits`. `FinalIsFinal` needs `GlimpseOpen`: what the user's edit read is what
allows its transition. `BatchesAreLeased` adds `OneHolder` (a batch has one worker at most,
and only while it is running) and `Unasked` (there is none before it is asked for).

*Items.* The invariant says which job serves an item in each state that waits
(`NoItemStranded` is inductive only with the executors: a job that is running has
somebody at it who has not passed the point of no return), that an item past the
gate was released or ruled on, and that a resolver who holds a search result that
is not stale (`blind`) would find the same again. Between listing and business the
proof uses the rules of `CanonicalIdentity` only through three lemmas: a listing
that is observed is found where it is observed (`ObservedIsFound`), what a search
returns exists, and a search that meets a conflict returns nothing (`FoundExists`).
`ConflictIsReviewed` needs to know where a business may be named: a row that no INSERT
has filled is named by no item, job, request or search (`Unwritten`), so a conflict
(`Doubtful`) is always raised on a business nobody is about to audit; and a
disputed business nobody vouched for has no audit, no request for one and no resolver
about to hand one off (`Reviewed`), since only a user's decision enqueues the first. `JobsAreLeased` needs nothing more: the
invariant has a worker alone at its job, and the job RUNNING.

*Refreshes.* `OneFetchPerSource` is inductive with two facts: a row that no
cancellation took from its worker is RUNNING and has no second worker (`Held`), and
one fetch of a source is active at a time (`SourceActiveOnce`). `GateCoversBatch`
needs to know what is active while the administrator's request is half done: in a
cancellation only the rows it has read (`Canceling`), while items are released
nothing, and with an approval nothing stays behind that is not on the pile
(`Validating`). `RowsKnown` and `Fresh` say that a refresh asked for anew finds its
gate pending. A batch is spoken of only while it is `Orderly`: most steps activate
no record of one, or do so while another record of it runs (`BatchQuiet`).
`RowsAreLeased` groups the rows by key (`KeysPartition`) and adds that one row of a key is
active at a time (`KeyActiveOnce`, of which `SourceActiveOnce` is the case of fetches).

*Facts.* A session that resolves holds an observation that was recorded (`Sessions`),
the observations that were recorded are the first ones (`Numbered`: a number is never
used twice, whatever is rolled back), and a row put together of two sessions' columns
takes its observation from one of them: `FactIsClaimed` is inductive with these.
`PublishableIsOwed` is proved step by step from the types, `FactIsClaimed` and these: what is
publishable and owed stays owed, and what is not publishable becomes so only by a write of a
session that then owes the validation (`CollectingLeavesNothing`), by an enqueued row or by
one of the cases excepted. A validator that writes what it decided of the fact that is there
publishes or demotes it; time turns a decision only against a claim.
`SoundIsBacked` needs nothing of the crawl: a value is "false" only if every page that
was read is whole and shows nothing of the kind, and the checks add the page where it
would be.

*Packages.* `OneCampaign` (a result with a lead has its run's campaign), `KnownHolds`
(a request that saw a lead saw the one of now), `Noting` (who is about to write the
event has had the outcome), `Refreshing` (who refreshes a package loaded it under
other evidence), `Alone` (outside `raced` at most one request is past the check of a
channel) and `Fitting` (texts speak of the evidence named) are inductive together, and give
the invariants; the action properties are then consequences of single steps. In `Alone` a
request about to contact has seen that nothing was contacted or that mark_sent has recorded
nothing: a contact made elsewhere meanwhile changes the first only.

*Messages.* The types, with `Consecutive`, `Addressed` and `Working` (drafts are
numbered in order, each is for a lead, and sessions work on drafted messages
only), make `BlockedLeadGetsNoMail` inductive: the lead of a message somebody
holds never changes, a check finds the lead unblocked, and a block that comes
later is noted. `OneMailPerApproval` needs an account of approvals (`Accounted`):
while a message has a sender that may still mail it, or is APPROVED and its
sender, if any, has written the result, one approval more than mails is there.
That no sender leaves a message APPROVED behind rests on its having loaded it with
a status that is neither SENT nor FAILED, since otherwise its write would be
none; and that holds because only senders write those two. A second sender, or a
crash, breaks exactly this, which is why `contended` messages are excepted.
`SentIsOwed` is the safety that `SentIsRecorded` rests on: a message that is SENT or
REPLIED is on the record of its lead, or a session is about to put it there, unless a
process has crashed; so no order of the steps forgets it, and fairness only has to let
that session go on. `OutcomeIsEarned` is the converse: a lead is recorded as contacted
or as having replied only if a mail went out to it. Both are inductive with `Paid`
(who writes SENT or REPLIED holds a message that was mailed).

Only model-checked: liveness (`QueuedJobsSettle`, `RunsSettle`, `SearchEnds`,
`SentIsRecorded`, `UnvalidatedIsDemoted` and `MisattributedIsDemoted`), which is outside what
the proof system handles.

## Where the code and its words disagree

1. `job_queue_interrupted`: `worker.py` recovers interrupted jobs only when a worker
   starts, and then only those older than an hour. A worker that is restarted at
   once never gets its own job back; `enqueue_once` keeps returning the row.
2. `fact_stale`: the scheduler promises a standing refresh of stale evidence. An
   inspection that finds what it found before keeps the observation, its time and
   its expiry: a site that does not change is inspected at every tick, and its facts
   stay stale.

`PROJECT.json` quotes the lines. The following is reached by the models as well; the
properties except it by name or are claimed of instances without it, and the
hazards list it.

* Queue: `queue.fail` raises ConflictError when the row was requeued, and the
  worker ends, though the comment in `run_once` wants it to survive.
* Audience runs: a waiting run that is matched again deletes the verdicts with the
  results, so a business dismissed there comes back (a test,
  tests/test_territories.py:1031, says it stays out); the window is cut before
  dismissed and delivered businesses are taken out of it, though
  docs/territory-direction-review.md:78 and :83 read as if they were excluded from
  the search; a poll that matches a run
  beside its worker collides with it and fails a delivered run; a run completed by
  a poll is turned PARTIAL by the worker's expansion; two requests create two
  active runs.
* Messages: a batch mails a message that was cancelled since it was selected; an
  approval overwrites CANCELLED; two sessions, or a crash, mail twice; more mails a
  day than the cap.
* Searches: a batch that ends before its search says EXPANDING leaves it so for ever
  (`early`), and so does a process that dies between giving a batch up and failing
  the search (`orphaned`); an answer to old evidence is stored under the new
  (`drifted`).
* Refreshes: a batch decided on while it is planned passes the rest of its fetches
  (`hasty`); a cancelled row is executed (`snatched`).
* Items: a re-audit asked for during an audit is absorbed; an identity conflict
  looks certain once the observation that raised it is stored.
* Facts: a fact that would pass its validation stays staged when the validation was
  absorbed or died (the cases of `PublishableIsOwed`).
* Packages: what a model wrote is merged into a package loaded before (`outdated`),
  texts are carried over to other evidence (`relabelled`).

## Not modelled

* Webhooks (one POST, one row and the outcome it names), OAuth, sessions and e-mail
  connections, workspaces, definitions, products and niches (one request, one row):
  no two steps whose order matters beyond what `AudienceRun` says of criteria.
* Providers, prompts and the extractors of texts, contacts and languages
  (`territories/opportunity_audit.py` too): functions of pages and texts. They are
  choices of outcome, or a constant (`Fit`), in the modules that use them.
* Seeding, benchmarks, evaluation and reports: scripts over a database at rest.
* Migrations, application wiring, and the web client, which appears as the freedom
  with which requests are made.
* `business_index/refresh.py`, the inline refresh of a search that enqueues no job.

## Plan

Done, in this order of importance: `JobQueue` with `JobLease` (everything
asynchronous goes through it), `AudienceRun` (what the user waits for),
`MessageSend` (what leaves the system), `SourceItems` with `CanonicalIdentity`,
`IndexRefresh`, `SearchRun`, `FactPublication`, `OutreachPackage`, `AudienceMatching`,
`WebsiteInspection`.

The safety that liveness rests on (who still owes a waiting row its next step) is stated and
proved for searches (`ExpandingIsServed`), items (`NoItemStranded`), messages (`SentIsOwed`),
runs (`ActiveIsServed`) and facts (`PublishableIsOwed`). Left to do:

1. `ActiveIsServed` and `PartialIsExhausted` beside a poll, as bounds on what a poll can leave.
2. Several coverage requests per run; `source_state` and skipped searches of a
   refresh; versions and status of a signal's definition; `reconcile_business_facts`;
   quarantined observations; consolidation of legacy evaluation jobs; suppression
   rows and leads created later.
