----------------------------- MODULE SourceItems -----------------------------
(***************************************************************************)
(* The source items of one index segment, from the fetch that stores them  *)
(* to the publication of a business: the stages the workers run            *)
(* (business_index/pipeline.py: fetch_source, resolve_identity,            *)
(* audit_opportunity), the reviewer who judges single items                *)
(* (source_items/service.py) and the administrator who releases or         *)
(* discards a staged batch (admin/service.py).                             *)
(*                                                                         *)
(* A stage is one action per COMMIT, and one more for a read that a slow   *)
(* call separates from its write.  The rows of queue_jobs are kept by      *)
(* idempotency key, under which at most one row is active; how a row is    *)
(* claimed is the matter of JobQueue.                                      *)
(***************************************************************************)
EXTENDS CanonicalIdentity

CONSTANTS
    Worker,       \* worker processes
    NoJob,        \* what a process holds when it holds no job
    Review,       \* the review actions the reviewer takes
    Withheld,     \* the states an audit leaves an item in that it does not publish
    Copies,       \* bound: Copies[l], the source items a listing is ever stored as
    MaxReviews,   \* bound: decisions of the reviewer and of the administrator
    MaxFaults     \* bound: failures of handlers, faults of workers and of requests

ASSUME BoundsAssumption ==
    /\ Review \subseteq {"accept", "reject", "duplicate", "reaudit"}
    /\ Withheld \subseteq {"needs_review", "rejected"}
    /\ Copies \in [Listing -> Nat]
    /\ MaxReviews \in Nat
    /\ MaxFaults \in Nat

\* The n-th item stored for a listing: every fetch inserts a row of its own.
Item == UNION {{l} \X (1..Copies[l]) : l \in Listing}

ItemState == {"absent", "fetched", "relevant", "resolution_queued", "audit_pending",
              "needs_review", "eligible", "rejected", "excluded", "failed"}
Waiting == {"resolution_queued", "audit_pending"}
Unprocessed == {"fetched", "relevant"}

\* The dedupe keys: an item is resolved once at a time, and audited once at a
\* time for one business.
Resolve(i) == [stage |-> "resolve", item |-> i, business |-> 0]
Audit(i, b) == [stage |-> "audit", item |-> i, business |-> b]
Key == {Resolve(i) : i \in Item} \cup {Audit(i, b) : i \in Item, b \in BusinessId}

ASSUME NoJobIsNoKey == NoJob \notin Key

Ruling == {"accepted", "rejected", "duplicate"}
Negative == {"rejected", "duplicate"}

VARIABLES
    state,      \* state of each source item
    staged,     \* items fetched under processing_mode "review_first"
    business,   \* business_id of each item, 0 for none
    lastWord,   \* the item's latest decision: a human ruling, or "system"
    ruling,     \* the latest ruling by a user on any item of a listing
    job,        \* status of the active row of each key, "none" without one
    books,      \* the table of businesses
    published,  \* businesses whose current validations let them be found
    pc,         \* where each worker is in its stage
    at,         \* the key of the row it runs
    todo,       \* the items it has yet to hand off or to record as failed
    found,      \* what its identity search returned, until it is used
    request,    \* the enqueue a committed review has yet to make
    desk,       \* the administrator's request: validating, discarding or none
    pile,       \* the items that request read and has yet to write
    reviews,
    faults,
    released,   \* history: items a human ever let through
    human,      \* history: the latest human word on an item, given or carried over
    vouched,    \* history: disputed businesses an item of which a user accepted
    raced,      \* history: items turned down while work on them was under way
    absorbed,   \* history: items whose enqueue met a row already running
    orphaned,   \* history: items whose request or failure record a crash cut off
    blind,      \* history: businesses written on a search that had gone stale
    disputed    \* history: businesses whose last resolution was in an identity conflict

items == <<state, staged, business, lastWord, ruling>>
index == <<books, published>>
procs == <<pc, at, todo, found>>
people == <<request, desk, pile, reviews>>
history == <<released, human, vouched, raced, absorbed, orphaned, blind, disputed>>
vars == <<items, job, index, procs, people, faults, history>>

Active(k) == job[k] # "none"
Busy(i) == \E k \in Key : k.item = i /\ Active(k)
Stored(i) == state[i] # "absent"

Init ==
    /\ state = [i \in Item |-> "absent"]
    /\ staged = {}
    /\ business = [i \in Item |-> 0]
    /\ lastWord = [i \in Item |-> "none"]
    /\ ruling = [l \in Listing |-> "none"]
    /\ job = [k \in Key |-> "none"]
    /\ books = [b \in BusinessId |-> NoBusiness]
    /\ published = {}
    /\ pc = [w \in Worker |-> "idle"]
    /\ at = [w \in Worker |-> NoJob]
    /\ todo = [w \in Worker |-> {}]
    /\ found = [w \in Worker |-> Create(FALSE)]
    /\ request = NoJob
    /\ desk = "none"
    /\ pile = {}
    /\ reviews = 0
    /\ faults = 0
    /\ released = {}
    /\ human = [i \in Item |-> "none"]
    /\ vouched = {}
    /\ raced = {}
    /\ absorbed = {}
    /\ orphaned = {}
    /\ blind = {}
    /\ disputed = {}

(***************************************************************************)
(* The queue, as the stages use it                                         *)
(***************************************************************************)

\* enqueue_once: an active row of the key is returned as it is.
EnqueueOnce(k) ==
    IF Active(k)
    THEN /\ UNCHANGED job
         /\ absorbed' = IF job[k] = "running" THEN absorbed \cup {k.item} ELSE absorbed
    ELSE /\ job' = [job EXCEPT ![k] = "queued"]
         /\ absorbed' = absorbed \ {k.item}

Claim(w, k) ==
    /\ pc[w] = "idle"
    /\ job[k] = "queued"
    /\ job' = [job EXCEPT ![k] = "running"]
    /\ at' = [at EXCEPT ![w] = k]
    /\ pc' = [pc EXCEPT ![w] = k.stage]
    /\ UNCHANGED <<items, index, todo, found, people, faults, history>>

\* queue.complete, when the handler returns.
Complete(w) ==
    /\ pc[w] = "finish"
    /\ job' = [job EXCEPT ![at[w]] = "none"]
    /\ at' = [at EXCEPT ![w] = NoJob]
    /\ pc' = [pc EXCEPT ![w] = "idle"]
    /\ UNCHANGED <<items, index, todo, found, people, faults, history>>

\* A handler raises: its transaction is rolled back and queue.fail puts the row
\* back in the queue or, when its attempts are used up, in the dead letters; then
\* the item is recorded as failed in a transaction of its own.
Fail(w, exhausted) ==
    /\ pc[w] \in {"resolve", "upsert", "handoff", "audit", "audited"}
    /\ faults < MaxFaults
    /\ faults' = faults + 1
    /\ job' = [job EXCEPT ![at[w]] = IF exhausted THEN "none" ELSE "queued"]
    /\ todo' = [todo EXCEPT ![w] = IF exhausted THEN {at[w].item} ELSE {}]
    /\ pc' = [pc EXCEPT ![w] = IF exhausted THEN "record" ELSE "idle"]
    /\ at' = [at EXCEPT ![w] = NoJob]
    /\ found' = [found EXCEPT ![w] = Create(FALSE)]
    /\ UNCHANGED <<items, index, people, history>>

\* _record_source_item_failure, without a look at the item's state.
RecordFailure(w) ==
    /\ pc[w] = "record"
    /\ \E i \in todo[w] :
          /\ state' = [state EXCEPT ![i] = "failed"]
          /\ lastWord' = [lastWord EXCEPT ![i] = "system"]
          /\ todo' = [todo EXCEPT ![w] = @ \ {i}]
          /\ pc' = [pc EXCEPT ![w] = IF todo[w] = {i} THEN "idle" ELSE "record"]
    /\ UNCHANGED <<staged, business, ruling, job, index, at, found, people, faults, history>>

\* A worker process dies: its row stays RUNNING, its failures go unrecorded.
Crash(w) ==
    /\ pc[w] \notin {"idle", "down"}
    /\ faults < MaxFaults
    /\ faults' = faults + 1
    /\ orphaned' = IF pc[w] = "record" THEN orphaned \cup todo[w] ELSE orphaned
    /\ pc' = [pc EXCEPT ![w] = "down"]
    /\ at' = [at EXCEPT ![w] = NoJob]
    /\ todo' = [todo EXCEPT ![w] = {}]
    /\ found' = [found EXCEPT ![w] = Create(FALSE)]
    /\ UNCHANGED <<items, job, index, people, released, human, vouched, raced, absorbed, blind, disputed>>

\* (mutant) The items of the rows given up are not recorded.
MutRecover(w) ==
    LET left == {k \in Key : job[k] = "running" /\ \A v \in Worker : at[v] # k}
    IN  /\ pc[w] = "down"
        /\ \E exhausted \in SUBSET left :
              job' = [k \in Key |-> IF k \in exhausted THEN "none"
                                    ELSE IF k \in left THEN "queued" ELSE job[k]]
        /\ pc' = [pc EXCEPT ![w] = "idle"]
        /\ UNCHANGED <<items, index, at, todo, found, people, faults, history>>

\* recover_stale_running when the process starts again, on the rows nobody runs:
\* those with attempts left are queued again, the items of the others failed.
Recover(w) ==
    LET left == {k \in Key : job[k] = "running" /\ \A v \in Worker : at[v] # k}
    IN  /\ pc[w] = "down"
        /\ \E exhausted \in SUBSET left :
              /\ job' = [k \in Key |-> IF k \in exhausted THEN "none"
                                       ELSE IF k \in left THEN "queued" ELSE job[k]]
              /\ todo' = [todo EXCEPT ![w] = {k.item : k \in exhausted}]
              /\ pc' = [pc EXCEPT ![w] = IF exhausted = {} THEN "idle" ELSE "record"]
        /\ UNCHANGED <<items, index, at, found, people, faults, history>>

(***************************************************************************)
(* fetch_source                                                            *)
(***************************************************************************)

\* _carry_forward_human_decision: the last ruling on another item of the listing.
CarriedState(l) ==
    CASE ruling[l] = "accepted" -> "relevant"
      [] ruling[l] = "rejected" -> "rejected"
      [] ruling[l] = "duplicate" -> "excluded"
      [] OTHER -> "fetched"

\* The id of the next item stored for a listing.
NextCopy(l) == CHOOSE n \in 1..Copies[l] : ~Stored(<<l, n>>)

\* (mutant) The processing mode is not passed on to the fetch.
MutIngest(w, listings, reviewFirst) ==
    LET new == {<<l, NextCopy(l)>> : l \in listings}
    IN  /\ pc[w] = "idle"
        /\ \A l \in listings : \E n \in 1..Copies[l] : ~Stored(<<l, n>>)
        /\ state' = [i \in Item |-> IF i \in new THEN CarriedState(i[1]) ELSE state[i]]
        /\ lastWord' = [i \in Item |-> IF i \in new THEN ruling[i[1]] ELSE lastWord[i]]
        /\ human' = [i \in Item |-> IF i \in new THEN ruling[i[1]] ELSE human[i]]
        /\ staged' = IF reviewFirst THEN staged \cup new ELSE staged
        /\ todo' = [todo EXCEPT ![w] = new]
        /\ pc' = [pc EXCEPT ![w] = "dispatch"]
        /\ UNCHANGED <<business, ruling, job, index, at, found, people, faults,
                       released, vouched, raced, absorbed, orphaned, blind, disputed>>

\* The provider's rows are stored in one transaction, whatever was stored before.
\* A review_first fetch stops there.
Ingest(w, listings, reviewFirst) ==
    LET new == {<<l, NextCopy(l)>> : l \in listings}
    IN  /\ pc[w] = "idle"
        /\ \A l \in listings : \E n \in 1..Copies[l] : ~Stored(<<l, n>>)
        /\ state' = [i \in Item |-> IF i \in new THEN CarriedState(i[1]) ELSE state[i]]
        /\ lastWord' = [i \in Item |-> IF i \in new THEN ruling[i[1]] ELSE lastWord[i]]
        /\ human' = [i \in Item |-> IF i \in new THEN ruling[i[1]] ELSE human[i]]
        /\ staged' = IF reviewFirst THEN staged \cup new ELSE staged
        /\ todo' = [todo EXCEPT ![w] = IF reviewFirst THEN {} ELSE new]
        /\ pc' = [pc EXCEPT ![w] = IF reviewFirst THEN "idle" ELSE "dispatch"]
        /\ UNCHANGED <<business, ruling, job, index, at, found, people, faults,
                       released, vouched, raced, absorbed, orphaned, blind, disputed>>

\* (mutant) The decision carried over to the item is not looked at.
MutDispatch(w) ==
    /\ pc[w] = "dispatch"
    /\ \E i \in todo[w] :
          /\ todo' = [todo EXCEPT ![w] = @ \ {i}]
          /\ pc' = [pc EXCEPT ![w] = IF todo[w] = {i} THEN "idle" ELSE "dispatch"]
          /\ state' = [state EXCEPT ![i] = "resolution_queued"]
          /\ EnqueueOnce(Resolve(i))
    /\ UNCHANGED <<staged, business, lastWord, ruling, index, at, found, people, faults,
                   released, human, vouched, raced, orphaned, blind, disputed>>

\* The loop over the stored items; the decisions are read here, the business was
\* read when the item was new and is never set.
Dispatch(w) ==
    /\ pc[w] = "dispatch"
    /\ \E i \in todo[w] :
          /\ todo' = [todo EXCEPT ![w] = @ \ {i}]
          /\ pc' = [pc EXCEPT ![w] = IF todo[w] = {i} THEN "idle" ELSE "dispatch"]
          /\ IF lastWord[i] \in Negative
             THEN UNCHANGED <<state, job, absorbed>>
             ELSE /\ state' = [state EXCEPT ![i] = "resolution_queued"]
                  /\ EnqueueOnce(Resolve(i))
    /\ UNCHANGED <<staged, business, lastWord, ruling, index, at, found, people, faults,
                   released, human, vouched, raced, orphaned, blind, disputed>>

(***************************************************************************)
(* resolve_identity                                                        *)
(***************************************************************************)

\* The searches of _find_business; the embedding is computed after them.
Search(w) ==
    /\ pc[w] = "resolve"
    /\ \E r \in FindBusiness(books, at[w].item[1]) : found' = [found EXCEPT ![w] = r]
    /\ pc' = [pc EXCEPT ![w] = "upsert"]
    /\ UNCHANGED <<items, job, index, at, todo, people, faults, history>>

\* (mutant) An item in an identity conflict is audited like any other.
MutLink(w, i, b) ==
    LET r == found[w]
    IN  /\ books' = Upsert(books, b, i[1])
        /\ business' = [business EXCEPT ![i] = b]
        /\ state' = [state EXCEPT ![i] = "audit_pending"]
        /\ lastWord' = [lastWord EXCEPT ![i] = "system"]
        /\ disputed' = IF r.conflict THEN disputed \cup {b} ELSE disputed \ {b}
        /\ blind' = IF r \in FindBusiness(books, i[1]) THEN blind ELSE blind \cup {b}
        /\ found' = [found EXCEPT ![w] = Create(FALSE)]
        /\ pc' = [pc EXCEPT ![w] = "handoff"]
        /\ UNCHANGED <<staged, ruling, job, published, at, todo, people, faults,
                       released, human, vouched, raced, absorbed, orphaned>>

\* The business, the observation and the decision in one transaction.  The state
\* of the item is not looked at.
Link(w, i, b) ==
    LET r == found[w]
    IN  /\ books' = Upsert(books, b, i[1])
        /\ business' = [business EXCEPT ![i] = b]
        /\ state' = [state EXCEPT ![i] = IF r.conflict THEN "needs_review" ELSE "audit_pending"]
        /\ lastWord' = [lastWord EXCEPT ![i] = "system"]
        /\ disputed' = IF r.conflict THEN disputed \cup {b} ELSE disputed \ {b}
        /\ blind' = IF r \in FindBusiness(books, i[1]) THEN blind ELSE blind \cup {b}
        /\ found' = [found EXCEPT ![w] = Create(FALSE)]
        /\ pc' = [pc EXCEPT ![w] = IF r.conflict THEN "finish" ELSE "handoff"]
        /\ UNCHANGED <<staged, ruling, job, published, at, todo, people, faults,
                       released, human, vouched, raced, absorbed, orphaned>>

UpsertFound(w) ==
    /\ pc[w] = "upsert"
    /\ found[w].business # 0
    /\ Link(w, at[w].item, found[w].business)

\* An INSERT that the unique index refuses raises, which Fail covers.
UpsertNew(w) ==
    /\ pc[w] = "upsert"
    /\ found[w].business = 0
    /\ ~Refused(books, at[w].item[1])
    /\ ~Full(books)
    /\ Link(w, at[w].item, FreeRow(books))

HandOff(w) ==
    /\ pc[w] = "handoff"
    /\ EnqueueOnce(Audit(at[w].item, business[at[w].item]))
    /\ pc' = [pc EXCEPT ![w] = "finish"]
    /\ UNCHANGED <<items, index, at, todo, found, people, faults,
                   released, human, vouched, raced, orphaned, blind, disputed>>

(***************************************************************************)
(* audit_opportunity                                                       *)
(***************************************************************************)

\* The validations and publication_decision: what they find is the data's affair.
\* A decision against publication is written at once.
Withhold(w, outcome) ==
    LET i == at[w].item
    IN  /\ pc[w] = "audit"
        /\ state' = [state EXCEPT ![i] = outcome]
        /\ business' = [business EXCEPT ![i] = at[w].business]
        /\ lastWord' = [lastWord EXCEPT ![i] = "system"]
        /\ published' = published \ {at[w].business}
        /\ pc' = [pc EXCEPT ![w] = "finish"]
        /\ UNCHANGED <<staged, ruling, job, books, at, todo, found, people, faults, history>>

\* A publishable business joins the segment, in the auditor's transaction.
Publish(w) ==
    /\ pc[w] = "audit"
    /\ published' = published \cup {at[w].business}
    /\ pc' = [pc EXCEPT ![w] = "audited"]
    /\ UNCHANGED <<items, job, books, at, todo, found, people, faults, history>>

\* The decision that follows the signal collection.
MarkEligible(w) ==
    LET i == at[w].item
    IN  /\ pc[w] = "audited"
        /\ state' = [state EXCEPT ![i] = "eligible"]
        /\ business' = [business EXCEPT ![i] = at[w].business]
        /\ lastWord' = [lastWord EXCEPT ![i] = "system"]
        /\ pc' = [pc EXCEPT ![w] = "finish"]
        /\ UNCHANGED <<staged, ruling, job, index, at, todo, found, people, faults, history>>

(***************************************************************************)
(* The reviewer                                                            *)
(***************************************************************************)

ReviewRuling(a) ==
    CASE a = "reject" -> "rejected" [] a = "duplicate" -> "duplicate" [] OTHER -> "accepted"

\* (mutant) The decision's name is written as the item's state.
MutReviewState(i, a) == ReviewRuling(a)

\* _review_transition
ReviewState(i, a) ==
    IF a = "reject" THEN "rejected"
    ELSE IF a = "duplicate" THEN "excluded"
    ELSE IF business[i] # 0 THEN "audit_pending"
    ELSE IF a = "accept" THEN "relevant"
    ELSE "needs_review"

\* What the review enqueues once its decision is committed.
ReviewJob(i, a) ==
    IF a \in {"accept", "reaudit"} /\ business[i] # 0 THEN Audit(i, business[i])
    ELSE IF a = "accept" THEN Resolve(i)
    ELSE NoJob

\* Work that will write the item whatever is decided about it now.
Underway(i) ==
    \/ Busy(i)
    \/ request # NoJob /\ request.item = i
    \/ desk = "validating" /\ i \in pile
    \/ \E w \in Worker : pc[w] = "record" /\ i \in todo[w]

\* The decision r of a user on the items S.
Rule(S, r) ==
    /\ released' = IF r = "accepted" THEN released \cup S ELSE released
    /\ human' = [i \in Item |-> IF i \in S THEN r ELSE human[i]]
    /\ vouched' = IF r = "accepted" THEN vouched \cup (disputed \cap {business[i] : i \in S})
                  ELSE vouched
    /\ raced' = (raced \ S) \cup (IF r \in Negative THEN {i \in S : Underway(i)} ELSE {})
    /\ ruling' = [l \in Listing |-> IF \E i \in S : i[1] = l THEN r ELSE ruling[l]]
    /\ lastWord' = [i \in Item |-> IF i \in S THEN r ELSE lastWord[i]]

\* review: the decision, whatever the item's state.
Judge(i, a) ==
    /\ request = NoJob
    /\ Stored(i)
    /\ reviews < MaxReviews
    /\ reviews' = reviews + 1
    /\ state' = [state EXCEPT ![i] = ReviewState(i, a)]
    /\ Rule({i}, ReviewRuling(a))
    /\ request' = ReviewJob(i, a)
    /\ UNCHANGED <<staged, business, job, index, procs, desk, pile, faults,
                   absorbed, orphaned, blind, disputed>>

\* The enqueue, in a transaction of its own.
FollowUp ==
    /\ request # NoJob
    /\ EnqueueOnce(request)
    /\ request' = NoJob
    /\ UNCHANGED <<items, index, procs, desk, pile, reviews, faults,
                   released, human, vouched, raced, orphaned, blind, disputed>>

RequestLost ==
    /\ request # NoJob
    /\ faults < MaxFaults
    /\ faults' = faults + 1
    /\ orphaned' = orphaned \cup {request.item}
    /\ request' = NoJob
    /\ UNCHANGED <<items, job, index, procs, desk, pile, reviews,
                   released, human, vouched, raced, absorbed, blind, disputed>>

(***************************************************************************)
(* The administrator                                                       *)
(***************************************************************************)

\* validate_data_job and discard_data_job read the items of the batch that are
\* not processed yet; no fetch of the batch is active.
Pending == {i \in staged : business[i] = 0 /\ state[i] \in Unprocessed}

StartValidate(S) ==
    /\ desk = "none"
    /\ S # {}
    /\ S \subseteq Pending
    /\ reviews < MaxReviews
    /\ reviews' = reviews + 1
    /\ desk' = "validating"
    /\ pile' = S
    /\ released' = released \cup S
    /\ UNCHANGED <<items, job, index, procs, request, faults,
                   human, vouched, raced, absorbed, orphaned, blind, disputed>>

\* Each selected item is queued in a transaction of its own.
ValidateOne ==
    /\ desk = "validating"
    /\ \E i \in pile :
          /\ state' = [state EXCEPT ![i] = "resolution_queued"]
          /\ EnqueueOnce(Resolve(i))
          /\ pile' = pile \ {i}
          /\ desk' = IF pile = {i} THEN "none" ELSE "validating"
    /\ UNCHANGED <<staged, business, lastWord, ruling, index, procs, request, reviews,
                   faults, released, human, vouched, raced, orphaned, blind, disputed>>

StartDiscard ==
    /\ desk = "none"
    /\ Pending # {}
    /\ reviews < MaxReviews
    /\ reviews' = reviews + 1
    /\ desk' = "discarding"
    /\ pile' = Pending
    /\ UNCHANGED <<items, job, index, procs, request, faults, history>>

\* The rejections of the whole pile, in one transaction.
Discard ==
    /\ desk = "discarding"
    /\ state' = [i \in Item |-> IF i \in pile THEN "rejected" ELSE state[i]]
    /\ Rule(pile, "rejected")
    /\ desk' = "none"
    /\ pile' = {}
    /\ UNCHANGED <<staged, business, job, index, procs, request, reviews, faults,
                   absorbed, orphaned, blind, disputed>>

(***************************************************************************)
(* Specification                                                           *)
(***************************************************************************)

Stage(w) ==
    \/ Complete(w)
    \/ RecordFailure(w)
    \/ Dispatch(w)
    \/ Search(w)
    \/ UpsertFound(w)
    \/ UpsertNew(w)
    \/ HandOff(w)
    \/ \E outcome \in Withheld : Withhold(w, outcome)
    \/ Publish(w)
    \/ MarkEligible(w)

Next ==
    \/ \E w \in Worker :
          \/ Stage(w)
          \/ \E exhausted \in BOOLEAN : Fail(w, exhausted)
          \/ Crash(w)
          \/ Recover(w)
          \/ \E k \in Key : Claim(w, k)
          \/ \E listings \in SUBSET Listing, reviewFirst \in BOOLEAN :
                listings # {} /\ Ingest(w, listings, reviewFirst)
    \/ \E i \in Item, a \in Review : Judge(i, a)
    \/ FollowUp
    \/ RequestLost
    \/ \E S \in SUBSET Item : StartValidate(S)
    \/ ValidateOne
    \/ StartDiscard
    \/ Discard

Spec == Init /\ [][Next]_vars

(***************************************************************************)
(* Properties                                                              *)
(***************************************************************************)

TypeOK ==
    /\ state \in [Item -> ItemState]
    /\ staged \subseteq Item
    /\ business \in [Item -> BusinessId \cup {0}]
    /\ lastWord \in [Item -> Ruling \cup {"none", "system"}]
    /\ ruling \in [Listing -> Ruling \cup {"none"}]
    /\ job \in [Key -> {"none", "queued", "running"}]
    /\ books \in [BusinessId -> BusinessRow]
    /\ published \subseteq BusinessId
    /\ pc \in [Worker -> {"idle", "down", "dispatch", "record", "resolve", "upsert",
                          "handoff", "audit", "audited", "finish"}]
    /\ at \in [Worker -> Key \cup {NoJob}]
    /\ todo \in [Worker -> SUBSET Item]
    /\ found \in [Worker -> Resolution]
    /\ request \in Key \cup {NoJob}
    /\ desk \in {"none", "validating", "discarding"}
    /\ pile \subseteq Item
    /\ reviews \in 0..MaxReviews
    /\ faults \in 0..MaxFaults
    /\ released \subseteq Item
    /\ human \in [Item -> Ruling \cup {"none"}]
    /\ vouched \subseteq BusinessId
    /\ raced \subseteq Item
    /\ absorbed \subseteq Item
    /\ orphaned \subseteq Item
    /\ blind \subseteq BusinessId
    /\ disputed \subseteq BusinessId

\* Nothing fetched for review is resolved, let alone audited, before a human has
\* let it through: neither a refetch nor a recovered job goes round the gate.
ReviewGate ==
    \A i \in staged : business[i] # 0 \/ Busy(i) => i \in released

\* A listing that a human turned down stays out, also when a later fetch stores
\* it again, unless the human came while work on the item was under way.
RejectionStands ==
    \A i \in Item : human[i] \in Negative /\ i \notin raced
                   => state[i] \in {"rejected", "excluded"} /\ ~Busy(i)

\* An item that waits for a stage has a job, or somebody about to enqueue one or
\* to record its failure, unless its enqueue met a row already running or a crash
\* cut its request off.
NoItemStranded ==
    \A i \in Item : state[i] \in Waiting
        => \/ Busy(i)
           \/ request # NoJob /\ request.item = i
           \/ \E w \in Worker : pc[w] = "record" /\ i \in todo[w]
           \/ i \in absorbed \cup orphaned

\* Two businesses hold one listing only if one of them was written on a search
\* whose answer another resolver had changed in the meantime.
OneBusinessPerListing ==
    \A a, b \in BusinessId :
        a # b /\ books[a].observed \cap books[b].observed # {} => {a, b} \cap blind # {}

\* docs/data-quality-pipeline.md:19-21: an uncertain identity goes to review, so a business
\* that was in conflict when an item was last linked to it is published only after a user
\* has accepted an item linked to it, whatever was released before it was resolved.
\* (The observation stored with a conflict makes the next resolution look certain.)
ConflictIsReviewed == disputed \cap published \subseteq vouched

\* The jobs of the stages keep to what the queue promises of a key.
Lease == INSTANCE KeyLease WITH
            stage <- job,
            lessees <- [k \in Key |-> {w \in Worker : at[w] = k}],
            exposed <- {}
ImplementsKeyLease == Lease!Spec
=============================================================================
