------------------------- MODULE SourceItems_proofs -------------------------
(***************************************************************************)
(* What holds of SourceItems for every set of listings, profiles, workers  *)
(* and bounds: the review gate, the standing of a rejection, that no item  *)
(* is stranded, that a listing has one business, and that a conflict of    *)
(* identities is reviewed before the business is published.                *)
(***************************************************************************)
EXTENDS SourceItems, TLAPS

StagePc == {"resolve", "upsert", "handoff", "audit", "audited", "finish"}

(***************************************************************************)
(* The strengthening.                                                      *)
(***************************************************************************)

\* A worker in a stage holds a running row of that stage, alone.
Holding ==
    /\ \A w \in Worker : pc[w] \in StagePc <=> at[w] # NoJob
    /\ \A w \in Worker : at[w] # NoJob => job[at[w]] = "running"
    /\ \A v, w \in Worker : at[w] # NoJob /\ at[v] = at[w] => v = w
    /\ \A w \in Worker : pc[w] \in {"resolve", "upsert", "handoff"} => at[w].stage = "resolve"
    /\ \A w \in Worker : pc[w] \in {"audit", "audited"} => at[w].stage = "audit"
    /\ \A w \in Worker : pc[w] = "handoff" => business[at[w].item] # 0

Requested(i) == request # NoJob /\ request.item = i
Validating(i) == desk = "validating" /\ i \in pile
Recording(i) == \E w \in Worker : pc[w] = "record" /\ i \in todo[w]

\* Nobody knows of an item that is not stored.
Unstored ==
    \A i \in Item : ~Stored(i) =>
        /\ i \notin staged /\ i \notin pile
        /\ business[i] = 0
        /\ ~Busy(i) /\ ~Requested(i)
        /\ \A w \in Worker : i \notin todo[w]

\* The gate, with everything that leads to a job.
Gated ==
    /\ \A i \in staged : business[i] # 0 \/ Busy(i) \/ Requested(i) \/ Validating(i) => i \in released
    /\ \A w \in Worker : pc[w] = "dispatch" => todo[w] \cap staged = {}

\* The rejections, with everything that could still write the item.
Rejected ==
    \A i \in Item : human[i] \in Negative /\ i \notin raced =>
        /\ state[i] \in {"rejected", "excluded"}
        /\ lastWord[i] \in Negative
        /\ ~Underway(i)

\* A job that still has a write to make.
Driven(i) ==
    \E k \in Key : /\ k.item = i
                   /\ Active(k)
                   /\ \A w \in Worker : at[w] = k => pc[w] # "finish"

Moving ==
    \A i \in Item : state[i] \in Waiting
        => Driven(i) \/ Requested(i) \/ Recording(i) \/ i \in absorbed \cup orphaned

\* A row that no INSERT has filled is named nowhere.
Unwritten ==
    \A b \in BusinessId : ~Exists(books, b) =>
        /\ b \notin disputed /\ b \notin published
        /\ \A i \in Item : business[i] # b
        /\ \A k \in Key : Active(k) => k.business # b
        /\ request # NoJob => request.business # b
        /\ \A w \in Worker : found[w].business # b

\* A search that meets a conflict finds no business.
Doubtful == \A w \in Worker : found[w].conflict => found[w].business = 0

\* A disputed business that nobody vouched for has no audit, and nobody is about to
\* enqueue one.
Reviewed ==
    \A b \in disputed \ vouched :
        /\ b \notin published
        /\ \A k \in Key : Active(k) => k.business # b
        /\ request # NoJob => request.business # b
        /\ \A w \in Worker : pc[w] = "handoff" => business[at[w].item] # b

IInv ==
    /\ TypeOK
    /\ Holding
    /\ Unstored
    /\ Gated
    /\ Rejected
    /\ Moving
    /\ OneBusinessPerListing
    /\ Unwritten
    /\ Doubtful
    /\ Reviewed

(***************************************************************************)
(* Keys, items and businesses.                                             *)
(***************************************************************************)

LEMMA ItemShape == \A i \in Item : i[1] \in Listing
BY DEF Item

LEMMA KeyShape ==
    ASSUME NEW k \in Key
    PROVE  /\ k.item \in Item
           /\ k.business \in BusinessId \cup {0}
           /\ k.stage \in {"resolve", "audit"}
           /\ k.stage = "audit" => k.business \in BusinessId
<1>1. CASE \E i \in Item : k = Resolve(i)
  BY <1>1 DEF Resolve
<1>2. CASE \E i \in Item, b \in BusinessId : k = Audit(i, b)
  BY <1>2 DEF Audit
<1> QED BY <1>1, <1>2 DEF Key

LEMMA ResolveKey == \A i \in Item : Resolve(i) \in Key /\ Resolve(i).item = i
BY DEF Key, Resolve

LEMMA AuditKey == \A i \in Item, b \in BusinessId : Audit(i, b) \in Key /\ Audit(i, b).item = i
BY DEF Key, Audit

LEMMA NoItemZero == 0 \notin BusinessId
BY ListingsAssumption DEF BusinessId

LEMMA FoundShape ==
    ASSUME NEW B, NEW l \in Listing, NEW r \in FindBusiness(B, l)
    PROVE  r \in Resolution
<1>1. \A b \in BusinessId : Match(b) \in Resolution
  BY DEF Match, Resolution
<1>2. \A c \in BOOLEAN : Create(c) \in Resolution
  BY DEF Create, Resolution
<1>3. /\ Observers(B, l) \subseteq BusinessId
      /\ Strong(B, l) \subseteq BusinessId
      /\ Located(B, l) \subseteq BusinessId
      /\ Nearby(B, l) \subseteq BusinessId
  BY DEF Observers, Strong, Located, Nearby, Identified, Namesakes, Filed
<1> DEFINE I == (Identified(B, l) \ Strong(B, l)) \cup Namesakes(B, l)
<1>4. r \in UNION {{Match(b) : b \in BusinessId}, {Create(TRUE)}, {Create(I # {})}}
  <2> HIDE DEF I
  <2> QED BY <1>3 DEF FindBusiness, I
<1>5. CASE r \in {Match(b) : b \in BusinessId}
  BY <1>1, <1>5
<1>6. CASE r = Create(TRUE) \/ r = Create(I # {})
  <2> HIDE DEF I
  <2> QED BY <1>2, <1>6
<1> QED BY <1>4, <1>5, <1>6

LEMMA NothingFound == Create(FALSE) \in Resolution
BY DEF Create, Resolution

\* A listing already observed is found where it was observed, and nowhere else.
LEMMA ObservedIsFound ==
    ASSUME NEW B, NEW l \in Listing, NEW r \in FindBusiness(B, l), Observers(B, l) # {}
    PROVE  r.business \in Observers(B, l)
<1>1. FindBusiness(B, l) = {Match(b) : b \in Observers(B, l)}
  BY DEF FindBusiness
<1> QED BY <1>1 DEF Match

LEMMA UpsertShape ==
    ASSUME NEW B \in [BusinessId -> BusinessRow], NEW b \in BusinessId, NEW l \in Listing
    PROVE  /\ Upsert(B, b, l) \in [BusinessId -> BusinessRow]
           /\ Upsert(B, b, l)[b].observed = B[b].observed \cup {l}
           /\ \A c \in BusinessId \ {b} : Upsert(B, b, l)[c] = B[c]
<1> DEFINE K == [a \in Attribute |->
                   IF B[b].known[a] = Unset THEN Profile[l][a] ELSE B[b].known[a]]
<1>1. B[b] \in BusinessRow
  OBVIOUS
<1>2. B[b].known \in [Attribute -> Value] /\ B[b].observed \in SUBSET Listing
  BY <1>1 DEF BusinessRow
<1>3. \A a \in Attribute : Profile[l][a] \in Value
  BY DEF Value
<1>4. K \in [Attribute -> Value]
  BY <1>2, <1>3
<1> HIDE DEF K
<1>5. [known |-> K, observed |-> B[b].observed \cup {l}] \in BusinessRow
  BY <1>2, <1>4 DEF BusinessRow
<1>6. Upsert(B, b, l) = [B EXCEPT ![b] = [known |-> K, observed |-> B[b].observed \cup {l}]]
  BY DEF Upsert, K
<1> QED BY <1>5, <1>6

LEMMA FreeRowShape ==
    ASSUME NEW B, ~Full(B)
    PROVE  FreeRow(B) \in BusinessId /\ B[FreeRow(B)].observed = {}
<1>1. \E b \in BusinessId : ~Exists(B, b)
  BY DEF Full, Filed
<1> QED BY <1>1 DEF FreeRow, Exists

(***************************************************************************)
(* Types.                                                                  *)
(***************************************************************************)

LEMMA ClaimType ==
    ASSUME TypeOK, NEW w \in Worker, NEW k \in Key, Claim(w, k)
    PROVE  TypeOK'
<1>1. job' \in [Key -> {"none", "queued", "running"}]
  BY DEF TypeOK, Claim
<1>2. at' \in [Worker -> Key \cup {NoJob}]
  BY DEF TypeOK, Claim
<1>3. pc' = [pc EXCEPT ![w] = "resolve"] \/ pc' = [pc EXCEPT ![w] = "audit"]
  BY KeyShape DEF Claim
<1> QED BY <1>1, <1>2, <1>3 DEF TypeOK, Claim, items, index, people, history

LEMMA CompleteType ==
    ASSUME TypeOK, NEW w \in Worker, Complete(w)
    PROVE  TypeOK'
BY DEF TypeOK, Complete, items, index, people, history

LEMMA FailType ==
    ASSUME TypeOK, Holding, NEW w \in Worker, NEW exhausted \in BOOLEAN, Fail(w, exhausted)
    PROVE  TypeOK'
<1>1. at[w] \in Key /\ at[w].item \in Item
  BY KeyShape DEF TypeOK, Holding, StagePc, Fail
<1>2. job' \in [Key -> {"none", "queued", "running"}]
  BY <1>1 DEF TypeOK, Fail
<1>3. todo' \in [Worker -> SUBSET Item]
  BY <1>1 DEF TypeOK, Fail
<1>4. found' \in [Worker -> Resolution]
  BY NothingFound DEF TypeOK, Fail
<1>5. faults' \in 0..MaxFaults
  BY BoundsAssumption DEF TypeOK, Fail
<1> QED BY <1>2, <1>3, <1>4, <1>5 DEF TypeOK, Fail, items, index, people, history

LEMMA RecordFailureType ==
    ASSUME TypeOK, NEW w \in Worker, RecordFailure(w)
    PROVE  TypeOK'
BY DEF TypeOK, RecordFailure, index, people, history, ItemState

LEMMA CrashType ==
    ASSUME TypeOK, NEW w \in Worker, Crash(w)
    PROVE  TypeOK'
<1>1. orphaned' \subseteq Item
  BY DEF TypeOK, Crash
<1>2. found' \in [Worker -> Resolution]
  BY NothingFound DEF TypeOK, Crash
<1>3. faults' \in 0..MaxFaults
  BY BoundsAssumption DEF TypeOK, Crash
<1> QED BY <1>1, <1>2, <1>3 DEF TypeOK, Crash, items, index, people

LEMMA RecoverType ==
    ASSUME TypeOK, NEW w \in Worker, Recover(w)
    PROVE  TypeOK'
<1> DEFINE left == {k \in Key : job[k] = "running" /\ \A v \in Worker : at[v] # k}
<1>1. PICK exhausted \in SUBSET left :
         /\ job' = [k \in Key |-> IF k \in exhausted THEN "none"
                                  ELSE IF k \in left THEN "queued" ELSE job[k]]
         /\ todo' = [todo EXCEPT ![w] = {k.item : k \in exhausted}]
         /\ pc' = [pc EXCEPT ![w] = IF exhausted = {} THEN "idle" ELSE "record"]
  BY DEF Recover
<1>2. job' \in [Key -> {"none", "queued", "running"}]
  BY <1>1 DEF TypeOK
<1>3. {k.item : k \in exhausted} \subseteq Item
  BY KeyShape, <1>1
<1>4. todo' \in [Worker -> SUBSET Item]
  BY <1>1, <1>3 DEF TypeOK
<1>5. pc' \in [Worker -> {"idle", "down", "dispatch", "record", "resolve", "upsert",
                          "handoff", "audit", "audited", "finish"}]
  BY <1>1 DEF TypeOK
<1> QED BY <1>2, <1>4, <1>5 DEF TypeOK, Recover, items, index, people, history

LEMMA EnqueueType ==
    ASSUME TypeOK, NEW k \in Key, EnqueueOnce(k)
    PROVE  job' \in [Key -> {"none", "queued", "running"}] /\ absorbed' \subseteq Item
BY KeyShape DEF TypeOK, EnqueueOnce

LEMMA NextCopyShape ==
    ASSUME NEW l \in Listing, \E n \in 1..Copies[l] : ~Stored(<<l, n>>)
    PROVE  <<l, NextCopy(l)>> \in Item /\ ~Stored(<<l, NextCopy(l)>>)
BY DEF NextCopy, Item

LEMMA IngestType ==
    ASSUME TypeOK, NEW w \in Worker, NEW listings \in SUBSET Listing,
           NEW reviewFirst \in BOOLEAN, Ingest(w, listings, reviewFirst)
    PROVE  TypeOK'
<1> DEFINE new == {<<l, NextCopy(l)>> : l \in listings}
<1>1. new \subseteq Item
  BY NextCopyShape DEF Ingest
<1>2. \A l \in Listing : CarriedState(l) \in ItemState
  BY DEF CarriedState, ItemState
<1> HIDE DEF new
<1>3. state' \in [Item -> ItemState]
  <2>1. state' = [i \in Item |-> IF i \in new THEN CarriedState(i[1]) ELSE state[i]]
    BY DEF Ingest, new
  <2> QED BY <2>1, <1>2, ItemShape DEF TypeOK
<1>4. lastWord' \in [Item -> Ruling \cup {"none", "system"}]
  <2>1. lastWord' = [i \in Item |-> IF i \in new THEN ruling[i[1]] ELSE lastWord[i]]
    BY DEF Ingest, new
  <2> QED BY <2>1, ItemShape DEF TypeOK
<1>5. human' \in [Item -> Ruling \cup {"none"}]
  <2>1. human' = [i \in Item |-> IF i \in new THEN ruling[i[1]] ELSE human[i]]
    BY DEF Ingest, new
  <2> QED BY <2>1, ItemShape DEF TypeOK
<1>6. staged' \subseteq Item /\ todo' \in [Worker -> SUBSET Item]
  BY <1>1 DEF TypeOK, Ingest, new
<1>7. pc' \in [Worker -> {"idle", "down", "dispatch", "record", "resolve", "upsert",
                          "handoff", "audit", "audited", "finish"}]
  BY DEF TypeOK, Ingest
<1> QED BY <1>3, <1>4, <1>5, <1>6, <1>7 DEF TypeOK, Ingest, index, people

LEMMA DispatchType ==
    ASSUME TypeOK, NEW w \in Worker, Dispatch(w)
    PROVE  TypeOK'
<1>1. PICK i \in todo[w] :
         /\ todo' = [todo EXCEPT ![w] = @ \ {i}]
         /\ pc' = [pc EXCEPT ![w] = IF todo[w] = {i} THEN "idle" ELSE "dispatch"]
         /\ IF lastWord[i] \in Negative
            THEN UNCHANGED <<state, job, absorbed>>
            ELSE /\ state' = [state EXCEPT ![i] = "resolution_queued"]
                 /\ EnqueueOnce(Resolve(i))
  BY DEF Dispatch
<1>2. i \in Item /\ Resolve(i) \in Key
  BY ResolveKey DEF TypeOK
<1>3. job' \in [Key -> {"none", "queued", "running"}] /\ absorbed' \subseteq Item
  BY <1>1, <1>2, EnqueueType DEF TypeOK
<1>4. state' \in [Item -> ItemState]
  BY <1>1, <1>2 DEF TypeOK, ItemState
<1> QED BY <1>1, <1>3, <1>4 DEF TypeOK, Dispatch, index, people

LEMMA SearchType ==
    ASSUME TypeOK, Holding, NEW w \in Worker, Search(w)
    PROVE  TypeOK'
<1>1. at[w] \in Key /\ at[w].item[1] \in Listing
  BY KeyShape, ItemShape DEF TypeOK, Holding, StagePc, Search
<1>2. PICK r \in FindBusiness(books, at[w].item[1]) : found' = [found EXCEPT ![w] = r]
  BY DEF Search
<1>3. r \in Resolution
  BY <1>1, FoundShape
<1>4. found' \in [Worker -> Resolution]
  BY <1>2, <1>3 DEF TypeOK
<1> QED BY <1>4 DEF TypeOK, Search, items, index, people, history

LEMMA LinkType ==
    ASSUME TypeOK, NEW w \in Worker, NEW i \in Item, NEW b \in BusinessId, Link(w, i, b)
    PROVE  TypeOK'
<1>1. books' \in [BusinessId -> BusinessRow]
  BY ItemShape, UpsertShape DEF TypeOK, Link
<1>2. /\ business' \in [Item -> BusinessId \cup {0}]
      /\ state' \in [Item -> ItemState]
      /\ lastWord' \in [Item -> Ruling \cup {"none", "system"}]
  BY DEF TypeOK, Link, ItemState
<1>3. /\ disputed' \subseteq BusinessId
      /\ blind' \subseteq BusinessId
      /\ found' \in [Worker -> Resolution]
  BY NothingFound DEF TypeOK, Link
<1>4. pc' \in [Worker -> {"idle", "down", "dispatch", "record", "resolve", "upsert",
                          "handoff", "audit", "audited", "finish"}]
  BY DEF TypeOK, Link
<1> QED BY <1>1, <1>2, <1>3, <1>4 DEF TypeOK, Link, people

LEMMA UpsertFoundLink ==
    ASSUME TypeOK, Holding, NEW w \in Worker, UpsertFound(w)
    PROVE  /\ at[w] \in Key /\ at[w].item \in Item
           /\ found[w].business \in BusinessId
           /\ Link(w, at[w].item, found[w].business)
<1>1. at[w] \in Key /\ at[w].item \in Item
  BY KeyShape DEF TypeOK, Holding, StagePc, UpsertFound
<1>2. found[w] \in Resolution
  BY DEF TypeOK
<1> QED BY <1>1, <1>2 DEF UpsertFound, Resolution

LEMMA UpsertNewLink ==
    ASSUME TypeOK, Holding, NEW w \in Worker, UpsertNew(w)
    PROVE  /\ at[w] \in Key /\ at[w].item \in Item
           /\ FreeRow(books) \in BusinessId
           /\ Link(w, at[w].item, FreeRow(books))
<1>1. at[w] \in Key /\ at[w].item \in Item
  BY KeyShape DEF TypeOK, Holding, StagePc, UpsertNew
<1>2. FreeRow(books) \in BusinessId
  BY FreeRowShape DEF UpsertNew
<1> QED BY <1>1, <1>2 DEF UpsertNew

LEMMA HandOffType ==
    ASSUME TypeOK, Holding, NEW w \in Worker, HandOff(w)
    PROVE  TypeOK'
<1>1. at[w] \in Key /\ at[w].item \in Item /\ business[at[w].item] \in BusinessId
  BY KeyShape DEF TypeOK, Holding, StagePc, HandOff
<1>2. Audit(at[w].item, business[at[w].item]) \in Key
  BY <1>1, AuditKey
<1>3. job' \in [Key -> {"none", "queued", "running"}] /\ absorbed' \subseteq Item
  BY <1>2, EnqueueType DEF HandOff
<1> QED BY <1>3 DEF TypeOK, HandOff, items, index, people

LEMMA AuditStage ==
    ASSUME TypeOK, Holding, NEW w \in Worker, pc[w] \in {"audit", "audited"}
    PROVE  at[w] \in Key /\ at[w].item \in Item /\ at[w].business \in BusinessId
BY KeyShape DEF TypeOK, Holding, StagePc

LEMMA WithholdType ==
    ASSUME TypeOK, Holding, NEW w \in Worker, NEW outcome \in Withheld, Withhold(w, outcome)
    PROVE  TypeOK'
<1>1. at[w].item \in Item /\ at[w].business \in BusinessId
  BY AuditStage DEF Withhold
<1>2. outcome \in ItemState
  BY BoundsAssumption DEF ItemState
<1>3. /\ business' \in [Item -> BusinessId \cup {0}]
      /\ state' \in [Item -> ItemState]
      /\ lastWord' \in [Item -> Ruling \cup {"none", "system"}]
  BY <1>1, <1>2 DEF TypeOK, Withhold
<1> QED BY <1>3 DEF TypeOK, Withhold, people, history

LEMMA PublishType ==
    ASSUME TypeOK, Holding, NEW w \in Worker, Publish(w)
    PROVE  TypeOK'
<1>1. at[w].business \in BusinessId
  BY AuditStage DEF Publish
<1> QED BY <1>1 DEF TypeOK, Publish, items, people, history

LEMMA MarkEligibleType ==
    ASSUME TypeOK, Holding, NEW w \in Worker, MarkEligible(w)
    PROVE  TypeOK'
<1>1. at[w].item \in Item /\ at[w].business \in BusinessId
  BY AuditStage DEF MarkEligible
<1>2. /\ business' \in [Item -> BusinessId \cup {0}]
      /\ state' \in [Item -> ItemState]
      /\ lastWord' \in [Item -> Ruling \cup {"none", "system"}]
  BY <1>1 DEF TypeOK, MarkEligible, ItemState
<1> QED BY <1>2 DEF TypeOK, MarkEligible, index, people, history

LEMMA RuleType ==
    ASSUME TypeOK, NEW S \in SUBSET Item, NEW r \in Ruling, Rule(S, r)
    PROVE  /\ released' \subseteq Item
           /\ human' \in [Item -> Ruling \cup {"none"}]
           /\ raced' \subseteq Item
           /\ ruling' \in [Listing -> Ruling \cup {"none"}]
           /\ lastWord' \in [Item -> Ruling \cup {"none", "system"}]
           /\ vouched' \subseteq BusinessId
BY DEF TypeOK, Rule

LEMMA ReviewShape ==
    ASSUME TypeOK, NEW i \in Item, NEW a \in Review
    PROVE  /\ ReviewRuling(a) \in Ruling
           /\ ReviewState(i, a) \in ItemState \ {"absent"}
           /\ ReviewJob(i, a) \in Key \cup {NoJob}
           /\ ReviewJob(i, a) # NoJob => ReviewJob(i, a).item = i
<1>1. ReviewRuling(a) \in Ruling /\ ReviewState(i, a) \in ItemState \ {"absent"}
  BY DEF ReviewRuling, Ruling, ReviewState, ItemState
<1>2. CASE a \in {"accept", "reaudit"} /\ business[i] # 0
  <2>1. business[i] \in BusinessId
    BY <1>2 DEF TypeOK
  <2> QED BY <1>1, <1>2, <2>1, AuditKey DEF ReviewJob
<1>3. CASE ~(a \in {"accept", "reaudit"} /\ business[i] # 0)
  BY <1>1, <1>3, ResolveKey DEF ReviewJob
<1> QED BY <1>2, <1>3

LEMMA JudgeType ==
    ASSUME TypeOK, NEW i \in Item, NEW a \in Review, Judge(i, a)
    PROVE  TypeOK'
<1>1. /\ released' \subseteq Item
      /\ human' \in [Item -> Ruling \cup {"none"}]
      /\ raced' \subseteq Item
      /\ ruling' \in [Listing -> Ruling \cup {"none"}]
      /\ lastWord' \in [Item -> Ruling \cup {"none", "system"}]
      /\ vouched' \subseteq BusinessId
  BY RuleType, ReviewShape DEF Judge
<1>2. state' \in [Item -> ItemState] /\ request' \in Key \cup {NoJob}
  BY ReviewShape DEF TypeOK, Judge
<1>3. reviews' \in 0..MaxReviews
  BY BoundsAssumption DEF TypeOK, Judge
<1> QED BY <1>1, <1>2, <1>3 DEF TypeOK, Judge, index, procs

LEMMA FollowUpType ==
    ASSUME TypeOK, FollowUp
    PROVE  TypeOK'
<1>1. request \in Key
  BY DEF TypeOK, FollowUp
<1>2. job' \in [Key -> {"none", "queued", "running"}] /\ absorbed' \subseteq Item
  BY <1>1, EnqueueType DEF FollowUp
<1> QED BY <1>2 DEF TypeOK, FollowUp, items, index, procs

LEMMA RequestLostType ==
    ASSUME TypeOK, RequestLost
    PROVE  TypeOK'
<1>1. request.item \in Item
  BY KeyShape DEF TypeOK, RequestLost
<1>2. faults' \in 0..MaxFaults
  BY BoundsAssumption DEF TypeOK, RequestLost
<1> QED BY <1>1, <1>2 DEF TypeOK, RequestLost, items, index, procs

LEMMA StartValidateType ==
    ASSUME TypeOK, NEW S \in SUBSET Item, StartValidate(S)
    PROVE  TypeOK'
<1>1. reviews' \in 0..MaxReviews
  BY BoundsAssumption DEF TypeOK, StartValidate
<1> QED BY <1>1 DEF TypeOK, StartValidate, items, index, procs

LEMMA ValidateOneType ==
    ASSUME TypeOK, ValidateOne
    PROVE  TypeOK'
<1>1. PICK i \in pile :
         /\ state' = [state EXCEPT ![i] = "resolution_queued"]
         /\ EnqueueOnce(Resolve(i))
         /\ pile' = pile \ {i}
         /\ desk' = IF pile = {i} THEN "none" ELSE "validating"
  BY DEF ValidateOne
<1>2. Resolve(i) \in Key
  BY ResolveKey DEF TypeOK
<1>3. job' \in [Key -> {"none", "queued", "running"}] /\ absorbed' \subseteq Item
  BY <1>1, <1>2, EnqueueType
<1>4. state' \in [Item -> ItemState]
  BY <1>1 DEF TypeOK, ItemState
<1> QED BY <1>1, <1>3, <1>4 DEF TypeOK, ValidateOne, index, procs

LEMMA StartDiscardType ==
    ASSUME TypeOK, StartDiscard
    PROVE  TypeOK'
<1>1. reviews' \in 0..MaxReviews /\ pile' \subseteq Item
  BY BoundsAssumption DEF TypeOK, StartDiscard, Pending
<1> QED BY <1>1 DEF TypeOK, StartDiscard, items, index, procs, history

LEMMA DiscardType ==
    ASSUME TypeOK, Discard
    PROVE  TypeOK'
<1>1. /\ released' \subseteq Item
      /\ human' \in [Item -> Ruling \cup {"none"}]
      /\ raced' \subseteq Item
      /\ ruling' \in [Listing -> Ruling \cup {"none"}]
      /\ lastWord' \in [Item -> Ruling \cup {"none", "system"}]
      /\ vouched' \subseteq BusinessId
  <2>1. pile \in SUBSET Item /\ "rejected" \in Ruling /\ Rule(pile, "rejected")
    BY DEF TypeOK, Discard, Ruling
  <2> QED BY <2>1, RuleType
<1>2. state' \in [Item -> ItemState]
  BY DEF TypeOK, Discard, ItemState
<1> QED BY <1>1, <1>2 DEF TypeOK, Discard, index, procs

LEMMA TypeStep ==
    ASSUME TypeOK, Holding, [Next]_vars
    PROVE  TypeOK'
<1>1. CASE UNCHANGED vars
  BY <1>1 DEF TypeOK, vars, items, index, procs, people, history
<1>2. ASSUME NEW w \in Worker, Stage(w) PROVE TypeOK'
  BY <1>2, CompleteType, RecordFailureType, DispatchType, SearchType, UpsertFoundLink,
     UpsertNewLink, LinkType, HandOffType, WithholdType, PublishType, MarkEligibleType
     DEF Stage
<1>3. ASSUME NEW w \in Worker, \E exhausted \in BOOLEAN : Fail(w, exhausted) PROVE TypeOK'
  BY <1>3, FailType
<1>4. ASSUME NEW w \in Worker, Crash(w) \/ Recover(w) \/ \E k \in Key : Claim(w, k)
      PROVE  TypeOK'
  BY <1>4, CrashType, RecoverType, ClaimType
<1>5. ASSUME NEW w \in Worker, NEW listings \in SUBSET Listing, NEW reviewFirst \in BOOLEAN,
             Ingest(w, listings, reviewFirst)
      PROVE  TypeOK'
  BY <1>5, IngestType
<1>6. ASSUME NEW i \in Item, NEW a \in Review, Judge(i, a) PROVE TypeOK'
  BY <1>6, JudgeType
<1>7. ASSUME FollowUp \/ RequestLost \/ ValidateOne \/ StartDiscard \/ Discard PROVE TypeOK'
  BY <1>7, FollowUpType, RequestLostType, ValidateOneType, StartDiscardType, DiscardType
<1>8. ASSUME NEW S \in SUBSET Item, StartValidate(S) PROVE TypeOK'
  BY <1>8, StartValidateType
<1> QED BY <1>1, <1>2, <1>3, <1>4, <1>5, <1>6, <1>7, <1>8 DEF Next

(***************************************************************************)
(* Rows and the workers that hold them.                                    *)
(***************************************************************************)

\* enqueue_once touches no running row and leaves the key with an active one.
LEMMA EnqueueKeeps ==
    ASSUME TypeOK, NEW k \in Key, EnqueueOnce(k)
    PROVE  /\ \A j \in Key : job[j] = "running" => job'[j] = "running"
           /\ \A j \in Key : job[j] # "none" => job'[j] # "none"
           /\ \A j \in Key : j # k => job'[j] = job[j]
           /\ job'[k] # "none"
           /\ job[k] = "running" => k.item \in absorbed'
           /\ job[k] = "queued" => job'[k] = "queued" /\ absorbed' = absorbed
           /\ job[k] = "none" => job'[k] = "queued"
           /\ \A i \in absorbed : i \in absorbed' \/ (i = k.item /\ job'[k] = "queued")
BY DEF TypeOK, EnqueueOnce, Active

\* Every step of one worker leaves the others as they are.
LEMMA HoldingFrame ==
    ASSUME TypeOK, Holding,
           pc' = pc, at' = at, business' = business,
           \A j \in Key : job[j] = "running" => job'[j] = "running"
    PROVE  Holding'
BY DEF TypeOK, Holding

LEMMA HoldingStep ==
    ASSUME TypeOK, Holding, [Next]_vars
    PROVE  Holding'
<1>1. CASE UNCHANGED vars
  BY <1>1, HoldingFrame DEF vars, items, procs
<1>2. ASSUME NEW w \in Worker, NEW k \in Key, Claim(w, k) PROVE Holding'
  <2>1. k.stage \in {"resolve", "audit"} /\ k # NoJob
    BY KeyShape, NoJobIsNoKey
  <2>2. at[w] = NoJob /\ \A v \in Worker : at[v] # k
    BY <1>2, <2>1 DEF Claim, Holding, StagePc
  <2>3. /\ pc' = [pc EXCEPT ![w] = k.stage]
        /\ at' = [at EXCEPT ![w] = k]
        /\ job' = [job EXCEPT ![k] = "running"]
        /\ business' = business
    BY <1>2 DEF Claim, items
  <2> QED BY <2>1, <2>2, <2>3 DEF TypeOK, Holding, StagePc
<1>3. ASSUME NEW w \in Worker, Complete(w) \/ (\E e \in BOOLEAN : Fail(w, e)) PROVE Holding'
  <2>1. at[w] \in Key
    <3>1. pc[w] \in StagePc
      BY <1>3 DEF Complete, Fail, StagePc
    <3> QED BY <3>1 DEF TypeOK, Holding
  <2>2. /\ pc'[w] \in {"idle", "record"} /\ \A v \in Worker \ {w} : pc'[v] = pc[v]
        /\ at' = [at EXCEPT ![w] = NoJob]
        /\ \A j \in Key : j # at[w] => job'[j] = job[j]
        /\ business' = business
    BY <1>3, <2>1, ZenonT(40) DEF Complete, Fail, items, TypeOK
  <2> QED BY <2>1, <2>2 DEF TypeOK, Holding, StagePc
<1>4. ASSUME NEW w \in Worker, RecordFailure(w) \/ Crash(w) PROVE Holding'
  <2>1. CASE RecordFailure(w)
    <3>1. PICK p \in {"idle", "record"} : pc' = [pc EXCEPT ![w] = p]
      BY <2>1 DEF RecordFailure
    <3>2. pc[w] = "record" /\ at' = at /\ job' = job /\ business' = business
      BY <2>1 DEF RecordFailure
    <3> QED BY <3>1, <3>2 DEF TypeOK, Holding, StagePc
  <2>2. CASE Crash(w)
    <3>1. /\ pc' = [pc EXCEPT ![w] = "down"] /\ at' = [at EXCEPT ![w] = NoJob]
          /\ job' = job /\ business' = business
      BY <2>2 DEF Crash, items
    <3> QED BY <3>1 DEF TypeOK, Holding, StagePc
  <2> QED BY <1>4, <2>1, <2>2
<1>5. ASSUME NEW w \in Worker, Recover(w) PROVE Holding'
  <2>1. \A v \in Worker : at[v] # NoJob => job'[at[v]] = job[at[v]]
    BY <1>5 DEF Recover, TypeOK
  <2>2. /\ pc'[w] \in {"idle", "record"} /\ \A v \in Worker \ {w} : pc'[v] = pc[v]
        /\ pc[w] = "down" /\ at' = at /\ business' = business
    BY <1>5 DEF Recover, items, TypeOK
  <2> QED BY <2>1, <2>2 DEF TypeOK, Holding, StagePc
<1>6. ASSUME NEW w \in Worker, NEW listings \in SUBSET Listing, NEW reviewFirst \in BOOLEAN,
             Ingest(w, listings, reviewFirst)
      PROVE  Holding'
  <2>1. /\ pc'[w] \in {"idle", "dispatch"} /\ \A v \in Worker \ {w} : pc'[v] = pc[v]
        /\ pc[w] = "idle" /\ at' = at /\ job' = job /\ business' = business
    BY <1>6 DEF Ingest, TypeOK
  <2> QED BY <2>1 DEF TypeOK, Holding, StagePc
<1>7. ASSUME NEW w \in Worker, Dispatch(w) PROVE Holding'
  <2>1. PICK i \in todo[w] :
           /\ pc' = [pc EXCEPT ![w] = IF todo[w] = {i} THEN "idle" ELSE "dispatch"]
           /\ job' = job \/ EnqueueOnce(Resolve(i))
    BY <1>7 DEF Dispatch
  <2>2. Resolve(i) \in Key
    BY ResolveKey DEF TypeOK
  <2>3. \A j \in Key : job[j] = "running" => job'[j] = "running"
    BY <2>1, <2>2, EnqueueKeeps
  <2>4. /\ pc'[w] \in {"idle", "dispatch"} /\ \A v \in Worker \ {w} : pc'[v] = pc[v]
        /\ pc[w] = "dispatch" /\ at' = at /\ business' = business
    BY <1>7, <2>1 DEF Dispatch, TypeOK
  <2> QED BY <2>3, <2>4 DEF TypeOK, Holding, StagePc
<1>8. ASSUME NEW w \in Worker, Search(w) PROVE Holding'
  <2>1. /\ pc[w] = "resolve" /\ pc' = [pc EXCEPT ![w] = "upsert"]
        /\ at' = at /\ job' = job /\ business' = business
    BY <1>8 DEF Search, items
  <2> QED BY <2>1 DEF TypeOK, Holding, StagePc
<1>9. ASSUME NEW w \in Worker, UpsertFound(w) \/ UpsertNew(w) PROVE Holding'
  <2>1. PICK b \in BusinessId : pc[w] = "upsert" /\ Link(w, at[w].item, b)
    BY <1>9, UpsertFoundLink, UpsertNewLink DEF UpsertFound, UpsertNew
  <2>2. at[w] \in Key /\ at[w].item \in Item
    BY <1>9, UpsertFoundLink, UpsertNewLink
  <2>3. /\ pc'[w] \in {"finish", "handoff"} /\ \A v \in Worker \ {w} : pc'[v] = pc[v]
        /\ at' = at /\ job' = job /\ business' = [business EXCEPT ![at[w].item] = b]
    BY <2>1 DEF Link, TypeOK
  <2>4. \A i \in Item : business[i] # 0 => business'[i] # 0
    BY <2>2, <2>3, NoItemZero DEF TypeOK
  <2>5. business'[at[w].item] # 0
    BY <2>2, <2>3, NoItemZero DEF TypeOK
  <2>6. \A v \in Worker : at[v] # NoJob => at[v].item \in Item
    BY KeyShape DEF TypeOK
  <2> QED BY <2>1, <2>2, <2>3, <2>4, <2>5, <2>6 DEF TypeOK, Holding, StagePc
<1>10. ASSUME NEW w \in Worker, HandOff(w) PROVE Holding'
  <2>1. at[w] \in Key /\ at[w].item \in Item /\ business[at[w].item] \in BusinessId
    BY <1>10, KeyShape DEF TypeOK, Holding, StagePc, HandOff
  <2>2. \A j \in Key : job[j] = "running" => job'[j] = "running"
    BY <1>10, <2>1, AuditKey, EnqueueKeeps DEF HandOff
  <2>3. /\ pc[w] = "handoff" /\ pc' = [pc EXCEPT ![w] = "finish"]
        /\ at' = at /\ business' = business
    BY <1>10 DEF HandOff, items
  <2> QED BY <2>2, <2>3 DEF TypeOK, Holding, StagePc
<1>11. ASSUME NEW w \in Worker, MarkEligible(w) \/ (\E o \in Withheld : Withhold(w, o)) PROVE Holding'
  <2>1. at[w] \in Key /\ at[w].item \in Item /\ at[w].business \in BusinessId
    BY <1>11, AuditStage DEF MarkEligible, Withhold
  <2>2. /\ pc[w] \in {"audit", "audited"} /\ pc' = [pc EXCEPT ![w] = "finish"]
        /\ at' = at /\ job' = job
        /\ business' = [business EXCEPT ![at[w].item] = at[w].business]
    BY <1>11 DEF MarkEligible, Withhold
  <2>3. \A i \in Item : business[i] # 0 => business'[i] # 0
    BY <2>1, <2>2, NoItemZero DEF TypeOK
  <2>4. \A v \in Worker : at[v] # NoJob => at[v].item \in Item
    BY KeyShape DEF TypeOK
  <2> QED BY <2>1, <2>2, <2>3, <2>4 DEF TypeOK, Holding, StagePc
<1>12. ASSUME NEW w \in Worker, Publish(w) PROVE Holding'
  <2>1. /\ pc[w] = "audit" /\ pc' = [pc EXCEPT ![w] = "audited"]
        /\ at' = at /\ job' = job /\ business' = business
    BY <1>12 DEF Publish, items
  <2> QED BY <2>1 DEF TypeOK, Holding, StagePc
<1>13. CASE FollowUp
  <2>1. \A j \in Key : job[j] = "running" => job'[j] = "running"
    BY <1>13, EnqueueKeeps DEF FollowUp, TypeOK
  <2> QED BY <1>13, <2>1, HoldingFrame DEF FollowUp, procs, items
<1>14. CASE ValidateOne
  <2>1. \A j \in Key : job[j] = "running" => job'[j] = "running"
    BY <1>14, ResolveKey, EnqueueKeeps DEF ValidateOne, TypeOK
  <2> QED BY <1>14, <2>1, HoldingFrame DEF ValidateOne, procs
<1>15. ASSUME NEW i \in Item, NEW a \in Review, Judge(i, a) PROVE Holding'
  BY <1>15, HoldingFrame DEF Judge, procs
<1>16. ASSUME NEW S \in SUBSET Item, StartValidate(S) PROVE Holding'
  BY <1>16, HoldingFrame DEF StartValidate, procs, items
<1>17. CASE RequestLost \/ StartDiscard \/ Discard
  BY <1>17, HoldingFrame DEF RequestLost, StartDiscard, Discard, procs, items
<1> QED
  BY <1>1, <1>2, <1>3, <1>4, <1>5, <1>6, <1>7, <1>8, <1>9, <1>10, <1>11, <1>12, <1>13,
     <1>14, <1>15, <1>16, <1>17 DEF Next, Stage

(***************************************************************************)
(* Which items a step can touch.                                           *)
(***************************************************************************)

\* A held row makes its item busy.
LEMMA HeldIsBusy ==
    ASSUME TypeOK, Holding, NEW w \in Worker, at[w] # NoJob
    PROVE  at[w] \in Key /\ at[w].item \in Item /\ Busy(at[w].item)
<1>1. at[w] \in Key /\ job[at[w]] = "running"
  BY DEF TypeOK, Holding
<1> QED BY <1>1, KeyShape DEF Busy, Active

LEMMA EnqueueBusy ==
    ASSUME TypeOK, NEW k \in Key, EnqueueOnce(k), NEW i \in Item
    PROVE  /\ Busy(i)' => Busy(i) \/ i = k.item
           /\ Busy(i) => Busy(i)'
BY EnqueueKeeps DEF Busy, Active

\* The steps that only end work on an item: who is busy, or has one in todo.
LEMMA WorkerBusy ==
    ASSUME TypeOK, Holding, NEW w \in Worker, NEW i \in Item,
           \/ Complete(w)
           \/ \E e \in BOOLEAN : Fail(w, e)
           \/ \E k \in Key : Claim(w, k)
           \/ RecordFailure(w) \/ Crash(w) \/ Recover(w)
           \/ Search(w) \/ Publish(w)
    PROVE  /\ Busy(i)' => Busy(i)
           /\ \A v \in Worker : i \in todo'[v] => i \in todo[v] \/ Busy(i)
           /\ state'[i] = state[i] \/ (state'[i] = "failed" /\ Recording(i))
           /\ UNCHANGED <<staged, business, request, desk, pile, human, released, raced>>
<1>1. CASE Complete(w) \/ \E e \in BOOLEAN : Fail(w, e)
  <2>1. at[w] # NoJob
    <3>1. pc[w] \in StagePc
      BY <1>1 DEF Complete, Fail, StagePc
    <3> QED BY <3>1 DEF Holding
  <2>2. at[w] \in Key /\ at[w].item \in Item /\ Busy(at[w].item) /\ job[at[w]] = "running"
    BY <2>1, HeldIsBusy DEF Holding
  <2>3. \A k \in Key : Active(k)' => Active(k)
    BY <1>1, <2>2 DEF Complete, Fail, Active, TypeOK
  <2>4. \A v \in Worker : i \in todo'[v] => i \in todo[v] \/ i = at[w].item
    <3>1. CASE Complete(w)
      BY <3>1 DEF Complete
    <3>2. ASSUME NEW e \in BOOLEAN, Fail(w, e) PROVE i \in todo'[w] => i = at[w].item
      BY <3>2 DEF Fail, TypeOK
    <3>3. ASSUME NEW e \in BOOLEAN, Fail(w, e), NEW v \in Worker \ {w} PROVE todo'[v] = todo[v]
      BY <3>3 DEF Fail, TypeOK
    <3> QED BY <1>1, <3>1, <3>2, <3>3
  <2> QED BY <1>1, <2>2, <2>3, <2>4 DEF Complete, Fail, Busy, items, people, history
<1>2. CASE \E k \in Key : Claim(w, k)
  <2>1. \A k \in Key : Active(k)' => Active(k)
    BY <1>2 DEF Claim, Active, TypeOK
  <2> QED BY <1>2, <2>1 DEF Claim, Busy, items, people, history
<1>3. CASE RecordFailure(w)
  <2>1. PICK j \in todo[w] : /\ state' = [state EXCEPT ![j] = "failed"]
                             /\ todo' = [todo EXCEPT ![w] = @ \ {j}]
    BY <1>3 DEF RecordFailure
  <2>2. pc[w] = "record" /\ job' = job
    BY <1>3 DEF RecordFailure
  <2>3. state'[i] = state[i] \/ (state'[i] = "failed" /\ Recording(i))
    BY <2>1, <2>2 DEF Recording, TypeOK
  <2>4. \A v \in Worker : i \in todo'[v] => i \in todo[v]
    BY <2>1 DEF TypeOK
  <2> QED BY <1>3, <2>2, <2>3, <2>4 DEF RecordFailure, Busy, Active, people, history
<1>4. CASE Crash(w)
  <2>1. \A v \in Worker : i \in todo'[v] => i \in todo[v]
    BY <1>4 DEF Crash, TypeOK
  <2> QED BY <1>4, <2>1 DEF Crash, Busy, Active, items, people
<1>5. CASE Recover(w)
  <2> DEFINE left == {k \in Key : job[k] = "running" /\ \A v \in Worker : at[v] # k}
  <2>1. PICK exhausted \in SUBSET left :
           /\ job' = [k \in Key |-> IF k \in exhausted THEN "none"
                                    ELSE IF k \in left THEN "queued" ELSE job[k]]
           /\ todo' = [todo EXCEPT ![w] = {k.item : k \in exhausted}]
    BY <1>5 DEF Recover
  <2>2. \A k \in Key : Active(k)' => Active(k)
    BY <2>1 DEF Active, TypeOK
  <2>3. \A k \in exhausted : Busy(k.item)
    BY <2>1 DEF Busy, Active
  <2>4. \A v \in Worker : i \in todo'[v] => i \in todo[v] \/ Busy(i)
    BY <2>1, <2>3 DEF TypeOK
  <2> QED BY <1>5, <2>2, <2>4 DEF Recover, Busy, items, people, history
<1>6. CASE Search(w) \/ Publish(w)
  BY <1>6 DEF Search, Publish, Busy, Active, items, people, history
<1> QED BY <1>1, <1>2, <1>3, <1>4, <1>5, <1>6

\* The steps that write the item of the row the worker holds.
LEMMA StageWrites ==
    ASSUME TypeOK, Holding, NEW w \in Worker, NEW i \in Item,
           \/ UpsertFound(w) \/ UpsertNew(w)
           \/ MarkEligible(w) \/ \E o \in Withheld : Withhold(w, o)
    PROVE  /\ at[w] \in Key /\ at[w].item \in Item /\ Busy(at[w].item)
           /\ i # at[w].item => /\ state'[i] = state[i]
                                /\ business'[i] = business[i]
                                /\ lastWord'[i] = lastWord[i]
           /\ state'[at[w].item] # "absent"
           /\ UNCHANGED <<staged, job, todo, request, desk, pile, human, released, raced>>
<1>1. at[w] # NoJob
  <2>1. pc[w] \in StagePc
    BY DEF UpsertFound, UpsertNew, MarkEligible, Withhold, StagePc
  <2> QED BY <2>1 DEF Holding
<1>2. at[w] \in Key /\ at[w].item \in Item /\ Busy(at[w].item)
  BY <1>1, HeldIsBusy
<1>3. CASE UpsertFound(w) \/ UpsertNew(w)
  <2>1. PICK b \in BusinessId : Link(w, at[w].item, b)
    BY <1>3, UpsertFoundLink, UpsertNewLink
  <2> QED BY <1>2, <2>1 DEF Link, people, TypeOK
<1>4. CASE MarkEligible(w) \/ \E o \in Withheld : Withhold(w, o)
  <2>1. \A o \in Withheld : o # "absent"
    BY BoundsAssumption
  <2> QED BY <1>2, <1>4, <2>1 DEF MarkEligible, Withhold, people, history, TypeOK
<1> QED BY <1>2, <1>3, <1>4

LEMMA UnstoredStep ==
    ASSUME TypeOK, Holding, Unstored, [Next]_vars
    PROVE  Unstored'
<1> SUFFICES ASSUME NEW i \in Item, ~Stored(i)'
             PROVE  /\ i \notin staged' /\ i \notin pile'
                    /\ business'[i] = 0
                    /\ ~Busy(i)' /\ ~Requested(i)'
                    /\ \A w \in Worker : i \notin todo'[w]
  BY DEF Unstored
<1> DEFINE Known == /\ i \notin staged /\ i \notin pile
                    /\ business[i] = 0
                    /\ ~Busy(i) /\ ~Requested(i)
                    /\ \A w \in Worker : i \notin todo[w]
<1>0. ~Stored(i) => Known
  BY DEF Unstored
<1>1. CASE UNCHANGED vars
  BY <1>0, <1>1 DEF vars, items, procs, people, Stored, Busy, Active, Requested
<1>2. ASSUME NEW w \in Worker,
             \/ Complete(w) \/ (\E e \in BOOLEAN : Fail(w, e)) \/ (\E k \in Key : Claim(w, k))
             \/ RecordFailure(w) \/ Crash(w) \/ Recover(w) \/ Search(w) \/ Publish(w)
      PROVE  Known'
  BY <1>0, <1>2, WorkerBusy DEF Stored, Requested
<1>3. ASSUME NEW w \in Worker,
             \/ UpsertFound(w) \/ UpsertNew(w)
             \/ MarkEligible(w) \/ \E o \in Withheld : Withhold(w, o)
      PROVE  Known'
  BY <1>0, <1>3, StageWrites DEF Stored, Requested, Busy, Active
<1>4. ASSUME NEW w \in Worker, HandOff(w) PROVE Known'
  <2>1. at[w] # NoJob /\ business[at[w].item] \in BusinessId
    BY <1>4, KeyShape DEF HandOff, Holding, StagePc, TypeOK
  <2>2. Audit(at[w].item, business[at[w].item]) \in Key
        /\ Audit(at[w].item, business[at[w].item]).item = at[w].item
    BY <2>1, HeldIsBusy, AuditKey
  <2>3. Busy(at[w].item)
    BY <2>1, HeldIsBusy
  <2> QED BY <1>0, <1>4, <2>2, <2>3, EnqueueBusy DEF HandOff, items, people, Stored, Requested
<1>5. ASSUME NEW w \in Worker, Dispatch(w) PROVE Known'
  <2>1. PICK j \in todo[w] :
           /\ todo' = [todo EXCEPT ![w] = @ \ {j}]
           /\ \/ state' = state /\ job' = job
              \/ state' = [state EXCEPT ![j] = "resolution_queued"] /\ EnqueueOnce(Resolve(j))
    BY <1>5 DEF Dispatch
  <2>2. Resolve(j) \in Key /\ Resolve(j).item = j /\ j \in Item
    BY ResolveKey DEF TypeOK
  <2>3. ~Stored(i)
    BY <2>1, <2>2 DEF Stored, TypeOK
  <2>4. i # j
    BY <1>0, <2>3
  <2>5. ~Busy(i)'
    BY <1>0, <2>1, <2>2, <2>3, <2>4, EnqueueBusy DEF Busy, Active
  <2>6. \A v \in Worker : i \notin todo'[v]
    BY <1>0, <2>1, <2>3 DEF TypeOK
  <2> QED BY <1>0, <1>5, <2>3, <2>5, <2>6 DEF Dispatch, people, Requested
<1>6. ASSUME NEW w \in Worker, NEW listings \in SUBSET Listing, NEW reviewFirst \in BOOLEAN,
             Ingest(w, listings, reviewFirst)
      PROVE  Known'
  <2> DEFINE new == {<<l, NextCopy(l)>> : l \in listings}
  <2>1. \A l \in Listing : CarriedState(l) # "absent"
    BY DEF CarriedState
  <2>2. /\ state' = [j \in Item |-> IF j \in new THEN CarriedState(j[1]) ELSE state[j]]
        /\ staged' \subseteq staged \cup new
        /\ \A v \in Worker : todo'[v] \subseteq todo[v] \cup new
        /\ business' = business /\ job' = job /\ request' = request /\ pile' = pile
    BY <1>6 DEF Ingest, people, TypeOK
  <2> HIDE DEF new
  <2>3. i \notin new /\ ~Stored(i)
    BY <2>1, <2>2, ItemShape DEF Stored, TypeOK
  <2> QED BY <1>0, <2>2, <2>3 DEF Requested, Busy, Active
<1>7. ASSUME NEW j \in Item, NEW a \in Review, Judge(j, a) PROVE Known'
  <2>1. /\ Stored(j) /\ state' = [state EXCEPT ![j] = ReviewState(j, a)]
        /\ request' = ReviewJob(j, a)
        /\ UNCHANGED <<staged, business, job, todo, pile>>
    BY <1>7 DEF Judge, procs
  <2>2. ~Stored(i)
    BY <2>1, ReviewShape DEF Stored, TypeOK
  <2>3. i # j
    BY <2>1, <2>2
  <2> QED BY <1>0, <2>1, <2>2, <2>3, ReviewShape DEF Requested, Busy, Active
<1>8. CASE FollowUp
  <2>1. request \in Key /\ EnqueueOnce(request)
    BY <1>8 DEF FollowUp, TypeOK
  <2>2. ~Stored(i) /\ i # request.item
    BY <1>0, <1>8 DEF FollowUp, items, Stored, Requested
  <2> QED BY <1>0, <1>8, <2>1, <2>2, EnqueueBusy DEF FollowUp, items, procs, Requested
<1>9. CASE ValidateOne
  <2>1. PICK j \in pile : /\ state' = [state EXCEPT ![j] = "resolution_queued"]
                          /\ EnqueueOnce(Resolve(j)) /\ pile' = pile \ {j}
    BY <1>9 DEF ValidateOne
  <2>2. Resolve(j) \in Key /\ Resolve(j).item = j /\ j \in Item
    BY ResolveKey DEF TypeOK
  <2>3. ~Stored(i)
    BY <2>1, <2>2 DEF Stored, TypeOK
  <2>4. i # j
    BY <1>0, <2>3
  <2> QED BY <1>0, <1>9, <2>1, <2>2, <2>3, <2>4, EnqueueBusy DEF ValidateOne, procs, Requested
<1>10. ASSUME NEW S \in SUBSET Item, StartValidate(S) PROVE Known'
  <2>1. ~Stored(i) /\ i \notin S
    BY <1>0, <1>10 DEF StartValidate, items, Stored, Pending
  <2> QED BY <1>0, <1>10, <2>1 DEF StartValidate, items, procs, Requested, Busy, Active
<1>11. CASE StartDiscard
  <2>1. ~Stored(i) /\ i \notin Pending
    BY <1>0, <1>11 DEF StartDiscard, items, Stored, Pending
  <2> QED BY <1>0, <1>11, <2>1 DEF StartDiscard, items, procs, Requested, Busy, Active
<1>12. CASE Discard
  <2>1. ~Stored(i)
    BY <1>12 DEF Discard, Stored, TypeOK
  <2> QED BY <1>0, <1>12, <2>1 DEF Discard, procs, Requested, Busy, Active
<1>13. CASE RequestLost
  BY <1>0, <1>13 DEF RequestLost, items, procs, Stored, Requested, Busy, Active
<1> QED
  BY <1>1, <1>2, <1>3, <1>4, <1>5, <1>6, <1>7, <1>8, <1>9, <1>10, <1>11, <1>12, <1>13
     DEF Next, Stage

(***************************************************************************)
(* The review gate.                                                        *)
(***************************************************************************)

LEMMA GatedStep ==
    ASSUME TypeOK, Holding, Unstored, Gated, [Next]_vars
    PROVE  Gated'
<1> DEFINE Led(i) == business[i] # 0 \/ Busy(i) \/ Requested(i) \/ Validating(i)
<1> DEFINE Open(i) == i \in staged /\ Led(i) => i \in released
<1>0. /\ \A i \in Item : Open(i)
      /\ \A w \in Worker : pc[w] = "dispatch" => todo[w] \cap staged = {}
  BY DEF Gated
<1> SUFFICES /\ \A i \in Item : Open(i)'
             /\ \A w \in Worker : pc'[w] = "dispatch" => todo'[w] \cap staged' = {}
  <2>1. staged' \subseteq Item
    BY TypeStep DEF TypeOK
  <2> QED BY <2>1 DEF Gated
<1>1. CASE UNCHANGED vars
  BY <1>0, <1>1 DEF vars, items, procs, people, history, Busy, Active, Requested, Validating
<1>2. ASSUME NEW w \in Worker,
             \/ Complete(w) \/ (\E e \in BOOLEAN : Fail(w, e)) \/ (\E k \in Key : Claim(w, k))
             \/ RecordFailure(w) \/ Crash(w) \/ Recover(w) \/ Search(w) \/ Publish(w)
      PROVE  Gated'
  <2>1. \A i \in Item : Open(i)'
    BY <1>0, <1>2, WorkerBusy DEF Requested, Validating
  <2>2. pc'[w] # "dispatch" /\ \A v \in Worker \ {w} : pc'[v] = pc[v] /\ todo'[v] = todo[v]
    <3>1. CASE \E e \in BOOLEAN : Fail(w, e)
      BY <3>1 DEF Fail, TypeOK
    <3>2. CASE \E k \in Key : Claim(w, k)
      BY <3>2, KeyShape DEF Claim, TypeOK
    <3>3. CASE RecordFailure(w)
      BY <3>3 DEF RecordFailure, TypeOK
    <3>4. CASE Recover(w)
      BY <3>4 DEF Recover, TypeOK
    <3>5. CASE Complete(w) \/ Crash(w) \/ Search(w) \/ Publish(w)
      BY <3>5 DEF Complete, Crash, Search, Publish, TypeOK
    <3> QED BY <1>2, <3>1, <3>2, <3>3, <3>4, <3>5
  <2>3. UNCHANGED staged
    BY <1>2, WorkerBusy DEF Complete, Fail, Claim, RecordFailure, Crash, Recover, Search, Publish, items
  <2>4. staged' \subseteq Item
    BY TypeStep DEF TypeOK
  <2> QED BY <1>0, <2>1, <2>2, <2>3, <2>4 DEF Gated
<1>3. ASSUME NEW w \in Worker,
             \/ UpsertFound(w) \/ UpsertNew(w)
             \/ MarkEligible(w) \/ \E o \in Withheld : Withhold(w, o)
      PROVE  Gated'
  <2>1. \A i \in Item : Open(i)'
    BY <1>0, <1>3, StageWrites DEF Requested, Validating, Busy, Active
  <2>2. pc'[w] # "dispatch" /\ \A v \in Worker \ {w} : pc'[v] = pc[v]
    <3>1. CASE UpsertFound(w) \/ UpsertNew(w)
      <4>1. PICK b \in BusinessId : Link(w, at[w].item, b)
        BY <3>1, UpsertFoundLink, UpsertNewLink
      <4> QED BY <4>1 DEF Link, TypeOK
    <3>2. CASE MarkEligible(w) \/ \E o \in Withheld : Withhold(w, o)
      BY <3>2 DEF MarkEligible, Withhold, TypeOK
    <3> QED BY <1>3, <3>1, <3>2
  <2>3. UNCHANGED <<staged, todo>>
    <3>1. at[w].item \in Item
      BY <1>3, UpsertFoundLink, UpsertNewLink, AuditStage DEF MarkEligible, Withhold
    <3> QED BY <1>3, <3>1, StageWrites
  <2>4. staged' \subseteq Item
    BY TypeStep DEF TypeOK
  <2> QED BY <1>0, <2>1, <2>2, <2>3, <2>4 DEF Gated
<1>4. ASSUME NEW w \in Worker, HandOff(w) PROVE Gated'
  <2>1. at[w] # NoJob /\ business[at[w].item] \in BusinessId
    BY <1>4, KeyShape DEF HandOff, Holding, StagePc, TypeOK
  <2>2. Audit(at[w].item, business[at[w].item]) \in Key
        /\ Audit(at[w].item, business[at[w].item]).item = at[w].item
    BY <2>1, HeldIsBusy, AuditKey
  <2>3. Busy(at[w].item)
    BY <2>1, HeldIsBusy
  <2>4. \A i \in Item : Busy(i)' => Busy(i)
    BY <1>4, <2>2, <2>3, EnqueueBusy DEF HandOff
  <2>5. /\ pc' = [pc EXCEPT ![w] = "finish"]
        /\ UNCHANGED <<staged, business, request, desk, pile, released, todo>>
    BY <1>4 DEF HandOff, items, people
  <2> QED BY <1>0, <2>4, <2>5 DEF Gated, Requested, Validating, TypeOK
<1>5. ASSUME NEW w \in Worker, Dispatch(w) PROVE Gated'
  <2>1. PICK j \in todo[w] :
           /\ todo' = [todo EXCEPT ![w] = @ \ {j}]
           /\ pc' = [pc EXCEPT ![w] = IF todo[w] = {j} THEN "idle" ELSE "dispatch"]
           /\ job' = job \/ EnqueueOnce(Resolve(j))
    BY <1>5 DEF Dispatch
  <2>2. Resolve(j) \in Key /\ Resolve(j).item = j /\ j \in Item
    BY ResolveKey DEF TypeOK
  <2>3. pc[w] = "dispatch" /\ j \notin staged
    BY <1>0, <1>5 DEF Dispatch
  <2>4. \A i \in staged : Busy(i)' => Busy(i)
    BY <2>1, <2>2, <2>3, EnqueueBusy DEF Busy, Active, TypeOK
  <2>5. UNCHANGED <<staged, business, request, desk, pile, released>>
    BY <1>5 DEF Dispatch, people
  <2>6. \A v \in Worker : todo'[v] \subseteq todo[v] /\ (pc'[v] = "dispatch" => pc[v] = "dispatch")
    BY <2>1, <2>3 DEF TypeOK
  <2> QED BY <1>0, <2>4, <2>5, <2>6 DEF Gated, Requested, Validating, TypeOK
<1>6. ASSUME NEW w \in Worker, NEW listings \in SUBSET Listing, NEW reviewFirst \in BOOLEAN,
             Ingest(w, listings, reviewFirst)
      PROVE  Gated'
  <2> DEFINE new == {<<l, NextCopy(l)>> : l \in listings}
  <2>1. \A i \in new : i \in Item /\ ~Stored(i)
    BY <1>6, NextCopyShape DEF Ingest
  <2>2. /\ staged' = IF reviewFirst THEN staged \cup new ELSE staged
        /\ todo' = [todo EXCEPT ![w] = IF reviewFirst THEN {} ELSE new]
        /\ pc' = [pc EXCEPT ![w] = IF reviewFirst THEN "idle" ELSE "dispatch"]
        /\ UNCHANGED <<business, job, request, desk, pile, released>>
    BY <1>6 DEF Ingest, people
  <2> HIDE DEF new
  <2>3. \A i \in new : i \notin staged /\ ~Led(i) /\ \A v \in Worker : i \notin todo[v]
    BY <2>1 DEF Unstored, Validating
  <2>4. \A i \in Item : Led(i)' <=> Led(i)
    BY <2>2 DEF Busy, Active, Requested, Validating
  <2>5. \A i \in Item : Open(i)'
    BY <1>0, <2>2, <2>3, <2>4
  <2>6. ASSUME NEW v \in Worker, pc'[v] = "dispatch" PROVE todo'[v] \cap staged' = {}
    <3>1. CASE v = w
      BY <2>2, <2>3, <2>6, <3>1 DEF TypeOK
    <3>2. CASE v # w
      BY <1>0, <2>2, <2>3, <2>6, <3>2 DEF TypeOK
    <3> QED BY <3>1, <3>2
  <2>7. staged' \subseteq Item
    BY TypeStep DEF TypeOK
  <2> QED BY <2>5, <2>6, <2>7 DEF Gated
<1>7. ASSUME NEW j \in Item, NEW a \in Review, Judge(j, a) PROVE Gated'
  <2>1. /\ request' = ReviewJob(j, a) /\ Rule({j}, ReviewRuling(a))
        /\ UNCHANGED <<staged, business, job, desk, pile, pc, todo>>
    BY <1>7 DEF Judge, procs
  <2>2. ReviewJob(j, a) # NoJob => ReviewJob(j, a).item = j /\ ReviewRuling(a) = "accepted"
    BY ReviewShape DEF ReviewJob, ReviewRuling
  <2>3. /\ released \subseteq released'
        /\ ReviewRuling(a) = "accepted" => j \in released'
    BY <2>1 DEF Rule
  <2>4. \A i \in Item : Led(i)' => Led(i) \/ (i = j /\ j \in released')
    BY <2>1, <2>2, <2>3 DEF Busy, Active, Requested, Validating
  <2> QED BY <1>0, <2>1, <2>3, <2>4 DEF Gated, TypeOK
<1>8. CASE FollowUp
  <2>1. request \in Key /\ EnqueueOnce(request)
    BY <1>8 DEF FollowUp, TypeOK
  <2>2. \A i \in Item : Busy(i)' => Busy(i) \/ Requested(i)
    BY <2>1, <1>8, EnqueueBusy DEF FollowUp, Requested
  <2>3. request' = NoJob /\ UNCHANGED <<staged, business, released, desk, pile, pc, todo>>
    BY <1>8 DEF FollowUp, items, procs
  <2> QED BY <1>0, <2>2, <2>3 DEF Gated, Requested, Validating, TypeOK
<1>9. CASE ValidateOne
  <2>1. PICK j \in pile : /\ EnqueueOnce(Resolve(j)) /\ pile' = pile \ {j}
                          /\ desk' = IF pile = {j} THEN "none" ELSE "validating"
    BY <1>9 DEF ValidateOne
  <2>2. Resolve(j) \in Key /\ Resolve(j).item = j /\ Validating(j)
    BY <1>9, ResolveKey DEF ValidateOne, Validating, TypeOK
  <2>3. \A i \in Item : Busy(i)' => Busy(i) \/ Validating(i)
    BY <2>1, <2>2, EnqueueBusy
  <2>4. \A i \in Item : Validating(i)' => Validating(i)
    BY <1>9, <2>1 DEF Validating, ValidateOne
  <2>5. UNCHANGED <<staged, business, released, request, pc, todo>>
    BY <1>9 DEF ValidateOne, procs
  <2> QED BY <1>0, <2>3, <2>4, <2>5 DEF Gated, Requested, TypeOK
<1>10. ASSUME NEW S \in SUBSET Item, StartValidate(S) PROVE Gated'
  <2>1. /\ pile' = S /\ released' = released \cup S
        /\ UNCHANGED <<staged, business, job, request, pc, todo>>
    BY <1>10 DEF StartValidate, items, procs
  <2>2. \A i \in Item : Led(i)' => Led(i) \/ i \in S
    BY <2>1 DEF Busy, Active, Requested, Validating
  <2> QED BY <1>0, <2>1, <2>2 DEF Gated, TypeOK
<1>11. CASE StartDiscard \/ Discard \/ RequestLost
  <2>1. UNCHANGED <<staged, business, job, pc, todo>> /\ released \subseteq released'
    BY <1>11 DEF StartDiscard, Discard, RequestLost, items, procs, history, Rule
  <2>2. \A i \in Item : Led(i)' => Led(i)
    BY <1>11, <2>1 DEF StartDiscard, Discard, RequestLost, Busy, Active, Requested, Validating
  <2> QED BY <1>0, <2>1, <2>2 DEF Gated, TypeOK
<1> HIDE DEF Open
<1>12. Gated' => /\ \A i \in Item : Open(i)'
                 /\ \A w \in Worker : pc'[w] = "dispatch" => todo'[w] \cap staged' = {}
  BY DEF Gated, Open
<1> QED
  BY <1>1, <1>2, <1>3, <1>4, <1>5, <1>6, <1>7, <1>8, <1>9, <1>10, <1>11, <1>12
     DEF Next, Stage

(***************************************************************************)
(* The standing of a rejection.                                            *)
(***************************************************************************)

\* Who records failures, and which decision a step of a worker overwrites.
LEMMA WorkerRecording ==
    ASSUME TypeOK, Holding, NEW w \in Worker, NEW i \in Item,
           \/ Complete(w)
           \/ \E e \in BOOLEAN : Fail(w, e)
           \/ \E k \in Key : Claim(w, k)
           \/ RecordFailure(w) \/ Crash(w) \/ Recover(w)
           \/ Search(w) \/ Publish(w)
    PROVE  /\ Recording(i)' => Recording(i) \/ Busy(i)
           /\ lastWord'[i] = lastWord[i] \/ Recording(i)
<1>1. CASE \E e \in BOOLEAN : Fail(w, e)
  <2>1. /\ \A v \in Worker : i \in todo'[v] => i \in todo[v] \/ Busy(i)
        /\ UNCHANGED lastWord
    BY <1>1, WorkerBusy DEF Fail, items
  <2>2. \A v \in Worker \ {w} : pc'[v] = pc[v]
    BY <1>1 DEF Fail, TypeOK
  <2>3. \A e \in BOOLEAN : Fail(w, e) => todo'[w] \subseteq {at[w].item} /\ at[w] # NoJob
    BY DEF Fail, TypeOK, Holding, StagePc
  <2>4. i \in todo'[w] => Busy(i)
    BY <1>1, <2>3, HeldIsBusy
  <2> QED BY <2>1, <2>2, <2>4 DEF Recording, TypeOK, Fail
<1>2. CASE \E k \in Key : Claim(w, k)
  <2>1. pc'[w] # "record" /\ \A v \in Worker \ {w} : pc'[v] = pc[v]
    BY <1>2, KeyShape DEF Claim, TypeOK
  <2> QED BY <1>2, <2>1 DEF Recording, Claim, items
<1>3. CASE RecordFailure(w)
  <2>1. PICK j \in todo[w] : /\ lastWord' = [lastWord EXCEPT ![j] = "system"]
                             /\ todo' = [todo EXCEPT ![w] = @ \ {j}]
    BY <1>3 DEF RecordFailure
  <2>2. pc[w] = "record" /\ \A v \in Worker \ {w} : pc'[v] = pc[v]
    BY <1>3 DEF RecordFailure, TypeOK
  <2> QED BY <2>1, <2>2 DEF Recording, TypeOK
<1>4. CASE Recover(w)
  <2>1. \A v \in Worker \ {w} : pc'[v] = pc[v] /\ todo'[v] = todo[v]
    BY <1>4 DEF Recover, TypeOK
  <2> DEFINE left == {k \in Key : job[k] = "running" /\ \A v \in Worker : at[v] # k}
  <2>2. PICK exhausted \in SUBSET left : todo' = [todo EXCEPT ![w] = {k.item : k \in exhausted}]
    BY <1>4 DEF Recover
  <2>3. \A k \in exhausted : Busy(k.item)
    BY DEF Busy, Active
  <2>4. i \in todo'[w] => Busy(i)
    BY <2>2, <2>3 DEF TypeOK
  <2> QED BY <1>4, <2>1, <2>4 DEF Recording, Recover, items
<1>5. CASE Complete(w) \/ Crash(w) \/ Search(w) \/ Publish(w)
  <2>1. pc'[w] # "record" /\ \A v \in Worker \ {w} : pc'[v] = pc[v] /\ todo'[v] = todo[v]
    BY <1>5 DEF Complete, Crash, Search, Publish, TypeOK
  <2> QED BY <1>5, <2>1 DEF Recording, Complete, Crash, Search, Publish, items
<1> QED BY <1>1, <1>2, <1>3, <1>4, <1>5

LEMMA RejectedStep ==
    ASSUME TypeOK, Holding, Unstored, Rejected, [Next]_vars
    PROVE  Rejected'
<1> SUFFICES ASSUME NEW i \in Item, human'[i] \in Negative, i \notin raced'
             PROVE  /\ state'[i] \in {"rejected", "excluded"}
                    /\ lastWord'[i] \in Negative
                    /\ ~Underway(i)'
  BY DEF Rejected
<1> DEFINE Ruled == human[i] \in Negative /\ i \notin raced
<1> DEFINE Out == /\ state[i] \in {"rejected", "excluded"}
                  /\ lastWord[i] \in Negative
                  /\ ~Underway(i)
<1>0. Ruled => /\ Out
               /\ ~Busy(i) /\ ~Requested(i) /\ ~Validating(i) /\ ~Recording(i)
  BY DEF Rejected, Underway, Requested, Validating, Recording
<1>a. Underway(i)' => Busy(i)' \/ Requested(i)' \/ Validating(i)' \/ Recording(i)'
  BY DEF Underway, Requested, Validating, Recording
<1>1. CASE UNCHANGED vars
  BY <1>0, <1>1 DEF vars, items, procs, people, history, Underway, Busy, Active
<1>2. ASSUME NEW w \in Worker,
             \/ Complete(w) \/ (\E e \in BOOLEAN : Fail(w, e)) \/ (\E k \in Key : Claim(w, k))
             \/ RecordFailure(w) \/ Crash(w) \/ Recover(w) \/ Search(w) \/ Publish(w)
      PROVE  Out'
  <2>1. /\ Busy(i)' => Busy(i)
        /\ state'[i] = state[i] \/ (state'[i] = "failed" /\ Recording(i))
        /\ UNCHANGED <<request, desk, pile, human, raced>>
    BY <1>2, WorkerBusy
  <2>2. /\ Recording(i)' => Recording(i) \/ Busy(i)
        /\ lastWord'[i] = lastWord[i] \/ Recording(i)
    BY <1>2, WorkerRecording
  <2>3. /\ Requested(i)' => Requested(i)
        /\ Validating(i)' => Validating(i)
    BY <2>1 DEF Requested, Validating
  <2> QED BY <1>0, <1>a, <2>1, <2>2, <2>3
<1>3. ASSUME NEW w \in Worker,
             \/ UpsertFound(w) \/ UpsertNew(w)
             \/ MarkEligible(w) \/ \E o \in Withheld : Withhold(w, o)
      PROVE  Out'
  <2>1. /\ Busy(at[w].item)
        /\ i # at[w].item => state'[i] = state[i] /\ lastWord'[i] = lastWord[i]
        /\ UNCHANGED <<job, todo, request, desk, pile, human, raced>>
    BY <1>3, StageWrites
  <2>2. pc'[w] # "record" /\ \A v \in Worker \ {w} : pc'[v] = pc[v]
    <3>1. CASE UpsertFound(w) \/ UpsertNew(w)
      <4>1. PICK b \in BusinessId : Link(w, at[w].item, b)
        BY <3>1, UpsertFoundLink, UpsertNewLink
      <4> QED BY <4>1 DEF Link, TypeOK
    <3>2. CASE MarkEligible(w) \/ \E o \in Withheld : Withhold(w, o)
      BY <3>2 DEF MarkEligible, Withhold, TypeOK
    <3> QED BY <1>3, <3>1, <3>2
  <2>3. /\ Recording(i)' => Recording(i)
        /\ Busy(i)' => Busy(i)
        /\ Requested(i)' => Requested(i)
        /\ Validating(i)' => Validating(i)
    BY <2>1, <2>2 DEF Recording, Busy, Active, Requested, Validating
  <2>4. Ruled => i # at[w].item
    BY <1>0, <2>1
  <2> QED BY <1>0, <1>a, <2>1, <2>3, <2>4
<1>4. ASSUME NEW w \in Worker, HandOff(w) PROVE Out'
  <2>1. at[w] # NoJob /\ business[at[w].item] \in BusinessId
    BY <1>4, KeyShape DEF HandOff, Holding, StagePc, TypeOK
  <2>2. Audit(at[w].item, business[at[w].item]) \in Key
        /\ Audit(at[w].item, business[at[w].item]).item = at[w].item
    BY <2>1, HeldIsBusy, AuditKey
  <2>3. Busy(at[w].item)
    BY <2>1, HeldIsBusy
  <2>4. Busy(i)' => Busy(i)
    BY <1>4, <2>2, <2>3, EnqueueBusy DEF HandOff
  <2>5. /\ pc' = [pc EXCEPT ![w] = "finish"]
        /\ UNCHANGED <<state, lastWord, request, desk, pile, human, raced, todo>>
    BY <1>4 DEF HandOff, items, people
  <2>6. /\ Recording(i)' => Recording(i)
        /\ Requested(i)' => Requested(i)
        /\ Validating(i)' => Validating(i)
    BY <2>5 DEF Recording, Requested, Validating, TypeOK
  <2> QED BY <1>0, <1>a, <2>4, <2>5, <2>6
<1>5. ASSUME NEW w \in Worker, Dispatch(w) PROVE Out'
  <2>1. PICK j \in todo[w] :
           /\ todo' = [todo EXCEPT ![w] = @ \ {j}]
           /\ pc' = [pc EXCEPT ![w] = IF todo[w] = {j} THEN "idle" ELSE "dispatch"]
           /\ \/ lastWord[j] \in Negative /\ state' = state /\ job' = job
              \/ /\ lastWord[j] \notin Negative
                 /\ state' = [state EXCEPT ![j] = "resolution_queued"]
                 /\ EnqueueOnce(Resolve(j))
    BY <1>5 DEF Dispatch
  <2>2. Resolve(j) \in Key /\ Resolve(j).item = j /\ j \in Item
    BY ResolveKey DEF TypeOK
  <2>3. UNCHANGED <<lastWord, human, raced, request, desk, pile>> /\ pc[w] = "dispatch"
    BY <1>5 DEF Dispatch, people
  <2>4. Ruled => state'[i] = state[i] /\ (Busy(i)' => Busy(i))
    <3>1. CASE state' = state /\ job' = job
      BY <3>1 DEF Busy, Active
    <3>2. CASE /\ lastWord[j] \notin Negative
               /\ state' = [state EXCEPT ![j] = "resolution_queued"]
               /\ EnqueueOnce(Resolve(j))
      <4>1. Ruled => i # j
        BY <1>0, <3>2
      <4> QED BY <2>2, <3>2, <4>1, EnqueueBusy DEF TypeOK
    <3> QED BY <2>1, <3>1, <3>2
  <2>5. /\ Recording(i)' => Recording(i)
        /\ Requested(i)' => Requested(i)
        /\ Validating(i)' => Validating(i)
    <3>1. pc'[w] # "record" /\ \A v \in Worker \ {w} : pc'[v] = pc[v] /\ todo'[v] = todo[v]
      BY <2>1 DEF TypeOK
    <3> QED BY <2>3, <3>1 DEF Recording, Requested, Validating
  <2> QED BY <1>0, <1>a, <2>3, <2>4, <2>5
<1>6. ASSUME NEW w \in Worker, NEW listings \in SUBSET Listing, NEW reviewFirst \in BOOLEAN,
             Ingest(w, listings, reviewFirst)
      PROVE  Out'
  <2> DEFINE new == {<<l, NextCopy(l)>> : l \in listings}
  <2>1. \A j \in new : j \in Item /\ ~Stored(j)
    BY <1>6, NextCopyShape DEF Ingest
  <2>2. /\ state' = [j \in Item |-> IF j \in new THEN CarriedState(j[1]) ELSE state[j]]
        /\ lastWord' = [j \in Item |-> IF j \in new THEN ruling[j[1]] ELSE lastWord[j]]
        /\ human' = [j \in Item |-> IF j \in new THEN ruling[j[1]] ELSE human[j]]
        /\ pc' = [pc EXCEPT ![w] = IF reviewFirst THEN "idle" ELSE "dispatch"]
        /\ \A v \in Worker \ {w} : todo'[v] = todo[v]
        /\ UNCHANGED <<raced, job, request, desk, pile>>
    BY <1>6 DEF Ingest, people, TypeOK
  <2> HIDE DEF new
  <2>3. i \in new => /\ ~Busy(i) /\ ~Requested(i) /\ ~Validating(i)
                     /\ \A v \in Worker : i \notin todo[v]
    BY <2>1 DEF Unstored, Validating
  <2>4. i \in new => state'[i] \in {"rejected", "excluded"} /\ lastWord'[i] \in Negative
    BY <2>2 DEF CarriedState, Negative
  <2>5. pc'[w] # "record" /\ \A v \in Worker \ {w} : pc'[v] = pc[v] /\ todo'[v] = todo[v]
    BY <2>2 DEF TypeOK
  <2>6. /\ Busy(i)' => Busy(i)
        /\ Recording(i)' => Recording(i)
        /\ Requested(i)' => Requested(i)
        /\ Validating(i)' => Validating(i)
    BY <2>2, <2>5 DEF Busy, Active, Recording, Requested, Validating
  <2>7. i \in new => ~Recording(i)
    BY <2>3 DEF Recording
  <2>8. i \notin new => Ruled /\ state'[i] = state[i] /\ lastWord'[i] = lastWord[i]
    BY <2>2
  <2> QED BY <1>0, <1>a, <2>3, <2>4, <2>6, <2>7, <2>8
<1>7. ASSUME NEW j \in Item, NEW a \in Review, Judge(j, a) PROVE Out'
  <2>1. /\ state' = [state EXCEPT ![j] = ReviewState(j, a)]
        /\ Rule({j}, ReviewRuling(a))
        /\ request = NoJob /\ request' = ReviewJob(j, a)
        /\ UNCHANGED <<job, pc, todo, desk, pile>>
    BY <1>7 DEF Judge, procs
  <2>2. /\ Busy(i)' <=> Busy(i)
        /\ Recording(i)' <=> Recording(i)
        /\ Validating(i)' <=> Validating(i)
    BY <2>1 DEF Busy, Active, Recording, Validating
  <2>3. CASE i = j
    <3>1. human'[i] = ReviewRuling(a) /\ lastWord'[i] = ReviewRuling(a)
      BY <2>1, <2>3 DEF Rule
    <3>2. a \in {"reject", "duplicate"}
      BY <3>1 DEF ReviewRuling, Negative
    <3>3. state'[i] \in {"rejected", "excluded"} /\ request' = NoJob
      <4>1. ReviewState(i, a) \in {"rejected", "excluded"}
        BY <3>2 DEF ReviewState
      <4>2. ReviewJob(i, a) = NoJob
        BY <3>2 DEF ReviewJob
      <4> QED BY <2>1, <2>3, <4>1, <4>2 DEF TypeOK
    <3>4. ReviewRuling(a) \in Negative
      BY <3>1
    <3>5. ~Underway(i)
      BY <2>1, <2>3, <3>4 DEF Rule
    <3>6. ~Requested(i)'
      BY <3>3 DEF Requested
    <3>7. ~Busy(i) /\ ~Validating(i) /\ ~Recording(i)
      BY <3>5 DEF Underway, Validating, Recording
    <3> QED BY <1>a, <2>2, <3>1, <3>3, <3>6, <3>7
  <2>4. CASE i # j
    <3>1. Ruled /\ state'[i] = state[i] /\ lastWord'[i] = lastWord[i]
      BY <2>1, <2>4 DEF Rule, TypeOK
    <3>2. ~Requested(i)'
      BY <2>1, <2>4, ReviewShape DEF Requested
    <3> QED BY <1>0, <1>a, <2>2, <3>1, <3>2
  <2> QED BY <2>3, <2>4
<1>8. CASE FollowUp
  <2>1. request \in Key /\ EnqueueOnce(request)
    BY <1>8 DEF FollowUp, TypeOK
  <2>2. Busy(i)' => Busy(i) \/ Requested(i)
    BY <2>1, <1>8, EnqueueBusy DEF FollowUp, Requested
  <2>3. request' = NoJob /\ UNCHANGED <<state, lastWord, human, raced, desk, pile, pc, todo>>
    BY <1>8 DEF FollowUp, items, procs
  <2>4. /\ Recording(i)' <=> Recording(i)
        /\ Validating(i)' <=> Validating(i)
        /\ ~Requested(i)'
    BY <2>3 DEF Recording, Validating, Requested
  <2> QED BY <1>0, <1>a, <2>2, <2>3, <2>4
<1>9. CASE ValidateOne
  <2>1. PICK j \in pile : /\ state' = [state EXCEPT ![j] = "resolution_queued"]
                          /\ EnqueueOnce(Resolve(j)) /\ pile' = pile \ {j}
    BY <1>9 DEF ValidateOne
  <2>2. Resolve(j) \in Key /\ Resolve(j).item = j /\ Validating(j)
    BY <1>9, ResolveKey DEF ValidateOne, Validating, TypeOK
  <2>3. Busy(i)' => Busy(i) \/ Validating(i)
    BY <2>1, <2>2, EnqueueBusy
  <2>4. UNCHANGED <<lastWord, human, raced, request, pc, todo>>
    BY <1>9 DEF ValidateOne, procs
  <2>5. /\ Validating(i)' => Validating(i)
        /\ Requested(i)' <=> Requested(i)
        /\ Recording(i)' <=> Recording(i)
    BY <1>9, <2>1, <2>4 DEF Validating, ValidateOne, Requested, Recording
  <2>6. Ruled => state'[i] = state[i]
    BY <1>0, <2>1, <2>2 DEF TypeOK
  <2> QED BY <1>0, <1>a, <2>3, <2>4, <2>5, <2>6
<1>10. ASSUME NEW S \in SUBSET Item, StartValidate(S) PROVE Out'
  <2>1. /\ pile' = S /\ S \subseteq Pending
        /\ UNCHANGED <<state, lastWord, human, raced, job, request, pc, todo>>
    BY <1>10 DEF StartValidate, items, procs
  <2>2. i \notin S
    BY <1>0, <2>1 DEF Pending, Unprocessed
  <2>3. /\ Busy(i)' <=> Busy(i)
        /\ Requested(i)' <=> Requested(i)
        /\ Recording(i)' <=> Recording(i)
        /\ ~Validating(i)'
    BY <2>1, <2>2 DEF Busy, Active, Requested, Recording, Validating
  <2> QED BY <1>0, <1>a, <2>1, <2>3
<1>11. CASE StartDiscard \/ RequestLost
  <2>1. UNCHANGED <<state, lastWord, human, raced, job, pc, todo>>
    BY <1>11 DEF StartDiscard, RequestLost, items, procs, history
  <2>2. /\ Busy(i)' <=> Busy(i)
        /\ Recording(i)' <=> Recording(i)
    BY <2>1 DEF Busy, Active, Recording
  <2>3. /\ Requested(i)' => Requested(i)
        /\ Validating(i)' => Validating(i)
    BY <1>11 DEF StartDiscard, RequestLost, Requested, Validating
  <2> QED BY <1>0, <1>a, <2>1, <2>2, <2>3
<1>12. CASE Discard
  <2>1. /\ state' = [j \in Item |-> IF j \in pile THEN "rejected" ELSE state[j]]
        /\ Rule(pile, "rejected")
        /\ desk = "discarding" /\ desk' = "none"
        /\ UNCHANGED <<job, request, pc, todo>>
    BY <1>12 DEF Discard, procs
  <2>2. /\ Busy(i)' <=> Busy(i)
        /\ Recording(i)' <=> Recording(i)
        /\ Requested(i)' <=> Requested(i)
        /\ ~Validating(i)'
    BY <2>1 DEF Busy, Active, Recording, Requested, Validating
  <2>3. CASE i \in pile
    <3>1. state'[i] = "rejected" /\ lastWord'[i] = "rejected" /\ ~Underway(i)
      BY <2>1, <2>3 DEF Rule, Negative
    <3>2. ~Busy(i) /\ ~Requested(i) /\ ~Recording(i)
      BY <3>1 DEF Underway, Requested, Recording
    <3> QED BY <1>a, <2>2, <3>1, <3>2 DEF Negative
  <2>4. CASE i \notin pile
    <3>1. Ruled /\ state'[i] = state[i] /\ lastWord'[i] = lastWord[i]
      BY <2>1, <2>4 DEF Rule
    <3> QED BY <1>0, <1>a, <2>2, <3>1
  <2> QED BY <2>3, <2>4
<1> QED
  BY <1>1, <1>2, <1>3, <1>4, <1>5, <1>6, <1>7, <1>8, <1>9, <1>10, <1>11, <1>12
     DEF Next, Stage

(***************************************************************************)
(* No item is stranded.                                                    *)
(***************************************************************************)

\* An enqueue drives its item, unless it met a row already running, and leaves
\* the items that were driven or absorbed so.
LEMMA EnqueueDrives ==
    ASSUME TypeOK, Holding, NEW k \in Key, EnqueueOnce(k), NEW i \in Item,
           at' = at,
           \A w \in Worker : pc'[w] = "finish" => pc[w] = "finish" \/ at[w].item = k.item
    PROVE  /\ i # k.item /\ Driven(i) => Driven(i)'
           /\ i # k.item /\ i \in absorbed => i \in absorbed'
           /\ i = k.item => Driven(i)' \/ i \in absorbed'
<1>1. /\ \A j \in Key : j # k => job'[j] = job[j]
      /\ job[k] # "running" => job'[k] = "queued"
      /\ job[k] = "running" => k.item \in absorbed'
      /\ i \in absorbed => i \in absorbed' \/ i = k.item
  BY EnqueueKeeps DEF TypeOK
<1>2. ASSUME i # k.item, Driven(i) PROVE Driven(i)'
  <2>1. PICK j \in Key : /\ j.item = i /\ Active(j)
                         /\ \A w \in Worker : at[w] = j => pc[w] # "finish"
    BY <1>2 DEF Driven
  <2>2. j # k /\ j # NoJob
    BY <1>2, <2>1, NoJobIsNoKey
  <2>3. Active(j)' /\ \A w \in Worker : at'[w] = j => pc'[w] # "finish"
    BY <1>1, <1>2, <2>1, <2>2 DEF Active
  <2> QED BY <2>1, <2>3 DEF Driven
<1>3. ASSUME i = k.item, job[k] # "running" PROVE Driven(i)'
  <2>1. \A w \in Worker : at[w] # k
    BY <1>3, NoJobIsNoKey DEF Holding
  <2>2. Active(k)' /\ \A w \in Worker : at'[w] # k
    BY <1>1, <1>3, <2>1 DEF Active
  <2> QED BY <1>3, <2>2 DEF Driven
<1> QED BY <1>1, <1>2, <1>3

\* A step that leaves the rows alone and finishes no other item's job.
LEMMA DrivenFrame ==
    ASSUME TypeOK, NEW i \in Item, Driven(i), UNCHANGED <<job, at>>,
           \A w \in Worker : pc'[w] = "finish" => pc[w] = "finish" \/ at[w].item # i
    PROVE  Driven(i)'
BY DEF Driven, Active

LEMMA MovingStep ==
    ASSUME TypeOK, Holding, Unstored, Moving, [Next]_vars
    PROVE  Moving'
<1> DEFINE Cut(i) == i \in absorbed \cup orphaned
<1> DEFINE On(i) == Driven(i) \/ Requested(i) \/ Recording(i) \/ Cut(i)
<1> SUFFICES ASSUME NEW i \in Item, state'[i] \in Waiting
             PROVE  On(i)'
  BY DEF Moving
<1>0. state[i] \in Waiting => On(i)
  BY DEF Moving
<1>1. CASE UNCHANGED vars
  BY <1>0, <1>1 DEF vars, items, procs, people, history, Driven, Active, Requested, Recording
<1>2. ASSUME NEW w \in Worker, NEW k \in Key, Claim(w, k) PROVE On(i)'
  <2>1. at[w] = NoJob /\ \A v \in Worker : at[v] # k
    BY <1>2, NoJobIsNoKey DEF Claim, Holding, StagePc
  <2>2. /\ k.stage # "finish" /\ k.stage # "record" /\ pc[w] = "idle"
        /\ pc' = [pc EXCEPT ![w] = k.stage]
        /\ at' = [at EXCEPT ![w] = k]
        /\ job' = [job EXCEPT ![k] = "running"]
        /\ UNCHANGED <<state, request, todo, absorbed, orphaned>>
    BY <1>2, KeyShape DEF Claim, items, people, history
  <2>3. Driven(i) => Driven(i)'
    <3>1. ASSUME NEW j \in Key, Active(j), \A v \in Worker : at[v] = j => pc[v] # "finish"
          PROVE  Active(j)' /\ \A v \in Worker : at'[v] = j => pc'[v] # "finish"
      BY <2>2, <3>1 DEF Active, TypeOK
    <3> QED BY <3>1 DEF Driven
  <2> QED BY <1>0, <2>2, <2>3 DEF Requested, Recording, TypeOK
<1>3. ASSUME NEW w \in Worker, Complete(w) PROVE On(i)'
  <2>1. /\ pc[w] = "finish" /\ pc' = [pc EXCEPT ![w] = "idle"]
        /\ at' = [at EXCEPT ![w] = NoJob]
        /\ job' = [job EXCEPT ![at[w]] = "none"]
        /\ UNCHANGED <<state, request, todo, absorbed, orphaned>>
    BY <1>3 DEF Complete, items, people, history
  <2>2. Driven(i) => Driven(i)'
    <3>1. ASSUME NEW j \in Key, Active(j), \A v \in Worker : at[v] = j => pc[v] # "finish"
          PROVE  Active(j)' /\ \A v \in Worker : at'[v] = j => pc'[v] # "finish"
      BY <2>1, <3>1, NoJobIsNoKey DEF Active, TypeOK
    <3> QED BY <3>1 DEF Driven
  <2> QED BY <1>0, <2>1, <2>2 DEF Requested, Recording, TypeOK
<1>4. ASSUME NEW w \in Worker, NEW exhausted \in BOOLEAN, Fail(w, exhausted) PROVE On(i)'
  <2>1. at[w] \in Key /\ \A v \in Worker : at[v] = at[w] => v = w
    BY <1>4 DEF Fail, Holding, StagePc, TypeOK
  <2>2. /\ pc[w] \notin {"record", "finish"}
        /\ pc' = [pc EXCEPT ![w] = IF exhausted THEN "record" ELSE "idle"]
        /\ at' = [at EXCEPT ![w] = NoJob]
        /\ job' = [job EXCEPT ![at[w]] = IF exhausted THEN "none" ELSE "queued"]
        /\ todo' = [todo EXCEPT ![w] = IF exhausted THEN {at[w].item} ELSE {}]
        /\ UNCHANGED <<state, request, absorbed, orphaned>>
    BY <1>4 DEF Fail, items, people, history
  <2>3. Recording(i) => Recording(i)'
    BY <2>2 DEF Recording, TypeOK
  <2>4. Driven(i) => Driven(i)' \/ Recording(i)'
    <3>1. ASSUME NEW j \in Key, j.item = i, Active(j),
                 \A v \in Worker : at[v] = j => pc[v] # "finish"
          PROVE  Driven(i)' \/ Recording(i)'
      <4>1. CASE j = at[w] /\ exhausted
        BY <2>2, <3>1, <4>1 DEF Recording, TypeOK
      <4>2. CASE j # at[w] \/ ~exhausted
        <5>1. Active(j)'
          BY <2>2, <3>1, <4>2 DEF Active, TypeOK
        <5>2. \A v \in Worker : at'[v] = j => pc'[v] # "finish"
          BY <2>2, <3>1, NoJobIsNoKey DEF TypeOK
        <5> QED BY <3>1, <5>1, <5>2 DEF Driven
      <4> QED BY <4>1, <4>2
    <3> QED BY <3>1 DEF Driven
  <2> QED BY <1>0, <2>2, <2>3, <2>4 DEF Requested
<1>5. ASSUME NEW w \in Worker, RecordFailure(w) PROVE On(i)'
  <2>1. PICK j \in todo[w] :
           /\ state' = [state EXCEPT ![j] = "failed"]
           /\ todo' = [todo EXCEPT ![w] = @ \ {j}]
           /\ pc' = [pc EXCEPT ![w] = IF todo[w] = {j} THEN "idle" ELSE "record"]
    BY <1>5 DEF RecordFailure
  <2>2. pc[w] = "record" /\ UNCHANGED <<job, at, request, absorbed, orphaned>>
    BY <1>5 DEF RecordFailure, people, history
  <2>3. i # j
    BY <2>1 DEF TypeOK, Waiting
  <2>4. state[i] \in Waiting
    BY <2>1, <2>3 DEF TypeOK
  <2>5. Driven(i) => Driven(i)'
    BY <2>1, <2>2, DrivenFrame DEF TypeOK
  <2>6. Recording(i) => Recording(i)'
    BY <2>1, <2>2, <2>3 DEF Recording, TypeOK
  <2> QED BY <1>0, <2>2, <2>4, <2>5, <2>6 DEF Requested
<1>6. ASSUME NEW w \in Worker, Crash(w) PROVE On(i)'
  <2>1. /\ pc' = [pc EXCEPT ![w] = "down"]
        /\ at' = [at EXCEPT ![w] = NoJob]
        /\ todo' = [todo EXCEPT ![w] = {}]
        /\ orphaned' = IF pc[w] = "record" THEN orphaned \cup todo[w] ELSE orphaned
        /\ UNCHANGED <<state, job, request, absorbed>>
    BY <1>6 DEF Crash, items, people
  <2>2. Driven(i) => Driven(i)'
    <3>1. ASSUME NEW j \in Key, \A v \in Worker : at[v] = j => pc[v] # "finish"
          PROVE  \A v \in Worker : at'[v] = j => pc'[v] # "finish"
      BY <2>1, <3>1 DEF TypeOK
    <3> QED BY <2>1, <3>1 DEF Driven, Active
  <2>3. Recording(i) => Recording(i)' \/ i \in orphaned'
    BY <2>1 DEF Recording, TypeOK
  <2> QED BY <1>0, <2>1, <2>2, <2>3 DEF Requested
<1>7. ASSUME NEW w \in Worker, Recover(w) PROVE On(i)'
  <2> DEFINE left == {k \in Key : job[k] = "running" /\ \A v \in Worker : at[v] # k}
  <2>1. PICK exhausted \in SUBSET left :
           /\ job' = [k \in Key |-> IF k \in exhausted THEN "none"
                                    ELSE IF k \in left THEN "queued" ELSE job[k]]
           /\ todo' = [todo EXCEPT ![w] = {k.item : k \in exhausted}]
           /\ pc' = [pc EXCEPT ![w] = IF exhausted = {} THEN "idle" ELSE "record"]
    BY <1>7 DEF Recover
  <2>2. pc[w] = "down" /\ UNCHANGED <<state, at, request, absorbed, orphaned>>
    BY <1>7 DEF Recover, items, people, history
  <2>3. Recording(i) => Recording(i)'
    BY <2>1, <2>2 DEF Recording, TypeOK
  <2>4. ASSUME NEW j \in Key, j.item = i, Active(j),
               \A v \in Worker : at[v] = j => pc[v] # "finish"
        PROVE  Driven(i)' \/ Recording(i)'
    <3>1. CASE j \in exhausted
      <4>1. pc'[w] = "record" /\ i \in todo'[w]
        BY <2>1, <2>4, <3>1 DEF TypeOK
      <4> QED BY <4>1 DEF Recording
    <3>2. CASE j \notin exhausted
      <4>1. Active(j)'
        BY <2>1, <2>4, <3>2 DEF Active
      <4>2. \A v \in Worker : at'[v] = j => pc'[v] # "finish"
        BY <2>1, <2>2, <2>4 DEF TypeOK
      <4> QED BY <2>4, <4>1, <4>2 DEF Driven
    <3> QED BY <3>1, <3>2
  <2>5. Driven(i) => Driven(i)' \/ Recording(i)'
    BY <2>4 DEF Driven
  <2> QED BY <1>0, <2>2, <2>3, <2>5 DEF Requested
<1>8. ASSUME NEW w \in Worker, NEW listings \in SUBSET Listing, NEW reviewFirst \in BOOLEAN,
             Ingest(w, listings, reviewFirst)
      PROVE  On(i)'
  <2> DEFINE new == {<<l, NextCopy(l)>> : l \in listings}
  <2>1. /\ state' = [j \in Item |-> IF j \in new THEN CarriedState(j[1]) ELSE state[j]]
        /\ pc[w] = "idle"
        /\ pc' = [pc EXCEPT ![w] = IF reviewFirst THEN "idle" ELSE "dispatch"]
        /\ \A v \in Worker \ {w} : todo'[v] = todo[v]
        /\ UNCHANGED <<job, at, request, absorbed, orphaned>>
    BY <1>8 DEF Ingest, people, TypeOK
  <2> HIDE DEF new
  <2>2. state[i] \in Waiting
    BY <2>1 DEF CarriedState, Waiting
  <2>3. Driven(i) => Driven(i)'
    BY <2>1, DrivenFrame DEF TypeOK
  <2>4. Recording(i) => Recording(i)'
    BY <2>1 DEF Recording, TypeOK
  <2> QED BY <1>0, <2>1, <2>2, <2>3, <2>4 DEF Requested
<1>9. ASSUME NEW w \in Worker, Dispatch(w) PROVE On(i)'
  <2>1. PICK j \in todo[w] :
           /\ todo' = [todo EXCEPT ![w] = @ \ {j}]
           /\ pc' = [pc EXCEPT ![w] = IF todo[w] = {j} THEN "idle" ELSE "dispatch"]
           /\ \/ UNCHANGED <<state, job, absorbed>>
              \/ /\ state' = [state EXCEPT ![j] = "resolution_queued"]
                 /\ EnqueueOnce(Resolve(j))
    BY <1>9 DEF Dispatch
  <2>2. Resolve(j) \in Key /\ Resolve(j).item = j /\ j \in Item
    BY ResolveKey DEF TypeOK
  <2>3. pc[w] = "dispatch" /\ UNCHANGED <<at, request, orphaned>>
    BY <1>9 DEF Dispatch, people
  <2>4. Recording(i) => Recording(i)'
    BY <2>1, <2>3 DEF Recording, TypeOK
  <2>5. \A v \in Worker : pc'[v] = "finish" => pc[v] = "finish"
    BY <2>1 DEF TypeOK
  <2>6. CASE UNCHANGED <<state, job, absorbed>>
    BY <1>0, <2>3, <2>4, <2>5, <2>6, DrivenFrame DEF Requested
  <2>7. CASE EnqueueOnce(Resolve(j)) /\ state' = [state EXCEPT ![j] = "resolution_queued"]
    <3>1. i # j => state[i] \in Waiting
      BY <2>7 DEF TypeOK
    <3>2. /\ i # j /\ Driven(i) => Driven(i)'
          /\ i # j /\ i \in absorbed => i \in absorbed'
          /\ i = j => Driven(i)' \/ i \in absorbed'
      BY <2>2, <2>3, <2>5, <2>7, EnqueueDrives
    <3> QED BY <1>0, <2>3, <2>4, <3>1, <3>2 DEF Requested
  <2> QED BY <2>1, <2>6, <2>7
<1>10. ASSUME NEW w \in Worker, HandOff(w) PROVE On(i)'
  <2>1. at[w] # NoJob /\ business[at[w].item] \in BusinessId
    BY <1>10, KeyShape DEF HandOff, Holding, StagePc, TypeOK
  <2> DEFINE k == Audit(at[w].item, business[at[w].item])
  <2>2. k \in Key /\ k.item = at[w].item
    BY <2>1, HeldIsBusy, AuditKey
  <2>3. /\ EnqueueOnce(k) /\ pc' = [pc EXCEPT ![w] = "finish"] /\ pc[w] = "handoff"
        /\ UNCHANGED <<state, at, todo, request, orphaned>>
    BY <1>10 DEF HandOff, items, people
  <2> HIDE DEF k
  <2>4. \A v \in Worker : pc'[v] = "finish" => pc[v] = "finish" \/ at[v].item = k.item
    BY <2>2, <2>3 DEF TypeOK
  <2>5. /\ i # k.item /\ Driven(i) => Driven(i)'
        /\ i # k.item /\ i \in absorbed => i \in absorbed'
        /\ i = k.item => Driven(i)' \/ i \in absorbed'
    BY <2>2, <2>3, <2>4, EnqueueDrives
  <2>6. Recording(i) => Recording(i)'
    BY <2>3 DEF Recording, TypeOK
  <2> QED BY <1>0, <2>3, <2>5, <2>6 DEF Requested
<1>11. ASSUME NEW w \in Worker, Search(w) \/ Publish(w) PROVE On(i)'
  <2>1. /\ \A v \in Worker : pc'[v] = "finish" => pc[v] = "finish"
        /\ \A v \in Worker : pc[v] = "record" => pc'[v] = "record"
        /\ UNCHANGED <<state, job, at, request, todo, absorbed, orphaned>>
    BY <1>11 DEF Search, Publish, items, people, history, TypeOK
  <2> QED BY <1>0, <2>1, DrivenFrame DEF Requested, Recording
<1>12. ASSUME NEW w \in Worker,
              \/ UpsertFound(w) \/ UpsertNew(w)
              \/ MarkEligible(w) \/ \E o \in Withheld : Withhold(w, o)
       PROVE  On(i)'
  <2>1. /\ at[w] \in Key
        /\ i # at[w].item => state'[i] = state[i]
        /\ UNCHANGED <<job, todo, request>>
    BY <1>12, StageWrites
  <2>2. /\ pc[w] # "record"
        /\ \A v \in Worker \ {w} : pc'[v] = pc[v]
        /\ UNCHANGED <<at, absorbed, orphaned>>
        /\ i = at[w].item => pc'[w] = "handoff"
    <3>1. CASE UpsertFound(w) \/ UpsertNew(w)
      <4>1. PICK b \in BusinessId : pc[w] = "upsert" /\ Link(w, at[w].item, b)
        BY <3>1, UpsertFoundLink, UpsertNewLink DEF UpsertFound, UpsertNew
      <4> QED BY <4>1 DEF Link, TypeOK, Waiting
    <3>2. CASE MarkEligible(w) \/ \E o \in Withheld : Withhold(w, o)
      <4>1. \A o \in Withheld : o \notin Waiting
        BY BoundsAssumption DEF Waiting
      <4> QED BY <3>2, <4>1 DEF MarkEligible, Withhold, TypeOK, Waiting, history
    <3> QED BY <1>12, <3>1, <3>2
  <2>3. CASE i # at[w].item
    <3>1. Driven(i) => Driven(i)'
      BY <2>1, <2>2, <2>3, DrivenFrame
    <3>2. Recording(i) => Recording(i)'
      BY <2>1, <2>2 DEF Recording
    <3> QED BY <1>0, <2>1, <2>2, <2>3, <3>1, <3>2 DEF Requested
  <2>4. CASE i = at[w].item
    <3>1. PICK k \in Key : k = at[w]
      BY <2>1
    <3>2. job[k] = "running" /\ \A v \in Worker : at[v] = k => v = w
      BY <3>1, NoJobIsNoKey DEF Holding
    <3>3. Active(k)' /\ \A v \in Worker : at'[v] = k => pc'[v] # "finish"
      BY <2>1, <2>2, <2>4, <3>2 DEF Active
    <3> QED BY <2>4, <3>1, <3>3 DEF Driven
  <2> QED BY <2>3, <2>4
<1>13. ASSUME NEW j \in Item, NEW a \in Review, Judge(j, a) PROVE On(i)'
  <2>1. /\ state' = [state EXCEPT ![j] = ReviewState(j, a)]
        /\ request = NoJob /\ request' = ReviewJob(j, a)
        /\ UNCHANGED <<job, pc, at, todo, absorbed, orphaned>>
    BY <1>13 DEF Judge, procs
  <2>2. CASE i = j
    <3>1. ReviewState(j, a) \in Waiting
      BY <2>1, <2>2 DEF TypeOK
    <3>2. a \in {"accept", "reaudit"} /\ business[j] # 0
      BY <3>1, BoundsAssumption DEF ReviewState, Waiting
    <3>3. business[j] \in BusinessId /\ ReviewJob(j, a) = Audit(j, business[j])
      BY <3>2 DEF ReviewJob, TypeOK
    <3>4. request' \in Key /\ request'.item = i
      BY <2>1, <2>2, <3>3, AuditKey
    <3> QED BY <3>4, NoJobIsNoKey DEF Requested
  <2>3. CASE i # j
    <3>1. state[i] \in Waiting /\ ~Requested(i)
      BY <2>1, <2>3 DEF TypeOK, Requested
    <3>2. Driven(i) => Driven(i)'
      BY <2>1, DrivenFrame
    <3> QED BY <1>0, <2>1, <3>1, <3>2 DEF Recording
  <2> QED BY <2>2, <2>3
<1>14. CASE FollowUp
  <2>1. /\ request \in Key /\ EnqueueOnce(request) /\ request' = NoJob
        /\ UNCHANGED <<state, pc, at, todo, orphaned>>
    BY <1>14 DEF FollowUp, TypeOK, items, procs
  <2>2. /\ i # request.item /\ Driven(i) => Driven(i)'
        /\ i # request.item /\ i \in absorbed => i \in absorbed'
        /\ i = request.item => Driven(i)' \/ i \in absorbed'
    BY <2>1, EnqueueDrives
  <2> QED BY <1>0, <2>1, <2>2 DEF Requested, Recording
<1>15. CASE RequestLost
  <2>1. /\ orphaned' = orphaned \cup {request.item}
        /\ UNCHANGED <<state, job, pc, at, todo, absorbed>>
    BY <1>15 DEF RequestLost, items, procs
  <2> QED BY <1>0, <2>1, DrivenFrame DEF Requested, Recording
<1>16. CASE ValidateOne
  <2>1. PICK j \in pile : /\ state' = [state EXCEPT ![j] = "resolution_queued"]
                          /\ EnqueueOnce(Resolve(j))
    BY <1>16 DEF ValidateOne
  <2>2. Resolve(j) \in Key /\ Resolve(j).item = j /\ j \in Item
    BY ResolveKey DEF TypeOK
  <2>3. UNCHANGED <<pc, at, todo, request, orphaned>>
    BY <1>16 DEF ValidateOne, procs
  <2>4. i # j => state[i] \in Waiting
    BY <2>1 DEF TypeOK
  <2>5. /\ i # j /\ Driven(i) => Driven(i)'
        /\ i # j /\ i \in absorbed => i \in absorbed'
        /\ i = j => Driven(i)' \/ i \in absorbed'
    BY <2>1, <2>2, <2>3, EnqueueDrives
  <2> QED BY <1>0, <2>3, <2>4, <2>5 DEF Requested, Recording
<1>17. CASE StartDiscard \/ Discard \/ \E S \in SUBSET Item : StartValidate(S)
  <2>1. /\ state'[i] = state[i] \/ state'[i] = "rejected"
        /\ UNCHANGED <<job, pc, at, todo, request, absorbed, orphaned>>
    BY <1>17 DEF StartDiscard, Discard, StartValidate, items, procs, history, TypeOK
  <2>2. state[i] \in Waiting
    BY <2>1 DEF Waiting
  <2> QED BY <1>0, <2>1, <2>2, DrivenFrame DEF Requested, Recording
<1> QED
  BY <1>1, <1>2, <1>3, <1>4, <1>5, <1>6, <1>7, <1>8, <1>9, <1>10, <1>11, <1>12, <1>13,
     <1>14, <1>15, <1>16, <1>17 DEF Next, Stage

(***************************************************************************)
(* One business per listing.                                               *)
(***************************************************************************)

\* A business written on a fresh answer is the one that observes the listing, or
\* nobody observes it.
LEMMA LinkKeepsOne ==
    ASSUME TypeOK, OneBusinessPerListing, NEW w \in Worker, NEW i \in Item, NEW b \in BusinessId,
           Link(w, i, b), found[w].business = b \/ found[w].business = 0
    PROVE  OneBusinessPerListing'
<1> DEFINE l == i[1]
<1>1. /\ l \in Listing
      /\ books' = Upsert(books, b, l)
      /\ blind' = IF found[w] \in FindBusiness(books, l) THEN blind ELSE blind \cup {b}
  BY ItemShape DEF Link
<1> HIDE DEF l
<1>2. /\ books'[b].observed = books[b].observed \cup {l}
      /\ \A c \in BusinessId \ {b} : books'[c] = books[c]
  <2>1. books \in [BusinessId -> BusinessRow]
    BY DEF TypeOK
  <2>2. /\ Upsert(books, b, l)[b].observed = books[b].observed \cup {l}
        /\ \A c \in BusinessId \ {b} : Upsert(books, b, l)[c] = books[c]
    BY <1>1, <2>1, UpsertShape
  <2> QED BY <1>1, <2>2
<1>3. ASSUME NEW c \in BusinessId \ {b}, books'[b].observed \cap books'[c].observed # {}
      PROVE  {b, c} \cap blind' # {}
  <2>1. CASE books[b].observed \cap books[c].observed # {}
    BY <1>1, <2>1 DEF OneBusinessPerListing
  <2>2. CASE books[b].observed \cap books[c].observed = {}
    <3>1. c \in Observers(books, l) /\ b \notin Observers(books, l)
      BY <1>2, <1>3, <2>2 DEF Observers
    <3>2. found[w].business \notin Observers(books, l)
      <4>1. CASE found[w].business = b
        BY <3>1, <4>1
      <4>2. CASE found[w].business = 0
        BY <4>2, NoItemZero DEF Observers
      <4> QED BY <4>1, <4>2
    <3>3. found[w] \notin FindBusiness(books, l)
      BY <1>1, <3>1, <3>2, ObservedIsFound
    <3> QED BY <1>1, <3>3
  <2> QED BY <2>1, <2>2
<1>4. ASSUME NEW a \in BusinessId, NEW c \in BusinessId, a # c,
             books'[a].observed \cap books'[c].observed # {}
      PROVE  {a, c} \cap blind' # {}
  <2>1. CASE a # b /\ c # b
    BY <1>1, <1>2, <1>4, <2>1 DEF OneBusinessPerListing
  <2>2. CASE a = b
    BY <1>3, <1>4, <2>2
  <2>3. CASE c = b
    BY <1>3, <1>4, <2>3
  <2> QED BY <2>1, <2>2, <2>3
<1> QED BY <1>4 DEF OneBusinessPerListing

LEMMA OneBusinessStep ==
    ASSUME TypeOK, Holding, OneBusinessPerListing, [Next]_vars
    PROVE  OneBusinessPerListing'
<1>1. CASE UNCHANGED vars
  BY <1>1 DEF vars, index, history, OneBusinessPerListing
<1>2. ASSUME NEW w \in Worker, UpsertFound(w) PROVE OneBusinessPerListing'
  BY <1>2, UpsertFoundLink, LinkKeepsOne
<1>3. ASSUME NEW w \in Worker, UpsertNew(w) PROVE OneBusinessPerListing'
  BY <1>3, UpsertNewLink, LinkKeepsOne DEF UpsertNew
<1>4. ASSUME NEW w \in Worker,
             \/ Complete(w) \/ RecordFailure(w) \/ Dispatch(w) \/ Search(w) \/ HandOff(w)
             \/ (\E o \in Withheld : Withhold(w, o)) \/ Publish(w) \/ MarkEligible(w)
      PROVE  OneBusinessPerListing'
  BY <1>4 DEF Complete, RecordFailure, Dispatch, Search, HandOff, Withhold, Publish,
              MarkEligible, index, history, OneBusinessPerListing
<1>5. ASSUME NEW w \in Worker,
             \/ (\E e \in BOOLEAN : Fail(w, e)) \/ Crash(w) \/ Recover(w)
             \/ (\E k \in Key : Claim(w, k))
             \/ \E listings \in SUBSET Listing, reviewFirst \in BOOLEAN :
                   Ingest(w, listings, reviewFirst)
      PROVE  OneBusinessPerListing'
  BY <1>5 DEF Fail, Crash, Recover, Claim, Ingest, index, history, OneBusinessPerListing
<1>6. CASE \/ (\E i \in Item, a \in Review : Judge(i, a)) \/ FollowUp \/ RequestLost
           \/ (\E S \in SUBSET Item : StartValidate(S)) \/ ValidateOne \/ StartDiscard \/ Discard
  BY <1>6 DEF Judge, FollowUp, RequestLost, StartValidate, ValidateOne, StartDiscard, Discard,
              index, history, OneBusinessPerListing
<1> QED BY <1>1, <1>2, <1>3, <1>4, <1>5, <1>6 DEF Next, Stage

(***************************************************************************)
(* Conflicts.                                                              *)
(***************************************************************************)

\* What a row is for: a resolve names no business, and the item tells which it is.
LEMMA KeyOfItem ==
    ASSUME NEW k \in Key
    PROVE  /\ k.stage = "resolve" => k.business = 0 /\ k = Resolve(k.item)
           /\ k.stage = "audit" => k = Audit(k.item, k.business)
<1>1. CASE \E i \in Item : k = Resolve(i)
  BY <1>1 DEF Resolve
<1>2. CASE \E i \in Item, b \in BusinessId : k = Audit(i, b)
  BY <1>2 DEF Audit
<1> QED BY <1>1, <1>2 DEF Key

\* A search returns a row that exists, or none.
LEMMA FoundExists ==
    ASSUME NEW B, NEW l \in Listing, NEW r \in FindBusiness(B, l)
    PROVE  /\ r.business = 0 \/ Exists(B, r.business)
           /\ r.conflict => r.business = 0
<1>1. \A b \in Observers(B, l) \cup Strong(B, l) \cup Located(B, l) \cup Nearby(B, l) : Exists(B, b)
  BY DEF Observers, Strong, Located, Nearby, Identified, Namesakes, Filed, Exists
<1> DEFINE I == (Identified(B, l) \ Strong(B, l)) \cup Namesakes(B, l)
           F == Observers(B, l) \cup Strong(B, l) \cup Located(B, l) \cup Nearby(B, l)
<1>2. r \in {Match(b) : b \in F} \cup {Create(TRUE), Create(I # {})}
  <2> HIDE DEF I
  <2> QED BY DEF FindBusiness, I
<1>3. CASE r \in {Match(b) : b \in F}
  <2>1. PICK b \in F : r = Match(b)
    BY <1>3
  <2> QED BY <1>1, <2>1 DEF Match
<1>4. CASE r \in {Create(TRUE), Create(I # {})}
  <2> HIDE DEF I
  <2> QED BY <1>4 DEF Create
<1> QED BY <1>2, <1>3, <1>4

\* An upsert unfiles no row and files its own.
LEMMA UpsertFiles ==
    ASSUME NEW B \in [BusinessId -> BusinessRow], NEW b \in BusinessId, NEW l \in Listing
    PROVE  /\ Exists(Upsert(B, b, l), b)
           /\ \A c \in BusinessId : Exists(B, c) => Exists(Upsert(B, b, l), c)
<1>1. /\ Upsert(B, b, l)[b].observed = B[b].observed \cup {l}
      /\ \A c \in BusinessId \ {b} : Upsert(B, b, l)[c] = B[c]
  BY UpsertShape
<1>2. Exists(Upsert(B, b, l), b)
  BY <1>1 DEF Exists
<1>3. \A c \in BusinessId \ {b} : Exists(B, c) => Exists(Upsert(B, b, l), c)
  BY <1>1 DEF Exists
<1> QED BY <1>2, <1>3

\* enqueue_once makes no row active but its own.
LEMMA EnqueueNames ==
    ASSUME TypeOK, NEW k \in Key, EnqueueOnce(k), NEW j \in Key, Active(j)'
    PROVE  Active(j) \/ j = k
BY EnqueueKeeps DEF Active

\* A step that names no business anew: at most it enqueues a resolve, searches, or
\* forgets.
Quiet ==
    /\ UNCHANGED <<books, published, business, disputed, vouched>>
    /\ request' = request \/ request' = NoJob
    /\ \A k \in Key : Active(k)' => Active(k) \/ k.business = 0
    /\ \A w \in Worker : pc'[w] = "handoff" => pc[w] = "handoff" /\ at'[w] = at[w]
    /\ \A w \in Worker : \/ found'[w] = found[w]
                         \/ found'[w] = Create(FALSE)
                         \/ \E l \in Listing : found'[w] \in FindBusiness(books, l)

LEMMA QuietKeeps ==
    ASSUME TypeOK, Unwritten, Doubtful, Reviewed, Quiet
    PROVE  Unwritten' /\ Doubtful' /\ Reviewed'
<1>1. \A w \in Worker : \/ found'[w] = found[w]
                        \/ /\ found'[w].business = 0 \/ Exists(books, found'[w].business)
                           /\ found'[w].conflict => found'[w].business = 0
  BY FoundExists DEF Quiet, Create
<1>2. Unwritten'
  <2>1. SUFFICES ASSUME NEW b \in BusinessId, ~Exists(books, b)
                 PROVE  /\ b \notin disputed /\ b \notin published
                        /\ \A i \in Item : business[i] # b
                        /\ \A k \in Key : Active(k)' => k.business # b
                        /\ request' # NoJob => request'.business # b
                        /\ \A w \in Worker : found'[w].business # b
    BY DEF Unwritten, Quiet
  <2>2. b # 0
    BY NoItemZero
  <2> QED BY <1>1, <2>1, <2>2 DEF Unwritten, Quiet
<1>3. Doubtful'
  BY <1>1 DEF Doubtful
<1>4. Reviewed'
  <2>1. \A b \in BusinessId : b # 0
    BY NoItemZero
  <2>2. disputed \subseteq BusinessId
    BY DEF TypeOK
  <2> QED BY <2>1, <2>2 DEF Reviewed, Quiet
<1> QED BY <1>2, <1>3, <1>4

\* The workers' steps that name no business.
LEMMA QuietWorker ==
    ASSUME TypeOK, Holding, NEW w \in Worker,
           \/ Complete(w)
           \/ \E e \in BOOLEAN : Fail(w, e)
           \/ \E k \in Key : Claim(w, k)
           \/ RecordFailure(w) \/ Crash(w) \/ Recover(w)
           \/ Dispatch(w) \/ Search(w)
           \/ \E listings \in SUBSET Listing, reviewFirst \in BOOLEAN :
                 Ingest(w, listings, reviewFirst)
    PROVE  Quiet
<1>1. CASE \E k \in Key : Claim(w, k)
  <2>1. PICK k \in Key : Claim(w, k)
    BY <1>1
  <2>2. pc' = [pc EXCEPT ![w] = "resolve"] \/ pc' = [pc EXCEPT ![w] = "audit"]
    BY <2>1, KeyShape DEF Claim
  <2>3. /\ at' = [at EXCEPT ![w] = k] /\ found' = found /\ job[k] = "queued"
        /\ job' = [job EXCEPT ![k] = "running"]
        /\ UNCHANGED <<books, published, business, disputed, vouched, request>>
    BY <2>1 DEF Claim, items, index, people, history
  <2> QED BY <2>2, <2>3 DEF TypeOK, Quiet, Active
<1>2. CASE Complete(w) \/ \E e \in BOOLEAN : Fail(w, e)
  <2>1. at[w] \in Key /\ Active(at[w])
    <3>1. at[w] # NoJob
      BY <1>2 DEF Complete, Fail, Holding, StagePc
    <3> QED BY <3>1 DEF TypeOK, Holding, Active
  <2>2. /\ \A v \in Worker : v # w => pc'[v] = pc[v] /\ at'[v] = at[v] /\ found'[v] = found[v]
        /\ pc'[w] # "handoff"
        /\ found'[w] = found[w] \/ found'[w] = Create(FALSE)
        /\ UNCHANGED <<books, published, business, disputed, vouched, request>>
    <3>1. CASE Complete(w)
      BY <3>1 DEF Complete, TypeOK, items, index, people, history
    <3>2. ASSUME NEW e \in BOOLEAN, Fail(w, e)
          PROVE  /\ pc' = [pc EXCEPT ![w] = IF e THEN "record" ELSE "idle"]
                 /\ at' = [at EXCEPT ![w] = NoJob]
                 /\ found' = [found EXCEPT ![w] = Create(FALSE)]
                 /\ UNCHANGED <<books, published, business, disputed, vouched, request>>
      BY <3>2 DEF Fail, items, index, people, history
    <3> QED BY <1>2, <3>1, <3>2 DEF TypeOK
  <2>3. \A k \in Key : k # at[w] => job'[k] = job[k]
    BY <1>2 DEF Complete, Fail, TypeOK
  <2> QED BY <2>1, <2>2, <2>3 DEF Quiet, Active
<1>3. CASE RecordFailure(w)
  <2>1. /\ \A v \in Worker : pc'[v] = "handoff" => pc[v] = "handoff"
        /\ UNCHANGED <<job, at, found, books, published, business, disputed, vouched, request>>
    BY <1>3 DEF RecordFailure, TypeOK, index, people, history
  <2> QED BY <2>1 DEF Quiet, Active
<1>4. CASE Crash(w)
  <2>1. /\ pc' = [pc EXCEPT ![w] = "down"]
        /\ at' = [at EXCEPT ![w] = NoJob]
        /\ found' = [found EXCEPT ![w] = Create(FALSE)]
        /\ UNCHANGED <<job, books, published, business, disputed, vouched, request>>
    BY <1>4 DEF Crash, items, index, people
  <2> QED BY <2>1 DEF TypeOK, Quiet, Active
<1>5. CASE Recover(w)
  <2> DEFINE left == {k \in Key : job[k] = "running" /\ \A v \in Worker : at[v] # k}
  <2>1. PICK exhausted \in SUBSET left :
           job' = [k \in Key |-> IF k \in exhausted THEN "none"
                                 ELSE IF k \in left THEN "queued" ELSE job[k]]
    BY <1>5 DEF Recover
  <2>2. \A k \in Key : Active(k)' => Active(k)
    BY <2>1 DEF Active, TypeOK
  <2>3. /\ \A v \in Worker : pc'[v] = "handoff" => pc[v] = "handoff"
        /\ UNCHANGED <<at, found, books, published, business, disputed, vouched, request>>
    BY <1>5 DEF Recover, TypeOK, items, index, people, history
  <2> QED BY <2>2, <2>3 DEF Quiet
<1>6. CASE Dispatch(w)
  <2>1. PICK i \in todo[w] : job' = job \/ EnqueueOnce(Resolve(i))
    BY <1>6 DEF Dispatch
  <2>2. Resolve(i) \in Key /\ Resolve(i).business = 0
    BY ResolveKey DEF TypeOK, Resolve
  <2>3. \A k \in Key : Active(k)' => Active(k) \/ k.business = 0
    BY <2>1, <2>2, EnqueueNames DEF Active
  <2>4. /\ \A v \in Worker : pc'[v] = "handoff" => pc[v] = "handoff"
        /\ UNCHANGED <<at, found, books, published, business, disputed, vouched, request>>
    BY <1>6 DEF Dispatch, TypeOK, index, people
  <2> QED BY <2>3, <2>4 DEF Quiet
<1>7. CASE Search(w)
  <2>1. PICK r \in FindBusiness(books, at[w].item[1]) : found' = [found EXCEPT ![w] = r]
    BY <1>7 DEF Search
  <2>2. at[w].item[1] \in Listing
    <3>1. at[w] \in Key
      BY <1>7 DEF Search, TypeOK, Holding, StagePc
    <3> QED BY <3>1, KeyShape, ItemShape
  <2>3. \A v \in Worker : found'[v] = found[v] \/ found'[v] = r
    BY <2>1 DEF TypeOK
  <2>4. /\ \A v \in Worker : pc'[v] = "handoff" => pc[v] = "handoff"
        /\ UNCHANGED <<job, at, books, published, business, disputed, vouched, request>>
    BY <1>7 DEF Search, TypeOK, items, index, people, history
  <2> QED BY <2>2, <2>3, <2>4 DEF Quiet, Active
<1>8. CASE \E listings \in SUBSET Listing, reviewFirst \in BOOLEAN :
              Ingest(w, listings, reviewFirst)
  <2>1. /\ \A v \in Worker : pc'[v] = "handoff" => pc[v] = "handoff"
        /\ UNCHANGED <<job, at, found, books, published, business, disputed, vouched, request>>
    BY <1>8 DEF Ingest, TypeOK, index, people
  <2> QED BY <2>1 DEF Quiet, Active
<1> QED BY <1>1, <1>2, <1>3, <1>4, <1>5, <1>6, <1>7, <1>8

\* What the reviewer and the administrator do without naming a business.
LEMMA QuietPeople ==
    ASSUME TypeOK,
           \/ RequestLost \/ ValidateOne \/ StartDiscard \/ Discard
           \/ \E S \in SUBSET Item : StartValidate(S)
    PROVE  Quiet
<1>1. CASE ValidateOne
  <2>1. PICK i \in pile : EnqueueOnce(Resolve(i))
    BY <1>1 DEF ValidateOne
  <2>2. Resolve(i) \in Key /\ Resolve(i).business = 0
    BY ResolveKey DEF TypeOK, Resolve
  <2>3. \A k \in Key : Active(k)' => Active(k) \/ k.business = 0
    BY <2>1, <2>2, EnqueueNames
  <2> QED BY <1>1, <2>3 DEF ValidateOne, Quiet, index, procs
<1>2. CASE RequestLost \/ StartDiscard \/ \E S \in SUBSET Item : StartValidate(S)
  BY <1>2 DEF RequestLost, StartDiscard, StartValidate, Quiet, Active,
              items, index, procs, history
<1>3. CASE Discard
  <2>1. vouched' = vouched
    BY <1>3 DEF Discard, Rule
  <2> QED BY <1>3, <2>1 DEF Discard, Quiet, Active, index, procs
<1> QED BY <1>1, <1>2, <1>3

\* The write of a resolve: on the row the search found, or on one nobody names.
LEMMA LinkKeepsConflicts ==
    ASSUME TypeOK, Holding, Unwritten, Doubtful, Reviewed,
           NEW w \in Worker, pc[w] = "upsert", NEW b \in BusinessId, Link(w, at[w].item, b),
           found[w].business = b \/ (found[w].business = 0 /\ ~Exists(books, b))
    PROVE  Unwritten' /\ Doubtful' /\ Reviewed'
<1> DEFINE i == at[w].item
<1>1. at[w] \in Key /\ i \in Item /\ at[w].stage = "resolve"
  BY KeyShape DEF TypeOK, Holding, StagePc
<1>2. i[1] \in Listing /\ books \in [BusinessId -> BusinessRow]
  BY <1>1, ItemShape DEF TypeOK
<1>3. /\ books' = Upsert(books, b, i[1])
      /\ business' = [business EXCEPT ![i] = b]
      /\ disputed' = IF found[w].conflict THEN disputed \cup {b} ELSE disputed \ {b}
      /\ found' = [found EXCEPT ![w] = Create(FALSE)]
      /\ pc' = [pc EXCEPT ![w] = IF found[w].conflict THEN "finish" ELSE "handoff"]
      /\ UNCHANGED <<job, published, at, request, vouched>>
  BY DEF Link, people
<1> HIDE DEF i
<1>4. Exists(books', b) /\ \A c \in BusinessId : Exists(books, c) => Exists(books', c)
  BY <1>2, <1>3, UpsertFiles
<1>5. Unwritten'
  <2>1. SUFFICES ASSUME NEW c \in BusinessId, ~Exists(books, c), c # b
                 PROVE  /\ c \notin disputed' /\ c \notin published
                        /\ \A j \in Item : business'[j] # c
                        /\ \A k \in Key : Active(k) => k.business # c
                        /\ request # NoJob => request.business # c
                        /\ \A v \in Worker : found'[v].business # c
    BY <1>3, <1>4 DEF Unwritten, Active
  <2>2. c \notin disputed' /\ c \notin published
    BY <1>3, <2>1 DEF Unwritten
  <2>3. \A j \in Item : business'[j] # c
    BY <1>3, <2>1 DEF Unwritten, TypeOK
  <2>4. \A v \in Worker : found'[v].business # c
    BY <1>3, <2>1, NoItemZero DEF Unwritten, TypeOK, Create
  <2> QED BY <2>1, <2>2, <2>3, <2>4 DEF Unwritten
<1>6. Doubtful'
  BY <1>3 DEF Doubtful, TypeOK, Create
<1>7. Reviewed'
  <2>1. SUFFICES ASSUME NEW c \in disputed' \ vouched
                 PROVE  /\ c \notin published
                        /\ \A k \in Key : Active(k) => k.business # c
                        /\ request # NoJob => request.business # c
                        /\ \A v \in Worker : pc'[v] = "handoff" => business'[at[v].item] # c
    BY <1>3 DEF Reviewed, Active
  <2>2. \A v \in Worker : pc'[v] = "handoff" => at[v].item \in Item /\ (v = w \/ pc[v] = "handoff")
    <3>1. \A v \in Worker : pc[v] \in StagePc => at[v].item \in Item
      BY KeyShape DEF TypeOK, Holding
    <3> QED BY <1>3, <3>1, <1>1 DEF TypeOK, StagePc, i
  <2>3. CASE c # b
    <3>1. c \in disputed \ vouched
      BY <1>3, <2>1, <2>3
    <3>2. \A v \in Worker : pc'[v] = "handoff" => business'[at[v].item] # c
      BY <1>1, <1>3, <2>2, <2>3, <3>1 DEF Reviewed, TypeOK, i
    <3> QED BY <3>1, <3>2 DEF Reviewed
  <2>4. CASE c = b
    <3>1. found[w].conflict /\ ~Exists(books, b)
      BY <1>3, <2>1, <2>4, NoItemZero DEF Doubtful
    <3>2. ASSUME NEW v \in Worker, pc'[v] = "handoff"
          PROVE  business'[at[v].item] # b
      <4>1. v # w /\ pc[v] = "handoff"
        BY <1>3, <3>1, <3>2 DEF TypeOK
      <4>2. at[v] \in Key /\ at[v].stage = "resolve" /\ at[v] # at[w]
        BY <1>1, <4>1, NoJobIsNoKey DEF TypeOK, Holding, StagePc
      <4>3. at[v].item # i /\ at[v].item \in Item
        BY <1>1, <4>2, KeyOfItem, KeyShape DEF i
      <4> QED BY <1>3, <3>1, <4>3 DEF Unwritten, TypeOK
    <3> QED BY <2>4, <3>1, <3>2 DEF Unwritten
  <2> QED BY <2>3, <2>4
<1> QED BY <1>5, <1>6, <1>7

\* What an active row, a request or a hand-off may name: a business that exists and
\* whose dispute, if it is in one, somebody vouched for.
LEMMA EnqueueKeepsConflicts ==
    ASSUME TypeOK, Unwritten, Doubtful, Reviewed, NEW k \in Key, EnqueueOnce(k),
           k.business \in BusinessId =>
              Exists(books, k.business) /\ k.business \notin disputed \ vouched,
           UNCHANGED <<books, published, business, disputed, vouched, at, found>>,
           request' = request \/ request' = NoJob,
           \A v \in Worker : pc'[v] = "handoff" => pc[v] = "handoff"
    PROVE  Unwritten' /\ Doubtful' /\ Reviewed'
<1>1. \A j \in Key : Active(j)' => Active(j) \/ j = k
  BY EnqueueNames
<1>2. disputed \subseteq BusinessId
  BY DEF TypeOK
<1>3. Unwritten'
  <2>1. SUFFICES ASSUME NEW b \in BusinessId, ~Exists(books, b)
                 PROVE  /\ b \notin disputed /\ b \notin published
                        /\ \A i \in Item : business[i] # b
                        /\ \A j \in Key : Active(j)' => j.business # b
                        /\ request' # NoJob => request'.business # b
                        /\ \A w \in Worker : found[w].business # b
    BY DEF Unwritten
  <2> QED BY <1>1, <2>1 DEF Unwritten
<1>4. Doubtful'
  BY DEF Doubtful
<1>5. Reviewed'
  <2>1. SUFFICES ASSUME NEW b \in disputed \ vouched
                 PROVE  /\ b \notin published
                        /\ \A j \in Key : Active(j)' => j.business # b
                        /\ request' # NoJob => request'.business # b
                        /\ \A w \in Worker : pc'[w] = "handoff" => business[at[w].item] # b
    BY DEF Reviewed
  <2> QED BY <1>1, <1>2, <2>1 DEF Reviewed
<1> QED BY <1>3, <1>4, <1>5

\* A decision on an item of a disputed business vouches for it before it asks for an
\* audit.
LEMMA JudgeKeepsConflicts ==
    ASSUME TypeOK, Unwritten, Doubtful, Reviewed, NEW i \in Item, NEW a \in Review, Judge(i, a)
    PROVE  Unwritten' /\ Doubtful' /\ Reviewed'
<1>1. /\ UNCHANGED <<books, published, business, disputed, job, pc, at, found>>
      /\ request' = ReviewJob(i, a)
      /\ vouched \subseteq vouched'
  BY DEF Judge, Rule, index, procs
<1>2. ASSUME request' # NoJob, request'.business \in BusinessId
      PROVE  /\ request'.business = business[i]
             /\ business[i] \in disputed => business[i] \in vouched'
  <2>1. a \in {"accept", "reaudit"} /\ request'.business = business[i]
    BY <1>1, <1>2, NoItemZero DEF ReviewJob, Audit, Resolve
  <2>2. ReviewRuling(a) = "accepted"
    BY <2>1 DEF ReviewRuling
  <2> QED BY <2>1, <2>2 DEF Judge, Rule
<1>3. Unwritten'
  <2>1. SUFFICES ASSUME NEW b \in BusinessId, ~Exists(books, b)
                 PROVE  /\ b \notin disputed /\ b \notin published
                        /\ \A j \in Item : business[j] # b
                        /\ \A k \in Key : Active(k) => k.business # b
                        /\ request' # NoJob => request'.business # b
                        /\ \A w \in Worker : found[w].business # b
    BY <1>1 DEF Unwritten, Active
  <2> QED BY <1>2, <2>1 DEF Unwritten
<1>4. Doubtful'
  BY <1>1 DEF Doubtful
<1>5. Reviewed'
  <2>1. SUFFICES ASSUME NEW b \in disputed \ vouched'
                 PROVE  /\ b \notin published
                        /\ \A k \in Key : Active(k) => k.business # b
                        /\ request' # NoJob => request'.business # b
                        /\ \A w \in Worker : pc[w] = "handoff" => business[at[w].item] # b
    BY <1>1 DEF Reviewed, Active
  <2>2. b \in BusinessId /\ b \in disputed \ vouched
    BY <1>1, <2>1 DEF TypeOK
  <2> QED BY <1>2, <2>1, <2>2 DEF Reviewed
<1> QED BY <1>3, <1>4, <1>5

\* An audit decides about the business of its own row.
LEMMA AuditKeepsConflicts ==
    ASSUME TypeOK, Holding, Unwritten, Doubtful, Reviewed, NEW w \in Worker,
           Publish(w) \/ MarkEligible(w) \/ \E o \in Withheld : Withhold(w, o)
    PROVE  Unwritten' /\ Doubtful' /\ Reviewed'
<1> DEFINE b == at[w].business
<1>1. at[w] \in Key /\ at[w].item \in Item /\ b \in BusinessId /\ Active(at[w])
  BY AuditStage DEF Publish, MarkEligible, Withhold, Holding, Active, StagePc
<1>2. Exists(books, b) /\ b \notin disputed \ vouched
  BY <1>1 DEF Unwritten, Reviewed
<1>3. /\ UNCHANGED <<books, disputed, vouched, job, at, found, request>>
      /\ published' \subseteq published \cup {b}
      /\ business' = business \/ business' = [business EXCEPT ![at[w].item] = b]
      /\ \A v \in Worker : pc'[v] = "handoff" => pc[v] = "handoff"
  BY DEF Publish, MarkEligible, Withhold, items, index, people, history, TypeOK
<1> HIDE DEF b
<1>4. \A i \in Item : business'[i] = business[i] \/ business'[i] = b
  BY <1>1, <1>3 DEF TypeOK
<1>5. Unwritten'
  <2>1. SUFFICES ASSUME NEW c \in BusinessId, ~Exists(books, c)
                 PROVE  /\ c \notin disputed /\ c \notin published'
                        /\ \A i \in Item : business'[i] # c
                        /\ \A k \in Key : Active(k) => k.business # c
                        /\ request # NoJob => request.business # c
                        /\ \A v \in Worker : found[v].business # c
    BY <1>3 DEF Unwritten, Active
  <2> QED BY <1>2, <1>3, <1>4, <2>1 DEF Unwritten
<1>6. Doubtful'
  BY <1>3 DEF Doubtful
<1>7. Reviewed'
  <2>1. \A v \in Worker : pc[v] = "handoff" => at[v].item \in Item
    BY KeyShape DEF TypeOK, Holding, StagePc
  <2>2. SUFFICES ASSUME NEW c \in disputed \ vouched
                 PROVE  /\ c \notin published'
                        /\ \A k \in Key : Active(k) => k.business # c
                        /\ request # NoJob => request.business # c
                        /\ \A v \in Worker : pc'[v] = "handoff" => business'[at[v].item] # c
    BY <1>3 DEF Reviewed, Active
  <2> QED BY <1>2, <1>3, <1>4, <2>1, <2>2 DEF Reviewed
<1> QED BY <1>5, <1>6, <1>7

LEMMA ConflictStep ==
    ASSUME TypeOK, Holding, Unwritten, Doubtful, Reviewed, [Next]_vars
    PROVE  Unwritten' /\ Doubtful' /\ Reviewed'
<1>1. CASE UNCHANGED vars
  BY <1>1 DEF vars, items, index, procs, people, history, Unwritten, Doubtful, Reviewed, Active
<1>2. ASSUME NEW w \in Worker, UpsertFound(w) PROVE Unwritten' /\ Doubtful' /\ Reviewed'
  BY <1>2, UpsertFoundLink, LinkKeepsConflicts DEF UpsertFound
<1>3. ASSUME NEW w \in Worker, UpsertNew(w) PROVE Unwritten' /\ Doubtful' /\ Reviewed'
  <2>1. ~Exists(books, FreeRow(books))
    BY <1>3, FreeRowShape DEF UpsertNew, Exists
  <2> QED BY <1>3, <2>1, UpsertNewLink, LinkKeepsConflicts DEF UpsertNew
<1>4. ASSUME NEW w \in Worker, HandOff(w) PROVE Unwritten' /\ Doubtful' /\ Reviewed'
  <2> DEFINE i == at[w].item
             k == Audit(i, business[i])
  <2>1. i \in Item /\ business[i] \in BusinessId
    BY <1>4, KeyShape DEF TypeOK, Holding, StagePc, HandOff
  <2>2. Exists(books, business[i]) /\ business[i] \notin disputed \ vouched
    BY <1>4, <2>1 DEF Unwritten, Reviewed, HandOff
  <2>3. k \in Key /\ k.business = business[i]
    BY <2>1, AuditKey DEF Audit
  <2>4. /\ EnqueueOnce(k)
        /\ UNCHANGED <<books, published, business, disputed, vouched, at, found, request>>
        /\ \A v \in Worker : pc'[v] = "handoff" => pc[v] = "handoff"
    BY <1>4 DEF HandOff, TypeOK, items, index, people
  <2> HIDE DEF k
  <2> QED BY <2>2, <2>3, <2>4, EnqueueKeepsConflicts
<1>5. ASSUME NEW w \in Worker, Publish(w) \/ MarkEligible(w) \/ \E o \in Withheld : Withhold(w, o)
      PROVE  Unwritten' /\ Doubtful' /\ Reviewed'
  BY <1>5, AuditKeepsConflicts
<1>6. CASE FollowUp
  <2>1. request \in Key
    BY <1>6 DEF FollowUp, TypeOK
  <2>2. request.business \in BusinessId =>
           Exists(books, request.business) /\ request.business \notin disputed \ vouched
    BY <1>6 DEF FollowUp, Unwritten, Reviewed
  <2>3. /\ EnqueueOnce(request) /\ request' = NoJob
        /\ UNCHANGED <<books, published, business, disputed, vouched, at, found, pc>>
    BY <1>6 DEF FollowUp, items, index, procs
  <2> QED BY <2>1, <2>2, <2>3, EnqueueKeepsConflicts
<1>7. ASSUME NEW i \in Item, NEW a \in Review, Judge(i, a)
      PROVE  Unwritten' /\ Doubtful' /\ Reviewed'
  BY <1>7, JudgeKeepsConflicts
<1>8. ASSUME NEW w \in Worker,
             \/ Complete(w)
             \/ \E e \in BOOLEAN : Fail(w, e)
             \/ \E k \in Key : Claim(w, k)
             \/ RecordFailure(w) \/ Crash(w) \/ Recover(w)
             \/ Dispatch(w) \/ Search(w)
             \/ \E listings \in SUBSET Listing, reviewFirst \in BOOLEAN :
                   Ingest(w, listings, reviewFirst)
      PROVE  Unwritten' /\ Doubtful' /\ Reviewed'
  BY <1>8, QuietWorker, QuietKeeps
<1>9. CASE \/ RequestLost \/ ValidateOne \/ StartDiscard \/ Discard
           \/ \E S \in SUBSET Item : StartValidate(S)
  BY <1>9, QuietPeople, QuietKeeps
<1> QED BY <1>1, <1>2, <1>3, <1>4, <1>5, <1>6, <1>7, <1>8, <1>9 DEF Next, Stage

(***************************************************************************)
(* The theorems.                                                           *)
(***************************************************************************)

LEMMA InitType ==
    ASSUME Init
    PROVE  TypeOK
<1>1. books \in [BusinessId -> BusinessRow]
  <2>1. NoBusiness \in BusinessRow
    BY DEF NoBusiness, BusinessRow, Value
  <2> QED BY <2>1 DEF Init
<1>2. reviews \in 0..MaxReviews /\ faults \in 0..MaxFaults
  BY BoundsAssumption DEF Init
<1> QED BY <1>1, <1>2, NothingFound DEF Init, TypeOK, ItemState

LEMMA InitInvariant ==
    ASSUME Init
    PROVE  IInv
<1>1. Holding
  BY NoJobIsNoKey DEF Init, Holding, StagePc
<1>2. \A i \in Item : ~Busy(i) /\ ~Requested(i) /\ ~Validating(i) /\ ~Recording(i)
  BY DEF Init, Busy, Active, Requested, Validating, Recording
<1>3. Unstored /\ Gated
  BY <1>2 DEF Init, Unstored, Gated
<1>4. Rejected /\ Moving
  BY DEF Init, Rejected, Negative, Moving, Waiting
<1>5. OneBusinessPerListing
  BY DEF Init, OneBusinessPerListing, NoBusiness
<1>6. Unwritten /\ Doubtful /\ Reviewed
  BY NoItemZero DEF Init, Unwritten, Doubtful, Reviewed, Active, Create
<1> QED BY <1>1, <1>3, <1>4, <1>5, <1>6, InitType DEF IInv

\* The inductive invariant holds of every behaviour.
THEOREM Invariance == Spec => []IInv
<1>1. Init => IInv
  BY InitInvariant
<1>2. IInv /\ [Next]_vars => IInv'
  BY TypeStep, HoldingStep, UnstoredStep, GatedStep, RejectedStep, MovingStep, OneBusinessStep,
     ConflictStep DEF IInv
<1> QED BY <1>1, <1>2, PTL DEF Spec

\* The variables of the stages, the reviewer and the administrator keep their
\* types, whatever the listings and the bounds.
THEOREM TypeCorrect == Spec => []TypeOK
<1>1. IInv => TypeOK
  BY DEF IInv
<1> QED BY <1>1, Invariance, PTL

\* No item of a review_first fetch is resolved or audited before a human let it
\* through, whatever is refetched, retried or recovered (fetch_source,
\* validate_data_job, review).
THEOREM ReviewGateHolds == Spec => []ReviewGate
<1>1. IInv => ReviewGate
  BY DEF IInv, TypeOK, Gated, ReviewGate
<1> QED BY <1>1, Invariance, PTL

\* A human rejection outlives every refetch of the listing and every job that
\* starts later (_carry_forward_human_decision, the loop of fetch_source).
THEOREM RejectionStandsHolds == Spec => []RejectionStands
<1>1. IInv => RejectionStands
  BY DEF IInv, Rejected, Underway, RejectionStands
<1> QED BY <1>1, Invariance, PTL

\* An item left waiting by a stage, a review or a release is on its way to a job
\* or to a recorded failure, unless enqueue_once met a running row or a process
\* died between its two transactions.
THEOREM NoItemStrandedHolds == Spec => []NoItemStranded
<1>1. IInv => NoItemStranded
  BY DEF IInv, Moving, Driven, Busy, Requested, Recording, NoItemStranded
<1> QED BY <1>1, Invariance, PTL

\* A listing is held by two businesses only through a resolver that wrote on an
\* answer another one had changed (_find_business, _upsert_business).
THEOREM OneBusinessHolds == Spec => []OneBusinessPerListing
<1>1. IInv => OneBusinessPerListing
  BY DEF IInv
<1> QED BY <1>1, Invariance, PTL

\* A business whose identity was in conflict is published only after a user accepted
\* an item linked to it, whatever was released before it was resolved (_find_business,
\* _resolve_identity, review).
THEOREM ConflictIsReviewedHolds == Spec => []ConflictIsReviewed
<1>1. IInv => ConflictIsReviewed
  BY DEF IInv, Reviewed, ConflictIsReviewed
<1> QED BY <1>1, Invariance, PTL
(***************************************************************************)
(* The jobs of the stages and the queue's promise about a key.             *)
(***************************************************************************)

HolderOf(k) == {w \in Worker : at[w] = k}

\* What a step does to a row and to who holds it, as a step of the lease.
LEMMA LawfulRow ==
    ASSUME NEW k \in Key,
           \/ job'[k] = job[k] /\ HolderOf(k)' = HolderOf(k)
           \/ job[k] = "none" /\ job'[k] = "queued" /\ HolderOf(k) = {} /\ HolderOf(k)' = {}
           \/ /\ job[k] = "queued" /\ job'[k] = "running" /\ HolderOf(k) = {}
              /\ \E w \in Worker : HolderOf(k)' = {w}
           \/ /\ job[k] = "running" /\ job'[k] \in {"none", "queued"} /\ HolderOf(k)' = {}
              /\ \E w \in Worker : HolderOf(k) = {w}
           \/ /\ job[k] = "running" /\ job'[k] = "running" /\ HolderOf(k)' = {}
              /\ \E w \in Worker : HolderOf(k) = {w}
           \/ /\ job[k] = "running" /\ job'[k] \in {"none", "queued"}
              /\ HolderOf(k) = {} /\ HolderOf(k)' = {}
    PROVE  Lease!Lawful(k)
BY DEF HolderOf, Lease!Lawful, Lease!Unmoved, Lease!Handled, Lease!Leased, Lease!Released,
       Lease!Orphaned, Lease!Recovered, Lease!Moves, Lease!Idle

\* A row that does not run is held by nobody, and one that is held by one worker.
LEMMA HeldAlone ==
    ASSUME Holding
    PROVE  /\ \A k \in Key : job[k] # "running" => HolderOf(k) = {}
           /\ \A w \in Worker : at[w] \in Key => HolderOf(at[w]) = {w} /\ job[at[w]] = "running"
BY NoJobIsNoKey DEF Holding, HolderOf

\* A step that leaves everybody's row may enqueue one.
LEMMA EnqueueLawful ==
    ASSUME TypeOK, Holding, at' = at,
           job' = job \/ \E k \in Key : EnqueueOnce(k)
    PROVE  \A k \in Key : Lease!Lawful(k)
<1> SUFFICES ASSUME NEW k \in Key PROVE Lease!Lawful(k)
  OBVIOUS
<1>1. HolderOf(k)' = HolderOf(k)
  BY DEF HolderOf
<1>2. job'[k] = job[k] \/ (job[k] = "none" /\ job'[k] = "queued")
  BY DEF EnqueueOnce, Active, TypeOK
<1> QED BY <1>1, <1>2, HeldAlone, LawfulRow

\* The steps that take a row or let go of one.
LEMMA WorkerLawful ==
    ASSUME TypeOK, Holding, NEW w \in Worker,
           \/ \E k \in Key : Claim(w, k)
           \/ Complete(w) \/ (\E e \in BOOLEAN : Fail(w, e))
           \/ Crash(w)
           \/ Recover(w)
    PROVE  \A k \in Key : Lease!Lawful(k)
<1> SUFFICES ASSUME NEW k \in Key PROVE Lease!Lawful(k)
  OBVIOUS
<1> k # NoJob /\ at \in [Worker -> Key \cup {NoJob}] /\ job \in [Key -> {"none", "queued", "running"}]
  BY NoJobIsNoKey DEF TypeOK
<1>1. ASSUME NEW j \in Key, Claim(w, j) PROVE Lease!Lawful(k)
  <2>1. /\ at[w] = NoJob /\ at' = [at EXCEPT ![w] = j]
        /\ job[j] = "queued" /\ job' = [job EXCEPT ![j] = "running"]
    BY <1>1, KeyShape DEF Claim, Holding, StagePc
  <2>2. CASE k = j
    <3>1. HolderOf(k) = {}
      BY <2>1, <2>2, HeldAlone
    <3>2. HolderOf(k)' = {w}
      BY <2>1, <2>2, <3>1 DEF HolderOf
    <3> QED BY <2>1, <2>2, <3>1, <3>2, LawfulRow
  <2>3. CASE k # j
    <3>1. HolderOf(k)' = HolderOf(k)
      BY <2>1, <2>3 DEF HolderOf
    <3> QED BY <2>1, <2>3, <3>1, LawfulRow
  <2> QED BY <2>2, <2>3
<1>2. ASSUME Complete(w) \/ (\E e \in BOOLEAN : Fail(w, e)) PROVE Lease!Lawful(k)
  <2>1. at[w] \in Key
    <3>1. pc[w] \in StagePc
      BY <1>2 DEF Complete, Fail, StagePc
    <3> QED BY <3>1 DEF TypeOK, Holding
  <2>2. /\ at' = [at EXCEPT ![w] = NoJob]
        /\ \E next \in {"none", "queued"} : job' = [job EXCEPT ![at[w]] = next]
    BY <1>2 DEF Complete, Fail
  <2>3. CASE k = at[w]
    <3>1. HolderOf(k) = {w} /\ job[k] = "running"
      BY <2>1, <2>3, HeldAlone
    <3>2. HolderOf(k)' = {}
      BY <2>2, <3>1 DEF HolderOf
    <3> QED BY <2>2, <2>3, <3>1, <3>2, LawfulRow
  <2>4. CASE k # at[w]
    <3>1. HolderOf(k)' = HolderOf(k)
      BY <2>2, <2>4 DEF HolderOf
    <3> QED BY <2>1, <2>2, <2>4, <3>1, LawfulRow
  <2> QED BY <2>3, <2>4
<1>3. ASSUME Crash(w) PROVE Lease!Lawful(k)
  <2>1. at' = [at EXCEPT ![w] = NoJob] /\ job' = job
    BY <1>3 DEF Crash
  <2>2. CASE k = at[w]
    <3>1. HolderOf(k) = {w} /\ job[k] = "running"
      BY <2>2, HeldAlone
    <3>2. HolderOf(k)' = {}
      BY <2>1, <3>1 DEF HolderOf
    <3> QED BY <2>1, <3>1, <3>2, LawfulRow
  <2>3. CASE k # at[w]
    <3>1. HolderOf(k)' = HolderOf(k)
      BY <2>1, <2>3 DEF HolderOf
    <3> QED BY <2>1, <3>1, LawfulRow
  <2> QED BY <2>2, <2>3
<1>4. ASSUME Recover(w) PROVE Lease!Lawful(k)
  <2>1. HolderOf(k)' = HolderOf(k)
    BY <1>4 DEF Recover, HolderOf
  <2>2. \/ job'[k] = job[k]
        \/ job[k] = "running" /\ HolderOf(k) = {} /\ job'[k] \in {"none", "queued"}
    BY <1>4 DEF Recover, HolderOf
  <2> QED BY <2>1, <2>2, LawfulRow
<1> QED BY <1>1, <1>2, <1>3, <1>4

\* Every step does to every row what the lease allows.
LEMMA RowsLawful ==
    ASSUME TypeOK, Holding, [Next]_vars
    PROVE  \A k \in Key : Lease!Lawful(k)
<1>1. CASE UNCHANGED <<at, job>>
  BY <1>1, EnqueueLawful
<1>2. ASSUME NEW w \in Worker, Dispatch(w) PROVE at' = at /\ (job' = job \/ \E k \in Key : EnqueueOnce(k))
  BY <1>2, ResolveKey DEF Dispatch, TypeOK
<1>3. ASSUME NEW w \in Worker, HandOff(w) PROVE at' = at /\ \E k \in Key : EnqueueOnce(k)
  <2>1. at[w].item \in Item /\ business[at[w].item] \in BusinessId
    BY <1>3, KeyShape DEF TypeOK, Holding, StagePc, HandOff
  <2> QED BY <1>3, <2>1, AuditKey DEF HandOff
<1>4. CASE FollowUp
  BY <1>4, EnqueueLawful DEF FollowUp, procs, TypeOK
<1>5. CASE ValidateOne
  BY <1>5, ResolveKey, EnqueueLawful DEF ValidateOne, procs, TypeOK
<1>6. ASSUME NEW w \in Worker,
             \/ RecordFailure(w) \/ Search(w) \/ UpsertFound(w) \/ UpsertNew(w)
             \/ Publish(w) \/ MarkEligible(w)
             \/ \E outcome \in Withheld : Withhold(w, outcome)
             \/ \E listings \in SUBSET Listing, reviewFirst \in BOOLEAN : Ingest(w, listings, reviewFirst)
      PROVE  UNCHANGED <<at, job>>
  BY <1>6 DEF RecordFailure, Search, UpsertFound, UpsertNew, Link, Publish, MarkEligible,
              Withhold, Ingest
<1>7. ASSUME \/ UNCHANGED vars
             \/ \E i \in Item, a \in Review : Judge(i, a)
             \/ RequestLost
             \/ \E S \in SUBSET Item : StartValidate(S)
             \/ StartDiscard \/ Discard
      PROVE  UNCHANGED <<at, job>>
  BY <1>7 DEF Judge, RequestLost, StartValidate, StartDiscard, Discard, procs, vars
<1> QED
  BY <1>1, <1>2, <1>3, <1>4, <1>5, <1>6, <1>7, EnqueueLawful, WorkerLawful DEF Next, Stage

\* The stages handle the rows they run as the queue promises for a key: what
\* SourceItems says of jobs is what JobQueue proves of the rows behind them.
THEOREM JobsAreLeased == Spec => ImplementsKeyLease
<1>1. Init => Lease!Init
  BY NoJobIsNoKey DEF Init, Lease!Init
<1>2. IInv /\ IInv' /\ [Next]_vars => [Lease!Next]_(Lease!leaseVars)
  <2> SUFFICES ASSUME IInv, IInv', [Next]_vars
               PROVE  Lease!Next
    OBVIOUS
  <2>1. job' \in [Key -> Lease!Stage]
    BY DEF IInv, TypeOK, Lease!Stage
  <2>2. [k \in Key |-> {w \in Worker : at[w] = k}]' \in [Key -> SUBSET Worker]
    OBVIOUS
  <2>3. \A k \in Key : Lease!Lawful(k)
    BY RowsLawful DEF IInv
  <2> QED
    BY <2>1, <2>2, <2>3 DEF Lease!Next
<1> QED BY <1>1, <1>2, Invariance, PTL DEF Spec, ImplementsKeyLease, Lease!Spec
=============================================================================
