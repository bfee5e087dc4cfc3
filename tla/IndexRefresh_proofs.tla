-------------------------- MODULE IndexRefresh_proofs --------------------------
(***************************************************************************)
(* What holds of IndexRefresh for any sources and workers and all bounds:  *)
(* the gate covers a batch that is collected for review, and no source is  *)
(* fetched twice at a time.                                                *)
(***************************************************************************)
EXTENDS IndexRefresh, TLAPS

(***************************************************************************)
(* The strengthening.                                                      *)
(***************************************************************************)

\* Rows are only of refreshes that were asked for, and those are pending before.
RowsKnown == \A k \in QueueRow : status[k] # "none" => mode[k.root] # "none"
Fresh == \A r \in Root : mode[r] = "none" => gate[r] = "pending" /\ Staged(r) = {}

\* What a worker does fits the row it runs.
PlanStage == {"plan", "spread", "void"}
FetchStage == {"fetch", "handoff"}
Posted ==
    \A w \in Worker :
        /\ at[w] # NoRow => mode[at[w].root] # "none"
        /\ pc[w] \in PlanStage => at[w].kind = "plan"
        /\ pc[w] \in FetchStage => at[w].kind = "fetch"
        /\ pc[w] = "spread" => plans[at[w].root] # 0

\* A row that no cancellation took from its worker is RUNNING, and there alone.
Held ==
    \A w \in Worker :
        at[w] # NoRow /\ at[w] \notin snatched =>
            /\ status[at[w]] = "running"
            /\ \A v \in Worker : at[v] = at[w] => v = w

\* One fetch of a source is active at a time.
SourceActiveOnce ==
    \A j, k \in QueueRow :
        /\ j.kind = "fetch" /\ k.kind = "fetch" /\ j.sources = k.sources
        /\ ActiveRow(j) /\ ActiveRow(k)
        => j = k

\* A batch nobody has decided on too early, and whose rows are all still its workers'.
Orderly(r) == r \notin hasty /\ Records(r) \cap snatched = {}
Collected(r) == \E k \in Records(r) : ActiveRow(k)

\* While rows are canceled they wait, and no others are there.
Canceling ==
    desk = "canceling" =>
        /\ file \in Root /\ mode[file] # "none"
        /\ pile \subseteq Records(file)
        /\ \A k \in pile : k \in snatched \/ status[k] = "queued"
        /\ Orderly(file) => \A k \in Records(file) : ActiveRow(k) => k \in pile

\* While staged items are released nothing is collected, and nothing is left behind.
Validating ==
    desk = "validating" =>
        /\ file \in Root /\ mode[file] # "none"
        /\ pile \subseteq Children(file)
        /\ Orderly(file) => ~Collected(file)
        /\ Orderly(file) /\ gateNext = "approved" => Staged(file) \subseteq pile

Steady ==
    /\ RowsKnown /\ Fresh
    /\ Held /\ SourceActiveOnce
    /\ Canceling /\ Validating
    /\ GateCoversBatch

IInv == TypeOK /\ Posted /\ Steady

(***************************************************************************)
(* The rows of the queue.                                                  *)
(***************************************************************************)

\* A fetch is known by its refresh, its source and its planning.
LEMMA FetchShape ==
    ASSUME NEW f \in Fetch
    PROVE  /\ f.kind = "fetch" /\ f.root \in Root
           /\ f \in QueueRow /\ ItemRow(f) \in QueueRow
           /\ ItemRow(f).kind = "item" /\ ItemRow(f).root = f.root
           /\ ItemRow(f) # f
<1>1. PICK r \in Root, s \in Source, n \in 1..MaxPlans : f = FetchRow(r, s, n)
  BY DEF Fetch
<1>2. f = [kind |-> "fetch", root |-> r, sources |-> {s}, plan |-> n]
  BY <1>1 DEF FetchRow, Row
<1>3. ItemRow(f) = [kind |-> "item", root |-> r, sources |-> {s}, plan |-> n]
  BY <1>2 DEF ItemRow
<1>4. {f, ItemRow(f)} \in {{g, ItemRow(g)} : g \in Fetch}
  OBVIOUS
<1>5. f \in QueueRow /\ ItemRow(f) \in QueueRow
  BY <1>4 DEF QueueRow
<1> QED
  BY <1>2, <1>3, <1>5

\* Every row is one of three kinds.
LEMMA RowShape ==
    ASSUME NEW k \in QueueRow
    PROVE  /\ k.root \in Root
           /\ k.kind \in {"plan", "fetch", "item"}
           /\ k.kind = "plan" => k = PlanRow(k.root)
           /\ k.kind = "fetch" => k \in Fetch
<1>1. CASE \E r \in Root : k = PlanRow(r)
  BY <1>1 DEF PlanRow, Row
<1>2. CASE \E f \in Fetch : k = f \/ k = ItemRow(f)
  BY <1>2, FetchShape
<1> QED
  BY <1>1, <1>2 DEF QueueRow

\* A refresh's own row.
LEMMA PlanShape ==
    ASSUME NEW r \in Root
    PROVE  PlanRow(r) \in QueueRow /\ PlanRow(r).kind = "plan" /\ PlanRow(r).root = r
<1> QED BY DEF PlanRow, Row, QueueRow

\* A refresh's planning gives fetches.
LEMMA SpreadShape ==
    ASSUME NEW r \in Root, NEW s \in Source, NEW n \in 1..MaxPlans
    PROVE  /\ FetchRow(r, s, n) \in Fetch
           /\ FetchRow(r, s, n).root = r
           /\ FetchRow(r, s, n).sources = {s}
<1>1. FetchRow(r, s, n) \in Fetch
  BY DEF Fetch
<1> QED
  BY <1>1 DEF FetchRow, Row

\* The records of a refresh are its own row and its fetches.
LEMMA RecordShape ==
    ASSUME NEW r \in Root
    PROVE  Records(r) = {k \in QueueRow : k.root = r /\ k.kind \in {"plan", "fetch"}}
<1>1. ASSUME NEW k \in Records(r)
      PROVE  k \in QueueRow /\ k.root = r /\ k.kind \in {"plan", "fetch"}
  BY <1>1, PlanShape, FetchShape DEF Records, Children
<1>2. ASSUME NEW k \in QueueRow, k.root = r, k.kind \in {"plan", "fetch"}
      PROVE  k \in Records(r)
  BY <1>2, RowShape DEF Records, Children
<1> QED BY <1>1, <1>2

\* Rows with the key of a fetch are the fetches of its source, an item has its own.
LEMMA KeyShape ==
    ASSUME NEW k \in QueueRow
    PROVE  /\ SameKey(k) \subseteq QueueRow
           /\ k.kind = "fetch" =>
                 SameKey(k) = {j \in QueueRow : j.kind = "fetch" /\ j.sources = k.sources}
           /\ k.kind = "plan" =>
                 SameKey(k) = {j \in QueueRow : j.kind = "plan" /\ j.sources = k.sources}
           /\ k.kind = "item" => SameKey(k) = {k}
<1> QED BY RowShape DEF SameKey

(***************************************************************************)
(* Types.                                                                  *)
(***************************************************************************)

RowStatus == {"none", "queued", "running", "done", "dead", "canceled"}
Stage == {"idle", "plan", "spread", "void", "fetch", "handoff", "item", "settle", "close", "finish"}

\* The types of what a worker holds.
ProcTypes ==
    /\ pc \in [Worker -> Stage]
    /\ at \in [Worker -> QueueRow \cup {NoRow}]
    /\ \A w \in Worker : pc[w] = "idle" <=> at[w] = NoRow
    /\ todo \in [Worker -> SUBSET Source]

\* enqueue_once queues the row, or leaves the table as it is.
LEMMA EnqueueTypes ==
    ASSUME TypeOK, NEW k \in QueueRow, EnqueueOnce(k)
    PROVE  status' \in [QueueRow -> RowStatus]
<1> QED BY DEF EnqueueOnce, TypeOK, RowStatus

\* A request finds an active refresh, or starts an unused one.
LEMMA AskTypes ==
    ASSUME TypeOK, NEW m \in {"system", "automatic", "review"}, AskRefresh(m)
    PROVE  /\ status' \in [QueueRow -> RowStatus]
           /\ mode' \in [Root -> {"none", "system", "automatic", "review"}]
<1>1. CASE \E q \in Root : ActiveRow(PlanRow(q))
  BY <1>1 DEF AskRefresh, TypeOK, RowStatus
<1>2. CASE ~\E q \in Root : ActiveRow(PlanRow(q))
  <2> DEFINE r == CHOOSE q \in Unused : TRUE
  <2>1. /\ Unused # {} /\ EnqueueOnce(PlanRow(r))
        /\ mode' = [mode EXCEPT ![r] = m]
    BY <1>2 DEF AskRefresh
  <2>2. r \in Root
    BY <2>1 DEF Unused
  <2> HIDE DEF r
  <2>3. status' \in [QueueRow -> RowStatus]
    BY <2>1, <2>2, PlanShape, EnqueueTypes
  <2> QED
    BY <2>1, <2>2, <2>3 DEF TypeOK
<1> QED BY <1>1, <1>2

\* A worker that is done is idle.
LEMMA EndedTypes ==
    ASSUME TypeOK, NEW w \in Worker, Ended(w)
    PROVE  ProcTypes'
<1> QED BY DEF Ended, TypeOK, ProcTypes, Stage

\* Nothing has happened at first.
LEMMA InitType ==
    ASSUME Init
    PROVE  TypeOK
<1> QED BY BoundsAssumption DEF Init, TypeOK, Released

\* What a worker's handler does keeps the types.
LEMMA HandleTypes ==
    ASSUME TypeOK, Posted, NEW w \in Worker, Handle(w)
    PROVE  TypeOK'
<1> USE DEF people, history
<1>1. ASSUME Complete(w) PROVE TypeOK'
  <2>1. ProcTypes'
    BY <1>1, EndedTypes DEF Complete
  <2>2. status' \in [QueueRow -> RowStatus]
    BY <1>1 DEF Complete, TypeOK, RowStatus
  <2> QED
    BY <1>1, <2>1, <2>2 DEF Complete, TypeOK, ProcTypes, RowStatus, Stage
<1>2. ASSUME NEW sources \in SUBSET Source, Plan(w, sources) PROVE TypeOK'
  <2>1. at[w] \in QueueRow /\ at[w].root \in Root
    BY <1>2, RowShape DEF Plan, TypeOK
  <2>2. plans' \in [Root -> 0..MaxPlans]
    BY <1>2, <2>1, BoundsAssumption DEF Plan, TypeOK
  <2>3. ProcTypes'
    BY <1>2 DEF Plan, TypeOK, ProcTypes, Stage
  <2> QED
    BY <1>2, <2>2, <2>3 DEF Plan, TypeOK, ProcTypes, Stage
<1>3. ASSUME Spread(w) PROVE TypeOK'
  <2>1. at[w] \in QueueRow /\ at[w].root \in Root
    BY <1>3, RowShape DEF Spread, TypeOK
  <2>2. plans[at[w].root] \in 1..MaxPlans
    BY <1>3, <2>1, BoundsAssumption DEF Spread, TypeOK, Posted
  <2>3. PICK s \in todo[w] :
           /\ EnqueueOnce(FetchRow(at[w].root, s, plans[at[w].root]))
           /\ todo' = [todo EXCEPT ![w] = @ \ {s}]
           /\ pc' = [pc EXCEPT ![w] = IF todo[w] # {s} THEN "spread" ELSE "finish"]
    BY <1>3 DEF Spread
  <2>4. s \in Source
    BY <2>3 DEF TypeOK
  <2>5. status' \in [QueueRow -> RowStatus]
    BY <2>1, <2>2, <2>3, <2>4, SpreadShape, FetchShape, EnqueueTypes
  <2>6. ProcTypes'
    BY <1>3, <2>3 DEF Spread, TypeOK, ProcTypes, Stage
  <2> QED
    BY <1>3, <2>5, <2>6 DEF Spread, TypeOK, ProcTypes, RowStatus, Stage
<1>4. ASSUME FinishEmpty(w) PROVE TypeOK'
  BY <1>4 DEF FinishEmpty, TypeOK
<1>5. ASSUME Store(w) PROVE TypeOK'
  <2>1. at[w] \in Fetch
    BY <1>5, RowShape DEF Store, TypeOK, Posted, FetchStage
  <2>2. staged' \subseteq Fetch
    BY <1>5, <2>1 DEF Store, TypeOK
  <2>3. ProcTypes'
    BY <1>5 DEF Store, TypeOK, ProcTypes, Stage
  <2> QED
    BY <1>5, <2>2, <2>3 DEF Store, TypeOK, ProcTypes, Stage
<1>6. ASSUME HandOff(w) PROVE TypeOK'
  <2>1. at[w] \in Fetch
    BY <1>6, RowShape DEF HandOff, TypeOK, Posted, FetchStage
  <2>2. status' \in [QueueRow -> RowStatus]
    BY <1>6, <2>1, FetchShape, EnqueueTypes DEF HandOff
  <2> QED
    BY <1>6, <2>2 DEF HandOff, TypeOK, RowStatus
<1>7. ASSUME RunItem(w) PROVE TypeOK'
  BY <1>7 DEF RunItem, TypeOK
<1>8. ASSUME Look(w) PROVE TypeOK'
  BY <1>8 DEF Look, TypeOK
<1>9. ASSUME Close(w) PROVE TypeOK'
  BY <1>9 DEF Close, TypeOK
<1> QED
  BY <1>1, <1>2, <1>3, <1>4, <1>5, <1>6, <1>7, <1>8, <1>9 DEF Handle

\* So does what befalls a worker.
LEMMA FateTypes ==
    ASSUME TypeOK,
           \/ \E w \in Worker : \/ \E k \in QueueRow : Claim(w, k)
                                \/ \E exhausted \in BOOLEAN : Fail(w, exhausted)
                                \/ Crash(w)
           \/ \E k \in QueueRow, exhausted \in BOOLEAN : Recover(k, exhausted)
    PROVE  TypeOK'
<1> USE DEF people, history, procs
<1>1. ASSUME NEW w \in Worker, NEW k \in QueueRow, Claim(w, k) PROVE TypeOK'
  <2>1. ProcTypes'
    BY <1>1, RowShape, NoRowIsNoRow DEF Claim, TypeOK, ProcTypes, Stage
  <2> QED
    BY <1>1, <2>1 DEF Claim, TypeOK, ProcTypes, Stage
<1>2. ASSUME NEW w \in Worker, NEW exhausted \in BOOLEAN, Fail(w, exhausted) PROVE TypeOK'
  <2>1. ProcTypes'
    BY <1>2, EndedTypes DEF Fail
  <2>2. faults' \in 0..MaxFaults
    BY <1>2, BoundsAssumption DEF Fail, TypeOK
  <2> QED
    BY <1>2, <2>1, <2>2 DEF Fail, TypeOK, ProcTypes, Stage
<1>3. ASSUME NEW w \in Worker, Crash(w) PROVE TypeOK'
  <2>1. ProcTypes'
    BY <1>3, EndedTypes DEF Crash
  <2>2. faults' \in 0..MaxFaults
    BY <1>3, BoundsAssumption DEF Crash, TypeOK
  <2> QED
    BY <1>3, <2>1, <2>2 DEF Crash, TypeOK, ProcTypes, Stage
<1>4. ASSUME NEW k \in QueueRow, NEW exhausted \in BOOLEAN, Recover(k, exhausted) PROVE TypeOK'
  BY <1>4 DEF Recover, TypeOK
<1> QED
  BY <1>1, <1>2, <1>3, <1>4

\* And the scheduler, the audiences and the administrator.
LEMMA RequestTypes ==
    ASSUME TypeOK, Canceling, Validating,
           \/ Elapse \/ Schedule \/ Expand
           \/ \E m \in {"automatic", "review"} : StartCreate(m)
           \/ EndCreate
           \/ \E r \in Root, S \in SUBSET staged : StartValidate(r, S)
           \/ Proceed
           \/ \E r \in Root : Discard(r) \/ StartCancel(r) \/ Retry(r)
    PROVE  TypeOK'
<1> USE DEF people, history, procs
<1>1. ASSUME Elapse PROVE TypeOK'
  BY <1>1 DEF Elapse, TypeOK
<1>2. ASSUME Schedule \/ Expand PROVE TypeOK'
  <2>1. AskRefresh("system")
    BY <1>2 DEF Schedule, Expand
  <2> QED
    BY <1>2, <2>1, AskTypes DEF Schedule, Expand, TypeOK, RowStatus
<1>3. ASSUME NEW m \in {"automatic", "review"}, StartCreate(m) PROVE TypeOK'
  BY <1>3, BoundsAssumption DEF StartCreate, Requesting, TypeOK
<1>4. ASSUME EndCreate PROVE TypeOK'
  <2>1. desk \in {"automatic", "review"} /\ AskRefresh(desk)
    BY <1>4 DEF EndCreate
  <2> QED
    BY <1>4, <2>1, AskTypes DEF EndCreate, TypeOK, RowStatus
<1>5. ASSUME NEW r \in Root, NEW S \in SUBSET staged, StartValidate(r, S) PROVE TypeOK'
  <2>1. pile' \subseteq QueueRow
    BY <1>5, FetchShape DEF StartValidate, TypeOK
  <2>2. hasty' \subseteq Root /\ requests' \in 0..MaxAdmin
    BY <1>5, BoundsAssumption DEF StartValidate, Requesting, Decide, TypeOK
  <2> QED
    BY <1>5, <2>1, <2>2 DEF StartValidate, Decide, TypeOK
<1>6. ASSUME ValidateOne PROVE TypeOK'
  <2>1. PICK f \in pile :
           /\ staged' = staged \ {f}
           /\ EnqueueOnce(ItemRow(f))
           /\ pile' = pile \ {f}
    BY <1>6 DEF ValidateOne
  <2>2. f \in Fetch
    BY <1>6, <2>1 DEF ValidateOne, Validating, Children
  <2>3. status' \in [QueueRow -> RowStatus]
    BY <2>1, <2>2, FetchShape, EnqueueTypes
  <2> QED
    BY <1>6, <2>1, <2>3 DEF ValidateOne, TypeOK, RowStatus
<1>7. ASSUME EndValidate PROVE TypeOK'
  BY <1>7 DEF EndValidate, TypeOK, Released
<1>8. ASSUME EndCancel PROVE TypeOK'
  <2>1. gate' \in [Root -> {"pending", "sample"} \cup Released]
    BY <1>8 DEF EndCancel, TypeOK, Released
  <2> QED
    BY <1>8, <2>1 DEF EndCancel, TypeOK
<1>9. ASSUME NEW r \in Root, Discard(r) PROVE TypeOK'
  <2>1. gate' \in [Root -> {"pending", "sample"} \cup Released]
    BY <1>9 DEF Discard, TypeOK, Released
  <2>2. hasty' \subseteq Root /\ requests' \in 0..MaxAdmin
    BY <1>9, BoundsAssumption DEF Discard, Requesting, Decide, TypeOK
  <2> QED
    BY <1>9, <2>1, <2>2 DEF Discard, Decide, TypeOK
<1>10. ASSUME NEW r \in Root, StartCancel(r) PROVE TypeOK'
  <2>1. pile' \subseteq QueueRow
    BY <1>10, RecordShape DEF StartCancel
  <2> QED
    BY <1>10, <2>1, BoundsAssumption DEF StartCancel, Requesting, TypeOK
<1>11. ASSUME NEW r \in Root, Retry(r) PROVE TypeOK'
  <2>1. gate' \in [Root -> {"pending", "sample"} \cup Released]
    BY <1>11 DEF Retry, TypeOK, Released
  <2>2. /\ status' \in [QueueRow -> RowStatus]
        /\ requests' \in 0..MaxAdmin
    BY <1>11, BoundsAssumption DEF Retry, Requesting, TypeOK, RowStatus
  <2> QED
    BY <1>11, <2>1, <2>2 DEF Retry, TypeOK, RowStatus
<1> QED
  BY <1>1, <1>2, <1>3, <1>4, <1>5, <1>6, <1>7, <1>8, <1>9, <1>10, <1>11 DEF Proceed

(***************************************************************************)
(* The steps of the workers.                                               *)
(***************************************************************************)

\* enqueue_once activates one row, and only if no row of its key is active.
LEMMA EnqueueEffect ==
    ASSUME TypeOK, NEW k \in QueueRow, EnqueueOnce(k)
    PROVE  /\ \A j \in QueueRow : j # k => status'[j] = status[j]
           /\ status'[k] \in {status[k], "queued"}
           /\ status'[k] # status[k] => \A j \in SameKey(k) : ~ActiveRow(j)
<1> QED BY DEF EnqueueOnce, TypeOK

\* It activates no second fetch of a source, and no row a worker has.
LEMMA EnqueueKeeps ==
    ASSUME TypeOK, RowsKnown, Held, SourceActiveOnce,
           NEW k \in QueueRow, EnqueueOnce(k), mode'[k.root] # "none",
           \A r \in Root : mode[r] # "none" => mode'[r] # "none",
           at' = at, snatched' = snatched
    PROVE  RowsKnown' /\ Held' /\ SourceActiveOnce'
<1> k \in SameKey(k)
  BY DEF SameKey
<1>1. RowsKnown'
  BY EnqueueEffect, RowShape DEF RowsKnown
<1>2. Held'
  <2>1. ASSUME NEW w \in Worker, at[w] # NoRow, at[w] \notin snatched
        PROVE  status'[at[w]] = "running"
    <3>1. at[w] \in QueueRow /\ status[at[w]] = "running"
      BY <2>1 DEF Held, TypeOK
    <3>2. at[w] = k => status'[k] = status[k]
      BY <3>1, EnqueueEffect DEF ActiveRow
    <3> QED
      BY <3>1, <3>2, EnqueueEffect
  <2> QED
    BY <2>1 DEF Held
<1>3. SourceActiveOnce'
  <2>1. ASSUME NEW j \in QueueRow, j.kind = "fetch", k.kind = "fetch", j.sources = k.sources,
               ActiveRow(j)', status'[k] # status[k]
        PROVE  j = k
    <3>1. j \in SameKey(k)
      BY <2>1, KeyShape
    <3> QED
      BY <2>1, <3>1, EnqueueEffect DEF ActiveRow
  <2>2. \A j \in QueueRow : ActiveRow(j)' /\ (j # k \/ status'[k] = status[k]) => ActiveRow(j)
    BY EnqueueEffect DEF ActiveRow
  <2> QED
    BY <2>1, <2>2 DEF SourceActiveOnce
<1> QED BY <1>1, <1>2, <1>3

\* Where no row becomes active, none becomes active twice.
LEMMA ActiveOnceKept ==
    ASSUME SourceActiveOnce, \A k \in QueueRow : ActiveRow(k)' => ActiveRow(k)
    PROVE  SourceActiveOnce'
<1> QED BY DEF SourceActiveOnce

\* A step that activates a record of an orderly batch only when another is running
\* leaves all that is said of batches as it is.
LEMMA BatchQuiet ==
    ASSUME TypeOK, Fresh, Canceling, Validating, GateCoversBatch,
           UNCHANGED <<mode, gate, staged, file, pile, gateNext>>,
           desk' = desk \/ desk' \in {"none", "automatic", "review"},
           hasty \subseteq hasty', snatched \subseteq snatched',
           \A k \in pile : desk = "canceling" /\ status[k] = "queued" =>
               k \in snatched' \/ status'[k] = "queued",
           \A r \in Root : Orderly(r)' => \A k \in Records(r) :
               ActiveRow(k)' => ActiveRow(k) \/ \E j \in Records(r) : status[j] = "running"
    PROVE  Fresh' /\ Canceling' /\ Validating' /\ GateCoversBatch'
<1> USE DEF Orderly
<1>1. Fresh'
  BY DEF Fresh, Staged
<1>2. Canceling'
  <2>1. ASSUME desk = "canceling", Orderly(file), NEW k \in Records(file), status[k] = "running"
        PROVE  FALSE
    BY <2>1 DEF Canceling, ActiveRow
  <2> QED
    BY <2>1 DEF Canceling
<1>3. ASSUME NEW r \in Root, Orderly(r)', Collected(r)'
      PROVE  Orderly(r) /\ Collected(r)
  BY <1>3 DEF Collected, ActiveRow
<1>4. Validating'
  <2>1. Orderly(file)' => Orderly(file)
    OBVIOUS
  <2> QED
    BY <1>3, <2>1 DEF Validating, Staged
<1>5. GateCoversBatch'
  BY <1>3 DEF GateCoversBatch, Staged, Collected
<1> QED BY <1>1, <1>2, <1>4, <1>5

\* A worker that leaves its row to nobody keeps the posts of the others.
LEMMA EndedPosts ==
    ASSUME TypeOK, Posted, Held, NEW w \in Worker, Ended(w),
           mode' = mode, plans' = plans, snatched' = snatched
    PROVE  /\ Posted'
           /\ (\A k \in QueueRow : k # at[w] => status'[k] = status[k]) => Held'
<1>1. /\ \A v \in Worker : v # w => pc'[v] = pc[v] /\ at'[v] = at[v]
      /\ pc'[w] = "idle" /\ at'[w] = NoRow
  BY DEF Ended, TypeOK
<1>2. Posted'
  BY <1>1 DEF Posted, PlanStage, FetchStage
<1>3. ASSUME \A k \in QueueRow : k # at[w] => status'[k] = status[k]
      PROVE  Held'
  <2>1. ASSUME NEW v \in Worker, at'[v] # NoRow, at'[v] \notin snatched'
        PROVE  status'[at'[v]] = "running" /\ \A u \in Worker : at'[u] = at'[v] => u = v
    <3>1. v # w /\ at'[v] = at[v] /\ at[v] \in QueueRow
      BY <1>1, <2>1 DEF TypeOK
    <3>2. status[at[v]] = "running" /\ \A u \in Worker : at[u] = at[v] => u = v
      BY <2>1, <3>1 DEF Held
    <3>3. at[v] # at[w]
      BY <3>1, <3>2
    <3>4. status'[at[v]] = "running"
      BY <1>3, <3>1, <3>2, <3>3
    <3>5. ASSUME NEW u \in Worker, at'[u] = at'[v]
          PROVE  u = v
      <4>1. u # w
        BY <1>1, <2>1, <3>5
      <4> QED
        BY <1>1, <3>1, <3>2, <3>5, <4>1
    <3> QED
      BY <3>1, <3>4, <3>5
  <2> QED
    BY <2>1 DEF Held
<1> QED BY <1>2, <1>3

\* Where no row, refresh, gate or item changes only the workers' posts are in question.
LEMMA StillRows ==
    ASSUME TypeOK, Steady,
           UNCHANGED <<status, mode, gate, staged, at, file, pile, gateNext, history>>,
           desk' = desk \/ desk' \in {"none", "automatic", "review"}
    PROVE  Steady'
<1> USE DEF history
<1>1. RowsKnown' /\ Held' /\ SourceActiveOnce'
  BY DEF Steady, RowsKnown, Held, SourceActiveOnce, ActiveRow
<1>2. Fresh' /\ Canceling' /\ Validating' /\ GateCoversBatch'
  BY BatchQuiet DEF Steady, ActiveRow
<1> QED BY <1>1, <1>2 DEF Steady

\* A worker that moves on in its handler.
LEMMA PostKept ==
    ASSUME TypeOK, Posted, NEW w \in Worker, NEW x \in Stage,
           at[w] # NoRow, at' = at, mode' = mode, pc' = [pc EXCEPT ![w] = x],
           \A r \in Root : plans[r] # 0 => plans'[r] # 0,
           x \in PlanStage => at[w].kind = "plan",
           x \in FetchStage => at[w].kind = "fetch",
           x = "spread" => plans'[at[w].root] # 0
    PROVE  Posted'
<1> SUFFICES ASSUME NEW v \in Worker
             PROVE  /\ at[v] # NoRow => mode[at[v].root] # "none"
                    /\ pc'[v] \in PlanStage => at[v].kind = "plan"
                    /\ pc'[v] \in FetchStage => at[v].kind = "fetch"
                    /\ pc'[v] = "spread" => plans'[at[v].root] # 0
  BY DEF Posted
<1>1. CASE v = w
  BY <1>1 DEF TypeOK, Posted
<1>2. CASE v # w
  <2>1. pc'[v] = pc[v]
    BY <1>2 DEF TypeOK
  <2>2. pc[v] = "spread" => at[v] \in QueueRow
    BY DEF TypeOK
  <2> QED
    BY <2>1, <2>2, RowShape DEF Posted
<1> QED BY <1>1, <1>2

\* A row that its worker still holds is running.
LEMMA OwnRow ==
    ASSUME TypeOK, Held, NEW w \in Worker, pc[w] # "idle"
    PROVE  at[w] \in QueueRow /\ (at[w] \in snatched \/ status[at[w]] = "running")
<1> QED BY DEF TypeOK, Held

\* The steps that end a worker's hold of its row, and write no other row: what it
\* leaves the row as is active only if no other row of the key is.
LEMMA EndedKeeps ==
    ASSUME TypeOK, Posted, Steady, NEW w \in Worker, Ended(w), pc[w] # "idle",
           UNCHANGED <<mode, gate, plans, staged, people, history>>,
           status' \in [QueueRow -> RowStatus],
           \A k \in QueueRow : k # at[w] => status'[k] = status[k],
           \/ status'[at[w]] \notin {"queued", "running"}
           \/ ActiveRow(at[w])
           \/ \A j \in SameKey(at[w]) \ {at[w]} : ~ActiveRow(j)
    PROVE  Posted' /\ Steady'
<1> USE DEF people, history
<1>1. /\ at[w] \in QueueRow /\ mode[at[w].root] # "none"
      /\ at[w] \in snatched \/ status[at[w]] = "running"
  BY OwnRow DEF Steady, Posted, TypeOK
<1>2. Posted' /\ Held'
  BY EndedPosts DEF Steady
<1>3. RowsKnown'
  BY <1>1 DEF Steady, RowsKnown
<1>4. SourceActiveOnce'
  <2>1. ASSUME NEW j \in QueueRow, NEW k \in QueueRow, j.kind = "fetch", k.kind = "fetch",
               j.sources = k.sources, ActiveRow(j)', ActiveRow(k)', j # k
        PROVE  FALSE
    <3>1. j \in SameKey(k) /\ k \in SameKey(j)
      BY <2>1, KeyShape
    <3>2. \/ ActiveRow(j) /\ ActiveRow(k)
          \/ j = at[w] /\ ActiveRow(k) /\ \A i \in SameKey(j) \ {j} : ~ActiveRow(i)
          \/ k = at[w] /\ ActiveRow(j) /\ \A i \in SameKey(k) \ {k} : ~ActiveRow(i)
      BY <2>1 DEF ActiveRow
    <3> QED
      BY <2>1, <3>1, <3>2 DEF Steady, SourceActiveOnce
  <2> QED
    BY <2>1 DEF SourceActiveOnce
<1>5. Fresh' /\ Canceling' /\ Validating' /\ GateCoversBatch'
  <2>1. ASSUME NEW r \in Root, Orderly(r)', NEW k \in Records(r), ActiveRow(k)'
        PROVE  ActiveRow(k)
    BY <1>1, <2>1, RecordShape DEF Orderly, ActiveRow
  <2>2. ASSUME NEW k \in pile, status[k] = "queued"
        PROVE  k \in snatched \/ status'[k] = "queued"
    BY <1>1, <2>2 DEF TypeOK
  <2> QED
    BY <2>1, <2>2, BatchQuiet DEF Steady
<1> QED BY <1>2, <1>3, <1>4, <1>5 DEF Steady

\* What a worker's handler does keeps the invariant.
LEMMA HandleKeeps ==
    ASSUME TypeOK, Posted, Steady, NEW w \in Worker, Handle(w)
    PROVE  Posted' /\ Steady'
<1> USE DEF people, history, Stage, PlanStage, FetchStage
<1>0. pc[w] # "idle" => /\ at[w] \in QueueRow /\ at[w] # NoRow
                        /\ at[w].root \in Root /\ mode[at[w].root] # "none"
                        /\ at[w] \in snatched \/ status[at[w]] = "running"
  BY OwnRow, RowShape DEF Steady, Posted, TypeOK
<1>1. ASSUME Complete(w) PROVE Posted' /\ Steady'
  <2>1. /\ status' \in [QueueRow -> RowStatus]
        /\ \A k \in QueueRow : k # at[w] => status'[k] = status[k]
        /\ status'[at[w]] = "done"
    BY <1>0, <1>1 DEF Complete, TypeOK, RowStatus
  <2> QED
    BY <1>1, <2>1, EndedKeeps DEF Complete, ActiveRow
<1>2. ASSUME NEW sources \in SUBSET Source, Plan(w, sources) PROVE Posted' /\ Steady'
  <2>1. /\ plans'[at[w].root] # 0
        /\ \A r \in Root : plans[r] # 0 => plans'[r] # 0
    BY <1>0, <1>2 DEF Plan, TypeOK
  <2>2. at[w].kind = "plan"
    BY <1>2 DEF Plan, Posted
  <2>3. Posted'
    BY <1>0, <1>2, <2>1, <2>2, PostKept DEF Plan
  <2> QED
    BY <1>2, <2>3, StillRows DEF Plan
<1>3. ASSUME Spread(w) PROVE Posted' /\ Steady'
  <2> DEFINE r == at[w].root
  <2>1. /\ at[w] = PlanRow(r) /\ r \in Root
        /\ plans[r] \in 1..MaxPlans
    BY <1>0, <1>3, RowShape, BoundsAssumption DEF Spread, TypeOK, Posted
  <2>2. PICK s \in todo[w] :
           /\ EnqueueOnce(FetchRow(r, s, plans[r]))
           /\ todo' = [todo EXCEPT ![w] = @ \ {s}]
           /\ pc' = [pc EXCEPT ![w] = IF todo[w] # {s} THEN "spread" ELSE "finish"]
    BY <1>3 DEF Spread
  <2> DEFINE k == FetchRow(r, s, plans[r])
  <2>3. k \in QueueRow /\ k.root = r
    BY <2>1, <2>2, SpreadShape, FetchShape DEF TypeOK
  <2>4. Posted'
    BY <1>0, <1>3, <2>1, <2>2, PostKept, PlanShape DEF Spread, Posted
  <2> HIDE DEF k
  <2>5. RowsKnown' /\ Held' /\ SourceActiveOnce'
    BY <1>0, <1>3, <2>2, <2>3, EnqueueKeeps DEF Spread, Steady, k
  <2>6. Fresh' /\ Canceling' /\ Validating' /\ GateCoversBatch'
    <3>1. /\ \A j \in QueueRow : j # k => status'[j] = status[j]
          /\ status'[k] \in {status[k], "queued"}
      BY <2>2, <2>3, EnqueueEffect DEF k
    <3>2. ASSUME NEW q \in Root, Orderly(q)', NEW j \in Records(q), ActiveRow(j)'
          PROVE  ActiveRow(j) \/ \E i \in Records(q) : status[i] = "running"
      <4>1. j \in QueueRow /\ j.root = q
        BY <3>2, RecordShape
      <4>2. CASE j = k
        <5>1. PlanRow(q) \in Records(q) /\ PlanRow(q) = at[w]
          BY <2>1, <2>3, <4>1, <4>2 DEF Records
        <5>2. at[w] \notin snatched
          BY <1>3, <3>2, <5>1 DEF Spread, Orderly
        <5> QED
          BY <1>0, <1>3, <5>1, <5>2 DEF Spread
      <4>3. CASE j # k
        BY <3>1, <3>2, <4>1, <4>3 DEF ActiveRow
      <4> QED BY <4>2, <4>3
    <3>3. ASSUME NEW j \in pile, status[j] = "queued"
          PROVE  status'[j] = "queued"
      BY <3>1, <3>3 DEF TypeOK
    <3> QED
      BY <1>3, <3>2, <3>3, BatchQuiet DEF Spread, Steady
  <2> QED
    BY <2>4, <2>5, <2>6 DEF Steady
<1>4. ASSUME FinishEmpty(w) PROVE Posted' /\ Steady'
  <2>1. Posted'
    BY <1>0, <1>4, PostKept DEF FinishEmpty
  <2> QED
    BY <1>4, <2>1, StillRows DEF FinishEmpty
<1>5. ASSUME Store(w) PROVE Posted' /\ Steady'
  <2>1. at[w] \in Fetch
    BY <1>0, <1>5, RowShape DEF Store, Posted
  <2>2. Posted'
    <3>1. PICK x \in {"settle", "handoff"} : pc' = [pc EXCEPT ![w] = x]
      BY <1>5 DEF Store
    <3> QED
      BY <1>0, <1>5, <2>1, <3>1, FetchShape, PostKept DEF Store
  <2>3. RowsKnown' /\ Held' /\ SourceActiveOnce' /\ Canceling'
    BY <1>5 DEF Store, Steady, RowsKnown, Held, SourceActiveOnce, Canceling, ActiveRow, Orderly
  <2>4. staged \subseteq staged' /\ staged' \subseteq staged \cup {at[w]}
    BY <1>5 DEF Store
  <2>5. Fresh'
    BY <1>0, <1>5, <2>4 DEF Store, Steady, Fresh, Staged
  <2>6. ASSUME NEW r \in Root, Orderly(r), at[w].root = r
        PROVE  Collected(r)
    <3>1. at[w] \in Records(r)
      BY <2>1, <2>6 DEF Records, Children
    <3> QED
      BY <1>0, <1>5, <2>6, <3>1 DEF Store, Orderly, Collected, ActiveRow
  <2>7. Validating'
    <3>1. ASSUME desk = "validating", Orderly(file), gateNext = "approved"
          PROVE  Staged(file)' \subseteq pile
      <4>1. file \in Root /\ ~Collected(file) /\ Staged(file) \subseteq pile
        BY <3>1 DEF Steady, Validating
      <4>2. at[w].root # file
        BY <2>6, <3>1, <4>1
      <4> QED
        BY <1>5, <2>4, <4>1, <4>2 DEF Store, Staged
    <3> QED
      BY <1>5, <3>1 DEF Store, Steady, Validating, Collected, Orderly, ActiveRow
  <2>8. GateCoversBatch'
    <3>1. ASSUME NEW r \in Root, mode[r] = "review", Orderly(r)
          PROVE  /\ Collected(r) => gate[r] \notin Released
                 /\ Staged(r)' # {} => gate[r] \in {"pending", "sample", "canceled"}
      <4>1. /\ Collected(r) => gate[r] \notin Released
            /\ Staged(r) # {} => gate[r] \in {"pending", "sample", "canceled"}
        BY <3>1 DEF Steady, GateCoversBatch, Orderly, Collected
      <4>2. at[w].root = r => gate[r] \in {"pending", "sample"}
        BY <2>6, <3>1, <4>1 DEF TypeOK, Released
      <4> QED
        BY <1>5, <2>4, <4>1, <4>2 DEF Store, Staged
    <3> QED
      BY <1>5, <3>1 DEF Store, GateCoversBatch, Orderly, Collected, ActiveRow
  <2> QED
    BY <2>2, <2>3, <2>5, <2>7, <2>8 DEF Steady
<1>6. ASSUME HandOff(w) PROVE Posted' /\ Steady'
  <2>1. at[w] \in Fetch
    BY <1>0, <1>6, RowShape DEF HandOff, Posted
  <2> DEFINE k == ItemRow(at[w])
  <2>2. k \in QueueRow /\ k.kind = "item" /\ k.root = at[w].root
    BY <2>1, FetchShape
  <2> HIDE DEF k
  <2>3. Posted'
    BY <1>0, <1>6, PostKept DEF HandOff
  <2>4. RowsKnown' /\ Held' /\ SourceActiveOnce'
    BY <1>0, <1>6, <2>2, EnqueueKeeps DEF HandOff, Steady, k
  <2>5. /\ \A j \in QueueRow : j # k => status'[j] = status[j]
        /\ status'[k] \in {status[k], "queued"}
    BY <1>6, <2>2, EnqueueEffect DEF HandOff, k
  <2>6. ASSUME NEW r \in Root, NEW j \in Records(r), ActiveRow(j)'
        PROVE  ActiveRow(j)
    BY <2>2, <2>5, <2>6, RecordShape DEF ActiveRow
  <2>7. ASSUME NEW j \in pile, status[j] = "queued"
        PROVE  status'[j] = "queued"
    BY <2>5, <2>7 DEF TypeOK
  <2>8. Fresh' /\ Canceling' /\ Validating' /\ GateCoversBatch'
    BY <1>6, <2>6, <2>7, BatchQuiet DEF HandOff, Steady
  <2> QED
    BY <2>3, <2>4, <2>8 DEF Steady
<1>7. ASSUME RunItem(w) \/ Look(w) \/ Close(w) PROVE Posted' /\ Steady'
  <2>1. PICK x \in {"settle", "close", "finish"} : pc' = [pc EXCEPT ![w] = x]
    BY <1>7 DEF RunItem, Look, Close
  <2>2. Posted'
    BY <1>0, <1>7, <2>1, PostKept DEF RunItem, Look, Close
  <2> QED
    BY <1>7, <2>2, StillRows DEF RunItem, Look, Close
<1> QED
  BY <1>1, <1>2, <1>3, <1>4, <1>5, <1>6, <1>7 DEF Handle

\* So does what befalls a worker and its row.
LEMMA FateKeeps ==
    ASSUME TypeOK, Posted, Steady,
           \/ \E w \in Worker : \/ \E k \in QueueRow : Claim(w, k)
                                \/ \E exhausted \in BOOLEAN : Fail(w, exhausted)
                                \/ Crash(w)
           \/ \E k \in QueueRow, exhausted \in BOOLEAN : Recover(k, exhausted)
    PROVE  Posted' /\ Steady'
<1> USE DEF people, history
<1>1. ASSUME NEW w \in Worker, NEW k \in QueueRow, Claim(w, k) PROVE Posted' /\ Steady'
  <2>1. /\ pc[w] = "idle" /\ at[w] = NoRow
        /\ at'[w] = k /\ pc'[w] = k.kind
        /\ \A v \in Worker : v # w => pc'[v] = pc[v] /\ at'[v] = at[v]
    BY <1>1 DEF Claim, TypeOK
  <2>2. /\ status[k] = "queued" /\ status'[k] = "running"
        /\ \A j \in QueueRow : j # k => status'[j] = status[j]
        /\ snatched \subseteq snatched'
        /\ desk = "canceling" /\ k \in pile => k \in snatched'
    BY <1>1 DEF Claim, TypeOK
  <2>3. Posted'
    <3>1. mode[k.root] # "none"
      BY <2>2 DEF Steady, RowsKnown
    <3>2. k.kind \in {"plan", "fetch", "item"}
      BY RowShape
    <3>3. mode' = mode /\ plans' = plans
      BY <1>1 DEF Claim
    <3> QED
      BY <2>1, <3>1, <3>2, <3>3 DEF Posted, PlanStage, FetchStage
  <2>4. RowsKnown'
    BY <1>1, <2>2 DEF Claim, Steady, RowsKnown
  <2>5. ASSUME NEW v \in Worker, at[v] # NoRow, at[v] \notin snatched'
        PROVE  /\ at[v] # k /\ at[v] \in QueueRow /\ status[at[v]] = "running"
               /\ \A u \in Worker : at[u] = at[v] => u = v
    <3>1. /\ status[at[v]] = "running"
          /\ \A u \in Worker : at[u] = at[v] => u = v
      BY <2>2, <2>5 DEF Steady, Held
    <3> QED
      BY <2>2, <2>5, <3>1 DEF TypeOK
  <2>6. Held'
    <3>1. ASSUME NEW v \in Worker, at'[v] # NoRow, at'[v] \notin snatched'
          PROVE  status'[at'[v]] = "running" /\ \A u \in Worker : at'[u] = at'[v] => u = v
      <4>1. CASE v = w
        <5>1. \A u \in Worker : u # w => at[u] # k
          BY <2>1, <2>5, <3>1, <4>1, NoRowIsNoRow
        <5> QED
          BY <2>1, <2>2, <4>1, <5>1
      <4>2. CASE v # w
        BY <2>1, <2>2, <2>5, <3>1, <4>2
      <4> QED BY <4>1, <4>2
    <3> QED
      BY <3>1 DEF Held
  <2>7. SourceActiveOnce'
    BY <2>2, ActiveOnceKept DEF Steady, ActiveRow
  <2>8. Fresh' /\ Canceling' /\ Validating' /\ GateCoversBatch'
    <3>1. ASSUME NEW j \in pile, desk = "canceling", status[j] = "queued"
          PROVE  j \in snatched' \/ status'[j] = "queued"
      BY <2>2, <3>1 DEF TypeOK
    <3>2. ASSUME NEW r \in Root, NEW j \in Records(r), ActiveRow(j)'
          PROVE  ActiveRow(j)
      BY <2>2, <3>2, RecordShape DEF ActiveRow
    <3> QED
      BY <1>1, <2>2, <3>1, <3>2, BatchQuiet DEF Claim, Steady
  <2> QED
    BY <2>3, <2>4, <2>6, <2>7, <2>8 DEF Steady
<1>2. ASSUME NEW w \in Worker, NEW exhausted \in BOOLEAN, Fail(w, exhausted) PROVE Posted' /\ Steady'
  <2>1. at[w] \in QueueRow /\ pc[w] # "idle"
    BY <1>2, OwnRow DEF Fail, Steady
  <2>2. /\ status' \in [QueueRow -> RowStatus]
        /\ \A j \in QueueRow : j # at[w] => status'[j] = status[j]
        /\ \/ status'[at[w]] = "dead"
           \/ \A j \in SameKey(at[w]) \ {at[w]} : ~ActiveRow(j)
    BY <1>2, <2>1 DEF Fail, TypeOK, RowStatus
  <2> QED
    BY <1>2, <2>1, <2>2, EndedKeeps DEF Fail
<1>3. ASSUME NEW w \in Worker, Crash(w) PROVE Posted' /\ Steady'
  <2>1. /\ at[w] \in QueueRow /\ pc[w] # "idle"
        /\ status' = status /\ status \in [QueueRow -> RowStatus]
    BY <1>3, OwnRow DEF Crash, Steady, TypeOK, RowStatus
  <2> QED
    BY <1>3, <2>1, EndedKeeps DEF Crash, ActiveRow
<1>4. ASSUME NEW k \in QueueRow, NEW exhausted \in BOOLEAN, Recover(k, exhausted) PROVE Posted' /\ Steady'
  <2> USE DEF procs
  <2>1. /\ status[k] = "running" /\ status'[k] \in {"dead", "queued"}
        /\ \A j \in QueueRow : j # k => status'[j] = status[j]
        /\ \A v \in Worker : at[v] # k
    BY <1>4 DEF Recover, TypeOK
  <2>2. Posted' /\ RowsKnown'
    BY <1>4, <2>1 DEF Recover, Posted, Steady, RowsKnown
  <2>3. Held'
    BY <1>4, <2>1 DEF Recover, Steady, Held, TypeOK
  <2>4. SourceActiveOnce'
    BY <2>1, ActiveOnceKept DEF Steady, ActiveRow
  <2>5. Fresh' /\ Canceling' /\ Validating' /\ GateCoversBatch'
    <3>1. ASSUME NEW j \in pile, status[j] = "queued"
          PROVE  status'[j] = "queued"
      BY <2>1, <3>1 DEF TypeOK
    <3>2. ASSUME NEW r \in Root, NEW j \in Records(r), ActiveRow(j)'
          PROVE  ActiveRow(j)
      BY <2>1, <3>2, RecordShape DEF ActiveRow
    <3> QED
      BY <1>4, <3>1, <3>2, BatchQuiet DEF Recover, Steady
  <2> QED
    BY <2>2, <2>3, <2>4, <2>5 DEF Steady
<1> QED
  BY <1>1, <1>2, <1>3, <1>4

(***************************************************************************)
(* The steps of those who ask.                                             *)
(***************************************************************************)

\* A request finds an active refresh, or starts one whose gate is pending.
LEMMA AskKeeps ==
    ASSUME TypeOK, Posted, Steady, NEW m \in {"system", "automatic", "review"}, AskRefresh(m),
           UNCHANGED <<gate, plans, staged, pc, at, file, pile, gateNext, history>>,
           desk' = desk \/ desk' \in {"none", "automatic", "review"}
    PROVE  Posted' /\ Steady'
<1> USE DEF history
<1>1. CASE \E q \in Root : ActiveRow(PlanRow(q))
  <2>1. UNCHANGED <<status, mode>>
    BY <1>1 DEF AskRefresh
  <2>2. Posted'
    BY <2>1 DEF Posted
  <2> QED
    BY <2>1, <2>2, StillRows
<1>2. CASE ~\E q \in Root : ActiveRow(PlanRow(q))
  <2> DEFINE r == CHOOSE q \in Unused : TRUE
  <2>1. /\ Unused # {} /\ EnqueueOnce(PlanRow(r))
        /\ mode' = [mode EXCEPT ![r] = m]
    BY <1>2 DEF AskRefresh
  <2>2. r \in Root /\ mode[r] = "none"
    BY <2>1 DEF Unused
  <2> HIDE DEF r
  <2> DEFINE k == PlanRow(r)
  <2>3. k \in QueueRow /\ k.root = r
    BY <2>2, PlanShape
  <2> HIDE DEF k
  <2>4. /\ mode'[r] = m /\ m # "none"
        /\ \A q \in Root : q # r => mode'[q] = mode[q]
    BY <2>1, <2>2 DEF TypeOK
  <2>5. /\ \A j \in QueueRow : j # k => status'[j] = status[j]
        /\ status'[k] \in {status[k], "queued"}
    BY <2>1, <2>3, EnqueueEffect DEF k
  <2>6. ASSUME NEW q \in Root, q # r, NEW j \in Records(q)
        PROVE  status'[j] = status[j]
    BY <2>3, <2>5, <2>6, RecordShape
  <2>7. Posted'
    BY <2>4, RowShape DEF TypeOK, Posted
  <2>8. RowsKnown' /\ Held' /\ SourceActiveOnce'
    BY <2>1, <2>3, <2>4, EnqueueKeeps DEF Steady, k
  <2>9. Fresh'
    BY <2>4 DEF Steady, Fresh, Staged
  <2>10. Canceling'
    <3>1. ASSUME desk = "canceling"
          PROVE  /\ file \in Root /\ file # r
                 /\ pile \subseteq Records(file)
      BY <2>2, <3>1 DEF Steady, Canceling
    <3> QED
      BY <2>4, <2>6, <3>1 DEF Steady, Canceling, Orderly, ActiveRow
  <2>11. Validating'
    <3>1. ASSUME desk = "validating"
          PROVE  file \in Root /\ file # r
      BY <2>2, <3>1 DEF Steady, Validating
    <3> QED
      BY <2>4, <2>6, <3>1 DEF Steady, Validating, Orderly, Collected, ActiveRow, Staged
  <2>12. GateCoversBatch'
    <3>1. gate[r] \notin Released /\ Staged(r) = {}
      BY <2>2 DEF Steady, Fresh, Released
    <3> QED
      BY <2>4, <2>6, <3>1 DEF Steady, GateCoversBatch, ActiveRow, Staged
  <2> QED
    BY <2>7, <2>8, <2>9, <2>10, <2>11, <2>12 DEF Steady
<1> QED BY <1>1, <1>2

\* A decision is not too early only if nothing of the batch is active.
LEMMA DecidedBatch ==
    ASSUME NEW r \in Root, Decide(r), \A f \in Children(r) : ~ActiveRow(f)
    PROVE  Orderly(r)' => Orderly(r) /\ ~Collected(r)
<1> QED BY DEF Decide, Orderly, Collected, Records

\* What the administrator, the scheduler and the audiences do keeps the invariant.
LEMMA RequestKeeps ==
    ASSUME TypeOK, Posted, Steady,
           \/ Elapse \/ Schedule \/ Expand
           \/ \E m \in {"automatic", "review"} : StartCreate(m)
           \/ EndCreate
           \/ \E r \in Root, S \in SUBSET staged : StartValidate(r, S)
           \/ Proceed
           \/ \E r \in Root : Discard(r) \/ StartCancel(r) \/ Retry(r)
    PROVE  Posted' /\ Steady'
<1> USE DEF people, history, procs
<1>1. ASSUME Elapse PROVE Posted' /\ Steady'
  BY <1>1, StillRows DEF Elapse, Posted
<1>2. ASSUME Schedule \/ Expand PROVE Posted' /\ Steady'
  BY <1>2, AskKeeps DEF Schedule, Expand
<1>3. ASSUME NEW m \in {"automatic", "review"}, StartCreate(m) PROVE Posted' /\ Steady'
  BY <1>3, StillRows DEF StartCreate, Posted
<1>4. ASSUME EndCreate PROVE Posted' /\ Steady'
  BY <1>4, AskKeeps DEF EndCreate
<1>5. ASSUME NEW r \in Root, NEW S \in SUBSET staged, StartValidate(r, S) PROVE Posted' /\ Steady'
  <2>1. Posted' /\ RowsKnown' /\ Fresh' /\ Held' /\ SourceActiveOnce'
    BY <1>5 DEF StartValidate, Decide, Posted, Steady, RowsKnown, Fresh, Held,
                SourceActiveOnce, ActiveRow, Staged
  <2>2. Canceling'
    BY <1>5 DEF StartValidate, Canceling
  <2>3. \A q \in Root : Orderly(q)' => Orderly(q)
    BY <1>5 DEF StartValidate, Decide, Orderly
  <2>4. Orderly(r)' => ~Collected(r)
    BY <1>5, DecidedBatch DEF StartValidate
  <2>5. Validating'
    <3>1. Orderly(r)' => ~Collected(r)'
      BY <1>5, <2>4 DEF StartValidate, Collected, ActiveRow
    <3>2. pile' \subseteq Children(r)
      BY <1>5 DEF StartValidate, Staged, Children, TypeOK
    <3>3. gateNext' = "approved" => Staged(r)' \subseteq pile'
      BY <1>5 DEF StartValidate, Staged
    <3>4. file' = r /\ mode'[r] # "none"
      BY <1>5 DEF StartValidate
    <3> QED
      BY <3>1, <3>2, <3>3, <3>4 DEF Validating
  <2>6. GateCoversBatch'
    BY <1>5, <2>3 DEF StartValidate, Steady, GateCoversBatch, Orderly, ActiveRow, Staged
  <2> QED
    BY <2>1, <2>2, <2>5, <2>6 DEF Steady
<1>6. ASSUME ValidateOne PROVE Posted' /\ Steady'
  <2>1. PICK f \in pile :
           /\ staged' = staged \ {f}
           /\ EnqueueOnce(ItemRow(f))
           /\ pile' = pile \ {f}
    BY <1>6 DEF ValidateOne
  <2>2. /\ f \in Fetch /\ f.root = file
        /\ file \in Root /\ mode[file] # "none"
    BY <1>6, <2>1 DEF ValidateOne, Steady, Validating, Children
  <2> DEFINE k == ItemRow(f)
  <2>3. k \in QueueRow /\ k.kind = "item" /\ k.root = file
    BY <2>2, FetchShape
  <2> HIDE DEF k
  <2>4. Posted'
    BY <1>6 DEF ValidateOne, Posted
  <2>5. RowsKnown' /\ Held' /\ SourceActiveOnce'
    BY <1>6, <2>1, <2>2, <2>3, EnqueueKeeps DEF ValidateOne, Steady, k
  <2>6. /\ \A j \in QueueRow : j # k => status'[j] = status[j]
        /\ status'[k] \in {status[k], "queued"}
    BY <2>1, <2>3, EnqueueEffect DEF k
  <2>7. ASSUME NEW r \in Root, NEW j \in Records(r)
        PROVE  status'[j] = status[j]
    BY <2>3, <2>6, <2>7, RecordShape
  <2>8. Fresh' /\ Canceling'
    BY <1>6, <2>1 DEF ValidateOne, Steady, Fresh, Canceling, Staged
  <2>9. Validating'
    BY <1>6, <2>1, <2>2, <2>7 DEF ValidateOne, Steady, Validating, Orderly, Collected, ActiveRow, Staged
  <2>10. GateCoversBatch'
    BY <1>6, <2>1, <2>7 DEF ValidateOne, Steady, GateCoversBatch, ActiveRow, Staged
  <2> QED
    BY <2>4, <2>5, <2>8, <2>9, <2>10 DEF Steady
<1>7. ASSUME EndValidate PROVE Posted' /\ Steady'
  <2>1. Posted' /\ RowsKnown' /\ Held' /\ SourceActiveOnce'
    BY <1>7 DEF EndValidate, Posted, Steady, RowsKnown, Held, SourceActiveOnce, ActiveRow
  <2>2. file \in Root /\ mode[file] # "none" /\ pile = {}
    BY <1>7 DEF EndValidate, Steady, Validating
  <2>3. Fresh' /\ Canceling' /\ Validating'
    BY <1>7, <2>2 DEF EndValidate, Steady, Fresh, Canceling, Validating, Staged, TypeOK
  <2>4. Orderly(file) => /\ ~Collected(file)
                         /\ gateNext = "approved" => Staged(file) = {}
    BY <1>7, <2>2 DEF EndValidate, Steady, Validating
  <2>5. GateCoversBatch'
    <3>1. gate'[file] = gateNext /\ \A q \in Root : q # file => gate'[q] = gate[q]
      BY <1>7, <2>2 DEF EndValidate, TypeOK
    <3> QED
      BY <1>7, <2>2, <2>4, <3>1
         DEF EndValidate, Steady, GateCoversBatch, Orderly, Collected, ActiveRow, Staged, TypeOK
  <2> QED
    BY <2>1, <2>3, <2>5 DEF Steady
<1>8. ASSUME EndCancel PROVE Posted' /\ Steady'
  <2>1. /\ file \in Root /\ mode[file] # "none" /\ pile \subseteq Records(file)
        /\ \A k \in pile : k \in snatched \/ status[k] = "queued"
        /\ Orderly(file) => \A k \in Records(file) : ActiveRow(k) => k \in pile
    BY <1>8 DEF EndCancel, Steady, Canceling
  <2>2. \A k \in QueueRow : status'[k] = IF k \in pile THEN "canceled" ELSE status[k]
    BY <1>8 DEF EndCancel
  <2>3. gate'[file] = "canceled" /\ \A q \in Root : q # file => gate'[q] = gate[q]
    BY <1>8, <2>1 DEF EndCancel, TypeOK
  <2>4. Posted' /\ RowsKnown'
    <3>1. \A k \in pile : k.root = file
      BY <2>1, RecordShape
    <3> QED
      BY <1>8, <2>1, <2>2, <3>1 DEF EndCancel, Posted, Steady, RowsKnown
  <2>5. Held'
    <3>1. \A w \in Worker : at[w] # NoRow /\ at[w] \notin snatched
                            => at[w] \in QueueRow /\ at[w] \notin pile
      BY <2>1 DEF Steady, Held, TypeOK
    <3> QED
      BY <1>8, <2>2, <3>1 DEF EndCancel, Steady, Held
  <2>6. SourceActiveOnce'
    BY <2>2, ActiveOnceKept DEF Steady, ActiveRow
  <2>7. Fresh' /\ Canceling' /\ Validating'
    BY <1>8, <2>1, <2>3 DEF EndCancel, Steady, Fresh, Canceling, Validating, Staged
  <2>8. GateCoversBatch'
    <3>1. ASSUME NEW q \in Root, NEW k \in Records(q), ActiveRow(k)'
          PROVE  ActiveRow(k) /\ k \notin pile
      BY <2>2, <3>1, RecordShape DEF ActiveRow
    <3>2. Orderly(file) => \A k \in Records(file) : ~ActiveRow(k)'
      BY <2>1, <3>1
    <3> QED
      BY <1>8, <2>1, <2>3, <3>1, <3>2 DEF EndCancel, Steady, GateCoversBatch, Orderly, Staged
  <2> QED
    BY <2>4, <2>5, <2>6, <2>7, <2>8 DEF Steady
<1>9. ASSUME NEW r \in Root, Discard(r) PROVE Posted' /\ Steady'
  <2>1. Posted' /\ RowsKnown' /\ Held' /\ SourceActiveOnce'
    BY <1>9 DEF Discard, Decide, Posted, Steady, RowsKnown, Held, SourceActiveOnce, ActiveRow
  <2>2. /\ gate'[r] = "discarded" /\ Staged(r)' = {}
        /\ \A q \in Root : q # r => gate'[q] = gate[q] /\ Staged(q)' \subseteq Staged(q)
    BY <1>9 DEF Discard, TypeOK, Staged
  <2>3. Fresh' /\ Canceling' /\ Validating'
    BY <1>9, <2>2 DEF Discard, Requesting, Steady, Fresh, Canceling, Validating
  <2>4. GateCoversBatch'
    <3>1. Orderly(r)' => \A k \in Records(r) : ~ActiveRow(k)'
      BY <1>9, DecidedBatch DEF Discard, Collected, ActiveRow
    <3>2. \A q \in Root : Orderly(q)' => Orderly(q)
      BY <1>9 DEF Discard, Decide, Orderly
    <3> QED
      BY <1>9, <2>2, <3>1, <3>2 DEF Discard, Steady, GateCoversBatch, Orderly, ActiveRow
  <2> QED
    BY <2>1, <2>3, <2>4 DEF Steady
<1>10. ASSUME NEW r \in Root, StartCancel(r) PROVE Posted' /\ Steady'
  <2>1. Posted' /\ RowsKnown' /\ Fresh' /\ Held' /\ SourceActiveOnce' /\ Validating' /\ GateCoversBatch'
    BY <1>10 DEF StartCancel, Posted, Steady, RowsKnown, Fresh, Held, SourceActiveOnce,
                 Validating, GateCoversBatch, ActiveRow, Staged
  <2>2. Canceling'
    BY <1>10 DEF StartCancel, DataJob, Canceling, ActiveRow
  <2> QED
    BY <2>1, <2>2 DEF Steady
<1>11. ASSUME NEW r \in Root, Retry(r) PROVE Posted' /\ Steady'
  <2> DEFINE dead == {k \in Records(r) : status[k] = "dead"}
  <2>1. /\ \A k \in dead : \A j \in SameKey(k) \ {k} : ~ActiveRow(j) /\ j \notin dead
        /\ \A k \in QueueRow : status'[k] = IF k \in dead THEN "queued" ELSE status[k]
        /\ gate'[r] = "pending" /\ \A q \in Root : q # r => gate'[q] = gate[q]
    BY <1>11 DEF Retry, TypeOK
  <2>2. \A k \in dead : k \in QueueRow /\ k.root = r /\ status[k] = "dead"
    BY RecordShape
  <2> HIDE DEF dead
  <2>3. Posted' /\ RowsKnown'
    BY <1>11, <2>1, <2>2 DEF Retry, Posted, Steady, RowsKnown
  <2>4. Held'
    BY <1>11, <2>1, <2>2 DEF Retry, Steady, Held, TypeOK
  <2>5. SourceActiveOnce'
    <3>1. ASSUME NEW j \in QueueRow, NEW k \in QueueRow, j.kind = "fetch", k.kind = "fetch",
                 j.sources = k.sources, ActiveRow(j)', ActiveRow(k)', j # k
          PROVE  FALSE
      <4>1. j \in SameKey(k) /\ k \in SameKey(j)
        BY <3>1, KeyShape
      <4>2. (j \in dead \/ ActiveRow(j)) /\ (k \in dead \/ ActiveRow(k))
        BY <2>1, <3>1 DEF ActiveRow
      <4> QED
        BY <2>1, <3>1, <4>1, <4>2 DEF Steady, SourceActiveOnce
    <3> QED
      BY <3>1 DEF SourceActiveOnce
  <2>6. Fresh' /\ Canceling' /\ Validating'
    BY <1>11, <2>1 DEF Retry, Requesting, Steady, Fresh, Canceling, Validating, Staged
  <2>7. GateCoversBatch'
    <3>1. ASSUME NEW q \in Root, q # r, NEW k \in Records(q)
          PROVE  status'[k] = status[k]
      BY <2>1, <2>2, <3>1, RecordShape
    <3> QED
      BY <1>11, <2>1, <3>1 DEF Retry, Steady, GateCoversBatch, Released, ActiveRow, Staged
  <2> QED
    BY <2>3, <2>4, <2>5, <2>6, <2>7 DEF Steady
<1> QED
  BY <1>1, <1>2, <1>3, <1>4, <1>5, <1>6, <1>7, <1>8, <1>9, <1>10, <1>11 DEF Proceed

(***************************************************************************)
(* The theorems.                                                           *)
(***************************************************************************)

\* Nothing has been asked for at first.
LEMMA InitKeeps ==
    ASSUME Init
    PROVE  IInv
<1>1. Posted /\ RowsKnown /\ Held
  BY DEF Init, Posted, RowsKnown, Held, PlanStage, FetchStage
<1>2. Fresh /\ SourceActiveOnce /\ Canceling /\ Validating
  BY DEF Init, Fresh, SourceActiveOnce, Canceling, Validating, ActiveRow, Staged
<1>3. GateCoversBatch
  BY DEF Init, GateCoversBatch
<1> QED BY <1>1, <1>2, <1>3, InitType DEF IInv, Steady

\* Every step keeps the invariant.
LEMMA NextKeeps ==
    ASSUME IInv, [Next]_vars
    PROVE  IInv'
<1> USE DEF IInv
<1>1. ASSUME NEW w \in Worker, Handle(w) PROVE IInv'
  BY <1>1, HandleTypes, HandleKeeps
<1>2. ASSUME \/ \E w \in Worker : \/ \E k \in QueueRow : Claim(w, k)
                                  \/ \E exhausted \in BOOLEAN : Fail(w, exhausted)
                                  \/ Crash(w)
             \/ \E k \in QueueRow, exhausted \in BOOLEAN : Recover(k, exhausted)
      PROVE  IInv'
  BY <1>2, FateTypes, FateKeeps
<1>3. ASSUME \/ Elapse \/ Schedule \/ Expand
             \/ \E m \in {"automatic", "review"} : StartCreate(m)
             \/ EndCreate
             \/ \E r \in Root, S \in SUBSET staged : StartValidate(r, S)
             \/ Proceed
             \/ \E r \in Root : Discard(r) \/ StartCancel(r) \/ Retry(r)
      PROVE  IInv'
  BY <1>3, RequestTypes, RequestKeeps DEF Steady
<1>4. ASSUME UNCHANGED vars PROVE IInv'
  <2> USE <1>4 DEF vars, procs, people, history
  <2>1. TypeOK' /\ Posted'
    BY DEF TypeOK, Posted
  <2>2. Steady'
    BY StillRows
  <2> QED BY <2>1, <2>2
<1> QED
  BY <1>1, <1>2, <1>3, <1>4 DEF Next

\* The strengthening is an invariant of every run.
LEMMA Invariant == Spec => []IInv
<1>1. Init => IInv
  BY InitKeeps
<1>2. IInv /\ [Next]_vars => IInv'
  BY NextKeeps
<1> QED BY <1>1, <1>2, PTL DEF Spec

\* Two workers with one source's fetch, neither row taken from its worker, would hold
\* two rows of one key, both running.
LEMMA OneFetch ==
    ASSUME IInv
    PROVE  OneFetchPerSource
<1> SUFFICES ASSUME NEW v \in Worker, NEW w \in Worker, v # w,
                    at[v] # NoRow, at[w] # NoRow,
                    at[v].kind = "fetch", at[w].kind = "fetch",
                    at[v].sources = at[w].sources,
                    at[v] \notin snatched, at[w] \notin snatched
             PROVE  FALSE
  BY DEF OneFetchPerSource
<1>1. /\ at[v] \in QueueRow /\ at[w] \in QueueRow
      /\ ActiveRow(at[v]) /\ ActiveRow(at[w])
  BY DEF IInv, Steady, Held, TypeOK, ActiveRow
<1>2. at[v] = at[w]
  BY <1>1 DEF IInv, Steady, SourceActiveOnce
<1> QED
  BY <1>2 DEF IInv, Steady, Held

\* Every value the rows, the workers and the desks take is one of its type.
THEOREM TypeCorrect == Spec => []TypeOK
<1>1. IInv => TypeOK
  BY DEF IInv
<1> QED BY <1>1, Invariant, PTL

\* The gate of a review_first batch keeps the scheduler from the segment as long as
\* the batch is collected, and as long as it holds items nobody looked at.
THEOREM GateCoversBatchHolds == Spec => []GateCoversBatch
<1>1. IInv => GateCoversBatch
  BY DEF IInv, Steady
<1> QED BY <1>1, Invariant, PTL

\* No two workers fetch one source at a time, unless a cancellation gave one's row away.
THEOREM OneFetchPerSourceHolds == Spec => []OneFetchPerSource
<1>1. IInv => OneFetchPerSource
  BY OneFetch
<1> QED BY <1>1, Invariant, PTL

(***************************************************************************)
(* The rows and the queue's promise about a key.                           *)
(***************************************************************************)

HoldersOf(K) == {w \in Worker : at[w] \in K}

\* Of the rows of a key one is active at a time.
KeyActiveOnce ==
    \A k \in QueueRow : \A j \in SameKey(k) : ActiveRow(j) /\ ActiveRow(k) => j = k

\* What a step does to the rows and to who holds them.
Queued(k) == EnqueueOnce(k) /\ at' = at
Taken(w, k) ==
    /\ status[k] = "queued" /\ status' = [status EXCEPT ![k] = "running"]
    /\ at[w] = NoRow /\ at' = [at EXCEPT ![w] = k]
Left(w) ==
    /\ at[w] \in QueueRow /\ at' = [at EXCEPT ![w] = NoRow]
    /\ \/ status' = status
       \/ \E outcome \in {"done", "dead"} : status' = [status EXCEPT ![at[w]] = outcome]
       \/ /\ \A j \in SameKey(at[w]) \ {at[w]} : ~ActiveRow(j)
          /\ status' = [status EXCEPT ![at[w]] = "queued"]
Reclaimed(k) ==
    /\ status[k] = "running" /\ \A w \in Worker : at[w] # k
    /\ \E outcome \in {"queued", "dead"} : status' = [status EXCEPT ![k] = outcome]
    /\ at' = at
Withdrawn ==
    /\ \A k \in pile : k \in snatched \/ status[k] = "queued"
    /\ status' = [k \in QueueRow |-> IF k \in pile THEN "canceled" ELSE status[k]]
    /\ at' = at
Revived(D) ==
    /\ \A k \in D : status[k] = "dead" /\ \A j \in SameKey(k) \ {k} : ~ActiveRow(j) /\ j \notin D
    /\ status' = [k \in QueueRow |-> IF k \in D THEN "queued" ELSE status[k]]
    /\ at' = at

RowsMove ==
    \/ UNCHANGED <<status, at>>
    \/ \E k \in QueueRow : Queued(k) \/ Reclaimed(k) \/ \E w \in Worker : Taken(w, k)
    \/ \E w \in Worker : Left(w)
    \/ Withdrawn
    \/ \E D \in SUBSET QueueRow : Revived(D)

\* Every step does one of these.
LEMMA RowsMoveSo ==
    ASSUME IInv, [Next]_vars
    PROVE  RowsMove
<1> USE DEF people, history, procs
<1> TypeOK
  BY DEF IInv
<1>1. ASSUME NEW w \in Worker, Complete(w) \/ Crash(w) \/ \E exhausted \in BOOLEAN : Fail(w, exhausted)
      PROVE  RowsMove
  <2>1. at[w] \in QueueRow
    BY <1>1 DEF Complete, Crash, Fail, TypeOK
  <2>2. Left(w)
    BY <1>1, <2>1 DEF Complete, Crash, Fail, Ended, Left
  <2> QED BY <2>2 DEF RowsMove
<1>2. ASSUME NEW w \in Worker, NEW k \in QueueRow, Claim(w, k)
      PROVE  RowsMove
  <2>1. Taken(w, k)
    BY <1>2 DEF Claim, Taken, TypeOK
  <2> QED BY <2>1 DEF RowsMove
<1>3. ASSUME NEW w \in Worker, Spread(w)
      PROVE  RowsMove
  <2>1. at[w] \in QueueRow /\ at[w].root \in Root /\ plans[at[w].root] \in 1..MaxPlans
    BY <1>3, RowShape, BoundsAssumption DEF IInv, Spread, TypeOK, Posted
  <2>2. PICK s \in Source : EnqueueOnce(FetchRow(at[w].root, s, plans[at[w].root]))
    BY <1>3 DEF Spread, TypeOK
  <2>3. FetchRow(at[w].root, s, plans[at[w].root]) \in QueueRow
    BY <2>1, SpreadShape, FetchShape
  <2> QED BY <1>3, <2>2, <2>3 DEF Spread, RowsMove, Queued
<1>4. ASSUME NEW w \in Worker, HandOff(w)
      PROVE  RowsMove
  <2>1. at[w] \in Fetch
    BY <1>4, RowShape DEF IInv, HandOff, TypeOK, Posted, FetchStage
  <2>2. ItemRow(at[w]) \in QueueRow
    BY <2>1, FetchShape
  <2> QED BY <1>4, <2>2 DEF HandOff, RowsMove, Queued
<1>5. ASSUME NEW w \in Worker,
             \/ \E sources \in SUBSET Source : Plan(w, sources)
             \/ FinishEmpty(w) \/ Store(w) \/ RunItem(w) \/ Look(w) \/ Close(w)
      PROVE  UNCHANGED <<status, at>>
  BY <1>5 DEF Plan, FinishEmpty, Store, RunItem, Look, Close
<1>6. ASSUME NEW k \in QueueRow, NEW exhausted \in BOOLEAN, Recover(k, exhausted)
      PROVE  RowsMove
  <2>1. Reclaimed(k)
    BY <1>6 DEF Recover, Reclaimed
  <2> QED BY <2>1 DEF RowsMove
<1>7. ASSUME NEW m \in {"system", "automatic", "review"}, AskRefresh(m), at' = at
      PROVE  RowsMove
  <2>1. CASE \E q \in Root : ActiveRow(PlanRow(q))
    BY <1>7, <2>1 DEF AskRefresh, RowsMove
  <2>2. CASE ~\E q \in Root : ActiveRow(PlanRow(q))
    <3>1. PICK q \in Root : EnqueueOnce(PlanRow(q))
      BY <1>7, <2>2 DEF AskRefresh, Unused
    <3> QED BY <1>7, <3>1, PlanShape DEF RowsMove, Queued
  <2> QED BY <2>1, <2>2
<1>8. CASE Schedule \/ Expand \/ EndCreate
  BY <1>7, <1>8 DEF Schedule, Expand, EndCreate
<1>9. CASE ValidateOne
  <2>1. PICK f \in pile : EnqueueOnce(ItemRow(f))
    BY <1>9 DEF ValidateOne
  <2>2. ItemRow(f) \in QueueRow
    BY <1>9, <2>1, FetchShape DEF ValidateOne, IInv, Steady, Validating, Children
  <2> QED BY <1>9, <2>1, <2>2 DEF ValidateOne, RowsMove, Queued
<1>10. CASE EndCancel
  BY <1>10 DEF EndCancel, IInv, Steady, Canceling, RowsMove, Withdrawn
<1>11. ASSUME NEW r \in Root, Retry(r)
       PROVE  RowsMove
  <2> DEFINE dead == {k \in Records(r) : status[k] = "dead"}
  <2>1. dead \in SUBSET QueueRow
    BY RecordShape
  <2>2. Revived(dead)
    BY <1>11 DEF Retry, Revived
  <2> QED BY <2>1, <2>2 DEF RowsMove
<1>12. ASSUME \/ Elapse \/ EndValidate \/ UNCHANGED vars
              \/ \E m \in {"automatic", "review"} : StartCreate(m)
              \/ \E r \in Root, S \in SUBSET staged : StartValidate(r, S)
              \/ \E r \in Root : Discard(r) \/ StartCancel(r)
       PROVE  UNCHANGED <<status, at>>
  BY <1>12 DEF Elapse, EndValidate, StartCreate, StartValidate, Discard, StartCancel, vars
<1>13. UNCHANGED <<status, at>> => RowsMove
  BY DEF RowsMove
<1>14. ASSUME NEW w \in Worker, Handle(w)
       PROVE  RowsMove
  BY <1>1, <1>3, <1>4, <1>5, <1>13, <1>14 DEF Handle
<1> QED
  BY <1>1, <1>2, <1>6, <1>8, <1>9, <1>10, <1>11, <1>12, <1>13, <1>14 DEF Next, Proceed

\* The rows of a key have that key.
LEMMA KeysPartition ==
    ASSUME NEW K \in RowKey, NEW k \in K
    PROVE  K \subseteq QueueRow /\ k \in QueueRow /\ SameKey(k) = K
<1>1. PICK i \in QueueRow : K = SameKey(i)
  BY DEF RowKey
<1>2. k \in QueueRow /\ K \subseteq QueueRow
  BY <1>1, KeyShape
<1>3. i.kind = "item" => k = i
  BY <1>1, KeyShape
<1>4. i.kind # "item" => k.kind = i.kind /\ k.sources = i.sources
  BY <1>1, KeyShape, RowShape
<1>5. SameKey(k) = SameKey(i)
  <2>1. CASE i.kind = "item"
    BY <1>3, <2>1
  <2>2. CASE i.kind # "item"
    <3>1. i.kind \in {"plan", "fetch"} /\ k.kind \in {"plan", "fetch"}
      BY <1>2, <1>4, <2>2, RowShape
    <3> QED BY <1>4, <2>2, <3>1 DEF SameKey
  <2> QED BY <2>1, <2>2
<1> QED BY <1>1, <1>2, <1>5

\* A step keeps the key of what it activates free.
LEMMA KeyActiveOnceStep ==
    ASSUME TypeOK, KeyActiveOnce, RowsMove
    PROVE  KeyActiveOnce'
<1> SUFFICES ASSUME NEW k \in QueueRow, NEW j \in SameKey(k), j # k,
                    ActiveRow(j)', ActiveRow(k)'
             PROVE  FALSE
  BY DEF KeyActiveOnce, SameKey
<1>1. j \in QueueRow /\ k \in SameKey(j) /\ j \in SameKey(k)
  BY KeyShape, RowShape DEF SameKey
<1>2. ~(ActiveRow(j) /\ ActiveRow(k))
  BY DEF KeyActiveOnce
<1>3. ASSUME NEW i \in QueueRow, Queued(i)
      PROVE  FALSE
  <2>1. SameKey(i) = SameKey(k) \/ (i # j /\ i # k)
    BY <1>1, KeyShape, RowShape DEF SameKey
  <2>2. j \in SameKey(j) /\ k \in SameKey(k)
    BY <1>1 DEF SameKey
  <2> QED BY <1>1, <1>2, <1>3, <2>1, <2>2, EnqueueEffect DEF Queued, ActiveRow
<1>4. ASSUME NEW i \in QueueRow, Reclaimed(i) \/ \E w \in Worker : Taken(w, i)
      PROVE  FALSE
  BY <1>1, <1>2, <1>4 DEF Reclaimed, Taken, ActiveRow, TypeOK
<1>5. ASSUME NEW w \in Worker, Left(w)
      PROVE  FALSE
  BY <1>1, <1>2, <1>5 DEF Left, ActiveRow, TypeOK
<1>6. CASE Withdrawn
  BY <1>1, <1>2, <1>6 DEF Withdrawn, ActiveRow
<1>7. ASSUME NEW D \in SUBSET QueueRow, Revived(D)
      PROVE  FALSE
  BY <1>1, <1>2, <1>7 DEF Revived, ActiveRow
<1> QED BY <1>2, <1>3, <1>4, <1>5, <1>6, <1>7 DEF RowsMove, ActiveRow

Phase(s) == IF s \in {"queued", "running"} THEN s ELSE "none"

\* The work under a key is where its one active row is.
LEMMA StageOfOne ==
    ASSUME NEW K \in RowKey, NEW k \in K, \A j \in K \ {k} : ~ActiveRow(j)
    PROVE  KeyStage(K) = Phase(status[k])
BY DEF KeyStage, Phase, ActiveRow

\* A row held by its worker is the one active row of its key, and the worker is alone.
LEMMA HolderIsAlone ==
    ASSUME TypeOK, Held, KeyActiveOnce, NEW K \in RowKey, K \cap snatched = {},
           NEW w \in HoldersOf(K)
    PROVE  /\ status[at[w]] = "running" /\ KeyStage(K) = "running"
           /\ HoldersOf(K) = {w}
           /\ \A k \in K : ActiveRow(k) => k = at[w]
<1>1. \A v \in HoldersOf(K) : /\ at[v] \in K /\ at[v] \in QueueRow /\ status[at[v]] = "running"
                              /\ \A u \in Worker : at[u] = at[v] => u = v
  BY KeysPartition, NoRowIsNoRow DEF HoldersOf, Held
<1>2. \A j, k \in K : ActiveRow(j) /\ ActiveRow(k) => j = k
  BY KeysPartition DEF KeyActiveOnce
<1>3. \A k \in K : ActiveRow(k) => k = at[w]
  BY <1>1, <1>2 DEF ActiveRow
<1>4. HoldersOf(K) = {w}
  BY <1>1, <1>3 DEF HoldersOf, ActiveRow
<1> QED BY <1>1, <1>3, <1>4 DEF KeyStage

\* What a step does to the work under a key, as a step of the lease.
LEMMA LawfulKey ==
    ASSUME NEW K \in RowKey,
           \/ KeyStage(K)' = KeyStage(K) /\ HoldersOf(K)' = HoldersOf(K)
           \/ KeyStage(K) = "none" /\ KeyStage(K)' = "queued" /\ HoldersOf(K) = {} /\ HoldersOf(K)' = {}
           \/ KeyStage(K) = "queued" /\ KeyStage(K)' = "none" /\ HoldersOf(K) = {} /\ HoldersOf(K)' = {}
           \/ /\ KeyStage(K) = "queued" /\ KeyStage(K)' = "running" /\ HoldersOf(K) = {}
              /\ \E w \in Worker : HoldersOf(K)' = {w}
           \/ /\ KeyStage(K) = "running" /\ KeyStage(K)' \in {"none", "queued", "running"}
              /\ HoldersOf(K)' = {}
              /\ \E w \in Worker : HoldersOf(K) = {w}
           \/ /\ KeyStage(K) = "running" /\ KeyStage(K)' \in {"none", "queued"}
              /\ HoldersOf(K) = {} /\ HoldersOf(K)' = {}
    PROVE  Lease!Lawful(K)
BY DEF HoldersOf, Lease!Lawful, Lease!Unmoved, Lease!Handled, Lease!Leased, Lease!Released,
       Lease!Orphaned, Lease!Recovered, Lease!Moves, Lease!Idle

\* Every step treats the work under a key as the lease allows.
LEMMA KeysLawful ==
    ASSUME IInv, KeyActiveOnce, RowsMove, NEW K \in RowKey, K \cap snatched = {}
    PROVE  Lease!Lawful(K)
<1> TypeOK /\ Held
  BY DEF IInv, Steady
<1>0. \A j, k \in K : ActiveRow(j) /\ ActiveRow(k) => j = k
  BY KeysPartition DEF KeyActiveOnce
<1>1. \A w \in HoldersOf(K) : /\ KeyStage(K) = "running" /\ HoldersOf(K) = {w}
                              /\ \A k \in K : ActiveRow(k) => k = at[w]
  BY HolderIsAlone
<1>2. ASSUME \A k \in K : status'[k] = status[k]
      PROVE  KeyStage(K)' = KeyStage(K)
  BY <1>2 DEF KeyStage
<1>3. ASSUME at' = at PROVE HoldersOf(K)' = HoldersOf(K)
  BY <1>3 DEF HoldersOf
<1>4. CASE UNCHANGED <<status, at>>
  BY <1>2, <1>3, <1>4, LawfulKey
<1>5. ASSUME NEW k \in K, \A j \in K \ {k} : ~ActiveRow(j) /\ status'[j] = status[j]
      PROVE  KeyStage(K) = Phase(status[k]) /\ KeyStage(K)' = Phase(status'[k])
  <2>1. KeyStage(K) = Phase(status[k])
    BY <1>5, StageOfOne
  <2>2. KeyStage(K)' = Phase(status'[k])
    BY <1>5 DEF KeyStage, Phase, ActiveRow
  <2> QED BY <2>1, <2>2
<1>6. ASSUME NEW k \in QueueRow, Queued(k) PROVE Lease!Lawful(K)
  <2>1. CASE k \notin K \/ status'[k] = status[k]
    <3>1. \A j \in K : status'[j] = status[j]
      BY <1>6, <2>1, EnqueueEffect, KeysPartition DEF Queued
    <3> QED BY <1>2, <1>3, <1>6, <3>1, LawfulKey DEF Queued
  <2>2. CASE k \in K /\ status'[k] # status[k]
    <3>1. /\ \A j \in K : ~ActiveRow(j) /\ (j # k => status'[j] = status[j])
          /\ status'[k] = "queued"
      BY <1>6, <2>2, EnqueueEffect, KeysPartition DEF Queued
    <3>2. KeyStage(K) = "none" /\ KeyStage(K)' = "queued"
      BY <1>5, <2>2, <3>1 DEF Phase, ActiveRow
    <3>3. HoldersOf(K) = {}
      BY <1>1, <3>2
    <3> QED BY <1>3, <1>6, <3>2, <3>3, LawfulKey DEF Queued
  <2> QED BY <2>1, <2>2
<1>7. ASSUME NEW k \in QueueRow, NEW w \in Worker, Taken(w, k) PROVE Lease!Lawful(K)
  <2>1. CASE k \in K
    <3>1. \A j \in K \ {k} : ~ActiveRow(j) /\ status'[j] = status[j]
      BY <1>0, <1>7, <2>1, KeysPartition DEF Taken, ActiveRow, TypeOK
    <3>2. status[k] = "queued" /\ status'[k] = "running"
      BY <1>7 DEF Taken, TypeOK
    <3>3. KeyStage(K) = "queued" /\ KeyStage(K)' = "running"
      BY <1>5, <2>1, <3>1, <3>2 DEF Phase
    <3>4. HoldersOf(K) = {}
      BY <1>1, <3>3
    <3>5. HoldersOf(K)' = {w}
      BY <1>7, <2>1, <3>4 DEF Taken, HoldersOf, TypeOK
    <3> QED BY <3>3, <3>4, <3>5, LawfulKey
  <2>2. CASE k \notin K
    <3>1. \A j \in K : status'[j] = status[j]
      BY <1>7, <2>2, KeysPartition DEF Taken, TypeOK
    <3>2. HoldersOf(K)' = HoldersOf(K)
      BY <1>7, <2>2, KeysPartition, NoRowIsNoRow DEF Taken, HoldersOf, TypeOK
    <3> QED BY <1>2, <3>1, <3>2, LawfulKey
  <2> QED BY <2>1, <2>2
<1>8. ASSUME NEW w \in Worker, Left(w) PROVE Lease!Lawful(K)
  <2>1. CASE at[w] \in K
    <3>1. KeyStage(K) = "running" /\ HoldersOf(K) = {w}
      BY <1>1, <2>1 DEF HoldersOf
    <3>2. HoldersOf(K)' = {}
      BY <1>8, <3>1, KeysPartition, NoRowIsNoRow DEF Left, HoldersOf, TypeOK
    <3>3. KeyStage(K)' \in {"none", "queued", "running"}
      BY DEF KeyStage
    <3> QED BY <3>1, <3>2, <3>3, LawfulKey
  <2>2. CASE at[w] \notin K
    <3>1. \A j \in K : status'[j] = status[j]
      BY <1>8, <2>2, KeysPartition DEF Left, TypeOK
    <3>2. HoldersOf(K)' = HoldersOf(K)
      BY <1>8, <2>2, KeysPartition, NoRowIsNoRow DEF Left, HoldersOf, TypeOK
    <3> QED BY <1>2, <3>1, <3>2, LawfulKey
  <2> QED BY <2>1, <2>2
<1>9. ASSUME NEW k \in QueueRow, Reclaimed(k) PROVE Lease!Lawful(K)
  <2>1. CASE k \in K
    <3>1. \A j \in K \ {k} : ~ActiveRow(j) /\ status'[j] = status[j]
      BY <1>0, <1>9, <2>1, KeysPartition DEF Reclaimed, ActiveRow, TypeOK
    <3>2. status[k] = "running" /\ status'[k] \in {"queued", "dead"}
      BY <1>9 DEF Reclaimed, TypeOK
    <3>3. KeyStage(K) = "running" /\ KeyStage(K)' \in {"queued", "none"}
      BY <1>5, <2>1, <3>1, <3>2 DEF Phase
    <3>4. HoldersOf(K) = {}
      BY <1>1, <1>9, <2>1, <3>2 DEF Reclaimed, HoldersOf, ActiveRow
    <3> QED BY <1>3, <1>9, <3>3, <3>4, LawfulKey DEF Reclaimed
  <2>2. CASE k \notin K
    <3>1. \A j \in K : status'[j] = status[j]
      BY <1>9, <2>2, KeysPartition DEF Reclaimed, TypeOK
    <3> QED BY <1>2, <1>3, <1>9, <3>1, LawfulKey DEF Reclaimed
  <2> QED BY <2>1, <2>2
<1>10. CASE Withdrawn
  <2>1. CASE \E k \in K : k \in pile
    <3>1. PICK k \in K : k \in pile
      BY <2>1
    <3>2. status[k] = "queued" /\ status'[k] = "canceled"
      BY <1>10, <3>1, KeysPartition DEF Withdrawn
    <3>3. \A j \in K \ {k} : ~ActiveRow(j)
      BY <1>0, <3>2 DEF ActiveRow
    <3>4. \A j \in K \ {k} : j \notin pile /\ status'[j] = status[j]
      BY <1>10, <3>3, KeysPartition DEF Withdrawn, ActiveRow
    <3>5. KeyStage(K) = "queued" /\ KeyStage(K)' = "none"
      BY <1>5, <3>2, <3>3, <3>4 DEF Phase
    <3>6. HoldersOf(K) = {}
      BY <1>1, <3>5
    <3> QED BY <1>3, <1>10, <3>5, <3>6, LawfulKey DEF Withdrawn
  <2>2. CASE ~\E k \in K : k \in pile
    <3>1. \A j \in K : status'[j] = status[j]
      BY <1>10, <2>2, KeysPartition DEF Withdrawn
    <3> QED BY <1>2, <1>3, <1>10, <3>1, LawfulKey DEF Withdrawn
  <2> QED BY <2>1, <2>2
<1>11. ASSUME NEW D \in SUBSET QueueRow, Revived(D) PROVE Lease!Lawful(K)
  <2>1. CASE \E k \in K : k \in D
    <3>1. PICK k \in K : k \in D
      BY <2>1
    <3>2. status[k] = "dead" /\ status'[k] = "queued"
      BY <1>11, <3>1 DEF Revived
    <3>3. \A j \in K \ {k} : ~ActiveRow(j) /\ status'[j] = status[j]
      BY <1>11, <3>1, KeysPartition DEF Revived
    <3>4. KeyStage(K) = "none" /\ KeyStage(K)' = "queued"
      BY <1>5, <3>2, <3>3 DEF Phase
    <3>5. HoldersOf(K) = {}
      BY <1>1, <3>4
    <3> QED BY <1>3, <1>11, <3>4, <3>5, LawfulKey DEF Revived
  <2>2. CASE ~\E k \in K : k \in D
    <3>1. \A j \in K : status'[j] = status[j]
      BY <1>11, <2>2, KeysPartition DEF Revived
    <3> QED BY <1>2, <1>3, <1>11, <3>1, LawfulKey DEF Revived
  <2> QED BY <2>1, <2>2
<1> QED BY <1>4, <1>6, <1>7, <1>8, <1>9, <1>10, <1>11 DEF RowsMove

\* What was snatched from a cancellation is not forgotten.
LEMMA SnatchedGrows ==
    ASSUME [Next]_vars
    PROVE  snatched \subseteq snatched'
<1> USE DEF people, history, procs
<1>1. ASSUME NEW w \in Worker, Handle(w) PROVE snatched' = snatched
  BY <1>1 DEF Handle, Complete, Plan, Spread, FinishEmpty, Store, HandOff, RunItem, Look, Close
<1>2. ASSUME NEW w \in Worker,
             \/ \E k \in QueueRow : Claim(w, k)
             \/ \E exhausted \in BOOLEAN : Fail(w, exhausted)
             \/ Crash(w)
      PROVE  snatched \subseteq snatched'
  BY <1>2 DEF Claim, Fail, Crash
<1>3. ASSUME \/ \E k \in QueueRow, exhausted \in BOOLEAN : Recover(k, exhausted)
             \/ Elapse \/ Schedule \/ Expand \/ EndCreate \/ Proceed \/ UNCHANGED vars
             \/ \E m \in {"automatic", "review"} : StartCreate(m)
             \/ \E r \in Root, S \in SUBSET staged : StartValidate(r, S)
             \/ \E r \in Root : Discard(r) \/ StartCancel(r) \/ Retry(r)
      PROVE  snatched' = snatched
  BY <1>3 DEF Recover, Elapse, Schedule, Expand, EndCreate, Proceed, ValidateOne, EndValidate,
              EndCancel, StartCreate, StartValidate, Decide, Discard, StartCancel, Retry, vars
<1> QED BY <1>1, <1>2, <1>3 DEF Next

\* The work under a key of the segment (its refresh, the fetch of a source, an item) is
\* leased as the queue promises, through cancellations and retries of data jobs, until a
\* worker claims a row that is being canceled (business_index/pipeline.py,
\* admin/service.py).
THEOREM RowsAreLeased == Spec => ImplementsKeyLease
<1>1. Init => KeyActiveOnce
  BY KeyShape DEF Init, KeyActiveOnce, ActiveRow
<1>2. IInv /\ KeyActiveOnce /\ [Next]_vars => KeyActiveOnce'
  BY RowsMoveSo, KeyActiveOnceStep DEF IInv
<1>3. Init => Lease!Init
  <2> SUFFICES ASSUME Init PROVE Lease!Init
    OBVIOUS
  <2>1. \A K \in RowKey : KeyStage(K) = "none" /\ {w \in Worker : at[w] \in K} = {}
    BY KeysPartition, NoRowIsNoRow DEF Init, KeyStage
  <2>2. {K \in RowKey : K \cap snatched # {}} = {}
    BY DEF Init
  <2> QED BY <2>1, <2>2 DEF Lease!Init
<1>4. IInv /\ KeyActiveOnce /\ [Next]_vars => [Lease!Next]_(Lease!leaseVars)
  <2> SUFFICES ASSUME IInv, KeyActiveOnce, [Next]_vars
               PROVE  Lease!Next
    OBVIOUS
  <2>1. /\ [K \in RowKey |-> KeyStage(K)]' \in [RowKey -> Lease!Stage]
        /\ [K \in RowKey |-> {w \in Worker : at[w] \in K}]' \in [RowKey -> SUBSET Worker]
    BY DEF Lease!Stage, KeyStage
  <2>2. {K \in RowKey : K \cap snatched # {}} \subseteq {K \in RowKey : K \cap snatched # {}}'
    BY SnatchedGrows
  <2>3. \A K \in RowKey \ {J \in RowKey : J \cap snatched # {}}' : Lease!Lawful(K)
    BY SnatchedGrows, RowsMoveSo, KeysLawful
  <2> QED
    BY <2>1, <2>2, <2>3 DEF Lease!Next
<1> QED BY <1>1, <1>2, <1>3, <1>4, Invariant, PTL DEF Spec, ImplementsKeyLease, Lease!Spec
=============================================================================
