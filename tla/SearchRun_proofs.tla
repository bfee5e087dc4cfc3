---------------------------- MODULE SearchRun_proofs ----------------------------
(***************************************************************************)
(* What holds of SearchRun for every set of searches, businesses and       *)
(* workers and all bounds: an expanding search is served by whoever will   *)
(* end it, an evaluation is stored for the evidence the model was shown,   *)
(* and a search that has ended stays so.                                   *)
(***************************************************************************)
EXTENDS SearchRun, TLAPS

(***************************************************************************)
(* The strengthening.                                                      *)
(***************************************************************************)

\* A search whose request is over and which is not being expanded never will be again.
Over(c) == request[c] = "none" /\ status[c] \notin {"none", "expanding"}

\* A search that is being created is not yet EXPANDING and has not ended.
RequestOpen ==
    \A c \in Search :
        request[c] # "none" => status[c] \in {"draft", "paused", "discovering", "deleted"}

\* Who is to complete a search loaded as EXPANDING, or to fail it, comes after its request.
Completing(w) == pc[w] = "write" \/ (pc[w] = "settle" /\ loaded[w] = "expanding")
LoadedLater ==
    \A w \in Worker :
        /\ loaded[w] = "expanding" => pc[w] = "settle"
        /\ Completing(w) => request[at[w]] = "none" /\ status[at[w]] # "none"
DoomedLater == \A c \in doomed : request[c] = "none" /\ status[c] # "none"

\* A worker has settled its search, or the search has missed it.
FinishedFor == \A w \in Worker : pc[w] = "finish" => Over(at[w]) \/ at[w] \in early

\* A search that is EXPANDING, or about to be, has somebody to end it.
Awaited(c) == status[c] = "expanding" \/ (request[c] = "expand" /\ status[c] # "deleted")
Served(c) ==
    \/ batch[c] \in {"queued", "running"}
    \/ \E w \in Worker : at[w] = c /\ pc[w] = "mourn"
    \/ c \in early \cup orphaned
AwaitedIsServed == \A c \in Search : Awaited(c) => Served(c)

\* What is shown to the model is current, and what is stored is of what was shown.
ShownIsCurrent ==
    \A w \in Worker, b \in Business :
        shown[w][b] # NoEvidence => shown[w][b] = evidence[b] \/ b \in drifted
StoredFits ==
    \A b \in Business, v \in Evidence :
        verdict[b][v] # "none" => basis[b][v] = v \/ b \in drifted

\* The user's request has found a search that had not ended.
GlimpseOpen == desk[1] # "none" => glimpse \notin Final

IInv ==
    /\ TypeOK
    /\ RequestOpen /\ LoadedLater /\ DoomedLater /\ FinishedFor
    /\ AwaitedIsServed
    /\ ShownIsCurrent /\ StoredFits
    /\ GlimpseOpen

\* A step of a worker.
Work(w) ==
    \/ Handle(w)
    \/ \E exhausted \in BOOLEAN : Fail(w, exhausted)
    \/ \E c \in Search, exhausted \in BOOLEAN : Recover(w, c, exhausted)
    \/ Crash(w)

(***************************************************************************)
(* Types.                                                                  *)
(***************************************************************************)

\* The types of what a worker holds.
ProcTypes ==
    /\ pc \in [Worker -> {"idle", "evaluate", "save", "settle", "write", "finish", "mourn"}]
    /\ at \in [Worker -> Search \cup {NoSearch}]
    /\ \A w \in Worker : at[w] = NoSearch <=> pc[w] = "idle"
    /\ shown \in [Worker -> [Business -> Evidence \cup {NoEvidence}]]
    /\ loaded \in [Worker -> Status]

\* A worker that is done is idle.
LEMMA EndedTypes ==
    ASSUME TypeOK, NEW w \in Worker, Ended(w)
    PROVE  ProcTypes'
<1>1. Nothing \in [Business -> Evidence \cup {NoEvidence}]
  BY DEF Nothing
<1>2. shown' \in [Worker -> [Business -> Evidence \cup {NoEvidence}]]
  BY <1>1 DEF Ended, TypeOK
<1>3. loaded' \in [Worker -> Status]
  BY DEF Ended, TypeOK, Status
<1>4. /\ pc' \in [Worker -> {"idle", "evaluate", "save", "settle", "write", "finish", "mourn"}]
      /\ at' \in [Worker -> Search \cup {NoSearch}]
      /\ \A v \in Worker : at'[v] = NoSearch <=> pc'[v] = "idle"
  BY DEF Ended, TypeOK
<1> QED BY <1>2, <1>3, <1>4 DEF ProcTypes

\* One that gives its batch up mourns, or is idle.
LEMMA GiveUpTypes ==
    ASSUME TypeOK, NEW w \in Worker, NEW c \in Search, NEW exhausted \in BOOLEAN,
           GiveUp(w, c, exhausted)
    PROVE  ProcTypes' /\ batch' \in [Search -> {"none", "queued", "running", "done", "dead"}]
<1>1. Nothing \in [Business -> Evidence \cup {NoEvidence}]
  BY DEF Nothing
<1>2. shown' \in [Worker -> [Business -> Evidence \cup {NoEvidence}]]
  BY <1>1 DEF GiveUp, TypeOK
<1>3. loaded' \in [Worker -> Status]
  BY DEF GiveUp, TypeOK, Status
<1>4. /\ pc' \in [Worker -> {"idle", "evaluate", "save", "settle", "write", "finish", "mourn"}]
      /\ at' \in [Worker -> Search \cup {NoSearch}]
      /\ \A v \in Worker : at'[v] = NoSearch <=> pc'[v] = "idle"
  BY NoSearchIsNoSearch DEF GiveUp, TypeOK
<1>5. batch' \in [Search -> {"none", "queued", "running", "done", "dead"}]
  BY DEF GiveUp, TypeOK
<1> QED BY <1>2, <1>3, <1>4, <1>5 DEF ProcTypes

\* Nothing has happened at first.
LEMMA InitType ==
    ASSUME Init
    PROVE  TypeOK
<1>1. /\ status \in [Search -> Status]
      /\ request \in [Search -> {"none", "created", "enqueue", "expand", "finish"}]
      /\ wants \in [Search -> SUBSET Business]
      /\ batch \in [Search -> {"none", "queued", "running", "done", "dead"}]
      /\ ids \in [Search -> SUBSET Business]
  BY DEF Init, Status
<1>2. leads \in [Search -> [Business -> {"none", "matched", "unknown", "not_matched"}]]
  <2>1. NoRows \in [Business -> {"none", "matched", "unknown", "not_matched"}]
    BY DEF NoRows
  <2> QED BY <2>1 DEF Init
<1>3. verdict \in [Business -> [Evidence -> Judgement \cup {"none"}]]
  BY DEF Init
<1>4. basis \in [Business -> [Evidence -> Evidence \cup {NoEvidence}]]
  BY DEF Init
<1>5. /\ pc \in [Worker -> {"idle", "evaluate", "save", "settle", "write", "finish", "mourn"}]
      /\ at \in [Worker -> Search \cup {NoSearch}]
      /\ \A w \in Worker : at[w] = NoSearch <=> pc[w] = "idle"
      /\ loaded \in [Worker -> Status]
  BY DEF Init, Status
<1>6. shown \in [Worker -> [Business -> Evidence \cup {NoEvidence}]]
  BY DEF Init, Nothing
<1>7. /\ desk \in {"none", "pause", "resume"} \X (Search \cup {NoSearch})
      /\ desk[1] # "none" => desk[2] \in Search
      /\ glimpse \in Status
      /\ edits \in 0..MaxEdits /\ faults \in 0..MaxFaults
  BY BoundsAssumption DEF Init, Status
<1>8. /\ evidence \in [Business -> Evidence]
      /\ doomed \subseteq Search
      /\ early \subseteq Search /\ orphaned \subseteq Search
      /\ drifted \subseteq Business
  BY DEF Init
<1> QED BY <1>1, <1>2, <1>3, <1>4, <1>5, <1>6, <1>7, <1>8 DEF TypeOK

\* A request's steps keep the types.
LEMMA RequestTypes ==
    ASSUME TypeOK, NEW c \in Search, Create(c) \/ Ask(c) \/ RequestLost(c)
    PROVE  TypeOK'
<1> USE DEF records, asking, index, procs, user, history
<1>1. CASE Create(c)
  BY <1>1 DEF Create, TypeOK, Status
<1>2. CASE Match(c)
  <2>1. PICK rows \in Rows : leads' = [leads EXCEPT ![c] = Materialized(c, rows)]
    BY <1>2 DEF Match
  <2>2. rows \in [Business -> {"none", "matched", "unknown"}]
    BY DEF Rows
  <2>3. Materialized(c, rows) \in [Business -> {"none", "matched", "unknown", "not_matched"}]
    BY <2>2 DEF Materialized, TypeOK
  <2>4. leads' \in [Search -> [Business -> {"none", "matched", "unknown", "not_matched"}]]
    BY <2>1, <2>3 DEF TypeOK
  <2>5. wants' \in [Search -> SUBSET Business]
    BY <1>2 DEF Match, Pending, TypeOK
  <2>6. request' \in [Search -> {"none", "created", "enqueue", "expand", "finish"}]
    BY <1>2 DEF Match, TypeOK
  <2>7. UNCHANGED <<status, batch, ids, index, procs, user, doomed, faults, history>>
    BY <1>2 DEF Match
  <2> QED BY <2>4, <2>5, <2>6, <2>7 DEF TypeOK
<1>3. CASE Enqueue(c)
  BY <1>3 DEF Enqueue, TypeOK
<1>4. CASE Finish(c)
  <2>1. status' \in [Search -> Status]
    BY <1>4 DEF Finish, TypeOK, Status
  <2> QED BY <1>4, <2>1 DEF Finish, TypeOK
<1>5. CASE RequestLost(c)
  BY <1>5, BoundsAssumption DEF RequestLost, TypeOK
<1> QED BY <1>1, <1>2, <1>3, <1>4, <1>5 DEF Ask

\* So do those of the user.
LEMMA UserTypes ==
    ASSUME TypeOK, (\E c \in Search : StartPause(c) \/ StartResume(c) \/ Delete(c)) \/ EndEdit
    PROVE  TypeOK'
<1> USE DEF records, asking, index, procs, user, history
<1>1. ASSUME NEW c \in Search, StartPause(c) \/ StartResume(c)
      PROVE  TypeOK'
  <2>1. desk' \in {<<"pause", c>>, <<"resume", c>>} /\ glimpse' \in Status /\ edits' \in 0..MaxEdits
    BY <1>1, BoundsAssumption DEF StartPause, StartResume, Editing, TypeOK
  <2>2. UNCHANGED <<records, asking, index, procs, doomed, faults, history>>
    BY <1>1 DEF StartPause, StartResume
  <2> QED BY <2>1, <2>2 DEF TypeOK
<1>2. ASSUME NEW c \in Search, Delete(c)
      PROVE  TypeOK'
  <2>1. edits' \in 0..MaxEdits
    BY <1>2, BoundsAssumption DEF Delete, Editing, TypeOK
  <2>2. status' \in [Search -> Status] /\ batch' \in [Search -> {"none", "queued", "running", "done", "dead"}]
    BY <1>2 DEF Delete, TypeOK, Status
  <2>3. NoRows \in [Business -> {"none", "matched", "unknown", "not_matched"}]
    BY DEF NoRows
  <2>4. leads' \in [Search -> [Business -> {"none", "matched", "unknown", "not_matched"}]]
    BY <1>2, <2>3 DEF Delete, TypeOK
  <2>5. UNCHANGED <<ids, asking, index, procs, desk, glimpse, doomed, faults, history>>
    BY <1>2 DEF Delete
  <2> QED BY <2>1, <2>2, <2>4, <2>5 DEF TypeOK
<1>3. ASSUME EndEdit
      PROVE  TypeOK'
  <2>1. status' \in [Search -> Status]
    BY <1>3 DEF EndEdit, TypeOK, Status
  <2>2. desk' = <<"none", NoSearch>> /\ glimpse' \in Status
    BY <1>3 DEF EndEdit, Status
  <2>3. UNCHANGED <<leads, batch, ids, asking, index, procs, edits, doomed, faults, history>>
    BY <1>3 DEF EndEdit
  <2> QED BY <2>1, <2>2, <2>3 DEF TypeOK
<1> QED BY <1>1, <1>2, <1>3

\* So do the stages of a batch,
LEMMA StageTypes ==
    ASSUME TypeOK, NEW w \in Worker,
           \/ \E c \in Search : Claim(w, c)
           \/ Evaluate(w) \/ Save(w) \/ Deliver(w) \/ Settle(w) \/ Write(w) \/ Complete(w)
    PROVE  TypeOK'
<1> USE DEF records, asking, index, procs, user, history
<1>1. ASSUME NEW c \in Search, Claim(w, c)
      PROVE  TypeOK'
  BY <1>1, NoSearchIsNoSearch DEF Claim, TypeOK
<1>2. CASE Evaluate(w)
  <2>1. shown' \in [Worker -> [Business -> Evidence \cup {NoEvidence}]]
    BY <1>2 DEF Evaluate, TypeOK
  <2> QED BY <1>2, <2>1 DEF Evaluate, TypeOK
<1>3. CASE Save(w)
  <2>1. PICK b \in Todo(w), j \in Judgement :
           /\ verdict' = [verdict EXCEPT ![b][evidence[b]] = j]
           /\ basis' = [basis EXCEPT ![b][evidence[b]] = shown[w][b]]
           /\ shown' = [shown EXCEPT ![w][b] = NoEvidence]
    BY <1>3 DEF Save
  <2>2. b \in Business /\ shown[w][b] \in Evidence \cup {NoEvidence}
    BY DEF Todo, TypeOK
  <2>3. verdict' \in [Business -> [Evidence -> Judgement \cup {"none"}]]
    BY <2>1, <2>2 DEF TypeOK
  <2>4. basis' \in [Business -> [Evidence -> Evidence \cup {NoEvidence}]]
    BY <2>1, <2>2 DEF TypeOK
  <2>5. shown' \in [Worker -> [Business -> Evidence \cup {NoEvidence}]]
    BY <2>1, <2>2 DEF TypeOK
  <2>6. UNCHANGED <<records, asking, evidence, pc, at, loaded, user, doomed, faults, history>>
    BY <1>3 DEF Save
  <2> QED BY <2>3, <2>4, <2>5, <2>6 DEF TypeOK
<1>4. CASE Deliver(w)
  <2>1. at[w] \in Search
    BY <1>4 DEF Deliver, TypeOK
  <2>2. loaded' \in [Worker -> Status]
    BY <1>4, <2>1 DEF Deliver, TypeOK
  <2>3. PICK rows \in Rows :
          leads' = [leads EXCEPT ![at[w]] =
                       [b \in Business |-> IF rows[b] = "none" /\ @[b] # "none"
                                           THEN "not_matched" ELSE rows[b]]]
    BY <1>4 DEF Deliver
  <2>4. rows \in [Business -> {"none", "matched", "unknown"}]
    BY DEF Rows
  <2>5. leads' \in [Search -> [Business -> {"none", "matched", "unknown", "not_matched"}]]
    BY <2>1, <2>3, <2>4 DEF TypeOK
  <2>6. pc' = [pc EXCEPT ![w] = "settle"] /\ pc[w] = "save"
    BY <1>4 DEF Deliver
  <2>7. UNCHANGED <<status, batch, ids, asking, index, at, shown, user, doomed, faults, history>>
    BY <1>4 DEF Deliver
  <2> QED BY <2>2, <2>5, <2>6, <2>7 DEF TypeOK
<1>5. CASE Settle(w)
  <2>1. at[w] \in Search
    BY <1>5 DEF Settle, TypeOK
  <2>2. early' \subseteq Search
    BY <1>5, <2>1 DEF Settle, TypeOK
  <2>3. PICK next \in {"write", "finish"} : pc' = [pc EXCEPT ![w] = next]
    BY <1>5 DEF Settle
  <2>5. /\ pc' \in [Worker -> {"idle", "evaluate", "save", "settle", "write", "finish", "mourn"}]
        /\ \A v \in Worker : at[v] = NoSearch <=> pc'[v] = "idle"
    BY <1>5, <2>3 DEF Settle, TypeOK
  <2>6. loaded' \in [Worker -> Status]
    BY <1>5 DEF Settle, TypeOK, Status
  <2>4. UNCHANGED <<records, asking, index, at, shown, user, doomed, faults, orphaned, drifted>>
    BY <1>5 DEF Settle
  <2> QED BY <2>2, <2>4, <2>5, <2>6 DEF TypeOK
<1>6. CASE Complete(w)
  <2>1. ProcTypes'
    BY <1>6, EndedTypes DEF Complete
  <2>2. batch' \in [Search -> {"none", "queued", "running", "done", "dead"}]
    BY <1>6 DEF Complete, TypeOK
  <2>3. UNCHANGED <<status, leads, ids, asking, index, user, doomed, faults, history>>
    BY <1>6 DEF Complete
  <2> QED BY <2>1, <2>2, <2>3 DEF TypeOK, ProcTypes
<1>7. CASE Write(w)
  <2>1. status' \in [Search -> Status]
    BY <1>7 DEF Write, TypeOK, Status
  <2>2. pc[w] = "write" /\ pc' = [pc EXCEPT ![w] = "finish"]
    BY <1>7 DEF Write
  <2>3. UNCHANGED <<leads, batch, ids, asking, index, at, shown, loaded, user, doomed, faults, history>>
    BY <1>7 DEF Write
  <2> QED BY <2>1, <2>2, <2>3 DEF TypeOK
<1> QED BY <1>1, <1>2, <1>3, <1>4, <1>5, <1>6, <1>7

\* and its failures.
LEMMA FailureTypes ==
    ASSUME TypeOK, NEW w \in Worker,
           \/ Miss(w) \/ Collapse(w) \/ FailCampaign(w) \/ Crash(w)
           \/ \E exhausted \in BOOLEAN : Fail(w, exhausted) \/ Refuse(w, exhausted)
           \/ \E c \in Search, exhausted \in BOOLEAN : Recover(w, c, exhausted)
    PROVE  TypeOK'
<1> USE DEF records, asking, index, procs, user, history
<1>1. ASSUME NEW c \in Search, NEW exhausted \in BOOLEAN, GiveUp(w, c, exhausted),
             faults' \in 0..MaxFaults,
             UNCHANGED <<status, leads, ids, asking, index, user, doomed, history>>
      PROVE  TypeOK'
  <2>1. ProcTypes' /\ batch' \in [Search -> {"none", "queued", "running", "done", "dead"}]
    BY <1>1, GiveUpTypes
  <2> QED BY <1>1, <2>1 DEF TypeOK, ProcTypes
<1>2. CASE Miss(w)
  <2>1. at[w] \in Search /\ faults' \in 0..MaxFaults
    BY <1>2 DEF Miss, Lost, TypeOK
  <2>2. GiveUp(w, at[w], TRUE) /\ UNCHANGED <<status, leads, ids, asking, index, user, doomed, history>>
    BY <1>2 DEF Miss
  <2> QED BY <1>1, <2>1, <2>2
<1>3. CASE Collapse(w)
  <2>1. ProcTypes'
    BY <1>3, EndedTypes DEF Collapse
  <2>2. UNCHANGED <<records, asking, index, user, doomed, faults, history>>
    BY <1>3 DEF Collapse
  <2> QED BY <2>1, <2>2 DEF TypeOK, ProcTypes
<1>4. CASE FailCampaign(w)
  <2>1. ProcTypes'
    BY <1>4, EndedTypes DEF FailCampaign
  <2>2. at[w] \in Search
    BY <1>4 DEF FailCampaign, TypeOK
  <2>3. status' \in [Search -> Status] /\ early' \subseteq Search
    <3>1. status \in [Search -> Status] /\ early \subseteq Search /\ "failed" \in Status
      BY DEF TypeOK, Status
    <3>2. \/ status' = [status EXCEPT ![at[w]] = "failed"] /\ early' = early
          \/ status' = status /\ early' = early \cup {at[w]}
      BY <1>4 DEF FailCampaign
    <3> QED BY <2>2, <3>1, <3>2
  <2>4. UNCHANGED <<leads, batch, ids, asking, index, user, doomed, faults, orphaned, drifted>>
    BY <1>4 DEF FailCampaign
  <2> QED BY <2>1, <2>3, <2>4 DEF TypeOK, ProcTypes
<1>5. CASE Crash(w)
  <2>1. ProcTypes'
    BY <1>5, EndedTypes DEF Crash
  <2>2. at[w] \in Search /\ faults' \in 0..MaxFaults
    BY <1>5, BoundsAssumption DEF Crash, TypeOK
  <2>3. orphaned' \subseteq Search
    BY <1>5, <2>2 DEF Crash, TypeOK
  <2>4. UNCHANGED <<records, asking, index, user, doomed, early, drifted>>
    BY <1>5 DEF Crash
  <2> QED BY <2>1, <2>2, <2>3, <2>4 DEF TypeOK, ProcTypes
<1>6. ASSUME NEW exhausted \in BOOLEAN, Fail(w, exhausted)
      PROVE  TypeOK'
  <2>1. at[w] \in Search /\ faults' \in 0..MaxFaults
    BY <1>6, BoundsAssumption DEF Fail, TypeOK
  <2>2. GiveUp(w, at[w], exhausted) /\ UNCHANGED <<status, leads, ids, asking, index, user, doomed, history>>
    BY <1>6 DEF Fail
  <2> QED BY <1>1, <2>1, <2>2
<1>7. ASSUME NEW c \in Search, NEW exhausted \in BOOLEAN, Recover(w, c, exhausted)
      PROVE  TypeOK'
  <2>1. faults' \in 0..MaxFaults
    BY <1>7 DEF Recover, TypeOK
  <2>2. GiveUp(w, c, exhausted) /\ UNCHANGED <<status, leads, ids, asking, index, user, doomed, history>>
    BY <1>7 DEF Recover
  <2> QED BY <1>1, <2>1, <2>2
<1>8. ASSUME NEW exhausted \in BOOLEAN, Refuse(w, exhausted)
      PROVE  TypeOK'
  <2>1. at[w] \in Search /\ faults' \in 0..MaxFaults
    BY <1>8 DEF Refuse, TypeOK
  <2>2. GiveUp(w, at[w], exhausted) /\ UNCHANGED <<status, leads, ids, asking, index, user, doomed, history>>
    BY <1>8 DEF Refuse
  <2> QED BY <1>1, <2>1, <2>2
<1> QED BY <1>2, <1>3, <1>4, <1>5, <1>6, <1>7, <1>8

\* Every step keeps the types.
LEMMA TypeStep ==
    ASSUME TypeOK, [Next]_vars
    PROVE  TypeOK'
<1> USE DEF records, asking, index, procs, user, history
<1>1. ASSUME NEW b \in Business, EvidenceChanges(b)
      PROVE  TypeOK'
  <2>1. evidence' \in [Business -> Evidence]
    BY <1>1 DEF EvidenceChanges, TypeOK
  <2>2. drifted' \subseteq Business
    BY <1>1 DEF EvidenceChanges, TypeOK
  <2>3. edits' \in 0..MaxEdits
    BY <1>1, BoundsAssumption DEF EvidenceChanges, TypeOK
  <2>4. UNCHANGED <<records, asking, verdict, basis, procs, desk, glimpse, doomed, faults, early, orphaned>>
    BY <1>1 DEF EvidenceChanges
  <2> QED BY <2>1, <2>2, <2>3, <2>4 DEF TypeOK
<1>2. CASE RefreshDies
  <2>1. edits' \in 0..MaxEdits /\ doomed' \subseteq Search
    BY <1>2, BoundsAssumption DEF RefreshDies, TypeOK
  <2> QED BY <1>2, <2>1 DEF RefreshDies, TypeOK
<1>3. CASE FailExpanding
  <2>1. status' \in [Search -> Status]
    BY <1>3 DEF FailExpanding, TypeOK, Status
  <2>2. doomed' = {} /\ UNCHANGED <<leads, batch, ids, asking, index, procs, user, faults, history>>
    BY <1>3 DEF FailExpanding
  <2> QED BY <2>1, <2>2 DEF TypeOK
<1>4. CASE UNCHANGED vars
  BY <1>4 DEF vars, TypeOK
<1>5. ASSUME NEW w \in Worker, Work(w)
      PROVE  TypeOK'
  BY <1>5, StageTypes, FailureTypes DEF Handle, Work
<1> QED BY <1>1, <1>2, <1>3, <1>4, <1>5, RequestTypes, UserTypes DEF Next, Work

(***************************************************************************)
(* What a step does to a search.                                           *)
(***************************************************************************)

\* Who writes the status of a search, and what.
Changed(c) ==
    \/ status[c] = "none" /\ status'[c] = "draft"
    \/ /\ request[c] \in {"expand", "finish"} /\ status[c] # "deleted" /\ request'[c] = "none"
       /\ status'[c] = IF request[c] = "expand" THEN "expanding" ELSE "completed"
    \/ /\ \E w \in Worker : at[w] = c /\ pc[w] = "write"
       /\ status[c] # "deleted" /\ status'[c] = "completed"
    \/ status[c] = "expanding" /\ status'[c] = "failed"
    \/ c \in doomed /\ status[c] # "deleted" /\ status'[c] = "failed"
    \/ desk[1] # "none" /\ desk[2] = c /\ status[c] # "deleted" /\ status'[c] \in {"paused", "discovering"}
    \/ status[c] # "none" /\ status'[c] = "deleted"

\* A status that changes is written by one of them.
LEMMA StatusStep ==
    ASSUME TypeOK, [Next]_vars, NEW c \in Search, status'[c] # status[c]
    PROVE  Changed(c)
<1> USE DEF records, asking, index, procs, user, history
<1>1. ASSUME NEW d \in Search, Create(d)
      PROVE  Changed(c)
  BY <1>1 DEF Create, TypeOK, Changed
<1>2. ASSUME NEW d \in Search, Finish(d)
      PROVE  Changed(c)
  BY <1>2 DEF Finish, TypeOK, Changed
<1>3. ASSUME NEW d \in Search,
             \/ Match(d) \/ Enqueue(d) \/ RequestLost(d)
             \/ StartPause(d) \/ StartResume(d)
      PROVE  UNCHANGED status
  BY <1>3 DEF Match, Enqueue, RequestLost, StartPause, StartResume
<1>4. ASSUME NEW d \in Search, Delete(d)
      PROVE  Changed(c)
  BY <1>4 DEF Delete, TypeOK, Changed
<1>5. CASE EndEdit
  <2>1. desk[1] # "none" /\ desk[2] \in Search
    BY <1>5 DEF EndEdit, TypeOK
  <2>2. c = desk[2] /\ status[c] # "deleted" /\ status'[c] \in {"paused", "discovering"}
    BY <1>5, <2>1 DEF EndEdit, TypeOK
  <2> QED BY <2>1, <2>2 DEF Changed
<1>6. CASE RefreshDies \/ \E b \in Business : EvidenceChanges(b)
  BY <1>6 DEF RefreshDies, EvidenceChanges
<1>7. CASE FailExpanding
  BY <1>7 DEF FailExpanding, TypeOK, Changed
<1>8. ASSUME NEW w \in Worker, Write(w)
      PROVE  Changed(c)
  <2>1. at[w] \in Search
    BY <1>8 DEF Write, TypeOK
  <2> QED BY <1>8, <2>1 DEF Write, TypeOK, Changed
<1>9. ASSUME NEW w \in Worker, FailCampaign(w)
      PROVE  Changed(c)
  <2>1. at[w] \in Search
    BY <1>9 DEF FailCampaign, TypeOK
  <2> QED BY <1>9, <2>1 DEF FailCampaign, TypeOK, Changed
<1>10. ASSUME NEW w \in Worker,
              \/ Evaluate(w) \/ Save(w) \/ Deliver(w) \/ Settle(w) \/ Complete(w)
              \/ Miss(w) \/ Collapse(w) \/ Crash(w)
       PROVE  UNCHANGED status
  BY <1>10 DEF Evaluate, Save, Deliver, Settle, Complete, Miss, Collapse, Crash
<1>11. ASSUME NEW w \in Worker, NEW d \in Search, NEW exhausted \in BOOLEAN,
              Claim(w, d) \/ Fail(w, exhausted) \/ Refuse(w, exhausted) \/ Recover(w, d, exhausted)
       PROVE  UNCHANGED status
  BY <1>11 DEF Claim, Fail, Refuse, Recover
<1>12. CASE UNCHANGED vars
  BY <1>12 DEF vars
<1>13. ASSUME NEW w \in Worker, Work(w)
       PROVE  Changed(c)
  BY <1>8, <1>9, <1>10, <1>11, <1>13 DEF Handle, Work
<1> QED
  BY <1>1, <1>2, <1>3, <1>4, <1>5, <1>6, <1>7, <1>12, <1>13 DEF Next, Ask, Work

\* A request goes its way: it begins with a new search, and has a batch before it expands.
LEMMA RequestStep ==
    ASSUME TypeOK, [Next]_vars, NEW c \in Search, request'[c] # request[c]
    PROVE  \/ status[c] = "none" /\ status'[c] = "draft" /\ request'[c] = "created"
           \/ /\ request[c] # "none" /\ request'[c] \in {"none", "enqueue", "expand", "finish"}
              /\ request'[c] = "expand" => batch'[c] = "queued"
<1> USE DEF records, asking, index, procs, user, history
<1>1. ASSUME NEW d \in Search, Create(d)
      PROVE  c = d /\ status[c] = "none" /\ status'[c] = "draft" /\ request'[c] = "created"
  BY <1>1 DEF Create, TypeOK
<1>2. ASSUME NEW d \in Search, Match(d) \/ Finish(d) \/ RequestLost(d)
      PROVE  c = d /\ request[c] # "none" /\ request'[c] \in {"none", "enqueue", "finish"}
  BY <1>2 DEF Match, Finish, RequestLost, TypeOK
<1>3. ASSUME NEW d \in Search, Enqueue(d)
      PROVE  c = d /\ request[c] # "none" /\ request'[c] = "expand" /\ batch'[c] = "queued"
  BY <1>3 DEF Enqueue, TypeOK
<1>4. ASSUME NEW d \in Search, StartPause(d) \/ StartResume(d) \/ Delete(d)
      PROVE  UNCHANGED request
  BY <1>4 DEF StartPause, StartResume, Delete
<1>5. CASE EndEdit \/ RefreshDies \/ FailExpanding \/ \E b \in Business : EvidenceChanges(b)
  BY <1>5 DEF EndEdit, RefreshDies, FailExpanding, EvidenceChanges
<1>6. ASSUME NEW w \in Worker,
             \/ Evaluate(w) \/ Save(w) \/ Deliver(w) \/ Settle(w) \/ Write(w) \/ Complete(w)
             \/ Miss(w) \/ Collapse(w) \/ FailCampaign(w) \/ Crash(w)
      PROVE  UNCHANGED request
  BY <1>6 DEF Evaluate, Save, Deliver, Settle, Write, Complete, Miss, Collapse, FailCampaign, Crash
<1>7. ASSUME NEW w \in Worker, NEW d \in Search, NEW exhausted \in BOOLEAN,
             Claim(w, d) \/ Fail(w, exhausted) \/ Refuse(w, exhausted) \/ Recover(w, d, exhausted)
      PROVE  UNCHANGED request
  BY <1>7 DEF Claim, Fail, Refuse, Recover
<1>8. CASE UNCHANGED vars
  BY <1>8 DEF vars
<1>9. ASSUME NEW w \in Worker, Work(w)
      PROVE  UNCHANGED request
  BY <1>6, <1>7, <1>9 DEF Handle, Work
<1> QED BY <1>1, <1>2, <1>3, <1>4, <1>5, <1>8, <1>9 DEF Next, Ask, Work

\* While a search is being created it has not ended.
LEMMA RequestOpenStep ==
    ASSUME TypeOK, RequestOpen, LoadedLater, DoomedLater, [Next]_vars
    PROVE  RequestOpen'
<1> SUFFICES ASSUME NEW c \in Search, request'[c] # "none"
             PROVE  status'[c] \in {"draft", "paused", "discovering", "deleted"}
  BY DEF RequestOpen
<1>1. CASE status[c] = "none" /\ status'[c] = "draft"
  BY <1>1
<1>2. CASE ~(status[c] = "none" /\ status'[c] = "draft")
  <2>1. request[c] # "none"
    BY <1>2, RequestStep
  <2>2. status[c] \in {"draft", "paused", "discovering", "deleted"}
    BY <2>1 DEF RequestOpen
  <2>3. ~\E w \in Worker : at[w] = c /\ pc[w] = "write"
    BY <2>1 DEF LoadedLater, Completing
  <2>4. c \notin doomed
    BY <2>1 DEF DoomedLater
  <2>5. CASE status'[c] # status[c]
    <3>1. Changed(c)
      BY <2>5, StatusStep
    <3> QED BY <2>2, <2>3, <2>4, <3>1 DEF Changed
  <2> QED BY <2>2, <2>5
<1> QED BY <1>1, <1>2

\* A request that is over stays over, and a search stays created.
LEMMA LaterStays ==
    ASSUME TypeOK, [Next]_vars, NEW c \in Search, request[c] = "none", status[c] # "none"
    PROVE  request'[c] = "none" /\ status'[c] # "none"
<1>1. request'[c] = "none"
  BY RequestStep
<1>2. status'[c] # status[c] => status'[c] # "none"
  BY StatusStep DEF Changed
<1> QED BY <1>1, <1>2

\* A search that is over stays so.
LEMMA OverStays ==
    ASSUME TypeOK, [Next]_vars, NEW c \in Search, Over(c)
    PROVE  request'[c] = "none" /\ status'[c] \notin {"none", "expanding"}
<1>1. request'[c] = "none" /\ status'[c] # "none"
  BY LaterStays DEF Over
<1>2. status'[c] # status[c] => status'[c] # "expanding"
  BY StatusStep DEF Changed, Over
<1> QED BY <1>1, <1>2 DEF Over

\* Only a refresh that is given up dooms searches, and those that are EXPANDING.
LEMMA DoomedChange ==
    ASSUME TypeOK, [Next]_vars
    PROVE  doomed' = doomed \/ doomed' = {} \/ doomed' = {c \in Search : status[c] = "expanding"}
<1> USE DEF records, asking, index, procs, user, history
<1>1. CASE RefreshDies
  BY <1>1 DEF RefreshDies
<1>2. CASE FailExpanding
  BY <1>2 DEF FailExpanding
<1>3. ASSUME NEW d \in Search,
             \/ Create(d) \/ Match(d) \/ Enqueue(d) \/ Finish(d) \/ RequestLost(d)
             \/ StartPause(d) \/ StartResume(d) \/ Delete(d)
      PROVE  UNCHANGED doomed
  BY <1>3 DEF Create, Match, Enqueue, Finish, RequestLost, StartPause, StartResume, Delete
<1>4. ASSUME NEW w \in Worker,
             \/ Evaluate(w) \/ Save(w) \/ Deliver(w) \/ Settle(w) \/ Write(w) \/ Complete(w)
             \/ Miss(w) \/ Collapse(w) \/ FailCampaign(w) \/ Crash(w)
      PROVE  UNCHANGED doomed
  BY <1>4 DEF Evaluate, Save, Deliver, Settle, Write, Complete, Miss, Collapse, FailCampaign, Crash
<1>5. ASSUME NEW w \in Worker,
             \/ \E d \in Search : Claim(w, d)
             \/ \E exhausted \in BOOLEAN : Fail(w, exhausted) \/ Refuse(w, exhausted)
             \/ \E d \in Search, exhausted \in BOOLEAN : Recover(w, d, exhausted)
      PROVE  UNCHANGED doomed
  BY <1>5 DEF Claim, Fail, Refuse, Recover
<1>6. CASE EndEdit \/ UNCHANGED vars \/ \E b \in Business : EvidenceChanges(b)
  BY <1>6 DEF EndEdit, vars, EvidenceChanges
<1>7. ASSUME NEW w \in Worker, Work(w)
      PROVE  UNCHANGED doomed
  BY <1>4, <1>5, <1>7 DEF Handle, Work
<1> QED BY <1>1, <1>2, <1>3, <1>6, <1>7 DEF Next, Ask, Work

\* The refresh that was given up has seen searches whose requests were over.
LEMMA DoomedStep ==
    ASSUME TypeOK, RequestOpen, DoomedLater, [Next]_vars
    PROVE  DoomedLater'
<1> SUFFICES ASSUME NEW c \in doomed'
             PROVE  request'[c] = "none" /\ status'[c] # "none"
  BY DEF DoomedLater
<1>1. c \in Search /\ (c \in doomed \/ status[c] = "expanding")
  BY DoomedChange DEF TypeOK
<1>2. request[c] = "none" /\ status[c] # "none"
  BY <1>1 DEF DoomedLater, RequestOpen
<1> QED BY <1>1, <1>2, LaterStays

(***************************************************************************)
(* What a step does to a worker.                                           *)
(***************************************************************************)

\* How the place and the search of a worker change.
LEMMA WorkerStep ==
    ASSUME TypeOK, LoadedLater, [Next]_vars, NEW w \in Worker
    PROVE  \/ pc'[w] = pc[w] /\ at'[w] = at[w] /\ loaded'[w] = loaded[w]
           \/ pc'[w] \in {"idle", "evaluate", "save", "mourn"} /\ loaded'[w] # "expanding"
           \/ Deliver(w) /\ pc'[w] = "settle" /\ at'[w] = at[w] /\ loaded'[w] = status[at[w]]
           \/ Settle(w) /\ pc'[w] \in {"write", "finish"} /\ at'[w] = at[w] /\ loaded'[w] = "none"
           \/ Write(w) /\ pc'[w] = "finish" /\ at'[w] = at[w] /\ loaded'[w] = loaded[w]
<1> DEFINE Frame == pc'[w] = pc[w] /\ at'[w] = at[w] /\ loaded'[w] = loaded[w]
           Back == pc'[w] \in {"idle", "evaluate", "save", "mourn"} /\ loaded'[w] # "expanding"
<1> USE DEF records, asking, index, procs, user, history
<1>1. ASSUME NEW v \in Worker, Ended(v)
      PROVE  Frame \/ Back
  BY <1>1 DEF Ended, TypeOK
<1>2. ASSUME NEW v \in Worker, NEW c \in Search, NEW exhausted \in BOOLEAN, GiveUp(v, c, exhausted)
      PROVE  Frame \/ Back
  BY <1>2 DEF GiveUp, TypeOK
<1>3. ASSUME NEW v \in Worker, Complete(v) \/ Collapse(v) \/ FailCampaign(v) \/ Crash(v)
      PROVE  Ended(v)
  BY <1>3 DEF Complete, Collapse, FailCampaign, Crash
<1>4. ASSUME NEW v \in Worker, Miss(v) \/ \E exhausted \in BOOLEAN : Fail(v, exhausted) \/ Refuse(v, exhausted)
      PROVE  Frame \/ Back
  <2>1. at[v] \in Search
    BY <1>4 DEF Miss, Lost, Fail, Refuse, TypeOK
  <2>2. \E exhausted \in BOOLEAN : GiveUp(v, at[v], exhausted)
    BY <1>4 DEF Miss, Fail, Refuse
  <2> QED BY <1>2, <2>1, <2>2
<1>5. ASSUME NEW v \in Worker, NEW c \in Search, NEW exhausted \in BOOLEAN, Recover(v, c, exhausted)
      PROVE  Frame \/ Back
  <2>1. GiveUp(v, c, exhausted)
    BY <1>5 DEF Recover
  <2> QED BY <1>2, <2>1
<1>6. ASSUME NEW v \in Worker, Evaluate(v) \/ \E c \in Search : Claim(v, c)
      PROVE  Frame \/ Back
  BY <1>6 DEF Claim, Evaluate, TypeOK, LoadedLater
<1>7. ASSUME NEW v \in Worker, Save(v)
      PROVE  Frame
  BY <1>7 DEF Save
<1>8. ASSUME NEW v \in Worker, v # w, Deliver(v) \/ Settle(v) \/ Write(v)
      PROVE  Frame
  BY <1>8 DEF Deliver, Settle, Write, TypeOK
<1>9. CASE Deliver(w)
  BY <1>9 DEF Deliver, TypeOK
<1>10. CASE Settle(w)
  BY <1>10 DEF Settle, TypeOK
<1>14. CASE Write(w)
  BY <1>14 DEF Write, TypeOK
<1>11. ASSUME NEW c \in Search,
              \/ Create(c) \/ Match(c) \/ Enqueue(c) \/ Finish(c) \/ RequestLost(c)
              \/ StartPause(c) \/ StartResume(c) \/ Delete(c)
       PROVE  Frame
  BY <1>11 DEF Create, Match, Enqueue, Finish, RequestLost, StartPause, StartResume, Delete
<1>12. CASE EndEdit \/ RefreshDies \/ FailExpanding \/ UNCHANGED vars \/ \E b \in Business : EvidenceChanges(b)
  BY <1>12 DEF EndEdit, RefreshDies, FailExpanding, vars, EvidenceChanges
<1>13. ASSUME NEW v \in Worker, Work(v)
       PROVE  Frame \/ Back \/ Deliver(w) \/ Settle(w) \/ Write(w)
  <2>1. CASE \E c \in Search, exhausted \in BOOLEAN : Recover(v, c, exhausted)
    BY <1>5, <2>1
  <2>2. CASE Complete(v) \/ Collapse(v) \/ FailCampaign(v) \/ Crash(v)
    BY <1>1, <1>3, <2>2
  <2>3. CASE Miss(v) \/ \E exhausted \in BOOLEAN : Fail(v, exhausted) \/ Refuse(v, exhausted)
    BY <1>4, <2>3
  <2>4. CASE Evaluate(v) \/ \E c \in Search : Claim(v, c)
    BY <1>6, <2>4
  <2>5. CASE Save(v) \/ Deliver(v) \/ Settle(v) \/ Write(v)
    BY <1>7, <1>8, <2>5
  <2> QED BY <1>13, <2>1, <2>2, <2>3, <2>4, <2>5 DEF Handle, Work
<1> QED BY <1>9, <1>10, <1>11, <1>12, <1>13, <1>14 DEF Next, Ask, Work

\* Who has loaded a search as EXPANDING goes on to come after its request.
LEMMA LoadedStep ==
    ASSUME TypeOK, RequestOpen, LoadedLater, [Next]_vars
    PROVE  LoadedLater'
<1> SUFFICES ASSUME NEW w \in Worker
             PROVE  /\ loaded'[w] = "expanding" => pc'[w] = "settle"
                    /\ pc'[w] = "write" \/ (pc'[w] = "settle" /\ loaded'[w] = "expanding") =>
                          request'[at'[w]] = "none" /\ status'[at'[w]] # "none"
  BY DEF LoadedLater, Completing
<1>1. CASE pc'[w] = pc[w] /\ at'[w] = at[w] /\ loaded'[w] = loaded[w]
  <2>1. loaded'[w] = "expanding" => pc'[w] = "settle"
    BY <1>1 DEF LoadedLater
  <2>2. ASSUME pc'[w] = "write" \/ (pc'[w] = "settle" /\ loaded'[w] = "expanding")
        PROVE  request'[at'[w]] = "none" /\ status'[at'[w]] # "none"
    <3>1. request[at[w]] = "none" /\ status[at[w]] # "none" /\ at[w] \in Search
      BY <1>1, <2>2 DEF LoadedLater, Completing, TypeOK
    <3> QED BY <1>1, <3>1, LaterStays
  <2> QED BY <2>1, <2>2
<1>2. CASE Deliver(w) /\ pc'[w] = "settle" /\ at'[w] = at[w] /\ loaded'[w] = status[at[w]]
  <2>1. at[w] \in Search
    BY <1>2 DEF Deliver, TypeOK
  <2>2. ASSUME loaded'[w] = "expanding"
        PROVE  request'[at'[w]] = "none" /\ status'[at'[w]] # "none"
    <3>1. request[at[w]] = "none" /\ status[at[w]] # "none"
      BY <1>2, <2>1, <2>2 DEF RequestOpen
    <3> QED BY <1>2, <2>1, <3>1, LaterStays
  <2> QED BY <1>2, <2>2
<1>3. CASE Settle(w) /\ pc'[w] \in {"write", "finish"} /\ at'[w] = at[w] /\ loaded'[w] = "none"
  <2>1. ASSUME pc'[w] = "write"
        PROVE  request'[at'[w]] = "none" /\ status'[at'[w]] # "none"
    <3>1. at[w] \in Search /\ pc[w] = "settle" /\ loaded[w] = "expanding"
      BY <1>3, <2>1 DEF Settle, TypeOK
    <3>2. request[at[w]] = "none" /\ status[at[w]] # "none"
      BY <3>1 DEF LoadedLater, Completing
    <3> QED BY <1>3, <3>1, <3>2, LaterStays
  <2> QED BY <1>3, <2>1
<1>4. CASE Write(w) /\ pc'[w] = "finish" /\ at'[w] = at[w] /\ loaded'[w] = loaded[w]
  <2>1. pc[w] = "write"
    BY <1>4 DEF Write
  <2>2. loaded[w] # "expanding"
    BY <2>1 DEF LoadedLater
  <2> QED BY <1>4, <2>2
<1>5. CASE pc'[w] \in {"idle", "evaluate", "save", "mourn"} /\ loaded'[w] # "expanding"
  BY <1>5
<1> QED BY <1>1, <1>2, <1>3, <1>4, <1>5, WorkerStep

\* Nobody forgets that a batch ended early or was orphaned.
LEMMA HistoryGrows ==
    ASSUME TypeOK, [Next]_vars
    PROVE  early \subseteq early' /\ orphaned \subseteq orphaned' /\ drifted \subseteq drifted'
<1> USE DEF records, asking, index, procs, user, history
<1>1. ASSUME NEW c \in Search,
             \/ Create(c) \/ Match(c) \/ Enqueue(c) \/ Finish(c) \/ RequestLost(c)
             \/ StartPause(c) \/ StartResume(c) \/ Delete(c)
      PROVE  UNCHANGED history
  BY <1>1 DEF Create, Match, Enqueue, Finish, RequestLost, StartPause, StartResume, Delete
<1>2. CASE EndEdit \/ RefreshDies \/ FailExpanding \/ UNCHANGED vars \/ \E b \in Business : EvidenceChanges(b)
  BY <1>2 DEF EndEdit, RefreshDies, FailExpanding, vars, EvidenceChanges
<1>3. ASSUME NEW w \in Worker,
             \/ Evaluate(w) \/ Save(w) \/ Deliver(w) \/ Settle(w) \/ Write(w) \/ Complete(w)
             \/ Miss(w) \/ Collapse(w) \/ FailCampaign(w) \/ Crash(w)
      PROVE  early \subseteq early' /\ orphaned \subseteq orphaned' /\ drifted \subseteq drifted'
  BY <1>3 DEF Evaluate, Save, Deliver, Settle, Write, Complete, Miss, Collapse, FailCampaign, Crash
<1>4. ASSUME NEW w \in Worker,
             \/ \E c \in Search : Claim(w, c)
             \/ \E exhausted \in BOOLEAN : Fail(w, exhausted) \/ Refuse(w, exhausted)
             \/ \E c \in Search, exhausted \in BOOLEAN : Recover(w, c, exhausted)
      PROVE  UNCHANGED history
  BY <1>4 DEF Claim, Fail, Refuse, Recover
<1>5. ASSUME NEW w \in Worker, Work(w)
      PROVE  early \subseteq early' /\ orphaned \subseteq orphaned' /\ drifted \subseteq drifted'
  BY <1>3, <1>4, <1>5 DEF Handle, Work
<1> QED BY <1>1, <1>2, <1>5 DEF Next, Ask, Work

\* Who has settled a search has ended it, or has missed it.
LEMMA FinishedStep ==
    ASSUME TypeOK, RequestOpen, LoadedLater, FinishedFor, [Next]_vars
    PROVE  FinishedFor'
<1> SUFFICES ASSUME NEW w \in Worker, pc'[w] = "finish"
             PROVE  \/ request'[at'[w]] = "none" /\ status'[at'[w]] \notin {"none", "expanding"}
                    \/ at'[w] \in early'
  BY DEF FinishedFor, Over
<1>1. CASE pc'[w] = pc[w] /\ at'[w] = at[w] /\ loaded'[w] = loaded[w]
  <2>1. at[w] \in Search /\ (Over(at[w]) \/ at[w] \in early)
    BY <1>1 DEF FinishedFor, TypeOK
  <2>2. Over(at[w]) => request'[at[w]] = "none" /\ status'[at[w]] \notin {"none", "expanding"}
    BY <2>1, OverStays
  <2>3. at[w] \in early => at[w] \in early'
    BY HistoryGrows
  <2> QED BY <1>1, <2>1, <2>2, <2>3
<1>2. CASE Settle(w) /\ at'[w] = at[w]
  BY <1>2 DEF Settle, TypeOK
<1>3. CASE Write(w) /\ at'[w] = at[w]
  <2>1. at[w] \in Search /\ pc[w] = "write"
    BY <1>3 DEF Write, TypeOK
  <2>2. request[at[w]] = "none" /\ status[at[w]] # "none"
    BY <2>1 DEF LoadedLater, Completing
  <2>3. request'[at[w]] = "none"
    BY <2>1, <2>2, LaterStays
  <2>4. status'[at[w]] = "completed"
    BY <1>3, <2>1 DEF Write, TypeOK
  <2> QED BY <1>3, <2>3, <2>4
<1> QED BY <1>1, <1>2, <1>3, WorkerStep

(***************************************************************************)
(* Expanding searches are served.                                          *)
(***************************************************************************)

\* Who is served stays served as long as it is awaited.
LEMMA ServedStep ==
    ASSUME TypeOK, RequestOpen, LoadedLater, FinishedFor, [Next]_vars,
           NEW c \in Search, Served(c), Awaited(c)'
    PROVE  Served(c)'
<1> USE DEF records, asking, index, procs, user, history
<1>1. ASSUME c \in early \cup orphaned
      PROVE  Served(c)'
  BY <1>1, HistoryGrows DEF Served
<1>2. ASSUME UNCHANGED <<batch, pc, at>>
      PROVE  Served(c)'
  BY <1>1, <1>2 DEF Served
<1>3. ASSUME NEW d \in Search,
             \/ Create(d) \/ Match(d) \/ Finish(d) \/ RequestLost(d)
             \/ StartPause(d) \/ StartResume(d)
      PROVE  UNCHANGED <<batch, pc, at>>
  BY <1>3 DEF Create, Match, Finish, RequestLost, StartPause, StartResume
<1>4. CASE EndEdit \/ RefreshDies \/ FailExpanding \/ UNCHANGED vars \/ \E b \in Business : EvidenceChanges(b)
  <2>1. UNCHANGED <<batch, pc, at>>
    BY <1>4 DEF EndEdit, RefreshDies, FailExpanding, vars, EvidenceChanges
  <2> QED BY <1>2, <2>1
<1>5. ASSUME NEW d \in Search, Enqueue(d)
      PROVE  Served(c)'
  <2>1. UNCHANGED <<pc, at>> /\ batch' = [batch EXCEPT ![d] = "queued"]
    BY <1>5 DEF Enqueue
  <2> QED BY <1>1, <2>1 DEF Served, TypeOK
<1>6. ASSUME NEW d \in Search, Delete(d)
      PROVE  Served(c)'
  <2>1. UNCHANGED <<pc, at>> /\ batch' = [batch EXCEPT ![d] = "none"] /\ status'[d] = "deleted"
    BY <1>6 DEF Delete, TypeOK
  <2>2. c # d
    BY <2>1 DEF Awaited
  <2> QED BY <1>1, <2>1, <2>2 DEF Served, TypeOK
<1>7. ASSUME NEW w \in Worker, NEW d \in Search, Claim(w, d)
      PROVE  Served(c)'
  <2>1. /\ batch' = [batch EXCEPT ![d] = "running"] /\ pc[w] = "idle"
        /\ \A v \in Worker : v # w => pc'[v] = pc[v] /\ at'[v] = at[v]
    BY <1>7 DEF Claim, TypeOK
  <2> QED BY <1>1, <2>1 DEF Served, TypeOK
<1>8. ASSUME NEW w \in Worker, Evaluate(w) \/ Save(w) \/ Deliver(w) \/ Settle(w) \/ Write(w)
      PROVE  Served(c)'
  <2>1. /\ UNCHANGED batch /\ pc[w] # "mourn"
        /\ \A v \in Worker : v # w => pc'[v] = pc[v] /\ at'[v] = at[v]
    BY <1>8 DEF Evaluate, Save, Deliver, Settle, Write, TypeOK
  <2> QED BY <1>1, <2>1 DEF Served
<1>9. ASSUME NEW w \in Worker, Ended(w)
      PROVE  \A v \in Worker : v # w => pc'[v] = pc[v] /\ at'[v] = at[v]
  BY <1>9 DEF Ended, TypeOK
<1>10. ASSUME NEW w \in Worker, Complete(w)
       PROVE  Served(c)'
  <2>1. /\ pc[w] = "finish" /\ Ended(w)
        /\ \A d \in Search : d # at[w] => batch'[d] = batch[d]
    BY <1>10 DEF Complete, TypeOK
  <2>2. CASE c # at[w]
    BY <1>1, <1>9, <2>1, <2>2 DEF Served
  <2>3. CASE c = at[w]
    <3>1. Over(c) \/ c \in early
      BY <2>1, <2>3 DEF FinishedFor
    <3>2. ~Over(c)
      BY OverStays DEF Awaited
    <3> QED BY <1>1, <3>1, <3>2
  <2> QED BY <2>2, <2>3
<1>11. ASSUME NEW w \in Worker, Collapse(w)
       PROVE  Served(c)'
  <2>1. UNCHANGED batch /\ Ended(w) /\ pc[w] # "mourn"
    BY <1>11 DEF Collapse, Lost
  <2> QED BY <1>1, <1>9, <2>1 DEF Served
<1>12. ASSUME NEW w \in Worker, FailCampaign(w)
       PROVE  Served(c)'
  <2>1. /\ UNCHANGED <<batch, request>> /\ Ended(w)
        /\ at[w] \in early' \/ (status[at[w]] = "expanding" /\ status' = [status EXCEPT ![at[w]] = "failed"])
    BY <1>12 DEF FailCampaign
  <2>2. CASE c # at[w]
    BY <1>1, <1>9, <2>1, <2>2 DEF Served
  <2>3. CASE c = at[w] /\ c \in early'
    BY <2>3 DEF Served
  <2>4. CASE c = at[w] /\ status[c] = "expanding" /\ status' = [status EXCEPT ![c] = "failed"]
    <3>1. request[c] = "none"
      BY <2>4 DEF RequestOpen
    <3> QED BY <2>1, <2>4, <3>1 DEF Awaited, TypeOK
  <2> QED BY <2>1, <2>2, <2>3, <2>4
<1>13. ASSUME NEW w \in Worker, Crash(w)
       PROVE  Served(c)'
  <2>1. UNCHANGED batch /\ Ended(w) /\ (pc[w] = "mourn" => at[w] \in orphaned')
    BY <1>13 DEF Crash
  <2>2. CASE pc[w] = "mourn" /\ at[w] = c
    BY <2>1, <2>2 DEF Served
  <2>3. CASE ~(pc[w] = "mourn" /\ at[w] = c)
    BY <1>1, <1>9, <2>1, <2>3 DEF Served
  <2> QED BY <2>2, <2>3
<1>14. ASSUME NEW w \in Worker, NEW d \in Search, NEW exhausted \in BOOLEAN,
              GiveUp(w, d, exhausted), pc[w] # "mourn"
       PROVE  Served(c)'
  <2>1. /\ \A v \in Worker : v # w => pc'[v] = pc[v] /\ at'[v] = at[v]
        /\ \A e \in Search : e # d => batch'[e] = batch[e]
        /\ batch'[d] = "queued" \/ (pc'[w] = "mourn" /\ at'[w] = d)
    BY <1>14 DEF GiveUp, TypeOK
  <2>2. CASE c = d
    BY <2>1, <2>2 DEF Served
  <2>3. CASE c # d
    BY <1>1, <1>14, <2>1, <2>3 DEF Served
  <2> QED BY <2>2, <2>3
<1>15. ASSUME NEW w \in Worker, Miss(w) \/ \E exhausted \in BOOLEAN : Fail(w, exhausted) \/ Refuse(w, exhausted)
       PROVE  Served(c)'
  <2>1. at[w] \in Search /\ pc[w] # "mourn"
    BY <1>15 DEF Miss, Lost, Fail, Refuse, TypeOK
  <2>2. \E exhausted \in BOOLEAN : GiveUp(w, at[w], exhausted)
    BY <1>15 DEF Miss, Fail, Refuse
  <2> QED BY <1>14, <2>1, <2>2
<1>16. ASSUME NEW w \in Worker, NEW d \in Search, NEW exhausted \in BOOLEAN, Recover(w, d, exhausted)
       PROVE  Served(c)'
  <2>1. GiveUp(w, d, exhausted) /\ pc[w] # "mourn"
    BY <1>16 DEF Recover
  <2> QED BY <1>14, <2>1
<1>17. ASSUME NEW w \in Worker, Work(w)
       PROVE  Served(c)'
  <2>1. CASE \E d \in Search, exhausted \in BOOLEAN : Recover(w, d, exhausted)
    BY <1>16, <2>1
  <2>2. CASE \E d \in Search : Claim(w, d)
    BY <1>7, <2>2
  <2>3. CASE Miss(w) \/ (\E exhausted \in BOOLEAN : Fail(w, exhausted) \/ Refuse(w, exhausted)) \/ Crash(w)
    BY <1>13, <1>15, <2>3
  <2>4. CASE \/ Evaluate(w) \/ Save(w) \/ Deliver(w) \/ Settle(w) \/ Write(w)
             \/ Complete(w) \/ FailCampaign(w) \/ Collapse(w)
    BY <1>8, <1>10, <1>11, <1>12, <2>4
  <2> QED BY <1>17, <2>1, <2>2, <2>3, <2>4 DEF Handle, Work
<1> QED BY <1>2, <1>3, <1>4, <1>5, <1>6, <1>17 DEF Next, Ask, Work

\* A search that comes to be awaited has its batch.
LEMMA AwaitedStep ==
    ASSUME TypeOK, RequestOpen, LoadedLater, FinishedFor, AwaitedIsServed, [Next]_vars
    PROVE  AwaitedIsServed'
<1> SUFFICES ASSUME NEW c \in Search, Awaited(c)'
             PROVE  Served(c)'
  BY DEF AwaitedIsServed
<1>1. CASE Awaited(c)
  BY <1>1, ServedStep DEF AwaitedIsServed
<1>2. CASE ~Awaited(c)
  <2>1. status'[c] # "expanding"
    BY <1>2, StatusStep DEF Changed, Awaited
  <2>2. request'[c] = "expand" /\ status'[c] # "deleted"
    BY <2>1 DEF Awaited
  <2>3. CASE request[c] = "expand"
    <3>1. status[c] = "deleted"
      BY <1>2, <2>3 DEF Awaited
    <3> QED BY <2>2, <3>1, StatusStep DEF Changed
  <2>4. CASE request[c] # "expand"
    <3>1. batch'[c] = "queued"
      BY <2>2, <2>4, RequestStep
    <3> QED BY <3>1 DEF Served
  <2> QED BY <2>3, <2>4
<1> QED BY <1>1, <1>2

(***************************************************************************)
(* Evaluations are of the evidence they are stored for.                    *)
(***************************************************************************)

\* Who changes what is known, shown and stored.
LEMMA IndexStep ==
    ASSUME TypeOK, [Next]_vars
    PROVE  \/ \E b \in Business : EvidenceChanges(b)
           \/ \E w \in Worker : Evaluate(w) \/ Save(w)
           \/ /\ UNCHANGED <<evidence, verdict, basis, drifted>>
              /\ \A v \in Worker : shown'[v] = shown[v] \/ shown'[v] = Nothing
<1> DEFINE Quiet == /\ UNCHANGED <<evidence, verdict, basis, drifted>>
                    /\ \A v \in Worker : shown'[v] = shown[v] \/ shown'[v] = Nothing
<1> USE DEF records, asking, index, procs, user, history
<1>1. ASSUME NEW c \in Search,
             \/ Create(c) \/ Match(c) \/ Enqueue(c) \/ Finish(c) \/ RequestLost(c)
             \/ StartPause(c) \/ StartResume(c) \/ Delete(c)
      PROVE  Quiet
  BY <1>1 DEF Create, Match, Enqueue, Finish, RequestLost, StartPause, StartResume, Delete
<1>2. CASE EndEdit \/ RefreshDies \/ FailExpanding \/ UNCHANGED vars
  BY <1>2 DEF EndEdit, RefreshDies, FailExpanding, vars
<1>3. ASSUME NEW w \in Worker, Deliver(w) \/ Settle(w) \/ Write(w) \/ \E c \in Search : Claim(w, c)
      PROVE  Quiet
  BY <1>3 DEF Deliver, Settle, Write, Claim
<1>4. ASSUME NEW w \in Worker, Complete(w) \/ Collapse(w) \/ FailCampaign(w) \/ Crash(w)
      PROVE  Quiet
  <2>1. Ended(w) /\ UNCHANGED <<evidence, verdict, basis, drifted>>
    BY <1>4 DEF Complete, Collapse, FailCampaign, Crash
  <2> QED BY <2>1 DEF Ended, TypeOK
<1>5. ASSUME NEW w \in Worker,
             \/ Miss(w)
             \/ \E exhausted \in BOOLEAN : Fail(w, exhausted) \/ Refuse(w, exhausted)
             \/ \E c \in Search, exhausted \in BOOLEAN : Recover(w, c, exhausted)
      PROVE  Quiet
  <2>1. UNCHANGED <<evidence, verdict, basis, drifted>> /\ shown' = [shown EXCEPT ![w] = Nothing]
    BY <1>5 DEF Miss, Fail, Refuse, Recover, GiveUp
  <2> QED BY <2>1 DEF TypeOK
<1>6. ASSUME NEW w \in Worker, Work(w)
      PROVE  Quiet \/ Evaluate(w) \/ Save(w)
  BY <1>3, <1>4, <1>5, <1>6 DEF Handle, Work
<1> QED BY <1>1, <1>2, <1>6 DEF Next, Ask, Work

\* Evidence that changes while the model is asked is noted.
LEMMA ShownStep ==
    ASSUME TypeOK, ShownIsCurrent, [Next]_vars
    PROVE  ShownIsCurrent'
<1> SUFFICES ASSUME NEW w \in Worker, NEW b \in Business, shown'[w][b] # NoEvidence
             PROVE  shown'[w][b] = evidence'[b] \/ b \in drifted'
  BY DEF ShownIsCurrent
<1> USE DEF records, asking, index, procs, user, history
<1>1. ASSUME NEW d \in Business, EvidenceChanges(d)
      PROVE  shown'[w][b] = evidence'[b] \/ b \in drifted'
  <2>1. /\ shown' = shown /\ drifted \subseteq drifted'
        /\ \E e \in Evidence : evidence' = [evidence EXCEPT ![d] = e]
        /\ b \in Todo(w) /\ d = b => b \in drifted'
    BY <1>1 DEF EvidenceChanges
  <2>2. b \in Todo(w)
    BY <2>1 DEF Todo
  <2>3. CASE d # b
    <3>1. evidence'[b] = evidence[b]
      BY <2>1, <2>3 DEF TypeOK
    <3> QED BY <2>1, <3>1 DEF ShownIsCurrent
  <2> QED BY <2>1, <2>2, <2>3
<1>2. ASSUME NEW v \in Worker, Evaluate(v)
      PROVE  shown'[w][b] = evidence'[b] \/ b \in drifted'
  <2>1. /\ evidence' = evidence /\ drifted' = drifted
        /\ shown' = [shown EXCEPT ![v] =
                        [d \in Business |-> IF d \in ids[at[v]] THEN evidence[d] ELSE NoEvidence]]
    BY <1>2 DEF Evaluate
  <2>2. CASE v = w
    BY <2>1, <2>2 DEF TypeOK
  <2>3. CASE v # w
    BY <2>1, <2>3 DEF TypeOK, ShownIsCurrent
  <2> QED BY <2>2, <2>3
<1>3. ASSUME NEW v \in Worker, Save(v)
      PROVE  shown'[w][b] = evidence'[b] \/ b \in drifted'
  <2>1. /\ evidence' = evidence /\ drifted' = drifted
        /\ \E d \in Business : shown' = [shown EXCEPT ![v][d] = NoEvidence]
    BY <1>3 DEF Save, Todo
  <2>2. shown'[w][b] = shown[w][b]
    BY <2>1 DEF TypeOK
  <2> QED BY <2>1, <2>2 DEF ShownIsCurrent
<1>4. CASE UNCHANGED <<evidence, drifted>> /\ (shown'[w] = shown[w] \/ shown'[w] = Nothing)
  BY <1>4 DEF ShownIsCurrent, Nothing
<1> QED BY <1>1, <1>2, <1>3, <1>4, IndexStep

\* What is stored is of the evidence it is stored for.
LEMMA StoredStep ==
    ASSUME TypeOK, ShownIsCurrent, StoredFits, [Next]_vars
    PROVE  StoredFits'
<1> SUFFICES ASSUME NEW b \in Business, NEW v \in Evidence, verdict'[b][v] # "none"
             PROVE  basis'[b][v] = v \/ b \in drifted'
  BY DEF StoredFits
<1> USE DEF records, asking, index, procs, user, history
<1>1. CASE UNCHANGED <<verdict, basis>>
  BY <1>1, HistoryGrows DEF StoredFits
<1>2. ASSUME NEW d \in Business, EvidenceChanges(d)
      PROVE  UNCHANGED <<verdict, basis>>
  BY <1>2 DEF EvidenceChanges
<1>3. ASSUME NEW w \in Worker, Evaluate(w)
      PROVE  UNCHANGED <<verdict, basis>>
  BY <1>3 DEF Evaluate
<1>4. ASSUME NEW w \in Worker, Save(w)
      PROVE  basis'[b][v] = v \/ b \in drifted'
  <2>1. PICK d \in Todo(w), j \in Judgement :
           /\ verdict' = [verdict EXCEPT ![d][evidence[d]] = j]
           /\ basis' = [basis EXCEPT ![d][evidence[d]] = shown[w][d]]
    BY <1>4 DEF Save
  <2>2. d \in Business /\ shown[w][d] # NoEvidence /\ evidence[d] \in Evidence
    BY DEF Todo, TypeOK
  <2>3. CASE d = b /\ v = evidence[b]
    <3>1. basis'[b][v] = shown[w][b]
      BY <2>1, <2>2, <2>3 DEF TypeOK
    <3>2. shown[w][b] = evidence[b] \/ b \in drifted
      BY <2>2, <2>3 DEF ShownIsCurrent
    <3> QED BY <2>3, <3>1, <3>2, HistoryGrows
  <2>4. CASE ~(d = b /\ v = evidence[b])
    <3>1. verdict'[b][v] = verdict[b][v] /\ basis'[b][v] = basis[b][v]
      BY <2>1, <2>2, <2>4 DEF TypeOK
    <3> QED BY <3>1, HistoryGrows DEF StoredFits
  <2> QED BY <2>3, <2>4
<1> QED BY <1>1, <1>2, <1>3, <1>4, IndexStep

(***************************************************************************)
(* The user's request.                                                     *)
(***************************************************************************)

\* Pauses and resumes begin with searches that have not ended.
LEMMA GlimpseStep ==
    ASSUME TypeOK, GlimpseOpen, [Next]_vars
    PROVE  GlimpseOpen'
<1> USE DEF records, asking, index, procs, user, history
<1>1. ASSUME NEW c \in Search, StartPause(c) \/ StartResume(c)
      PROVE  glimpse' \notin Final
  BY <1>1 DEF StartPause, StartResume, Final
<1>2. CASE EndEdit
  BY <1>2 DEF EndEdit, GlimpseOpen
<1>3. ASSUME NEW c \in Search,
             \/ Create(c) \/ Match(c) \/ Enqueue(c) \/ Finish(c) \/ RequestLost(c) \/ Delete(c)
      PROVE  UNCHANGED <<desk, glimpse>>
  BY <1>3 DEF Create, Match, Enqueue, Finish, RequestLost, Delete
<1>4. ASSUME NEW w \in Worker,
             \/ Evaluate(w) \/ Save(w) \/ Deliver(w) \/ Settle(w) \/ Write(w) \/ Complete(w)
             \/ Miss(w) \/ Collapse(w) \/ FailCampaign(w) \/ Crash(w)
      PROVE  UNCHANGED <<desk, glimpse>>
  BY <1>4 DEF Evaluate, Save, Deliver, Settle, Write, Complete, Miss, Collapse, FailCampaign, Crash
<1>5. ASSUME NEW w \in Worker,
             \/ \E c \in Search : Claim(w, c)
             \/ \E exhausted \in BOOLEAN : Fail(w, exhausted) \/ Refuse(w, exhausted)
             \/ \E c \in Search, exhausted \in BOOLEAN : Recover(w, c, exhausted)
      PROVE  UNCHANGED <<desk, glimpse>>
  BY <1>5 DEF Claim, Fail, Refuse, Recover
<1>6. ASSUME NEW w \in Worker, Work(w)
      PROVE  UNCHANGED <<desk, glimpse>>
  BY <1>4, <1>5, <1>6 DEF Handle, Work
<1>7. ASSUME RefreshDies \/ FailExpanding \/ UNCHANGED vars \/ \E b \in Business : EvidenceChanges(b)
      PROVE  UNCHANGED <<desk, glimpse>>
  BY <1>7 DEF RefreshDies, FailExpanding, vars, EvidenceChanges
<1>8. UNCHANGED <<desk, glimpse>> => GlimpseOpen'
  BY DEF GlimpseOpen
<1> QED BY <1>1, <1>2, <1>3, <1>6, <1>7, <1>8 DEF Next, Ask, Work, GlimpseOpen

(***************************************************************************)
(* The invariant, and what follows of it.                                  *)
(***************************************************************************)

\* It holds at first,
LEMMA InitInvariant ==
    ASSUME Init
    PROVE  IInv
<1>1. RequestOpen /\ LoadedLater /\ DoomedLater /\ FinishedFor /\ AwaitedIsServed /\ GlimpseOpen
  BY DEF Init, RequestOpen, LoadedLater, DoomedLater, FinishedFor, AwaitedIsServed, Awaited, GlimpseOpen,
         Completing
<1>2. ShownIsCurrent /\ StoredFits
  BY DEF Init, ShownIsCurrent, StoredFits, Nothing
<1> QED BY <1>1, <1>2, InitType DEF IInv

\* and every step keeps it.
LEMMA StepInvariant ==
    ASSUME IInv, [Next]_vars
    PROVE  IInv'
<1>1. TypeOK'
  BY TypeStep DEF IInv
<1>2. RequestOpen' /\ LoadedLater' /\ DoomedLater' /\ FinishedFor'
  BY RequestOpenStep, LoadedStep, DoomedStep, FinishedStep DEF IInv
<1>3. AwaitedIsServed'
  BY AwaitedStep DEF IInv
<1>4. ShownIsCurrent' /\ StoredFits' /\ GlimpseOpen'
  BY ShownStep, StoredStep, GlimpseStep DEF IInv
<1> QED BY <1>1, <1>2, <1>3, <1>4 DEF IInv

\* The strengthening is an invariant.
THEOREM Invariance == Spec => []IInv
<1>1. Init => IInv
  BY InitInvariant
<1>2. IInv /\ [Next]_vars => IInv'
  BY StepInvariant
<1> QED BY <1>1, <1>2, PTL DEF Spec

\* Every variable keeps its type.
THEOREM TypeCorrect == Spec => []TypeOK
<1>1. IInv => TypeOK
  BY DEF IInv
<1> QED BY <1>1, Invariance, PTL

\* An EXPANDING search has a batch that will end it, or a process about to fail it,
\* unless its batch ended before it was EXPANDING or was given up by a process that
\* died (source_requests/service.py, job_queue/worker.py).
THEOREM ExpandingIsServedHolds == Spec => []ExpandingIsServed
<1>1. IInv => ExpandingIsServed
  BY DEF IInv, AwaitedIsServed, Awaited, Served, ExpandingIsServed
<1> QED BY <1>1, Invariance, PTL

\* An evaluation that counts as current was made of the evidence that is current,
\* unless that came while the model was asked (search_evaluations/service.py).
THEOREM VerdictFitsEvidenceHolds == Spec => []VerdictFitsEvidence
<1>1. IInv => VerdictFitsEvidence
  BY DEF IInv, TypeOK, StoredFits, VerdictFitsEvidence, Current
<1> QED BY <1>1, Invariance, PTL

\* A search that has ended is reopened or ended otherwise by nobody but who read it
\* before it had (campaigns/service.py, source_requests/service.py).
THEOREM FinalIsFinalHolds == Spec => FinalIsFinal
<1> DEFINE Stands(c) ==
        status[c] \in Final /\ status'[c] # status[c] =>
          \/ status'[c] = "deleted"
          \/ desk[2] = c /\ glimpse \notin Final
          \/ c \in doomed
          \/ \E w \in Worker : at[w] = c /\ pc[w] = "write"
<1>1. ASSUME IInv, [Next]_vars, NEW c \in Search
      PROVE  Stands(c)
  <2> SUFFICES ASSUME status[c] \in Final, status'[c] # status[c]
               PROVE  \/ status'[c] = "deleted"
                      \/ desk[2] = c /\ glimpse \notin Final
                      \/ c \in doomed
                      \/ \E w \in Worker : at[w] = c /\ pc[w] = "write"
    OBVIOUS
  <2>1. Changed(c)
    BY <1>1, StatusStep DEF IInv
  <2>2. request[c] = "none"
    BY <1>1 DEF IInv, RequestOpen, Final
  <2>3. desk[1] # "none" => glimpse \notin Final
    BY <1>1 DEF IInv, GlimpseOpen
  <2> QED BY <2>1, <2>2, <2>3 DEF Changed, Final
<1>2. IInv /\ [Next]_vars => [\A c \in Search : Stands(c)]_vars
  BY <1>1
<1>3. [][\A c \in Search : Stands(c)]_vars => FinalIsFinal
  BY DEF FinalIsFinal
<1> QED BY <1>2, <1>3, Invariance, PTL DEF Spec

(***************************************************************************)
(* The batches and the queue's promise about a key.                        *)
(***************************************************************************)

HolderOf(c) == {w \in Worker : at[w] = c /\ pc[w] \in InBatch}

\* A search that has not asked for its batch has none.
Unasked ==
    \A c \in Search :
        status[c] = "none" \/ request[c] \in {"created", "enqueue"} => batch[c] = "none"

\* A batch runs as long as a worker is at it, alone, unless its search was deleted.
OneHolder ==
    \A w \in Worker :
        pc[w] \in InBatch /\ status[at[w]] # "deleted" =>
            batch[at[w]] = "running" /\ HolderOf(at[w]) = {w}

\* What a step does to the batches and to who holds them.
Untouched == batch' = batch /\ \A c \in Search : HolderOf(c)' = HolderOf(c)
Asked(c) ==
    /\ request[c] = "enqueue" /\ request'[c] = "expand"
    /\ batch' = [batch EXCEPT ![c] = "queued"]
    /\ \A d \in Search : HolderOf(d)' = HolderOf(d)
Taken(w, c) ==
    /\ batch[c] = "queued" /\ batch' = [batch EXCEPT ![c] = "running"]
    /\ \A d \in Search : HolderOf(d)' = IF d = c THEN HolderOf(d) \cup {w} ELSE HolderOf(d)
Left(w) ==
    /\ pc[w] \in InBatch
    /\ \E next \in {"none", "queued", "running", "done", "dead"} :
          /\ batch' = [batch EXCEPT ![at[w]] = next]
          /\ batch[at[w]] = "none" => next = "none"
    /\ \A d \in Search : HolderOf(d)' = HolderOf(d) \ {w}
Reclaimed(c) ==
    /\ batch[c] = "running" /\ HolderOf(c) = {}
    /\ \E next \in {"queued", "dead"} : batch' = [batch EXCEPT ![c] = next]
    /\ \A d \in Search : HolderOf(d)' = HolderOf(d)
Withdrawn(c) ==
    /\ status'[c] = "deleted"
    /\ batch' = [batch EXCEPT ![c] = "none"]
    /\ \A d \in Search : HolderOf(d)' = HolderOf(d)

\* A worker that is in no batch, before and after, changes no holders.
LEMMA HoldersStay ==
    ASSUME \A v \in Worker : \/ at'[v] = at[v] /\ (pc'[v] \in InBatch <=> pc[v] \in InBatch)
                             \/ pc[v] \notin InBatch /\ pc'[v] \notin InBatch
    PROVE  \A c \in Search : HolderOf(c)' = HolderOf(c)
BY DEF HolderOf

\* A worker that ends is nobody's holder any more.
LEMMA HolderLeaves ==
    ASSUME TypeOK, NEW w \in Worker, pc'[w] \notin InBatch,
           \A v \in Worker \ {w} : at'[v] = at[v] /\ pc'[v] = pc[v]
    PROVE  \A c \in Search : HolderOf(c)' = HolderOf(c) \ {w}
BY DEF HolderOf

\* Every step does one of these.
LEMMA BatchStep ==
    ASSUME TypeOK, [Next]_vars
    PROVE  \/ Untouched
           \/ \E c \in Search : Asked(c) \/ Reclaimed(c) \/ Withdrawn(c)
           \/ \E w \in Worker : Left(w) \/ \E c \in Search : Taken(w, c)
<1> USE DEF records, asking, index, procs, user, history
<1> DEFINE Outcome ==
           \/ Untouched
           \/ \E c \in Search : Asked(c) \/ Reclaimed(c) \/ Withdrawn(c)
           \/ \E w \in Worker : Left(w) \/ \E c \in Search : Taken(w, c)
<1>1. ASSUME UNCHANGED <<batch, pc, at>>
      PROVE  Outcome
  BY <1>1, HoldersStay DEF Untouched
<1>2. ASSUME NEW c \in Search,
             \/ Create(c) \/ Match(c) \/ Finish(c) \/ RequestLost(c)
             \/ StartPause(c) \/ StartResume(c)
      PROVE  UNCHANGED <<batch, pc, at>>
  BY <1>2 DEF Create, Match, Finish, RequestLost, StartPause, StartResume
<1>3. CASE EndEdit \/ RefreshDies \/ FailExpanding \/ (\E b \in Business : EvidenceChanges(b)) \/ UNCHANGED vars
  <2>1. UNCHANGED <<batch, pc, at>>
    BY <1>3 DEF EndEdit, RefreshDies, FailExpanding, EvidenceChanges, vars
  <2> QED BY <1>1, <2>1
<1>4. ASSUME NEW c \in Search, Enqueue(c)
      PROVE  Outcome
  <2>1. \A d \in Search : HolderOf(d)' = HolderOf(d)
    BY <1>4, HoldersStay DEF Enqueue
  <2>2. Asked(c)
    BY <1>4, <2>1 DEF Enqueue, Asked, TypeOK
  <2> QED BY <2>2
<1>5. ASSUME NEW c \in Search, Delete(c)
      PROVE  Outcome
  <2>1. \A d \in Search : HolderOf(d)' = HolderOf(d)
    BY <1>5, HoldersStay DEF Delete
  <2>2. Withdrawn(c)
    BY <1>5, <2>1 DEF Delete, Withdrawn, TypeOK
  <2> QED BY <2>2
<1>6. ASSUME NEW w \in Worker, Evaluate(w) \/ Save(w) \/ Deliver(w) \/ Settle(w) \/ Write(w)
      PROVE  Outcome
  <2>1. batch' = batch /\ at' = at
    BY <1>6 DEF Evaluate, Save, Deliver, Settle, Write
  <2>2. \A v \in Worker : pc'[v] \in InBatch <=> pc[v] \in InBatch
    BY <1>6 DEF Evaluate, Save, Deliver, Settle, Write, TypeOK, InBatch
  <2> QED BY <2>1, <2>2, HoldersStay DEF Untouched
<1>7. ASSUME NEW w \in Worker, NEW c \in Search, Claim(w, c)
      PROVE  Outcome
  <2>1. \A d \in Search : HolderOf(d)' = IF d = c THEN HolderOf(d) \cup {w} ELSE HolderOf(d)
    BY <1>7 DEF Claim, TypeOK, InBatch, HolderOf
  <2>2. Taken(w, c)
    BY <1>7, <2>1 DEF Claim, Taken
  <2> QED BY <2>2
<1>8. ASSUME NEW w \in Worker, Ended(w) \/ \E c \in Search, e \in BOOLEAN : GiveUp(w, c, e)
      PROVE  /\ pc'[w] \notin InBatch
             /\ \A v \in Worker \ {w} : at'[v] = at[v] /\ pc'[v] = pc[v]
  BY <1>8 DEF Ended, GiveUp, TypeOK, InBatch
<1>9. ASSUME NEW w \in Worker, Complete(w) \/ Miss(w) \/ \E e \in BOOLEAN : Fail(w, e) \/ Refuse(w, e)
      PROVE  Outcome
  <2>1. pc[w] \in InBatch /\ at[w] \in Search
    BY <1>9 DEF Complete, Miss, Lost, Fail, Refuse, TypeOK, InBatch
  <2>2. Ended(w) \/ \E c \in Search, e \in BOOLEAN : GiveUp(w, c, e)
    BY <1>9, <2>1 DEF Complete, Miss, Fail, Refuse
  <2>3. \A d \in Search : HolderOf(d)' = HolderOf(d) \ {w}
    BY <1>8, <2>2, HolderLeaves
  <2>4. \E next \in {"none", "queued", "running", "done", "dead"} :
          /\ batch' = [batch EXCEPT ![at[w]] = next]
          /\ batch[at[w]] = "none" => next = "none"
    BY <1>9, <2>1 DEF Complete, Miss, Fail, Refuse, GiveUp
  <2>5. Left(w)
    BY <2>1, <2>3, <2>4 DEF Left
  <2> QED BY <2>5
<1>10. ASSUME NEW w \in Worker, Collapse(w) \/ Crash(w) \/ FailCampaign(w)
       PROVE  Outcome
  <2>1. batch' = batch /\ Ended(w)
    BY <1>10 DEF Collapse, Crash, FailCampaign
  <2>2. pc'[w] \notin InBatch /\ \A v \in Worker \ {w} : at'[v] = at[v] /\ pc'[v] = pc[v]
    BY <1>8, <2>1
  <2>3. CASE pc[w] \in InBatch
    <3>1. \A d \in Search : HolderOf(d)' = HolderOf(d) \ {w}
      BY <2>2, HolderLeaves
    <3>2. at[w] \in Search /\ batch[at[w]] \in {"none", "queued", "running", "done", "dead"}
      BY <2>3 DEF TypeOK, InBatch
    <3>3. batch' = [batch EXCEPT ![at[w]] = batch[at[w]]]
      BY <2>1 DEF TypeOK
    <3>4. Left(w)
      BY <2>3, <3>1, <3>2, <3>3 DEF Left
    <3> QED BY <3>4
  <2>4. CASE pc[w] \notin InBatch
    BY <2>1, <2>2, <2>4, HoldersStay DEF Untouched
  <2> QED BY <2>3, <2>4
<1>11. ASSUME NEW w \in Worker, NEW c \in Search, NEW e \in BOOLEAN, Recover(w, c, e)
       PROVE  Outcome
  <2>1. pc[w] \notin InBatch /\ batch[c] = "running" /\ HolderOf(c) = {}
    BY <1>11 DEF Recover, Stranded, InBatch, HolderOf
  <2>2. pc'[w] \notin InBatch /\ \A v \in Worker \ {w} : at'[v] = at[v] /\ pc'[v] = pc[v]
    BY <1>8, <1>11 DEF Recover
  <2>3. \A d \in Search : HolderOf(d)' = HolderOf(d)
    BY <2>1, <2>2, HoldersStay
  <2>4. Reclaimed(c)
    BY <1>11, <2>1, <2>3 DEF Recover, GiveUp, Reclaimed
  <2> QED BY <2>4
<1>12. ASSUME NEW w \in Worker, Handle(w)
       PROVE  Outcome
  BY <1>6, <1>7, <1>9, <1>10, <1>12 DEF Handle
<1> QED
  BY <1>1, <1>2, <1>3, <1>4, <1>5, <1>9, <1>10, <1>11, <1>12 DEF Next, Ask, Work

\* A deleted search stays so.
LEMMA DeletedStays ==
    ASSUME TypeOK, [Next]_vars, NEW c \in Search, status[c] = "deleted"
    PROVE  status'[c] = "deleted"
BY StatusStep DEF Changed

\* A request gets to its enqueue from its match.
LEMMA EnqueueAfterMatch ==
    ASSUME TypeOK, [Next]_vars, NEW c \in Search,
           request'[c] = "enqueue", request[c] # "enqueue"
    PROVE  request[c] = "created"
<1> USE DEF records, asking, index, procs, user, history
<1>1. ASSUME NEW d \in Search, Match(d)
      PROVE  request[c] = "created"
  BY <1>1 DEF Match, TypeOK
<1>2. ASSUME NEW d \in Search, Create(d) \/ Enqueue(d) \/ Finish(d) \/ RequestLost(d)
      PROVE  request'[c] = "enqueue" => request[c] = "enqueue"
  BY <1>2 DEF Create, Enqueue, Finish, RequestLost, TypeOK
<1>3. ASSUME NEW d \in Search, StartPause(d) \/ StartResume(d) \/ Delete(d)
      PROVE  UNCHANGED request
  BY <1>3 DEF StartPause, StartResume, Delete
<1>4. CASE EndEdit \/ RefreshDies \/ FailExpanding \/ (\E b \in Business : EvidenceChanges(b)) \/ UNCHANGED vars
  BY <1>4 DEF EndEdit, RefreshDies, FailExpanding, EvidenceChanges, vars
<1>5. ASSUME NEW w \in Worker, Work(w)
      PROVE  UNCHANGED request
  BY <1>5 DEF Work, Handle, Evaluate, Save, Deliver, Settle, Complete, Write, Miss, Collapse, FailCampaign,
              Crash, Claim, Fail, Refuse, Recover
<1> QED BY <1>1, <1>2, <1>3, <1>4, <1>5 DEF Next, Ask, Work

\* A batch is asked for once.
LEMMA UnaskedStep ==
    ASSUME IInv, Unasked, OneHolder, [Next]_vars
    PROVE  Unasked'
<1> SUFFICES ASSUME NEW c \in Search, status'[c] = "none" \/ request'[c] \in {"created", "enqueue"}
             PROVE  batch'[c] = "none"
  BY DEF Unasked
<1> TypeOK /\ RequestOpen
  BY DEF IInv
<1>1. status[c] = "none" \/ request[c] \in {"created", "enqueue"}
  <2>1. CASE status'[c] = "none"
    BY <2>1, StatusStep DEF Changed
  <2>2. CASE request'[c] \in {"created", "enqueue"} /\ request'[c] # request[c]
    BY <2>2, RequestStep, EnqueueAfterMatch
  <2> QED BY <2>1, <2>2
<1>2. batch[c] = "none"
  BY <1>1 DEF Unasked
<1>3. ASSUME NEW d \in Search, Asked(d) PROVE batch'[c] = "none"
  <2>1. status[d] # "none" /\ status'[d] # "none"
    BY <1>3, StatusStep DEF Asked, RequestOpen, Changed
  <2>2. d # c
    BY <1>3, <2>1 DEF Asked
  <2> QED BY <1>2, <1>3, <2>2 DEF Asked, TypeOK
<1>4. ASSUME NEW d \in Search, Reclaimed(d) \/ Withdrawn(d) PROVE batch'[c] = "none"
  BY <1>2, <1>4 DEF Reclaimed, Withdrawn, TypeOK
<1>5. ASSUME NEW w \in Worker, Left(w) \/ \E d \in Search : Taken(w, d) PROVE batch'[c] = "none"
  BY <1>2, <1>5 DEF Left, Taken, TypeOK
<1> QED BY <1>2, <1>3, <1>4, <1>5, BatchStep DEF Untouched

\* One worker at a time has a batch.
LEMMA OneHolderStep ==
    ASSUME IInv, Unasked, OneHolder, [Next]_vars
    PROVE  OneHolder'
<1> TypeOK /\ TypeOK'
  BY TypeStep DEF IInv
<1> SUFFICES ASSUME NEW c \in Search, NEW w \in HolderOf(c)', status'[c] # "deleted"
             PROVE  batch'[c] = "running" /\ HolderOf(c)' = {w}
  BY DEF OneHolder, HolderOf, TypeOK, InBatch
<1>1. status[c] # "deleted"
  BY DeletedStays
<1>2. \A v \in HolderOf(c) : batch[c] = "running" /\ HolderOf(c) = {v}
  BY <1>1 DEF OneHolder, HolderOf
<1>3. CASE Untouched
  BY <1>2, <1>3 DEF Untouched
<1>4. ASSUME NEW d \in Search, Asked(d) \/ Reclaimed(d) \/ Withdrawn(d)
      PROVE  batch'[c] = "running" /\ HolderOf(c)' = {w}
  <2>1. HolderOf(c) = {w} /\ batch[c] = "running"
    BY <1>2, <1>4 DEF Asked, Reclaimed, Withdrawn
  <2>2. Asked(d) => d # c
    BY <2>1 DEF Asked, Unasked
  <2>3. Reclaimed(d) \/ Withdrawn(d) => d # c
    BY <2>1 DEF Reclaimed, Withdrawn
  <2>4. HolderOf(c)' = {w}
    BY <1>4, <2>1 DEF Asked, Reclaimed, Withdrawn
  <2>5. batch'[c] = batch[c]
    BY <1>4, <2>2, <2>3 DEF Asked, Reclaimed, Withdrawn, TypeOK
  <2> QED BY <2>1, <2>4, <2>5
<1>5. ASSUME NEW v \in Worker, NEW d \in Search, Taken(v, d)
      PROVE  batch'[c] = "running" /\ HolderOf(c)' = {w}
  <2>1. CASE c = d
    <3>1. batch[c] = "queued" /\ batch'[c] = "running"
      BY <1>5, <2>1 DEF Taken, TypeOK
    <3>2. HolderOf(c) = {}
      BY <1>2, <3>1
    <3>3. HolderOf(c)' = {v}
      BY <1>5, <2>1, <3>2 DEF Taken
    <3> QED BY <3>1, <3>3
  <2>2. CASE c # d
    <3>1. HolderOf(c)' = HolderOf(c) /\ batch'[c] = batch[c]
      BY <1>5, <2>2 DEF Taken, TypeOK
    <3> QED BY <1>2, <3>1
  <2> QED BY <2>1, <2>2
<1>6. ASSUME NEW v \in Worker, Left(v)
      PROVE  batch'[c] = "running" /\ HolderOf(c)' = {w}
  <2>1. w \in HolderOf(c) /\ w # v /\ HolderOf(c)' = HolderOf(c) \ {v}
    BY <1>6 DEF Left
  <2>2. at[v] # c
    BY <1>2, <1>6, <2>1 DEF Left, HolderOf
  <2> QED BY <1>2, <1>6, <2>1, <2>2 DEF Left, TypeOK
<1> QED BY <1>3, <1>4, <1>5, <1>6, BatchStep

\* What a step does to a search that is not deleted, as a step of the lease.
LEMMA BatchLawful ==
    ASSUME IInv, Unasked, OneHolder, [Next]_vars, NEW c \in Search, status'[c] # "deleted"
    PROVE  Lease!Lawful(c)
<1> TypeOK
  BY DEF IInv
<1> DEFINE Phase == IF batch[c] \in {"queued", "running"} THEN batch[c] ELSE "none"
<1>1. \A v \in HolderOf(c) : batch[c] = "running" /\ HolderOf(c) = {v}
  BY DeletedStays DEF OneHolder, HolderOf
<1> USE DEF Lease!Lawful, Lease!Unmoved, Lease!Handled, Lease!Leased, Lease!Released,
            Lease!Orphaned, Lease!Recovered, Lease!Moves, Lease!Idle
<1>2. CASE Phase' = Phase /\ HolderOf(c)' = HolderOf(c)
  BY <1>2 DEF HolderOf
<1>3. CASE Untouched
  BY <1>2, <1>3 DEF Untouched
<1>4. CASE Asked(c)
  <2>1. batch[c] = "none" /\ batch'[c] = "queued"
    BY <1>4 DEF Asked, Unasked, TypeOK
  <2>2. HolderOf(c) = {} /\ HolderOf(c)' = {}
    BY <1>1, <1>4, <2>1 DEF Asked
  <2> QED BY <2>1, <2>2 DEF HolderOf
<1>5. CASE Reclaimed(c)
  BY <1>5 DEF Reclaimed, HolderOf, TypeOK
<1>6. ASSUME NEW d \in Search, d # c, Asked(d) \/ Reclaimed(d) \/ Withdrawn(d)
      PROVE  Lease!Lawful(c)
  <2>1. batch'[c] = batch[c] /\ HolderOf(c)' = HolderOf(c)
    BY <1>6 DEF Asked, Reclaimed, Withdrawn, TypeOK
  <2> QED BY <1>2, <2>1
<1>7. ASSUME NEW w \in Worker, NEW d \in Search, Taken(w, d)
      PROVE  Lease!Lawful(c)
  <2>1. CASE d = c
    <3>1. batch[c] = "queued" /\ batch'[c] = "running"
      BY <1>7, <2>1 DEF Taken, TypeOK
    <3>2. HolderOf(c) = {} /\ HolderOf(c)' = {w}
      BY <1>1, <1>7, <2>1, <3>1 DEF Taken
    <3> QED BY <3>1, <3>2 DEF HolderOf
  <2>2. CASE d # c
    <3>1. batch'[c] = batch[c] /\ HolderOf(c)' = HolderOf(c)
      BY <1>7, <2>2 DEF Taken, TypeOK
    <3> QED BY <1>2, <3>1
  <2> QED BY <2>1, <2>2
<1>8. ASSUME NEW w \in Worker, Left(w)
      PROVE  Lease!Lawful(c)
  <2>1. CASE at[w] = c
    <3>1. batch[c] = "running" /\ HolderOf(c) = {w} /\ HolderOf(c)' = {}
      BY <1>1, <1>8, <2>1 DEF Left, HolderOf
    <3>2. batch'[c] \in {"none", "queued", "running", "done", "dead"}
      BY <1>8, <2>1 DEF Left, TypeOK
    <3> QED BY <3>1, <3>2 DEF HolderOf
  <2>2. CASE at[w] # c
    <3>1. batch'[c] = batch[c] /\ HolderOf(c)' = HolderOf(c)
      BY <1>8, <2>2 DEF Left, HolderOf, TypeOK
    <3> QED BY <1>2, <3>1
  <2> QED BY <2>1, <2>2
<1> QED BY <1>3, <1>4, <1>5, <1>6, <1>7, <1>8, BatchStep DEF Withdrawn

\* The batch of a search is leased as the queue promises for a key, from its request to
\* the end of its last attempt, until the search is deleted (search_evaluations/service.py,
\* job_queue/worker.py).
THEOREM BatchesAreLeased == Spec => ImplementsKeyLease
<1>1. Init => Unasked /\ OneHolder
  BY DEF Init, Unasked, OneHolder, InBatch
<1>2. IInv /\ Unasked /\ OneHolder /\ [Next]_vars => Unasked' /\ OneHolder'
  BY UnaskedStep, OneHolderStep
<1>3. Init => Lease!Init
  BY DEF Init, Lease!Init, InBatch
<1>4. IInv /\ IInv' /\ Unasked /\ OneHolder /\ [Next]_vars => [Lease!Next]_(Lease!leaseVars)
  <2> SUFFICES ASSUME IInv, IInv', Unasked, OneHolder, [Next]_vars
               PROVE  Lease!Next
    OBVIOUS
  <2>1. /\ [c \in Search |-> IF batch[c] \in {"queued", "running"} THEN batch[c] ELSE "none"]'
             \in [Search -> Lease!Stage]
        /\ [c \in Search |-> {w \in Worker : at[w] = c /\ pc[w] \in InBatch}]' \in [Search -> SUBSET Worker]
    BY DEF Lease!Stage
  <2>2. {c \in Search : status[c] = "deleted"} \subseteq {c \in Search : status[c] = "deleted"}'
    BY DeletedStays DEF IInv
  <2>3. \A c \in Search \ {d \in Search : status[d] = "deleted"}' : Lease!Lawful(c)
    BY BatchLawful
  <2> QED
    BY <2>1, <2>2, <2>3 DEF Lease!Next
<1> QED BY <1>1, <1>2, <1>3, <1>4, Invariance, PTL DEF Spec, ImplementsKeyLease, Lease!Spec
=============================================================================
