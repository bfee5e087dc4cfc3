------------------------- MODULE AudienceRun_proofs -------------------------
(***************************************************************************)
(* Theorems about the runs of an audience, for any number of workers,      *)
(* sessions, businesses and runs, any batch size and any attempts.         *)
(***************************************************************************)
EXTENDS AudienceRun, FiniteSetTheorems, TLAPS

\* An executor that has got past its first SELECT works on a run.
HoldsRun ==
    \A x \in Executor : pc[x] \notin {"idle", "creating", "refilling"} => on[x] \in Run

(***************************************************************************)
(* Type correctness                                                        *)
(***************************************************************************)

\* The values an executor and a run start with are of their types.
LEMMA ConstantTypes ==
    /\ 0 \in 0..MaxRuns /\ 0 \in 0..Batch /\ 0 \in 0..MaxEdits /\ 0 \in 0..MaxAttempts + 1
    /\ 0 \in 0..MaxCrashes /\ 1 \in 1..MaxRuns + 1
    /\ Run \subseteq 0..MaxRuns
    /\ NoRanks \in [Business -> 0..Batch]
    /\ \A n \in 0..MaxAttempts + 1 : OneMore(n) \in 0..MaxAttempts + 1
BY AudienceAssumption DEF Run, NoRanks, OneMore

\* What process leaves behind is of its types.
LEMMA ForgetType ==
    ASSUME TypeOK, NEW x \in Executor, Forget(x)
    PROVE  /\ late' \in [Executor -> BOOLEAN]
           /\ pool' \in [Executor -> SUBSET Business]
           /\ plan' \in [Executor -> [Business -> 0..Batch]]
           /\ basis' \in [Executor -> SUBSET Business]
BY ConstantTypes DEF Forget, TypeOK

\* What an executor remembers is forgotten in order.
LEMMA LeaveType ==
    ASSUME TypeOK, HoldsRun, NEW x \in Executor, Leave(x)
    PROVE  /\ pc' = [pc EXCEPT ![x] = "idle"]
           /\ on' \in [Executor -> 0..MaxRuns]
           /\ mine' \in [Executor -> BOOLEAN]
           /\ cached' \in [Executor -> RunState \cup {"absent"}]
           /\ late' \in [Executor -> BOOLEAN]
           /\ pool' \in [Executor -> SUBSET Business]
           /\ plan' \in [Executor -> [Business -> 0..Batch]]
           /\ basis' \in [Executor -> SUBSET Business]
           /\ edition' \in [Executor -> 0..MaxEdits]
           /\ given' \in [Executor -> 0..MaxAttempts + 1]
           /\ HoldsRun'
<1>1. /\ pc' = [pc EXCEPT ![x] = "idle"]
      /\ on' = [on EXCEPT ![x] = 0]
  BY DEF Leave, Forget, Goto
<1>2. HoldsRun'
  BY <1>1 DEF HoldsRun, TypeOK
<1>3. /\ late' \in [Executor -> BOOLEAN]
      /\ pool' \in [Executor -> SUBSET Business]
      /\ plan' \in [Executor -> [Business -> 0..Batch]]
      /\ basis' \in [Executor -> SUBSET Business]
  <2> Forget(x)
    BY DEF Leave
  <2> QED
    BY ForgetType
<1>4. /\ on' \in [Executor -> 0..MaxRuns]
      /\ mine' \in [Executor -> BOOLEAN]
      /\ cached' \in [Executor -> RunState \cup {"absent"}]
      /\ edition' \in [Executor -> 0..MaxEdits]
      /\ given' \in [Executor -> 0..MaxAttempts + 1]
  BY ConstantTypes DEF Leave, TypeOK
<1> QED
  BY <1>1, <1>2, <1>3, <1>4

\* Enqueueing keeps the types of the jobs.
LEMMA EnqueueType ==
    ASSUME TypeOK, NEW S, EnqueueRuns(S)
    PROVE  /\ jobStatus' \in [Run -> ActiveJob \cup {"none", "completed", "failed", "dead_letter"}]
           /\ tries' \in [Run -> 0..MaxAttempts + 1]
           /\ mine' \in [Executor -> BOOLEAN]
BY ConstantTypes DEF EnqueueRuns, TypeOK, ActiveJob

\* The initial values are of their types.
LEMMA InitTypes == Init => TypeOK /\ HoldsRun
<1> SUFFICES ASSUME Init PROVE TypeOK /\ HoldsRun
  OBVIOUS
<1>1. HoldsRun
  BY DEF Init, HoldsRun
<1>2. plan \in [Executor -> [Business -> 0..Batch]] /\ rank \in [Run -> [Business -> 0..Batch]]
  BY ConstantTypes DEF Init
<1> QED
  BY <1>1, <1>2, ConstantTypes DEF Init, TypeOK, ReviewState, RunState

\* The SELECT of AudienceRunService.create keeps the types.
LEMMA CreateSelectTypes ==
    ASSUME TypeOK, HoldsRun, NEW a \in Api, pc[a] \in {"idle", "refilling"}, CreateSelect(a)
    PROVE  TypeOK' /\ HoldsRun'
<1> a \in Executor
  BY DEF Executor
<1>1. CASE ActiveRuns # {}
  <2>1. /\ EnqueueRuns({Max(ActiveRuns)})
        /\ pc' = [pc EXCEPT ![a] = "idle"]
        /\ UNCHANGED <<runVars, resultVars, audienceVars, on, cached, late, pool, plan, basis, edition, given, crashes, raced>>
    BY <1>1 DEF CreateSelect, Goto
  <2>2. /\ jobStatus' \in [Run -> ActiveJob \cup {"none", "completed", "failed", "dead_letter"}]
        /\ tries' \in [Run -> 0..MaxAttempts + 1]
        /\ mine' \in [Executor -> BOOLEAN]
    BY <2>1, EnqueueType
  <2> QED
    BY <2>1, <2>2 DEF TypeOK, HoldsRun, runVars, resultVars, audienceVars
<1>2. CASE ActiveRuns = {}
  BY <1>2, ZenonT(40) DEF CreateSelect, Goto, TypeOK, HoldsRun, runVars, resultVars, audienceVars, jobVars
<1> QED
  BY <1>1, <1>2

\* The INSERT of a run keeps the types.
LEMMA CreateInsertTypes ==
    ASSUME TypeOK, HoldsRun, NEW a \in Api, CreateInsert(a)
    PROVE  TypeOK' /\ HoldsRun'
<1> a \in Executor
  BY DEF Executor
<1>1. CASE nextRun > MaxRuns
  BY <1>1 DEF CreateInsert, Goto, TypeOK, HoldsRun, runVars, resultVars, audienceVars, jobVars
<1>2. CASE ~(nextRun > MaxRuns)
  <2>1. /\ nextRun \in Run
        /\ nextRun + 1 \in 1..MaxRuns + 1
    BY <1>2, AudienceAssumption DEF TypeOK, Run
  <2>2. /\ state' = [state EXCEPT ![nextRun] = "queued"]
        /\ version' = [version EXCEPT ![nextRun] = edition[a]]
        /\ nextRun' = nextRun + 1
        /\ UNCHANGED <<overdue, coverage, resultVars, audienceVars, cached, late, pool, plan, basis, edition, given, crashes, raced>>
    BY <1>2 DEF CreateInsert
  <2>3. /\ state' \in [Run -> RunState \cup {"absent"}]
        /\ version' \in [Run -> 0..MaxEdits]
        /\ nextRun' \in 1..MaxRuns + 1
    BY <2>1, <2>2 DEF TypeOK, RunState
  <2>4. CASE EnqueueRuns({nextRun}) /\ Goto(a, "idle") /\ UNCHANGED on
    <3>1. /\ jobStatus' \in [Run -> ActiveJob \cup {"none", "completed", "failed", "dead_letter"}]
          /\ tries' \in [Run -> 0..MaxAttempts + 1]
          /\ mine' \in [Executor -> BOOLEAN]
      BY <2>4, EnqueueType
    <3>2. HoldsRun'
      BY <2>4 DEF Goto, TypeOK, HoldsRun
    <3>3. TypeOK'
      BY <2>2, <2>3, <2>4, <3>1 DEF Goto, TypeOK, resultVars, audienceVars
    <3> QED
      BY <3>2, <3>3
  <2>5. CASE /\ Goto(a, "enqueueing")
             /\ on' = [on EXCEPT ![a] = nextRun]
             /\ UNCHANGED <<jobVars, mine>>
    <3>1. on' \in [Executor -> 0..MaxRuns] /\ HoldsRun'
      BY <2>1, <2>5, ConstantTypes DEF Goto, TypeOK, HoldsRun
    <3> QED
      BY <2>2, <2>3, <2>5, <3>1 DEF Goto, TypeOK, resultVars, audienceVars, jobVars
  <2> QED
    BY <1>2, <2>4, <2>5 DEF CreateInsert
<1> QED
  BY <1>1, <1>2

\* The job of a run that was committed before keeps the types.
LEMMA EnqueueCreatedTypes ==
    ASSUME TypeOK, HoldsRun, NEW a \in Api, EnqueueCreated(a)
    PROVE  TypeOK' /\ HoldsRun'
<1> a \in Executor
  BY DEF Executor
<1>1. /\ jobStatus' \in [Run -> ActiveJob \cup {"none", "completed", "failed", "dead_letter"}]
      /\ tries' \in [Run -> 0..MaxAttempts + 1]
      /\ mine' \in [Executor -> BOOLEAN]
  BY EnqueueType DEF EnqueueCreated
<1>2. /\ pc' = [pc EXCEPT ![a] = "idle"]
      /\ on' = [on EXCEPT ![a] = 0]
  BY DEF EnqueueCreated, Goto
<1>3. HoldsRun'
  BY <1>2 DEF TypeOK, HoldsRun
<1>4. TypeOK'
  BY <1>1, <1>2, ConstantTypes DEF EnqueueCreated, TypeOK, runVars, resultVars, audienceVars
<1> QED
  BY <1>3, <1>4

\* enqueue_waiting_audience_runs keeps the types.
LEMMA ScheduleWaitingTypes ==
    ASSUME TypeOK, HoldsRun, ScheduleWaiting
    PROVE  TypeOK' /\ HoldsRun'
<1>1. /\ jobStatus' \in [Run -> ActiveJob \cup {"none", "completed", "failed", "dead_letter"}]
      /\ tries' \in [Run -> 0..MaxAttempts + 1]
      /\ mine' \in [Executor -> BOOLEAN]
  BY EnqueueType DEF ScheduleWaiting
<1> QED
  BY <1>1 DEF ScheduleWaiting, TypeOK, HoldsRun, runVars, resultVars, audienceVars

(***************************************************************************)
(* process                                                                 *)
(***************************************************************************)

\* process up to its first COMMIT keeps the types.
LEMMA ProcessStartTypes ==
    ASSUME TypeOK, HoldsRun, NEW x \in Executor, ProcessStart(x)
    PROVE  TypeOK' /\ HoldsRun'
<1> DEFINE r == on[x]
<1>1. /\ r \in Run
      /\ pc[x] = "starting"
      /\ UNCHANGED <<version, overdue, coverage, nextRun, resultVars, jobVars, audienceVars,
                     on, mine, pool, plan, basis, edition, given, crashes, raced>>
  BY DEF ProcessStart, HoldsRun
<1>2. /\ state' \in [Run -> RunState \cup {"absent"}]
      /\ cached' \in [Executor -> RunState \cup {"absent"}]
      /\ late' \in [Executor -> BOOLEAN]
  <2>1. CASE UNCHANGED <<state, cached, late>>
    BY <2>1 DEF TypeOK
  <2>2. CASE /\ state' = [state EXCEPT ![r] = IF cached[x] = "failed" THEN @ ELSE "failed"]
             /\ UNCHANGED <<cached, late>>
    BY <1>1, <2>2 DEF TypeOK, RunState
  <2>3. CASE /\ state' = [state EXCEPT ![r] = IF cached[x] = "matching" THEN @ ELSE "matching"]
             /\ cached' = [cached EXCEPT ![x] = "matching"]
             /\ late' = [late EXCEPT ![x] = overdue[r]]
    BY <1>1, <2>3 DEF TypeOK, RunState
  <2> QED
    BY <2>1, <2>2, <2>3 DEF ProcessStart
<1>3. pc' = [pc EXCEPT ![x] = "finishing"] \/ pc' = [pc EXCEPT ![x] = "matching"]
  BY DEF ProcessStart, Goto
<1>4. HoldsRun'
  BY <1>1, <1>3 DEF TypeOK, HoldsRun
<1>5. TypeOK'
  BY <1>1, <1>2, <1>3 DEF TypeOK, resultVars, jobVars, audienceVars
<1> QED
  BY <1>4, <1>5

\* The candidates are businesses of the market.
LEMMA ProcessMatchTypes ==
    ASSUME TypeOK, HoldsRun, NEW x \in Executor, ProcessMatch(x)
    PROVE  TypeOK' /\ HoldsRun'
<1>1. PICK P \in Pools(found) : pool' = [pool EXCEPT ![x] = P]
  BY DEF ProcessMatch
<1>2. P \subseteq Business
  BY DEF Pools, Best, Matches
<1>3. /\ pc[x] = "matching"
      /\ pc' = [pc EXCEPT ![x] = "scoring"]
      /\ UNCHANGED <<runVars, resultVars, jobVars, audienceVars, on, mine, cached, late,
                     plan, basis, edition, given, crashes, raced>>
  BY DEF ProcessMatch, Goto
<1>4. pool' \in [Executor -> SUBSET Business]
  BY <1>1, <1>2 DEF TypeOK
<1>5. HoldsRun'
  BY <1>3 DEF TypeOK, HoldsRun
<1>6. TypeOK'
  BY <1>3, <1>4 DEF TypeOK, runVars, resultVars, jobVars, audienceVars
<1> QED
  BY <1>5, <1>6

\* The SELECTs of process keep the types.
LEMMA ProcessReadTypes ==
    ASSUME TypeOK, HoldsRun, NEW x \in Executor, ProcessRead(x)
    PROVE  TypeOK' /\ HoldsRun'
<1>1. plan' \in [Executor -> [Business -> 0..Batch]]
  BY DEF ProcessRead, Plans, TypeOK
<1>2. /\ basis' \in [Executor -> SUBSET Business]
      /\ pool' \in [Executor -> SUBSET Business]
  BY DEF ProcessRead, Rows, TypeOK
<1>3. /\ pc[x] = "scoring"
      /\ pc' = [pc EXCEPT ![x] = "writing"]
      /\ UNCHANGED <<runVars, resultVars, jobVars, audienceVars, on, mine, cached, late,
                     edition, given, crashes, raced>>
  BY DEF ProcessRead, Goto
<1>4. HoldsRun'
  BY <1>3 DEF TypeOK, HoldsRun
<1>5. TypeOK'
  BY <1>1, <1>2, <1>3 DEF TypeOK, runVars, resultVars, jobVars, audienceVars
<1> QED
  BY <1>4, <1>5

\* What a run is left with is a state and a coverage status.
LEMMA OutcomeType ==
    ASSUME TypeOK, NEW x \in Executor, on[x] \in Run,
           NEW requested \in {"none", "queued", "processing", "failed", "completed"}
    PROVE  /\ Outcome(x, requested).state \in {"ready", "partial", "waiting_validation"}
           /\ Outcome(x, requested).coverage \in {"none", "queued", "processing", "failed", "completed"}
BY DEF Outcome, Completed, TypeOK

\* What is written over the results of a run are ranks.
LEMMA WrittenType ==
    ASSUME TypeOK, NEW x \in Executor, on[x] \in Run
    PROVE  WrittenRanks(x) \in [Business -> 0..Batch]
BY ConstantTypes DEF WrittenRanks, TypeOK

\* The writes of process keep the types.
LEMMA ProcessWriteTypes ==
    ASSUME TypeOK, HoldsRun, NEW x \in Executor, ProcessWrite(x)
    PROVE  TypeOK' /\ HoldsRun'
<1> DEFINE r == on[x]
           requested == IF coverage[r] = "none" THEN "queued" ELSE coverage[r]
           end == Outcome(x, requested)
<1>1. /\ r \in Run
      /\ pc[x] = "writing"
      /\ UNCHANGED <<version, overdue, nextRun, jobVars, audienceVars, on, mine,
                     edition, given, crashes, raced>>
  BY DEF ProcessWrite, HoldsRun
<1>f. /\ late' \in [Executor -> BOOLEAN]
      /\ pool' \in [Executor -> SUBSET Business]
      /\ plan' \in [Executor -> [Business -> 0..Batch]]
      /\ basis' \in [Executor -> SUBSET Business]
  BY ForgetType DEF ProcessWrite
<1>2. CASE WriteRaises(x)
  <2>1. pc' = [pc EXCEPT ![x] = "raised"] /\ UNCHANGED <<state, coverage, rank, review, cached>>
    BY <1>2 DEF ProcessWrite, Goto
  <2>2. HoldsRun'
    BY <1>1, <2>1 DEF TypeOK, HoldsRun
  <2>3. TypeOK'
    BY <1>1, <1>f, <2>1 DEF TypeOK, jobVars, audienceVars
  <2> QED
    BY <2>2, <2>3
<1>3. CASE ~WriteRaises(x)
  <2>1. /\ rank' = [rank EXCEPT ![r] = WrittenRanks(x)]
        /\ review' = [review EXCEPT ![r] =
              [b \in Business |-> IF rank'[r][b] > 0 /\ rank[r][b] > 0 THEN @[b] ELSE "unreviewed"]]
        /\ state' = [state EXCEPT ![r] = end.state]
        /\ coverage' = [coverage EXCEPT ![r] = end.coverage]
        /\ cached' = [cached EXCEPT ![x] = end.state]
        /\ \/ pc' = [pc EXCEPT ![x] = "expanding"]
           \/ pc' = [pc EXCEPT ![x] = "finishing"]
    BY <1>3 DEF ProcessWrite, Goto
  <2>2. /\ end.state \in {"ready", "partial", "waiting_validation"}
        /\ end.coverage \in {"none", "queued", "processing", "failed", "completed"}
    <3>1. requested \in {"none", "queued", "processing", "failed", "completed"}
      BY <1>1 DEF TypeOK
    <3> QED
      BY <1>1, <3>1, OutcomeType
  <2> HIDE DEF end
  <2>3. rank' \in [Run -> [Business -> 0..Batch]]
    BY <1>1, <2>1, WrittenType DEF TypeOK
  <2>4. review' \in [Run -> [Business -> ReviewState]]
    BY <1>1, <2>1 DEF TypeOK, ReviewState
  <2>5. /\ state' \in [Run -> RunState \cup {"absent"}]
        /\ coverage' \in [Run -> {"none", "queued", "processing", "failed", "completed"}]
        /\ cached' \in [Executor -> RunState \cup {"absent"}]
    BY <1>1, <2>1, <2>2 DEF TypeOK, RunState
  <2>6. HoldsRun'
    BY <1>1, <2>1 DEF TypeOK, HoldsRun
  <2>7. TypeOK'
    BY <1>1, <1>f, <2>1, <2>3, <2>4, <2>5, ZenonT(40) DEF TypeOK, jobVars, audienceVars
  <2> QED
    BY <2>6, <2>7
<1> QED
  BY <1>2, <1>3

\* Every step of process keeps the types.
LEMMA ProcessTypes ==
    ASSUME TypeOK, HoldsRun, NEW x \in Executor, Process(x)
    PROVE  TypeOK' /\ HoldsRun'
<1>1. CASE ProcessRaise(x)
  <2>1. /\ pc[x] \in {"starting", "matching", "scoring", "writing", "expanding"}
        /\ pc' = [pc EXCEPT ![x] = "raised"]
        /\ UNCHANGED <<runVars, resultVars, jobVars, audienceVars, on, mine, cached, edition,
                       given, crashes, raced>>
    BY <1>1 DEF ProcessRaise, Goto
  <2>2. HoldsRun'
    BY <2>1 DEF TypeOK, HoldsRun
  <2>3. /\ late' \in [Executor -> BOOLEAN]
        /\ pool' \in [Executor -> SUBSET Business]
        /\ plan' \in [Executor -> [Business -> 0..Batch]]
        /\ basis' \in [Executor -> SUBSET Business]
    BY <1>1, ForgetType DEF ProcessRaise
  <2>4. TypeOK'
    BY <2>1, <2>3 DEF TypeOK, runVars, resultVars, jobVars, audienceVars
  <2> QED
    BY <2>2, <2>4
<1> QED
  BY <1>1, ProcessStartTypes, ProcessMatchTypes, ProcessReadTypes, ProcessWriteTypes DEF Process

(***************************************************************************)
(* The worker                                                              *)
(***************************************************************************)

\* claim_next keeps the types.
LEMMA ClaimRunTypes ==
    ASSUME TypeOK, HoldsRun, NEW w \in Worker, NEW r \in Run, ClaimRun(w, r)
    PROVE  TypeOK' /\ HoldsRun'
<1> w \in Executor /\ r \in 0..MaxRuns
  BY ConstantTypes DEF Executor
<1>1. /\ jobStatus' = [jobStatus EXCEPT ![r] = "running"]
      /\ tries' = [tries EXCEPT ![r] = OneMore(tries[r])]
      /\ on' = [on EXCEPT ![w] = r]
      /\ mine' = [mine EXCEPT ![w] = TRUE]
      /\ cached' = [cached EXCEPT ![w] = state[r]]
      /\ pc' = [pc EXCEPT ![w] = "starting"]
      /\ UNCHANGED <<runVars, resultVars, audienceVars, late, pool, plan, basis, edition, given, crashes, raced>>
  BY DEF ClaimRun, Goto
<1>2. OneMore(tries[r]) \in 0..MaxAttempts + 1
  BY ConstantTypes DEF TypeOK
<1>3. HoldsRun'
  BY <1>1 DEF TypeOK, HoldsRun
<1>4. TypeOK'
  BY <1>1, <1>2 DEF TypeOK, ActiveJob, runVars, resultVars, audienceVars
<1> QED
  BY <1>3, <1>4

\* The recovery of a job keeps the types.
LEMMA RecoverRunTypes ==
    ASSUME TypeOK, HoldsRun, NEW w \in Worker, NEW r \in Run, RecoverRun(w, r)
    PROVE  TypeOK' /\ HoldsRun'
<1> w \in Executor /\ r \in 0..MaxRuns
  BY ConstantTypes DEF Executor
<1>1. UNCHANGED <<runVars, resultVars, tries, audienceVars, mine, cached, late, pool, plan, basis,
                  edition, given, crashes, raced>>
  BY DEF RecoverRun
<1>2. CASE jobStatus' = [jobStatus EXCEPT ![r] = "queued"] /\ UNCHANGED <<pc, on>>
  BY <1>1, <1>2 DEF TypeOK, HoldsRun, ActiveJob, runVars, resultVars, audienceVars
<1>3. CASE /\ jobStatus' = [jobStatus EXCEPT ![r] = "dead_letter"]
           /\ pc' = [pc EXCEPT ![w] = "burying"]
           /\ on' = [on EXCEPT ![w] = r]
  <2>1. HoldsRun'
    BY <1>3 DEF TypeOK, HoldsRun
  <2>2. TypeOK'
    BY <1>1, <1>3 DEF TypeOK, runVars, resultVars, audienceVars
  <2> QED
    BY <2>1, <2>2
<1> QED
  BY <1>2, <1>3 DEF RecoverRun, Goto

\* The expansion of the coverage keeps the types.
LEMMA ExpandTypes ==
    ASSUME TypeOK, HoldsRun, NEW w \in Worker, Expand(w)
    PROVE  TypeOK' /\ HoldsRun'
<1> DEFINE r == on[w]
<1> w \in Executor
  BY DEF Executor
<1>1. /\ r \in Run
      /\ pc[w] = "expanding"
      /\ pc' = [pc EXCEPT ![w] = "finishing"]
      /\ UNCHANGED <<version, overdue, nextRun, resultVars, jobVars, audienceVars, localVars, crashes, raced>>
  BY DEF Expand, Goto, HoldsRun
<1>2. PICK c \in {coverage[r], "processing", "failed"}, s \in {state[r], "partial"} :
         coverage' = [coverage EXCEPT ![r] = c] /\ state' = [state EXCEPT ![r] = s]
  BY DEF Expand
<1>3. HoldsRun'
  BY <1>1 DEF TypeOK, HoldsRun, localVars
<1>4. coverage' \in [Run -> {"none", "queued", "processing", "failed", "completed"}]
  BY <1>1, <1>2 DEF TypeOK
<1>5. state' \in [Run -> RunState \cup {"absent"}]
  BY <1>1, <1>2 DEF TypeOK, RunState
<1>6. TypeOK'
  BY <1>1, <1>4, <1>5 DEF TypeOK, resultVars, jobVars, audienceVars, localVars
<1> QED
  BY <1>3, <1>6

\* The completion of a job keeps the types.
LEMMA CompleteRunTypes ==
    ASSUME TypeOK, HoldsRun, NEW w \in Worker, CompleteRun(w)
    PROVE  TypeOK' /\ HoldsRun'
<1> w \in Executor
  BY DEF Executor
<1>1. /\ jobStatus' = [jobStatus EXCEPT ![on[w]] = IF mine[w] THEN "completed" ELSE jobStatus[on[w]]]
      /\ Leave(w)
      /\ UNCHANGED <<runVars, resultVars, tries, audienceVars, crashes, raced>>
  BY DEF CompleteRun
<1>2. jobStatus' \in [Run -> ActiveJob \cup {"none", "completed", "failed", "dead_letter"}]
  BY <1>1 DEF TypeOK
<1>3. /\ pc' = [pc EXCEPT ![w] = "idle"]
      /\ on' \in [Executor -> 0..MaxRuns]
      /\ mine' \in [Executor -> BOOLEAN]
      /\ cached' \in [Executor -> RunState \cup {"absent"}]
      /\ late' \in [Executor -> BOOLEAN]
      /\ pool' \in [Executor -> SUBSET Business]
      /\ plan' \in [Executor -> [Business -> 0..Batch]]
      /\ basis' \in [Executor -> SUBSET Business]
      /\ edition' \in [Executor -> 0..MaxEdits]
      /\ given' \in [Executor -> 0..MaxAttempts + 1]
      /\ HoldsRun'
  BY <1>1, LeaveType
<1> QED
  BY <1>1, <1>2, <1>3 DEF TypeOK, runVars, resultVars, audienceVars

\* queue.fail keeps the types.
LEMMA FailJobTypes ==
    ASSUME TypeOK, HoldsRun, NEW w \in Worker, FailJob(w)
    PROVE  TypeOK' /\ HoldsRun'
<1> w \in Executor
  BY DEF Executor
<1>1. /\ pc[w] = "raised"
      /\ UNCHANGED <<runVars, resultVars, tries, audienceVars, crashes, raced>>
  BY DEF FailJob
<1>2. CASE /\ jobStatus' = [jobStatus EXCEPT ![on[w]] = "dead_letter"]
           /\ pc' = [pc EXCEPT ![w] = "burying"]
           /\ UNCHANGED <<on, mine, cached, late, pool, plan, basis, edition, given>>
  <2>1. HoldsRun'
    BY <1>1, <1>2 DEF TypeOK, HoldsRun
  <2>2. TypeOK'
    BY <1>1, <1>2 DEF TypeOK, runVars, resultVars, audienceVars
  <2> QED
    BY <2>1, <2>2
<1>3. CASE /\ \/ jobStatus' = [jobStatus EXCEPT ![on[w]] = "queued"]
              \/ jobStatus' = jobStatus
           /\ Leave(w)
  <2>1. jobStatus' \in [Run -> ActiveJob \cup {"none", "completed", "failed", "dead_letter"}]
    BY <1>3 DEF TypeOK, ActiveJob
  <2> QED
    BY <1>1, <1>3, <2>1, LeaveType, ZenonT(40) DEF TypeOK, runVars, resultVars, audienceVars
<1> QED
  BY <1>2, <1>3 DEF FailJob, Goto

\* _fail_audience_run keeps the types.
LEMMA FailRunTypes ==
    ASSUME TypeOK, HoldsRun, NEW w \in Worker, FailRun(w)
    PROVE  TypeOK' /\ HoldsRun'
<1> w \in Executor
  BY DEF Executor
<1>1. /\ state' = [state EXCEPT ![on[w]] = "failed"]
      /\ Leave(w)
      /\ UNCHANGED <<version, overdue, coverage, nextRun, resultVars, jobVars, audienceVars, crashes, raced>>
  BY DEF FailRun
<1>2. state' \in [Run -> RunState \cup {"absent"}]
  BY <1>1 DEF TypeOK, RunState
<1>3. /\ pc' = [pc EXCEPT ![w] = "idle"]
      /\ on' \in [Executor -> 0..MaxRuns]
      /\ mine' \in [Executor -> BOOLEAN]
      /\ cached' \in [Executor -> RunState \cup {"absent"}]
      /\ late' \in [Executor -> BOOLEAN]
      /\ pool' \in [Executor -> SUBSET Business]
      /\ plan' \in [Executor -> [Business -> 0..Batch]]
      /\ basis' \in [Executor -> SUBSET Business]
      /\ edition' \in [Executor -> 0..MaxEdits]
      /\ given' \in [Executor -> 0..MaxAttempts + 1]
      /\ HoldsRun'
  BY <1>1, LeaveType
<1> QED
  BY <1>1, <1>2, <1>3 DEF TypeOK, resultVars, jobVars, audienceVars

\* Every step of a worker keeps the types.
LEMMA WorkerStepTypes ==
    ASSUME TypeOK, HoldsRun, NEW w \in Worker, WorkerStep(w)
    PROVE  TypeOK' /\ HoldsRun'
<1> w \in Executor
  BY DEF Executor
<1> QED
  BY ClaimRunTypes, RecoverRunTypes, ProcessTypes, ExpandTypes, CompleteRunTypes, FailJobTypes,
     FailRunTypes DEF WorkerStep

(***************************************************************************)
(* The sessions                                                            *)
(***************************************************************************)

\* The read of a poll keeps the types.
LEMMA PollTypes ==
    ASSUME TypeOK, HoldsRun, NEW a \in Api, Poll(a)
    PROVE  TypeOK' /\ HoldsRun'
<1> a \in Executor
  BY DEF Executor
<1>1. /\ Latest \in Run
      /\ Latest \in 0..MaxRuns
      /\ on' = [on EXCEPT ![a] = Latest]
      /\ mine' = [mine EXCEPT ![a] = TRUE]
      /\ cached' = [cached EXCEPT ![a] = state[Latest]]
      /\ edition' = [edition EXCEPT ![a] = criteria]
      /\ UNCHANGED <<runVars, resultVars, jobVars, audienceVars, late, pool, plan, basis, given, crashes, raced>>
  BY ConstantTypes DEF Poll
<1>2. pc' = [pc EXCEPT ![a] = "locking"] \/ pc' = [pc EXCEPT ![a] = "stalled"]
  BY DEF Poll, Goto
<1>3. HoldsRun'
  BY <1>1, <1>2 DEF TypeOK, HoldsRun
<1>4. TypeOK'
  BY <1>1, <1>2 DEF TypeOK, runVars, resultVars, jobVars, audienceVars
<1> QED
  BY <1>3, <1>4

\* The locked read of _process_profile_run keeps the types.
LEMMA PollLockTypes ==
    ASSUME TypeOK, HoldsRun, NEW a \in Api, PollLock(a)
    PROVE  TypeOK' /\ HoldsRun'
<1> DEFINE r == on[a]
<1> a \in Executor
  BY DEF Executor
<1>1. /\ pc[a] = "locking"
      /\ r \in Run
      /\ UNCHANGED <<runVars, resultVars, audienceVars, crashes, raced>>
  BY DEF PollLock, HoldsRun
<1>2. CASE /\ jobStatus' = [jobStatus EXCEPT ![r] = "running"]
           /\ given' = [given EXCEPT ![a] = tries[r]]
           /\ tries' = [tries EXCEPT ![r] = OneMore(tries[r])]
           /\ pc' = [pc EXCEPT ![a] = "starting"]
           /\ UNCHANGED <<on, mine, cached, late, pool, plan, basis, edition>>
  <2>1. HoldsRun'
    BY <1>1, <1>2 DEF TypeOK, HoldsRun
  <2>2. tries' \in [Run -> 0..MaxAttempts + 1]
    BY <1>1, <1>2, ConstantTypes DEF TypeOK
  <2>3. given' \in [Executor -> 0..MaxAttempts + 1]
    BY <1>1, <1>2 DEF TypeOK
  <2>4. TypeOK'
    BY <1>1, <1>2, <2>2, <2>3 DEF TypeOK, ActiveJob, runVars, resultVars, audienceVars
  <2> QED
    BY <2>1, <2>4
<1>3. CASE Leave(a) /\ UNCHANGED jobVars
  BY <1>1, <1>3, LeaveType, ZenonT(40) DEF TypeOK, runVars, resultVars, audienceVars, jobVars
<1> QED
  BY <1>2, <1>3 DEF PollLock, Goto

\* The last transaction of a poll keeps the types.
LEMMA PollFinishTypes ==
    ASSUME TypeOK, HoldsRun, NEW a \in Api, PollFinish(a)
    PROVE  TypeOK' /\ HoldsRun'
<1> DEFINE r == on[a]
<1> a \in Executor
  BY DEF Executor
<1>1. /\ pc[a] \in {"finishing", "expanding"}
      /\ r \in Run
      /\ Leave(a)
      /\ UNCHANGED <<runVars, resultVars, audienceVars, crashes, raced>>
  BY DEF PollFinish, HoldsRun
<1>2. PICK s \in {jobStatus[r], "completed", "queued"}, n \in {tries[r], given[a]} :
         jobStatus' = [jobStatus EXCEPT ![r] = s] /\ tries' = [tries EXCEPT ![r] = n]
  BY <1>1 DEF PollFinish, TypeOK
<1>3. jobStatus' \in [Run -> ActiveJob \cup {"none", "completed", "failed", "dead_letter"}]
  BY <1>1, <1>2 DEF TypeOK, ActiveJob
<1>4. tries' \in [Run -> 0..MaxAttempts + 1]
  BY <1>1, <1>2 DEF TypeOK
<1> QED
  BY <1>1, <1>3, <1>4, LeaveType, ZenonT(40) DEF TypeOK, runVars, resultVars, audienceVars

\* The failure of a poll keeps the types.
LEMMA PollFailTypes ==
    ASSUME TypeOK, HoldsRun, NEW a \in Api, PollFail(a)
    PROVE  TypeOK' /\ HoldsRun'
<1> DEFINE r == on[a]
<1> a \in Executor
  BY DEF Executor
<1>1. /\ r \in Run
      /\ Leave(a)
      /\ UNCHANGED <<version, overdue, coverage, nextRun, resultVars, tries, audienceVars, crashes, raced>>
  BY DEF PollFail, HoldsRun
<1>2. PICK s \in {state[r], "failed"}, j \in {jobStatus[r], "failed"} :
         state' = [state EXCEPT ![r] = s] /\ jobStatus' = [jobStatus EXCEPT ![r] = j]
  BY DEF PollFail
<1>3. state' \in [Run -> RunState \cup {"absent"}]
  BY <1>1, <1>2 DEF TypeOK, RunState
<1>4. jobStatus' \in [Run -> ActiveJob \cup {"none", "completed", "failed", "dead_letter"}]
  BY <1>1, <1>2 DEF TypeOK
<1> QED
  BY <1>1, <1>3, <1>4, LeaveType, ZenonT(40) DEF TypeOK, resultVars, audienceVars

\* enqueue_refill_if_depleted keeps the types.
LEMMA RefillIfDepletedTypes ==
    ASSUME TypeOK, HoldsRun, NEW a \in Api, RefillIfDepleted(a)
    PROVE  TypeOK' /\ HoldsRun'
<1> a \in Executor
  BY DEF Executor
<1>1. CASE CreateSelect(a)
  BY <1>1, CreateSelectTypes DEF RefillIfDepleted
<1>2. CASE /\ pc' = [pc EXCEPT ![a] = "idle"]
           /\ UNCHANGED <<runVars, resultVars, jobVars, audienceVars, localVars, crashes, raced>>
  BY <1>2 DEF TypeOK, HoldsRun, runVars, resultVars, jobVars, audienceVars, localVars
<1> QED
  BY <1>1, <1>2 DEF RefillIfDepleted, Goto

\* A verdict, on one result or on every result of a business.
LEMMA ReviewTypes ==
    ASSUME TypeOK, HoldsRun, NEW a \in Api, NEW r \in Run, NEW b \in Business,
           \/ Shortlist(a, r, b)
           \/ \E verdict \in {"not_fit", "unreviewed"} : Judge(a, r, b, verdict)
    PROVE  TypeOK' /\ HoldsRun'
<1> a \in Executor
  BY DEF Executor
<1>1. review' \in [Run -> [Business -> ReviewState]]
  <2>1. CASE Shortlist(a, r, b)
    BY <2>1 DEF Shortlist, TypeOK, ReviewState
  <2>2. CASE \E verdict \in {"not_fit", "unreviewed"} : Judge(a, r, b, verdict)
    BY <2>2 DEF Judge, TypeOK, ReviewState
  <2> QED
    BY <2>1, <2>2
<1>2. /\ pc' = [pc EXCEPT ![a] = "refilling"]
      /\ raced' \subseteq Business
      /\ UNCHANGED <<runVars, rank, jobVars, audienceVars, localVars, crashes>>
  BY DEF Shortlist, Judge, Goto, TypeOK
<1>3. HoldsRun'
  BY <1>2 DEF TypeOK, HoldsRun, localVars
<1>4. TypeOK'
  BY <1>1, <1>2 DEF TypeOK, runVars, jobVars, audienceVars, localVars
<1> QED
  BY <1>3, <1>4

\* Every step of a session keeps the types.
LEMMA SessionTypes ==
    ASSUME TypeOK, HoldsRun, NEW a \in Api, RequestStep(a) \/ RequestStart(a)
    PROVE  TypeOK' /\ HoldsRun'
<1> a \in Executor
  BY DEF Executor
<1>1. CASE RequestStep(a)
  BY <1>1, CreateInsertTypes, EnqueueCreatedTypes, RefillIfDepletedTypes, PollLockTypes,
     ProcessTypes, PollFinishTypes, PollFailTypes DEF RequestStep
<1>2. CASE RequestStart(a)
  BY <1>2, CreateSelectTypes, PollTypes, ReviewTypes DEF RequestStart, Refill
<1> QED
  BY <1>1, <1>2

(***************************************************************************)
(* The theorem                                                             *)
(***************************************************************************)

\* Edits, facts, deadlines and stuttering keep the types.
LEMMA WorldTypes ==
    ASSUME TypeOK, HoldsRun,
           \/ EditCriteria
           \/ \E b \in Business : FactsChange(b)
           \/ \E r \in Run : DeadlinePasses(r)
           \/ UNCHANGED vars
    PROVE  TypeOK' /\ HoldsRun'
<1>1. CASE EditCriteria
  BY <1>1, AudienceAssumption
  DEF EditCriteria, TypeOK, HoldsRun, runVars, resultVars, jobVars, localVars
<1>2. CASE \E b \in Business : FactsChange(b)
  BY <1>2 DEF FactsChange, TypeOK, HoldsRun, runVars, resultVars, jobVars, localVars
<1>3. CASE \E r \in Run : DeadlinePasses(r)
  BY <1>3 DEF DeadlinePasses, TypeOK, HoldsRun, resultVars, jobVars, audienceVars, localVars
<1>4. CASE UNCHANGED vars
  BY <1>4 DEF vars, TypeOK, HoldsRun, runVars, resultVars, jobVars, audienceVars, localVars
<1> QED
  BY <1>1, <1>2, <1>3, <1>4

\* A crash keeps the types.
LEMMA CrashTypes ==
    ASSUME TypeOK, HoldsRun, NEW x \in Executor, Crash(x)
    PROVE  TypeOK' /\ HoldsRun'
<1>1. crashes' \in 0..MaxCrashes
  BY AudienceAssumption DEF Crash, TypeOK
<1>2. Leave(x) /\ UNCHANGED <<runVars, resultVars, jobVars, audienceVars, raced>>
  BY DEF Crash
<1> QED
  BY <1>1, <1>2, LeaveType DEF TypeOK, runVars, resultVars, jobVars, audienceVars

\* The type invariant, with what an executor holds, is inductive.
LEMMA StepTypes == TypeOK /\ HoldsRun /\ [Next]_vars => TypeOK' /\ HoldsRun'
BY WorkerStepTypes, SessionTypes, CrashTypes, ScheduleWaitingTypes, WorldTypes DEF Next

\* Every variable keeps its type, and an executor at work is at work on a run that
\* exists, in every behaviour of the runs of an audience.
THEOREM TypeCorrect == Spec => []TypeOK
<1>1. TypeOK /\ HoldsRun /\ [Next]_vars => TypeOK' /\ HoldsRun'
  BY StepTypes
<1> QED
  BY InitTypes, <1>1, PTL DEF Spec

(***************************************************************************)
(* A run that is READY is full                                             *)
(***************************************************************************)

\* A step that touches no result and makes no run READY.
Quiet ==
    /\ rank' = rank
    /\ \A r \in Run : state'[r] = "ready" => state[r] = "ready"

\* Only the writes of process touch results or make a run READY.
LEMMA OthersAreQuiet ==
    ASSUME TypeOK, HoldsRun, [Next]_vars, ~\E x \in Executor : ProcessWrite(x)
    PROVE  Quiet
<1>1. ASSUME NEW x \in Executor, Process(x)
      PROVE  Quiet
  <2>1. CASE ProcessStart(x)
    BY <2>1 DEF ProcessStart, TypeOK, Quiet, resultVars
  <2>2. CASE ProcessMatch(x) \/ ProcessRead(x) \/ ProcessRaise(x)
    BY <2>2 DEF ProcessMatch, ProcessRead, ProcessRaise, Quiet, runVars, resultVars
  <2> QED
    BY <1>1, <2>1, <2>2 DEF Process
<1>2. ASSUME NEW a \in Api, CreateSelect(a)
      PROVE  Quiet
  BY <1>2 DEF CreateSelect, Quiet, runVars, resultVars
<1>3. ASSUME NEW w \in Worker, WorkerStep(w)
      PROVE  Quiet
  <2> w \in Executor
    BY DEF Executor
  <2>1. CASE Process(w)
    BY <1>1, <2>1
  <2>2. CASE \E r \in Run : ClaimRun(w, r) \/ RecoverRun(w, r)
    BY <2>2 DEF ClaimRun, RecoverRun, Quiet, runVars, resultVars
  <2>3. CASE CompleteRun(w) \/ FailJob(w)
    BY <2>3 DEF CompleteRun, FailJob, Quiet, runVars, resultVars
  <2>4. CASE FailRun(w)
    BY <2>4 DEF FailRun, TypeOK, Quiet, resultVars
  <2>5. CASE Expand(w)
    BY <2>5 DEF Expand, TypeOK, Quiet, resultVars
  <2> QED
    BY <1>3, <2>1, <2>2, <2>3, <2>4, <2>5 DEF WorkerStep
<1>4. ASSUME NEW a \in Api, RequestStep(a)
      PROVE  Quiet
  <2> a \in Executor
    BY DEF Executor
  <2>1. CASE Process(a)
    BY <1>1, <2>1
  <2>2. CASE CreateInsert(a)
    BY <2>2 DEF CreateInsert, TypeOK, Quiet, runVars, resultVars
  <2>3. CASE EnqueueCreated(a) \/ PollLock(a) \/ PollFinish(a)
    BY <2>3 DEF EnqueueCreated, PollLock, PollFinish, Quiet, runVars, resultVars
  <2>4. CASE RefillIfDepleted(a)
    BY <1>2, <2>4 DEF RefillIfDepleted, Quiet, runVars, resultVars
  <2>5. CASE PollFail(a)
    BY <2>5 DEF PollFail, TypeOK, Quiet, resultVars
  <2> QED
    BY <1>4, <2>1, <2>2, <2>3, <2>4, <2>5 DEF RequestStep
<1>5. ASSUME NEW a \in Api, RequestStart(a)
      PROVE  Quiet
  BY <1>2, <1>5 DEF RequestStart, Refill, Poll, Shortlist, Judge, Quiet, runVars, resultVars
<1>6. CASE \/ \E x \in Executor : Crash(x)
           \/ ScheduleWaiting
           \/ EditCriteria
           \/ \E b \in Business : FactsChange(b)
           \/ UNCHANGED vars
  BY <1>6 DEF Crash, ScheduleWaiting, EditCriteria, FactsChange, Quiet, vars, runVars, resultVars
<1>7. CASE \E r \in Run : DeadlinePasses(r)
  BY <1>7 DEF DeadlinePasses, Quiet, resultVars
<1> QED
  BY <1>3, <1>4, <1>5, <1>6, <1>7 DEF Next

\* The results a run holds after the writes include every one that was selected.
LEMMA SelectedAreWritten ==
    ASSUME TypeOK, NEW x \in Executor, NEW r \in Run, on[x] = r,
           rank' = [rank EXCEPT ![r] = WrittenRanks(x)]
    PROVE  {b \in Business : plan[x][b] > 0} \subseteq Rows(r)'
<1>1. SUFFICES ASSUME NEW b \in Business, plan[x][b] > 0
               PROVE  rank'[r][b] > 0
  BY DEF Rows
<1>2. rank'[r] = WrittenRanks(x)
  BY DEF TypeOK
<1> QED
  BY <1>1, <1>2 DEF WrittenRanks

\* When the writes make a run READY, as many results as were asked for are written.
LEMMA WriteFills ==
    ASSUME TypeOK, HoldsRun, ReadyIsFull, NEW x \in Executor, ProcessWrite(x)
    PROVE  ReadyIsFull'
<1>1. PICK r \in Run : r = on[x]
  BY DEF ProcessWrite, HoldsRun
<1> DEFINE requested == IF coverage[r] = "none" THEN "queued" ELSE coverage[r]
           end == Outcome(x, requested)
           selected == {b \in Business : plan[x][b] > 0}
<1>2. CASE WriteRaises(x)
  BY <1>2 DEF ProcessWrite, ReadyIsFull, Rows
<1>3. CASE ~WriteRaises(x)
  <2>1. /\ rank' = [rank EXCEPT ![r] = WrittenRanks(x)]
        /\ state' = [state EXCEPT ![r] = end.state]
    BY <1>1, <1>3 DEF ProcessWrite
  <2>2. end.state = "ready" => Cardinality(selected) >= Batch
    BY DEF Outcome
  <2>3. IsFiniteSet(Rows(r)') /\ selected \subseteq Rows(r)'
    <3>1. Rows(r)' \subseteq Business
      BY DEF Rows
    <3> QED
      BY <1>1, <2>1, <3>1, SelectedAreWritten, FS_Subset, MatchingAssumption
  <2>4. /\ Cardinality(selected) <= Cardinality(Rows(r)')
        /\ Cardinality(selected) \in Nat /\ Cardinality(Rows(r)') \in Nat
    BY <2>3, FS_Subset, FS_CardinalityType
  <2> HIDE DEF end, selected
  <2>5. ASSUME NEW q \in Run, state'[q] = "ready"
        PROVE  Cardinality(Rows(q)') >= Batch
    <3>1. CASE q = r
      <4>1. end.state = "ready"
        BY <1>1, <2>1, <2>5, <3>1 DEF TypeOK
      <4> QED
        BY <2>2, <2>4, <3>1, <4>1, AudienceAssumption
    <3>2. CASE q # r
      <4>1. state[q] = "ready" /\ rank'[q] = rank[q]
        BY <1>1, <2>1, <2>5, <3>2 DEF TypeOK
      <4>2. Rows(q)' = Rows(q)
        BY <4>1 DEF Rows
      <4> QED
        BY <4>1, <4>2 DEF ReadyIsFull
    <3> QED
      BY <3>1, <3>2
  <2> QED
    BY <2>5 DEF ReadyIsFull
<1> QED
  BY <1>2, <1>3

\* A run that is READY holds the batch that was asked for, in every behaviour of
\* the runs of an audience: however many workers and polling requests write the
\* results of the same run.
THEOREM ReadyIsFullHolds == Spec => []ReadyIsFull
<1>1. Init => ReadyIsFull
  BY DEF Init, ReadyIsFull
<1>2. TypeOK /\ HoldsRun /\ ReadyIsFull /\ [Next]_vars => ReadyIsFull'
  <2> SUFFICES ASSUME TypeOK, HoldsRun, ReadyIsFull, [Next]_vars
               PROVE  ReadyIsFull'
    OBVIOUS
  <2>1. CASE \E x \in Executor : ProcessWrite(x)
    BY <2>1, WriteFills
  <2>2. CASE ~\E x \in Executor : ProcessWrite(x)
    BY <2>2, OthersAreQuiet DEF Quiet, ReadyIsFull, Rows
  <2> QED
    BY <2>1, <2>2
<1>3. TypeOK /\ HoldsRun /\ [Next]_vars => TypeOK' /\ HoldsRun'
  BY StepTypes
<1> QED
  BY InitTypes, <1>1, <1>2, <1>3, PTL DEF Spec

(***************************************************************************)
(* What the user has dismissed stays out                                   *)
(***************************************************************************)

\* Verdicts stand in results, and who is about to deliver a dismissed business had
\* planned it before the verdict.
VerdictInv ==
    /\ \A r \in Run, b \in Business : review[r][b] = "not_fit" => rank[r][b] > 0
    /\ \A x \in Executor, r \in Run, b \in Business :
          plan[x][b] > 0 /\ review[r][b] = "not_fit" => b \in raced

\* A step that touches no result and no verdict and plans nothing.
Calm ==
    /\ rank' = rank /\ review' = review /\ raced' = raced
    /\ \A x \in Executor, b \in Business : plan'[x][b] > 0 => plan[x][b] > 0

\* Whoever leaves has no plan.
LEMMA ForgetPlansNothing ==
    ASSUME TypeOK, NEW x \in Executor, Forget(x) \/ Leave(x)
    PROVE  \A y \in Executor, b \in Business : plan'[y][b] > 0 => plan[y][b] > 0
<1>1. plan' = [plan EXCEPT ![x] = NoRanks]
  BY DEF Leave, Forget
<1> QED
  BY <1>1 DEF NoRanks, TypeOK

\* Only process and the user's verdicts are not calm.
LEMMA OthersAreCalm ==
    ASSUME TypeOK, HoldsRun, [Next]_vars,
           ~\E x \in Executor : ProcessRead(x) \/ ProcessWrite(x),
           ~\E a \in Api, r \in Run, b \in Business :
               Shortlist(a, r, b) \/ \E verdict \in {"not_fit", "unreviewed"} : Judge(a, r, b, verdict)
    PROVE  Calm
<1>1. ASSUME NEW x \in Executor, Process(x)
      PROVE  Calm
  <2>1. CASE ProcessStart(x)
    BY <2>1 DEF ProcessStart, Calm, resultVars
  <2>2. CASE ProcessMatch(x)
    BY <2>2 DEF ProcessMatch, Calm, resultVars
  <2>3. CASE ProcessRaise(x)
    BY <2>3, ForgetPlansNothing DEF ProcessRaise, Calm, resultVars
  <2> QED
    BY <1>1, <2>1, <2>2, <2>3 DEF Process
<1>2. ASSUME NEW a \in Api, CreateSelect(a)
      PROVE  Calm
  BY <1>2 DEF CreateSelect, Calm, resultVars
<1>3. ASSUME NEW w \in Worker, WorkerStep(w)
      PROVE  Calm
  <2> w \in Executor
    BY DEF Executor
  <2>1. CASE Process(w)
    BY <1>1, <2>1
  <2>2. CASE \E r \in Run : ClaimRun(w, r)
    BY <2>2 DEF ClaimRun, Calm, resultVars
  <2>3. CASE \E r \in Run : RecoverRun(w, r)
    BY <2>3 DEF RecoverRun, Calm, resultVars
  <2>4. CASE CompleteRun(w)
    BY <2>4, ForgetPlansNothing DEF CompleteRun, Calm, resultVars
  <2>5. CASE FailJob(w)
    <3>1. rank' = rank /\ review' = review /\ raced' = raced
      BY <2>5 DEF FailJob, resultVars
    <3>2. Leave(w) \/ UNCHANGED plan
      BY <2>5 DEF FailJob
    <3> QED
      BY <3>1, <3>2, ForgetPlansNothing DEF Calm
  <2>6. CASE FailRun(w)
    BY <2>6, ForgetPlansNothing DEF FailRun, Calm, resultVars
  <2>7. CASE Expand(w)
    BY <2>7 DEF Expand, Calm, resultVars, localVars
  <2> QED
    BY <1>3, <2>1, <2>2, <2>3, <2>4, <2>5, <2>6, <2>7 DEF WorkerStep
<1>4. ASSUME NEW a \in Api, RequestStep(a)
      PROVE  Calm
  <2> a \in Executor
    BY DEF Executor
  <2>1. CASE Process(a)
    BY <1>1, <2>1
  <2>2. CASE CreateInsert(a)
    BY <2>2 DEF CreateInsert, Calm, resultVars
  <2>3. CASE EnqueueCreated(a)
    BY <2>3 DEF EnqueueCreated, Calm, resultVars
  <2>4. CASE PollLock(a)
    <3>1. rank' = rank /\ review' = review /\ raced' = raced
      BY <2>4 DEF PollLock, resultVars
    <3>2. Leave(a) \/ UNCHANGED plan
      BY <2>4 DEF PollLock
    <3> QED
      BY <3>1, <3>2, ForgetPlansNothing DEF Calm
  <2>5. CASE PollFinish(a)
    BY <2>5, ForgetPlansNothing DEF PollFinish, Calm, resultVars
  <2>6. CASE RefillIfDepleted(a)
    BY <1>2, <2>6 DEF RefillIfDepleted, Calm, resultVars, localVars
  <2>7. CASE PollFail(a)
    BY <2>7, ForgetPlansNothing DEF PollFail, Calm, resultVars
  <2> QED
    BY <1>4, <2>1, <2>2, <2>3, <2>4, <2>5, <2>6, <2>7 DEF RequestStep
<1>5. ASSUME NEW a \in Api, RequestStart(a)
      PROVE  Calm
  <2>1. CASE Refill(a)
    BY <1>2, <2>1 DEF Refill
  <2>2. CASE Poll(a)
    BY <2>2 DEF Poll, Calm, resultVars
  <2> QED
    BY <1>5, <2>1, <2>2 DEF RequestStart
<1>6. CASE \E x \in Executor : Crash(x)
  BY <1>6, ForgetPlansNothing DEF Crash, Calm, resultVars
<1>7. CASE ScheduleWaiting \/ EditCriteria
  BY <1>7 DEF ScheduleWaiting, EditCriteria, Calm, resultVars, localVars
<1>8. CASE (\E b \in Business : FactsChange(b)) \/ (\E r \in Run : DeadlinePasses(r))
  BY <1>8 DEF FactsChange, DeadlinePasses, Calm, resultVars, localVars
<1>9. CASE UNCHANGED vars
  BY <1>9 DEF Calm, vars, resultVars, localVars
<1> QED
  BY <1>3, <1>4, <1>5, <1>6, <1>7, <1>8, <1>9 DEF Next

\* What is written to a run: its executor's plan, and results nobody planned stay or
\* go.
LEMMA WriteShape ==
    ASSUME TypeOK, HoldsRun, NEW x \in Executor, ProcessWrite(x)
    PROVE  /\ raced' = raced
           /\ \A y \in Executor, b \in Business : plan'[y][b] > 0 => plan[y][b] > 0
           /\ \A q \in Run, b \in Business :
                 /\ review'[q][b] = "not_fit" =>
                       \/ review[q][b] = "not_fit" /\ rank'[q][b] > 0
                       \/ rank'[q][b] = rank[q][b] /\ review'[q][b] = review[q][b]
                 /\ rank[q][b] = 0 /\ rank'[q][b] > 0 => plan[x][b] > 0
<1>1. raced' = raced /\ Forget(x) /\ on[x] \in Run
  BY DEF ProcessWrite, HoldsRun
<1>2. CASE WriteRaises(x)
  <2>1. UNCHANGED <<rank, review>>
    BY <1>2 DEF ProcessWrite
  <2> QED
    BY <1>1, <2>1, ForgetPlansNothing
<1>3. CASE ~WriteRaises(x)
  <2>1. /\ rank' = [rank EXCEPT ![on[x]] = WrittenRanks(x)]
        /\ review' = [review EXCEPT ![on[x]] =
              [b \in Business |-> IF rank'[on[x]][b] > 0 /\ rank[on[x]][b] > 0 THEN @[b]
                                  ELSE "unreviewed"]]
    BY <1>3 DEF ProcessWrite
  <2>2. ASSUME NEW q \in Run, NEW b \in Business
        PROVE  /\ review'[q][b] = "not_fit" =>
                     \/ review[q][b] = "not_fit" /\ rank'[q][b] > 0
                     \/ rank'[q][b] = rank[q][b] /\ review'[q][b] = review[q][b]
               /\ rank[q][b] = 0 /\ rank'[q][b] > 0 => plan[x][b] > 0
    <3>1. CASE q = on[x]
      <4>1. rank'[q][b] = WrittenRanks(x)[b]
        BY <1>1, <2>1, <3>1 DEF TypeOK
      <4>2. review'[q][b] = IF rank'[q][b] > 0 /\ rank[q][b] > 0 THEN review[q][b] ELSE "unreviewed"
        BY <1>1, <2>1, <3>1 DEF TypeOK
      <4>3. rank[q][b] = 0 /\ WrittenRanks(x)[b] > 0 => plan[x][b] > 0
        BY <3>1 DEF WrittenRanks, TypeOK
      <4> QED
        BY <4>1, <4>2, <4>3
    <3>2. CASE q # on[x]
      BY <1>1, <2>1, <3>2 DEF TypeOK
    <3> QED
      BY <3>1, <3>2
  <2> QED
    BY <1>1, <2>2, ForgetPlansNothing
<1> QED
  BY <1>2, <1>3

\* A plan holds nothing that has been dismissed.
LEMMA PlansAreInnocent ==
    ASSUME TypeOK, HoldsRun, VerdictInv, NEW x \in Executor, ProcessRead(x)
    PROVE  VerdictInv'
<1>1. PICK W \in Windows(pool[x], found) :
         \E p \in Plans(on[x], W) : plan' = [plan EXCEPT ![x] = p]
  BY DEF ProcessRead
<1>2. PICK p \in Plans(on[x], W) : plan' = [plan EXCEPT ![x] = p]
  BY <1>1
<1>3. UNCHANGED <<rank, review, raced>>
  BY DEF ProcessRead, resultVars
<1>4. {b \in Business : p[b] > 0} \subseteq W \ Rejected
  BY <1>2 DEF Plans, Best
<1>5. ASSUME NEW y \in Executor, NEW r \in Run, NEW b \in Business,
             plan'[y][b] > 0, review[r][b] = "not_fit"
      PROVE  b \in raced
  <2>1. CASE y = x
    <3>1. p[b] > 0
      BY <1>2, <1>5, <2>1 DEF TypeOK
    <3>2. b \in Rejected
      BY <1>5 DEF Rejected, VerdictInv
    <3> QED
      BY <1>4, <3>1, <3>2
  <2>2. CASE y # x
    BY <1>2, <1>5, <2>2 DEF TypeOK, VerdictInv
  <2> QED
    BY <2>1, <2>2
<1> QED
  BY <1>3, <1>5 DEF VerdictInv

\* A verdict is given to results, and whoever has planned the business is noted.
LEMMA JudgeKeepsVerdicts ==
    ASSUME TypeOK, VerdictInv, NEW a \in Api, NEW r \in Run, NEW b \in Business,
           NEW verdict \in {"not_fit", "unreviewed"}, Judge(a, r, b, verdict)
    PROVE  VerdictInv'
<1>1. /\ UNCHANGED <<rank, plan>>
      /\ review' = [q \in Run |-> [review[q] EXCEPT ![b] =
            IF rank[q][b] > 0 /\ (verdict = "not_fit" \/ @ = "not_fit") THEN verdict ELSE @]]
      /\ raced' = IF verdict = "not_fit" /\ \E x \in Executor : plan[x][b] > 0
                  THEN raced \cup {b} ELSE raced \ {b}
  BY DEF Judge, localVars
<1>2. \A q \in Run, c \in Business \ {b} : review'[q][c] = review[q][c]
  BY <1>1 DEF TypeOK
<1>3. \A q \in Run : review'[q][b] =
          IF rank[q][b] > 0 /\ (verdict = "not_fit" \/ review[q][b] = "not_fit")
          THEN verdict ELSE review[q][b]
  BY <1>1 DEF TypeOK
<1>4. \A c \in Business \ {b} : c \in raced' <=> c \in raced
  BY <1>1
<1>5. \A q \in Run : review'[q][b] = "not_fit" => rank[q][b] > 0 /\ verdict = "not_fit"
  BY <1>3 DEF VerdictInv
<1>6. verdict = "not_fit" /\ (\E x \in Executor : plan[x][b] > 0) => b \in raced'
  BY <1>1
<1>7. \A q \in Run, c \in Business : review'[q][c] = "not_fit" => rank'[q][c] > 0
  BY <1>1, <1>2, <1>5 DEF VerdictInv
<1>8. \A x \in Executor, q \in Run, c \in Business :
          plan'[x][c] > 0 /\ review'[q][c] = "not_fit" => c \in raced'
  BY <1>1, <1>2, <1>4, <1>5, <1>6 DEF VerdictInv
<1> QED
  BY <1>7, <1>8 DEF VerdictInv

\* Shortlisting gives no verdict.
LEMMA ShortlistKeepsVerdicts ==
    ASSUME TypeOK, VerdictInv, NEW a \in Api, NEW r \in Run, NEW b \in Business, Shortlist(a, r, b)
    PROVE  VerdictInv'
<1>1. /\ UNCHANGED <<rank, plan, raced>>
      /\ review' = [review EXCEPT ![r][b] = IF @ = "shortlisted" THEN "unreviewed" ELSE "shortlisted"]
  BY DEF Shortlist, localVars
<1>2. \A q \in Run, c \in Business : review'[q][c] = "not_fit" => review[q][c] = "not_fit"
  BY <1>1 DEF TypeOK
<1> QED
  BY <1>1, <1>2 DEF VerdictInv

\* The invariant holds of the runs of an audience.
LEMMA VerdictsHold == Spec => [](TypeOK /\ HoldsRun /\ VerdictInv)
<1>1. Init => VerdictInv
  BY DEF Init, VerdictInv, NoRanks
<1>2. TypeOK /\ HoldsRun /\ VerdictInv /\ [Next]_vars => VerdictInv'
  <2> SUFFICES ASSUME TypeOK, HoldsRun, VerdictInv, [Next]_vars
               PROVE  VerdictInv'
    OBVIOUS
  <2>1. CASE \E x \in Executor : ProcessRead(x)
    BY <2>1, PlansAreInnocent
  <2>2. ASSUME NEW x \in Executor, ProcessWrite(x)
        PROVE  VerdictInv'
    <3>1. \A q \in Run, b \in Business : review'[q][b] = "not_fit" =>
              review[q][b] = "not_fit" /\ rank'[q][b] > 0
      BY <2>2, WriteShape DEF VerdictInv
    <3> QED
      BY <2>2, <3>1, WriteShape DEF VerdictInv
  <2>3. CASE \E a \in Api, r \in Run, b \in Business :
               Shortlist(a, r, b) \/ \E verdict \in {"not_fit", "unreviewed"} : Judge(a, r, b, verdict)
    BY <2>3, ShortlistKeepsVerdicts, JudgeKeepsVerdicts
  <2>4. CASE Calm
    BY <2>4 DEF Calm, VerdictInv
  <2> QED
    BY <2>1, <2>2, <2>3, <2>4, OthersAreCalm
<1>3. TypeOK /\ HoldsRun /\ [Next]_vars => TypeOK' /\ HoldsRun'
  BY StepTypes
<1> QED
  BY InitTypes, <1>1, <1>2, <1>3, PTL DEF Spec

\* What the user has dismissed is not delivered again by any later run, in every
\* behaviour of the runs of an audience, unless a run that had planned it before
\* the verdict writes it afterwards.
THEOREM DismissedStaysOutHolds == Spec => DismissedStaysOut
<1>1. TypeOK /\ HoldsRun /\ VerdictInv /\ [Next]_vars =>
         \A r \in Run, b \in Business :
             rank[r][b] = 0 /\ rank'[r][b] > 0 /\ b \notin raced =>
                 \A q \in Run : review[q][b] # "not_fit"
  <2> SUFFICES ASSUME TypeOK, HoldsRun, VerdictInv, [Next]_vars,
                      NEW r \in Run, NEW b \in Business,
                      rank[r][b] = 0, rank'[r][b] > 0, b \notin raced
               PROVE  \A q \in Run : review[q][b] # "not_fit"
    OBVIOUS
  <2>1. PICK x \in Executor : ProcessWrite(x)
    BY OthersAreQuiet DEF Quiet
  <2>2. plan[x][b] > 0
    BY <2>1, WriteShape
  <2> QED
    BY <2>2 DEF VerdictInv
<1> QED
  BY <1>1, VerdictsHold, PTL DEF DismissedStaysOut, Spec

(***************************************************************************)
(* What a run ends with                                                    *)
(*                                                                         *)
(* While nobody polls and no job is given up, a run has one executor at a  *)
(* time and nobody else writes it: what the executor has read of the run   *)
(* stays true until it writes.  A worker that gives a job up sets the run  *)
(* FAILED in a transaction of its own, whatever has become of the run      *)
(* meanwhile, and a poll takes a run over from the worker that has it.     *)
(***************************************************************************)

\* Nobody is about to set a run FAILED whose job is in the dead letters.
NothingGivenUp == \A w \in Worker : pc[w] # "burying"

InRequest == {"idle", "creating", "enqueueing", "refilling"}

\* Only workers execute, each holds the latest job of its run, and no two have the
\* same run.
OneExecutor ==
    /\ \A a \in Api : pc[a] \in InRequest
    /\ \A w \in Worker :
          /\ pc[w] \in AtWork \cup {"idle"}
          /\ pc[w] \in AtWork => mine[w] /\ jobStatus[on[w]] = "running"
    /\ \A v, w \in Worker : pc[v] \in AtWork /\ pc[w] \in AtWork /\ on[v] = on[w] => v = w

\* The numbers that are still to be given have no run and no job.
Unborn ==
    /\ \A r \in Run : r >= nextRun => jobStatus[r] = "none" /\ coverage[r] = "none"
    /\ \A r \in Run : state[r] = "absent" <=> r >= nextRun
    /\ \A a \in Api : pc[a] = "enqueueing" => on[a] < nextRun

\* Requests execute nothing, and a worker at work holds the running job of its run.
Orderly ==
    /\ \A a \in Api : pc[a] \in InRequest
    /\ \A w \in Worker : pc[w] \in AtWork => mine[w] /\ jobStatus[on[w]] = "running"
    /\ Unborn

\* What the executor has read of its run is still so.
KnowsRun(w) ==
    /\ pc[w] = "starting" => cached[w] = state[on[w]]
    /\ pc[w] \in {"matching", "scoring", "writing"} =>
          state[on[w]] = "matching" /\ (late[w] => overdue[on[w]])
    /\ pc[w] = "expanding" => state[on[w]] = "waiting_validation" /\ coverage[on[w]] = "queued"

\* Coverage is completed with the run, and what ended short of its deadline has none.
Settled(r) ==
    /\ coverage[r] = "completed" => state[r] \in DeliveredState
    /\ state[r] = "partial" /\ ~overdue[r] => coverage[r] = "failed"

RunLife ==
    /\ OneExecutor
    /\ Unborn
    /\ \A w \in Worker : KnowsRun(w)
    /\ \A r \in Run : Settled(r)

\* What has been delivered stays as it is in this step.
KeepsDelivered == \A r \in Run : state[r] \in DeliveredState => state'[r] = state[r]

\* The only thing that happens to jobs is that they are asked for.
AsksOnly ==
    \A r \in Run : \/ jobStatus'[r] = jobStatus[r]
                   \/ jobStatus[r] \notin ActiveJob /\ jobStatus'[r] = "queued"

\* A step of the requests, the scheduler or the world: no executor is disturbed, and
\* the only run that changes is the one that is created.
Aside ==
    /\ \A a \in Api : pc'[a] \in InRequest /\ (pc'[a] = "enqueueing" => on'[a] < nextRun')
    /\ \A w \in Worker :
          /\ pc'[w] = pc[w] /\ on'[w] = on[w] /\ cached'[w] = cached[w] /\ late'[w] = late[w]
          /\ pc[w] \in AtWork => mine'[w]
    /\ AsksOnly
    /\ \A r \in Run : r >= nextRun' => jobStatus'[r] = "none"
    /\ \A r \in Run : overdue[r] => overdue'[r]
    /\ coverage' = coverage
    /\ \/ UNCHANGED <<state, nextRun>>
       \/ /\ nextRun \in Run
          /\ nextRun' = nextRun + 1
          /\ state' = [state EXCEPT ![nextRun] = "queued"]

\* Such a step keeps the order.
LEMMA AsideKeepsOrder ==
    ASSUME TypeOK, HoldsRun, Orderly, Aside
    PROVE  /\ Orderly'
           /\ \A r \in Run : \/ state'[r] = state[r]
                             \/ r = nextRun /\ nextRun' = nextRun + 1 /\ state'[r] = "queued"
           /\ \A r \in Run : r < nextRun => state'[r] = state[r]
           /\ \A w \in Worker : pc[w] \in AtWork => on[w] \in Run /\ on[w] < nextRun
<1>1. \A w \in Worker : pc[w] \in AtWork => on[w] \in Run /\ on[w] < nextRun
  <2>1. \A w \in Worker : pc[w] \in AtWork => on[w] \in Run /\ jobStatus[on[w]] = "running"
    BY DEF Orderly, HoldsRun, AtWork, Executor
  <2>2. nextRun \in Nat /\ Run \subseteq Nat
    BY AudienceAssumption DEF TypeOK, Run
  <2>3. ASSUME NEW r \in Run, jobStatus[r] = "running"
        PROVE  r < nextRun
    <3>1. ~(r >= nextRun)
      BY <2>3 DEF Orderly, Unborn
    <3>2. r \in Nat /\ nextRun \in Nat
      BY <2>2
    <3> QED
      BY ONLY <3>1, <3>2, SMT
  <2> QED
    BY <2>1, <2>3
<1>2. nextRun \in Nat /\ nextRun' \in Nat /\ nextRun <= nextRun' /\ Run \subseteq Nat
  BY AudienceAssumption DEF Aside, TypeOK, Run
<1>3. ASSUME NEW r \in Run
      PROVE  \/ state'[r] = state[r]
             \/ r = nextRun /\ nextRun' = nextRun + 1 /\ state'[r] = "queued"
  <2>1. CASE UNCHANGED <<state, nextRun>>
    BY <2>1
  <2>2. CASE nextRun' = nextRun + 1 /\ state' = [state EXCEPT ![nextRun] = "queued"]
    BY <2>2 DEF TypeOK
  <2> QED
    BY <2>1, <2>2 DEF Aside
<1>4. \A r \in Run : r < nextRun => state'[r] = state[r]
  BY <1>2, <1>3
<1>5. ASSUME NEW w \in Worker, pc'[w] \in AtWork
      PROVE  mine'[w] /\ jobStatus'[on'[w]] = "running"
  <2>1. pc[w] \in AtWork /\ on'[w] = on[w] /\ mine'[w]
    BY <1>5 DEF Aside
  <2>2. on[w] \in Run /\ jobStatus[on[w]] = "running"
    BY <1>1, <2>1 DEF Orderly
  <2> QED
    BY <2>1, <2>2 DEF Aside, AsksOnly, ActiveJob
<1>6. Unborn'
  <2>1. \A r \in Run : r >= nextRun' => jobStatus'[r] = "none" /\ coverage'[r] = "none"
    BY <1>2 DEF Aside, Orderly, Unborn
  <2>2. \A r \in Run : state'[r] = "absent" <=> r >= nextRun'
    <3>1. CASE UNCHANGED <<state, nextRun>>
      BY <3>1 DEF Orderly, Unborn
    <3>2. CASE nextRun' = nextRun + 1 /\ state' = [state EXCEPT ![nextRun] = "queued"]
      BY <1>2, <3>2 DEF Orderly, Unborn, TypeOK
    <3> QED
      BY <3>1, <3>2 DEF Aside
  <2> QED
    BY <2>1, <2>2 DEF Aside, Unborn
<1>7. Orderly'
  BY <1>5, <1>6 DEF Orderly, Aside
<1> QED
  BY <1>1, <1>3, <1>4, <1>7

\* A run's life is in order.
LEMMA LifeIsOrderly == RunLife => Orderly
BY DEF RunLife, OneExecutor, Orderly

\* It keeps the life of the runs.
LEMMA AsideKeepsLife ==
    ASSUME TypeOK, HoldsRun, RunLife, Aside
    PROVE  RunLife' /\ KeepsDelivered
<1>0. nextRun \in Nat /\ Run \subseteq Nat
  BY AudienceAssumption DEF TypeOK, Run
<1>1. /\ Orderly'
      /\ \A r \in Run : \/ state'[r] = state[r]
                        \/ r = nextRun /\ nextRun' = nextRun + 1 /\ state'[r] = "queued"
      /\ \A r \in Run : r < nextRun => state'[r] = state[r]
      /\ \A w \in Worker : pc[w] \in AtWork => on[w] \in Run /\ on[w] < nextRun
  BY LifeIsOrderly, AsideKeepsOrder
<1>2. OneExecutor' /\ Unborn'
  <2>1. \A w \in Worker : pc'[w] \in AtWork \cup {"idle"}
    BY DEF Aside, RunLife, OneExecutor
  <2>2. \A v, w \in Worker : pc'[v] \in AtWork /\ pc'[w] \in AtWork /\ on'[v] = on'[w] => v = w
    BY DEF Aside, RunLife, OneExecutor
  <2> QED
    BY <1>1, <2>1, <2>2 DEF OneExecutor, Orderly
<1>3. ASSUME NEW w \in Worker
      PROVE  KnowsRun(w)'
  <2>1. /\ pc'[w] = pc[w] /\ on'[w] = on[w] /\ cached'[w] = cached[w] /\ late'[w] = late[w]
        /\ coverage' = coverage
    BY DEF Aside
  <2>2. pc[w] \in AtWork => /\ state'[on[w]] = state[on[w]]
                            /\ overdue[on[w]] => overdue'[on[w]]
    BY <1>1 DEF Aside
  <2> QED
    BY <2>1, <2>2 DEF RunLife, KnowsRun, AtWork
<1>4. ASSUME NEW r \in Run
      PROVE  Settled(r)'
  <2>1. coverage'[r] = coverage[r] /\ (overdue[r] => overdue'[r])
    BY DEF Aside
  <2>2. CASE state'[r] = state[r]
    BY <2>1, <2>2 DEF RunLife, Settled
  <2>3. CASE r = nextRun /\ state'[r] = "queued"
    BY <1>0, <2>1, <2>3 DEF RunLife, Unborn, Settled
  <2> QED
    BY <1>1, <2>2, <2>3
<1>5. KeepsDelivered
  <2>1. \A r \in Run : state[r] \in DeliveredState => r < nextRun
    BY <1>0 DEF RunLife, Unborn, DeliveredState
  <2> QED
    BY <1>1, <2>1 DEF KeepsDelivered
<1> QED
  BY <1>2, <1>3, <1>4, <1>5 DEF RunLife

\* The greatest of some numbers up to a bound is one of them.
LEMMA MaxIsMember ==
    ASSUME NEW n \in Nat, NEW S \in SUBSET (1..n), S # {}
    PROVE  Max(S) \in S /\ \A y \in S : Max(S) >= y
<1> DEFINE T == {n - s : s \in S}
<1>1. T \subseteq Nat /\ T # {}
  <2>1. \A s \in S : n - s \in Nat
    OBVIOUS
  <2> QED
    BY <2>1
<1>2. PICK m \in T : \A t \in T : ~(<<t, m>> \in OpToRel(<, Nat))
  <2> HIDE DEF T
  <2> QED
    BY <1>1, NatLessThanWellFounded, WFMin
<1>3. PICK x \in S : m = n - x
  BY <1>2
<1>4. \A y \in S : ~(n - y < m)
  BY <1>1, <1>2 DEF OpToRel
<1>5. x \in S /\ \A y \in S : x >= y
  BY <1>3, <1>4
<1> QED
  BY <1>5 DEF Max

\* A run that exists has one of the numbers that have been given.
LEMMA BornBefore ==
    ASSUME TypeOK, Orderly
    PROVE  \A r \in Run : state[r] # "absent" \/ jobStatus[r] # "none" => r < nextRun
<1>1. nextRun \in Nat /\ \A r \in Run : r \in Nat
  BY AudienceAssumption DEF TypeOK, Run
<1> QED
  BY <1>1 DEF Orderly, Unborn

\* Enqueueing runs that exist takes no job from its executor and gives none to a run
\* that does not.
LEMMA EnqueueDisturbsNobody ==
    ASSUME TypeOK, HoldsRun, Orderly, NEW S, EnqueueRuns(S),
           \A r \in S : r \in Run /\ r < nextRun',
           nextRun' = nextRun \/ nextRun' = nextRun + 1
    PROVE  /\ \A w \in Worker : pc[w] \in AtWork => mine'[w]
           /\ AsksOnly
           /\ \A r \in Run : r >= nextRun' => jobStatus'[r] = "none"
<1> DEFINE fresh == {r \in S : jobStatus[r] \notin ActiveJob}
<1>1. /\ jobStatus' = [r \in Run |-> IF r \in fresh THEN "queued" ELSE jobStatus[r]]
      /\ mine' = [x \in Executor |-> mine[x] /\ on[x] \notin fresh]
  BY DEF EnqueueRuns
<1>2. \A r \in fresh : r < nextRun' /\ jobStatus[r] # "running"
  BY DEF ActiveJob
<1>a. \A r \in fresh : jobStatus[r] \notin ActiveJob
  OBVIOUS
<1>3. nextRun \in Nat /\ nextRun' \in Nat /\ nextRun <= nextRun' /\ Run \subseteq Nat
  BY AudienceAssumption DEF TypeOK, Run
<1> HIDE DEF fresh
<1>4. \A w \in Worker : pc[w] \in AtWork => mine'[w]
  <2>1. ASSUME NEW w \in Worker, pc[w] \in AtWork
        PROVE  w \in Executor /\ mine[w] /\ on[w] \notin fresh
    BY <1>2, <2>1 DEF Orderly, Executor
  <2> QED
    BY <1>1, <2>1
<1>5. \A r \in Run : r >= nextRun' => jobStatus'[r] = "none"
  <2>1. \A r \in Run : r >= nextRun' => jobStatus[r] = "none" /\ r \notin fresh
    BY <1>2, <1>3 DEF Orderly, Unborn
  <2> QED
    BY <1>1, <2>1
<1>6. AsksOnly
  <2>1. \A r \in Run : jobStatus'[r] = IF r \in fresh THEN "queued" ELSE jobStatus[r]
    BY <1>1
  <2> QED
    BY <1>a, <2>1 DEF AsksOnly
<1> QED
  BY <1>4, <1>5, <1>6

\* The run that AudienceRunService.create returns exists, and is enqueued once more.
LEMMA CreateSelectIsAside ==
    ASSUME TypeOK, HoldsRun, Orderly, NEW a \in Api, CreateSelect(a)
    PROVE  Aside
<1> a \in Executor /\ a \notin Worker
  BY AudienceAssumption DEF Executor
<1>1. CASE ActiveRuns # {}
  <2>1. /\ EnqueueRuns({Max(ActiveRuns)})
        /\ pc' = [pc EXCEPT ![a] = "idle"]
        /\ UNCHANGED <<runVars, on, cached, late>>
    BY <1>1 DEF CreateSelect, Goto
  <2>2. Max(ActiveRuns) \in ActiveRuns
    <3>1. ActiveRuns \in SUBSET (1..MaxRuns)
      BY DEF ActiveRuns, Run
    <3> QED
      BY <1>1, <3>1, MaxIsMember, AudienceAssumption
  <2>3. Max(ActiveRuns) \in Run /\ Max(ActiveRuns) < nextRun'
    <3>1. Max(ActiveRuns) \in Run /\ state[Max(ActiveRuns)] # "absent"
      BY <2>2 DEF ActiveRuns, ActiveState
    <3>2. \A r \in Run : state[r] # "absent" => r < nextRun'
      BY <2>1, BornBefore DEF runVars
    <3> QED
      BY <3>1, <3>2
  <2>4. /\ \A w \in Worker : pc[w] \in AtWork => mine'[w]
        /\ AsksOnly
        /\ \A r \in Run : r >= nextRun' => jobStatus'[r] = "none"
    BY <2>1, <2>3, EnqueueDisturbsNobody DEF runVars
  <2>5. \A b \in Api : pc'[b] \in InRequest /\ (pc'[b] = "enqueueing" => on'[b] < nextRun')
    BY <2>1 DEF Orderly, Unborn, InRequest, Executor, TypeOK, runVars
  <2>6. \A w \in Worker : pc'[w] = pc[w]
    BY <2>1 DEF Executor, TypeOK
  <2> QED
    BY <2>1, <2>4, <2>5, <2>6 DEF Aside, AsksOnly, runVars
<1>2. CASE ActiveRuns = {}
  <2>1. /\ pc' = [pc EXCEPT ![a] = "creating"]
        /\ UNCHANGED <<runVars, jobVars, mine, on, cached, late>>
    BY <1>2 DEF CreateSelect, Goto
  <2>2. \A b \in Api : pc'[b] \in InRequest /\ (pc'[b] = "enqueueing" => on'[b] < nextRun')
    BY <2>1 DEF Orderly, Unborn, InRequest, Executor, TypeOK, runVars
  <2>3. \A w \in Worker : pc'[w] = pc[w]
    BY <2>1 DEF Executor, TypeOK
  <2> QED
    BY <2>1, <2>2, <2>3 DEF Aside, AsksOnly, runVars, jobVars, Orderly, Unborn
<1> QED
  BY <1>1, <1>2

\* The run a request inserts is the next one.
LEMMA CreateInsertIsAside ==
    ASSUME TypeOK, HoldsRun, Orderly, NEW a \in Api, CreateInsert(a)
    PROVE  Aside
<1> a \in Executor /\ a \notin Worker
  BY AudienceAssumption DEF Executor
<1>1. CASE nextRun > MaxRuns
  <2>1. /\ pc' = [pc EXCEPT ![a] = "idle"]
        /\ UNCHANGED <<runVars, jobVars, mine, on, cached, late>>
    BY <1>1 DEF CreateInsert, Goto
  <2>2. \A b \in Api : pc'[b] \in InRequest /\ (pc'[b] = "enqueueing" => on'[b] < nextRun')
    BY <2>1 DEF Orderly, Unborn, InRequest, Executor, TypeOK, runVars
  <2>3. \A w \in Worker : pc'[w] = pc[w]
    BY <2>1 DEF Executor, TypeOK
  <2> QED
    BY <2>1, <2>2, <2>3 DEF Aside, AsksOnly, runVars, jobVars, Orderly, Unborn
<1>2. CASE ~(nextRun > MaxRuns)
  <2>1. nextRun \in Run /\ nextRun \in Nat /\ Run \subseteq Nat
    BY <1>2, AudienceAssumption DEF TypeOK, Run
  <2>2. /\ state' = [state EXCEPT ![nextRun] = "queued"]
        /\ nextRun' = nextRun + 1
        /\ UNCHANGED <<overdue, coverage, cached, late>>
    BY <1>2 DEF CreateInsert
  <2>3. CASE EnqueueRuns({nextRun}) /\ Goto(a, "idle") /\ UNCHANGED on
    <3>1. /\ \A w \in Worker : pc[w] \in AtWork => mine'[w]
          /\ AsksOnly
          /\ \A r \in Run : r >= nextRun' => jobStatus'[r] = "none"
      <4>1. \A r \in {nextRun} : r \in Run /\ r < nextRun'
        BY <2>1, <2>2
      <4> QED
        BY <2>2, <2>3, <4>1, EnqueueDisturbsNobody
    <3>2. pc' = [pc EXCEPT ![a] = "idle"] /\ on' = on
      BY <2>3 DEF Goto
    <3>3. \A b \in Api : pc'[b] \in InRequest
      BY <3>2 DEF Orderly, InRequest, Executor, TypeOK
    <3>4. ASSUME NEW b \in Api, pc'[b] = "enqueueing"
          PROVE  on'[b] < nextRun'
      <4>1. pc[b] = "enqueueing" /\ b \in Executor
        BY <3>2, <3>4 DEF Executor, TypeOK
      <4>2. on[b] \in Nat /\ on[b] < nextRun
        BY <2>1, <4>1 DEF HoldsRun, Orderly, Unborn
      <4> QED
        BY <2>1, <2>2, <3>2, <4>2
    <3>5. \A w \in Worker : pc'[w] = pc[w]
      BY <3>2 DEF Executor, TypeOK
    <3> QED
      BY <2>1, <2>2, <3>1, <3>2, <3>3, <3>4, <3>5 DEF Aside, AsksOnly
  <2>4. CASE /\ Goto(a, "enqueueing")
             /\ on' = [on EXCEPT ![a] = nextRun]
             /\ UNCHANGED <<jobVars, mine>>
    <3>1. /\ pc' = [pc EXCEPT ![a] = "enqueueing"]
          /\ on' = [on EXCEPT ![a] = nextRun]
          /\ UNCHANGED <<jobStatus, mine>>
      BY <2>4 DEF Goto, jobVars
    <3>2. \A b \in Api : pc'[b] \in InRequest
      BY <3>1 DEF Orderly, InRequest, Executor, TypeOK
    <3>3. ASSUME NEW b \in Api, pc'[b] = "enqueueing"
          PROVE  on'[b] < nextRun'
      <4>1. CASE b = a
        BY <2>1, <2>2, <3>1, <4>1 DEF TypeOK
      <4>2. CASE b # a
        <5>1. pc[b] = "enqueueing" /\ on'[b] = on[b] /\ b \in Executor
          BY <3>1, <3>3, <4>2 DEF Executor, TypeOK
        <5>2. on[b] \in Nat /\ on[b] < nextRun
          BY <2>1, <5>1 DEF HoldsRun, Orderly, Unborn
        <5> QED
          BY <2>1, <2>2, <5>1, <5>2
      <4> QED
        BY <4>1, <4>2
    <3>4. \A w \in Worker : pc'[w] = pc[w] /\ on'[w] = on[w] /\ (pc[w] \in AtWork => mine'[w])
      BY <3>1 DEF Executor, TypeOK, Orderly
    <3>5. \A r \in Run : r >= nextRun' => jobStatus'[r] = "none"
      BY <2>1, <2>2, <3>1 DEF Orderly, Unborn
    <3> QED
      BY <2>1, <2>2, <3>1, <3>2, <3>3, <3>4, <3>5 DEF Aside, AsksOnly
  <2> QED
    BY <1>2, <2>3, <2>4 DEF CreateInsert
<1> QED
  BY <1>1, <1>2

\* The job of a run that was committed before.
LEMMA EnqueueCreatedIsAside ==
    ASSUME TypeOK, HoldsRun, Orderly, NEW a \in Api, EnqueueCreated(a)
    PROVE  Aside
<1> a \in Executor /\ a \notin Worker
  BY AudienceAssumption DEF Executor
<1>1. /\ EnqueueRuns({on[a]})
      /\ pc' = [pc EXCEPT ![a] = "idle"]
      /\ on' = [on EXCEPT ![a] = 0]
      /\ UNCHANGED <<runVars, cached, late>>
  BY DEF EnqueueCreated, Goto
<1>2. on[a] \in Run /\ on[a] < nextRun'
  BY <1>1 DEF EnqueueCreated, HoldsRun, Orderly, Unborn, runVars
<1>3. /\ \A w \in Worker : pc[w] \in AtWork => mine'[w]
      /\ AsksOnly
      /\ \A r \in Run : r >= nextRun' => jobStatus'[r] = "none"
  BY <1>1, <1>2, EnqueueDisturbsNobody DEF runVars
<1>4. \A b \in Api : pc'[b] \in InRequest /\ (pc'[b] = "enqueueing" => on'[b] < nextRun')
  BY <1>1 DEF Orderly, Unborn, InRequest, Executor, TypeOK, runVars
<1>5. \A w \in Worker : pc'[w] = pc[w] /\ on'[w] = on[w]
  BY <1>1 DEF Executor, TypeOK
<1> QED
  BY <1>1, <1>3, <1>4, <1>5 DEF Aside, AsksOnly, runVars

\* enqueue_waiting_audience_runs enqueues runs that exist.
LEMMA ScheduleWaitingIsAside ==
    ASSUME TypeOK, HoldsRun, Orderly, ScheduleWaiting
    PROVE  Aside
<1> DEFINE S == {r \in Run : state[r] = "waiting_validation"}
<1>1. EnqueueRuns(S) /\ UNCHANGED <<runVars, pc, on, cached, late>>
  BY DEF ScheduleWaiting
<1>2. \A r \in S : r \in Run /\ r < nextRun'
  <2>1. nextRun' = nextRun
    BY <1>1 DEF runVars
  <2> QED
    BY <2>1, BornBefore
<1> HIDE DEF S
<1>3. /\ \A w \in Worker : pc[w] \in AtWork => mine'[w]
      /\ AsksOnly
      /\ \A r \in Run : r >= nextRun' => jobStatus'[r] = "none"
  BY <1>1, <1>2, EnqueueDisturbsNobody DEF runVars
<1> QED
  BY <1>1, <1>3 DEF Aside, AsksOnly, Orderly, Unborn, runVars

\* Requests touch no executor and no run but the one they create.
LEMMA RequestsAreAside ==
    ASSUME TypeOK, HoldsRun, Orderly, ~Watched, NEW a \in Api,
           RequestStep(a) \/ RequestStart(a) \/ Crash(a)
    PROVE  Aside
<1> a \in Executor /\ a \notin Worker
  BY AudienceAssumption DEF Executor
<1>0. pc[a] \in InRequest
  BY DEF Orderly
<1>s. \A b \in Api : pc[b] \in InRequest /\ (pc[b] = "enqueueing" => on[b] < nextRun)
  BY DEF Orderly, Unborn
<1>w. ASSUME UNCHANGED <<runVars, jobVars, mine, on, cached, late>>,
             NEW l \in InRequest \ {"enqueueing"}, pc' = [pc EXCEPT ![a] = l]
      PROVE  Aside
  <2>1. \A b \in Api : pc'[b] \in InRequest /\ (pc'[b] = "enqueueing" => on'[b] < nextRun')
    BY <1>s, <1>w DEF Executor, TypeOK, runVars
  <2>2. \A w \in Worker : pc'[w] = pc[w]
    BY <1>w DEF Executor, TypeOK
  <2> QED
    BY <1>w, <2>1, <2>2 DEF Aside, AsksOnly, runVars, jobVars, Orderly, Unborn
<1>1. CASE CreateInsert(a)
  BY <1>1, CreateInsertIsAside
<1>2. CASE EnqueueCreated(a)
  BY <1>2, EnqueueCreatedIsAside
<1>3. CASE RefillIfDepleted(a)
  <2>1. CreateSelect(a) \/ (Goto(a, "idle") /\ UNCHANGED <<runVars, jobVars, localVars>>)
    BY <1>3 DEF RefillIfDepleted
  <2> QED
    BY <1>w, <2>1, CreateSelectIsAside DEF Goto, localVars, InRequest
<1>4. CASE PollLock(a) \/ Process(a) \/ PollFinish(a) \/ PollFail(a)
  BY <1>0, <1>4 DEF PollLock, PollFinish, PollFail, Process, ProcessStart, ProcessMatch,
                    ProcessRead, ProcessWrite, ProcessRaise, InRequest
<1>5. CASE Refill(a)
  BY <1>5, CreateSelectIsAside DEF Refill
<1>6. CASE Poll(a)
  BY <1>6 DEF Poll
<1>7. CASE \E r \in Run, b \in Business :
             Shortlist(a, r, b) \/ \E verdict \in {"not_fit", "unreviewed"} : Judge(a, r, b, verdict)
  <2>1. Goto(a, "refilling") /\ UNCHANGED <<runVars, jobVars, localVars>>
    BY <1>7 DEF Shortlist, Judge
  <2> QED
    BY <1>w, <2>1 DEF Goto, localVars, InRequest
<1>8. CASE Crash(a)
  <2>1. Leave(a) /\ UNCHANGED <<runVars, jobVars>>
    BY <1>8 DEF Crash
  <2>2. /\ pc' = [pc EXCEPT ![a] = "idle"] /\ on' = [on EXCEPT ![a] = 0]
        /\ mine' = [mine EXCEPT ![a] = FALSE]
        /\ cached' = [cached EXCEPT ![a] = "absent"] /\ late' = [late EXCEPT ![a] = FALSE]
    BY <2>1 DEF Leave, Forget, Goto
  <2>3. \A b \in Api : pc'[b] \in InRequest /\ (pc'[b] = "enqueueing" => on'[b] < nextRun')
    BY <1>s, <2>1, <2>2 DEF Executor, TypeOK, runVars, InRequest
  <2>4. \A w \in Worker : /\ pc'[w] = pc[w] /\ on'[w] = on[w] /\ mine'[w] = mine[w]
                          /\ cached'[w] = cached[w] /\ late'[w] = late[w]
    BY <2>2 DEF Executor, TypeOK
  <2> QED
    BY <2>1, <2>3, <2>4 DEF Aside, AsksOnly, runVars, jobVars, Orderly, Unborn
<1> QED
  BY <1>1, <1>2, <1>3, <1>4, <1>5, <1>6, <1>7, <1>8 DEF RequestStep, RequestStart

\* The user's edits, the facts and the time touch no executor.
LEMMA WorldIsAside ==
    ASSUME TypeOK, HoldsRun, Orderly,
           \/ EditCriteria
           \/ \E b \in Business : FactsChange(b)
           \/ \E r \in Run : DeadlinePasses(r)
           \/ UNCHANGED vars
    PROVE  Aside
<1>1. CASE \E r \in Run : DeadlinePasses(r)
  <2>1. PICK r \in Run : overdue' = [overdue EXCEPT ![r] = TRUE]
    BY <1>1 DEF DeadlinePasses
  <2>2. UNCHANGED <<state, coverage, nextRun, jobVars, pc, localVars>>
    BY <1>1 DEF DeadlinePasses
  <2>3. \A q \in Run : overdue[q] => overdue'[q]
    BY <2>1 DEF TypeOK
  <2> QED
    BY <2>2, <2>3 DEF Aside, AsksOnly, Orderly, Unborn, jobVars, localVars
<1>2. CASE UNCHANGED <<runVars, jobVars, pc, localVars>>
  BY <1>2 DEF Aside, AsksOnly, Orderly, Unborn, runVars, jobVars, localVars
<1> QED
  BY <1>1, <1>2 DEF EditCriteria, FactsChange, vars

\* A step of a worker at one run: nobody else is touched and no other run.
Solo(w, r) ==
    /\ \A a \in Api : pc'[a] = pc[a] /\ on'[a] = on[a]
    /\ \A v \in Worker \ {w} : /\ pc'[v] = pc[v] /\ on'[v] = on[v] /\ mine'[v] = mine[v]
                               /\ cached'[v] = cached[v] /\ late'[v] = late[v]
    /\ \A q \in Run \ {r} : /\ state'[q] = state[q] /\ coverage'[q] = coverage[q]
                            /\ jobStatus'[q] = jobStatus[q]
    /\ UNCHANGED <<overdue, nextRun>>

\* What the executor of a run may do to it.
SoundAt(w, r) ==
    /\ pc'[w] \in AtWork \cup {"idle"}
    /\ pc'[w] \in AtWork => on'[w] = r /\ mine'[w] /\ jobStatus'[r] = "running"
    /\ state'[r] # "absent"
    /\ state[r] \in DeliveredState => state'[r] = state[r]
    /\ KnowsRun(w)'
    /\ Settled(r)'

\* Nobody but w is at work on r.
LeftTo(w, r) == \A v \in Worker \ {w} : pc[v] \in AtWork => on[v] # r

\* A sound step of a worker at a run that is left to it keeps the life of the runs.
LEMMA SoloKeepsLife ==
    ASSUME TypeOK, HoldsRun, RunLife, NEW w \in Worker, NEW r \in Run, Solo(w, r),
           jobStatus[r] # "none", LeftTo(w, r), SoundAt(w, r)
    PROVE  RunLife' /\ KeepsDelivered
<1>0. \A v \in Worker : pc[v] \in AtWork => on[v] \in Run
  BY DEF HoldsRun, AtWork, Executor
<1>1. OneExecutor'
  <2>1. \A a \in Api : pc'[a] \in InRequest
    BY DEF Solo, RunLife, OneExecutor
  <2>2. ASSUME NEW v \in Worker
        PROVE  /\ pc'[v] \in AtWork \cup {"idle"}
               /\ pc'[v] \in AtWork => mine'[v] /\ jobStatus'[on'[v]] = "running"
    <3>1. CASE v = w
      BY <3>1 DEF SoundAt
    <3>2. CASE v # w
      BY <1>0, <3>2 DEF Solo, LeftTo, RunLife, OneExecutor
    <3> QED
      BY <3>1, <3>2
  <2>3. ASSUME NEW v \in Worker, NEW u \in Worker,
               pc'[v] \in AtWork, pc'[u] \in AtWork, on'[v] = on'[u]
        PROVE  v = u
    <3>1. CASE v = w \/ u = w
      BY <2>3, <3>1 DEF Solo, LeftTo, SoundAt
    <3>2. CASE v # w /\ u # w
      BY <2>3, <3>2 DEF Solo, RunLife, OneExecutor
    <3> QED
      BY <3>1, <3>2
  <2> QED
    BY <2>1, <2>2, <2>3 DEF OneExecutor
<1>2. Unborn'
  <2>0. r < nextRun /\ ~(r >= nextRun)
    <3>1. nextRun \in Nat /\ r \in Nat
      BY AudienceAssumption DEF TypeOK, Run
    <3> QED
      BY <3>1, LifeIsOrderly, BornBefore
  <2>1. nextRun' = nextRun
    BY DEF Solo
  <2>2. \A q \in Run : q >= nextRun' => jobStatus'[q] = "none" /\ coverage'[q] = "none"
    BY <2>0, <2>1 DEF Solo, RunLife, Unborn
  <2>3. \A q \in Run : state'[q] = "absent" <=> q >= nextRun'
    BY <2>0, <2>1 DEF Solo, SoundAt, RunLife, Unborn
  <2>4. \A a \in Api : pc'[a] = "enqueueing" => on'[a] < nextRun'
    BY <2>1 DEF Solo, RunLife, Unborn
  <2> QED
    BY <2>2, <2>3, <2>4 DEF Unborn
<1>3. ASSUME NEW v \in Worker
      PROVE  KnowsRun(v)'
  <2>1. CASE v = w
    BY <2>1 DEF SoundAt
  <2>2. CASE v # w
    <3>1. pc[v] \in AtWork => on[v] \in Run \ {r}
      BY <1>0, <2>2 DEF LeftTo
    <3>2. /\ pc'[v] = pc[v] /\ on'[v] = on[v] /\ cached'[v] = cached[v] /\ late'[v] = late[v]
          /\ overdue' = overdue
      BY <2>2 DEF Solo
    <3>3. pc[v] \in AtWork => state'[on[v]] = state[on[v]] /\ coverage'[on[v]] = coverage[on[v]]
      BY <3>1 DEF Solo
    <3> QED
      BY <3>2, <3>3 DEF RunLife, KnowsRun, AtWork
  <2> QED
    BY <2>1, <2>2
<1>4. ASSUME NEW q \in Run
      PROVE  Settled(q)'
  <2>1. CASE q = r
    BY <2>1 DEF SoundAt
  <2>2. CASE q # r
    BY <2>2 DEF Solo, RunLife, Settled
  <2> QED
    BY <2>1, <2>2
<1>5. KeepsDelivered
  BY DEF KeepsDelivered, Solo, SoundAt
<1> QED
  BY <1>1, <1>2, <1>3, <1>4, <1>5 DEF RunLife

\* Who is at work has its run for itself.
LEMMA AtWorkAlone ==
    ASSUME TypeOK, HoldsRun, RunLife, NEW w \in Worker, pc[w] \in AtWork
    PROVE  /\ w \in Executor /\ w \notin Api
           /\ on[w] \in Run /\ mine[w] /\ jobStatus[on[w]] = "running"
           /\ state[on[w]] # "absent"
           /\ LeftTo(w, on[w])
<1>1. w \in Executor /\ w \notin Api
  BY AudienceAssumption DEF Executor
<1>2. on[w] \in Run /\ mine[w] /\ jobStatus[on[w]] = "running"
  BY <1>1 DEF HoldsRun, AtWork, RunLife, OneExecutor
<1>3. state[on[w]] # "absent"
  BY <1>2 DEF RunLife, Unborn
<1>4. LeftTo(w, on[w])
  BY DEF LeftTo, RunLife, OneExecutor
<1> QED
  BY <1>1, <1>2, <1>3, <1>4

\* A worker that leaves its run as it found it gives it up soundly.
LEMMA LeavingIsSolo ==
    ASSUME TypeOK, HoldsRun, RunLife, NEW w \in Worker, pc[w] \in AtWork, Leave(w),
           jobStatus' = [jobStatus EXCEPT ![on[w]] = jobStatus'[on[w]]],
           UNCHANGED runVars
    PROVE  RunLife' /\ KeepsDelivered
<1>r. PICK r \in Run : r = on[w]
  BY AtWorkAlone
<1>0. /\ w \in Executor /\ w \notin Api /\ jobStatus[r] = "running"
      /\ state[r] # "absent" /\ LeftTo(w, r)
  BY <1>r, AtWorkAlone
<1>1. /\ pc' = [pc EXCEPT ![w] = "idle"] /\ on' = [on EXCEPT ![w] = 0]
      /\ mine' = [mine EXCEPT ![w] = FALSE]
      /\ cached' = [cached EXCEPT ![w] = "absent"] /\ late' = [late EXCEPT ![w] = FALSE]
  BY DEF Leave, Forget, Goto
<1>2. Solo(w, r)
  <2>1. /\ \A a \in Api : pc'[a] = pc[a] /\ on'[a] = on[a]
        /\ \A v \in Worker \ {w} : pc'[v] = pc[v] /\ on'[v] = on[v]
    BY <1>0, <1>1 DEF Executor, TypeOK
  <2>2. \A v \in Worker \ {w} : mine'[v] = mine[v] /\ cached'[v] = cached[v] /\ late'[v] = late[v]
    BY <1>0, <1>1 DEF Executor, TypeOK
  <2>3. \A q \in Run \ {r} : jobStatus'[q] = jobStatus[q]
    BY <1>r DEF TypeOK
  <2> QED
    BY <2>1, <2>2, <2>3 DEF Solo, runVars
<1>3. SoundAt(w, r)
  <2>1. pc'[w] = "idle"
    BY <1>0, <1>1 DEF TypeOK
  <2>2. state'[r] = state[r] /\ Settled(r)'
    BY <1>0 DEF runVars, RunLife, Settled
  <2>3. KnowsRun(w)'
    BY <2>1 DEF KnowsRun
  <2> QED
    BY <1>0, <2>1, <2>2, <2>3 DEF SoundAt, AtWork
<1> QED
  BY <1>0, <1>2, <1>3, SoloKeepsLife

\* A job that is queued has no executor: a worker claims it alone.
LEMMA ClaimKeepsLife ==
    ASSUME TypeOK, HoldsRun, RunLife, NEW w \in Worker, NEW r \in Run, ClaimRun(w, r)
    PROVE  RunLife' /\ KeepsDelivered
<1>0. w \in Executor /\ w \notin Api
  BY AudienceAssumption DEF Executor
<1>1. /\ pc' = [pc EXCEPT ![w] = "starting"] /\ on' = [on EXCEPT ![w] = r]
      /\ mine' = [mine EXCEPT ![w] = TRUE] /\ cached' = [cached EXCEPT ![w] = state[r]]
      /\ jobStatus' = [jobStatus EXCEPT ![r] = "running"]
      /\ jobStatus[r] = "queued"
      /\ UNCHANGED <<runVars, late>>
  BY DEF ClaimRun, Goto
<1>2. Solo(w, r)
  <2>1. /\ \A a \in Api : pc'[a] = pc[a] /\ on'[a] = on[a]
        /\ \A v \in Worker \ {w} : pc'[v] = pc[v] /\ on'[v] = on[v]
    BY <1>0, <1>1 DEF Executor, TypeOK
  <2>2. \A v \in Worker \ {w} : mine'[v] = mine[v] /\ cached'[v] = cached[v] /\ late'[v] = late[v]
    BY <1>0, <1>1 DEF Executor, TypeOK
  <2>3. \A q \in Run \ {r} : jobStatus'[q] = jobStatus[q]
    BY <1>1 DEF TypeOK
  <2> QED
    BY <1>1, <2>1, <2>2, <2>3 DEF Solo, runVars
<1>3. LeftTo(w, r)
  BY <1>1 DEF LeftTo, RunLife, OneExecutor
<1>4. state[r] # "absent"
  BY <1>1 DEF RunLife, Unborn
<1>5. SoundAt(w, r)
  <2>1. /\ pc'[w] = "starting" /\ on'[w] = r /\ mine'[w] /\ cached'[w] = state[r]
        /\ jobStatus'[r] = "running" /\ state' = state
    BY <1>0, <1>1 DEF TypeOK, runVars
  <2>2. Settled(r)'
    BY <1>1 DEF runVars, RunLife, Settled
  <2>3. KnowsRun(w)'
    BY <2>1 DEF KnowsRun
  <2> QED
    BY <1>4, <2>1, <2>2, <2>3 DEF SoundAt, AtWork
<1> QED
  BY <1>1, <1>2, <1>3, <1>5, SoloKeepsLife

\* A job nobody holds is queued again, and its run stays as it is.
LEMMA RecoverKeepsLife ==
    ASSUME TypeOK, HoldsRun, RunLife, NothingGivenUp',
           NEW w \in Worker, NEW r \in Run, RecoverRun(w, r)
    PROVE  RunLife' /\ KeepsDelivered
<1>0. w \in Executor /\ w \notin Api
  BY AudienceAssumption DEF Executor
<1>1. /\ jobStatus' = [jobStatus EXCEPT ![r] = "queued"]
      /\ jobStatus[r] = "running" /\ pc[w] = "idle"
      /\ \A x \in Executor : ~(on[x] = r /\ mine[x])
      /\ UNCHANGED <<runVars, pc, on, mine, cached, late>>
  <2>1. CASE tries[r] < MaxAttempts
    BY <2>1 DEF RecoverRun
  <2>2. CASE ~(tries[r] < MaxAttempts)
    <3>1. pc' = [pc EXCEPT ![w] = "burying"]
      BY <2>2 DEF RecoverRun, Goto
    <3> QED
      BY <1>0, <3>1 DEF NothingGivenUp, TypeOK
  <2> QED
    BY <2>1, <2>2
<1>2. Solo(w, r)
  BY <1>1 DEF Solo, TypeOK, runVars
<1>3. LeftTo(w, r)
  BY <1>1 DEF LeftTo, RunLife, OneExecutor, Executor
<1>4. SoundAt(w, r)
  <2>1. state[r] # "absent"
    BY <1>1 DEF RunLife, Unborn
  <2>2. Settled(r)' /\ KnowsRun(w)'
    BY <1>1 DEF runVars, RunLife, Settled, KnowsRun
  <2> QED
    BY <1>1, <2>1, <2>2 DEF SoundAt, AtWork, runVars
<1> QED
  BY <1>1, <1>2, <1>3, <1>4, SoloKeepsLife

\* The first COMMIT of process: the executor knows the state it overwrites.
LEMMA StartKeepsLife ==
    ASSUME TypeOK, HoldsRun, RunLife, NEW w \in Worker, ProcessStart(w)
    PROVE  RunLife' /\ KeepsDelivered
<1>s. pc[w] = "starting"
  BY DEF ProcessStart
<1>r. PICK r \in Run : r = on[w]
  BY <1>s, AtWorkAlone DEF AtWork
<1>0. /\ w \in Executor /\ w \notin Api /\ mine[w] /\ jobStatus[r] = "running"
      /\ state[r] # "absent" /\ LeftTo(w, r)
  BY <1>s, <1>r, AtWorkAlone DEF AtWork
<1>1. cached[w] = state[r]
  BY <1>s, <1>r DEF RunLife, KnowsRun
<1>2. UNCHANGED <<overdue, coverage, nextRun, jobStatus, on, mine>>
  BY DEF ProcessStart, jobVars
<1>3. CASE /\ UNCHANGED <<cached, late>>
           /\ pc' = [pc EXCEPT ![w] = "finishing"]
           /\ \/ state' = state
              \/ state' = [state EXCEPT ![r] = "failed"] /\ state[r] \notin DeliveredState
  <2>1. Solo(w, r)
    <3>1. /\ \A a \in Api : pc'[a] = pc[a]
          /\ \A v \in Worker \ {w} : pc'[v] = pc[v]
      BY <1>0, <1>3 DEF Executor, TypeOK
    <3>2. \A q \in Run \ {r} : state'[q] = state[q]
      BY <1>3 DEF TypeOK
    <3> QED
      BY <1>2, <1>3, <3>1, <3>2 DEF Solo
  <2>2. pc'[w] = "finishing"
    BY <1>0, <1>3 DEF TypeOK
  <2>3. \/ state'[r] = state[r]
        \/ state'[r] = "failed" /\ state[r] \notin DeliveredState
    BY <1>3 DEF TypeOK
  <2>4. Settled(r)'
    BY <1>2, <2>3 DEF RunLife, Settled, DeliveredState
  <2>5. KnowsRun(w)'
    BY <2>2 DEF KnowsRun
  <2>6. SoundAt(w, r)
    BY <1>r, <1>0, <1>2, <2>2, <2>3, <2>4, <2>5 DEF SoundAt, AtWork
  <2> QED
    BY <1>0, <2>1, <2>6, SoloKeepsLife
<1>4. CASE /\ state' = [state EXCEPT ![r] = IF cached[w] = "matching" THEN @ ELSE "matching"]
           /\ cached' = [cached EXCEPT ![w] = "matching"]
           /\ late' = [late EXCEPT ![w] = overdue[r]]
           /\ pc' = [pc EXCEPT ![w] = "matching"]
           /\ state[r] \notin DeliveredState
  <2>1. Solo(w, r)
    <3>1. /\ \A a \in Api : pc'[a] = pc[a]
          /\ \A v \in Worker \ {w} : pc'[v] = pc[v]
      BY <1>0, <1>4 DEF Executor, TypeOK
    <3>2. \A v \in Worker \ {w} : cached'[v] = cached[v] /\ late'[v] = late[v]
      BY <1>0, <1>4 DEF Executor, TypeOK
    <3>3. \A q \in Run \ {r} : state'[q] = state[q]
      BY <1>4 DEF TypeOK
    <3> QED
      BY <1>2, <3>1, <3>2, <3>3 DEF Solo
  <2>2. pc'[w] = "matching" /\ late'[w] = overdue[r]
    BY <1>0, <1>4 DEF TypeOK
  <2>3. state'[r] = "matching"
    BY <1>1, <1>4 DEF TypeOK
  <2>4. Settled(r)'
    BY <1>2, <1>4, <2>3 DEF RunLife, Settled
  <2>5. KnowsRun(w)'
    BY <1>r, <1>2, <2>2, <2>3 DEF KnowsRun
  <2>6. SoundAt(w, r)
    BY <1>r, <1>0, <1>2, <1>4, <2>2, <2>3, <2>4, <2>5 DEF SoundAt, AtWork
  <2> QED
    BY <1>0, <2>1, <2>6, SoloKeepsLife
<1>5. CASE cached[w] \in DeliveredState
  BY <1>3, <1>5 DEF ProcessStart, Goto
<1>6. CASE cached[w] \notin DeliveredState /\ version[r] # CriteriaSeen(w)
  <2>1. /\ UNCHANGED <<cached, late>>
        /\ pc' = [pc EXCEPT ![w] = "finishing"]
        /\ state' = [state EXCEPT ![r] = IF cached[w] = "failed" THEN @ ELSE "failed"]
    BY <1>r, <1>6 DEF ProcessStart, Goto
  <2>2. state' = [state EXCEPT ![r] = "failed"]
    BY <1>1, <2>1 DEF TypeOK
  <2> QED
    BY <1>1, <1>3, <1>6, <2>1, <2>2
<1>7. CASE cached[w] \notin DeliveredState /\ version[r] = CriteriaSeen(w)
  BY <1>r, <1>1, <1>4, <1>7 DEF ProcessStart, Goto
<1> QED
  BY <1>5, <1>6, <1>7

\* process reads, or raises: nothing of the run changes.
LEMMA ReadKeepsLife ==
    ASSUME TypeOK, HoldsRun, RunLife, NEW w \in Worker,
           ProcessMatch(w) \/ ProcessRead(w) \/ ProcessRaise(w)
    PROVE  RunLife' /\ KeepsDelivered
<1>s. pc[w] \in AtWork
  BY DEF ProcessMatch, ProcessRead, ProcessRaise, AtWork
<1>r. PICK r \in Run : r = on[w]
  BY <1>s, AtWorkAlone
<1>0. /\ w \in Executor /\ w \notin Api /\ mine[w] /\ jobStatus[r] = "running"
      /\ state[r] # "absent" /\ LeftTo(w, r)
  BY <1>s, <1>r, AtWorkAlone
<1>1. UNCHANGED <<runVars, jobVars, on, mine, cached>>
  BY DEF ProcessMatch, ProcessRead, ProcessRaise
<1>2. \/ pc' = [pc EXCEPT ![w] = "raised"] /\ late' = [late EXCEPT ![w] = FALSE]
      \/ /\ pc[w] \in {"matching", "scoring"}
         /\ pc' = [pc EXCEPT ![w] = "scoring"] \/ pc' = [pc EXCEPT ![w] = "writing"]
         /\ late' = late
  BY DEF ProcessMatch, ProcessRead, ProcessRaise, Forget, Goto
<1>3. Solo(w, r)
  <2>1. /\ \A a \in Api : pc'[a] = pc[a]
        /\ \A v \in Worker \ {w} : pc'[v] = pc[v]
    BY <1>0, <1>2 DEF Executor, TypeOK
  <2>2. \A v \in Worker \ {w} : late'[v] = late[v]
    BY <1>0, <1>2 DEF Executor, TypeOK
  <2> QED
    BY <1>1, <2>1, <2>2 DEF Solo, runVars, jobVars
<1>4. SoundAt(w, r)
  <2>1. \/ pc'[w] = "raised"
        \/ pc[w] \in {"matching", "scoring"} /\ pc'[w] \in {"scoring", "writing"} /\ late' = late
    BY <1>0, <1>2 DEF TypeOK
  <2>2. KnowsRun(w)'
    BY <1>1, <2>1 DEF KnowsRun, RunLife, runVars
  <2>3. Settled(r)'
    BY <1>1 DEF runVars, RunLife, Settled
  <2> QED
    BY <1>r, <1>0, <1>1, <2>1, <2>2, <2>3 DEF SoundAt, AtWork, runVars, jobVars
<1> QED
  BY <1>0, <1>3, <1>4, SoloKeepsLife

\* The COMMIT of process: a run that is left PARTIAL is late or has no coverage to
\* wait for, and coverage is completed with it.
LEMMA WriteKeepsLife ==
    ASSUME TypeOK, HoldsRun, RunLife, NEW w \in Worker, ProcessWrite(w)
    PROVE  RunLife' /\ KeepsDelivered
<1>s. pc[w] = "writing"
  BY DEF ProcessWrite
<1>r. PICK r \in Run : r = on[w]
  BY <1>s, AtWorkAlone DEF AtWork
<1>0. /\ w \in Executor /\ w \notin Api /\ mine[w] /\ jobStatus[r] = "running"
      /\ state[r] # "absent" /\ LeftTo(w, r)
  BY <1>s, <1>r, AtWorkAlone DEF AtWork
<1>1. state[r] = "matching" /\ (late[w] => overdue[r])
  BY <1>s, <1>r DEF RunLife, KnowsRun
<1>2. /\ UNCHANGED <<overdue, nextRun, jobStatus, on, mine>>
      /\ late' = [late EXCEPT ![w] = FALSE]
  BY DEF ProcessWrite, Forget, jobVars
<1>3. CASE WriteRaises(w)
  <2>1. pc' = [pc EXCEPT ![w] = "raised"] /\ UNCHANGED <<state, coverage, cached>>
    BY <1>3 DEF ProcessWrite, Goto
  <2>2. Solo(w, r)
    BY <1>0, <1>2, <2>1 DEF Solo, Executor, TypeOK
  <2>3. pc'[w] = "raised"
    BY <1>0, <2>1 DEF TypeOK
  <2>4. KnowsRun(w)'
    BY <2>3 DEF KnowsRun
  <2>5. Settled(r)'
    BY <1>2, <2>1 DEF RunLife, Settled
  <2>6. SoundAt(w, r)
    BY <1>r, <1>0, <1>2, <2>1, <2>3, <2>4, <2>5 DEF SoundAt, AtWork
  <2> QED
    BY <1>0, <2>2, <2>6, SoloKeepsLife
<1>4. CASE ~WriteRaises(w)
  <2> DEFINE requested == IF coverage[r] = "none" THEN "queued" ELSE coverage[r]
  <2>1. PICK end : end = Outcome(w, requested)
    OBVIOUS
  <2>2. /\ state' = [state EXCEPT ![r] = end.state]
        /\ coverage' = [coverage EXCEPT ![r] = end.coverage]
        /\ cached' = [cached EXCEPT ![w] = end.state]
        /\ pc' = [pc EXCEPT ![w] = IF end.state = "waiting_validation" /\ end.coverage = "queued"
                                   THEN "expanding" ELSE "finishing"]
    BY <1>r, <1>4, <2>1 DEF ProcessWrite, Goto
  <2>3. /\ end.state \in {"ready", "partial", "waiting_validation"}
        /\ end.coverage = "completed" => end.state \in DeliveredState
        /\ end.state = "partial" => overdue[r] \/ end.coverage = "failed"
    <3>1. requested \in {"queued", "processing", "failed"}
      BY <1>1 DEF RunLife, Settled, DeliveredState, TypeOK
    <3> HIDE DEF requested
    <3> QED
      BY <1>1, <2>1, <3>1 DEF Outcome, DeliveredState
  <2>4. Solo(w, r)
    <3>1. /\ \A a \in Api : pc'[a] = pc[a]
          /\ \A v \in Worker \ {w} : pc'[v] = pc[v]
      BY <1>0, <2>2 DEF Executor, TypeOK
    <3>2. \A v \in Worker \ {w} : cached'[v] = cached[v] /\ late'[v] = late[v]
      BY <1>0, <1>2, <2>2 DEF Executor, TypeOK
    <3>3. \A q \in Run \ {r} : state'[q] = state[q] /\ coverage'[q] = coverage[q]
      BY <2>2 DEF TypeOK
    <3> QED
      BY <1>2, <3>1, <3>2, <3>3 DEF Solo
  <2>5. /\ state'[r] = end.state /\ coverage'[r] = end.coverage
        /\ pc'[w] = IF end.state = "waiting_validation" /\ end.coverage = "queued"
                    THEN "expanding" ELSE "finishing"
    BY <1>0, <2>2 DEF TypeOK
  <2>6. Settled(r)'
    BY <1>2, <2>3, <2>5 DEF Settled
  <2>7. KnowsRun(w)'
    BY <1>r, <1>2, <2>5 DEF KnowsRun
  <2>8. SoundAt(w, r)
    <3>1. pc'[w] \in AtWork /\ on'[w] = r /\ mine'[w] /\ jobStatus'[r] = "running"
      BY <1>r, <1>0, <1>2, <2>5 DEF AtWork
    <3>2. state'[r] # "absent" /\ state[r] \notin DeliveredState
      BY <1>1, <2>3, <2>5 DEF DeliveredState
    <3> QED
      BY <2>6, <2>7, <3>1, <3>2 DEF SoundAt
  <2> QED
    BY <1>0, <2>4, <2>8, SoloKeepsLife
<1> QED
  BY <1>3, <1>4

\* The worker expands the coverage of the run it has left waiting, which is PARTIAL
\* if that fails.
LEMMA ExpandKeepsLife ==
    ASSUME TypeOK, HoldsRun, RunLife, NEW w \in Worker, Expand(w)
    PROVE  RunLife' /\ KeepsDelivered
<1>s. pc[w] = "expanding"
  BY DEF Expand
<1>r. PICK r \in Run : r = on[w]
  BY <1>s, AtWorkAlone DEF AtWork
<1>0. /\ w \in Executor /\ w \notin Api /\ mine[w] /\ jobStatus[r] = "running"
      /\ state[r] # "absent" /\ LeftTo(w, r)
  BY <1>s, <1>r, AtWorkAlone DEF AtWork
<1>1. state[r] = "waiting_validation" /\ coverage[r] = "queued"
  BY <1>s, <1>r DEF RunLife, KnowsRun
<1>2. /\ UNCHANGED <<overdue, nextRun, jobStatus, on, mine, cached, late>>
      /\ pc' = [pc EXCEPT ![w] = "finishing"]
  BY DEF Expand, Goto, jobVars, localVars
<1>3. PICK covered \in Expandable :
         /\ coverage' = [coverage EXCEPT ![r] =
               IF @ # "queued" THEN @ ELSE IF covered THEN "processing" ELSE "failed"]
         /\ state' = [state EXCEPT ![r] = IF coverage'[r] = "processing" /\ coverage[r] = "queued"
                                          THEN @ ELSE "partial"]
  BY <1>r DEF Expand
<1>4. \/ coverage'[r] = "processing" /\ state'[r] = "waiting_validation"
      \/ coverage'[r] = "failed" /\ state'[r] = "partial"
  <2>1. coverage'[r] = IF covered THEN "processing" ELSE "failed"
    BY <1>1, <1>3 DEF TypeOK
  <2>2. state'[r] = IF coverage'[r] = "processing" THEN "waiting_validation" ELSE "partial"
    BY <1>1, <1>3 DEF TypeOK
  <2> QED
    BY <2>1, <2>2
<1>5. Solo(w, r)
  <2>1. /\ \A a \in Api : pc'[a] = pc[a]
        /\ \A v \in Worker \ {w} : pc'[v] = pc[v]
    BY <1>0, <1>2 DEF Executor, TypeOK
  <2>2. \A q \in Run \ {r} : state'[q] = state[q] /\ coverage'[q] = coverage[q]
    BY <1>3 DEF TypeOK
  <2> QED
    BY <1>2, <2>1, <2>2 DEF Solo
<1>6. SoundAt(w, r)
  <2>1. pc'[w] = "finishing"
    BY <1>0, <1>2 DEF TypeOK
  <2>2. Settled(r)' /\ KnowsRun(w)'
    BY <1>4, <2>1 DEF Settled, KnowsRun
  <2>3. state'[r] # "absent" /\ state[r] \notin DeliveredState
    BY <1>1, <1>4 DEF DeliveredState
  <2> QED
    BY <1>r, <1>0, <1>2, <2>1, <2>2, <2>3 DEF SoundAt, AtWork
<1> QED
  BY <1>0, <1>5, <1>6, SoloKeepsLife

\* Whatever a worker does keeps the life of the runs, as long as it gives nothing up.
LEMMA WorkersKeepLife ==
    ASSUME TypeOK, HoldsRun, RunLife, NothingGivenUp',
           NEW w \in Worker, WorkerStep(w) \/ Crash(w)
    PROVE  RunLife' /\ KeepsDelivered
<1>0. w \in Executor /\ pc[w] \in AtWork \cup {"idle"}
  BY DEF Executor, RunLife, OneExecutor
<1>1. CASE \E r \in Run : ClaimRun(w, r) \/ RecoverRun(w, r)
  BY <1>1, ClaimKeepsLife, RecoverKeepsLife
<1>2. CASE Process(w)
  BY <1>2, StartKeepsLife, ReadKeepsLife, WriteKeepsLife DEF Process
<1>3. CASE Expand(w)
  BY <1>3, ExpandKeepsLife
<1>4. CASE CompleteRun(w)
  <2>1. pc[w] \in AtWork /\ on[w] \in Run
    BY <1>0, <1>4 DEF CompleteRun, AtWork, HoldsRun
  <2>2. jobStatus' = [jobStatus EXCEPT ![on[w]] = jobStatus'[on[w]]]
    BY <1>4, <2>1 DEF CompleteRun, TypeOK
  <2> QED
    BY <1>4, <2>1, <2>2, LeavingIsSolo DEF CompleteRun
<1>5. CASE FailJob(w)
  <2>1. pc[w] \in AtWork /\ on[w] \in Run
    BY <1>0, <1>5 DEF FailJob, AtWork, HoldsRun
  <2>2. pc' # [pc EXCEPT ![w] = "burying"]
    BY <1>0 DEF NothingGivenUp, TypeOK
  <2>3. /\ Leave(w)
        /\ jobStatus' = jobStatus \/ jobStatus' = [jobStatus EXCEPT ![on[w]] = "queued"]
        /\ UNCHANGED runVars
    BY <1>5, <2>2 DEF FailJob, Goto
  <2>4. jobStatus' = [jobStatus EXCEPT ![on[w]] = jobStatus'[on[w]]]
    BY <2>1, <2>3 DEF TypeOK
  <2> QED
    BY <2>1, <2>3, <2>4, LeavingIsSolo
<1>6. CASE FailRun(w)
  BY <1>0, <1>6 DEF FailRun, AtWork
<1>7. CASE Crash(w)
  <2>1. Leave(w) /\ UNCHANGED runVars /\ jobStatus' = jobStatus /\ pc[w] \in AtWork
    BY <1>0, <1>7 DEF Crash, jobVars
  <2>2. jobStatus' = [jobStatus EXCEPT ![on[w]] = jobStatus'[on[w]]]
    BY <2>1 DEF TypeOK
  <2> QED
    BY <2>1, <2>2, LeavingIsSolo
<1> QED
  BY <1>1, <1>2, <1>3, <1>4, <1>5, <1>6, <1>7 DEF WorkerStep

\* The life of the runs is inductive, and withdraws nothing.
LEMMA LifeGoesOn ==
    ASSUME ~Watched, TypeOK, HoldsRun, RunLife, NothingGivenUp', [Next]_vars
    PROVE  RunLife' /\ KeepsDelivered
<1>1. CASE \E w \in Worker : WorkerStep(w) \/ Crash(w)
  BY <1>1, WorkersKeepLife
<1>2. CASE \E a \in Api : RequestStep(a) \/ RequestStart(a) \/ Crash(a)
  BY <1>2, LifeIsOrderly, RequestsAreAside, AsideKeepsLife
<1>3. CASE ScheduleWaiting
  BY <1>3, LifeIsOrderly, ScheduleWaitingIsAside, AsideKeepsLife
<1>4. CASE \/ EditCriteria
           \/ \E b \in Business : FactsChange(b)
           \/ \E r \in Run : DeadlinePasses(r)
           \/ UNCHANGED vars
  BY <1>4, LifeIsOrderly, WorldIsAside, AsideKeepsLife
<1> QED
  BY <1>1, <1>2, <1>3, <1>4 DEF Next, Executor

\* It holds of no runs.
LEMMA LifeBegins == Init => RunLife
<1> SUFFICES ASSUME Init PROVE RunLife
  OBVIOUS
<1>1. OneExecutor
  BY DEF Init, OneExecutor, InRequest, AtWork, Executor
<1>2. Unborn
  <2>1. \A r \in Run : r >= 1
    BY DEF Run
  <2> QED
    BY <2>1 DEF Init, Unborn, Executor
<1>3. (\A w \in Worker : KnowsRun(w)) /\ \A r \in Run : Settled(r)
  BY DEF Init, KnowsRun, Settled, Executor
<1> QED
  BY <1>1, <1>2, <1>3 DEF RunLife

\* Before its deadline a run ends PARTIAL only when nothing more is coming, in every
\* behaviour in which nobody polls and no job is given up: whatever raises, however
\* often executors crash and runs are enqueued again.
THEOREM PartialIsExhaustedHolds ==
    ASSUME ~Watched
    PROVE  Spec /\ []NothingGivenUp => []PartialIsExhausted
<1>1. TypeOK /\ HoldsRun /\ RunLife /\ NothingGivenUp' /\ [Next]_vars => RunLife'
  BY LifeGoesOn
<1>2. RunLife => PartialIsExhausted
  BY DEF RunLife, Settled, PartialIsExhausted
<1>3. TypeOK /\ HoldsRun /\ [Next]_vars => TypeOK' /\ HoldsRun'
  BY StepTypes
<1> QED
  BY InitTypes, LifeBegins, <1>1, <1>2, <1>3, PTL DEF Spec

\* What has been delivered is not withdrawn, in every behaviour in which nobody polls
\* and no job is given up: however often the job of a delivered run is enqueued and
\* executed again.
THEOREM DeliveredIsFinalHolds ==
    ASSUME ~Watched
    PROVE  Spec /\ []NothingGivenUp => DeliveredIsFinal
<1>1. TypeOK /\ HoldsRun /\ RunLife /\ NothingGivenUp' /\ [Next]_vars => RunLife' /\ KeepsDelivered
  BY LifeGoesOn
<1>2. KeepsDelivered =>
        [\A r \in Run : state[r] \in DeliveredState => state'[r] = state[r]]_vars
  BY DEF KeepsDelivered
<1>3. TypeOK /\ HoldsRun /\ [Next]_vars => TypeOK' /\ HoldsRun'
  BY StepTypes
<1> QED
  BY InitTypes, LifeBegins, <1>1, <1>2, <1>3, PTL DEF Spec, DeliveredIsFinal

(***************************************************************************)
(* The jobs of the runs and the queue's promise about a key                *)
(***************************************************************************)

HoldersOf(r) == {w \in Worker : on[w] = r /\ mine[w] /\ pc[w] \in AtWork}

\* Requests hold no job.
OnlyWorkersHold == \A a \in Api : ~mine[a]

\* The job of a run is RUNNING as long as a worker has it, and only one does.
JobHeldAlone ==
    \A r \in Run : \A w \in HoldersOf(r) : jobStatus[r] = "running" /\ HoldersOf(r) = {w}

\* What a step does to the jobs and to who has them.
HoldersStay == \A r \in Run : HoldersOf(r)' = HoldersOf(r)
Asks ==
    /\ \A r \in Run : \/ jobStatus'[r] = jobStatus[r] /\ HoldersOf(r)' = HoldersOf(r)
                      \/ /\ jobStatus[r] \notin ActiveJob /\ jobStatus'[r] = "queued"
                         /\ HoldersOf(r)' \subseteq HoldersOf(r)
Takes(w, r) ==
    /\ jobStatus[r] = "queued" /\ jobStatus'[r] = "running"
    /\ HoldersOf(r)' = HoldersOf(r) \cup {w}
    /\ \A q \in Run \ {r} : jobStatus'[q] = jobStatus[q] /\ HoldersOf(q)' = HoldersOf(q)
LeavesIt(w) ==
    /\ on[w] \in Run
    /\ w \in HoldersOf(on[w]) \/ jobStatus'[on[w]] = jobStatus[on[w]]
    /\ jobStatus'[on[w]] \in {jobStatus[on[w]], "queued", "completed", "dead_letter"}
    /\ \A q \in Run : HoldersOf(q)' = HoldersOf(q) \ {w}
    /\ \A q \in Run \ {on[w]} : jobStatus'[q] = jobStatus[q]
Reclaims(r) ==
    /\ jobStatus[r] = "running" /\ HoldersOf(r) = {}
    /\ jobStatus'[r] \in {"queued", "dead_letter"}
    /\ HoldersStay
    /\ \A q \in Run \ {r} : jobStatus'[q] = jobStatus[q]

JobsMove ==
    \/ Asks
    \/ \E w \in Worker : LeavesIt(w) \/ \E r \in Run : Takes(w, r)
    \/ \E r \in Run : Reclaims(r)

\* enqueue_once takes no job that is active from anybody.
LEMMA EnqueueAsks ==
    ASSUME TypeOK, NEW S, EnqueueRuns(S),
           \A w \in Worker : on'[w] = on[w] /\ pc'[w] = pc[w]
    PROVE  Asks
<1> SUFFICES ASSUME NEW r \in Run
             PROVE  \/ jobStatus'[r] = jobStatus[r] /\ HoldersOf(r)' = HoldersOf(r)
                    \/ /\ jobStatus[r] \notin ActiveJob /\ jobStatus'[r] = "queued"
                       /\ HoldersOf(r)' \subseteq HoldersOf(r)
  BY DEF Asks
<1> DEFINE fresh == {q \in S : jobStatus[q] \notin ActiveJob}
<1>1. /\ jobStatus'[r] = IF r \in fresh THEN "queued" ELSE jobStatus[r]
      /\ \A w \in Worker : mine'[w] = (mine[w] /\ on[w] \notin fresh)
  BY DEF EnqueueRuns, Executor
<1>2. CASE r \in fresh
  BY <1>1, <1>2 DEF HoldersOf
<1>3. CASE r \notin fresh
  <2>1. \A w \in Worker : on[w] = r => mine'[w] = mine[w]
    BY <1>1, <1>3 DEF TypeOK, Executor
  <2> HIDE DEF fresh
  <2> QED BY <1>1, <1>3, <2>1 DEF HoldersOf
<1> QED BY <1>2, <1>3

\* A step that leaves the jobs, and the workers as they are, asks for nothing.
LEMMA QuietAsks ==
    ASSUME UNCHANGED <<jobStatus, mine>>,
           \A w \in Worker : /\ on'[w] = on[w]
                             /\ pc'[w] \in AtWork <=> pc[w] \in AtWork
    PROVE  Asks
BY DEF Asks, HoldersOf

\* The steps of the requests ask for jobs, and take none while nobody polls.
LEMMA SessionsAsk ==
    ASSUME TypeOK, OnlyWorkersHold, ~Watched, NEW a \in Api, RequestStep(a) \/ RequestStart(a)
    PROVE  Asks /\ OnlyWorkersHold'
<1> USE DEF runVars, resultVars, jobVars, audienceVars, localVars
<1>0. /\ a \in Executor /\ a \notin Worker /\ ~mine[a]
      /\ \A w \in Worker : w \in Executor /\ w # a
  BY AudienceAssumption DEF Executor, OnlyWorkersHold
<1>1. ASSUME NEW S, EnqueueRuns(S)
      PROVE  OnlyWorkersHold'
  BY <1>1 DEF EnqueueRuns, OnlyWorkersHold, Executor
<1>2. ASSUME CreateSelect(a) PROVE Asks /\ OnlyWorkersHold'
  <2>1. \A w \in Worker : on'[w] = on[w] /\ pc'[w] = pc[w]
    BY <1>0, <1>2 DEF CreateSelect, Goto, TypeOK
  <2>2. CASE ActiveRuns # {}
    <3>1. EnqueueRuns({Max(ActiveRuns)})
      BY <1>2, <2>2 DEF CreateSelect
    <3> QED BY <1>1, <2>1, <3>1, EnqueueAsks
  <2>3. CASE ActiveRuns = {}
    BY <1>2, <2>1, <2>3, QuietAsks DEF CreateSelect, OnlyWorkersHold
  <2> QED BY <2>2, <2>3
<1>3. ASSUME CreateInsert(a) \/ EnqueueCreated(a) PROVE Asks /\ OnlyWorkersHold'
  <2>1. \A w \in Worker : on'[w] = on[w] /\ pc'[w] = pc[w]
    BY <1>0, <1>3 DEF CreateInsert, EnqueueCreated, Goto, TypeOK
  <2>2. (\E S \in {{nextRun}, {on[a]}} : EnqueueRuns(S)) \/ UNCHANGED <<jobStatus, mine>>
    BY <1>3 DEF CreateInsert, EnqueueCreated
  <2>3. CASE \E S \in {{nextRun}, {on[a]}} : EnqueueRuns(S)
    BY <1>1, <2>1, <2>3, EnqueueAsks
  <2>4. CASE UNCHANGED <<jobStatus, mine>>
    BY <2>1, <2>4, QuietAsks DEF OnlyWorkersHold
  <2> QED BY <2>2, <2>3, <2>4
<1>4. ASSUME Process(a) PROVE Asks /\ OnlyWorkersHold'
  <2>1. /\ UNCHANGED <<jobStatus, mine, on>>
        /\ \A w \in Worker : pc'[w] = pc[w]
    BY <1>0, <1>4 DEF Process, ProcessStart, ProcessMatch, ProcessRead, ProcessWrite, ProcessRaise,
                      Goto, TypeOK
  <2> QED BY <2>1, QuietAsks DEF OnlyWorkersHold
<1>5. ASSUME Leave(a), UNCHANGED jobStatus PROVE Asks /\ OnlyWorkersHold'
  <2>1. \A w \in Worker : on'[w] = on[w] /\ pc'[w] = pc[w] /\ mine'[w] = mine[w]
    BY <1>0, <1>5 DEF Leave, Goto, TypeOK
  <2>2. Asks
    BY <1>5, <2>1 DEF Asks, HoldersOf
  <2>3. OnlyWorkersHold'
    BY <1>0, <1>5 DEF Leave, OnlyWorkersHold, TypeOK, Executor
  <2> QED BY <2>2, <2>3
<1>6. ASSUME PollLock(a) \/ PollFinish(a) \/ PollFail(a) PROVE Asks /\ OnlyWorkersHold'
  <2>1. Leave(a) /\ jobStatus' = jobStatus
    BY <1>0, <1>6 DEF PollLock, PollFinish, PollFail, TypeOK
  <2> QED BY <1>5, <2>1
<1>7. ASSUME RefillIfDepleted(a) PROVE Asks /\ OnlyWorkersHold'
  <2>1. CASE CreateSelect(a)
    BY <1>2, <2>1
  <2>2. CASE ~CreateSelect(a)
    <3>1. UNCHANGED <<jobStatus, mine, on>> /\ \A w \in Worker : pc'[w] = pc[w]
      BY <1>0, <1>7, <2>2 DEF RefillIfDepleted, Goto, TypeOK
    <3> QED BY <3>1, QuietAsks DEF OnlyWorkersHold
  <2> QED BY <2>1, <2>2
<1>8. ASSUME NEW r \in Run, NEW b \in Business,
             Shortlist(a, r, b) \/ \E verdict \in {"not_fit", "unreviewed"} : Judge(a, r, b, verdict)
      PROVE  Asks /\ OnlyWorkersHold'
  <2>1. UNCHANGED <<jobStatus, mine, on>> /\ \A w \in Worker : pc'[w] = pc[w]
    BY <1>0, <1>8 DEF Shortlist, Judge, Goto, TypeOK
  <2> QED BY <2>1, QuietAsks DEF OnlyWorkersHold
<1> QED
  BY <1>2, <1>3, <1>4, <1>6, <1>7, <1>8 DEF RequestStep, RequestStart, Refill, Poll

\* A worker's steps take a job, work at it, let go of it, or take back a dead one's.
LEMMA WorkersMove ==
    ASSUME TypeOK, HoldsRun, OnlyWorkersHold, NEW w \in Worker, WorkerStep(w) \/ Crash(w)
    PROVE  JobsMove /\ OnlyWorkersHold'
<1> USE DEF runVars, resultVars, jobVars, audienceVars, localVars
<1>0. w \in Executor /\ w \notin Api /\ Worker \subseteq Executor
  BY AudienceAssumption DEF Executor
<1>1. ASSUME NEW r \in Run, ClaimRun(w, r) PROVE JobsMove /\ OnlyWorkersHold'
  <2>1. /\ jobStatus[r] = "queued" /\ jobStatus' = [jobStatus EXCEPT ![r] = "running"]
        /\ on' = [on EXCEPT ![w] = r] /\ mine' = [mine EXCEPT ![w] = TRUE]
        /\ pc[w] = "idle" /\ pc' = [pc EXCEPT ![w] = "starting"]
    BY <1>1 DEF ClaimRun, Goto
  <2>2. \A q \in Run : HoldersOf(q)' = IF q = r THEN HoldersOf(q) \cup {w} ELSE HoldersOf(q)
    BY <1>0, <2>1 DEF HoldersOf, AtWork, TypeOK
  <2>3. Takes(w, r)
    BY <2>1, <2>2 DEF Takes, TypeOK
  <2>4. OnlyWorkersHold'
    BY <1>0, <2>1 DEF OnlyWorkersHold, TypeOK, Executor
  <2> QED BY <2>3, <2>4 DEF JobsMove
<1>2. ASSUME NEW r \in Run, RecoverRun(w, r) PROVE JobsMove /\ OnlyWorkersHold'
  <2>1. /\ jobStatus[r] = "running"
        /\ \E s \in {"queued", "dead_letter"} : jobStatus' = [jobStatus EXCEPT ![r] = s]
        /\ \A x \in Executor : ~(on[x] = r /\ mine[x])
        /\ mine' = mine /\ pc[w] = "idle"
        /\ \/ UNCHANGED <<pc, on>>
           \/ pc' = [pc EXCEPT ![w] = "burying"] /\ on' = [on EXCEPT ![w] = r]
    BY <1>2 DEF RecoverRun, Goto
  <2>2. HoldersOf(r) = {} /\ HoldersStay
    BY <1>0, <2>1 DEF HoldersOf, HoldersStay, AtWork, TypeOK
  <2>3. Reclaims(r)
    BY <2>1, <2>2 DEF Reclaims, TypeOK
  <2> QED BY <2>1, <2>3 DEF JobsMove, OnlyWorkersHold
<1>3. ASSUME Process(w) \/ Expand(w) PROVE JobsMove /\ OnlyWorkersHold'
  <2>1. /\ UNCHANGED <<jobStatus, mine, on>>
        /\ \E l \in AtWork : pc[w] \in AtWork /\ pc' = [pc EXCEPT ![w] = l]
    BY <1>3 DEF Process, ProcessStart, ProcessMatch, ProcessRead, ProcessWrite, ProcessRaise,
                Expand, Goto, AtWork
  <2>2. \A v \in Worker : pc'[v] \in AtWork <=> pc[v] \in AtWork
    BY <1>0, <2>1 DEF TypeOK
  <2>3. Asks
    BY <2>1, <2>2, QuietAsks
  <2> QED BY <2>1, <2>3 DEF JobsMove, OnlyWorkersHold
<1>4. ASSUME pc'[w] \notin AtWork,
             \A x \in Executor \ {w} : pc'[x] = pc[x] /\ on'[x] = on[x] /\ mine'[x] = mine[x]
      PROVE  (\A q \in Run : HoldersOf(q)' = HoldersOf(q) \ {w}) /\ OnlyWorkersHold'
  BY <1>0, <1>4 DEF HoldersOf, OnlyWorkersHold, Executor
<1>5. ASSUME Leave(w)
      PROVE  /\ pc'[w] \notin AtWork
             /\ \A x \in Executor \ {w} : pc'[x] = pc[x] /\ on'[x] = on[x] /\ mine'[x] = mine[x]
  BY <1>0, <1>5 DEF Leave, Goto, AtWork, TypeOK
<1>6. ASSUME CompleteRun(w) \/ FailJob(w) PROVE JobsMove /\ OnlyWorkersHold'
  <2>1. pc[w] \in {"finishing", "raised"} /\ on[w] \in Run /\ pc[w] \in AtWork
    BY <1>0, <1>6 DEF CompleteRun, FailJob, HoldsRun, AtWork
  <2>2. /\ pc'[w] \notin AtWork
        /\ \A x \in Executor \ {w} : pc'[x] = pc[x] /\ on'[x] = on[x] /\ mine'[x] = mine[x]
    <3>1. CASE Leave(w)
      BY <1>5, <3>1
    <3>2. CASE Goto(w, "burying") /\ UNCHANGED <<on, mine>>
      BY <1>0, <3>2 DEF Goto, AtWork, TypeOK
    <3> QED BY <1>6, <3>1, <3>2 DEF CompleteRun, FailJob
  <2>3. /\ \A q \in Run \ {on[w]} : jobStatus'[q] = jobStatus[q]
        /\ mine[w] \/ jobStatus'[on[w]] = jobStatus[on[w]]
        /\ jobStatus'[on[w]] \in {jobStatus[on[w]], "queued", "completed", "dead_letter"}
    BY <1>6, <2>1 DEF CompleteRun, FailJob, TypeOK
  <2>4. mine[w] => w \in HoldersOf(on[w])
    BY <2>1 DEF HoldersOf
  <2>5. LeavesIt(w)
    BY <1>4, <2>1, <2>2, <2>3, <2>4 DEF LeavesIt
  <2> QED BY <1>4, <2>2, <2>5 DEF JobsMove
<1>7. ASSUME FailRun(w) \/ Crash(w) PROVE JobsMove /\ OnlyWorkersHold'
  <2>1. Leave(w) /\ jobStatus' = jobStatus
    BY <1>7 DEF FailRun, Crash
  <2>2. (\A q \in Run : HoldersOf(q)' = HoldersOf(q) \ {w}) /\ OnlyWorkersHold'
    BY <1>4, <1>5, <2>1
  <2>3. CASE on[w] \in Run
    <3>1. LeavesIt(w)
      BY <2>1, <2>2, <2>3 DEF LeavesIt
    <3> QED BY <2>2, <3>1 DEF JobsMove
  <2>4. CASE on[w] \notin Run
    <3>1. HoldersStay
      BY <2>2, <2>4 DEF HoldersStay, HoldersOf
    <3>2. Asks
      BY <2>1, <3>1 DEF Asks, HoldersStay
    <3> QED BY <2>2, <3>2 DEF JobsMove
  <2> QED BY <2>3, <2>4
<1> QED
  BY <1>1, <1>2, <1>3, <1>6, <1>7 DEF WorkerStep

\* Every step moves the jobs so while nobody polls.
LEMMA JobsMoveSo ==
    ASSUME TypeOK, HoldsRun, OnlyWorkersHold, ~Watched, [Next]_vars
    PROVE  JobsMove /\ OnlyWorkersHold'
<1>1. ASSUME NEW w \in Worker, WorkerStep(w) \/ Crash(w) PROVE JobsMove /\ OnlyWorkersHold'
  BY <1>1, WorkersMove
<1>2. ASSUME NEW a \in Api, RequestStep(a) \/ RequestStart(a) PROVE JobsMove /\ OnlyWorkersHold'
  BY <1>2, SessionsAsk DEF JobsMove
<1>3. ASSUME NEW a \in Api, Crash(a) PROVE JobsMove /\ OnlyWorkersHold'
  <2>1. a \in Executor /\ a \notin Worker /\ \A w \in Worker : w \in Executor /\ w # a
    BY AudienceAssumption DEF Executor
  <2>2. jobStatus' = jobStatus /\ \A w \in Worker : pc'[w] = pc[w] /\ on'[w] = on[w] /\ mine'[w] = mine[w]
    BY <1>3, <2>1 DEF Crash, Leave, Goto, TypeOK, jobVars
  <2>3. Asks
    BY <2>2 DEF Asks, HoldersOf
  <2>4. OnlyWorkersHold'
    BY <1>3, <2>1 DEF Crash, Leave, OnlyWorkersHold, TypeOK, Executor
  <2> QED BY <2>3, <2>4 DEF JobsMove
<1>4. CASE ScheduleWaiting
  <2>1. EnqueueRuns({r \in Run : state[r] = "waiting_validation"}) /\ UNCHANGED <<pc, on>>
    BY <1>4 DEF ScheduleWaiting
  <2>2. Asks
    BY <2>1, EnqueueAsks
  <2>3. OnlyWorkersHold'
    BY <2>1 DEF EnqueueRuns, OnlyWorkersHold, Executor
  <2> QED BY <2>2, <2>3 DEF JobsMove
<1>5. CASE \/ EditCriteria \/ (\E b \in Business : FactsChange(b))
           \/ (\E r \in Run : DeadlinePasses(r)) \/ UNCHANGED vars
  <2>1. UNCHANGED <<jobStatus, mine, on, pc>>
    BY <1>5 DEF EditCriteria, FactsChange, DeadlinePasses, vars, jobVars, localVars
  <2> QED BY <2>1, QuietAsks DEF JobsMove, OnlyWorkersHold
<1> QED
  BY <1>1, <1>2, <1>3, <1>4, <1>5 DEF Next, Executor

\* A job is held alone after each.
LEMMA JobHeldAloneStep ==
    ASSUME JobHeldAlone, JobsMove
    PROVE  JobHeldAlone'
<1> SUFFICES ASSUME NEW r \in Run, NEW v \in HoldersOf(r)'
             PROVE  jobStatus'[r] = "running" /\ HoldersOf(r)' = {v}
  BY DEF JobHeldAlone
<1>1. \A w \in HoldersOf(r) : jobStatus[r] = "running" /\ HoldersOf(r) = {w}
  BY DEF JobHeldAlone
<1>2. CASE Asks
  BY <1>1, <1>2 DEF Asks, ActiveJob
<1>3. ASSUME NEW w \in Worker, NEW q \in Run, Takes(w, q)
      PROVE  jobStatus'[r] = "running" /\ HoldersOf(r)' = {v}
  <2>1. CASE q = r
    BY <1>1, <1>3, <2>1 DEF Takes
  <2>2. CASE q # r
    BY <1>1, <1>3, <2>2 DEF Takes
  <2> QED BY <2>1, <2>2
<1>4. ASSUME NEW w \in Worker, LeavesIt(w)
      PROVE  jobStatus'[r] = "running" /\ HoldersOf(r)' = {v}
  <2>1. v \in HoldersOf(r) /\ v # w /\ w \notin HoldersOf(r) /\ HoldersOf(r)' = HoldersOf(r)
    BY <1>1, <1>4 DEF LeavesIt
  <2>2. jobStatus'[r] = jobStatus[r]
    BY <1>4, <2>1 DEF LeavesIt
  <2> QED BY <1>1, <2>1, <2>2
<1>5. ASSUME NEW q \in Run, Reclaims(q)
      PROVE  jobStatus'[r] = "running" /\ HoldersOf(r)' = {v}
  <2>1. v \in HoldersOf(r) /\ HoldersOf(r)' = HoldersOf(r) /\ q # r
    BY <1>5 DEF Reclaims, HoldersStay
  <2> QED BY <1>1, <1>5, <2>1 DEF Reclaims
<1> QED BY <1>2, <1>3, <1>4, <1>5 DEF JobsMove

\* What a step does to a job, as a step of the lease.
LEMMA JobsLawful ==
    ASSUME TypeOK, JobHeldAlone, JobsMove, NEW r \in Run
    PROVE  Lease!Lawful(r)
<1> USE DEF ActiveJob, Lease!Lawful, Lease!Unmoved, Lease!Handled, Lease!Leased, Lease!Released,
            Lease!Orphaned, Lease!Recovered, Lease!Moves, Lease!Idle
<1>1. \A w \in HoldersOf(r) : jobStatus[r] = "running" /\ HoldersOf(r) = {w}
  BY DEF JobHeldAlone
<1>2. CASE jobStatus'[r] = jobStatus[r] /\ HoldersOf(r)' = HoldersOf(r)
  BY <1>2 DEF HoldersOf
<1>3. CASE Asks
  <2>1. CASE jobStatus[r] \notin ActiveJob /\ jobStatus'[r] = "queued" /\ HoldersOf(r)' \subseteq HoldersOf(r)
    <3>1. HoldersOf(r) = {} /\ HoldersOf(r)' = {}
      BY <1>1, <2>1
    <3> QED BY <2>1, <3>1 DEF HoldersOf
  <2> QED BY <1>2, <1>3, <2>1 DEF Asks
<1>4. ASSUME NEW w \in Worker, NEW q \in Run, Takes(w, q)
      PROVE  Lease!Lawful(r)
  <2>1. CASE q = r
    <3>1. jobStatus[r] = "queued" /\ jobStatus'[r] = "running"
      BY <1>4, <2>1 DEF Takes
    <3>2. HoldersOf(r) = {} /\ HoldersOf(r)' = {w}
      BY <1>1, <1>4, <2>1, <3>1 DEF Takes
    <3> QED BY <3>1, <3>2 DEF HoldersOf
  <2>2. CASE q # r
    BY <1>2, <1>4, <2>2 DEF Takes
  <2> QED BY <2>1, <2>2
<1>5. ASSUME NEW w \in Worker, LeavesIt(w)
      PROVE  Lease!Lawful(r)
  <2>1. CASE w \in HoldersOf(r)
    <3>1. jobStatus[r] = "running" /\ HoldersOf(r) = {w} /\ HoldersOf(r)' = {}
      BY <1>1, <1>5, <2>1 DEF LeavesIt
    <3>2. jobStatus'[r] \in {"running", "queued", "completed", "dead_letter"}
      BY <1>5, <2>1, <3>1 DEF LeavesIt, HoldersOf
    <3> QED BY <3>1, <3>2 DEF HoldersOf
  <2>2. CASE w \notin HoldersOf(r)
    <3>1. jobStatus'[r] = jobStatus[r] /\ HoldersOf(r)' = HoldersOf(r)
      BY <1>5, <2>2 DEF LeavesIt
    <3> QED BY <1>2, <3>1
  <2> QED BY <2>1, <2>2
<1>6. ASSUME NEW q \in Run, Reclaims(q)
      PROVE  Lease!Lawful(r)
  <2>1. CASE q = r
    BY <1>6, <2>1 DEF Reclaims, HoldersStay, HoldersOf
  <2>2. CASE q # r
    BY <1>2, <1>6, <2>2 DEF Reclaims, HoldersStay
  <2> QED BY <2>1, <2>2
<1> QED BY <1>3, <1>4, <1>5, <1>6 DEF JobsMove

\* As long as nobody polls, the job of a run is leased as the queue promises for a key: a
\* run is matched by one worker at a time, however often it is enqueued and whoever dies
\* (audience_runs/service.py, job_queue/worker.py). A poll takes the job over from
\* its worker and is no such lease.
THEOREM RunsAreLeased ==
    ASSUME ~Watched
    PROVE  Spec => ImplementsKeyLease
<1>1. Init => OnlyWorkersHold /\ JobHeldAlone
  <2> SUFFICES ASSUME Init PROVE OnlyWorkersHold /\ JobHeldAlone
    OBVIOUS
  <2> QED BY DEF Init, OnlyWorkersHold, JobHeldAlone, HoldersOf, AtWork, Executor
<1>2. TypeOK /\ HoldsRun /\ OnlyWorkersHold /\ JobHeldAlone /\ [Next]_vars
         => OnlyWorkersHold' /\ JobHeldAlone'
  BY JobsMoveSo, JobHeldAloneStep
<1>3. Init => Lease!Init
  <2> SUFFICES ASSUME Init PROVE Lease!Init
    OBVIOUS
  <2>1. \A r \in Run : jobStatus[r] \notin ActiveJob /\ {w \in Worker : on[w] = r /\ mine[w] /\ pc[w] \in AtWork} = {}
    BY DEF Init, ActiveJob, AtWork, Executor
  <2> QED BY <2>1 DEF Lease!Init
<1>4. TypeOK /\ HoldsRun /\ OnlyWorkersHold /\ JobHeldAlone /\ [Next]_vars
         => [Lease!Next]_(Lease!leaseVars)
  <2> SUFFICES ASSUME TypeOK, HoldsRun, OnlyWorkersHold, JobHeldAlone, [Next]_vars
               PROVE  Lease!Next
    OBVIOUS
  <2>1. /\ [r \in Run |-> IF jobStatus[r] \in ActiveJob THEN jobStatus[r] ELSE "none"]'
             \in [Run -> Lease!Stage]
        /\ [r \in Run |-> {w \in Worker : on[w] = r /\ mine[w] /\ pc[w] \in AtWork}]'
             \in [Run -> SUBSET Worker]
    BY DEF Lease!Stage, ActiveJob
  <2>2. \A r \in Run : Lease!Lawful(r)
    BY JobsMoveSo, JobsLawful
  <2> QED
    BY <2>1, <2>2 DEF Lease!Next
<1>5. TypeOK /\ HoldsRun /\ [Next]_vars => TypeOK' /\ HoldsRun'
  BY StepTypes
<1> QED
  BY InitTypes, <1>1, <1>2, <1>3, <1>4, <1>5, PTL DEF Spec, ImplementsKeyLease, Lease!Spec

(***************************************************************************)
(* An active run is served                                                 *)
(*                                                                         *)
(* What a worker reads of its run may be overtaken by one that sets the    *)
(* run FAILED, and by nobody else while nobody polls: the worker that      *)
(* completes the job of a run leaves the run neither QUEUED nor MATCHING.  *)
(***************************************************************************)

Unserved == {"queued", "matching"}

\* A worker that is through with its run, or will find that it is, has nothing
\* left to match.
Ended(w) ==
    /\ pc[w] \in {"expanding", "finishing"} => state[on[w]] \notin Unserved
    /\ pc[w] = "starting" /\ cached[w] \in DeliveredState \cup {"failed"} => state[on[w]] \notin Unserved

Serving ==
    /\ Orderly
    /\ \A w \in Worker : /\ pc[w] \in AtWork \cup {"idle", "burying"}
                         /\ pc[w] # "idle" => on[w] \in Run /\ state[on[w]] # "absent"
                         /\ Ended(w)
    /\ ActiveIsServed

\* What a worker's step at r may do to it.
ServesAt(w, r) ==
    /\ pc'[w] \in AtWork \cup {"idle", "burying"}
    /\ pc'[w] # "idle" => on'[w] = r
    /\ pc'[w] \in AtWork => mine'[w] /\ jobStatus'[r] = "running"
    /\ state'[r] # "absent"
    /\ Ended(w)'
    /\ state'[r] \in Unserved => jobStatus'[r] \in ActiveJob \cup {"none", "dead_letter"}

\* A run that others are at work on is at most set FAILED.
Spares(w, r) ==
    \/ LeftTo(w, r)
    \/ jobStatus'[r] = jobStatus[r] /\ (state'[r] = state[r] \/ state'[r] = "failed")

\* The requests, the scheduler and the world leave a run that is created with or
\* without a job, and take no job from a run.
LEMMA AsideServes ==
    ASSUME TypeOK, HoldsRun, Serving, Aside
    PROVE  Serving'
<1>0. nextRun \in Nat /\ Run \subseteq Nat
  BY AudienceAssumption DEF TypeOK, Run
<1>1. /\ Orderly'
      /\ \A r \in Run : \/ state'[r] = state[r]
                        \/ r = nextRun /\ nextRun' = nextRun + 1 /\ state'[r] = "queued"
      /\ \A r \in Run : r < nextRun => state'[r] = state[r]
  BY AsideKeepsOrder DEF Serving
<1>2. \A r \in Run : state[r] # "absent" => state'[r] = state[r]
  BY <1>0, <1>1 DEF Serving, Orderly, Unborn
<1>3. ASSUME NEW w \in Worker
      PROVE  /\ pc'[w] \in AtWork \cup {"idle", "burying"}
             /\ pc'[w] # "idle" => on'[w] \in Run /\ state'[on'[w]] # "absent"
             /\ Ended(w)'
  <2>1. pc'[w] = pc[w] /\ on'[w] = on[w] /\ cached'[w] = cached[w]
    BY DEF Aside
  <2>2. pc[w] # "idle" => on[w] \in Run /\ state'[on[w]] = state[on[w]] /\ state[on[w]] # "absent"
    BY <1>2 DEF Serving
  <2> QED
    BY <2>1, <2>2 DEF Serving, Ended
<1>4. ActiveIsServed'
  <2> SUFFICES ASSUME NEW r \in Run, state'[r] \in Unserved
               PROVE  jobStatus'[r] \in ActiveJob \cup {"none", "dead_letter"}
    BY DEF ActiveIsServed, Unserved
  <2>1. jobStatus[r] \in ActiveJob \cup {"none", "dead_letter"}
    <3>1. CASE state'[r] = state[r]
      BY <3>1 DEF Serving, ActiveIsServed, Unserved
    <3>2. CASE r = nextRun
      BY <1>0, <3>2 DEF Serving, Orderly, Unborn
    <3> QED
      BY <1>1, <3>1, <3>2
  <2> QED
    BY <2>1 DEF Aside, AsksOnly, ActiveJob
<1> QED
  BY <1>1, <1>3, <1>4 DEF Serving

\* A worker's step at a run that exists, if it serves that run and spares the others
\* that are at work on it.
LEMMA SoloServes ==
    ASSUME TypeOK, HoldsRun, Serving, NEW w \in Worker, NEW r \in Run, Solo(w, r),
           state[r] # "absent", Spares(w, r), ServesAt(w, r)
    PROVE  Serving'
<1>0. nextRun \in Nat /\ Run \subseteq Nat /\ ~(r >= nextRun)
  BY AudienceAssumption DEF TypeOK, Run, Serving, Orderly, Unborn
<1>1. ASSUME NEW v \in Worker, v # w
      PROVE  /\ pc'[v] \in AtWork \cup {"idle", "burying"}
             /\ pc'[v] # "idle" => on'[v] \in Run /\ state'[on'[v]] # "absent"
             /\ pc'[v] \in AtWork => mine'[v] /\ jobStatus'[on'[v]] = "running"
             /\ Ended(v)'
  <2>1. /\ pc'[v] = pc[v] /\ on'[v] = on[v] /\ mine'[v] = mine[v] /\ cached'[v] = cached[v]
        /\ pc[v] # "idle" => on[v] \in Run /\ state[on[v]] # "absent"
        /\ pc[v] \in AtWork \cup {"idle", "burying"}
    BY <1>1 DEF Solo, Serving
  <2>2. CASE on[v] = r
    <3>1. CASE LeftTo(w, r)
      <4>1. pc[v] \notin AtWork
        BY <1>1, <2>2, <3>1 DEF LeftTo
      <4> QED
        BY <2>1, <2>2, <4>1 DEF ServesAt, Ended, AtWork
    <3>2. CASE jobStatus'[r] = jobStatus[r] /\ (state'[r] = state[r] \/ state'[r] = "failed")
      <4>1. pc[v] \in AtWork => mine[v] /\ jobStatus[r] = "running"
        BY <2>2 DEF Serving, Orderly
      <4>2. Ended(v)
        BY DEF Serving
      <4> QED
        BY <2>1, <2>2, <3>2, <4>1, <4>2 DEF ServesAt, Ended, Unserved
    <3> QED
      BY <3>1, <3>2 DEF Spares
  <2>3. CASE on[v] # r
    <3>1. pc[v] # "idle" => state'[on[v]] = state[on[v]] /\ jobStatus'[on[v]] = jobStatus[on[v]]
      BY <2>1, <2>3 DEF Solo
    <3>2. Ended(v) /\ (pc[v] \in AtWork => mine[v] /\ jobStatus[on[v]] = "running")
      BY DEF Serving, Orderly
    <3> QED
      BY <2>1, <3>1, <3>2 DEF Ended, AtWork
  <2> QED
    BY <2>2, <2>3
<1>2. Unborn'
  <2>1. nextRun' = nextRun
    BY DEF Solo
  <2>2. \A q \in Run : q >= nextRun' => jobStatus'[q] = "none" /\ coverage'[q] = "none"
    BY <1>0, <2>1 DEF Solo, Serving, Orderly, Unborn
  <2>3. \A q \in Run : state'[q] = "absent" <=> q >= nextRun'
    BY <1>0, <2>1 DEF Solo, ServesAt, Serving, Orderly, Unborn
  <2>4. \A a \in Api : pc'[a] = "enqueueing" => on'[a] < nextRun'
    BY <2>1 DEF Solo, Serving, Orderly, Unborn
  <2> QED
    BY <2>2, <2>3, <2>4 DEF Unborn
<1>3. Orderly'
  <2>1. \A a \in Api : pc'[a] \in InRequest
    BY DEF Solo, Serving, Orderly
  <2>2. \A v \in Worker : pc'[v] \in AtWork => mine'[v] /\ jobStatus'[on'[v]] = "running"
    BY <1>1 DEF ServesAt, AtWork
  <2> QED
    BY <1>2, <2>1, <2>2 DEF Orderly
<1>4. \A v \in Worker : /\ pc'[v] \in AtWork \cup {"idle", "burying"}
                        /\ pc'[v] # "idle" => on'[v] \in Run /\ state'[on'[v]] # "absent"
                        /\ Ended(v)'
  BY <1>1 DEF ServesAt
<1>5. ActiveIsServed'
  BY DEF Solo, ServesAt, Serving, ActiveIsServed, Unserved
<1> QED
  BY <1>3, <1>4, <1>5 DEF Serving

\* A worker at work has its run for itself; a worker that is not idle has a run.
LEMMA ServesAlone ==
    ASSUME TypeOK, Serving, JobHeldAlone, NEW w \in Worker, pc[w] # "idle"
    PROVE  /\ w \in Executor /\ w \notin Api
           /\ on[w] \in Run /\ state[on[w]] # "absent"
           /\ pc[w] \in AtWork => mine[w] /\ jobStatus[on[w]] = "running" /\ LeftTo(w, on[w])
<1>1. w \in Executor /\ w \notin Api
  BY AudienceAssumption DEF Executor
<1>2. on[w] \in Run /\ state[on[w]] # "absent"
  BY DEF Serving
<1>3. ASSUME pc[w] \in AtWork
      PROVE  mine[w] /\ jobStatus[on[w]] = "running" /\ LeftTo(w, on[w])
  <2>1. \A v \in Worker : pc[v] \in AtWork => mine[v] /\ jobStatus[on[v]] = "running"
    BY DEF Serving, Orderly
  <2>2. ASSUME NEW v \in Worker \ {w}, pc[v] \in AtWork, on[v] = on[w]
        PROVE  FALSE
    <3>1. v \in HoldersOf(on[w]) /\ w \in HoldersOf(on[w])
      BY <1>3, <2>1, <2>2 DEF HoldersOf
    <3>2. HoldersOf(on[w]) = {v} /\ HoldersOf(on[w]) = {w}
      BY <1>2, <3>1 DEF JobHeldAlone
    <3> QED
      BY <2>2, <3>2
  <2> QED
    BY <1>3, <2>1, <2>2 DEF LeftTo
<1> QED
  BY <1>1, <1>2, <1>3

\* A worker that lets go of its run as it found it, whatever becomes of its job, if
\* the job is not completed under a run that is still to be matched.
LEMMA LeavingServes ==
    ASSUME TypeOK, HoldsRun, Serving, JobHeldAlone, NEW w \in Worker, pc[w] # "idle", Leave(w),
           \/ jobStatus' = jobStatus
           \/ /\ pc[w] \in AtWork
              /\ \E s \in {"queued", "completed"} : /\ jobStatus' = [jobStatus EXCEPT ![on[w]] = s]
                                                    /\ s = "completed" => pc[w] = "finishing",
           \/ UNCHANGED runVars
           \/ /\ UNCHANGED <<overdue, coverage, nextRun, jobStatus>>
              /\ state' = [state EXCEPT ![on[w]] = "failed"]
    PROVE  Serving'
<1>r. PICK r \in Run : r = on[w]
  BY ServesAlone
<1>0. /\ w \in Executor /\ w \notin Api /\ state[r] # "absent"
      /\ pc[w] \in AtWork => mine[w] /\ jobStatus[r] = "running" /\ LeftTo(w, r)
  BY <1>r, ServesAlone
<1>1. /\ pc' = [pc EXCEPT ![w] = "idle"] /\ on' = [on EXCEPT ![w] = 0]
      /\ mine' = [mine EXCEPT ![w] = FALSE]
      /\ cached' = [cached EXCEPT ![w] = "absent"] /\ late' = [late EXCEPT ![w] = FALSE]
  BY DEF Leave, Forget, Goto
<1>2. \A q \in Run \ {r} : jobStatus'[q] = jobStatus[q] /\ state'[q] = state[q]
  BY <1>r DEF TypeOK, runVars
<1>3. Solo(w, r)
  <2>1. /\ \A a \in Api : pc'[a] = pc[a] /\ on'[a] = on[a]
        /\ \A v \in Worker \ {w} : pc'[v] = pc[v] /\ on'[v] = on[v]
    BY <1>0, <1>1 DEF Executor, TypeOK
  <2>2. \A v \in Worker \ {w} : mine'[v] = mine[v] /\ cached'[v] = cached[v] /\ late'[v] = late[v]
    BY <1>0, <1>1 DEF Executor, TypeOK
  <2> QED
    BY <1>2, <2>1, <2>2 DEF Solo, runVars
<1>4. state'[r] = state[r] \/ (state'[r] = "failed" /\ jobStatus' = jobStatus)
  BY <1>r DEF TypeOK, runVars
<1>5. Spares(w, r)
  BY <1>0, <1>4 DEF Spares
<1>6. ServesAt(w, r)
  <2>1. pc'[w] = "idle"
    BY <1>0, <1>1 DEF TypeOK
  <2>2. jobStatus[r] \in ActiveJob \cup {"none", "dead_letter"} \/ state[r] \notin Unserved
    BY DEF Serving, ActiveIsServed, Unserved
  <2>3. state'[r] \in Unserved => jobStatus'[r] \in ActiveJob \cup {"none", "dead_letter"}
    <3>1. CASE jobStatus' = jobStatus
      BY <1>4, <2>2, <3>1 DEF Unserved
    <3>2. CASE jobStatus'[r] = "queued"
      BY <3>2 DEF ActiveJob
    <3>3. CASE pc[w] = "finishing" /\ jobStatus' # jobStatus
      BY <1>r, <1>4, <3>3 DEF Serving, Ended
    <3> QED
      BY <1>r, <3>1, <3>2, <3>3 DEF TypeOK
  <2> QED
    BY <1>0, <1>4, <2>1, <2>3 DEF ServesAt, Ended, AtWork
<1> QED
  BY <1>0, <1>3, <1>5, <1>6, SoloServes

\* A queued job has no holder: the worker that claims it reads the run's state.
LEMMA ClaimServes ==
    ASSUME TypeOK, HoldsRun, Serving, NEW w \in Worker, NEW r \in Run, ClaimRun(w, r)
    PROVE  Serving'
<1>0. w \in Executor /\ w \notin Api
  BY AudienceAssumption DEF Executor
<1>1. /\ pc' = [pc EXCEPT ![w] = "starting"] /\ on' = [on EXCEPT ![w] = r]
      /\ mine' = [mine EXCEPT ![w] = TRUE] /\ cached' = [cached EXCEPT ![w] = state[r]]
      /\ jobStatus' = [jobStatus EXCEPT ![r] = "running"]
      /\ jobStatus[r] = "queued"
      /\ UNCHANGED <<runVars, late>>
  BY DEF ClaimRun, Goto
<1>2. Solo(w, r)
  <2>1. /\ \A a \in Api : pc'[a] = pc[a] /\ on'[a] = on[a]
        /\ \A v \in Worker \ {w} : pc'[v] = pc[v] /\ on'[v] = on[v]
    BY <1>0, <1>1 DEF Executor, TypeOK
  <2>2. \A v \in Worker \ {w} : mine'[v] = mine[v] /\ cached'[v] = cached[v] /\ late'[v] = late[v]
    BY <1>0, <1>1 DEF Executor, TypeOK
  <2>3. \A q \in Run \ {r} : jobStatus'[q] = jobStatus[q]
    BY <1>1 DEF TypeOK
  <2> QED
    BY <1>1, <2>1, <2>2, <2>3 DEF Solo, runVars
<1>3. Spares(w, r)
  BY <1>1 DEF Spares, LeftTo, Serving, Orderly
<1>4. state[r] # "absent"
  BY <1>1 DEF Serving, Orderly, Unborn
<1>5. ServesAt(w, r)
  <2>1. /\ pc'[w] = "starting" /\ on'[w] = r /\ mine'[w] /\ cached'[w] = state[r]
        /\ jobStatus'[r] = "running" /\ state' = state
    BY <1>0, <1>1 DEF TypeOK, runVars
  <2> QED
    BY <1>4, <2>1 DEF ServesAt, AtWork, Ended, DeliveredState, Unserved, ActiveJob
<1> QED
  BY <1>2, <1>3, <1>4, <1>5, SoloServes

\* A job that is taken back from a dead worker is queued again or given up.
LEMMA RecoverServes ==
    ASSUME TypeOK, HoldsRun, Serving, NEW w \in Worker, NEW r \in Run, RecoverRun(w, r)
    PROVE  Serving'
<1>0. w \in Executor /\ w \notin Api
  BY AudienceAssumption DEF Executor
<1>1. /\ jobStatus[r] = "running" /\ pc[w] = "idle"
      /\ \A x \in Executor : ~(on[x] = r /\ mine[x])
      /\ UNCHANGED <<runVars, mine, cached, late>>
      /\ \E s \in {"queued", "dead_letter"} : jobStatus' = [jobStatus EXCEPT ![r] = s]
      /\ \/ UNCHANGED <<pc, on>>
         \/ pc' = [pc EXCEPT ![w] = "burying"] /\ on' = [on EXCEPT ![w] = r]
  BY DEF RecoverRun, Goto
<1>2. Solo(w, r)
  <2>1. /\ \A a \in Api : pc'[a] = pc[a] /\ on'[a] = on[a]
        /\ \A v \in Worker \ {w} : pc'[v] = pc[v] /\ on'[v] = on[v]
    BY <1>0, <1>1 DEF Executor, TypeOK
  <2>2. \A q \in Run \ {r} : jobStatus'[q] = jobStatus[q]
    BY <1>1 DEF TypeOK
  <2> QED
    BY <1>1, <2>1, <2>2 DEF Solo, runVars
<1>3. Spares(w, r)
  BY <1>1 DEF Spares, LeftTo, Serving, Orderly, Executor
<1>4. state[r] # "absent"
  BY <1>1 DEF Serving, Orderly, Unborn
<1>5. ServesAt(w, r)
  <2>1. /\ pc'[w] \in {"idle", "burying"} /\ (pc'[w] # "idle" => on'[w] = r)
        /\ jobStatus'[r] \in {"queued", "dead_letter"} /\ state' = state
    BY <1>0, <1>1 DEF TypeOK, runVars
  <2> QED
    BY <1>4, <2>1 DEF ServesAt, AtWork, Ended, ActiveJob
<1> QED
  BY <1>2, <1>3, <1>4, <1>5, SoloServes

\* Where process and the expansion lead a worker: the run it has written is not left
\* QUEUED or MATCHING, but by the first COMMIT.
LEMMA WorkServes ==
    ASSUME TypeOK, HoldsRun, Serving, JobHeldAlone, NEW w \in Worker, Process(w) \/ Expand(w)
    PROVE  Serving'
<1> USE DEF jobVars, localVars, runVars
<1>s. pc[w] \in AtWork
  BY DEF Process, ProcessStart, ProcessMatch, ProcessRead, ProcessWrite, ProcessRaise, Expand, AtWork
<1>r. PICK r \in Run : r = on[w]
  BY <1>s, ServesAlone DEF AtWork
<1>0. /\ w \in Executor /\ w \notin Api /\ state[r] # "absent"
      /\ mine[w] /\ jobStatus[r] = "running" /\ LeftTo(w, r)
  BY <1>s, <1>r, ServesAlone DEF AtWork
<1>1. UNCHANGED <<overdue, nextRun, jobStatus, on, mine>>
  BY DEF Process, ProcessStart, ProcessMatch, ProcessRead, ProcessWrite, ProcessRaise, Expand
<1>2. /\ \E l \in AtWork : pc' = [pc EXCEPT ![w] = l]
      /\ \E c : cached' = [cached EXCEPT ![w] = c]
      /\ \E t : late' = [late EXCEPT ![w] = t]
      /\ \E s : state' = [state EXCEPT ![r] = s]
      /\ \E c : coverage' = [coverage EXCEPT ![r] = c]
  <2>1. /\ cached = [cached EXCEPT ![w] = cached[w]]
        /\ late = [late EXCEPT ![w] = late[w]]
        /\ state = [state EXCEPT ![r] = state[r]]
        /\ coverage = [coverage EXCEPT ![r] = coverage[r]]
    BY DEF TypeOK
  <2> QED
    BY <1>r, <2>1 DEF Process, ProcessStart, ProcessMatch, ProcessRead, ProcessWrite, ProcessRaise,
                      Expand, Goto, Forget, AtWork
<1>3. Solo(w, r)
  <2>1. /\ \A a \in Api : pc'[a] = pc[a]
        /\ \A v \in Worker \ {w} : pc'[v] = pc[v]
    BY <1>0, <1>2 DEF Executor, TypeOK
  <2>2. \A v \in Worker \ {w} : cached'[v] = cached[v] /\ late'[v] = late[v]
    BY <1>0, <1>2 DEF Executor, TypeOK
  <2>3. \A q \in Run \ {r} : state'[q] = state[q] /\ coverage'[q] = coverage[q]
    BY <1>2 DEF TypeOK
  <2> QED
    BY <1>1, <2>1, <2>2, <2>3 DEF Solo
<1>4. pc'[w] \in AtWork
  BY <1>0, <1>2 DEF TypeOK
<1>5. Ended(w)
  BY DEF Serving
<1>6. state'[r] # "absent" /\ Ended(w)'
  <2>1. CASE ProcessStart(w)
    <3>1. CASE cached[w] \in DeliveredState
      <4>1. state' = state /\ pc'[w] = "finishing" /\ state[r] \notin Unserved
        BY <1>r, <1>0, <1>5, <2>1, <3>1 DEF ProcessStart, Goto, TypeOK, Ended
      <4> QED
        BY <1>r, <1>0, <1>1, <4>1 DEF Ended
    <3>2. CASE cached[w] \notin DeliveredState /\ version[r] # CriteriaSeen(w)
      <4>1. pc'[w] = "finishing" /\ state'[r] = IF cached[w] = "failed" THEN state[r] ELSE "failed"
        BY <1>r, <1>0, <2>1, <3>2 DEF ProcessStart, Goto, TypeOK
      <4>2. cached[w] = "failed" => state[r] \notin Unserved
        BY <1>r, <1>5, <2>1 DEF ProcessStart, Ended
      <4> QED
        BY <1>r, <1>0, <1>1, <4>1, <4>2 DEF Ended, Unserved
    <3>3. CASE cached[w] \notin DeliveredState /\ version[r] = CriteriaSeen(w)
      <4>1. pc'[w] = "matching" /\ state'[r] = IF cached[w] = "matching" THEN state[r] ELSE "matching"
        BY <1>r, <1>0, <2>1, <3>3 DEF ProcessStart, Goto, TypeOK
      <4> QED
        BY <1>0, <4>1 DEF Ended
    <3> QED
      BY <3>1, <3>2, <3>3
  <2>2. CASE ProcessMatch(w) \/ ProcessRead(w) \/ ProcessRaise(w)
    <3>1. state' = state /\ pc'[w] \in {"scoring", "writing", "raised"}
      BY <1>0, <2>2 DEF ProcessMatch, ProcessRead, ProcessRaise, Goto, TypeOK
    <3> QED
      BY <1>0, <3>1 DEF Ended
  <2>3. CASE ProcessWrite(w)
    <3>1. CASE WriteRaises(w)
      <4>1. state' = state /\ pc'[w] = "raised"
        BY <1>0, <2>3, <3>1 DEF ProcessWrite, Goto, TypeOK
      <4> QED
        BY <1>0, <4>1 DEF Ended
    <3>2. CASE ~WriteRaises(w)
      <4> DEFINE requested == IF coverage[r] = "none" THEN "queued" ELSE coverage[r]
      <4>1. PICK end : end = Outcome(w, requested)
        OBVIOUS
      <4>2. requested \in {"none", "queued", "processing", "failed", "completed"}
        BY DEF TypeOK
      <4>3. state' = [state EXCEPT ![r] = end.state]
        BY <1>r, <2>3, <3>2, <4>1 DEF ProcessWrite
      <4>4. pc'[w] \in {"expanding", "finishing"}
        BY <1>0, <2>3, <3>2 DEF ProcessWrite, Goto, TypeOK
      <4> HIDE DEF requested
      <4>5. end.state \in {"ready", "partial", "waiting_validation"}
        BY <1>r, <1>0, <4>1, <4>2, OutcomeType
      <4> QED
        BY <1>r, <1>1, <4>3, <4>4, <4>5 DEF Ended, Unserved, TypeOK
    <3> QED
      BY <3>1, <3>2
  <2>4. CASE Expand(w)
    <3>1. pc'[w] = "finishing" /\ (state'[r] = state[r] \/ state'[r] = "partial")
      BY <1>r, <1>0, <2>4 DEF Expand, Goto, TypeOK
    <3>2. state[r] \notin Unserved
      BY <1>r, <1>5, <2>4 DEF Expand, Ended
    <3> QED
      BY <1>r, <1>0, <1>1, <3>1, <3>2 DEF Ended, Unserved
  <2> QED
    BY <2>1, <2>2, <2>3, <2>4 DEF Process
<1>7. ServesAt(w, r)
  BY <1>r, <1>0, <1>1, <1>4, <1>6 DEF ServesAt, ActiveJob
<1> QED
  BY <1>0, <1>3, <1>7, SoloServes DEF Spares

\* Whatever a worker does, it leaves the runs served.
LEMMA WorkersServe ==
    ASSUME TypeOK, HoldsRun, Serving, JobHeldAlone, NEW w \in Worker, WorkerStep(w) \/ Crash(w)
    PROVE  Serving'
<1>0. w \in Executor
  BY DEF Executor
<1>1. CASE \E r \in Run : ClaimRun(w, r) \/ RecoverRun(w, r)
  BY <1>1, ClaimServes, RecoverServes
<1>2. CASE Process(w) \/ Expand(w)
  BY <1>2, WorkServes
<1>3. CASE CompleteRun(w)
  <2>1. Leave(w) /\ UNCHANGED runVars /\ pc[w] = "finishing"
    BY <1>3 DEF CompleteRun
  <2>2. mine[w]
    BY <2>1 DEF Serving, Orderly, AtWork
  <2>3. jobStatus' = [jobStatus EXCEPT ![on[w]] = "completed"]
    BY <1>3, <2>2 DEF CompleteRun
  <2> QED
    BY <2>1, <2>3, LeavingServes DEF AtWork
<1>4. CASE FailJob(w)
  <2>1. pc[w] = "raised" /\ UNCHANGED runVars
    BY <1>4 DEF FailJob
  <2>2. CASE Leave(w) /\ (jobStatus' = jobStatus \/ jobStatus' = [jobStatus EXCEPT ![on[w]] = "queued"])
    BY <2>1, <2>2, LeavingServes DEF AtWork
  <2>3. CASE /\ jobStatus' = [jobStatus EXCEPT ![on[w]] = "dead_letter"]
             /\ Goto(w, "burying")
             /\ UNCHANGED <<on, mine, cached, late>>
    <3>r. PICK r \in Run : r = on[w]
      BY <2>1, ServesAlone
    <3>0. /\ w \notin Api /\ state[r] # "absent" /\ LeftTo(w, r)
      BY <2>1, <3>r, ServesAlone DEF AtWork
    <3>1. Solo(w, r)
      <4>1. /\ \A a \in Api : pc'[a] = pc[a]
            /\ \A v \in Worker \ {w} : pc'[v] = pc[v]
        BY <1>0, <2>3, <3>0 DEF Goto, Executor, TypeOK
      <4>2. \A q \in Run \ {r} : jobStatus'[q] = jobStatus[q]
        BY <2>3, <3>r DEF TypeOK
      <4> QED
        BY <2>1, <2>3, <4>1, <4>2 DEF Solo, runVars
    <3>2. ServesAt(w, r)
      <4>1. pc'[w] = "burying" /\ on'[w] = r /\ jobStatus'[r] = "dead_letter" /\ state' = state
        BY <1>0, <2>1, <2>3, <3>r DEF Goto, TypeOK, runVars
      <4> QED
        BY <3>0, <4>1 DEF ServesAt, AtWork, Ended
    <3> QED
      BY <3>0, <3>1, <3>2, SoloServes DEF Spares
  <2> QED
    BY <1>4, <2>2, <2>3 DEF FailJob
<1>5. CASE FailRun(w)
  <2>1. /\ Leave(w) /\ pc[w] = "burying" /\ jobStatus' = jobStatus
        /\ UNCHANGED <<overdue, coverage, nextRun>>
        /\ state' = [state EXCEPT ![on[w]] = "failed"]
    BY <1>5 DEF FailRun, jobVars
  <2> QED
    BY <2>1, LeavingServes
<1>6. CASE Crash(w)
  <2>1. Leave(w) /\ pc[w] # "idle" /\ UNCHANGED runVars /\ jobStatus' = jobStatus
    BY <1>6 DEF Crash, jobVars
  <2> QED
    BY <2>1, LeavingServes
<1> QED
  BY <1>1, <1>2, <1>3, <1>4, <1>5, <1>6 DEF WorkerStep

\* Without polls no run is left QUEUED or MATCHING behind a job that has ended, however
\* often executors die, raise and give up (audience_runs/service.py, the worker around it).
THEOREM ActiveIsServedHolds ==
    ASSUME ~Watched
    PROVE  Spec => []ActiveIsServed
<1>1. Init => OnlyWorkersHold /\ JobHeldAlone /\ Serving
  <2> SUFFICES ASSUME Init PROVE OnlyWorkersHold /\ JobHeldAlone /\ Serving
    OBVIOUS
  <2>1. OnlyWorkersHold /\ JobHeldAlone
    BY DEF Init, OnlyWorkersHold, JobHeldAlone, HoldersOf, AtWork, Executor
  <2>2. Orderly
    <3>1. \A r \in Run : r >= 1
      BY DEF Run
    <3> QED
      BY <3>1 DEF Init, Orderly, Unborn, InRequest, AtWork, Executor
  <2>3. (\A w \in Worker : pc[w] = "idle" /\ Ended(w)) /\ ActiveIsServed
    BY DEF Init, Ended, ActiveIsServed, Executor
  <2> QED
    BY <2>1, <2>2, <2>3 DEF Serving
<1>2. ASSUME TypeOK, HoldsRun, OnlyWorkersHold, JobHeldAlone, Serving, [Next]_vars
      PROVE  OnlyWorkersHold' /\ JobHeldAlone' /\ Serving'
  <2>1. OnlyWorkersHold' /\ JobHeldAlone'
    BY <1>2, JobsMoveSo, JobHeldAloneStep
  <2>2. Orderly
    BY <1>2 DEF Serving
  <2>3. CASE \E w \in Worker : WorkerStep(w) \/ Crash(w)
    BY <1>2, <2>1, <2>3, WorkersServe
  <2>4. CASE \E a \in Api : RequestStep(a) \/ RequestStart(a) \/ Crash(a)
    BY <1>2, <2>1, <2>2, <2>4, RequestsAreAside, AsideServes
  <2>5. CASE ScheduleWaiting
    BY <1>2, <2>1, <2>2, <2>5, ScheduleWaitingIsAside, AsideServes
  <2>6. CASE \/ EditCriteria
             \/ \E b \in Business : FactsChange(b)
             \/ \E r \in Run : DeadlinePasses(r)
             \/ UNCHANGED vars
    BY <1>2, <2>1, <2>2, <2>6, WorldIsAside, AsideServes
  <2> QED
    BY <1>2, <2>3, <2>4, <2>5, <2>6 DEF Next, Executor
<1>3. Serving => ActiveIsServed
  BY DEF Serving
<1>4. TypeOK /\ HoldsRun /\ [Next]_vars => TypeOK' /\ HoldsRun'
  BY StepTypes
<1> QED
  BY InitTypes, <1>1, <1>2, <1>3, <1>4, PTL DEF Spec
=============================================================================
