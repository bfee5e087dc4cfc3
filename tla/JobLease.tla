------------------------------ MODULE JobLease ------------------------------
(***************************************************************************)
(* What the job queue promises about one job, without rows, reads or       *)
(* clocks: a job waits, is leased to one worker, and is finished, put back *)
(* or buried by the end of that lease.  A job is exposed once a worker has *)
(* outlived its lease or a write from an outdated read has hit the job;    *)
(* nothing is promised of an exposed job, and everything of the others.    *)
(***************************************************************************)
CONSTANTS Job, Worker

VARIABLES
    stage,     \* where the job is in its life
    lessees,   \* the workers that are executing it
    exposed    \* the jobs nothing is promised of any more

leaseVars == <<stage, lessees, exposed>>

Stage == {"absent", "queued", "running", "completed", "dead_letter", "canceled"}

Init ==
    /\ stage = [j \in Job |-> "absent"]
    /\ lessees = [j \in Job |-> {}]
    /\ exposed = {}

Moves(j, from, to) == stage[j] \in from /\ stage'[j] \in to
Idle(j) == lessees[j] = {} /\ lessees'[j] = {}

\* Inserted, canceled while it waits, or retried after its burial.
Handled(j) ==
    /\ Idle(j)
    /\ \/ Moves(j, {"absent"}, {"queued"})
       \/ Moves(j, {"queued"}, {"canceled"})
       \/ Moves(j, {"dead_letter"}, {"queued"})

\* Leased: only a waiting job, and to one worker.
Leased(j) ==
    /\ Moves(j, {"queued"}, {"running"})
    /\ lessees[j] = {}
    /\ \E w \in Worker : lessees'[j] = {w}

\* Given up by the worker that holds it.
Released(j) ==
    /\ Moves(j, {"running"}, {"completed", "queued", "dead_letter"})
    /\ \E w \in Worker : lessees[j] = {w}
    /\ lessees'[j] = {}

\* The worker died: the job stays running with nobody executing it...
Orphaned(j) ==
    /\ Moves(j, {"running"}, {"running"})
    /\ \E w \in Worker : lessees[j] = {w}
    /\ lessees'[j] = {}

\* ...until a recovery takes it back.
Recovered(j) ==
    /\ Moves(j, {"running"}, {"queued", "dead_letter"})
    /\ Idle(j)

Unmoved(j) == stage'[j] = stage[j] /\ lessees'[j] = lessees[j]

Lawful(j) ==
    Unmoved(j) \/ Handled(j) \/ Leased(j) \/ Released(j) \/ Orphaned(j) \/ Recovered(j)

\* One transaction may move several jobs, each lawfully.
Next ==
    /\ stage' \in [Job -> Stage]
    /\ lessees' \in [Job -> SUBSET Worker]
    /\ exposed' \in SUBSET Job
    /\ exposed \subseteq exposed'
    /\ \A j \in Job \ exposed' : Lawful(j)

Spec == Init /\ [][Next]_leaseVars
=============================================================================
