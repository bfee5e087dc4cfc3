------------------------------ MODULE KeyLease ------------------------------
(***************************************************************************)
(* What the queue promises about one idempotency key, whichever row of     *)
(* queue_jobs carries it: work under the key waits, is leased to one       *)
(* worker, and is over or waits again at the end of that lease.  A key is  *)
(* exposed once one of its rows is (JobLease).  The modules of the queue's *)
(* clients speak of jobs by key and keep to these steps.                   *)
(***************************************************************************)
CONSTANTS Key, Worker

VARIABLES
    stage,     \* "none" while no row of the key is active
    lessees,   \* the workers that are executing a row of the key
    exposed    \* the keys nothing is promised of any more

leaseVars == <<stage, lessees, exposed>>

Stage == {"none", "queued", "running"}

Init ==
    /\ stage = [k \in Key |-> "none"]
    /\ lessees = [k \in Key |-> {}]
    /\ exposed = {}

Moves(k, from, to) == stage[k] \in from /\ stage'[k] \in to
Idle(k) == lessees[k] = {} /\ lessees'[k] = {}

\* A row is inserted or started over, or taken back while it waits.
Handled(k) ==
    /\ Idle(k)
    /\ Moves(k, {"none"}, {"queued"}) \/ Moves(k, {"queued"}, {"none"})

\* Leased: only waiting work, and to one worker.
Leased(k) ==
    /\ Moves(k, {"queued"}, {"running"})
    /\ lessees[k] = {}
    /\ \E w \in Worker : lessees'[k] = {w}

\* Given up by the worker that holds it, for good or for another attempt.
Released(k) ==
    /\ Moves(k, {"running"}, {"none", "queued"})
    /\ \E w \in Worker : lessees[k] = {w}
    /\ lessees'[k] = {}

\* The worker died: the key stays running with nobody executing it...
Orphaned(k) ==
    /\ Moves(k, {"running"}, {"running"})
    /\ \E w \in Worker : lessees[k] = {w}
    /\ lessees'[k] = {}

\* ...until a recovery takes it back.
Recovered(k) ==
    /\ Moves(k, {"running"}, {"none", "queued"})
    /\ Idle(k)

Unmoved(k) == stage'[k] = stage[k] /\ lessees'[k] = lessees[k]

Lawful(k) ==
    Unmoved(k) \/ Handled(k) \/ Leased(k) \/ Released(k) \/ Orphaned(k) \/ Recovered(k)

\* One transaction may move several keys, each lawfully.
Next ==
    /\ stage' \in [Key -> Stage]
    /\ lessees' \in [Key -> SUBSET Worker]
    /\ exposed' \in SUBSET Key
    /\ exposed \subseteq exposed'
    /\ \A k \in Key \ exposed' : Lawful(k)

Spec == Init /\ [][Next]_leaseVars
=============================================================================
