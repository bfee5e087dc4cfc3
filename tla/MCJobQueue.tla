----------------------------- MODULE MCJobQueue -----------------------------
(***************************************************************************)
(* Instances of JobQueue for TLC.                                          *)
(***************************************************************************)
EXTENDS JobQueue, TLC

CONSTANTS refresh, message, collect

\* The priorities of claim_next: message.send first, signal jobs last.
MCUrgency == [k \in Work |-> IF k = message THEN 0 ELSE IF k = collect THEN 20 ELSE 10]

\* Workers are interchangeable, and so are clients.
MCSymmetry == Permutations(Worker) \cup Permutations(Client)
=============================================================================
