--------------------------- MODULE MCAudienceRun ---------------------------
(***************************************************************************)
(* Instances of AudienceRun for TLC.                                       *)
(***************************************************************************)
EXTENDS AudienceRun, TLC

\* Nothing tells two businesses, two workers or two sessions apart.
MCSymmetry == Permutations(Business) \cup Permutations(Worker) \cup Permutations(Api)

\* One service that a missing website matters to most, two signals of a website
\* that could be better.
MCSignal == {"missing", "slow", "dated"}
MCWeight == [site |-> [missing |-> 2, slow |-> 1, dated |-> 1]]

NoFact == [s \in MCSignal |-> Unknown]
MissingWebsite == [NoFact EXCEPT !["missing"] = 10]
PoorWebsite == [missing |-> 0, slow |-> 9, dated |-> 8]

\* SQL puts a poor website first, which has two gaps, and Python a missing one.
MCFinding == {NoFact, MissingWebsite, PoorWebsite}

\* A business matches or it does not.
MCOneFinding == {NoFact, PoorWebsite}
=============================================================================
