---------------------------- MODULE MCIndexRefresh ----------------------------
EXTENDS IndexRefresh, TLC

MCSymmetry == Permutations(Worker) \cup Permutations(Source)
=============================================================================
