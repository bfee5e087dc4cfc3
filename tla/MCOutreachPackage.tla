--------------------------- MODULE MCOutreachPackage ---------------------------
EXTENDS OutreachPackage, TLC

CONSTANTS r1, r2

MCSymmetry == Permutations({r1, r2})
=============================================================================
