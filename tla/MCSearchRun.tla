------------------------------ MODULE MCSearchRun ------------------------------
EXTENDS SearchRun, TLC

CONSTANTS b1, b2, thin, full

\* Thin evidence on b1 says nothing of the criteria, full evidence that it meets them;
\* b2 seems to meet them until the evidence is full.
MCFit == (b1 :> (thin :> "unknown" @@ full :> "matched"))
         @@ (b2 :> (thin :> "matched" @@ full :> "not_matched"))
=============================================================================
