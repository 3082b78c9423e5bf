------------------------ MODULE MCJsonlExecutionLog ------------------------
EXTENDS JsonlExecutionLog

CONSTANTS a1, a2, a3, r1, r2

\* Three appends; the caller gave two of the runs the same id.
RunIdOfAppend == (a1 :> r1) @@ (a2 :> r1) @@ (a3 :> r2)
=============================================================================
