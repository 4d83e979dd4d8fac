--------------------------- MODULE MCMoaxDctSwap ---------------------------
(* Small instance of MoaxDctSwap: the owner and one other user, two        *)
(* identifiers the system contract can issue.                              *)
EXTENDS MoaxDctSwap

\* Minting can go on without end: exploration stops past this many unused
\* wrapped tokens or in-flight calls.
MaxUnused == 3
MaxPending == 2

SwapBound ==
    /\ unused <= MaxUnused
    /\ BagCardinality(pending) <= MaxPending

=============================================================================
