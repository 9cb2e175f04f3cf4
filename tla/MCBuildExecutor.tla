--------------------------- MODULE MCBuildExecutor ---------------------------
(* Values of the constants for model checking BuildExecutor. *)
EXTENDS BuildExecutor, TLC

CONSTANTS r1, r2, r3, r4

\* Four requests for two workers and one place in the queue, so that requests
\* are rejected for their number, and for their bytes when the large one runs.
MCRequests == {r1, r2, r3, r4}
MCSize == r1 :> 1 @@ r2 :> 1 @@ r3 :> 2 @@ r4 :> 1

\* Requests of equal size are interchangeable.
MCSymmetry == Permutations({r1, r2, r4})

\* One worker and two places: a queue of two, and a fourth request that is too
\* large for the byte budget.
MCSizeLarge == r1 :> 1 @@ r2 :> 1 @@ r3 :> 1 @@ r4 :> 4
=============================================================================
