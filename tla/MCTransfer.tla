----------------------------- MODULE MCTransfer -----------------------------
(* Values of the constants for model checking Transfer. *)
EXTENDS Transfer, TLC

CONSTANTS c1, c2

\* Two calls, so that what is left of one meets the other.
MCCalls == {c1, c2}

MCSymmetry == Permutations(MCCalls)
=============================================================================
