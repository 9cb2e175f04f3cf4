----------------------------- MODULE MCBuildGate ----------------------------
(* Values of the constants for model checking BuildGate. *)
EXTENDS BuildGate

CONSTANTS c1, c2, c3, ref1, ref2, g1, g2, g3

\* Three callers: one inside, one waiting for it, one that comes when the
\* first leaves.  Two references, so that two builds can run side by side.
MCCallers == {c1, c2, c3}
MCReferences == {ref1, ref2}

\* One Lock object per caller: there is always a fresh one.
MCGates == {g1, g2, g3}
=============================================================================
