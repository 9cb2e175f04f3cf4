-------------------------- MODULE MCSandboxService --------------------------
(* Values of the constants for model checking SandboxService. *)
EXTENDS SandboxService, TLC

CONSTANTS s1, s2, d1, d2

MCSandboxes == {s1, s2}
MCNoStuck == {}
MCStuckOne == {s2}
MCDeleters == {d1, d2}
MCOneDeleter == {d1}
MCTTLs == {0, 1}

\* With no stuck container the sandboxes are interchangeable, and so are the
\* request threads.
MCSymmetry == Permutations(MCSandboxes) \cup Permutations(MCDeleters)
=============================================================================
