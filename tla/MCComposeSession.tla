-------------------------- MODULE MCComposeSession --------------------------
(* Values of the constants for model checking ComposeSession. *)
EXTENDS ComposeSession, TLC

CONSTANTS s1, s2, direct, compose, backend

MCSandboxes == {s1, s2}
MCEnvironments == {direct, compose}
MCComposes == {compose}
MCBackends == {backend}

MCSymmetry == Permutations(MCSandboxes)
=============================================================================
