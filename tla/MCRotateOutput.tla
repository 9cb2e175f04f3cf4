--------------------------- MODULE MCRotateOutput ---------------------------
(* Values of the constants for model checking RotateOutput. *)
EXTENDS RotateOutput

CONSTANTS l1, l2, given

\* Two launchers share the token file, a third brings its own token; one of the
\* former is run by "just start".
MCLaunchers == {l1, l2, given}
MCGiven == {given}
MCWrapped == {l1}
=============================================================================
