---------------------------- MODULE SandboxLease ----------------------------
(***************************************************************************)
(* What the sandbox service (service.py) promises its clients, without the *)
(* records, the threads and the Docker calls it keeps the promise with: a  *)
(* sandbox is served once its container runs, the broker removes it only   *)
(* for a client's DELETE or past its deadline, and forgets it only when it *)
(* is gone; a creation that ends badly, and a restart, may leave a         *)
(* container behind.                                                       *)
(***************************************************************************)

CONSTANT Sandboxes       \* ids, each served at most once

VARIABLES
    phase,       \* of a sandbox, see Phases
    deleting,    \* sandboxes with a client's DELETE in progress
    overdue      \* sandboxes past their deadline

\* Known to the broker: it is up, the broker removed it, someone else did.
Known == {"ready", "removed", "vanished"}

\* Not yet requested, being created, creation failed and left nothing, the
\* broker has no hold on it, removed and forgotten.
Phases == {"new", "creating", "failed", "lost", "closed"} \cup Known

Move(s, from, to) ==
    /\ phase[s] \in from
    /\ phase' = [phase EXCEPT ![s] = to]

Init ==
    /\ phase = [s \in Sandboxes |-> "new"]
    /\ deleting = {}
    /\ overdue = {}

Begin(s) ==
    /\ Move(s, {"new"}, "creating")
    /\ UNCHANGED <<deleting, overdue>>

\* The creation fails, cleanly or leaving a container behind.
Fail(s) ==
    /\ \E to \in {"failed", "lost"} : Move(s, {"creating"}, to)
    /\ UNCHANGED <<deleting, overdue>>

\* The creation succeeds; someone else may already have removed its container.
Serve(s) ==
    /\ \E to \in {"ready", "vanished"} : Move(s, {"creating"}, to)
    /\ UNCHANGED <<deleting, overdue>>

AskDelete(s) ==
    /\ phase[s] \in Known
    /\ deleting' = deleting \cup {s}
    /\ UNCHANGED <<phase, overdue>>

\* The last DELETE in progress returns or fails.
EndDelete(s) ==
    /\ deleting' = deleting \ {s}
    /\ UNCHANGED <<phase, overdue>>

Remove(s) ==
    /\ s \in deleting \cup overdue
    /\ Move(s, {"ready"}, "removed")
    /\ UNCHANGED <<deleting, overdue>>

Vanish(s) ==
    /\ Move(s, {"ready"}, "vanished")
    /\ UNCHANGED <<deleting, overdue>>

\* The broker forgets a sandbox; a DELETE that led to it returns.
Forget(s) ==
    /\ Move(s, {"removed", "vanished"}, "closed")
    /\ deleting' \in {deleting, deleting \ {s}}
    /\ UNCHANGED overdue

\* Time passes.
Expire(which) ==
    /\ \A s \in which : phase[s] # "new"
    /\ overdue' = overdue \cup which
    /\ UNCHANGED <<phase, deleting>>

\* The broker process ends; what it knew is lost.
Outlived(s) ==
    CASE phase[s] = "creating" -> {"failed", "lost"}
      [] phase[s] \in Known \cup {"closed"} -> {"lost"}
      [] OTHER -> {phase[s]}

Restart ==
    /\ phase' \in [Sandboxes -> Phases]
    /\ \A s \in Sandboxes : phase'[s] \in Outlived(s)
    /\ deleting' = {}
    /\ UNCHANGED overdue

Lifecycle(s) ==
    \/ Begin(s)
    \/ Fail(s)
    \/ Serve(s)
    \/ AskDelete(s)
    \/ EndDelete(s)
    \/ Remove(s)
    \/ Vanish(s)
    \/ Forget(s)

Next ==
    \/ \E s \in Sandboxes : Lifecycle(s)
    \/ \E which \in SUBSET Sandboxes : Expire(which)
    \/ Restart

Spec == Init /\ [][Next]_<<phase, deleting, overdue>>
=============================================================================
