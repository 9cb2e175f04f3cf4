--------------------------- MODULE BuildAdmission ---------------------------
(***************************************************************************)
(* What the build executor (build_executor.py) promises, without the       *)
(* counters, the semaphore and the threads it keeps the promise with:      *)
(* admitted builds are bounded in number, running builds are bounded by    *)
(* the number of workers, a running build is over only when its worker is  *)
(* done with it, and a closed executor admits nothing.                     *)
(***************************************************************************)
EXTENDS Integers, FiniteSets

CONSTANTS
    Requests,    \* build requests, each made at most once
    Workers,     \* builds that may run at once
    Capacity     \* builds that may be admitted at once, running ones included

VARIABLES
    phase,       \* of a request: "out", "waiting", "running" or "over"
    closed       \* no further admissions

In(which) == {r \in Requests : phase[r] \in which}

Move(r, from, to) ==
    /\ phase[r] = from
    /\ phase' = [phase EXCEPT ![r] = to]

Init ==
    /\ phase = [r \in Requests |-> "out"]
    /\ closed = FALSE

HasRoom == ~closed /\ Cardinality(In({"waiting", "running"})) < Capacity

HasWorker == Cardinality(In({"running"})) < Workers

Admit(r) ==
    /\ HasRoom
    /\ Move(r, "out", "waiting")
    /\ UNCHANGED closed

AdmitAndStart(r) ==
    /\ HasRoom
    /\ HasWorker
    /\ Move(r, "out", "running")
    /\ UNCHANGED closed

Start(r) ==
    /\ HasWorker
    /\ Move(r, "waiting", "running")
    /\ UNCHANGED closed

\* Refused at the door; cancelled or failed before it ran; ran to its end.
Leave(r) ==
    /\ \E from \in {"out", "waiting", "running"} : Move(r, from, "over")
    /\ UNCHANGED closed

Close ==
    /\ closed' = TRUE
    /\ UNCHANGED phase

Next ==
    \/ \E r \in Requests : Admit(r) \/ AdmitAndStart(r) \/ Start(r) \/ Leave(r)
    \/ Close

Spec == Init /\ [][Next]_<<phase, closed>>
=============================================================================
