------------------------------ MODULE RefMutex ------------------------------
(***************************************************************************)
(* What ImageCache.building (image_cache.py) promises: builds of the same  *)
(* reference run one at a time, builds of different references never wait  *)
(* for each other, and everyone who comes gets a turn.                     *)
(***************************************************************************)

CONSTANTS
    Callers,       \* uses of `with building(reference)`, each once
    References,    \* image tags
    NoReference    \* the reference of a caller that has not come yet

VARIABLES
    phase,         \* of a caller: "before", "waiting", "inside" or "after"
    wants          \* the reference it wants to build

Init ==
    /\ phase = [c \in Callers |-> "before"]
    /\ wants = [c \in Callers |-> NoReference]

Come(c, ref) ==
    /\ phase[c] = "before"
    /\ phase' = [phase EXCEPT ![c] = "waiting"]
    /\ wants' = [wants EXCEPT ![c] = ref]

Occupied(ref) == \E c \in Callers : phase[c] = "inside" /\ wants[c] = ref

GoIn(c) ==
    /\ phase[c] = "waiting"
    /\ ~Occupied(wants[c])
    /\ phase' = [phase EXCEPT ![c] = "inside"]
    /\ UNCHANGED wants

GoOut(c) ==
    /\ phase[c] = "inside"
    /\ phase' = [phase EXCEPT ![c] = "after"]
    /\ UNCHANGED wants

Next ==
    \E c \in Callers :
        \/ \E ref \in References : Come(c, ref)
        \/ GoIn(c)
        \/ GoOut(c)

Spec == Init /\ [][Next]_<<phase, wants>>

FairSpec ==
    /\ Spec
    /\ \A c \in Callers : WF_<<phase, wants>>(GoIn(c)) /\ WF_<<phase, wants>>(GoOut(c))
=============================================================================
