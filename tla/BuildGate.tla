----------------------------- MODULE BuildGate ------------------------------
(***************************************************************************)
(* ImageCache.building (image_cache.py): one Lock object per reference,    *)
(* kept in _build_gates with the number of its users, made by the first    *)
(* of them and deleted by the last.  Threads run between the locked        *)
(* sections and the two operations on the gate.                            *)
(***************************************************************************)
EXTENDS Integers, FiniteSets

CONSTANTS
    Callers,       \* uses of `with building(reference)`, each once
    References,    \* image tags
    Gates,         \* Lock objects; one nobody refers to any more may come back
    NoReference, NoGate, NoCaller

ASSUME BuildGateAssumption ==
    /\ IsFiniteSet(Callers)
    /\ NoReference \notin References
    /\ NoGate \notin Gates
    /\ NoCaller \notin Callers

VARIABLES
    pc,            \* where a caller is
    wants,         \* its reference
    my_gate,       \* its local variable `gate`
    gate_of,       \* _build_gates[reference][0], NoGate if there is no entry
    users,         \* _build_gates[reference][1], 0 if there is no entry
    holder         \* the owner of a Lock object

vars == <<pc, wants, my_gate, gate_of, users, holder>>

\* Callers counted in `users`: they wait for the gate, are inside, or have
\* released the gate and not yet signed off.
Registered == {"waiting", "inside", "leaving"}

UsersOf(ref) == {c \in Callers : pc[c] \in Registered /\ wants[c] = ref}

TypeOK ==
    /\ pc \in [Callers -> {"before", "after"} \cup Registered]
    /\ wants \in [Callers -> References \cup {NoReference}]
    /\ my_gate \in [Callers -> Gates \cup {NoGate}]
    /\ gate_of \in [References -> Gates \cup {NoGate}]
    /\ users \in [References -> Nat]
    /\ holder \in [Gates -> Callers \cup {NoCaller}]
    /\ \A c \in Callers : pc[c] \in Registered =>
          wants[c] \in References /\ my_gate[c] \in Gates

Init ==
    /\ pc = [c \in Callers |-> "before"]
    /\ wants = [c \in Callers |-> NoReference]
    /\ my_gate = [c \in Callers |-> NoGate]
    /\ gate_of = [ref \in References |-> NoGate]
    /\ users = [ref \in References |-> 0]
    /\ holder = [g \in Gates |-> NoCaller]

\* A new Lock(): not one that an entry or a running caller refers to.
Fresh ==
    {g \in Gates :
        /\ \A ref \in References : gate_of[ref] # g
        /\ \A c \in Callers : pc[c] \in Registered => my_gate[c] # g
        /\ holder[g] = NoCaller}

\* The gate of the entry, or a new one if there is no entry.
GateFor(ref) == IF gate_of[ref] = NoGate THEN Fresh ELSE {gate_of[ref]}

\* Seeded fault: whoever finds an entry is not counted.
EnterUncounted(c, ref) ==
    /\ pc[c] = "before"
    /\ \E gate \in GateFor(ref) :
          /\ my_gate' = [my_gate EXCEPT ![c] = gate]
          /\ gate_of' = [gate_of EXCEPT ![ref] = gate]
    /\ users' = [users EXCEPT ![ref] = 1]
    /\ wants' = [wants EXCEPT ![c] = ref]
    /\ pc' = [pc EXCEPT ![c] = "waiting"]
    /\ UNCHANGED holder

\* Under _lock: find or make the entry and count oneself in.
Enter(c, ref) ==
    /\ pc[c] = "before"
    /\ \E gate \in GateFor(ref) :
          /\ my_gate' = [my_gate EXCEPT ![c] = gate]
          /\ gate_of' = [gate_of EXCEPT ![ref] = gate]
    /\ users' = [users EXCEPT ![ref] = @ + 1]
    /\ wants' = [wants EXCEPT ![c] = ref]
    /\ pc' = [pc EXCEPT ![c] = "waiting"]
    /\ UNCHANGED holder

\* with gate:
Acquire(c) ==
    /\ pc[c] = "waiting"
    /\ holder[my_gate[c]] = NoCaller
    /\ holder' = [holder EXCEPT ![my_gate[c]] = c]
    /\ pc' = [pc EXCEPT ![c] = "inside"]
    /\ UNCHANGED <<wants, my_gate, gate_of, users>>

\* Seeded fault: a build that raises keeps its gate.
ReleaseUnlessRaised(c) ==
    /\ pc[c] = "inside"
    /\ \E raised \in BOOLEAN :
          holder' = IF raised THEN holder ELSE [holder EXCEPT ![my_gate[c]] = NoCaller]
    /\ pc' = [pc EXCEPT ![c] = "leaving"]
    /\ UNCHANGED <<wants, my_gate, gate_of, users>>

\* The body is over, normally or by an exception.
ReleaseGate(c) ==
    /\ pc[c] = "inside"
    /\ holder' = [holder EXCEPT ![my_gate[c]] = NoCaller]
    /\ pc' = [pc EXCEPT ![c] = "leaving"]
    /\ UNCHANGED <<wants, my_gate, gate_of, users>>

\* Seeded fault: the entry goes when nobody holds the gate, waiting or not.
SignOffUnheld(ref) ==
    IF \A g \in Gates : g = gate_of[ref] => holder[g] = NoCaller
      THEN /\ gate_of' = [gate_of EXCEPT ![ref] = NoGate]
           /\ users' = [users EXCEPT ![ref] = 0]
      ELSE /\ users' = [users EXCEPT ![ref] = @ - 1]
           /\ UNCHANGED gate_of

\* Seeded fault: the last user leaves its entry behind.
SignOffKeepsEntry(ref) ==
    /\ users' = [users EXCEPT ![ref] = @ - 1]
    /\ UNCHANGED gate_of

\* Count oneself out; the last user deletes the entry.
SignOff(ref) ==
    IF users[ref] = 1
      THEN /\ gate_of' = [gate_of EXCEPT ![ref] = NoGate]
           /\ users' = [users EXCEPT ![ref] = 0]
      ELSE /\ users' = [users EXCEPT ![ref] = @ - 1]
           /\ UNCHANGED gate_of

\* Under _lock, in the finally clause.
Leave(c) ==
    /\ pc[c] = "leaving"
    /\ SignOff(wants[c])
    /\ pc' = [pc EXCEPT ![c] = "after"]
    /\ UNCHANGED <<wants, my_gate, holder>>

Next ==
    \E c \in Callers :
        \/ \E ref \in References : Enter(c, ref)
        \/ Acquire(c)
        \/ ReleaseGate(c)
        \/ Leave(c)

Spec == Init /\ [][Next]_vars

(***************************************************************************)
(* Fairness: threads run, a Lock that is free is given to someone who      *)
(* waits, and bodies (Docker calls with timeouts) end.  Callers come once, *)
(* so nobody can be overtaken for ever and weak fairness is enough.        *)
(***************************************************************************)
FairSpec ==
    /\ Spec
    /\ \A c \in Callers : WF_vars(Acquire(c)) /\ WF_vars(ReleaseGate(c)) /\ WF_vars(Leave(c))

-----------------------------------------------------------------------------
(* Properties *)

\* Two builds of the same reference never run at the same time, although the
\* Lock object that separates them is deleted and made anew (building()).
MutualExclusion ==
    \A c, d \in Callers :
        pc[c] = "inside" /\ pc[d] = "inside" /\ wants[c] = wants[d] => c = d

\* An entry exists exactly while someone is between registering and signing
\* off.  Collection skips the references in _build_gates, so this is what
\* protects a reference whose build is running or waiting, and what lets
\* collection have it back afterwards.
EntryIffUsed ==
    \A ref \in References :
        /\ users[ref] = Cardinality(UsersOf(ref))
        /\ gate_of[ref] # NoGate <=> UsersOf(ref) # {}

\* Nobody waits for a build of another reference.
NoFalseSharing ==
    \A c, d \in Callers :
        pc[c] = "waiting" /\ holder[my_gate[c]] = d => wants[d] = wants[c]

\* Two builds exclude each other exactly if they have the same reference.
ExactExclusion == MutualExclusion /\ NoFalseSharing

Phase(c) == IF pc[c] = "leaving" THEN "after" ELSE pc[c]

Promise == INSTANCE RefMutex WITH phase <- [c \in Callers |-> Phase(c)]

\* building() is a mutual exclusion per reference that lets everyone in.
ImplementsRefMutex == Promise!FairSpec

\* The safety part of it.
ImplementsExclusion == Promise!Spec
=============================================================================
