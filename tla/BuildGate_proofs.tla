-------------------------- MODULE BuildGate_proofs --------------------------
(* Mutual exclusion and refinement of BuildGate, for any number of callers,  *)
(* references and Lock objects.                                              *)
EXTENDS BuildGate, FiniteSetTheorems, TLAPS

\* A registered caller works with the gate of its reference's entry.
SameGate ==
    \A c \in Callers : pc[c] \in Registered => my_gate[c] = gate_of[wants[c]]

\* No Lock object serves two references.
DistinctGates ==
    \A r1, r2 \in References :
        gate_of[r1] = gate_of[r2] /\ gate_of[r1] # NoGate => r1 = r2

\* A Lock object is held by exactly the caller that is inside with it.
HolderInside ==
    \A g \in Gates, c \in Callers :
        holder[g] = c <=> pc[c] = "inside" /\ my_gate[c] = g

IInv ==
    /\ TypeOK
    /\ EntryIffUsed
    /\ SameGate
    /\ DistinctGates
    /\ HolderInside

-----------------------------------------------------------------------------
LEMMA UsersFinite == \A ref \in References :
    IsFiniteSet(UsersOf(ref)) /\ Cardinality(UsersOf(ref)) \in Nat
  BY BuildGateAssumption, FS_Subset, FS_CardinalityType DEF UsersOf

LEMMA IInvInit == Init => IInv
<1> SUFFICES ASSUME Init PROVE IInv
    OBVIOUS
<1>1. \A ref \in References : UsersOf(ref) = {}
    BY DEF Init, UsersOf, Registered
<1>2. EntryIffUsed
    BY <1>1, FS_EmptySet DEF Init, EntryIffUsed
<1>3. QED
    BY <1>2, BuildGateAssumption
    DEF Init, IInv, TypeOK, SameGate, DistinctGates, HolderInside, Registered

\* Registering adds one user to one entry.
LEMMA EnterKeepsIInv ==
    ASSUME IInv, NEW c \in Callers, NEW ref \in References, Enter(c, ref)
    PROVE  IInv'
<1> USE BuildGateAssumption DEF IInv, Registered
<1>1. PICK gate \in GateFor(ref) :
          /\ my_gate' = [my_gate EXCEPT ![c] = gate]
          /\ gate_of' = [gate_of EXCEPT ![ref] = gate]
    BY DEF Enter
<1>2. /\ pc[c] = "before"
      /\ pc' = [pc EXCEPT ![c] = "waiting"]
      /\ wants' = [wants EXCEPT ![c] = ref]
      /\ users' = [users EXCEPT ![ref] = @ + 1]
      /\ holder' = holder
    BY DEF Enter
<1>3. gate \in Gates
    BY DEF GateFor, Fresh, TypeOK
<1>4. TypeOK'
    BY <1>1, <1>2, <1>3 DEF TypeOK
<1>5. EntryIffUsed'
  <2> SUFFICES ASSUME NEW r \in References
               PROVE  /\ users'[r] = Cardinality(UsersOf(r)')
                      /\ gate_of'[r] # NoGate <=> UsersOf(r)' # {}
      BY DEF EntryIffUsed
  <2>1. CASE r = ref
    <3>1. c \notin UsersOf(r) /\ UsersOf(r)' = UsersOf(r) \cup {c}
        BY <1>2, <2>1 DEF UsersOf, TypeOK
    <3>2. Cardinality(UsersOf(r)') = Cardinality(UsersOf(r)) + 1
        BY <3>1, FS_AddElement, UsersFinite
    <3>3. QED
        BY <1>1, <1>2, <1>3, <2>1, <3>1, <3>2 DEF EntryIffUsed, TypeOK
  <2>2. CASE r # ref
    <3>1. UsersOf(r)' = UsersOf(r)
        BY <1>2, <2>2 DEF UsersOf, TypeOK
    <3>2. QED
        BY <1>1, <1>2, <2>2, <3>1 DEF EntryIffUsed, TypeOK
  <2>3. QED
      BY <2>1, <2>2
\* The gate is the entry's own, or one that no entry has.
<1>6. /\ gate_of[ref] # NoGate => gate = gate_of[ref]
      /\ gate_of[ref] = NoGate => \A r \in References : gate_of[r] # gate
    BY DEF GateFor, Fresh
<1>7. DistinctGates'
    BY <1>1, <1>3, <1>6 DEF DistinctGates, TypeOK
<1>8. SameGate'
  <2>1. \A d \in Callers : pc[d] \in Registered => gate_of[wants[d]] # NoGate
      BY DEF SameGate, TypeOK
  <2>2. QED
      BY <1>1, <1>2, <1>6, <2>1 DEF SameGate, TypeOK
<1>9. HolderInside'
    BY <1>1, <1>2, <1>3 DEF HolderInside, TypeOK
<1>10. QED
    BY <1>4, <1>5, <1>7, <1>8, <1>9

\* Taking and releasing the gate changes neither entries nor users.
LEMMA GateStepKeepsIInv ==
    ASSUME IInv, NEW c \in Callers, Acquire(c) \/ ReleaseGate(c)
    PROVE  IInv'
<1> USE BuildGateAssumption DEF IInv, Registered
<1>1. TypeOK'
    BY DEF Acquire, ReleaseGate, TypeOK
<1>2. \A ref \in References : UsersOf(ref)' = UsersOf(ref)
    BY DEF Acquire, ReleaseGate, UsersOf, TypeOK
<1>3. EntryIffUsed'
    BY <1>2 DEF Acquire, ReleaseGate, EntryIffUsed
<1>4. SameGate' /\ DistinctGates'
    BY DEF Acquire, ReleaseGate, SameGate, DistinctGates, TypeOK
<1>5. HolderInside'
  <2>1. CASE Acquire(c)
      BY <2>1 DEF Acquire, HolderInside, TypeOK
  <2>2. CASE ReleaseGate(c)
      BY <2>2 DEF ReleaseGate, HolderInside, TypeOK
  <2>3. QED
      BY <2>1, <2>2
<1>6. QED
    BY <1>1, <1>3, <1>4, <1>5

\* Signing off removes one user; with the last one the entry goes.
LEMMA LeaveKeepsIInv ==
    ASSUME IInv, NEW c \in Callers, Leave(c)
    PROVE  IInv'
<1> USE BuildGateAssumption DEF IInv, Registered
<1>0. PICK ref \in References : ref = wants[c]
    BY DEF Leave, TypeOK
<1>1. /\ wants[c] = ref
      /\ pc[c] = "leaving"
      /\ pc' = [pc EXCEPT ![c] = "after"]
      /\ UNCHANGED <<wants, my_gate, holder>>
    BY <1>0 DEF Leave
<1>2. /\ UsersOf(ref)' = UsersOf(ref) \ {c}
      /\ c \in UsersOf(ref)
      /\ \A r \in References \ {ref} : UsersOf(r)' = UsersOf(r)
    BY <1>1 DEF UsersOf, TypeOK
<1>3. /\ Cardinality(UsersOf(ref)') = Cardinality(UsersOf(ref)) - 1
      /\ Cardinality(UsersOf(ref)') \in Nat
      /\ Cardinality(UsersOf(ref)') = 0 <=> UsersOf(ref)' = {}
  <2>1. IsFiniteSet(UsersOf(ref))
      BY UsersFinite
  <2>2. IsFiniteSet(UsersOf(ref)')
      BY <1>2, <2>1, FS_RemoveElement
  <2>3. Cardinality(UsersOf(ref)') = Cardinality(UsersOf(ref)) - 1
      BY <1>2, <2>1, FS_RemoveElement
  <2>4. QED
      BY <2>2, <2>3, FS_CardinalityType, FS_EmptySet
<1>4. /\ users[ref] = Cardinality(UsersOf(ref))
      /\ users' = [users EXCEPT ![ref] = users[ref] - 1]
      /\ gate_of' = [gate_of EXCEPT ![ref] = IF users[ref] = 1 THEN NoGate ELSE @]
    BY <1>0, <1>1 DEF Leave, SignOff, EntryIffUsed, TypeOK
<1>5. TypeOK'
    BY <1>1, <1>3, <1>4 DEF TypeOK
<1>6. EntryIffUsed'
  <2> SUFFICES ASSUME NEW r \in References
               PROVE  /\ users'[r] = Cardinality(UsersOf(r)')
                      /\ gate_of'[r] # NoGate <=> UsersOf(r)' # {}
      BY DEF EntryIffUsed
  <2>1. CASE r = ref
    <3>1. users'[ref] = Cardinality(UsersOf(ref)')
        BY <1>3, <1>4 DEF TypeOK
    <3>2. UsersOf(ref) # {} /\ gate_of[ref] # NoGate
        BY <1>2 DEF EntryIffUsed
    <3>3. gate_of'[ref] = NoGate <=> users[ref] = 1
        BY <1>4, <3>2 DEF TypeOK
    <3>4. users[ref] = 1 <=> Cardinality(UsersOf(ref)') = 0
        BY <1>3, <1>4
    <3>5. QED
        BY <1>3, <2>1, <3>1, <3>3, <3>4
  <2>2. CASE r # ref
      BY <1>1, <1>2, <1>4, <2>2 DEF EntryIffUsed, TypeOK
  <2>3. QED
      BY <2>1, <2>2
<1>7. SameGate'
  <2>1. ASSUME NEW d \in Callers, pc'[d] \in Registered
        PROVE  my_gate'[d] = gate_of'[wants'[d]]
    <3>1. d # c /\ pc[d] \in Registered
        BY <1>1, <2>1 DEF TypeOK
    <3>2. CASE wants[d] = ref
      <4>1. d \in UsersOf(ref)'
          BY <1>1, <2>1, <3>2 DEF UsersOf
      <4>2. users[ref] # 1
          BY <1>3, <1>4, <4>1
      <4>3. QED
          BY <1>1, <1>4, <3>1, <3>2, <4>2 DEF SameGate, TypeOK
    <3>3. CASE wants[d] # ref
        BY <1>1, <1>4, <3>1, <3>3 DEF SameGate, TypeOK
    <3>4. QED
        BY <3>2, <3>3
  <2>2. QED
      BY <2>1 DEF SameGate
<1>8. DistinctGates'
    BY <1>1, <1>4 DEF DistinctGates, TypeOK
<1>9. HolderInside'
    BY <1>1 DEF HolderInside, TypeOK
<1>10. QED
    BY <1>5, <1>6, <1>7, <1>8, <1>9

LEMMA IInvNext == IInv /\ [Next]_vars => IInv'
<1> SUFFICES ASSUME IInv, [Next]_vars
             PROVE  IInv'
    OBVIOUS
<1>1. ASSUME NEW c \in Callers, NEW ref \in References, Enter(c, ref)
      PROVE  IInv'
    BY <1>1, EnterKeepsIInv
<1>2. ASSUME NEW c \in Callers, Acquire(c) \/ ReleaseGate(c)
      PROVE  IInv'
    BY <1>2, GateStepKeepsIInv
<1>3. ASSUME NEW c \in Callers, Leave(c)
      PROVE  IInv'
    BY <1>3, LeaveKeepsIInv
<1>4. CASE UNCHANGED vars
    BY <1>4 DEF vars, IInv, TypeOK, EntryIffUsed, UsersOf, SameGate, DistinctGates,
         HolderInside
<1>5. QED
    BY <1>1, <1>2, <1>3, <1>4 DEF Next

LEMMA Invariance == Spec => []IInv
  BY IInvInit, IInvNext, PTL DEF Spec

LEMMA IInvExcludes == IInv => MutualExclusion
  BY DEF IInv, TypeOK, MutualExclusion, SameGate, HolderInside, Registered

\* The gates' variables keep their types, and a caller that is registered has a
\* reference and a Lock.
THEOREM TypeCorrect == Spec => []TypeOK
<1>1. IInv => TypeOK
    BY DEF IInv
<1>2. QED
    BY <1>1, Invariance, PTL

\* At most one build of a reference runs at a time.
THEOREM OneBuildPerReference == Spec => []MutualExclusion
  BY Invariance, IInvExcludes, PTL

\* An entry of _build_gates exists exactly while it has users: a reference is
\* protected from collection as long as needed and no longer.
THEOREM EntriesFollowUsers == Spec => []EntryIffUsed
<1>1. IInv => EntryIffUsed
    BY DEF IInv
<1>2. QED
    BY <1>1, Invariance, PTL

\* A build waits only for builds of its own reference.
THEOREM NoWaitForOthers == Spec => []NoFalseSharing
<1>1. IInv => NoFalseSharing
    BY BuildGateAssumption
    DEF IInv, TypeOK, NoFalseSharing, SameGate, DistinctGates, HolderInside, Registered
<1>2. QED
    BY <1>1, Invariance, PTL

\* Builds exclude each other exactly if they have the same reference.
THEOREM ExclusionIsExact == Spec => []ExactExclusion
    BY OneBuildPerReference, NoWaitForOthers, PTL DEF ExactExclusion

-----------------------------------------------------------------------------
LEMMA PhaseStep ==
    ASSUME IInv, Next
    PROVE  Promise!Next \/ UNCHANGED <<[c \in Callers |-> Phase(c)], wants>>
<1> USE DEF IInv, TypeOK, Registered, Phase
<1>1. ASSUME NEW c \in Callers, NEW ref \in References, Enter(c, ref)
      PROVE  Promise!Come(c, ref)
    BY <1>1 DEF Enter, Promise!Come
<1>2. ASSUME NEW c \in Callers, Acquire(c)
      PROVE  Promise!GoIn(c)
  <2>1. ASSUME NEW d \in Callers, pc[d] = "inside", wants[d] = wants[c]
        PROVE  FALSE
      BY <1>2, <2>1, BuildGateAssumption DEF Acquire, SameGate, HolderInside
  <2>2. ~Promise!Occupied(wants[c])
      BY <2>1 DEF Promise!Occupied
  <2>3. QED
      BY <1>2, <2>2 DEF Acquire, Promise!GoIn
<1>3. ASSUME NEW c \in Callers, ReleaseGate(c)
      PROVE  Promise!GoOut(c)
    BY <1>3 DEF ReleaseGate, Promise!GoOut
<1>4. ASSUME NEW c \in Callers, Leave(c)
      PROVE  UNCHANGED <<[d \in Callers |-> Phase(d)], wants>>
    BY <1>4 DEF Leave
<1>5. QED
    BY <1>1, <1>2, <1>3, <1>4 DEF Next, Promise!Next

\* building() implements the per-reference mutex (its safety part).
THEOREM GateImplementsExclusion == Spec => ImplementsExclusion
<1>1. Init => Promise!Init
    BY DEF Init, Promise!Init, Phase
<1>2. IInv /\ [Next]_vars => [Promise!Next]_<<[c \in Callers |-> Phase(c)], wants>>
  <2>1. CASE Next
      BY <2>1, PhaseStep
  <2>2. CASE UNCHANGED vars
      BY <2>2 DEF vars, Phase
  <2>3. QED
      BY <2>1, <2>2
<1>3. QED
    BY <1>1, <1>2, Invariance, PTL DEF Spec, ImplementsExclusion, Promise!Spec
=============================================================================
