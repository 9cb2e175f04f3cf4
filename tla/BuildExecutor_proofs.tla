------------------------ MODULE BuildExecutor_proofs ------------------------
(* Safety of BuildExecutor, and that it implements BuildAdmission, for any   *)
(* finite set of requests and any limits.                                    *)
EXTENDS BuildExecutor, FiniteSetTheorems, SequenceTheorems, WellFoundedInduction,
        TLAPS

\* HoldingSet for given stages and builds.
Holders(p, w) == {r \in Requests : p[r] \in {"granted", "revoked"} \/ w[r] \in Busy}

\* A build is in the pool only if its run() got as far as awaiting it.
Consistent ==
    \A r \in Requests :
        /\ worker[r] \in Busy => pc[r] \in {"awaiting", "detached"}
        /\ pc[r] \in {"new"} \cup Queued => worker[r] = "none"

\* The counters respect the limits, and admission closes when close() begins.
Limits ==
    /\ pending <= NumWorkers + QueueSize
    /\ bytes <= MaxBytes
    /\ closed <=> closer # "serving"

IInv ==
    /\ TypeOK
    /\ Consistent
    /\ SlotsConserved
    /\ AccountingExact
    /\ Limits
    /\ ShutdownDrains

-----------------------------------------------------------------------------
(* The sets that are counted *)

LEMMA Finite == \A S : S \subseteq Requests => IsFiniteSet(S) /\ Cardinality(S) \in Nat
  BY BuildExecutorAssumption, FS_Subset, FS_CardinalityType

LEMMA Plus ==
    ASSUME NEW S, NEW r \in Requests, S \subseteq Requests, r \notin S
    PROVE  Cardinality(S \cup {r}) = Cardinality(S) + 1
  BY Finite, FS_AddElement

LEMMA Minus ==
    ASSUME NEW S, NEW r \in Requests, S \subseteq Requests, r \in S
    PROVE  Cardinality(S \ {r}) = Cardinality(S) - 1
  BY Finite, FS_RemoveElement

\* A request that starts while another state holds makes its set strictly
\* larger, so a bound on the larger set leaves room in the smaller one.
LEMMA Room ==
    ASSUME NEW S, NEW T, T \subseteq Requests, S \subseteq T,
           NEW r \in T, r \notin S
    PROVE  Cardinality(S) < Cardinality(T)
<1>1. r \in Requests /\ S \subseteq Requests
    OBVIOUS
<1>2. S \cup {r} \subseteq T
    OBVIOUS
<1>3. Cardinality(S \cup {r}) <= Cardinality(T)
    BY <1>2, Finite, FS_Subset
<1>4. QED
    BY <1>1, <1>3, Plus, Finite

-----------------------------------------------------------------------------
(* The semaphore *)

IsSem(sem) ==
    /\ sem = [free |-> sem.free, pc |-> sem.pc]
    /\ sem.free \in Nat
    /\ sem.pc \in [Requests -> Stages]

\* Nobody's stage changed, except that waiters may have been handed a slot.
OnlyGrants(p, q) ==
    \A r \in Requests : q[r] = p[r] \/ (p[r] = "queued" /\ q[r] = "granted")

\* Waking the next waiter moves at most one slot from the free ones to a
\* waiter: the slots in all add up to what they did before.
LEMMA WakeNextConserves ==
    ASSUME NEW sem, IsSem(sem), NEW ws, NEW w,
           \A r \in Requests : sem.pc[r] = "queued" => w[r] \notin Busy
    PROVE  LET new == WakeNext(sem, ws)
           IN  /\ IsSem(new)
               /\ OnlyGrants(sem.pc, new.pc)
               /\ new.free + Cardinality(Holders(new.pc, w))
                    = sem.free + Cardinality(Holders(sem.pc, w))
<1> DEFINE new == WakeNext(sem, ws)
<1>1. CASE sem.free = 0 \/ FirstPending(sem.pc, ws) = {}
  <2>1. new = sem
      BY <1>1 DEF WakeNext
  <2>2. QED
      BY <2>1 DEF OnlyGrants
<1>2. CASE ~(sem.free = 0 \/ FirstPending(sem.pc, ws) = {})
  <2> DEFINE r == CHOOSE r \in FirstPending(sem.pc, ws) : TRUE
  <2>1. r \in FirstPending(sem.pc, ws)
      BY <1>2
  <2>2. r \in Requests /\ sem.pc[r] = "queued"
      BY <2>1 DEF FirstPending
  <2>3. new = [free |-> sem.free - 1, pc |-> [sem.pc EXCEPT ![r] = "granted"]]
      BY <1>2 DEF WakeNext
  <2> HIDE DEF r, new
  <2>4. new.free = sem.free - 1 /\ new.pc = [sem.pc EXCEPT ![r] = "granted"]
      BY <2>3
  <2>5. IsSem(new)
      BY <1>2, <2>2, <2>3, <2>4 DEF IsSem, Stages, Queued
  <2>6. OnlyGrants(sem.pc, new.pc)
      BY <2>2, <2>4 DEF IsSem, OnlyGrants
  <2>7. Holders(new.pc, w) = Holders(sem.pc, w) \cup {r} /\ r \notin Holders(sem.pc, w)
      BY <2>2, <2>4 DEF Holders, IsSem
  <2>8. Cardinality(Holders(new.pc, w)) = Cardinality(Holders(sem.pc, w)) + 1
      BY <2>2, <2>7, Plus DEF Holders
  <2>9. Cardinality(Holders(sem.pc, w)) \in Nat
      BY Finite DEF Holders
  <2>10. QED
      BY <2>4, <2>5, <2>6, <2>8, <2>9 DEF IsSem, new
<1>3. QED
    BY <1>1, <1>2

\* A release adds one slot and passes it on if it can.
LEMMA ReleaseAddsOne ==
    ASSUME NEW sem, IsSem(sem), NEW ws, NEW w,
           \A r \in Requests : sem.pc[r] = "queued" => w[r] \notin Busy
    PROVE  LET new == Release(sem, ws)
           IN  /\ IsSem(new)
               /\ OnlyGrants(sem.pc, new.pc)
               /\ new.free + Cardinality(Holders(new.pc, w))
                    = sem.free + 1 + Cardinality(Holders(sem.pc, w))
<1> DEFINE more == [sem EXCEPT !.free = @ + 1]
<1>1. /\ more.free = sem.free + 1
      /\ more.pc = sem.pc
      /\ IsSem(more)
    BY DEF IsSem
<1>2. Release(sem, ws) = WakeNext(more, ws)
    BY DEF Release
<1> HIDE DEF more
<1>3. QED
    BY <1>1, <1>2, WakeNextConserves

LEMMA CurrentSem ==
    ASSUME IInv
    PROVE  /\ IsSem(Sem)
           /\ Sem.free = slots /\ Sem.pc = pc
           /\ HoldingSet = Holders(pc, worker)
           /\ \A r \in Requests : pc[r] = "queued" => worker[r] \notin Busy
  BY BuildExecutorAssumption
  DEF IInv, TypeOK, IsSem, Sem, HoldingSet, Holders, Consistent, Queued, Busy

\* Where a semaphore state is adopted and r's run() leaves acquire() or
\* finishes: everyone else is at most handed a slot.
LEMMA AdoptFrame ==
    ASSUME NEW sem, IsSem(sem), NEW r \in Requests, NEW stage \in Stages,
           Adopt(sem, r, stage)
    PROVE  /\ slots' \in Nat /\ slots' = sem.free
           /\ pc' \in [Requests -> Stages]
           /\ pc'[r] = stage
           /\ \A q \in Requests \ {r} : pc'[q] = sem.pc[q]
  BY DEF Adopt, IsSem

-----------------------------------------------------------------------------
(* The wait queue *)

\* A set of naturals has a least element: a smallest one among the intervals
\* 0..n, which are finite.
LEMMA LeastExists ==
    ASSUME NEW T, T \subseteq Nat, T # {}
    PROVE  Min(T) \in T /\ \A n \in T : Min(T) <= n
<1> DEFINE below == {0..n : n \in T}
<1>1. below \subseteq FiniteSubsetsOf(Nat) /\ below # {}
  <2>1. \A n \in Nat : IsFiniteSet(0..n)
      BY FS_Interval
  <2>2. \A n \in T : 0..n \in SUBSET Nat
      OBVIOUS
  <2>3. \A n \in T : 0..n \in FiniteSubsetsOf(Nat)
      BY <2>1, <2>2, Zenon DEF FiniteSubsetsOf
  <2>4. QED
      BY <2>3
<1>2. PICK least \in below :
          \A other \in below : ~(<<other, least>> \in StrictSubsetOrdering(Nat))
    BY <1>1, WFMin, FS_StrictSubsetOrderingWellFounded
<1>3. PICK m \in T : least = 0..m
    OBVIOUS
<1>4. ASSUME NEW n \in T, n < m
      PROVE  FALSE
  <2>1. 0..n \subseteq 0..m /\ 0..n # 0..m
      BY <1>4
  <2>2. <<0..n, 0..m>> \in StrictSubsetOrdering(Nat)
      BY <2>1 DEF StrictSubsetOrdering
  <2>3. QED
      BY <1>2, <1>3, <2>2
<1>5. \A n \in T : m <= n
    BY <1>4
<1>6. QED
    BY <1>5 DEF Min

LEMMA RemoveAtIsSeq ==
    ASSUME NEW S, NEW s \in Seq(S), NEW i \in 1..Len(s)
    PROVE  RemoveAt(s, i) \in Seq(S)
<1>1. SubSeq(s, 1, i - 1) \in Seq(S)
    BY SubSeqProperties
<1>2. SubSeq(s, i + 1, Len(s)) \in Seq(S)
    BY SubSeqProperties
<1>3. QED
    BY <1>1, <1>2 DEF RemoveAt

LEMMA RemoveFirstIsSeq ==
    ASSUME NEW S, NEW s \in Seq(S), NEW e
    PROVE  RemoveFirst(s, e) \in Seq(S)
<1> DEFINE I == {i \in 1..Len(s) : s[i] = e}
<1>1. CASE I = {}
    BY <1>1 DEF RemoveFirst
<1>2. CASE I # {}
  <2> I \subseteq Nat
      OBVIOUS
  <2> HIDE DEF I
  <2>1. Min(I) \in I
      BY <1>2, LeastExists
  <2> USE DEF I
  <2>2. RemoveFirst(s, e) = RemoveAt(s, Min(I))
      BY <1>2 DEF RemoveFirst, SelectInSeq
  <2>3. QED
      BY <2>1, <2>2, RemoveAtIsSeq
<1>3. QED
    BY <1>1, <1>2

LEMMA WithoutIsSeq == ASSUME IInv, NEW r PROVE Without(r) \in Seq(Requests)
  BY RemoveFirstIsSeq DEF IInv, TypeOK, Without

-----------------------------------------------------------------------------
(* What a step of one request does to the sets that are counted *)

\* A step of r leaves the others alone, except that it may hand them a slot.
OthersSame(r) ==
    \A q \in Requests \ {r} :
        /\ worker'[q] = worker[q]
        /\ pc'[q] = pc[q] \/ (pc[q] = "queued" /\ pc'[q] = "granted")

\* The part of Consistent that is about r.
ConsistentFor(r) ==
    /\ worker[r] \in Busy => pc[r] \in {"awaiting", "detached"}
    /\ pc[r] \in {"new"} \cup Queued => worker[r] = "none"

LEMMA Frame ==
    ASSUME IInv, NEW r \in Requests, OthersSame(r), ConsistentFor(r)'
    PROVE  /\ Consistent'
           /\ QueuedSet' \ {r} = QueuedSet \ {r}
           /\ BusySet' \ {r} = BusySet \ {r}
           /\ AdmittedSet' \ {r} = AdmittedSet \ {r}
           /\ \A q \in Requests \ {r} : Phase(q)' = Phase(q)
<1> USE DEF OthersSame
<1>1. \A q \in Requests \ {r} :
          /\ pc'[q] \in Queued <=> pc[q] \in Queued
          /\ worker'[q] = worker[q]
          /\ pc'[q] = "new" <=> pc[q] = "new"
          /\ pc'[q] \in {"awaiting", "detached"} <=> pc[q] \in {"awaiting", "detached"}
    BY DEF Queued
<1>2. Consistent'
    BY <1>1 DEF IInv, Consistent, ConsistentFor
<1>3. /\ QueuedSet' \ {r} = QueuedSet \ {r}
      /\ BusySet' \ {r} = BusySet \ {r}
      /\ AdmittedSet' \ {r} = AdmittedSet \ {r}
    BY <1>1 DEF QueuedSet, BusySet, AdmittedSet
<1>4. \A q \in Requests \ {r} : Phase(q)' = Phase(q)
    BY <1>1 DEF Phase
<1>5. QED
    BY <1>2, <1>3, <1>4

LEMMA Joins ==
    ASSUME IInv, NEW r \in Requests, ~Full(r), Register(r),
           r \notin AdmittedSet, AdmittedSet' = AdmittedSet \cup {r}
    PROVE  /\ pending' = Cardinality(AdmittedSet')
           /\ idle' <=> AdmittedSet' = {}
           /\ pending' \in Nat /\ bytes' \in Int /\ idle' \in BOOLEAN
           /\ pending' <= NumWorkers + QueueSize
           /\ bytes' <= MaxBytes
<1>1. Cardinality(AdmittedSet \cup {r}) = Cardinality(AdmittedSet) + 1
    BY Plus DEF AdmittedSet
<1>2. /\ pending' = Cardinality(AdmittedSet')
      /\ pending' \in Nat
      /\ pending' <= NumWorkers + QueueSize
    BY <1>1, BuildExecutorAssumption
    DEF IInv, TypeOK, AccountingExact, Limits, Full, Register
<1>3. bytes' \in Int /\ bytes' <= MaxBytes
    BY BuildExecutorAssumption DEF IInv, TypeOK, Limits, Full, Register
<1>4. idle' = FALSE /\ AdmittedSet' # {}
    BY DEF Register
<1>5. QED
    BY <1>2, <1>3, <1>4

LEMMA Leaves ==
    ASSUME IInv, NEW r \in Requests, Unregister(r),
           r \in AdmittedSet, AdmittedSet' = AdmittedSet \ {r}
    PROVE  /\ pending' = Cardinality(AdmittedSet')
           /\ idle' <=> AdmittedSet' = {}
           /\ pending' \in Nat /\ bytes' \in Int /\ idle' \in BOOLEAN
           /\ pending' <= NumWorkers + QueueSize
           /\ bytes' <= MaxBytes
<1>1. Cardinality(AdmittedSet \ {r}) = Cardinality(AdmittedSet) - 1
    BY Minus DEF AdmittedSet
<1>2. IsFiniteSet(AdmittedSet \ {r}) /\ Cardinality(AdmittedSet \ {r}) \in Nat
    BY Finite DEF AdmittedSet
<1>3. AdmittedSet \ {r} = {} <=> Cardinality(AdmittedSet \ {r}) = 0
    BY <1>2, FS_EmptySet
<1>4. /\ pending' = Cardinality(AdmittedSet')
      /\ pending' \in Nat
      /\ pending' <= NumWorkers + QueueSize
    BY <1>1, <1>2, BuildExecutorAssumption
    DEF IInv, TypeOK, AccountingExact, Limits, Unregister
<1>5. bytes' \in Int /\ bytes' <= MaxBytes
    BY BuildExecutorAssumption DEF IInv, TypeOK, Limits, Unregister
<1>6. ~idle
    BY DEF IInv, AccountingExact
<1>7. idle' <=> pending = 1
    BY <1>6 DEF Unregister
<1>8. pending = 1 <=> Cardinality(AdmittedSet \ {r}) = 0
    BY <1>1, <1>2 DEF IInv, TypeOK, AccountingExact
<1>9. idle' <=> AdmittedSet' = {}
    BY <1>3, <1>7, <1>8
<1>10. idle' \in BOOLEAN
    BY DEF IInv, TypeOK, Unregister
<1>11. QED
    BY <1>4, <1>5, <1>9, <1>10

-----------------------------------------------------------------------------
(* Every step preserves the invariant *)

LEMMA IInvInit == Init => IInv
<1> SUFFICES ASSUME Init PROVE IInv
    OBVIOUS
<1>1. HoldingSet = {} /\ AdmittedSet = {} /\ BusySet = {} /\ QueuedSet = {}
    BY DEF Init, HoldingSet, AdmittedSet, BusySet, QueuedSet, Queued, Busy
<1>2. Cardinality({}) = 0
    BY FS_EmptySet
<1>3. TypeOK
  <2>1. waiters \in Seq(Requests)
      BY EmptySeq DEF Init
  <2>2. /\ pc \in [Requests -> Stages]
        /\ worker \in [Requests -> {"none", "ok", "error"} \cup Busy]
      BY DEF Init, Stages
  <2>3. /\ slots \in 0..NumWorkers
        /\ pending \in Nat /\ bytes \in Int /\ active \in Nat
      BY BuildExecutorAssumption DEF Init
  <2>4. /\ closed \in BOOLEAN /\ idle \in BOOLEAN
        /\ queued_at \subseteq Requests /\ running_at \subseteq Requests
        /\ closer \in {"serving", "draining", "stopping", "stopped"}
      BY DEF Init
  <2>5. /\ succeeded \in Nat /\ failed \in Nat
        /\ rejected \in Nat /\ cancelled_queued \in Nat
      BY DEF Init
  <2>6. QED
      BY <2>1, <2>2, <2>3, <2>4, <2>5 DEF TypeOK
<1>4. Consistent
    BY DEF Init, Consistent, Busy
<1>5. SlotsConserved
    BY <1>1, <1>2, BuildExecutorAssumption DEF Init, SlotsConserved
<1>6. AccountingExact
    BY <1>1, <1>2 DEF Init, AccountingExact
<1>7. Limits
    BY BuildExecutorAssumption DEF Init, Limits
<1>8. ShutdownDrains
    BY DEF Init, ShutdownDrains
<1>9. QED
    BY <1>3, <1>4, <1>5, <1>6, <1>7, <1>8 DEF IInv

\* A step that leaves the semaphore and all counters alone, and in which r
\* stays, or stays not, queued, holding a slot and busy.
LEMMA Unaffected ==
    ASSUME IInv, NEW r \in Requests, OthersSame(r), ConsistentFor(r)', TypeOK',
           \A q \in Requests \ {r} : pc'[q] = pc[q],
           pc'[r] \in Queued <=> pc[r] \in Queued,
           pc'[r] \in {"granted", "revoked"} <=> pc[r] \in {"granted", "revoked"},
           worker'[r] \in Busy <=> worker[r] \in Busy,
           UNCHANGED <<slots, admission, active, closed, closer>>
    PROVE  IInv'
<1>1. Consistent'
    BY Frame
<1>2. /\ HoldingSet' = HoldingSet /\ AdmittedSet' = AdmittedSet
      /\ BusySet' = BusySet /\ QueuedSet' = QueuedSet
    BY DEF OthersSame, HoldingSet, AdmittedSet, BusySet, QueuedSet
<1>3. SlotsConserved' /\ AccountingExact' /\ Limits' /\ ShutdownDrains'
    BY <1>2 DEF IInv, SlotsConserved, AccountingExact, Limits, ShutdownDrains, admission
<1>4. QED
    BY <1>1, <1>3 DEF IInv

LEMMA TurnedAway ==
    ASSUME IInv, NEW r \in Requests, Refuse(r) \/ Reject(r) \/ FailAtOnce(r)
    PROVE  IInv'
<1>1. PICK stage \in {"refused", "rejected", "unstarted"} :
          pc' = [pc EXCEPT ![r] = stage]
    BY DEF Refuse, Reject, FailAtOnce
<1>2. /\ pc[r] = "new" /\ worker[r] = "none"
      /\ UNCHANGED <<worker, slots, waiters, admission, active, closed, closer>>
    BY DEF Refuse, Reject, FailAtOnce, Admitted, semaphore, admission, totals,
           shutdown, IInv, Consistent
<1>3. OthersSame(r) /\ \A q \in Requests \ {r} : pc'[q] = pc[q]
    BY <1>1, <1>2 DEF IInv, TypeOK, OthersSame
<1>4. pc'[r] = stage
    BY <1>1 DEF IInv, TypeOK
<1>5. ConsistentFor(r)'
    BY <1>2, <1>4 DEF ConsistentFor, Queued, Busy
<1>6. TypeOK'
    BY <1>1, <1>2 DEF Refuse, Reject, FailAtOnce, totals, admission, IInv,
           TypeOK, Stages, Ends
<1>7. QED
    BY <1>2, <1>3, <1>4, <1>5, <1>6, Unaffected DEF Queued

LEMMA CancelInv ==
    ASSUME IInv, NEW r \in Requests, Cancel(r)
    PROVE  IInv'
<1> USE DEF Cancel, CancelledStage
<1>1. UNCHANGED <<worker, slots, waiters, admission, active, totals, closed, closer>>
    BY DEF semaphore, shutdown
<1>2. /\ pc[r] \in {"queued", "granted", "awaiting"}
      /\ pc'[r] = CancelledStage(pc[r])
      /\ pc' \in [Requests -> Stages]
    BY DEF IInv, TypeOK, Stages, Queued, Ends
<1>3. OthersSame(r) /\ \A q \in Requests \ {r} : pc'[q] = pc[q]
    BY <1>1 DEF IInv, TypeOK, OthersSame
<1>4. ConsistentFor(r)'
    BY <1>1, <1>2 DEF IInv, Consistent, ConsistentFor, Queued, Busy
<1>5. TypeOK'
    BY <1>1, <1>2 DEF IInv, TypeOK, admission, totals
<1>6. QED
    BY <1>1, <1>2, <1>3, <1>4, <1>5, Unaffected DEF Queued

LEMMA AnswerInv ==
    ASSUME IInv, NEW r \in Requests, Answer(r)
    PROVE  IInv'
<1> USE DEF Answer
<1>1. UNCHANGED <<worker, slots, waiters, admission, active, totals, closed, closer>>
    BY DEF semaphore, shutdown
<1>2. /\ pc[r] = "awaiting" /\ worker[r] \in {"ok", "error"}
      /\ pc'[r] = "answered"
      /\ pc' \in [Requests -> Stages]
    BY DEF IInv, TypeOK, Stages, Ends
<1>3. OthersSame(r) /\ \A q \in Requests \ {r} : pc'[q] = pc[q]
    BY <1>1 DEF IInv, TypeOK, OthersSame
<1>4. ConsistentFor(r)'
    BY <1>1, <1>2 DEF ConsistentFor, Queued, Busy
<1>5. TypeOK'
    BY <1>1, <1>2 DEF IInv, TypeOK, admission, totals
<1>6. QED
    BY <1>1, <1>2, <1>3, <1>4, <1>5, Unaffected DEF Queued

LEMMA PoolInv ==
    ASSUME IInv, NEW r \in Requests,
           \/ Execute(r)
           \/ \E outcome \in {"returned", "raised"} : Complete(r, outcome)
    PROVE  IInv'
<1>1. PICK state \in {"executing", "returned", "raised"} :
          /\ worker[r] \in Busy
          /\ worker' = [worker EXCEPT ![r] = state]
    BY DEF Execute, Complete, Busy
<1>2. UNCHANGED <<pc, slots, waiters, admission, active, totals, closed, closer>>
    BY DEF Execute, Complete, PoolFrame, semaphore, shutdown
<1>3. /\ OthersSame(r) /\ \A q \in Requests \ {r} : pc'[q] = pc[q]
      /\ worker'[r] = state /\ pc'[r] = pc[r]
    BY <1>1, <1>2 DEF IInv, TypeOK, OthersSame
<1>4. ConsistentFor(r)'
    BY <1>1, <1>3 DEF IInv, Consistent, ConsistentFor, Queued
<1>5. TypeOK'
    BY <1>1, <1>2 DEF IInv, TypeOK, admission, totals, Busy
<1>6. worker'[r] \in Busy
    BY <1>3 DEF Busy
<1>7. QED
    BY <1>1, <1>2, <1>3, <1>4, <1>5, <1>6, Unaffected

LEMMA CloseInv ==
    ASSUME IInv, Close \/ CloseDrained \/ CloseStopped
    PROVE  IInv'
<1>1. UNCHANGED <<pc, worker, slots, waiters, admission, active, totals>>
    BY DEF Close, CloseDrained, CloseStopped, CloseFrame, semaphore
<1>2. /\ HoldingSet' = HoldingSet /\ AdmittedSet' = AdmittedSet
      /\ BusySet' = BusySet /\ QueuedSet' = QueuedSet
    BY <1>1 DEF HoldingSet, AdmittedSet, BusySet, QueuedSet
<1>3. TypeOK'
    BY <1>1 DEF Close, CloseDrained, CloseStopped, IInv, TypeOK, admission, totals
<1>4. Consistent' /\ SlotsConserved' /\ AccountingExact'
    BY <1>1, <1>2 DEF IInv, Consistent, SlotsConserved, AccountingExact, admission
<1>5. Limits'
    BY <1>1 DEF Close, CloseDrained, CloseStopped, IInv, Limits, admission
<1>6. ShutdownDrains'
    BY <1>1, <1>2 DEF Close, CloseDrained, CloseStopped, Drained, IInv,
           ShutdownDrains, AccountingExact
<1>7. QED
    BY <1>3, <1>4, <1>5, <1>6 DEF IInv

\* The invariant, from what a step of r does to the sets and to the slots.
LEMMA Assemble ==
    ASSUME IInv, NEW r \in Requests, OthersSame(r), ConsistentFor(r)', TypeOK',
           slots' + Cardinality(HoldingSet') = NumWorkers,
           pending' = Cardinality(AdmittedSet'),
           idle' <=> AdmittedSet' = {},
           active' = Cardinality(BusySet'),
           queued_at' = QueuedSet',
           running_at' = BusySet',
           pending' <= NumWorkers + QueueSize,
           bytes' <= MaxBytes,
           closer \notin {"stopping", "stopped"} \/ AdmittedSet' = {},
           UNCHANGED <<closed, closer>>
    PROVE  IInv'
<1>1. Consistent'
    BY Frame
<1>2. SlotsConserved' /\ AccountingExact'
    BY DEF SlotsConserved, AccountingExact
<1>3. Limits'
    BY DEF IInv, Limits
<1>4. ShutdownDrains'
    BY DEF ShutdownDrains
<1>5. QED
    BY <1>1, <1>2, <1>3, <1>4 DEF IInv

LEMMA EnqueueInv ==
    ASSUME IInv, NEW r \in Requests, Enqueue(r)
    PROVE  IInv'
<1> USE DEF Enqueue, Admitted
<1>1. /\ pc[r] = "new" /\ worker[r] = "none"
      /\ UNCHANGED <<worker, slots, running_at, active, totals, closed, closer>>
    BY DEF IInv, Consistent, shutdown
<1>2. pc'[r] = "queued" /\ pc' \in [Requests -> Stages]
    BY DEF IInv, TypeOK, Stages, Queued
<1>3. OthersSame(r) /\ \A q \in Requests \ {r} : pc'[q] = pc[q]
    BY <1>1 DEF IInv, TypeOK, OthersSame
<1>4. ConsistentFor(r)'
    BY <1>1, <1>2 DEF ConsistentFor, Busy
<1>5. /\ r \notin AdmittedSet /\ AdmittedSet' = AdmittedSet \cup {r}
      /\ QueuedSet' = QueuedSet \cup {r} /\ BusySet' = BusySet
      /\ HoldingSet' = HoldingSet
    BY <1>1, <1>2, <1>3
    DEF AdmittedSet, QueuedSet, BusySet, HoldingSet, Queued, Busy
<1>6. /\ pending' = Cardinality(AdmittedSet')
      /\ idle' <=> AdmittedSet' = {}
      /\ pending' \in Nat /\ bytes' \in Int /\ idle' \in BOOLEAN
      /\ pending' <= NumWorkers + QueueSize
      /\ bytes' <= MaxBytes
    BY <1>5, Joins
<1>7. waiters' \in Seq(Requests)
    BY AppendProperties DEF IInv, TypeOK
<1>8. TypeOK'
    BY <1>1, <1>2, <1>6, <1>7 DEF IInv, TypeOK, totals
<1>9. closer \notin {"stopping", "stopped"}
    BY DEF Full, IInv, Limits
<1>10. /\ slots' + Cardinality(HoldingSet') = NumWorkers
       /\ active' = Cardinality(BusySet')
       /\ queued_at' = QueuedSet'
       /\ running_at' = BusySet'
    BY <1>1, <1>5 DEF IInv, SlotsConserved, AccountingExact
<1>11. QED
    BY <1>1, <1>3, <1>4, <1>6, <1>8, <1>9, <1>10, Assemble

LEMMA StartAtOnceInv ==
    ASSUME IInv, NEW r \in Requests, StartAtOnce(r)
    PROVE  IInv'
<1> USE DEF StartAtOnce, Admitted, Submit
<1>1. /\ pc[r] = "new" /\ worker[r] = "none"
      /\ UNCHANGED <<waiters, queued_at, totals, closed, closer>>
    BY DEF IInv, Consistent, shutdown
<1>2. /\ pc'[r] = "awaiting" /\ pc' \in [Requests -> Stages]
      /\ worker'[r] = "submitted"
      /\ worker' \in [Requests -> {"none", "ok", "error"} \cup Busy]
    BY DEF IInv, TypeOK, Stages, Busy
<1>3. OthersSame(r) /\ \A q \in Requests \ {r} : pc'[q] = pc[q]
    BY DEF IInv, TypeOK, OthersSame
<1>4. ConsistentFor(r)'
    BY <1>2 DEF ConsistentFor, Queued
<1>5. /\ r \notin AdmittedSet /\ AdmittedSet' = AdmittedSet \cup {r}
      /\ QueuedSet' = QueuedSet
      /\ r \notin BusySet /\ BusySet' = BusySet \cup {r}
      /\ r \notin HoldingSet /\ HoldingSet' = HoldingSet \cup {r}
    BY <1>1, <1>2, <1>3
    DEF OthersSame, AdmittedSet, QueuedSet, BusySet, HoldingSet, Queued, Busy
<1>6. /\ pending' = Cardinality(AdmittedSet')
      /\ idle' <=> AdmittedSet' = {}
      /\ pending' \in Nat /\ bytes' \in Int /\ idle' \in BOOLEAN
      /\ pending' <= NumWorkers + QueueSize
      /\ bytes' <= MaxBytes
    BY <1>5, Joins
<1>7. slots' \in 0..NumWorkers /\ slots' = slots - 1
    BY BuildExecutorAssumption DEF Locked, IInv, TypeOK
<1>8. TypeOK'
    BY <1>1, <1>2, <1>6, <1>7 DEF IInv, TypeOK, totals
<1>9. closer \notin {"stopping", "stopped"}
    OBVIOUS
<1>10. /\ Cardinality(BusySet') = Cardinality(BusySet) + 1
       /\ Cardinality(HoldingSet') = Cardinality(HoldingSet) + 1
    BY <1>5, Plus DEF BusySet, HoldingSet
<1>11. Cardinality(HoldingSet) \in Nat
    BY Finite DEF HoldingSet
<1>12. /\ slots' + Cardinality(HoldingSet') = NumWorkers
       /\ active' = Cardinality(BusySet')
    BY <1>7, <1>10, <1>11, BuildExecutorAssumption
    DEF IInv, TypeOK, SlotsConserved, AccountingExact
<1>13. queued_at' = QueuedSet' /\ running_at' = BusySet'
    BY <1>1, <1>5 DEF IInv, AccountingExact
<1>14. QED
    BY <1>1, <1>3, <1>4, <1>6, <1>8, <1>9, <1>12, <1>13, Assemble

\* A step that adopts sem, in which nobody but r moved save by a grant.
LEMMA Adopted ==
    ASSUME IInv, NEW sem, IsSem(sem), OnlyGrants(pc, sem.pc),
           NEW r \in Requests, NEW stage \in Stages, Adopt(sem, r, stage),
           \A q \in Requests \ {r} : worker'[q] = worker[q]
    PROVE  /\ OthersSame(r)
           /\ pc'[r] = stage /\ pc' \in [Requests -> Stages]
           /\ slots' = sem.free
           /\ HoldingSet' \ {r} = Holders(sem.pc, worker) \ {r}
<1>1. /\ slots' = sem.free
      /\ pc' \in [Requests -> Stages] /\ pc'[r] = stage
      /\ \A q \in Requests \ {r} : pc'[q] = sem.pc[q]
    BY AdoptFrame
<1>2. OthersSame(r)
    BY <1>1 DEF OnlyGrants, OthersSame
<1>3. HoldingSet' \ {r} = Holders(sem.pc, worker) \ {r}
    BY <1>1 DEF HoldingSet, Holders
<1>4. QED
    BY <1>1, <1>2, <1>3

\* Free slots are bounded by the workers when the slots add up.
LEMMA SlotsBounded ==
    ASSUME slots' \in Nat, slots' + Cardinality(HoldingSet') = NumWorkers
    PROVE  slots' \in 0..NumWorkers
<1>1. Cardinality(HoldingSet') \in Nat
    BY Finite DEF HoldingSet
<1>2. QED
    BY <1>1, BuildExecutorAssumption

LEMMA ResumeAndStartInv ==
    ASSUME IInv, NEW r \in Requests, ResumeAndStart(r)
    PROVE  IInv'
<1> DEFINE sem == Resumed(r)
<1> USE DEF ResumeAndStart, Submit
<1>1. /\ pc[r] = "granted" /\ worker[r] = "none"
      /\ UNCHANGED <<pending, bytes, idle, totals, closed, closer>>
    BY DEF IInv, Consistent, Queued, shutdown
<1>2. /\ IsSem(sem)
      /\ OnlyGrants(pc, sem.pc)
      /\ sem.free + Cardinality(Holders(sem.pc, worker))
            = slots + Cardinality(HoldingSet)
    BY CurrentSem, WakeNextConserves DEF Resumed
<1>3. Adopt(sem, r, "awaiting")
    OBVIOUS
<1> HIDE DEF sem
<1>4. /\ worker'[r] = "submitted"
      /\ worker' \in [Requests -> {"none", "ok", "error"} \cup Busy]
      /\ \A q \in Requests \ {r} : worker'[q] = worker[q]
    BY DEF IInv, TypeOK, Busy
<1>5. /\ OthersSame(r)
      /\ pc'[r] = "awaiting" /\ pc' \in [Requests -> Stages]
      /\ slots' = sem.free
      /\ HoldingSet' \ {r} = Holders(sem.pc, worker) \ {r}
    BY <1>2, <1>3, <1>4, Adopted DEF Stages
<1>6. ConsistentFor(r)'
    BY <1>4, <1>5 DEF ConsistentFor, Queued
<1>7. /\ QueuedSet' \ {r} = QueuedSet \ {r}
      /\ BusySet' \ {r} = BusySet \ {r}
      /\ AdmittedSet' \ {r} = AdmittedSet \ {r}
    BY <1>5, <1>6, Frame
<1>8. /\ QueuedSet' = QueuedSet \ {r}
      /\ r \notin BusySet /\ BusySet' = BusySet \cup {r}
      /\ AdmittedSet' = AdmittedSet
      /\ r \in AdmittedSet
    BY <1>1, <1>4, <1>5, <1>7 DEF QueuedSet, BusySet, AdmittedSet, Queued, Busy
<1>9. HoldingSet' = Holders(sem.pc, worker)
  <2>1. sem.pc[r] = "granted"
      BY <1>1, <1>2 DEF OnlyGrants
  <2>2. r \in HoldingSet' /\ r \in Holders(sem.pc, worker)
      BY <1>4, <2>1 DEF HoldingSet, Holders, Busy
  <2>3. QED
      BY <1>5, <2>2
<1>10. slots' + Cardinality(HoldingSet') = NumWorkers
    BY <1>2, <1>5, <1>9 DEF IInv, SlotsConserved
<1>11. slots' \in 0..NumWorkers
    BY <1>2, <1>5, <1>10, SlotsBounded DEF IsSem
<1>12. Cardinality(BusySet') = Cardinality(BusySet) + 1
    BY <1>8, Plus DEF BusySet
<1>13. waiters' \in Seq(Requests)
    BY WithoutIsSeq
<1>14. TypeOK'
    BY <1>1, <1>4, <1>5, <1>11, <1>13 DEF IInv, TypeOK, totals
<1>15. /\ active' = Cardinality(BusySet')
       /\ queued_at' = QueuedSet' /\ running_at' = BusySet'
    BY <1>8, <1>12 DEF IInv, AccountingExact
<1>16. /\ pending' = Cardinality(AdmittedSet')
       /\ idle' <=> AdmittedSet' = {}
       /\ pending' <= NumWorkers + QueueSize
       /\ bytes' <= MaxBytes
    BY <1>1, <1>8 DEF IInv, AccountingExact, Limits
<1>17. closer \notin {"stopping", "stopped"}
    BY <1>8 DEF IInv, ShutdownDrains
<1>18. QED
    BY <1>1, <1>5, <1>6, <1>10, <1>14, <1>15, <1>16, <1>17, Assemble

\* The slot and the place of a request go when its run() ends in the queue.
LEMMA LeaveQueueInv ==
    ASSUME IInv, NEW r \in Requests, NEW sem, IsSem(sem), OnlyGrants(pc, sem.pc),
           NEW stage \in {"cancelled", "unstarted"}, Adopt(sem, r, stage),
           pc[r] \in Queued, worker[r] = "none",
           Unregister(r), waiters' = Without(r),
           sem.free + Cardinality(Holders(sem.pc, worker) \ {r}) = NumWorkers,
           succeeded' \in Nat, failed' \in Nat, rejected' \in Nat,
           cancelled_queued' \in Nat,
           UNCHANGED <<worker, active, closed, closer>>
    PROVE  IInv'
<1>1. stage \in Stages
    BY DEF Stages, Ends
<1>2. /\ OthersSame(r)
      /\ pc'[r] = stage /\ pc' \in [Requests -> Stages]
      /\ slots' = sem.free
      /\ HoldingSet' \ {r} = Holders(sem.pc, worker) \ {r}
    BY <1>1, Adopted
<1>3. ConsistentFor(r)'
    BY <1>2 DEF ConsistentFor, Queued, Busy
<1>4. /\ QueuedSet' \ {r} = QueuedSet \ {r}
      /\ BusySet' \ {r} = BusySet \ {r}
      /\ AdmittedSet' \ {r} = AdmittedSet \ {r}
    BY <1>2, <1>3, Frame
<1>5. /\ QueuedSet' = QueuedSet \ {r}
      /\ BusySet' = BusySet /\ r \notin BusySet
      /\ r \in AdmittedSet /\ AdmittedSet' = AdmittedSet \ {r}
      /\ r \notin HoldingSet'
    BY <1>2, <1>4 DEF QueuedSet, BusySet, AdmittedSet, HoldingSet, Queued, Busy
<1>6. slots' + Cardinality(HoldingSet') = NumWorkers
  <2>1. HoldingSet' = Holders(sem.pc, worker) \ {r}
      BY <1>2, <1>5
  <2>2. QED
      BY <1>2, <2>1
<1>7. slots' \in 0..NumWorkers
    BY <1>2, <1>6, SlotsBounded DEF IsSem
<1>8. /\ pending' = Cardinality(AdmittedSet')
      /\ idle' <=> AdmittedSet' = {}
      /\ pending' \in Nat /\ bytes' \in Int /\ idle' \in BOOLEAN
      /\ pending' <= NumWorkers + QueueSize
      /\ bytes' <= MaxBytes
    BY <1>5, Leaves
<1>9. waiters' \in Seq(Requests)
    BY WithoutIsSeq
<1>10. /\ queued_at' = QueuedSet'
       /\ running_at' = BusySet'
       /\ active' = Cardinality(BusySet')
    BY <1>5 DEF IInv, AccountingExact, Unregister
<1>11. TypeOK'
    BY <1>2, <1>7, <1>8, <1>9 DEF IInv, TypeOK, Unregister
<1>12. closer \notin {"stopping", "stopped"}
    BY <1>5 DEF IInv, ShutdownDrains
<1>13. QED
    BY <1>2, <1>3, <1>6, <1>8, <1>10, <1>11, <1>12, Assemble

LEMMA ResumeAndFailInv ==
    ASSUME IInv, NEW r \in Requests, ResumeAndFail(r)
    PROVE  IInv'
<1> DEFINE first == Resumed(r)
           sem == Release(first, Without(r))
<1> USE DEF ResumeAndFail
<1>1. /\ pc[r] = "granted" /\ worker[r] = "none"
      /\ UNCHANGED <<worker, active, closed, closer>>
    BY DEF IInv, Consistent, Queued, shutdown
<1>2. /\ IsSem(first)
      /\ OnlyGrants(pc, first.pc)
      /\ first.free + Cardinality(Holders(first.pc, worker))
            = slots + Cardinality(HoldingSet)
    BY CurrentSem, WakeNextConserves DEF Resumed
<1>3. Adopt(sem, r, "unstarted")
    OBVIOUS
<1> HIDE DEF first
<1>4. \A q \in Requests : first.pc[q] = "queued" => worker[q] \notin Busy
    BY <1>2, CurrentSem DEF OnlyGrants
<1>5. /\ IsSem(sem)
      /\ OnlyGrants(first.pc, sem.pc)
      /\ sem.free + Cardinality(Holders(sem.pc, worker))
            = first.free + 1 + Cardinality(Holders(first.pc, worker))
    BY <1>2, <1>4, ReleaseAddsOne
<1> HIDE DEF sem
<1>6. OnlyGrants(pc, sem.pc) /\ sem.pc[r] = "granted"
    BY <1>1, <1>2, <1>5 DEF OnlyGrants
<1>7. Cardinality(Holders(sem.pc, worker) \ {r})
         = Cardinality(Holders(sem.pc, worker)) - 1
    BY <1>6, Minus DEF Holders
<1>8. sem.free + Cardinality(Holders(sem.pc, worker) \ {r}) = NumWorkers
  <2>1. /\ Cardinality(Holders(sem.pc, worker)) \in Nat
        /\ Cardinality(Holders(first.pc, worker)) \in Nat
        /\ Cardinality(HoldingSet) \in Nat
      BY Finite DEF Holders, HoldingSet
  <2>2. sem.free \in Nat /\ first.free \in Nat
      BY <1>2, <1>5 DEF IsSem
  <2>3. slots \in Int /\ slots + Cardinality(HoldingSet) = NumWorkers
      BY BuildExecutorAssumption DEF IInv, TypeOK, SlotsConserved
  <2>4. QED
      BY <1>2, <1>5, <1>7, <2>1, <2>2, <2>3, BuildExecutorAssumption
<1>9. QED
    BY <1>1, <1>3, <1>5, <1>6, <1>8, LeaveQueueInv
    DEF IInv, TypeOK, Queued

LEMMA ResumeRevokedInv ==
    ASSUME IInv, NEW r \in Requests, ResumeRevoked(r)
    PROVE  IInv'
<1> DEFINE sem == HandBack(r)
<1> USE DEF ResumeRevoked
<1>1. /\ pc[r] = "revoked" /\ worker[r] = "none"
      /\ UNCHANGED <<worker, active, closed, closer>>
    BY DEF IInv, Consistent, Queued, shutdown
<1>2. /\ IsSem(sem)
      /\ OnlyGrants(pc, sem.pc)
      /\ sem.free + Cardinality(Holders(sem.pc, worker))
            = slots + 1 + Cardinality(HoldingSet)
    BY CurrentSem, ReleaseAddsOne DEF HandBack
<1>3. Adopt(sem, r, "cancelled")
    OBVIOUS
<1> HIDE DEF sem
<1>4. sem.pc[r] = "revoked"
    BY <1>1, <1>2 DEF OnlyGrants
<1>5. Cardinality(Holders(sem.pc, worker) \ {r})
         = Cardinality(Holders(sem.pc, worker)) - 1
    BY <1>4, Minus DEF Holders
<1>6. sem.free + Cardinality(Holders(sem.pc, worker) \ {r}) = NumWorkers
  <2>1. /\ Cardinality(Holders(sem.pc, worker)) \in Nat
        /\ Cardinality(HoldingSet) \in Nat
      BY Finite DEF Holders, HoldingSet
  <2>2. sem.free \in Nat
      BY <1>2 DEF IsSem
  <2>3. slots \in Int /\ slots + Cardinality(HoldingSet) = NumWorkers
      BY BuildExecutorAssumption DEF IInv, TypeOK, SlotsConserved
  <2>4. QED
      BY <1>2, <1>5, <2>1, <2>2, <2>3, BuildExecutorAssumption
<1>7. QED
    BY <1>1, <1>2, <1>3, <1>6, LeaveQueueInv DEF IInv, TypeOK, Queued

LEMMA ResumeCancelledInv ==
    ASSUME IInv, NEW r \in Requests, ResumeCancelled(r)
    PROVE  IInv'
<1> USE DEF ResumeCancelled
<1>1. /\ pc[r] = "cancelling" /\ worker[r] = "none"
      /\ UNCHANGED <<worker, slots, active, closed, closer>>
    BY DEF IInv, Consistent, Queued, shutdown
<1>2. /\ IsSem(Sem) /\ Sem.pc = pc /\ Sem.free = slots
      /\ HoldingSet = Holders(pc, worker)
    BY CurrentSem
<1>3. OnlyGrants(pc, Sem.pc) /\ Adopt(Sem, r, "cancelled")
    BY <1>1, <1>2 DEF OnlyGrants, Adopt
<1>4. Holders(pc, worker) \ {r} = HoldingSet
    BY <1>1, <1>2 DEF HoldingSet, Busy
<1>5. Sem.free + Cardinality(Holders(Sem.pc, worker) \ {r}) = NumWorkers
    BY <1>2, <1>4 DEF IInv, SlotsConserved
<1>6. QED
    BY <1>1, <1>2, <1>3, <1>5, LeaveQueueInv DEF IInv, TypeOK, Queued

LEMMA FinishedInv ==
    ASSUME IInv, NEW r \in Requests, Finished(r)
    PROVE  IInv'
<1> DEFINE sem == Release(Sem, waiters)
<1> USE DEF Finished
<1>1. /\ pc[r] \in {"awaiting", "detached"} /\ worker[r] \in {"returned", "raised"}
      /\ UNCHANGED <<waiters, rejected, cancelled_queued, closed, closer>>
    BY DEF IInv, Consistent, Busy, shutdown
<1>2. /\ IsSem(sem)
      /\ OnlyGrants(pc, sem.pc)
      /\ sem.free + Cardinality(Holders(sem.pc, worker))
            = slots + 1 + Cardinality(HoldingSet)
    BY CurrentSem, ReleaseAddsOne
<1>3. Adopt(sem, r, pc[r])
    OBVIOUS
<1> HIDE DEF sem
<1>4. /\ worker'[r] \in {"ok", "error"}
      /\ worker' \in [Requests -> {"none", "ok", "error"} \cup Busy]
      /\ \A q \in Requests \ {r} : worker'[q] = worker[q]
    BY DEF IInv, TypeOK
<1>5. /\ OthersSame(r)
      /\ pc'[r] = pc[r] /\ pc' \in [Requests -> Stages]
      /\ slots' = sem.free
      /\ HoldingSet' \ {r} = Holders(sem.pc, worker) \ {r}
    BY <1>2, <1>3, <1>4, Adopted DEF IInv, TypeOK
<1>6. ConsistentFor(r)'
    BY <1>1, <1>4, <1>5 DEF ConsistentFor, Queued, Busy
<1>7. /\ QueuedSet' \ {r} = QueuedSet \ {r}
      /\ BusySet' \ {r} = BusySet \ {r}
      /\ AdmittedSet' \ {r} = AdmittedSet \ {r}
    BY <1>5, <1>6, Frame
<1>8. /\ QueuedSet' = QueuedSet \ {r}
      /\ r \in BusySet /\ BusySet' = BusySet \ {r}
      /\ r \in AdmittedSet /\ AdmittedSet' = AdmittedSet \ {r}
      /\ r \in Holders(sem.pc, worker) /\ r \notin HoldingSet'
    BY <1>1, <1>4, <1>5, <1>7
    DEF QueuedSet, BusySet, AdmittedSet, HoldingSet, Holders, Queued, Busy
<1>9. slots' + Cardinality(HoldingSet') = NumWorkers
  <2>1. HoldingSet' = Holders(sem.pc, worker) \ {r}
      BY <1>5, <1>8
  <2>2. Cardinality(HoldingSet') = Cardinality(Holders(sem.pc, worker)) - 1
      BY <1>8, <2>1, Minus DEF Holders
  <2>3. /\ Cardinality(Holders(sem.pc, worker)) \in Nat
        /\ Cardinality(HoldingSet) \in Nat
      BY Finite DEF Holders, HoldingSet
  <2>4. sem.free \in Nat
      BY <1>2 DEF IsSem
  <2>5. slots \in Int /\ slots + Cardinality(HoldingSet) = NumWorkers
      BY BuildExecutorAssumption DEF IInv, TypeOK, SlotsConserved
  <2>6. QED
      BY <1>2, <1>5, <2>2, <2>3, <2>4, <2>5, BuildExecutorAssumption
<1>10. slots' \in 0..NumWorkers
    BY <1>2, <1>5, <1>9, SlotsBounded DEF IsSem
<1>11. /\ pending' = Cardinality(AdmittedSet')
       /\ idle' <=> AdmittedSet' = {}
       /\ pending' \in Nat /\ bytes' \in Int /\ idle' \in BOOLEAN
       /\ pending' <= NumWorkers + QueueSize
       /\ bytes' <= MaxBytes
    BY <1>8, Leaves
<1>12. Cardinality(BusySet') = Cardinality(BusySet) - 1 /\ Cardinality(BusySet') \in Nat
    BY <1>8, Minus, Finite DEF BusySet
<1>13. active' = Cardinality(BusySet') /\ active' \in Nat
    BY <1>12 DEF IInv, TypeOK, AccountingExact
<1>14. queued_at' = QueuedSet' /\ running_at' = BusySet'
    BY <1>8 DEF IInv, AccountingExact, Unregister
<1>15. succeeded' \in Nat /\ failed' \in Nat
    BY DEF CountOutcome, IInv, TypeOK
<1>16. TypeOK'
    BY <1>1, <1>4, <1>5, <1>10, <1>11, <1>13, <1>15 DEF IInv, TypeOK, Unregister
<1>17. closer \notin {"stopping", "stopped"}
    BY <1>8 DEF IInv, ShutdownDrains
<1>18. QED
    BY <1>1, <1>5, <1>6, <1>9, <1>11, <1>13, <1>14, <1>16, <1>17, Assemble

LEMMA IInvStep == IInv /\ [Next]_vars => IInv'
<1> SUFFICES ASSUME IInv, [Next]_vars PROVE IInv'
    OBVIOUS
<1>1. ASSUME NEW r \in Requests,
             \/ Refuse(r) \/ Reject(r) \/ FailAtOnce(r)
             \/ StartAtOnce(r) \/ Enqueue(r) \/ Resume(r) \/ Cancel(r)
             \/ Execute(r)
             \/ \E outcome \in {"returned", "raised"} : Complete(r, outcome)
             \/ Finished(r) \/ Answer(r)
      PROVE  IInv'
    BY <1>1, TurnedAway, StartAtOnceInv, EnqueueInv, ResumeAndStartInv,
       ResumeAndFailInv, ResumeCancelledInv, ResumeRevokedInv, CancelInv,
       PoolInv, FinishedInv, AnswerInv DEF Resume
<1>2. CASE Close \/ CloseDrained \/ CloseStopped
    BY <1>2, CloseInv
<1>3. CASE UNCHANGED vars
  <2>1. /\ UNCHANGED <<pc, worker, slots, waiters, pending, bytes, idle, queued_at>>
        /\ UNCHANGED <<running_at, active, succeeded, failed, rejected>>
        /\ UNCHANGED <<cancelled_queued, closed, closer>>
      BY <1>3 DEF vars, semaphore, admission, totals, shutdown
  <2>2. /\ HoldingSet' = HoldingSet /\ AdmittedSet' = AdmittedSet
        /\ BusySet' = BusySet /\ QueuedSet' = QueuedSet
      BY <2>1 DEF HoldingSet, AdmittedSet, BusySet, QueuedSet
  <2>3. TypeOK' /\ Consistent'
      BY <2>1 DEF IInv, TypeOK, Consistent
  <2>4. SlotsConserved' /\ AccountingExact' /\ Limits' /\ ShutdownDrains'
      BY <2>1, <2>2 DEF IInv, SlotsConserved, AccountingExact, Limits, ShutdownDrains
  <2>5. QED
      BY <2>3, <2>4 DEF IInv
<1>4. QED
    BY <1>1, <1>2, <1>3 DEF Next

LEMMA AlwaysIInv == Spec => []IInv
  BY IInvInit, IInvStep, PTL DEF Spec

-----------------------------------------------------------------------------
(* The totals *)

\* The bytes of the contexts of S.
BytesOf(S) == UNION {{r} \X (1..Size[r]) : r \in S}

LEMMA ContextBytes ==
    ASSUME NEW r \in Requests
    PROVE  /\ IsFiniteSet({r} \X (1..Size[r]))
           /\ Cardinality({r} \X (1..Size[r])) = Size[r]
<1>1. Size[r] \in Nat
    BY BuildExecutorAssumption
<1>2. IsFiniteSet(1..Size[r]) /\ Cardinality(1..Size[r]) = Size[r]
    BY <1>1, FS_Interval
<1>3. IsFiniteSet({r}) /\ Cardinality({r}) = 1
    BY FS_Singleton
<1>4. /\ IsFiniteSet({r} \X (1..Size[r]))
      /\ Cardinality({r} \X (1..Size[r])) = 1 * Size[r]
    BY <1>2, <1>3, FS_Product
<1>5. QED
    BY <1>1, <1>4

\* There are finitely many of them: as many contexts as requests, each finite.
LEMMA BytesFinite ==
    ASSUME NEW S, S \subseteq Requests
    PROVE  IsFiniteSet(BytesOf(S)) /\ Cardinality(BytesOf(S)) \in Nat
<1> DEFINE contexts == {{r} \X (1..Size[r]) : r \in S}
           context == [r \in S |-> {r} \X (1..Size[r])]
<1>1. context \in Surjection(S, contexts)
    BY DEF Surjection
<1>2. IsFiniteSet(S)
    BY Finite
<1> HIDE DEF context
<1>3. IsFiniteSet(contexts)
    BY <1>1, <1>2, FS_Surjection
<1>4. \A c \in contexts : IsFiniteSet(c)
    BY ContextBytes
<1> HIDE DEF contexts
<1>5. IsFiniteSet(UNION contexts)
    BY <1>3, <1>4, FS_UNION
<1>6. IsFiniteSet(BytesOf(S))
    BY <1>5 DEF BytesOf, contexts
<1>7. QED
    BY <1>6, FS_CardinalityType

\* One more request brings the bytes of its context, and no others.
LEMMA BytesPlus ==
    ASSUME NEW S, S \subseteq Requests, NEW r \in Requests, r \notin S
    PROVE  Cardinality(BytesOf(S \cup {r})) = Cardinality(BytesOf(S)) + Size[r]
<1> DEFINE own == {r} \X (1..Size[r])
<1>1. BytesOf(S \cup {r}) = BytesOf(S) \cup own
    BY DEF BytesOf
<1>2. BytesOf(S) \cap own = {}
    BY DEF BytesOf
<1>3. IsFiniteSet(own) /\ Cardinality(own) = Size[r]
    BY ContextBytes
<1>4. IsFiniteSet(BytesOf(S)) /\ Cardinality(BytesOf(S)) \in Nat
    BY BytesFinite
<1> HIDE DEF own
<1>5. Cardinality(BytesOf(S) \cup own)
         = Cardinality(BytesOf(S)) + Cardinality(own) - Cardinality(BytesOf(S) \cap own)
    BY <1>3, <1>4, FS_Union
<1>6. Cardinality(BytesOf(S) \cap own) = 0
    BY <1>2, FS_EmptySet
<1>7. Size[r] \in Nat
    BY BuildExecutorAssumption
<1>8. Cardinality(BytesOf(S) \cup own) = Cardinality(BytesOf(S)) + Size[r]
    BY <1>3, <1>4, <1>5, <1>6, <1>7
<1>9. QED
    BY <1>1, <1>8, Zenon

LEMMA BytesMinus ==
    ASSUME NEW S, S \subseteq Requests, NEW r \in S
    PROVE  Cardinality(BytesOf(S \ {r})) = Cardinality(BytesOf(S)) - Size[r]
<1>1. r \in Requests /\ S \ {r} \subseteq Requests /\ (S \ {r}) \cup {r} = S
    OBVIOUS
<1>2. Cardinality(BytesOf(S)) = Cardinality(BytesOf(S \ {r})) + Size[r]
    BY <1>1, BytesPlus
<1>3. Cardinality(BytesOf(S \ {r})) \in Nat /\ Size[r] \in Nat
    BY <1>1, BytesFinite, BuildExecutorAssumption
<1>4. QED
    BY <1>2, <1>3

\* The tickets name the admitted requests.
LEMMA Tickets ==
    ASSUME IInv
    PROVE  AdmittedSet = queued_at \cup running_at /\ AdmittedSet \subseteq Requests
  BY DEF IInv, AccountingExact, AdmittedSet, QueuedSet, BusySet

LEMMA BytesIn ==
    ASSUME IInv, IInv', BytesExact, NEW r \in Requests, r \notin AdmittedSet,
           bytes' = bytes + Size[r],
           queued_at' \cup running_at' = queued_at \cup running_at \cup {r}
    PROVE  BytesExact'
<1>1. AdmittedSet' = AdmittedSet \cup {r}
    BY Tickets DEF IInv, AccountingExact, AdmittedSet, QueuedSet, BusySet
<1>2. Cardinality(BytesOf(AdmittedSet \cup {r}))
         = Cardinality(BytesOf(AdmittedSet)) + Size[r]
    BY Tickets, BytesPlus
<1>3. QED
    BY <1>1, <1>2 DEF BytesExact, AdmittedBytes, BytesOf

LEMMA BytesOut ==
    ASSUME IInv, IInv', BytesExact, NEW r \in Requests, r \in AdmittedSet,
           Unregister(r)
    PROVE  BytesExact'
<1>1. AdmittedSet' = AdmittedSet \ {r}
    BY Tickets DEF IInv, AccountingExact, AdmittedSet, QueuedSet, BusySet, Unregister
<1>2. Cardinality(BytesOf(AdmittedSet \ {r}))
         = Cardinality(BytesOf(AdmittedSet)) - Size[r]
    BY Tickets, BytesMinus
<1>3. QED
    BY <1>1, <1>2 DEF BytesExact, AdmittedBytes, BytesOf, Unregister

LEMMA BytesSame ==
    ASSUME IInv, IInv', BytesExact, bytes' = bytes,
           queued_at' \cup running_at' = queued_at \cup running_at
    PROVE  BytesExact'
<1>1. AdmittedSet' = AdmittedSet
    BY Tickets DEF IInv, AccountingExact, AdmittedSet, QueuedSet, BusySet
<1>2. QED
    BY <1>1 DEF BytesExact, AdmittedBytes

\* A run() that resumes in acquire(), or a build that finishes, hands slots to
\* waiters at most.
LEMMA Handover ==
    ASSUME IInv, NEW r \in Requests, Resume(r) \/ Finished(r)
    PROVE  /\ OthersSame(r)
           /\ Resume(r) => pc[r] \in Queued
                           /\ pc'[r] \in {"awaiting", "unstarted", "cancelled"}
           /\ Finished(r) => pc'[r] = pc[r] /\ pc[r] \in {"awaiting", "detached"}
<1> DEFINE Hands(sem, stage) ==
               /\ IsSem(sem) /\ OnlyGrants(pc, sem.pc)
               /\ Adopt(sem, r, stage)
               /\ Resume(r) => pc[r] \in Queued
                               /\ stage \in {"awaiting", "unstarted", "cancelled"}
               /\ Finished(r) => stage = pc[r] /\ pc[r] \in {"awaiting", "detached"}
<1>1. \E sem : \E stage \in Stages : Hands(sem, stage)
  <2>1. /\ IsSem(Resumed(r)) /\ OnlyGrants(pc, Resumed(r).pc)
        /\ \A q \in Requests : Resumed(r).pc[q] = "queued" => worker[q] \notin Busy
    <3>1. IsSem(Resumed(r)) /\ OnlyGrants(pc, Resumed(r).pc)
        BY CurrentSem, WakeNextConserves DEF Resumed
    <3>2. QED
        BY <3>1, CurrentSem DEF OnlyGrants
  <2>2. CASE ResumeAndStart(r)
    <3>1. Adopt(Resumed(r), r, "awaiting") /\ pc[r] = "granted" /\ ~Finished(r)
        BY <2>2 DEF ResumeAndStart, Finished, IInv, Consistent, Queued, Busy
    <3>2. "awaiting" \in Stages /\ Hands(Resumed(r), "awaiting")
        BY <2>1, <3>1 DEF Queued, Stages
    <3>3. QED
        BY <3>2
  <2>3. CASE ResumeAndFail(r)
    <3> DEFINE sem == Release(Resumed(r), Without(r))
    <3>1. Adopt(sem, r, "unstarted") /\ pc[r] = "granted" /\ ~Finished(r)
        BY <2>3 DEF ResumeAndFail, Finished, IInv, Consistent, Queued, Busy
    <3>2. IsSem(sem) /\ OnlyGrants(Resumed(r).pc, sem.pc)
        BY <2>1, ReleaseAddsOne
    <3> HIDE DEF sem
    <3>3. OnlyGrants(pc, sem.pc)
        BY <2>1, <3>2 DEF OnlyGrants
    <3>4. "unstarted" \in Stages /\ Hands(sem, "unstarted")
        BY <3>1, <3>2, <3>3 DEF Queued, Stages, Ends
    <3>5. QED
        BY <3>4
  <2>4. CASE ResumeCancelled(r)
    <3>1. /\ Adopt(Sem, r, "cancelled") /\ pc[r] = "cancelling" /\ ~Finished(r)
          /\ IsSem(Sem) /\ OnlyGrants(pc, Sem.pc)
        BY <2>4, CurrentSem DEF ResumeCancelled, Adopt, OnlyGrants, Finished,
           IInv, Consistent, Queued, Busy
    <3>2. "cancelled" \in Stages /\ Hands(Sem, "cancelled")
        BY <3>1 DEF Queued, Stages, Ends
    <3>3. QED
        BY <3>2
  <2>5. CASE ResumeRevoked(r)
    <3> DEFINE sem == HandBack(r)
    <3>1. Adopt(sem, r, "cancelled") /\ pc[r] = "revoked" /\ ~Finished(r)
        BY <2>5 DEF ResumeRevoked, Finished, IInv, Consistent, Queued, Busy
    <3>2. IsSem(sem) /\ OnlyGrants(pc, sem.pc)
        BY CurrentSem, ReleaseAddsOne DEF HandBack
    <3> HIDE DEF sem
    <3>3. "cancelled" \in Stages /\ Hands(sem, "cancelled")
        BY <3>1, <3>2 DEF Queued, Stages, Ends
    <3>4. QED
        BY <3>3
  <2>6. CASE Finished(r)
    <3> DEFINE sem == Release(Sem, waiters)
    <3>1. /\ Adopt(sem, r, pc[r]) /\ pc[r] \in {"awaiting", "detached"}
          /\ pc[r] \in Stages
        BY <2>6 DEF Finished, IInv, TypeOK, Consistent, Busy
    <3>2. IsSem(sem) /\ OnlyGrants(pc, sem.pc)
        BY CurrentSem, ReleaseAddsOne
    <3>3. ~Resume(r)
        BY <3>1 DEF Resume, ResumeAndStart, ResumeAndFail, ResumeCancelled, ResumeRevoked
    <3> HIDE DEF sem
    <3>4. Hands(sem, pc[r])
        BY <3>1, <3>2, <3>3
    <3>5. QED
        BY <3>1, <3>4
  <2>7. QED
      BY <2>2, <2>3, <2>4, <2>5, <2>6 DEF Resume
<1>2. \A q \in Requests \ {r} : worker'[q] = worker[q]
    BY DEF Resume, ResumeAndStart, ResumeAndFail, ResumeCancelled, ResumeRevoked,
           Finished, Submit, IInv, TypeOK
<1>3. PICK sem : \E stage \in Stages : Hands(sem, stage)
    BY <1>1
<1>4. PICK stage \in Stages : Hands(sem, stage)
    BY <1>3
<1>5. QED
    BY <1>2, <1>4, Adopted

\* Which steps change a total: one of r leaves it in the set of the admitted,
\* or puts it there.
LEMMA AcceptedSame ==
    ASSUME IInv, IInv', NEW r \in Requests, OthersSame(r),
           r \in AcceptedSet' <=> r \in AcceptedSet
    PROVE  AcceptedSet' = AcceptedSet
<1>1. \A q \in Requests \ {r} : q \in AcceptedSet' <=> q \in AcceptedSet
    BY DEF OthersSame, AcceptedSet
<1>2. QED
    BY <1>1 DEF AcceptedSet

LEMMA AcceptedPlus ==
    ASSUME IInv, IInv', NEW r \in Requests, OthersSame(r),
           r \in AcceptedSet', r \notin AcceptedSet
    PROVE  Cardinality(AcceptedSet') = Cardinality(AcceptedSet) + 1
<1>1. \A q \in Requests \ {r} : q \in AcceptedSet' <=> q \in AcceptedSet
    BY DEF OthersSame, AcceptedSet
<1>2. AcceptedSet' = AcceptedSet \cup {r}
    BY <1>1 DEF AcceptedSet
<1>3. QED
    BY <1>2, Plus DEF AcceptedSet

\* The sums of the status page add up in the next state too.
LEMMA TotalsStep == IInv /\ TotalsExact /\ [Next]_vars => TotalsExact'
<1> SUFFICES ASSUME IInv, TotalsExact, [Next]_vars PROVE TotalsExact'
    OBVIOUS
<1>1. IInv' /\ BytesExact /\ Ledger
    BY IInvStep DEF TotalsExact
<1>2. /\ pc \in [Requests -> Stages] /\ pending \in Nat
      /\ succeeded \in Nat /\ failed \in Nat /\ cancelled_queued \in Nat
      /\ Cardinality(AcceptedSet) \in Nat
    BY Finite DEF IInv, TypeOK, AcceptedSet
<1>3. ASSUME NEW r \in Requests, StartAtOnce(r) \/ Enqueue(r)
      PROVE  TotalsExact'
  <2>1. /\ pc[r] = "new" /\ worker[r] = "none"
        /\ pc'[r] \in {"awaiting", "queued"}
        /\ OthersSame(r)
        /\ Register(r) /\ UNCHANGED totals
        /\ queued_at' \cup running_at' = queued_at \cup running_at \cup {r}
      BY <1>3 DEF StartAtOnce, Enqueue, Admitted, Submit, OthersSame, IInv, TypeOK,
         Consistent
  <2>2. r \notin AdmittedSet
      BY <2>1 DEF AdmittedSet, Queued, Busy
  <2>3. BytesExact'
      BY <1>1, <2>1, <2>2, BytesIn DEF Register
  <2>4. Cardinality(AcceptedSet') = Cardinality(AcceptedSet) + 1
      BY <1>1, <2>1, AcceptedPlus DEF AcceptedSet
  <2>5. Ledger'
      BY <1>1, <1>2, <2>1, <2>4 DEF Ledger, Register, totals
  <2>6. QED
      BY <2>3, <2>5 DEF TotalsExact
<1>4. ASSUME NEW r \in Requests, FailAtOnce(r)
      PROVE  TotalsExact'
  <2>1. /\ pc[r] = "new" /\ pc'[r] = "unstarted" /\ OthersSame(r)
        /\ UNCHANGED <<pending, bytes, queued_at, running_at>>
        /\ failed' = failed + 1 /\ UNCHANGED <<succeeded, cancelled_queued>>
      BY <1>4 DEF FailAtOnce, Admitted, OthersSame, IInv, TypeOK, admission
  <2>2. Cardinality(AcceptedSet') = Cardinality(AcceptedSet) + 1
      BY <1>1, <2>1, AcceptedPlus DEF AcceptedSet
  <2>3. BytesExact' /\ Ledger'
      BY <1>1, <1>2, <2>1, <2>2, BytesSame DEF Ledger
  <2>4. QED
      BY <2>3 DEF TotalsExact
<1>5. ASSUME NEW r \in Requests,
             ResumeAndFail(r) \/ ResumeCancelled(r) \/ ResumeRevoked(r)
      PROVE  TotalsExact'
  <2>1. /\ Unregister(r) /\ UNCHANGED succeeded
        /\ \/ failed' = failed + 1 /\ UNCHANGED cancelled_queued
           \/ cancelled_queued' = cancelled_queued + 1 /\ UNCHANGED failed
      BY <1>5 DEF ResumeAndFail, ResumeCancelled, ResumeRevoked
  <2>2. /\ OthersSame(r) /\ pc[r] \in Queued
        /\ pc'[r] \in {"awaiting", "unstarted", "cancelled"}
      BY <1>5, Handover DEF Resume
  <2>3. r \in AdmittedSet /\ r \in AcceptedSet' /\ r \in AcceptedSet
      BY <2>2 DEF AdmittedSet, AcceptedSet, Queued
  <2>4. BytesExact'
      BY <1>1, <2>1, <2>3, BytesOut
  <2>5. AcceptedSet' = AcceptedSet
      BY <1>1, <2>2, <2>3, AcceptedSame
  <2>6. Ledger'
      BY <1>1, <1>2, <2>1, <2>5 DEF Ledger, Unregister
  <2>7. QED
      BY <2>4, <2>6 DEF TotalsExact
<1>6. ASSUME NEW r \in Requests, Finished(r)
      PROVE  TotalsExact'
  <2>1. /\ Unregister(r) /\ worker[r] \in {"returned", "raised"}
        /\ UNCHANGED cancelled_queued
        /\ \/ failed' = failed + 1 /\ UNCHANGED succeeded
           \/ succeeded' = succeeded + 1 /\ UNCHANGED failed
      BY <1>6 DEF Finished, CountOutcome
  <2>2. OthersSame(r) /\ pc'[r] = pc[r] /\ pc[r] \in {"awaiting", "detached"}
      BY <1>6, Handover
  <2>3. r \in AdmittedSet /\ r \in AcceptedSet' /\ r \in AcceptedSet
      BY <2>1, <2>2 DEF AdmittedSet, AcceptedSet, Busy
  <2>4. BytesExact'
      BY <1>1, <2>1, <2>3, BytesOut
  <2>5. AcceptedSet' = AcceptedSet
      BY <1>1, <2>2, <2>3, AcceptedSame
  <2>6. Ledger'
      BY <1>1, <1>2, <2>1, <2>5 DEF Ledger, Unregister
  <2>7. QED
      BY <2>4, <2>6 DEF TotalsExact
<1>7. ASSUME NEW r \in Requests, ResumeAndStart(r)
      PROVE  TotalsExact'
  <2>1. /\ UNCHANGED <<pending, bytes, totals>>
        /\ queued_at' = queued_at \ {r} /\ running_at' = running_at \cup {r}
      BY <1>7 DEF ResumeAndStart
  <2>2. /\ OthersSame(r) /\ pc[r] \in Queued
        /\ pc'[r] \in {"awaiting", "unstarted", "cancelled"}
      BY <1>7, Handover DEF Resume
  <2>3. r \in queued_at
      BY <2>2 DEF IInv, AccountingExact, QueuedSet
  <2>4. queued_at' \cup running_at' = queued_at \cup running_at
      BY <2>1, <2>3
  <2>5. AcceptedSet' = AcceptedSet
      BY <1>1, <2>2, AcceptedSame DEF AcceptedSet, Queued
  <2>6. BytesExact' /\ Ledger'
      BY <1>1, <2>1, <2>4, <2>5, BytesSame DEF Ledger, totals
  <2>7. QED
      BY <2>6 DEF TotalsExact
<1>8. ASSUME NEW r \in Requests,
             \/ Refuse(r) \/ Reject(r) \/ Cancel(r) \/ Execute(r)
             \/ \E outcome \in {"returned", "raised"} : Complete(r, outcome)
             \/ Answer(r)
      PROVE  TotalsExact'
  <2>1. /\ UNCHANGED <<pending, bytes, queued_at, running_at>>
        /\ UNCHANGED <<succeeded, failed, cancelled_queued>>
      BY <1>8 DEF Refuse, Reject, Cancel, Execute, Complete, Answer, PoolFrame,
         admission, totals
  <2>2. \/ UNCHANGED pc
        \/ pc[r] = "new" /\ \E s \in {"refused", "rejected"} : pc' = [pc EXCEPT ![r] = s]
        \/ /\ pc[r] \in {"queued", "granted", "awaiting"}
           /\ \E s \in {"cancelling", "revoked", "detached", "answered"} :
                 pc' = [pc EXCEPT ![r] = s]
      BY <1>8 DEF Refuse, Reject, Cancel, Execute, Complete, Answer, PoolFrame,
         CancelledStage
  <2>3. AcceptedSet' = AcceptedSet
      BY <1>2, <2>2 DEF AcceptedSet
  <2>4. BytesExact' /\ Ledger'
      BY <1>1, <2>1, <2>3, BytesSame DEF Ledger
  <2>5. QED
      BY <2>4 DEF TotalsExact
<1>9. CASE Close \/ CloseDrained \/ CloseStopped \/ UNCHANGED vars
  <2>1. /\ UNCHANGED <<pc, pending, bytes, queued_at, running_at>>
        /\ UNCHANGED <<succeeded, failed, cancelled_queued>>
      BY <1>9 DEF Close, CloseDrained, CloseStopped, CloseFrame, vars, admission, totals
  <2>2. BytesExact' /\ Ledger'
      BY <1>1, <2>1, BytesSame DEF Ledger, AcceptedSet
  <2>3. QED
      BY <2>2 DEF TotalsExact
<1>10. QED
    BY <1>3, <1>4, <1>5, <1>6, <1>7, <1>8, <1>9 DEF Next, Resume

LEMMA TotalsInit == Init => TotalsExact
<1> SUFFICES ASSUME Init PROVE TotalsExact
    OBVIOUS
<1>1. AdmittedBytes = {} /\ AcceptedSet = {}
    BY DEF Init, AdmittedBytes, AdmittedSet, AcceptedSet, Queued, Busy
<1>2. Cardinality({}) = 0
    BY FS_EmptySet
<1>3. QED
    BY <1>1, <1>2 DEF Init, TotalsExact, BytesExact, Ledger

-----------------------------------------------------------------------------
(* Who is in the wait queue *)

\* run() is suspended in acquire() only with its future in the deque.
InLine == \A q \in Requests : pc[q] \in Queued => \E i \in DOMAIN waiters : waiters[i] = q

\* What is left when the k-th element is removed.
LEMMA RemoveAtShape ==
    ASSUME NEW S, NEW s \in Seq(S), NEW k \in 1..Len(s)
    PROVE  /\ Len(RemoveAt(s, k)) = Len(s) - 1
           /\ \A j \in 1..(Len(s) - 1) :
                 RemoveAt(s, k)[j] = s[IF j < k THEN j ELSE j + 1]
<1> DEFINE front == SubSeq(s, 1, k - 1)
           back == SubSeq(s, k + 1, Len(s))
<1>1. k \in Int /\ Len(s) \in Nat /\ \A j \in 1..Len(s) : s[j] \in S
    BY LenProperties, ElementOfSeq
<1>2. /\ front \in Seq(S) /\ Len(front) = k - 1
      /\ \A j \in 1..(k - 1) : front[j] = s[j]
    BY <1>1, SubSeqProperties
<1>3. /\ back \in Seq(S) /\ Len(back) = Len(s) - k
      /\ \A j \in 1..(Len(s) - k) : back[j] = s[k + j]
    BY <1>1, SubSeqProperties
<1>4. RemoveAt(s, k) = front \o back
    BY DEF RemoveAt
<1> HIDE DEF front, back
<1>5. /\ Len(front \o back) = Len(front) + Len(back)
      /\ \A j \in 1..(Len(front) + Len(back)) :
            (front \o back)[j] = IF j <= Len(front) THEN front[j] ELSE back[j - Len(front)]
    BY <1>2, <1>3, ConcatProperties
<1>6. Len(front) + Len(back) = Len(s) - 1
    BY <1>1, <1>2, <1>3
<1>7. ASSUME NEW j \in 1..(Len(s) - 1)
      PROVE  (front \o back)[j] = s[IF j < k THEN j ELSE j + 1]
  <2>1. CASE j < k
    <3>1. j <= Len(front) /\ j \in 1..(k - 1)
        BY <1>1, <1>2, <2>1
    <3>2. QED
        BY <1>2, <1>5, <1>6, <2>1, <3>1
  <2>2. CASE ~(j < k)
    <3>1. /\ ~(j <= Len(front)) /\ j - Len(front) \in 1..(Len(s) - k)
          /\ k + (j - Len(front)) = j + 1
        BY <1>1, <1>2, <2>2
    <3>2. QED
        BY <1>3, <1>5, <1>6, <2>2, <3>1
  <2>3. QED
      BY <2>1, <2>2
<1>8. QED
    BY <1>4, <1>5, <1>6, <1>7

LEMMA RemoveAtKeeps ==
    ASSUME NEW S, NEW s \in Seq(S), NEW k \in 1..Len(s),
           NEW i \in 1..Len(s), i # k
    PROVE  \E j \in 1..Len(RemoveAt(s, k)) : RemoveAt(s, k)[j] = s[i]
<1>1. Len(s) \in Nat
    BY LenProperties
<1>2. CASE i < k
  <2>1. i \in 1..(Len(s) - 1)
      BY <1>1, <1>2
  <2>2. QED
      BY <1>2, <2>1, RemoveAtShape
<1>3. CASE i > k
  <2>1. i - 1 \in 1..(Len(s) - 1) /\ ~(i - 1 < k) /\ (i - 1) + 1 = i
      BY <1>1, <1>3
  <2>2. QED
      BY <2>1, RemoveAtShape
<1>4. QED
    BY <1>1, <1>2, <1>3

\* Removing the first occurrence of an element keeps the others.
LEMMA RemoveFirstKeeps ==
    ASSUME NEW S, NEW s \in Seq(S), NEW e, NEW i \in DOMAIN s, s[i] # e
    PROVE  \E j \in DOMAIN RemoveFirst(s, e) : RemoveFirst(s, e)[j] = s[i]
<1> DEFINE I == {k \in 1..Len(s) : s[k] = e}
<1>1. DOMAIN s = 1..Len(s)
    BY LenProperties
<1>2. CASE I = {}
    BY <1>2 DEF RemoveFirst
<1>3. CASE I # {}
  <2> I \subseteq Nat
      OBVIOUS
  <2> HIDE DEF I
  <2>1. Min(I) \in I
      BY <1>3, LeastExists
  <2> USE DEF I
  <2>2. RemoveFirst(s, e) = RemoveAt(s, Min(I))
      BY <1>3 DEF RemoveFirst, SelectInSeq
  <2>3. Min(I) \in 1..Len(s) /\ s[Min(I)] = e
      BY <2>1
  <2> HIDE DEF I
  <2>4. \E j \in 1..Len(RemoveAt(s, Min(I))) : RemoveAt(s, Min(I))[j] = s[i]
      BY <1>1, <2>3, RemoveAtKeeps
  <2>5. RemoveAt(s, Min(I)) \in Seq(S)
      BY <2>3, RemoveAtIsSeq
  <2>6. DOMAIN RemoveAt(s, Min(I)) = 1..Len(RemoveAt(s, Min(I)))
      BY <2>5, LenProperties
  <2>7. QED
      BY <2>2, <2>4, <2>6
<1>4. QED
    BY <1>2, <1>3

LEMMA InLineStep == IInv /\ InLine /\ [Next]_vars => InLine'
<1> SUFFICES ASSUME IInv, InLine, [Next]_vars,
                    NEW q \in Requests, pc'[q] \in Queued
             PROVE  \E i \in DOMAIN waiters' : waiters'[i] = q
    BY DEF InLine
<1>1. pc \in [Requests -> Stages] /\ waiters \in Seq(Requests)
    BY DEF IInv, TypeOK
<1>2. ASSUME pc[q] \in Queued, UNCHANGED waiters
      PROVE  \E i \in DOMAIN waiters' : waiters'[i] = q
    BY <1>2 DEF InLine
<1>3. ASSUME NEW r \in Requests, Resume(r)
      PROVE  \E i \in DOMAIN waiters' : waiters'[i] = q
  <2>1. /\ OthersSame(r) /\ pc'[r] \in {"awaiting", "unstarted", "cancelled"}
        /\ waiters' = Without(r)
      BY <1>3, Handover
      DEF Resume, ResumeAndStart, ResumeAndFail, ResumeCancelled, ResumeRevoked
  <2>2. q # r /\ pc[q] \in Queued
      BY <2>1 DEF OthersSame, Queued
  <2>3. PICK i \in DOMAIN waiters : waiters[i] = q
      BY <2>2 DEF InLine
  <2>4. \E j \in DOMAIN RemoveFirst(waiters, r) : RemoveFirst(waiters, r)[j] = q
      BY <1>1, <2>2, <2>3, RemoveFirstKeeps
  <2>5. QED
      BY <2>1, <2>4 DEF Without
<1>4. ASSUME NEW r \in Requests, Enqueue(r)
      PROVE  \E i \in DOMAIN waiters' : waiters'[i] = q
  <2>1. waiters' = Append(waiters, r) /\ pc' = [pc EXCEPT ![r] = "queued"]
      BY <1>4 DEF Enqueue
  <2>2. /\ Len(waiters) \in Nat
        /\ DOMAIN waiters = 1..Len(waiters)
        /\ DOMAIN waiters' = 1..(Len(waiters) + 1)
        /\ \A i \in 1..Len(waiters) : waiters'[i] = waiters[i]
        /\ waiters'[Len(waiters) + 1] = r
      BY <1>1, <2>1, AppendProperties, LenProperties
  <2>3. CASE q = r
      BY <2>2, <2>3
  <2>4. CASE q # r
    <3>1. pc[q] \in Queued
        BY <1>1, <2>1, <2>4
    <3>2. PICK i \in DOMAIN waiters : waiters[i] = q
        BY <3>1 DEF InLine
    <3>3. QED
        BY <2>2, <3>2
  <2>5. QED
      BY <2>3, <2>4
<1>5. ASSUME NEW r \in Requests, Finished(r)
      PROVE  \E i \in DOMAIN waiters' : waiters'[i] = q
  <2>1. OthersSame(r) /\ pc'[r] = pc[r] /\ UNCHANGED waiters
      BY <1>5, Handover DEF Finished
  <2>2. pc[q] \in Queued
      BY <2>1 DEF OthersSame, Queued
  <2>3. QED
      BY <1>2, <2>1, <2>2
<1>6. ASSUME NEW r \in Requests,
             \/ Refuse(r) \/ Reject(r) \/ FailAtOnce(r) \/ StartAtOnce(r)
             \/ Cancel(r) \/ Execute(r)
             \/ \E outcome \in {"returned", "raised"} : Complete(r, outcome)
             \/ Answer(r)
      PROVE  \E i \in DOMAIN waiters' : waiters'[i] = q
  <2>1. UNCHANGED waiters
      BY <1>6 DEF Refuse, Reject, FailAtOnce, StartAtOnce, Cancel, Execute, Complete,
         Answer, PoolFrame, semaphore
  <2>2. \/ UNCHANGED pc
        \/ \E s \in {"refused", "rejected", "unstarted", "awaiting", "answered"} :
              pc' = [pc EXCEPT ![r] = s]
        \/ /\ pc[r] \in {"queued", "granted", "awaiting"}
           /\ pc' = [pc EXCEPT ![r] = CancelledStage(pc[r])]
      BY <1>6 DEF Refuse, Reject, FailAtOnce, StartAtOnce, Cancel, Execute, Complete,
         Answer, PoolFrame
  <2>3. pc[q] \in Queued
      BY <1>1, <2>2 DEF CancelledStage, Queued
  <2>4. QED
      BY <1>2, <2>1, <2>3
<1>7. CASE Close \/ CloseDrained \/ CloseStopped \/ UNCHANGED vars
  <2>1. UNCHANGED <<pc, waiters>>
      BY <1>7 DEF Close, CloseDrained, CloseStopped, CloseFrame, vars, semaphore
  <2>2. QED
      BY <1>2, <2>1
<1>8. QED
    BY <1>3, <1>4, <1>5, <1>6, <1>7 DEF Next

\* A request starts as it arrives only if everyone in the queue gave up.
LEMMA NobodyWaits ==
    ASSUME IInv, InLine, [Next]_vars,
           NEW r \in Requests, pc[r] = "new", pc'[r] = "awaiting",
           NEW q \in Requests
    PROVE  pc[q] \notin {"queued", "granted"}
<1>1. ASSUME NEW s \in Requests, Resume(s) \/ Finished(s)
      PROVE  FALSE
  <2>1. /\ OthersSame(s)
        /\ pc[s] \in Queued \/ pc'[s] = pc[s]
      BY <1>1, Handover
  <2>2. QED
      BY <2>1 DEF OthersSame, Queued
<1>2. pc \in [Requests -> Stages]
    BY DEF IInv, TypeOK
<1>3. StartAtOnce(r)
    BY <1>1, <1>2
    DEF Next, Refuse, Reject, FailAtOnce, StartAtOnce, Enqueue, Cancel,
        CancelledStage, Execute, Complete, Answer, PoolFrame, Close, CloseDrained,
        CloseStopped, CloseFrame, vars
<1>4. ~Locked
    BY <1>3 DEF StartAtOnce
<1>5. QED
    BY <1>4 DEF Locked, InLine, Queued

-----------------------------------------------------------------------------
(* No slot is left idle *)

\* The deque holds only requests suspended in acquire(), each once.
Line ==
    /\ \A i \in DOMAIN waiters : pc[waiters[i]] \in Queued
    /\ \A i, j \in DOMAIN waiters : waiters[i] = waiters[j] => i = j

\* While someone waits for a slot and one is free, a request that was handed a
\* slot has yet to run, and will pass on what is free when it does.
NoneIdle ==
    slots > 0 /\ (\E r \in Requests : pc[r] = "queued")
        => \E q \in Requests : pc[q] \in {"granted", "revoked"}

\* Removing the first occurrence of an element removes it, if there is one only.
LEMMA RemoveFirstDrops ==
    ASSUME NEW S, NEW s \in Seq(S), NEW e,
           \A i, j \in DOMAIN s : s[i] = s[j] => i = j
    PROVE  LET t == RemoveFirst(s, e)
           IN  /\ \A j \in DOMAIN t : t[j] # e /\ \E i \in DOMAIN s : t[j] = s[i]
               /\ \A i, j \in DOMAIN t : t[i] = t[j] => i = j
<1> DEFINE t == RemoveFirst(s, e)
           I == {k \in 1..Len(s) : s[k] = e}
<1>1. DOMAIN s = 1..Len(s) /\ Len(s) \in Nat
    BY LenProperties
<1>2. CASE I = {}
  <2>1. t = s /\ \A j \in DOMAIN s : s[j] # e
      BY <1>1, <1>2 DEF RemoveFirst
  <2>2. QED
      BY <2>1
<1>3. CASE I # {}
  <2> DEFINE k == Min(I)
             From(j) == IF j < k THEN j ELSE j + 1
  <2>1. I \subseteq Nat
      OBVIOUS
  <2>2. t = RemoveAt(s, k)
      BY <1>3 DEF RemoveFirst, SelectInSeq
  <2>3. k \in I
    <3> HIDE DEF I
    <3>1. QED
        BY <1>3, <2>1, LeastExists
  <2>4. k \in 1..Len(s) /\ s[k] = e
      BY <2>3
  <2> HIDE DEF I, k, t
  <2>5. t \in Seq(S)
      BY <2>2, <2>4, RemoveAtIsSeq
  <2>6. Len(t) = Len(s) - 1 /\ \A j \in 1..(Len(s) - 1) : t[j] = s[From(j)]
      BY <2>2, <2>4, RemoveAtShape
  <2>7. DOMAIN t = 1..(Len(s) - 1)
      BY <2>5, <2>6, LenProperties
  <2>8. \A j \in DOMAIN t : From(j) \in DOMAIN s /\ From(j) # k
      BY <1>1, <2>4, <2>7
  <2>9. \A i, j \in DOMAIN t : From(i) = From(j) => i = j
      BY <1>1, <2>4, <2>7
  <2>10. \A j \in DOMAIN t : t[j] = s[From(j)]
      BY <2>6, <2>7
  <2> HIDE DEF From
  <2>11. \A j \in DOMAIN t : t[j] # e /\ \E i \in DOMAIN s : t[j] = s[i]
      BY <1>1, <2>4, <2>8, <2>10
  <2>12. \A i, j \in DOMAIN t : t[i] = t[j] => i = j
      BY <2>8, <2>9, <2>10
  <2>13. QED
      BY <2>11, <2>12 DEF t
<1>4. QED
    BY <1>2, <1>3

LEMMA LineStep == IInv /\ Line /\ [Next]_vars => Line'
<1> SUFFICES ASSUME IInv, Line, [Next]_vars
             PROVE  Line'
    OBVIOUS
<1>1. pc \in [Requests -> Stages] /\ waiters \in Seq(Requests)
    BY DEF IInv, TypeOK
<1>2. \A i \in DOMAIN waiters : waiters[i] \in Requests
    BY <1>1, LenProperties, ElementOfSeq
<1>3. ASSUME UNCHANGED waiters,
             \A q \in Requests : pc[q] \in Queued => pc'[q] \in Queued
      PROVE  Line'
    BY <1>2, <1>3 DEF Line
<1>4. ASSUME NEW r \in Requests, Resume(r)
      PROVE  Line'
  <2>1. OthersSame(r) /\ waiters' = Without(r)
      BY <1>4, Handover
      DEF Resume, ResumeAndStart, ResumeAndFail, ResumeCancelled, ResumeRevoked
  <2>2. /\ \A j \in DOMAIN waiters' : waiters'[j] # r
                                   /\ \E i \in DOMAIN waiters : waiters'[j] = waiters[i]
        /\ \A i, j \in DOMAIN waiters' : waiters'[i] = waiters'[j] => i = j
      BY <1>1, <2>1, RemoveFirstDrops DEF Line, Without
  <2>3. ASSUME NEW j \in DOMAIN waiters'
        PROVE  pc'[waiters'[j]] \in Queued
    <3>1. PICK i \in DOMAIN waiters : waiters'[j] = waiters[i]
        BY <2>2
    <3>2. waiters[i] \in Requests \ {r} /\ pc[waiters[i]] \in Queued
        BY <1>2, <2>2, <3>1 DEF Line
    <3>3. QED
        BY <2>1, <3>1, <3>2 DEF OthersSame, Queued
  <2>4. QED
      BY <2>2, <2>3 DEF Line
<1>5. ASSUME NEW r \in Requests, Enqueue(r)
      PROVE  Line'
  <2>1. /\ waiters' = Append(waiters, r)
        /\ pc[r] = "new" /\ pc' = [pc EXCEPT ![r] = "queued"]
      BY <1>5 DEF Enqueue, Admitted
  <2>2. /\ Len(waiters) \in Nat
        /\ DOMAIN waiters = 1..Len(waiters)
        /\ DOMAIN waiters' = 1..(Len(waiters) + 1)
        /\ \A i \in 1..Len(waiters) : waiters'[i] = waiters[i]
        /\ waiters'[Len(waiters) + 1] = r
      BY <1>1, <2>1, AppendProperties, LenProperties
  <2>3. \A i \in DOMAIN waiters : waiters[i] # r
      BY <2>1 DEF Line, Queued
  <2>4. \A q \in Requests : pc[q] \in Queued => pc'[q] \in Queued
      BY <1>1, <2>1 DEF Queued
  <2>5. pc'[r] \in Queued
      BY <1>1, <2>1 DEF Queued
  <2>6. \A i \in DOMAIN waiters' : i \in DOMAIN waiters \/ i = Len(waiters) + 1
      BY <2>2
  <2>7. \A i \in DOMAIN waiters' : pc'[waiters'[i]] \in Queued
      BY <1>2, <2>2, <2>4, <2>5, <2>6 DEF Line
  <2>8. \A i, j \in DOMAIN waiters' : waiters'[i] = waiters'[j] => i = j
      BY <2>2, <2>3, <2>6 DEF Line
  <2>9. QED
      BY <2>7, <2>8 DEF Line
<1>6. ASSUME NEW r \in Requests, Finished(r)
      PROVE  Line'
  <2>1. OthersSame(r) /\ pc'[r] = pc[r] /\ UNCHANGED waiters
      BY <1>6, Handover DEF Finished
  <2>2. \A q \in Requests : pc[q] \in Queued => pc'[q] \in Queued
      BY <2>1 DEF OthersSame, Queued
  <2>3. QED
      BY <1>3, <2>1, <2>2
<1>7. ASSUME NEW r \in Requests,
             \/ Refuse(r) \/ Reject(r) \/ FailAtOnce(r) \/ StartAtOnce(r)
             \/ Cancel(r) \/ Execute(r)
             \/ \E outcome \in {"returned", "raised"} : Complete(r, outcome)
             \/ Answer(r)
      PROVE  Line'
  <2>1. UNCHANGED waiters
      BY <1>7 DEF Refuse, Reject, FailAtOnce, StartAtOnce, Cancel, Execute, Complete,
         Answer, PoolFrame, semaphore
  <2>2. \/ UNCHANGED pc
        \/ /\ pc[r] \in {"new", "awaiting"}
           /\ \E s \in Stages : pc' = [pc EXCEPT ![r] = s]
        \/ /\ pc[r] \in {"queued", "granted"}
           /\ pc' = [pc EXCEPT ![r] = CancelledStage(pc[r])]
      BY <1>7 DEF Refuse, Reject, FailAtOnce, StartAtOnce, Cancel, CancelledStage,
         Execute, Complete, Answer, PoolFrame, Admitted, Stages, Ends
  <2>3. \A q \in Requests : pc[q] \in Queued => pc'[q] \in Queued
      BY <1>1, <2>2 DEF CancelledStage, Queued
  <2>4. QED
      BY <1>3, <2>1, <2>3
<1>8. CASE Close \/ CloseDrained \/ CloseStopped \/ UNCHANGED vars
  <2>1. UNCHANGED <<pc, waiters>>
      BY <1>8 DEF Close, CloseDrained, CloseStopped, CloseFrame, vars, semaphore
  <2>2. QED
      BY <1>3, <2>1
<1>9. QED
    BY <1>4, <1>5, <1>6, <1>7, <1>8 DEF Next

\* Where one pending waiter is in the deque, some first one is.
LEMMA SomeoneIsFirst ==
    ASSUME NEW p, NEW ws \in Seq(Requests), NEW i \in DOMAIN ws, p[ws[i]] = "queued"
    PROVE  FirstPending(p, ws) # {}
<1> DEFINE T == {j \in DOMAIN ws : p[ws[j]] = "queued"}
<1>1. DOMAIN ws = 1..Len(ws) /\ Len(ws) \in Nat
    BY LenProperties
<1>2. T \subseteq Nat /\ T # {}
    BY <1>1
<1>3. PICK m \in T : \A j \in T : m <= j
  <2> HIDE DEF T
  <2>1. QED
      BY <1>2, LeastExists
<1>4. m \in DOMAIN ws /\ m \in Nat /\ p[ws[m]] = "queued" /\ ws[m] \in Requests
    BY <1>1, <1>3, ElementOfSeq
<1>5. ASSUME NEW j \in DOMAIN ws, j < m
      PROVE  p[ws[j]] # "queued"
  <2>1. j \notin T
    <3> HIDE DEF T
    <3>1. QED
        BY <1>1, <1>3, <1>4, <1>5
  <2>2. QED
      BY <2>1
<1>6. ws[m] \in FirstPending(p, ws)
    BY <1>4, <1>5 DEF FirstPending
<1>7. QED
    BY <1>6

\* Waking the next waiter leaves no slot idle: none is free, or nobody pends,
\* or somebody was just handed one.
LEMMA WakeNextFills ==
    ASSUME NEW sem, IsSem(sem), NEW ws \in Seq(Requests),
           \A q \in Requests : sem.pc[q] = "queued" => \E i \in DOMAIN ws : ws[i] = q
    PROVE  LET new == WakeNext(sem, ws)
           IN  \/ new.free = 0
               \/ \A q \in Requests : new.pc[q] # "queued"
               \/ \E q \in Requests : sem.pc[q] = "queued" /\ new.pc[q] = "granted"
<1> DEFINE new == WakeNext(sem, ws)
<1>1. CASE sem.free = 0
    BY <1>1 DEF WakeNext
<1>2. CASE FirstPending(sem.pc, ws) = {}
  <2>1. new = sem
      BY <1>2 DEF WakeNext
  <2>2. \A q \in Requests : sem.pc[q] # "queued"
      BY <1>2, SomeoneIsFirst
  <2>3. QED
      BY <2>1, <2>2
<1>3. CASE sem.free # 0 /\ FirstPending(sem.pc, ws) # {}
  <2> DEFINE r == CHOOSE r \in FirstPending(sem.pc, ws) : TRUE
  <2>1. r \in FirstPending(sem.pc, ws)
      BY <1>3
  <2>2. r \in Requests /\ sem.pc[r] = "queued"
      BY <2>1 DEF FirstPending
  <2>3. new = [free |-> sem.free - 1, pc |-> [sem.pc EXCEPT ![r] = "granted"]]
      BY <1>3 DEF WakeNext
  <2> HIDE DEF r, new
  <2>4. new.pc[r] = "granted"
      BY <2>2, <2>3 DEF IsSem
  <2>5. QED
      BY <2>2, <2>4 DEF new
<1>4. QED
    BY <1>1, <1>2, <1>3

\* A run() that wakes the next waiter and goes on itself leaves no slot idle.
LEMMA AdoptFills ==
    ASSUME NEW sem, IsSem(sem), NEW ws \in Seq(Requests),
           \A q \in Requests : sem.pc[q] = "queued" => \E i \in DOMAIN ws : ws[i] = q,
           NEW r \in Requests, sem.pc[r] # "queued",
           NEW stage \in Stages, stage # "queued",
           IsSem(WakeNext(sem, ws)), Adopt(WakeNext(sem, ws), r, stage)
    PROVE  NoneIdle'
<1> DEFINE new == WakeNext(sem, ws)
<1>1. /\ slots' = new.free
      /\ pc'[r] = stage
      /\ \A q \in Requests \ {r} : pc'[q] = new.pc[q]
    BY AdoptFrame
<1>2. \/ new.free = 0
      \/ \A q \in Requests : new.pc[q] # "queued"
      \/ \E q \in Requests : sem.pc[q] = "queued" /\ new.pc[q] = "granted"
    BY WakeNextFills
<1> HIDE DEF new
<1>3. CASE new.free = 0
    BY <1>1, <1>3 DEF NoneIdle
<1>4. CASE \A q \in Requests : new.pc[q] # "queued"
  <2>1. \A q \in Requests : pc'[q] # "queued"
      BY <1>1, <1>4
  <2>2. QED
      BY <2>1 DEF NoneIdle
<1>5. ASSUME NEW q \in Requests, sem.pc[q] = "queued", new.pc[q] = "granted"
      PROVE  NoneIdle'
  <2>1. pc'[q] = "granted"
      BY <1>1, <1>5
  <2>2. QED
      BY <2>1 DEF NoneIdle
<1>6. QED
    BY <1>2, <1>3, <1>4, <1>5

LEMMA NoneIdleStep == IInv /\ InLine /\ Line /\ NoneIdle /\ [Next]_vars => NoneIdle'
<1> SUFFICES ASSUME IInv, InLine, Line, NoneIdle, [Next]_vars
             PROVE  NoneIdle'
    OBVIOUS
<1>1. /\ pc \in [Requests -> Stages] /\ waiters \in Seq(Requests)
      /\ \A i \in DOMAIN waiters : waiters[i] \in Requests
    BY LenProperties, ElementOfSeq DEF IInv, TypeOK
<1>2. /\ IsSem(Sem) /\ Sem.free = slots /\ Sem.pc = pc
      /\ \A q \in Requests : pc[q] = "queued" => worker[q] \notin Busy
    BY CurrentSem
\* Nobody joins the queue, and who was handed a slot still has it.
<1>3. ASSUME UNCHANGED slots,
             \A q \in Requests : /\ pc'[q] = "queued" => pc[q] = "queued"
                                 /\ pc[q] \in {"granted", "revoked"}
                                        => pc'[q] \in {"granted", "revoked"}
      PROVE  NoneIdle'
    BY <1>3 DEF NoneIdle
<1>4. ASSUME NEW r \in Requests, Resume(r)
      PROVE  NoneIdle'
  <2> DEFINE ws == Without(r)
  <2>1. ws \in Seq(Requests)
      BY WithoutIsSeq
  <2>2. ASSUME NEW q \in Requests, q # r, pc[q] = "queued"
        PROVE  \E i \in DOMAIN ws : ws[i] = q
    <3>1. PICK i \in DOMAIN waiters : waiters[i] = q
        BY <2>2 DEF InLine, Queued
    <3>2. QED
        BY <1>1, <2>2, <3>1, RemoveFirstKeeps DEF Without
  <2>3. CASE ResumeCancelled(r)
    <3>1. /\ pc[r] = "cancelling" /\ pc' = [pc EXCEPT ![r] = "cancelled"]
          /\ UNCHANGED slots
        BY <2>3 DEF ResumeCancelled
    <3>2. QED
        BY <1>1, <1>3, <3>1
  <2> HIDE DEF ws
  <2>4. CASE ResumeAndStart(r)
    <3>1. pc[r] = "granted" /\ Adopt(WakeNext(Sem, ws), r, "awaiting")
        BY <2>4 DEF ResumeAndStart, Resumed, ws
    <3>2. IsSem(WakeNext(Sem, ws))
        BY <1>2, WakeNextConserves
    <3>3. "awaiting" \in Stages
        BY DEF Stages
    <3>4. \A q \in Requests : Sem.pc[q] = "queued" => \E i \in DOMAIN ws : ws[i] = q
        BY <1>2, <2>2, <3>1
    <3>5. QED
        BY <1>2, <2>1, <3>1, <3>2, <3>3, <3>4, AdoptFills
  <2>5. CASE ResumeAndFail(r)
    <3> DEFINE sem == WakeNext(Sem, ws)
               more == [sem EXCEPT !.free = @ + 1]
    <3>1. pc[r] = "granted" /\ Adopt(Release(sem, ws), r, "unstarted")
        BY <2>5 DEF ResumeAndFail, Resumed, ws
    <3>2. IsSem(sem) /\ OnlyGrants(pc, sem.pc)
        BY <1>2, WakeNextConserves
    <3>3. IsSem(more) /\ more.pc = sem.pc /\ Release(sem, ws) = WakeNext(more, ws)
      <4> HIDE DEF sem
      <4>1. QED
          BY <3>2 DEF IsSem, Release
    <3> HIDE DEF sem, more
    <3>4. \A q \in Requests : sem.pc[q] = "queued" => pc[q] = "queued"
        BY <3>2 DEF OnlyGrants
    <3>5. \A q \in Requests : more.pc[q] = "queued" => pc[q] = "queued"
        BY <3>3, <3>4
    <3>6. more.pc[r] # "queued"
        BY <3>1, <3>5
    <3>7. \A q \in Requests : more.pc[q] = "queued" => \E i \in DOMAIN ws : ws[i] = q
        BY <2>2, <3>5, <3>6
    <3>8. IsSem(WakeNext(more, ws))
        BY <1>2, <3>3, <3>5, WakeNextConserves
    <3>9. "unstarted" \in Stages
        BY DEF Stages, Ends
    <3>10. Adopt(WakeNext(more, ws), r, "unstarted")
        BY <3>1, <3>3
    <3>11. QED
        BY <2>1, <3>3, <3>6, <3>7, <3>8, <3>9, <3>10, AdoptFills
  <2>6. CASE ResumeRevoked(r)
    <3> DEFINE more == [Sem EXCEPT !.free = @ + 1]
    <3>1. pc[r] = "revoked" /\ Adopt(Release(Sem, ws), r, "cancelled")
        BY <2>6 DEF ResumeRevoked, HandBack, ws
    <3>2. IsSem(more) /\ more.pc = pc /\ Release(Sem, ws) = WakeNext(more, ws)
        BY <1>2 DEF IsSem, Release
    <3> HIDE DEF more
    <3>3. IsSem(WakeNext(more, ws))
        BY <1>2, <3>2, WakeNextConserves
    <3>4. "cancelled" \in Stages
        BY DEF Stages, Ends
    <3>5. \A q \in Requests : more.pc[q] = "queued" => \E i \in DOMAIN ws : ws[i] = q
        BY <2>2, <3>1, <3>2
    <3>6. Adopt(WakeNext(more, ws), r, "cancelled")
        BY <3>1, <3>2
    <3>7. QED
        BY <2>1, <3>1, <3>2, <3>3, <3>4, <3>5, <3>6, AdoptFills
  <2>7. QED
      BY <1>4, <2>3, <2>4, <2>5, <2>6 DEF Resume
<1>5. ASSUME NEW r \in Requests, Finished(r)
      PROVE  NoneIdle'
  <2> DEFINE more == [Sem EXCEPT !.free = @ + 1]
  <2>1. worker[r] \in Busy /\ Adopt(Release(Sem, waiters), r, pc[r])
      BY <1>5 DEF Finished, Busy
  <2>2. pc[r] # "queued" /\ pc[r] \in Stages
      BY <1>1, <1>2, <2>1
  <2>3. IsSem(more) /\ more.pc = pc /\ Release(Sem, waiters) = WakeNext(more, waiters)
      BY <1>2 DEF IsSem, Release
  <2> HIDE DEF more
  <2>4. IsSem(WakeNext(more, waiters))
      BY <1>2, <2>3, WakeNextConserves
  <2>5. \A q \in Requests : more.pc[q] = "queued" => \E i \in DOMAIN waiters : waiters[i] = q
      BY <2>3 DEF InLine, Queued
  <2>6. Adopt(WakeNext(more, waiters), r, pc[r])
      BY <2>1, <2>3
  <2>7. QED
      BY <1>1, <2>2, <2>3, <2>4, <2>5, <2>6, AdoptFills
<1>6. ASSUME NEW r \in Requests, Enqueue(r)
      PROVE  NoneIdle'
  <2>1. /\ Locked /\ UNCHANGED slots
        /\ pc[r] = "new" /\ pc' = [pc EXCEPT ![r] = "queued"]
      BY <1>6 DEF Enqueue, Admitted
  <2>2. \A q \in Requests : pc[q] \in {"granted", "revoked"} => pc'[q] = pc[q]
      BY <1>1, <2>1
  <2>3. ASSUME slots > 0
        PROVE  \E q \in Requests : pc[q] \in {"granted", "revoked"}
    <3>1. PICK i \in DOMAIN waiters : pc[waiters[i]] # "cancelling"
        BY <2>1, <2>3 DEF Locked
    <3>2. waiters[i] \in Requests /\ pc[waiters[i]] \in {"queued", "granted", "revoked"}
        BY <1>1, <3>1 DEF Line, Queued
    <3>3. QED
        BY <2>3, <3>2 DEF NoneIdle
  <2>4. QED
      BY <2>1, <2>2, <2>3 DEF NoneIdle
<1>7. ASSUME NEW r \in Requests, StartAtOnce(r)
      PROVE  NoneIdle'
  <2>1. ~Locked /\ pc' = [pc EXCEPT ![r] = "awaiting"]
      BY <1>7 DEF StartAtOnce
  <2>2. \A q \in Requests : pc[q] # "queued"
      BY <2>1 DEF Locked, InLine, Queued
  <2>3. \A q \in Requests : pc'[q] # "queued"
      BY <1>1, <2>1, <2>2
  <2>4. QED
      BY <2>3 DEF NoneIdle
<1>8. ASSUME NEW r \in Requests,
             \/ Refuse(r) \/ Reject(r) \/ FailAtOnce(r) \/ Answer(r) \/ Cancel(r)
             \/ Execute(r)
             \/ \E outcome \in {"returned", "raised"} : Complete(r, outcome)
      PROVE  NoneIdle'
  <2>1. UNCHANGED slots
      BY <1>8 DEF Refuse, Reject, FailAtOnce, Cancel, Execute, Complete, Answer,
         PoolFrame, semaphore
  <2>2. \/ UNCHANGED pc
        \/ /\ pc[r] \in {"new", "awaiting"}
           /\ \E s \in Stages \ {"queued"} : pc' = [pc EXCEPT ![r] = s]
        \/ /\ pc[r] \in {"queued", "granted"}
           /\ pc' = [pc EXCEPT ![r] = CancelledStage(pc[r])]
      BY <1>8 DEF Refuse, Reject, FailAtOnce, Cancel, CancelledStage, Execute,
         Complete, Answer, PoolFrame, Admitted, Stages, Ends
  <2>3. \A q \in Requests : /\ pc'[q] = "queued" => pc[q] = "queued"
                            /\ pc[q] \in {"granted", "revoked"}
                                   => pc'[q] \in {"granted", "revoked"}
      BY <1>1, <2>2 DEF CancelledStage
  <2>4. QED
      BY <1>3, <2>1, <2>3
<1>9. CASE Close \/ CloseDrained \/ CloseStopped \/ UNCHANGED vars
  <2>1. UNCHANGED <<pc, slots>>
      BY <1>9 DEF Close, CloseDrained, CloseStopped, CloseFrame, vars, semaphore
  <2>2. QED
      BY <1>3, <2>1
<1>10. QED
    BY <1>4, <1>5, <1>6, <1>7, <1>8, <1>9 DEF Next

-----------------------------------------------------------------------------
(* What the executor guarantees *)

\* Every variable of the executor keeps its type; the free slots never exceed
\* the workers and no counter goes below zero.
THEOREM TypeCorrect == Spec => []TypeOK
  BY AlwaysIInv, PTL DEF IInv

\* However hand-over, cancellation, failed submission and completion overlap,
\* a slot is free, or in the hands of a woken waiter, or of a running build.
THEOREM SlotsNeverLost == Spec => []SlotsConserved
  BY AlwaysIInv, PTL DEF IInv

\* The counters and tickets of admission and of GET /v1/status are those of
\* the requests really queued and really running.
THEOREM CountersTell == Spec => []AccountingExact
  BY AlwaysIInv, PTL DEF IInv

\* Slots and counters are exact together, in every state.
THEOREM CountsAlwaysExact == Spec => []CountsExact
  BY SlotsNeverLost, CountersTell, PTL DEF CountsExact

\* However requests leave, the byte budget is charged with the contexts of
\* those that are in, and each of the others is in exactly one total.
THEOREM StatusAddsUp == Spec => []TotalsExact
<1>1. IInv /\ TotalsExact /\ [Next]_vars => (IInv /\ TotalsExact)'
    BY IInvStep, TotalsStep
<1>2. QED
    BY <1>1, IInvInit, TotalsInit, PTL DEF Spec

\* A newcomer never starts while an earlier request waits for a slot or was
\* handed one: the deque holds every suspended run(), and locked() looks there.
THEOREM NobodyOvertakes == Spec => NoOvertaking
<1> DEFINE Fair == \A r \in Requests :
                      pc[r] = "new" /\ pc'[r] = "awaiting" =>
                          \A q \in Requests : pc[q] \notin {"queued", "granted"}
<1>1. Init => InLine
    BY DEF Init, InLine, Queued
<1>2. IInv /\ InLine /\ [Next]_vars => (IInv /\ InLine)'
    BY IInvStep, InLineStep
<1>3. IInv /\ InLine /\ [Next]_vars => [Fair]_vars
    BY NobodyWaits
<1> HIDE DEF Fair
<1>4. Spec => [][Fair]_vars
    BY <1>1, <1>2, <1>3, IInvInit, PTL DEF Spec
<1>5. QED
    BY <1>4 DEF Fair, NoOvertaking

\* A slot that is free is on its way to who waits for it: however releases,
\* cancellations and newcomers overlap, whenever run()s are pending in acquire()
\* and a slot is free, one that was woken has yet to resume, and hands on what it
\* leaves.  Without it a build could wait for good beside an idle worker.
THEOREM SlotsAreHandedOn == Spec => []NoneIdle
<1>1. Init => InLine /\ Line /\ NoneIdle
    BY DEF Init, InLine, Line, NoneIdle, Queued
<1>2. QED
    BY <1>1, InLineStep, LineStep, NoneIdleStep, AlwaysIInv, PTL DEF Spec

\* Once close() stopped waiting, nothing is queued or running.
THEOREM CloseDrains == Spec => []ShutdownDrains
  BY AlwaysIInv, PTL DEF IInv

\* A busy build holds a slot.
LEMMA BusyHold ==
    /\ BusySet \subseteq HoldingSet
    /\ Cardinality(BusySet) \in Nat /\ Cardinality(HoldingSet) \in Nat
    /\ Cardinality(BusySet) <= Cardinality(HoldingSet)
<1>1. BusySet \subseteq HoldingSet /\ HoldingSet \subseteq Requests
    BY DEF BusySet, HoldingSet
<1>2. QED
    BY <1>1, Finite, FS_Subset

\* What is admitted, what runs and the bytes they hold stay within limits.
THEOREM LimitsHold == Spec => []WithinLimits
<1>1. IInv => WithinLimits
  <2> SUFFICES ASSUME IInv PROVE WithinLimits
      OBVIOUS
  <2>1. Cardinality(BusySet) <= NumWorkers
      BY BusyHold, BuildExecutorAssumption DEF IInv, TypeOK, SlotsConserved
  <2>2. QED
      BY <2>1 DEF IInv, AccountingExact, Limits, WithinLimits
<1>2. QED
    BY <1>1, AlwaysIInv, PTL

\* The event loop has something to resume for r, or the pool something to do.
CanMove(r) ==
    \/ pc[r] \in {"granted", "cancelling", "revoked"}
    \/ worker[r] = "submitted" /\ Cardinality(Threads) < NumWorkers
    \/ worker[r] \in {"executing", "returned", "raised"}

\* The queue and the pool never wait on each other: as long as a build is
\* admitted, the loop or a thread has a step to take for one of them, for any
\* number of workers and places in the queue.
THEOREM NeverStuck == Spec => [](AdmittedSet # {} => \E r \in Requests : CanMove(r))
<1>1. ASSUME IInv, NoneIdle, NEW q \in AdmittedSet
      PROVE  \E r \in Requests : CanMove(r)
  <2>1. CASE \E r \in Requests : worker[r] \in Busy
    <3>1. PICK r \in Requests : worker[r] \in Busy
        BY <2>1
    <3>2. CASE worker[r] = "submitted"
      <4>1. Threads \subseteq BusySet \ {r} /\ r \in BusySet
          BY <3>1, <3>2 DEF Threads, BusySet, Busy
      <4>2. IsFiniteSet(BusySet) /\ BusySet \subseteq HoldingSet /\ IsFiniteSet(HoldingSet)
          BY Finite DEF BusySet, HoldingSet
      <4>3. Cardinality(BusySet \ {r}) = Cardinality(BusySet) - 1
          BY <4>1, <4>2, FS_RemoveElement
      <4>4. /\ Cardinality(Threads) <= Cardinality(BusySet \ {r})
            /\ Cardinality(BusySet) <= Cardinality(HoldingSet)
        <5>1. IsFiniteSet(BusySet \ {r})
            BY <4>2, FS_RemoveElement
        <5>2. QED
            BY <4>1, <4>2, <5>1, FS_Subset
      <4>5. /\ Cardinality(Threads) \in Nat /\ Cardinality(BusySet) \in Nat
            /\ Cardinality(BusySet \ {r}) \in Nat /\ Cardinality(HoldingSet) \in Nat
          BY Finite DEF Threads, BusySet, HoldingSet
      <4>6. slots \in Nat /\ slots + Cardinality(HoldingSet) = NumWorkers
          BY <1>1, BuildExecutorAssumption DEF IInv, TypeOK, SlotsConserved
      <4>7. Cardinality(Threads) < NumWorkers
          BY <4>3, <4>4, <4>5, <4>6, BuildExecutorAssumption
      <4>8. QED
          BY <3>2, <4>7 DEF CanMove
    <3>3. QED
        BY <3>1, <3>2 DEF CanMove, Busy
  <2>2. CASE \A r \in Requests : worker[r] \notin Busy
    <3>1. q \in Requests /\ pc[q] \in Queued
        BY <1>1, <2>2 DEF AdmittedSet
    <3>2. CASE pc[q] # "queued"
        BY <3>1, <3>2 DEF Queued, CanMove
    <3>3. CASE pc[q] = "queued" /\ HoldingSet = {}
      <4>1. slots = NumWorkers
          BY <1>1, <3>3, FS_EmptySet, BuildExecutorAssumption DEF IInv, TypeOK, SlotsConserved
      <4>2. slots > 0
          BY <4>1, BuildExecutorAssumption
      <4>3. QED
          BY <1>1, <3>1, <3>3, <4>2 DEF NoneIdle, CanMove
    <3>4. CASE HoldingSet # {}
        BY <2>2, <3>4 DEF HoldingSet, CanMove
    <3>5. QED
        BY <3>2, <3>3, <3>4
  <2>3. QED
      BY <2>1, <2>2
<1>2. IInv /\ NoneIdle => (AdmittedSet # {} => \E r \in Requests : CanMove(r))
    BY <1>1
<1>3. QED
    BY <1>2, AlwaysIInv, SlotsAreHandedOn, PTL

-----------------------------------------------------------------------------
(* The executor implements BuildAdmission *)

\* The abstract state.
phase == [r \in Requests |-> Phase(r)]

LEMMA SameCardinality == \A S : Promise!Cardinality(S) = Cardinality(S)
  BY DEF Promise!Cardinality, Cardinality

LEMMA Counted ==
    /\ Promise!In({"waiting", "running"}) = AdmittedSet
    /\ Promise!In({"running"}) = BusySet
  BY DEF Promise!In, Phase, AdmittedSet, BusySet

\* A step of r moves its phase, or leaves every phase alone.
LEMMA Moves ==
    ASSUME NEW r \in Requests,
           \A q \in Requests \ {r} : Phase(q)' = Phase(q)
    PROVE  /\ Promise!Move(r, Phase(r), Phase(r)')
           /\ Phase(r)' = Phase(r) => UNCHANGED phase
<1>1. phase' = [phase EXCEPT ![r] = Phase(r)']
    BY DEF phase
<1>2. phase[r] = Phase(r)
    BY DEF phase
<1>3. Phase(r)' = Phase(r) => UNCHANGED phase
    BY DEF phase
<1>4. QED
    BY <1>1, <1>2, <1>3 DEF Promise!Move, phase

\* Whoever was not turned away finds room, and whoever holds a slot, or takes
\* a free one, finds a worker.
LEMMA RoomInside ==
    ASSUME IInv, NEW r \in Requests, ~Full(r)
    PROVE  Promise!HasRoom
<1>1. ~closed
    BY DEF Full
<1>2. pending < NumWorkers + QueueSize
    BY BuildExecutorAssumption DEF Full, IInv, TypeOK
<1>3. Cardinality(Promise!In({"waiting", "running"})) < NumWorkers + QueueSize
    BY <1>2, Counted DEF IInv, AccountingExact
<1>4. QED
    BY <1>1, <1>3, SameCardinality DEF Promise!HasRoom

LEMMA WorkerFree ==
    ASSUME IInv, slots > 0 \/ \E r \in HoldingSet : r \notin BusySet
    PROVE  Promise!HasWorker
<1>1. HoldingSet \subseteq Requests
    BY DEF HoldingSet
<1>2. (\E r \in HoldingSet : r \notin BusySet)
          => Cardinality(BusySet) < Cardinality(HoldingSet)
    BY <1>1, BusyHold, Room
<1>3. slots \in Nat /\ slots + Cardinality(HoldingSet) = NumWorkers
    BY BuildExecutorAssumption DEF IInv, TypeOK, SlotsConserved
<1>4. Cardinality(BusySet) < NumWorkers
    BY <1>2, <1>3, BusyHold, BuildExecutorAssumption
<1>5. Cardinality(Promise!In({"running"})) < NumWorkers
    BY <1>4, Counted
<1>6. QED
    BY <1>5, SameCardinality DEF Promise!HasWorker

\* The phases after a step of r that adopts sem.
LEMMA AdoptedPhases ==
    ASSUME IInv, NEW sem, IsSem(sem), OnlyGrants(pc, sem.pc),
           NEW r \in Requests, NEW stage \in Stages, Adopt(sem, r, stage),
           \A q \in Requests \ {r} : worker'[q] = worker[q]
    PROVE  /\ \A q \in Requests \ {r} : Phase(q)' = Phase(q)
           /\ pc'[r] = stage
<1>1. OthersSame(r) /\ pc'[r] = stage
    BY Adopted
<1>2. \A q \in Requests \ {r} :
          /\ worker'[q] = worker[q]
          /\ pc'[q] \in Queued <=> pc[q] \in Queued
          /\ pc'[q] = "new" <=> pc[q] = "new"
    BY <1>1 DEF OthersSame, Queued
<1>3. QED
    BY <1>1, <1>2 DEF Phase

LEMMA TurnedAwayStep ==
    ASSUME IInv, NEW r \in Requests, Refuse(r) \/ Reject(r) \/ FailAtOnce(r)
    PROVE  Promise!Leave(r)
<1>1. /\ pc[r] = "new" /\ worker[r] = "none"
      /\ pc'[r] \in {"refused", "rejected", "unstarted"}
      /\ UNCHANGED <<worker, closed>>
      /\ \A q \in Requests \ {r} : pc'[q] = pc[q]
    BY DEF Refuse, Reject, FailAtOnce, Admitted, shutdown, IInv, TypeOK, Consistent
<1>2. Phase(r) = "out" /\ Phase(r)' = "over"
    BY <1>1 DEF Phase, Busy, Queued
<1>3. \A q \in Requests \ {r} : Phase(q)' = Phase(q)
    BY <1>1 DEF Phase
<1>4. QED
    BY <1>1, <1>2, <1>3, Moves DEF Promise!Leave

LEMMA EnqueueStep ==
    ASSUME IInv, NEW r \in Requests, Enqueue(r)
    PROVE  Promise!Admit(r)
<1>1. /\ pc[r] = "new" /\ worker[r] = "none" /\ ~Full(r)
      /\ pc'[r] = "queued"
      /\ UNCHANGED <<worker, closed>>
      /\ \A q \in Requests \ {r} : pc'[q] = pc[q]
    BY DEF Enqueue, Admitted, shutdown, IInv, TypeOK, Consistent
<1>2. Phase(r) = "out" /\ Phase(r)' = "waiting"
    BY <1>1 DEF Phase, Busy, Queued
<1>3. \A q \in Requests \ {r} : Phase(q)' = Phase(q)
    BY <1>1 DEF Phase
<1>4. QED
    BY <1>1, <1>2, <1>3, Moves, RoomInside DEF Promise!Admit

LEMMA StartAtOnceStep ==
    ASSUME IInv, NEW r \in Requests, StartAtOnce(r)
    PROVE  Promise!AdmitAndStart(r)
<1>1. /\ pc[r] = "new" /\ worker[r] = "none" /\ ~Full(r) /\ ~Locked
      /\ pc'[r] = "awaiting" /\ worker'[r] = "submitted"
      /\ UNCHANGED closed
      /\ \A q \in Requests \ {r} : pc'[q] = pc[q] /\ worker'[q] = worker[q]
    BY DEF StartAtOnce, Submit, Admitted, shutdown, IInv, TypeOK, Consistent
<1>2. Phase(r) = "out" /\ Phase(r)' = "running"
    BY <1>1 DEF Phase, Busy, Queued
<1>3. \A q \in Requests \ {r} : Phase(q)' = Phase(q)
    BY <1>1 DEF Phase
<1>4. slots > 0
    BY <1>1, BuildExecutorAssumption DEF Locked, IInv, TypeOK
<1>5. QED
    BY <1>1, <1>2, <1>3, <1>4, Moves, RoomInside, WorkerFree
    DEF Promise!AdmitAndStart

LEMMA ResumeAndStartStep ==
    ASSUME IInv, NEW r \in Requests, ResumeAndStart(r)
    PROVE  Promise!Start(r)
<1>1. /\ pc[r] = "granted" /\ worker[r] = "none" /\ worker'[r] = "submitted"
      /\ UNCHANGED closed
      /\ \A q \in Requests \ {r} : worker'[q] = worker[q]
    BY DEF ResumeAndStart, Submit, shutdown, IInv, TypeOK, Consistent, Queued
<1>2. IsSem(Resumed(r)) /\ OnlyGrants(pc, Resumed(r).pc)
    BY CurrentSem, WakeNextConserves DEF Resumed
<1>3. Adopt(Resumed(r), r, "awaiting") /\ "awaiting" \in Stages
    BY DEF ResumeAndStart, Stages
<1>4. \A q \in Requests \ {r} : Phase(q)' = Phase(q)
    BY <1>1, <1>2, <1>3, AdoptedPhases
<1>5. Phase(r) = "waiting" /\ Phase(r)' = "running"
    BY <1>1 DEF Phase, Busy, Queued
<1>6. r \in HoldingSet /\ r \notin BusySet
    BY <1>1 DEF HoldingSet, BusySet, Busy
<1>7. QED
    BY <1>1, <1>4, <1>5, <1>6, Moves, WorkerFree DEF Promise!Start

\* A request that leaves the wait queue without a build.
LEMMA LeaveQueueStep ==
    ASSUME IInv, NEW r \in Requests, NEW sem, IsSem(sem), OnlyGrants(pc, sem.pc),
           NEW stage \in {"cancelled", "unstarted"}, Adopt(sem, r, stage),
           pc[r] \in Queued, worker[r] = "none", UNCHANGED <<worker, closed>>
    PROVE  Promise!Leave(r)
<1>1. stage \in Stages
    BY DEF Stages, Ends
<1>2. /\ \A q \in Requests \ {r} : Phase(q)' = Phase(q)
      /\ pc'[r] = stage
    BY <1>1, AdoptedPhases
<1>3. Phase(r) = "waiting" /\ Phase(r)' = "over"
    BY <1>2 DEF Phase, Busy, Queued
<1>4. QED
    BY <1>2, <1>3, Moves DEF Promise!Leave

LEMMA ResumeWithoutBuildStep ==
    ASSUME IInv, NEW r \in Requests,
           ResumeAndFail(r) \/ ResumeCancelled(r) \/ ResumeRevoked(r)
    PROVE  Promise!Leave(r)
<1>1. /\ pc[r] \in Queued /\ worker[r] = "none"
      /\ UNCHANGED <<worker, closed>>
    BY DEF ResumeAndFail, ResumeCancelled, ResumeRevoked, shutdown, IInv,
           Consistent, Queued
<1>2. CASE ResumeAndFail(r)
  <2> DEFINE first == Resumed(r)
             sem == Release(first, Without(r))
  <2>1. IsSem(first) /\ OnlyGrants(pc, first.pc)
      BY CurrentSem, WakeNextConserves DEF Resumed
  <2>2. Adopt(sem, r, "unstarted")
      BY <1>2 DEF ResumeAndFail
  <2> HIDE DEF first
  <2>3. \A q \in Requests : first.pc[q] = "queued" => worker[q] \notin Busy
      BY <2>1, CurrentSem DEF OnlyGrants
  <2>4. IsSem(sem) /\ OnlyGrants(first.pc, sem.pc)
      BY <2>1, <2>3, ReleaseAddsOne
  <2> HIDE DEF sem
  <2>5. OnlyGrants(pc, sem.pc)
      BY <2>1, <2>4 DEF OnlyGrants
  <2>6. QED
      BY <1>1, <2>2, <2>4, <2>5, LeaveQueueStep
<1>3. CASE ResumeCancelled(r)
  <2>1. IsSem(Sem) /\ Sem.pc = pc /\ Sem.free = slots
      BY CurrentSem
  <2>2. OnlyGrants(pc, Sem.pc) /\ Adopt(Sem, r, "cancelled")
      BY <1>3, <2>1 DEF ResumeCancelled, OnlyGrants, Adopt
  <2>3. QED
      BY <1>1, <2>1, <2>2, LeaveQueueStep
<1>4. CASE ResumeRevoked(r)
  <2>1. IsSem(HandBack(r)) /\ OnlyGrants(pc, HandBack(r).pc)
      BY CurrentSem, ReleaseAddsOne DEF HandBack
  <2>2. Adopt(HandBack(r), r, "cancelled")
      BY <1>4 DEF ResumeRevoked
  <2>3. QED
      BY <1>1, <2>1, <2>2, LeaveQueueStep
<1>5. QED
    BY <1>2, <1>3, <1>4

LEMMA FinishedStep ==
    ASSUME IInv, NEW r \in Requests, Finished(r)
    PROVE  Promise!Leave(r)
<1> DEFINE sem == Release(Sem, waiters)
<1>1. /\ pc[r] \in {"awaiting", "detached"} /\ worker[r] \in Busy
      /\ worker'[r] \in {"ok", "error"}
      /\ UNCHANGED closed
      /\ \A q \in Requests \ {r} : worker'[q] = worker[q]
    BY DEF Finished, shutdown, IInv, TypeOK, Consistent, Busy
<1>2. IsSem(sem) /\ OnlyGrants(pc, sem.pc)
    BY CurrentSem, ReleaseAddsOne
<1>3. Adopt(sem, r, pc[r]) /\ pc[r] \in Stages
    BY DEF Finished, IInv, TypeOK
<1> HIDE DEF sem
<1>4. /\ \A q \in Requests \ {r} : Phase(q)' = Phase(q)
      /\ pc'[r] = pc[r]
    BY <1>1, <1>2, <1>3, AdoptedPhases
<1>5. Phase(r) = "running" /\ Phase(r)' = "over"
    BY <1>1, <1>4 DEF Phase, Busy, Queued
<1>6. QED
    BY <1>1, <1>4, <1>5, Moves DEF Promise!Leave

\* Cancellation, the threads of the pool and the answer move no phase.
LEMMA QuietStep ==
    ASSUME IInv, NEW r \in Requests,
           \/ Cancel(r)
           \/ Execute(r)
           \/ \E outcome \in {"returned", "raised"} : Complete(r, outcome)
           \/ Answer(r)
    PROVE  UNCHANGED <<phase, closed>>
<1>1. /\ UNCHANGED closed
      /\ \A q \in Requests \ {r} : pc'[q] = pc[q] /\ worker'[q] = worker[q]
    BY DEF Cancel, Execute, Complete, Answer, PoolFrame, shutdown, IInv, TypeOK
<1>2. CASE Cancel(r)
  <2>1. /\ pc[r] \in Queued <=> pc'[r] \in Queued
        /\ pc[r] # "new" /\ pc'[r] # "new"
        /\ worker'[r] = worker[r]
      BY <1>2 DEF Cancel, CancelledStage, IInv, TypeOK, Queued
  <2>2. QED
      BY <1>1, <2>1, Moves DEF Phase
<1>3. CASE \/ Execute(r)
           \/ \E outcome \in {"returned", "raised"} : Complete(r, outcome)
  <2>1. worker[r] \in Busy /\ worker'[r] \in Busy
      BY <1>3 DEF Execute, Complete, Busy, IInv, TypeOK
  <2>2. QED
      BY <1>1, <2>1, Moves DEF Phase
<1>4. CASE Answer(r)
  <2>1. /\ pc[r] = "awaiting" /\ pc'[r] = "answered"
        /\ worker'[r] = worker[r]
      BY <1>4 DEF Answer, IInv, TypeOK
  <2>2. Phase(r)' = Phase(r)
      BY <2>1 DEF Phase, Queued
  <2>3. QED
      BY <1>1, <2>2, Moves DEF Phase
<1>5. QED
    BY <1>2, <1>3, <1>4

LEMMA PromiseStep ==
    ASSUME IInv, [Next]_vars
    PROVE  [Promise!Next]_<<phase, closed>>
<1>1. ASSUME NEW r \in Requests,
             \/ Refuse(r) \/ Reject(r) \/ StartAtOnce(r) \/ FailAtOnce(r)
             \/ Enqueue(r) \/ Resume(r) \/ Finished(r)
      PROVE  Promise!Next
    BY <1>1, TurnedAwayStep, EnqueueStep, StartAtOnceStep, ResumeAndStartStep,
       ResumeWithoutBuildStep, FinishedStep DEF Resume, Promise!Next
<1>2. ASSUME NEW r \in Requests,
             \/ Cancel(r)
             \/ Execute(r)
             \/ \E outcome \in {"returned", "raised"} : Complete(r, outcome)
             \/ Answer(r)
      PROVE  UNCHANGED <<phase, closed>>
    BY <1>2, QuietStep
<1>3. CASE Close
  <2>1. UNCHANGED <<pc, worker>> /\ closed' = TRUE
      BY <1>3 DEF Close, CloseFrame
  <2>2. Promise!Close
      BY <2>1 DEF Promise!Close, phase, Phase
  <2>3. QED
      BY <2>2 DEF Promise!Next
<1>4. CASE CloseDrained \/ CloseStopped \/ UNCHANGED vars
  <2>1. UNCHANGED <<pc, worker, closed>>
      BY <1>4 DEF CloseDrained, CloseStopped, CloseFrame, vars, shutdown
  <2>2. QED
      BY <2>1 DEF phase, Phase
<1>5. QED
    BY <1>1, <1>2, <1>3, <1>4 DEF Next

\* Whatever the executor does, seen from outside, is what BuildAdmission lets
\* happen: admissions within the capacity, starts within the workers, a running
\* build that ends only when its worker is done, and a closed door.
THEOREM KeepsPromise == Spec => ImplementsAdmission
<1>1. Init => Promise!Init
  <2>1. ASSUME Init, NEW r \in Requests PROVE Phase(r) = "out"
      BY <2>1 DEF Init, Phase, Busy, Queued
  <2>2. QED
      BY <2>1 DEF Promise!Init, Init
<1>2. IInv /\ [Next]_vars => [Promise!Next]_<<phase, closed>>
    BY PromiseStep
<1>3. QED
    BY <1>1, <1>2, AlwaysIInv, PTL DEF Spec, ImplementsAdmission, Promise!Spec, phase
=============================================================================
