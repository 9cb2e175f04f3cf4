------------------------ MODULE SandboxService_proofs ------------------------
(* Safety of SandboxService for any set of sandboxes and request threads.    *)
EXTENDS SandboxService, TLAPS

\* A delete that is past the removal, about to collect images or to drop the
\* record, has a container that is gone.
RemovalFirst ==
    \A a \in Actors : at[a] \in {"collect", "drop"} => container[target[a]] \in Gone

\* create() has no container before the daemon made one and none when it
\* failed cleanly; one it succeeded with is not removed before it has a record.
ContainerFollowsCreate ==
    \A s \in Sandboxes :
        /\ create[s] \in {"new", "preparing"} => container[s] = "none"
        /\ create[s] = "failed" => container[s] # "up"
        /\ create[s] \in {"registering", "served"} => container[s] # "none"
        /\ create[s] = "registering" => container[s] # "removed"

\* What has a record, is being deleted or is due in a sweep was served before,
\* so its deadline is fixed.
KnownWasServed ==
    /\ \A s \in records \cup due : create[s] = "served"
    /\ \A a \in Actors : at[a] # "idle" => create[target[a]] = "served"

\* The sweep works only on sandboxes that were past their deadline when it
\* listed them, and still are.
SweepsOverdue ==
    /\ \A s \in due : Expired(s)
    /\ at[Sweeper] # "idle" => Expired(target[Sweeper])

IInv ==
    /\ TypeOK
    /\ Accounted
    /\ RemovalFirst
    /\ ContainerFollowsCreate
    /\ KnownWasServed
    /\ SweepsOverdue
    /\ MissingIsGone

-----------------------------------------------------------------------------
\* Type correctness of the initial state and of every step.
LEMMA TypingInit == Init => TypeOK
  BY SandboxServiceAssumption
     DEF Init, TypeOK, Actors, InFlight, Ended, Gone

LEMMA TypingNext == TypeOK /\ [Next]_vars => TypeOK'
<1> SUFFICES ASSUME TypeOK, [Next]_vars
             PROVE  TypeOK'
    OBVIOUS
<1> USE SandboxServiceAssumption
    DEF TypeOK, Actors, InFlight, Ended, Gone, creation, deletion, listing
<1>1. CASE Tick
    BY <1>1 DEF Tick
<1>2. ASSUME NEW s \in Sandboxes, Create(s)
      PROVE  TypeOK'
    BY <1>2 DEF Create, Accept, PrepareFails, ContainerCreated, CreateUnanswered,
         StartOk, StartFails, StartUnanswered, CleanedUp, CleanUpFails, Register,
         Reach, SetContainer, CreateFrame
<1>3. ASSUME NEW a \in Deleters, NEW s \in Sandboxes, DeleteRequested(a, s)
      PROVE  TypeOK'
    BY <1>3 DEF DeleteRequested, DeleteFrame
<1>4. ASSUME NEW a \in Actors, DeleteStep(a)
      PROVE  TypeOK'
    BY <1>4 DEF DeleteStep, GetFound, FindMissing, Removed, DaemonFails, Collected,
         CollectFails, Drop, Goto, Return, Raise, SetContainer, DeleteFrame
<1>5. CASE SweepWake
    BY <1>5 DEF SweepWake, Due
<1>6. ASSUME NEW s \in Sandboxes, SweepNext(s)
      PROVE  TypeOK'
    BY <1>6 DEF SweepNext
<1>7. CASE ListBegin
    BY <1>7 DEF ListBegin, ListFrame
<1>8. ASSUME NEW s \in Sandboxes, ListInspect(s)
      PROVE  TypeOK'
    BY <1>8 DEF ListInspect, ListFrame
<1>9. CASE ListFails
    BY <1>9 DEF ListFails, ListFrame
<1>10. ASSUME NEW s \in Sandboxes, ExternalRemove(s)
       PROVE  TypeOK'
    BY <1>10 DEF ExternalRemove, SetContainer
<1>11. CASE Restart
    BY <1>11 DEF Restart, AfterRestart
<1>12. CASE UNCHANGED vars
    BY <1>12 DEF vars
<1>13. QED
    BY <1>1, <1>2, <1>3, <1>4, <1>5, <1>6, <1>7, <1>8, <1>9, <1>10, <1>11, <1>12
    DEF Next

\* The variables of the service keep their types.
THEOREM TypeCorrect == Spec => []TypeOK
  BY TypingInit, TypingNext, PTL DEF Spec

-----------------------------------------------------------------------------
LEMMA IInvInit == Init => IInv
<1> SUFFICES ASSUME Init PROVE IInv
    OBVIOUS
<1>1. TypeOK
    BY TypingInit
<1>2. QED
    BY <1>1 DEF Init, IInv, Accounted, RemovalFirst, ContainerFollowsCreate,
                KnownWasServed, SweepsOverdue, MissingIsGone, Actors

\* Steps of create() change the sandbox they work on and, at the end, add its
\* record; no delete or sweep is concerned with a sandbox that is not accepted.
LEMMA CreateKeepsIInv ==
    ASSUME IInv, TypeOK', NEW s \in Sandboxes, Create(s)
    PROVE  IInv'
<1> USE SandboxServiceAssumption
    DEF IInv, TypeOK, Accounted, RemovalFirst, ContainerFollowsCreate,
        KnownWasServed, SweepsOverdue, MissingIsGone, Actors, InFlight, Ended, Gone,
        Expired, HasDeadline, Deadline, EffectiveTTL,
        creation, deletion, listing, CreateFrame, Reach, SetContainer
<1>1. ASSUME NEW seconds \in TTLs, Accept(s, seconds)
      PROVE  IInv'
    BY <1>1 DEF Accept
<1>2. CASE PrepareFails(s)
    BY <1>2 DEF PrepareFails
<1>3. CASE ContainerCreated(s)
    BY <1>3 DEF ContainerCreated
<1>4. CASE CreateUnanswered(s)
    BY <1>4 DEF CreateUnanswered
<1>5. CASE StartOk(s)
    BY <1>5 DEF StartOk
<1>6. CASE StartFails(s)
    BY <1>6 DEF StartFails
<1>7. CASE StartUnanswered(s)
    BY <1>7 DEF StartUnanswered
<1>8. CASE CleanedUp(s)
    BY <1>8 DEF CleanedUp
<1>9. CASE CleanUpFails(s)
    BY <1>9 DEF CleanUpFails
<1>10. CASE Register(s)
    BY <1>10 DEF Register
<1>11. QED
    BY <1>1, <1>2, <1>3, <1>4, <1>5, <1>6, <1>7, <1>8, <1>9, <1>10 DEF Create

\* Steps of delete(), by whichever actor: the container goes before the record.
LEMMA DeleteKeepsIInv ==
    ASSUME IInv, TypeOK', NEW a \in Actors, DeleteStep(a)
    PROVE  IInv'
<1> USE SandboxServiceAssumption
    DEF IInv, TypeOK, Accounted, RemovalFirst, ContainerFollowsCreate,
        KnownWasServed, SweepsOverdue, MissingIsGone, InFlight, Ended, Gone,
        Expired, HasDeadline, Deadline, EffectiveTTL,
        creation, listing, DeleteFrame, Goto, Return, Raise, SetContainer
<1>1. CASE GetFound(a)
    BY <1>1 DEF GetFound
<1>2. CASE FindMissing(a)
    BY <1>2 DEF FindMissing
<1>3. CASE Removed(a)
    BY <1>3 DEF Removed
<1>4. CASE DaemonFails(a)
    BY <1>4 DEF DaemonFails
<1>5. CASE Collected(a)
    BY <1>5 DEF Collected
<1>6. CASE CollectFails(a)
    BY <1>6 DEF CollectFails
<1>7. CASE Drop(a)
    BY <1>7 DEF Drop
<1>8. QED
    BY <1>1, <1>2, <1>3, <1>4, <1>5, <1>6, <1>7 DEF DeleteStep

LEMMA IInvNext == IInv /\ [Next]_vars => IInv'
<1> SUFFICES ASSUME IInv, [Next]_vars
             PROVE  IInv'
    OBVIOUS
<1>0. TypeOK'
    BY TypingNext DEF IInv
<1> USE SandboxServiceAssumption
    DEF IInv, TypeOK, Accounted, RemovalFirst, ContainerFollowsCreate,
        KnownWasServed, SweepsOverdue, MissingIsGone, InFlight, Ended, Gone,
        Expired, HasDeadline, Deadline, EffectiveTTL, creation, deletion, listing
<1>1. CASE Tick
  <2>1. ASSUME NEW s \in Sandboxes, Expired(s)
        PROVE  Expired(s)'
    <3>1. /\ now' = now + 1
          /\ UNCHANGED <<created_at, ttl>>
        BY <1>1 DEF Tick
    <3>2. Deadline(s) \in Int
        OBVIOUS
    <3>3. Deadline(s)' = Deadline(s) /\ HasDeadline(s)' = HasDeadline(s)
        BY <3>1
    <3>4. QED
        BY <2>1, <3>1, <3>2, <3>3
  <2>2. SweepsOverdue'
      BY <1>1, <2>1 DEF Tick, Actors
  <2>3. /\ Accounted' /\ RemovalFirst' /\ ContainerFollowsCreate'
        /\ KnownWasServed' /\ MissingIsGone'
      BY <1>1 DEF Tick
  <2>4. QED
      BY <1>0, <2>2, <2>3
<1>2. ASSUME NEW s \in Sandboxes, Create(s)
      PROVE  IInv'
    BY <1>0, <1>2, CreateKeepsIInv
<1>3. ASSUME NEW a \in Deleters, NEW s \in Sandboxes, DeleteRequested(a, s)
      PROVE  IInv'
    BY <1>0, <1>3 DEF DeleteRequested, DeleteFrame, Actors
<1>4. ASSUME NEW a \in Actors, DeleteStep(a)
      PROVE  IInv'
    BY <1>0, <1>4, DeleteKeepsIInv
<1>5. CASE SweepWake
    BY <1>0, <1>5 DEF SweepWake, Due
<1>6. ASSUME NEW s \in Sandboxes, SweepNext(s)
      PROVE  IInv'
    BY <1>0, <1>6 DEF SweepNext, Actors
<1>7. CASE ListBegin
    BY <1>0, <1>7 DEF ListBegin, ListFrame
<1>8. ASSUME NEW s \in Sandboxes, ListInspect(s)
      PROVE  IInv'
    BY <1>0, <1>8 DEF ListInspect, ListFrame
<1>9. CASE ListFails
    BY <1>0, <1>9 DEF ListFails, ListFrame
<1>10. ASSUME NEW s \in Sandboxes, ExternalRemove(s)
       PROVE  IInv'
    BY <1>0, <1>10 DEF ExternalRemove, SetContainer
<1>11. CASE Restart
    BY <1>0, <1>11 DEF Restart, AfterRestart, Actors
<1>12. CASE UNCHANGED vars
    BY <1>0, <1>12 DEF vars
<1>13. QED
    BY <1>1, <1>2, <1>3, <1>4, <1>5, <1>6, <1>7, <1>8, <1>9, <1>10, <1>11, <1>12
    DEF Next

LEMMA Invariance == Spec => []IInv
  BY IInvInit, IInvNext, PTL DEF Spec

\* No served container is ever up without a record in the broker that served
\* it, for any number of sandboxes and request threads.
THEOREM AlwaysAccounted == Spec => []Accounted
<1>1. IInv => Accounted
    BY DEF IInv
<1>2. QED
    BY <1>1, Invariance, PTL

\* What a listing called missing never comes back.
THEOREM MissingStaysGone == Spec => []MissingIsGone
<1>1. IInv => MissingIsGone
    BY DEF IInv
<1>2. QED
    BY <1>1, Invariance, PTL

\* What the sweep takes for expired has had the lifetime it was promised, also
\* when the request names none or the default is 0.
LEMMA ExpiredIsOver ==
    ASSUME TypeOK, NEW s \in Sandboxes, Expired(s)
    PROVE  LifeIsOver(s)
  BY SandboxServiceAssumption DEF TypeOK, Expired, HasDeadline, Deadline, EffectiveTTL, LifeIsOver

\* The sweep never takes a sandbox before its deadline: a container the broker
\* removes early was removed for a client's DELETE or after a failed start.
THEOREM EarlyRemovalIsRequested == Spec => RemovedEarlyOnlyOnRequest
<1> DEFINE Early(s) == /\ container[s] = "up"
                       /\ container'[s] = "removed"
                       /\ ~LifeIsOver(s)
           Requested(s) == \/ create[s] = "cleaning"
                           \/ \E a \in Deleters : at[a] = "remove" /\ target[a] = s
<1>1. ASSUME IInv, Next, NEW s \in Sandboxes, Early(s)
      PROVE  Requested(s)
  <2> USE <1>1 DEF IInv, TypeOK, creation, deletion, listing, SetContainer
  <2>1. CASE \E t \in Sandboxes : Create(t)
      BY <2>1 DEF Create, Accept, PrepareFails, ContainerCreated, CreateUnanswered,
           StartOk, StartFails, StartUnanswered, CleanedUp, CleanUpFails, Register,
           CreateFrame
  <2>2. ASSUME NEW a \in Actors, DeleteStep(a)
        PROVE  Requested(s)
    <3>1. Removed(a) /\ target[a] = s
        BY <2>2 DEF DeleteStep, GetFound, FindMissing, Removed, DaemonFails, Collected,
             CollectFails, Drop
    <3>2. a # Sweeper
        BY <3>1, ExpiredIsOver DEF Removed, SweepsOverdue
    <3>3. QED
        BY <3>1, <3>2 DEF Removed, Actors
  <2>3. CASE UNCHANGED container
      BY <2>3
  <2>4. CASE \E t \in Sandboxes : ExternalRemove(t)
      BY <2>4 DEF ExternalRemove
  <2>5. QED
      BY <2>1, <2>2, <2>3, <2>4 DEF Next, Tick, DeleteRequested, SweepWake, SweepNext,
           ListBegin, ListInspect, ListFails, ListFrame, Restart
<1>2. IInv /\ [Next]_vars => [\A s \in Sandboxes : Early(s) => Requested(s)]_vars
    BY <1>1
<1>3. QED
    BY <1>2, Invariance, PTL DEF Spec, RemovedEarlyOnlyOnRequest

-----------------------------------------------------------------------------
(* The service implements SandboxLease *)

lease == <<phase, deleting, overdue>>

\* A step that concerns s alone moves its phase.
LEMMA PhaseMoves ==
    ASSUME NEW s \in Sandboxes, NEW from, Phase(s) \in from,
           \A t \in Sandboxes \ {s} : Phase(t)' = Phase(t)
    PROVE  Promise!Move(s, from, Phase(s)')
  BY DEF phase, Promise!Move

LEMMA PhasesStay ==
    ASSUME \A t \in Sandboxes : Phase(t)' = Phase(t)
    PROVE  UNCHANGED phase
  BY DEF phase

\* The deadlines do not move while the clock stands, except that a creation
\* which has just begun gets one that is still to come.
LEMMA OverdueStays ==
    ASSUME TypeOK, UNCHANGED <<now, created_at, ttl>>,
           \A t \in Sandboxes : create'[t] = "new" <=> create[t] = "new"
    PROVE  UNCHANGED overdue
  BY DEF overdue, Expired, HasDeadline, Deadline, EffectiveTTL

LEMMA FreshNotOverdue ==
    ASSUME TypeOK, NEW s \in Sandboxes, NEW seconds \in TTLs, Accept(s, seconds)
    PROVE  UNCHANGED overdue
<1> USE SandboxServiceAssumption
    DEF Accept, Reach, TypeOK, Expired, HasDeadline, Deadline, EffectiveTTL
<1>1. ~Expired(s)'
    OBVIOUS
<1>2. \A t \in Sandboxes \ {s} : Expired(t)' = Expired(t) /\ create'[t] = create[t]
    OBVIOUS
<1>3. QED
    BY <1>1, <1>2 DEF overdue

\* A step of create() begins, fails or serves, or is not seen by the client.
LEMMA CreateStep ==
    ASSUME IInv, NEW s \in Sandboxes, Create(s)
    PROVE  Promise!Lifecycle(s) \/ UNCHANGED lease
<1> USE DEF IInv, TypeOK, creation, deletion, listing, CreateFrame, Reach, SetContainer
<1>1. /\ UNCHANGED <<at, target>>
      /\ UNCHANGED deleting
      /\ \A t \in Sandboxes \ {s} :
            /\ create'[t] = create[t]
            /\ container'[t] = container[t]
            /\ t \in records' <=> t \in records
    BY DEF Create, Accept, PrepareFails, ContainerCreated, CreateUnanswered, StartOk,
           StartFails, StartUnanswered, CleanedUp, CleanUpFails, Register, deleting
<1>2. \A t \in Sandboxes \ {s} : Phase(t)' = Phase(t)
    BY <1>1 DEF Phase
<1>3. ASSUME NEW seconds \in TTLs, Accept(s, seconds)
      PROVE  Promise!Begin(s)
  <2>1. Phase(s) \in {"new"} /\ Phase(s)' = "creating"
      BY <1>3 DEF Accept, Phase, InFlight
  <2>2. UNCHANGED overdue
      BY <1>3, FreshNotOverdue
  <2>3. QED
      BY <1>1, <1>2, <2>1, <2>2, PhaseMoves DEF Promise!Begin
<1>4. ASSUME ~ \E seconds \in TTLs : Accept(s, seconds)
      PROVE  /\ UNCHANGED overdue
             /\ Phase(s) \in {"creating"}
             /\ Phase(s)' \in {"creating", "failed", "lost", "ready", "vanished"}
  <2>1. /\ create[s] \in InFlight
        /\ create'[s] \in InFlight \cup {"failed", "abandoned", "served"}
        /\ create'[s] = "served" => Register(s)
        /\ UNCHANGED <<now, created_at, ttl>>
      BY <1>4 DEF Create, PrepareFails, ContainerCreated, CreateUnanswered, StartOk,
           StartFails, StartUnanswered, CleanedUp, CleanUpFails, Register, InFlight
  <2>2. UNCHANGED overdue
      BY <1>1, <2>1, OverdueStays DEF InFlight
  <2>3. Register(s) => Phase(s)' \in {"ready", "vanished"}
      BY DEF Register, Phase, InFlight, Gone, ContainerFollowsCreate
  <2>4. QED
      BY <2>1, <2>2, <2>3 DEF Phase, InFlight
<1>5. CASE ~ \E seconds \in TTLs : Accept(s, seconds)
  <2>1. CASE Phase(s)' = "creating"
      BY <1>1, <1>2, <1>4, <1>5, <2>1, PhasesStay DEF lease
  <2>2. CASE Phase(s)' \in {"failed", "lost"}
      BY <1>1, <1>2, <1>4, <1>5, <2>2, PhaseMoves DEF Promise!Fail, Promise!Lifecycle
  <2>3. CASE Phase(s)' \in {"ready", "vanished"}
      BY <1>1, <1>2, <1>4, <1>5, <2>3, PhaseMoves DEF Promise!Serve, Promise!Lifecycle
  <2>4. QED
      BY <1>4, <1>5, <2>1, <2>2, <2>3
<1>6. QED
    BY <1>3, <1>5 DEF Promise!Lifecycle

\* What is being deleted was served, so a step of delete() leaves every
\* deadline alone, and only the actor that takes it can end a DELETE.
LEMMA DeleteFrames ==
    ASSUME IInv, NEW a \in Actors, DeleteStep(a)
    PROVE  /\ target[a] \in Sandboxes
           /\ create[target[a]] = "served"
           /\ UNCHANGED <<now, creation, overdue>>
           /\ deleting' \in {deleting, deleting \ {target[a]}}
<1> USE DEF IInv, TypeOK, creation, listing, DeleteFrame
<1>1. /\ at[a] # "idle"
      /\ UNCHANGED <<now, created_at, ttl, create>>
    BY DEF DeleteStep, GetFound, FindMissing, Removed, DaemonFails, Collected,
           CollectFails, Drop
<1>2. target[a] \in Sandboxes /\ create[target[a]] = "served"
    BY <1>1 DEF KnownWasServed
<1>3. UNCHANGED overdue
    BY <1>1, OverdueStays
<1>4. \A d \in Actors \ {a} : at'[d] = at[d] /\ target'[d] = target[d]
    BY DEF DeleteStep, GetFound, FindMissing, Removed, DaemonFails, Collected,
           CollectFails, Drop, Goto, Return, Raise
<1>5. \/ at'[a] # "idle" /\ target'[a] = target[a]
      \/ at'[a] = "idle"
    BY DEF DeleteStep, GetFound, FindMissing, Removed, DaemonFails, Collected,
           CollectFails, Drop, Goto, Return, Raise
<1>6. deleting' \in {deleting, deleting \ {target[a]}}
  <2>1. \A s \in Sandboxes \ {target[a]} : s \in deleting' <=> s \in deleting
      BY <1>4, <1>5 DEF deleting, Actors
  <2>2. target[a] \in deleting' => target[a] \in deleting
      BY <1>1, <1>4, <1>5 DEF deleting, Actors
  <2>3. deleting \subseteq Sandboxes /\ deleting' \subseteq Sandboxes
      BY DEF deleting
  <2>4. CASE target[a] \in deleting'
      BY <2>1, <2>2, <2>3, <2>4
  <2>5. CASE target[a] \notin deleting'
      BY <2>1, <2>3, <2>5
  <2>6. QED
      BY <2>4, <2>5
<1>7. QED
    BY <1>1, <1>2, <1>3, <1>6

\* A container is removed for a client's DELETE or past its deadline.
LEMMA RemovedStep ==
    ASSUME IInv, NEW a \in Actors, Removed(a)
    PROVE  Promise!Remove(target[a])
<1> DEFINE s == target[a]
<1> USE DEF IInv, TypeOK, Removed, DeleteFrame, Goto, SetContainer, listing, creation
<1>1. DeleteStep(a)
    BY DEF DeleteStep
<1>2. /\ s \in Sandboxes /\ create[s] = "served"
      /\ UNCHANGED overdue
    BY <1>1, DeleteFrames
<1>3. UNCHANGED deleting
    BY DEF deleting, Actors
<1>4. s \in deleting \cup overdue
  <2>1. CASE a = Sweeper
      BY <1>2, <2>1 DEF SweepsOverdue, overdue
  <2>2. CASE a \in Deleters
      BY <1>2, <2>2 DEF deleting
  <2>3. QED
      BY <2>1, <2>2 DEF Actors
<1>5. s \in records
    BY <1>2 DEF Accounted, InFlight
<1>6. Phase(s) \in {"ready"} /\ Phase(s)' = "removed"
    BY <1>2, <1>5 DEF Phase, InFlight
<1>7. \A t \in Sandboxes \ {s} : Phase(t)' = Phase(t)
    BY <1>2 DEF Phase
<1>8. QED
    BY <1>2, <1>3, <1>4, <1>6, <1>7, PhaseMoves DEF Promise!Remove

\* The record is dropped when the container is gone.
LEMMA DropStep ==
    ASSUME IInv, NEW a \in Actors, NEW s \in Sandboxes, s = target[a], Drop(a)
    PROVE  Promise!Forget(s) \/ Promise!EndDelete(s) \/ UNCHANGED lease
<1> USE DEF IInv, TypeOK, Drop, DeleteFrame, Return, listing, creation
<1>1. DeleteStep(a)
    BY DEF DeleteStep
<1>2. /\ s \in Sandboxes /\ create[s] = "served"
      /\ UNCHANGED overdue
      /\ deleting' \in {deleting, deleting \ {s}}
    BY <1>1, DeleteFrames
<1>3. container[s] \in Gone
    BY DEF RemovalFirst
<1>4. \A t \in Sandboxes \ {s} : Phase(t)' = Phase(t)
    BY <1>2 DEF Phase
<1>5. Phase(s)' = "closed"
    BY <1>2 DEF Phase, InFlight
<1>6. CASE s \in records
  <2>1. Phase(s) \in {"removed", "vanished"}
      BY <1>2, <1>3, <1>6 DEF Phase, InFlight, Gone
  <2>2. QED
      BY <1>2, <1>4, <1>5, <2>1, PhaseMoves DEF Promise!Forget
<1>7. CASE s \notin records
  <2>1. Phase(s) = "closed"
      BY <1>2, <1>7 DEF Phase, InFlight
  <2>2. UNCHANGED phase
      BY <1>4, <1>5, <2>1, PhasesStay
  <2>3. QED
      BY <1>2, <2>2 DEF Promise!EndDelete, lease
<1>8. QED
    BY <1>6, <1>7

\* Every step of delete() removes, forgets, ends a DELETE, or is not seen.
LEMMA DeletionStep ==
    ASSUME IInv, NEW a \in Actors, DeleteStep(a)
    PROVE  (\E s \in Sandboxes : Promise!Lifecycle(s)) \/ UNCHANGED lease
<1>1. /\ target[a] \in Sandboxes
      /\ UNCHANGED <<now, creation, overdue>>
      /\ deleting' \in {deleting, deleting \ {target[a]}}
    BY DeleteFrames
<1>2. CASE Removed(a)
    BY <1>1, <1>2, RemovedStep DEF Promise!Lifecycle
<1>3. CASE Drop(a)
    BY <1>1, <1>3, DropStep DEF Promise!Lifecycle
<1>4. CASE \/ GetFound(a)
           \/ FindMissing(a)
           \/ DaemonFails(a)
           \/ Collected(a)
           \/ CollectFails(a)
  <2>1. UNCHANGED <<records, create, container>>
      BY <1>4 DEF GetFound, FindMissing, DaemonFails, Collected, CollectFails,
                  DeleteFrame, creation
  <2>2. UNCHANGED phase
      BY <2>1, PhasesStay DEF Phase
  <2>3. CASE deleting' = deleting
      BY <1>1, <2>2, <2>3 DEF lease
  <2>4. CASE deleting' = deleting \ {target[a]}
      BY <1>1, <2>2, <2>4 DEF Promise!EndDelete, Promise!Lifecycle
  <2>5. QED
      BY <1>1, <2>3, <2>4
<1>5. QED
    BY <1>2, <1>3, <1>4 DEF DeleteStep

LEMMA DeleteRequestedStep ==
    ASSUME IInv, NEW a \in Deleters, NEW s \in Sandboxes, DeleteRequested(a, s)
    PROVE  Promise!AskDelete(s)
<1> USE DEF IInv, TypeOK, DeleteRequested, DeleteFrame, creation, listing
<1>1. UNCHANGED overdue
    BY OverdueStays
<1>2. UNCHANGED phase
    BY PhasesStay DEF Phase
<1>3. phase[s] \in Promise!Known
    BY DEF phase, Phase, Promise!Known, Gone, InFlight, KnownWasServed,
           ContainerFollowsCreate
<1>4. deleting' = deleting \cup {s}
  <2>1. \A d \in Deleters \ {a} : at'[d] = at[d] /\ target'[d] = target[d]
      BY DEF Actors
  <2>2. at[a] = "idle" /\ at'[a] = "get" /\ target'[a] = s
      BY DEF Actors
  <2>3. QED
      BY <2>1, <2>2 DEF deleting
<1>5. QED
    BY <1>1, <1>2, <1>3, <1>4 DEF Promise!AskDelete

\* Sweeps and listings begin and go on unseen.
LEMMA UnseenStep ==
    ASSUME IInv,
           \/ SweepWake
           \/ \E s \in Sandboxes : SweepNext(s)
           \/ ListBegin
           \/ \E s \in Sandboxes : ListInspect(s)
           \/ ListFails
           \/ UNCHANGED vars
    PROVE  UNCHANGED lease
<1> USE SandboxServiceAssumption
    DEF IInv, TypeOK, SweepWake, SweepNext, ListBegin, ListInspect, ListFails,
        ListFrame, vars, creation, deletion, listing
<1>1. UNCHANGED overdue
    BY OverdueStays
<1>2. UNCHANGED phase
    BY PhasesStay DEF Phase
<1>3. \A d \in Deleters : at'[d] = at[d] /\ target'[d] = target[d]
    BY DEF Actors
<1>4. UNCHANGED deleting
    BY <1>3 DEF deleting
<1>5. QED
    BY <1>1, <1>2, <1>4 DEF lease

LEMMA ExternalRemoveStep ==
    ASSUME IInv, NEW s \in Sandboxes, ExternalRemove(s)
    PROVE  Promise!Vanish(s) \/ UNCHANGED lease
<1> USE DEF IInv, TypeOK, ExternalRemove, SetContainer, creation, deletion, listing
<1>1. UNCHANGED overdue
    BY OverdueStays
<1>2. UNCHANGED deleting
    BY DEF deleting
<1>3. \A t \in Sandboxes \ {s} : Phase(t)' = Phase(t)
    BY DEF Phase
<1>4. CASE Phase(s) = "ready"
  <2>1. Phase(s) \in {"ready"} /\ Phase(s)' = "vanished"
      BY <1>4 DEF Phase, InFlight
  <2>2. QED
      BY <1>1, <1>2, <1>3, <2>1, PhaseMoves DEF Promise!Vanish
<1>5. CASE Phase(s) # "ready"
  <2>1. Phase(s)' = Phase(s)
      BY <1>5 DEF Phase
  <2>2. QED
      BY <1>1, <1>2, <1>3, <2>1, PhasesStay DEF lease
<1>6. QED
    BY <1>4, <1>5

LEMMA RestartStep ==
    ASSUME IInv, Restart
    PROVE  Promise!Restart
<1> USE DEF IInv, TypeOK, Restart
<1>1. UNCHANGED overdue
    BY OverdueStays DEF AfterRestart, InFlight
<1>2. deleting' = {}
    BY DEF deleting, Actors
<1>3. ASSUME NEW s \in Sandboxes
      PROVE  /\ phase'[s] \in Promise!Phases
             /\ phase'[s] \in Promise!Outlived(s)
  <2>1. /\ phase[s] = Phase(s) /\ phase'[s] = Phase(s)'
        /\ create'[s] = AfterRestart(s)
      BY DEF phase
  <2>2. CASE create[s] \in InFlight
    <3>1. Phase(s) = "creating" /\ Phase(s)' \in {"failed", "lost"}
        BY <2>1, <2>2 DEF Phase, AfterRestart, InFlight
    <3>2. QED
        BY <2>1, <3>1 DEF Promise!Outlived, Promise!Phases, Promise!Known
  <2>3. CASE create[s] = "served"
    <3>1. container[s] \in {"up", "removed", "vanished"}
        BY <2>3 DEF Gone, ContainerFollowsCreate
    <3>2. /\ Phase(s) \in Promise!Known \cup {"closed"}
          /\ Phase(s)' = "lost"
        BY <2>1, <2>3, <3>1 DEF Phase, AfterRestart, InFlight, Promise!Known
    <3>3. QED
        BY <2>1, <3>2 DEF Promise!Outlived, Promise!Phases, Promise!Known
  <2>4. CASE create[s] \in {"new", "failed", "abandoned", "lost"}
    <3>1. /\ Phase(s) \in {"new", "failed", "lost"}
          /\ Phase(s)' = Phase(s)
        BY <2>1, <2>4 DEF Phase, AfterRestart, InFlight
    <3>2. QED
        BY <2>1, <3>1 DEF Promise!Outlived, Promise!Phases, Promise!Known
  <2>5. QED
      BY <2>2, <2>3, <2>4 DEF InFlight, Ended
<1>4. phase' \in [Sandboxes -> Promise!Phases]
    BY <1>3 DEF phase
<1>5. QED
    BY <1>1, <1>2, <1>3, <1>4 DEF Promise!Restart

LEMMA TickStep ==
    ASSUME IInv, Tick
    PROVE  \E which \in SUBSET Sandboxes : Promise!Expire(which)
<1> USE SandboxServiceAssumption
    DEF IInv, TypeOK, Tick, creation, deletion, listing
<1>1. UNCHANGED <<phase, deleting>>
    BY PhasesStay DEF Phase, deleting
<1>2. overdue \subseteq overdue'
    BY DEF overdue, Expired, HasDeadline, Deadline, EffectiveTTL
<1>3. \A s \in overdue' : phase[s] # "new"
    BY DEF overdue, phase, Phase, Gone, InFlight, Ended
<1>4. overdue' \in SUBSET Sandboxes
    BY DEF overdue
<1>5. Promise!Expire(overdue')
    BY <1>1, <1>2, <1>3 DEF Promise!Expire
<1>6. QED
    BY <1>4, <1>5

LEMMA LeaseInit == Init => Promise!Init
  BY SandboxServiceAssumption
     DEF Init, Promise!Init, phase, Phase, deleting, overdue, Actors

LEMMA LeaseNext == IInv /\ [Next]_vars => [Promise!Next]_lease
<1> SUFFICES ASSUME IInv, [Next]_vars
             PROVE  Promise!Next \/ UNCHANGED lease
    OBVIOUS
<1>1. CASE Tick
    BY <1>1, TickStep DEF Promise!Next
<1>2. CASE \E s \in Sandboxes : Create(s)
    BY <1>2, CreateStep DEF Promise!Next
<1>3. CASE \E a \in Deleters, s \in Sandboxes : DeleteRequested(a, s)
    BY <1>3, DeleteRequestedStep DEF Promise!Next, Promise!Lifecycle
<1>4. CASE \E a \in Actors : DeleteStep(a)
    BY <1>4, DeletionStep DEF Promise!Next
<1>5. CASE \E s \in Sandboxes : ExternalRemove(s)
    BY <1>5, ExternalRemoveStep DEF Promise!Next, Promise!Lifecycle
<1>6. CASE Restart
    BY <1>6, RestartStep DEF Promise!Next
<1>7. CASE \/ SweepWake
           \/ \E s \in Sandboxes : SweepNext(s)
           \/ ListBegin
           \/ \E s \in Sandboxes : ListInspect(s)
           \/ ListFails
           \/ UNCHANGED vars
    BY <1>7, UnseenStep
<1>8. QED
    BY <1>1, <1>2, <1>3, <1>4, <1>5, <1>6, <1>7 DEF Next

\* The service implements the life of a sandbox that SandboxLease promises.
THEOREM LeaseKept == Spec => ImplementsLease
<1>1. [Promise!Next]_lease <=> [Promise!Next]_<<phase, deleting, overdue>>
    BY DEF lease
<1>2. IInv /\ [Next]_vars => [Promise!Next]_<<phase, deleting, overdue>>
    BY <1>1, LeaseNext
<1>3. QED
    BY LeaseInit, <1>2, Invariance, PTL DEF Spec, ImplementsLease, Promise!Spec
=============================================================================
