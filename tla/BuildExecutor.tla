---------------------------- MODULE BuildExecutor ----------------------------
(***************************************************************************)
(* BuildExecutor (build_executor.py).  run() is a coroutine of the event   *)
(* loop: what it does between two awaits is one action, and cancellation   *)
(* of its handler may strike wherever it awaits.  Builds themselves run in *)
(* the threads of the pool.  asyncio.Semaphore and ThreadPoolExecutor are  *)
(* modelled as the code relies on them.                                    *)
(***************************************************************************)
EXTENDS Integers, FiniteSets, Sequences, SequencesExt

CONSTANTS
    Requests,      \* POST /v1/images/build requests, each run() once
    Size,          \* bytes of a request's context
    NumWorkers,    \* DSB_BUILD_WORKERS
    QueueSize,     \* DSB_BUILD_QUEUE_SIZE
    MaxBytes       \* DSB_BUILD_MAX_INFLIGHT_MB, in the unit of Size

ASSUME BuildExecutorAssumption ==
    /\ IsFiniteSet(Requests)
    /\ Size \in [Requests -> Nat]
    /\ NumWorkers \in Nat \ {0}
    /\ QueueSize \in Nat
    /\ MaxBytes \in Nat

VARIABLES
    pc,            \* where the run() of a request is
    worker,        \* the state of its build in the pool
    slots,         \* _slots._value
    waiters,       \* _slots._waiters
    pending, bytes, active, closed, idle,     \* as in the code
    queued_at, running_at,                    \* the tickets they hold
    succeeded, failed, rejected, cancelled_queued,
    closer         \* where close() is

semaphore == <<slots, waiters>>
admission == <<pending, bytes, idle, queued_at, running_at>>
totals == <<succeeded, failed, rejected, cancelled_queued>>
shutdown == <<closed, closer>>
vars == <<pc, worker, semaphore, admission, active, totals, shutdown>>

\* run() is suspended in acquire(): its future is pending, or was resolved by
\* a release, or was cancelled, or was resolved and then the task cancelled.
Queued == {"queued", "granted", "cancelling", "revoked"}

\* run() awaits its build, or ended: cancelled while its build went on,
\* answered, failed to start its build, cancelled in the queue, 503, 413.
Ends == {"detached", "answered", "unstarted", "cancelled", "rejected", "refused"}

Stages == {"new", "awaiting"} \cup Queued \cup Ends

\* The build was handed to the pool and _finished did not run yet.
Busy == {"submitted", "executing", "returned", "raised"}

QueuedSet == {r \in Requests : pc[r] \in Queued}
BusySet == {r \in Requests : worker[r] \in Busy}
AdmittedSet == {r \in Requests : pc[r] \in Queued \/ worker[r] \in Busy}

\* Requests that own a slot of the semaphore.
HoldingSet == {r \in Requests : pc[r] \in {"granted", "revoked"} \/ worker[r] \in Busy}

TypeOK ==
    /\ pc \in [Requests -> Stages]
    /\ worker \in [Requests -> {"none", "ok", "error"} \cup Busy]
    /\ slots \in 0..NumWorkers
    /\ waiters \in Seq(Requests)
    /\ pending \in Nat
    /\ bytes \in Int
    /\ active \in Nat
    /\ closed \in BOOLEAN
    /\ idle \in BOOLEAN
    /\ queued_at \subseteq Requests
    /\ running_at \subseteq Requests
    /\ succeeded \in Nat
    /\ failed \in Nat
    /\ rejected \in Nat
    /\ cancelled_queued \in Nat
    /\ closer \in {"serving", "draining", "stopping", "stopped"}

Init ==
    /\ pc = [r \in Requests |-> "new"]
    /\ worker = [r \in Requests |-> "none"]
    /\ slots = NumWorkers
    /\ waiters = <<>>
    /\ pending = 0
    /\ bytes = 0
    /\ active = 0
    /\ closed = FALSE
    /\ idle = TRUE
    /\ queued_at = {}
    /\ running_at = {}
    /\ succeeded = 0
    /\ failed = 0
    /\ rejected = 0
    /\ cancelled_queued = 0
    /\ closer = "serving"

-----------------------------------------------------------------------------
(* asyncio.Semaphore, as functions on [free |-> slots, pc |-> pc] *)

Sem == [free |-> slots, pc |-> pc]

\* locked(): no slot, or someone whose wait was not cancelled is ahead.
Locked ==
    \/ slots = 0
    \/ \E i \in DOMAIN waiters : pc[waiters[i]] # "cancelling"

\* The first waiter of ws whose future is still pending, if there is one.
FirstPending(p, ws) ==
    {r \in Requests :
        /\ p[r] = "queued"
        /\ \E i \in DOMAIN ws :
              /\ ws[i] = r
              /\ \A j \in DOMAIN ws : j < i => p[ws[j]] # "queued"}

\* _wake_up_next: hand a free slot to the first pending waiter.
WakeNext(sem, ws) ==
    IF sem.free = 0 \/ FirstPending(sem.pc, ws) = {}
      THEN sem
      ELSE LET r == CHOOSE r \in FirstPending(sem.pc, ws) : TRUE
           IN  [free |-> sem.free - 1, pc |-> [sem.pc EXCEPT ![r] = "granted"]]

\* release()
Release(sem, ws) == WakeNext([sem EXCEPT !.free = @ + 1], ws)

\* Adopt a semaphore state, and let r's run() reach a stage.
Adopt(sem, r, stage) ==
    /\ slots' = sem.free
    /\ pc' = [sem.pc EXCEPT ![r] = stage]

\* deque.remove: the first occurrence, and the only one.
Without(r) == RemoveFirst(waiters, r)

-----------------------------------------------------------------------------
(* Bookkeeping *)

\* The admission of a request.
Register(r) ==
    /\ pending' = pending + 1
    /\ bytes' = bytes + Size[r]
    /\ idle' = FALSE

\* Seeded fault: the last request to leave does not set the idle event.
UnregisterNeverIdle(r) ==
    /\ queued_at' = queued_at \ {r}
    /\ running_at' = running_at \ {r}
    /\ pending' = pending - 1
    /\ bytes' = bytes - Size[r]
    /\ idle' = idle

\* _unregister
Unregister(r) ==
    /\ queued_at' = queued_at \ {r}
    /\ running_at' = running_at \ {r}
    /\ pending' = pending - 1
    /\ bytes' = bytes - Size[r]
    /\ idle' = (idle \/ pending = 1)

\* run_in_executor took the build.
Submit(r) ==
    /\ closer \notin {"stopping", "stopped"}
    /\ worker' = [worker EXCEPT ![r] = "submitted"]
    /\ active' = active + 1

-----------------------------------------------------------------------------
(* run(), up to its first suspension *)

TooLarge(r) == Size[r] > MaxBytes

\* Seeded fault: shutdown does not close admission.
FullWhenOpen(r) ==
    \/ pending >= NumWorkers + QueueSize
    \/ bytes + Size[r] > MaxBytes

Full(r) ==
    \/ closed
    \/ pending >= NumWorkers + QueueSize
    \/ bytes + Size[r] > MaxBytes

Refuse(r) ==
    /\ pc[r] = "new"
    /\ TooLarge(r)
    /\ pc' = [pc EXCEPT ![r] = "refused"]
    /\ UNCHANGED <<worker, semaphore, admission, active, totals, shutdown>>

Reject(r) ==
    /\ pc[r] = "new"
    /\ ~TooLarge(r)
    /\ Full(r)
    /\ pc' = [pc EXCEPT ![r] = "rejected"]
    /\ rejected' = rejected + 1
    /\ UNCHANGED <<worker, semaphore, admission, active, succeeded, failed,
                   cancelled_queued, shutdown>>

Admitted(r) == pc[r] = "new" /\ ~TooLarge(r) /\ ~Full(r)

\* Seeded fault: a free slot is enough, whoever waits for it.
StartIfFree(r) ==
    /\ Admitted(r)
    /\ slots > 0
    /\ Register(r)
    /\ slots' = slots - 1
    /\ pc' = [pc EXCEPT ![r] = "awaiting"]
    /\ Submit(r)
    /\ running_at' = running_at \cup {r}
    /\ UNCHANGED <<waiters, queued_at, totals, shutdown>>

\* acquire() does not suspend: the build starts in the same step.
StartAtOnce(r) ==
    /\ Admitted(r)
    /\ ~Locked
    /\ Register(r)
    /\ slots' = slots - 1
    /\ pc' = [pc EXCEPT ![r] = "awaiting"]
    /\ Submit(r)
    /\ running_at' = running_at \cup {r}
    /\ UNCHANGED <<waiters, queued_at, totals, shutdown>>

\* The same, but the pool does not take the build: the slot and the admission
\* are given back before anyone else runs.  Nobody waits, so nobody is woken.
FailAtOnce(r) ==
    /\ Admitted(r)
    /\ ~Locked
    /\ pc' = [pc EXCEPT ![r] = "unstarted"]
    /\ failed' = failed + 1
    /\ UNCHANGED <<worker, semaphore, admission, active, succeeded, rejected,
                   cancelled_queued, shutdown>>

Enqueue(r) ==
    /\ Admitted(r)
    /\ Locked
    /\ Register(r)
    /\ pc' = [pc EXCEPT ![r] = "queued"]
    /\ waiters' = Append(waiters, r)
    /\ queued_at' = queued_at \cup {r}
    /\ UNCHANGED <<worker, slots, running_at, active, totals, shutdown>>

-----------------------------------------------------------------------------
(* run(), resumed in acquire() *)

\* Leave the wait queue; pass on a slot that is free besides one's own.
Resumed(r) == WakeNext(Sem, Without(r))

ResumeAndStart(r) ==
    /\ pc[r] = "granted"
    /\ Adopt(Resumed(r), r, "awaiting")
    /\ waiters' = Without(r)
    /\ queued_at' = queued_at \ {r}
    /\ running_at' = running_at \cup {r}
    /\ Submit(r)
    /\ UNCHANGED <<pending, bytes, idle, totals, shutdown>>

\* Seeded fault: a build that cannot be submitted keeps its slot.
ResumeAndKeepSlot(r) ==
    /\ pc[r] = "granted"
    /\ Adopt(Resumed(r), r, "unstarted")
    /\ waiters' = Without(r)
    /\ Unregister(r)
    /\ failed' = failed + 1
    /\ UNCHANGED <<worker, active, succeeded, rejected, cancelled_queued, shutdown>>

ResumeAndFail(r) ==
    /\ pc[r] = "granted"
    /\ Adopt(Release(Resumed(r), Without(r)), r, "unstarted")
    /\ waiters' = Without(r)
    /\ Unregister(r)
    /\ failed' = failed + 1
    /\ UNCHANGED <<worker, active, succeeded, rejected, cancelled_queued, shutdown>>

\* Cancelled while the future was pending: no slot is involved.
ResumeCancelled(r) ==
    /\ pc[r] = "cancelling"
    /\ pc' = [pc EXCEPT ![r] = "cancelled"]
    /\ waiters' = Without(r)
    /\ Unregister(r)
    /\ cancelled_queued' = cancelled_queued + 1
    /\ UNCHANGED <<worker, slots, active, succeeded, failed, rejected, shutdown>>

\* The slot of a request cancelled after it was handed one goes to the next.
HandBack(r) == Release(Sem, Without(r))

ResumeRevoked(r) ==
    /\ pc[r] = "revoked"
    /\ Adopt(HandBack(r), r, "cancelled")
    /\ waiters' = Without(r)
    /\ Unregister(r)
    /\ cancelled_queued' = cancelled_queued + 1
    /\ UNCHANGED <<worker, active, succeeded, failed, rejected, shutdown>>

-----------------------------------------------------------------------------
(* Cancellation of the handler's task *)

CancelledStage(stage) ==
    CASE stage = "queued" -> "cancelling"
      [] stage = "granted" -> "revoked"
      [] stage = "awaiting" -> "detached"

\* Seeded fault: cancelling the handler of a running build frees its slot.
CancelFreesSlot(r) ==
    /\ pc[r] \in {"queued", "granted", "awaiting"}
    /\ Adopt(IF pc[r] = "awaiting" THEN Release(Sem, waiters) ELSE Sem,
             r, CancelledStage(pc[r]))
    /\ UNCHANGED <<worker, waiters, admission, active, totals, shutdown>>

\* The task is cancelled where it awaits.  The shield keeps the build going.
Cancel(r) ==
    /\ pc[r] \in {"queued", "granted", "awaiting"}
    /\ pc' = [pc EXCEPT ![r] = CancelledStage(@)]
    /\ UNCHANGED <<worker, semaphore, admission, active, totals, shutdown>>

-----------------------------------------------------------------------------
(* The build in the pool, and its completion on the event loop *)

PoolFrame == UNCHANGED <<pc, semaphore, admission, active, totals, shutdown>>

Threads == {r \in Requests : worker[r] = "executing"}

\* A thread takes the build.
Execute(r) ==
    /\ worker[r] = "submitted"
    /\ Cardinality(Threads) < NumWorkers
    /\ worker' = [worker EXCEPT ![r] = "executing"]
    /\ PoolFrame

Complete(r, outcome) ==
    /\ worker[r] = "executing"
    /\ worker' = [worker EXCEPT ![r] = outcome]
    /\ PoolFrame

\* Seeded fault: only the outcome of a build someone waits for is counted.
CountOutcomeIfAwaited(r) ==
    /\ succeeded' = IF worker[r] = "returned" /\ pc[r] = "awaiting"
                      THEN succeeded + 1 ELSE succeeded
    /\ failed' = IF worker[r] = "raised" THEN failed + 1 ELSE failed

CountOutcome(r) ==
    /\ succeeded' = IF worker[r] = "returned" THEN succeeded + 1 ELSE succeeded
    /\ failed' = IF worker[r] = "raised" THEN failed + 1 ELSE failed

\* Seeded fault: a finished build gives its slot back twice.
FinishedTwice(r) ==
    /\ worker[r] \in {"returned", "raised"}
    /\ active' = active - 1
    /\ Unregister(r)
    /\ Adopt(Release(Release(Sem, waiters), waiters), r, pc[r])
    /\ CountOutcome(r)
    /\ worker' = [worker EXCEPT ![r] = IF @ = "returned" THEN "ok" ELSE "error"]
    /\ UNCHANGED <<waiters, rejected, cancelled_queued, shutdown>>

\* _finished, the first done-callback: _release and count.
Finished(r) ==
    /\ worker[r] \in {"returned", "raised"}
    /\ active' = active - 1
    /\ Unregister(r)
    /\ Adopt(Release(Sem, waiters), r, pc[r])
    /\ CountOutcome(r)
    /\ worker' = [worker EXCEPT ![r] = IF @ = "returned" THEN "ok" ELSE "error"]
    /\ UNCHANGED <<waiters, rejected, cancelled_queued, shutdown>>

\* The shield's callback comes second, then run() returns or raises.
Answer(r) ==
    /\ pc[r] = "awaiting"
    /\ worker[r] \in {"ok", "error"}
    /\ pc' = [pc EXCEPT ![r] = "answered"]
    /\ UNCHANGED <<worker, semaphore, admission, active, totals, shutdown>>

-----------------------------------------------------------------------------
(* close() *)

CloseFrame == UNCHANGED <<pc, worker, semaphore, admission, active, totals>>

Close ==
    /\ closer = "serving"
    /\ closer' = "draining"
    /\ closed' = TRUE
    /\ CloseFrame

\* Seeded fault: shutdown waits for running builds, not for queued ones.
DrainedWhenNoneRuns == active = 0

\* _idle.wait()
Drained == idle

CloseDrained ==
    /\ closer = "draining"
    /\ Drained
    /\ closer' = "stopping"
    /\ CloseFrame
    /\ UNCHANGED closed

\* pool.shutdown(wait=True) returns when no thread has work.
CloseStopped ==
    /\ closer = "stopping"
    /\ \A r \in Requests : worker[r] \notin {"submitted", "executing"}
    /\ closer' = "stopped"
    /\ CloseFrame
    /\ UNCHANGED closed

-----------------------------------------------------------------------------
Resume(r) ==
    \/ ResumeAndStart(r)
    \/ ResumeAndFail(r)
    \/ ResumeCancelled(r)
    \/ ResumeRevoked(r)

Next ==
    \/ \E r \in Requests :
          \/ Refuse(r)
          \/ Reject(r)
          \/ StartAtOnce(r)
          \/ FailAtOnce(r)
          \/ Enqueue(r)
          \/ Resume(r)
          \/ Cancel(r)
          \/ Execute(r)
          \/ \E outcome \in {"returned", "raised"} : Complete(r, outcome)
          \/ Finished(r)
          \/ Answer(r)
    \/ Close
    \/ CloseDrained
    \/ CloseStopped

Spec == Init /\ [][Next]_vars

(***************************************************************************)
(* Fairness: the event loop runs what is ready, the pool runs what it was  *)
(* given, and a build ends (Docker calls have timeouts).  Nobody has to    *)
(* send, cancel or shut down anything.                                     *)
(***************************************************************************)
LoopFairness ==
    /\ \A r \in Requests :
          /\ WF_vars(Resume(r))
          /\ WF_vars(Finished(r))
          /\ WF_vars(Answer(r))
          /\ WF_vars(Execute(r))
          /\ WF_vars(\E outcome \in {"returned", "raised"} : Complete(r, outcome))
    /\ WF_vars(CloseDrained)
    /\ WF_vars(CloseStopped)

FairSpec == Spec /\ LoopFairness

-----------------------------------------------------------------------------
(* Properties *)

\* The free slots and the slots in the hands of woken waiters and running builds
\* add up to the workers.
SlotsConserved == slots + Cardinality(HoldingSet) = NumWorkers

\* The counters and tickets that admission and GET /v1/status read are those
\* of the requests really queued and really running; a running build whose
\* handler was cancelled stays in them.
AccountingExact ==
    /\ pending = Cardinality(AdmittedSet)
    /\ active = Cardinality(BusySet)
    /\ queued_at = QueuedSet
    /\ running_at = BusySet
    /\ idle <=> AdmittedSet = {}

\* However requests leave, whichever of hand-over, cancellation, failed
\* submission and completion overlap, nothing is lost, made up or given back
\* twice: neither a slot nor a place, a ticket or the idle event.
CountsExact == SlotsConserved /\ AccountingExact

\* Every byte of every admitted context.
AdmittedBytes == UNION {{r} \X (1..Size[r]) : r \in AdmittedSet}

\* The byte budget is charged with the contexts of the admitted requests and
\* nothing else.
BytesExact == bytes = Cardinality(AdmittedBytes)

\* The configured limits hold for what is really admitted and really running,
\* so a build that was handed to the pool never queues for a thread there.
WithinLimits ==
    /\ Cardinality(AdmittedSet) <= NumWorkers + QueueSize
    /\ Cardinality(BusySet) <= NumWorkers
    /\ bytes <= MaxBytes

\* The requests that were ever admitted.
AcceptedSet == {r \in Requests : pc[r] \notin {"new", "rejected", "refused"}}

\* Every admitted request ends up in exactly one total or is still pending:
\* the totals of GET /v1/status miss none and count none twice.
Ledger ==
    succeeded + failed + cancelled_queued + pending = Cardinality(AcceptedSet)

\* The sums of GET /v1/status add up, whichever way requests leave: bytes for
\* those that are in, one total for each that is out.
TotalsExact == BytesExact /\ Ledger

\* Once close() stopped waiting, nothing is queued or running and nothing ever
\* will be: graceful shutdown drains admitted work, queued requests included.
ShutdownDrains == closer \in {"stopping", "stopped"} => AdmittedSet = {}

\* A newcomer never starts while an earlier request is waiting for a slot or
\* was handed one and is about to start.
NoOvertaking ==
    [][\A r \in Requests :
          pc[r] = "new" /\ pc'[r] = "awaiting" =>
              \A q \in Requests : pc[q] \notin {"queued", "granted"}]_vars

\* Every admitted build leaves: queued requests are not forgotten however the
\* slots ahead of them are released, handed over or cancelled.
EveryBuildEnds ==
    \A r \in Requests : r \in AdmittedSet ~> r \notin AdmittedSet

\* close() returns.
CloseCompletes == closer = "draining" ~> closer = "stopped"

\* The executor implements the bounded admission it promises.
Phase(r) ==
    IF worker[r] \in Busy THEN "running"
    ELSE IF pc[r] \in Queued THEN "waiting"
    ELSE IF pc[r] = "new" THEN "out"
    ELSE "over"

Promise == INSTANCE BuildAdmission WITH
    Workers <- NumWorkers,
    Capacity <- NumWorkers + QueueSize,
    phase <- [r \in Requests |-> Phase(r)]

\* Every behaviour of the executor is one of BuildAdmission.
ImplementsAdmission == Promise!Spec
=============================================================================
