--------------------------- MODULE SandboxService ---------------------------
(***************************************************************************)
(* BrokerService (service.py): the in-memory sandbox records, the life of  *)
(* each sandbox's container, and the three kinds of actor that race over   *)
(* them: create/delete/list request threads, the expiry sweep              *)
(* (api.py, _sweep_forever) and the world outside the broker.              *)
(*                                                                         *)
(* One action is one call to the Docker daemon or one locked section of    *)
(* the service, since other threads run between any two of those.  The     *)
(* calls DockerRuntime makes on behalf of the service are inlined; what    *)
(* image acquisition and image collection do is in module ImageCache, here *)
(* they only succeed or raise.                                             *)
(***************************************************************************)
EXTENDS Integers, FiniteSets

CONSTANTS
    Sandboxes,     \* ids (ULIDs) that create may hand out, each at most once
    Stuck,         \* those whose container the daemon never manages to remove
    Deleters,      \* request threads that run DELETE /v1/sandboxes/{id}
    Sweeper,       \* the thread that runs sweep_expired
    TTLs,          \* ttl_seconds a request may carry; 0 is an omitted one
    DefaultTTL,    \* DSB_SANDBOX_TTL_SECONDS; 0 disables expiry
    MaxTime,       \* bound on the clock
    MaxRestarts,   \* bound on broker restarts
    NoSandbox      \* the target of an actor that is not deleting

ASSUME SandboxServiceAssumption ==
    /\ Stuck \subseteq Sandboxes
    /\ Sweeper \notin Deleters
    /\ TTLs \subseteq Nat
    /\ DefaultTTL \in Nat
    /\ MaxTime \in Nat
    /\ MaxRestarts \in Nat
    /\ NoSandbox \notin Sandboxes

VARIABLES
    now,          \* datetime.now(UTC)
    records,      \* the keys of _records
    created_at,   \* the time create() read before it called the runtime
    ttl,          \* request.ttl_seconds
    create,       \* how far create() is with a sandbox, or how it ended
    container,    \* the daemon's view of the sandbox's container
    at,           \* where in delete() an actor is
    target,       \* the sandbox an actor deletes
    due,          \* what is left of the sweep's list `expired`
    todo,         \* what is left of a listing's snapshot of the records
    missing,      \* sandboxes the current or last listing called missing
    restarts      \* number of broker restarts so far

creation == <<create, created_at, ttl>>
deletion == <<at, target, due>>
listing == <<todo, missing>>
vars == <<now, records, creation, container, deletion, listing, restarts>>

Actors == Deleters \cup {Sweeper}

\* A container goes away because the broker removed it, or because someone
\* else did.  "none" is a container that was not created yet.
Gone == {"removed", "vanished"}

\* create() is running; after "served" the client knows the id.
InFlight == {"preparing", "starting", "cleaning", "registering"}

\* How create() can end: without a container, or cut short with a container
\* that never gets a record, or normally.  A restart turns "served" to "lost".
Ended == {"failed", "abandoned", "served", "lost"}

TypeOK ==
    /\ now \in Nat
    /\ records \subseteq Sandboxes
    /\ created_at \in [Sandboxes -> Nat]
    /\ ttl \in [Sandboxes -> Nat]
    /\ create \in [Sandboxes -> {"new"} \cup InFlight \cup Ended]
    /\ container \in [Sandboxes -> {"none", "up"} \cup Gone]
    /\ at \in [Actors -> {"idle", "get", "remove", "collect", "drop"}]
    /\ target \in [Actors -> Sandboxes \cup {NoSandbox}]
    /\ \A a \in Actors : at[a] # "idle" => target[a] \in Sandboxes
    /\ due \subseteq Sandboxes
    /\ todo \subseteq Sandboxes
    /\ missing \subseteq Sandboxes
    /\ restarts \in Nat

Init ==
    /\ now = 0
    /\ records = {}
    /\ created_at = [s \in Sandboxes |-> 0]
    /\ ttl = [s \in Sandboxes |-> 0]
    /\ create = [s \in Sandboxes |-> "new"]
    /\ container = [s \in Sandboxes |-> "none"]
    /\ at = [a \in Actors |-> "idle"]
    /\ target = [a \in Actors |-> NoSandbox]
    /\ due = {}
    /\ todo = {}
    /\ missing = {}
    /\ restarts = 0

-----------------------------------------------------------------------------
(* Deadlines *)

\* request.ttl_seconds or settings.sandbox_ttl_seconds
EffectiveTTL(s) == IF ttl[s] # 0 THEN ttl[s] ELSE DefaultTTL

\* Seeded fault: a lifetime of zero, by default, ends at once instead of never.
ZeroIsADeadline(s) == TRUE

HasDeadline(s) == EffectiveTTL(s) > 0

Deadline(s) == created_at[s] + EffectiveTTL(s)

Expired(s) == HasDeadline(s) /\ Deadline(s) <= now

Tick ==
    /\ now < MaxTime
    /\ now' = now + 1
    /\ UNCHANGED <<records, creation, container, deletion, listing, restarts>>

-----------------------------------------------------------------------------
(* create *)

Reach(s, stage) == create' = [create EXCEPT ![s] = stage]

SetContainer(s, state) == container' = [container EXCEPT ![s] = state]

\* Everything a step of create() leaves alone.
CreateFrame ==
    UNCHANGED <<now, records, created_at, ttl, deletion, listing, restarts>>

\* The request passed validation: fix id and created_at, then go to Docker.
Accept(s, seconds) ==
    /\ create[s] = "new"
    /\ Reach(s, "preparing")
    /\ created_at' = [created_at EXCEPT ![s] = now]
    /\ ttl' = [ttl EXCEPT ![s] = seconds]
    /\ UNCHANGED <<now, records, container, deletion, listing, restarts>>

\* The image cannot be resolved or pulled, or containers.create is refused.
PrepareFails(s) ==
    /\ create[s] = "preparing"
    /\ Reach(s, "failed")
    /\ UNCHANGED container
    /\ CreateFrame

ContainerCreated(s) ==
    /\ create[s] = "preparing"
    /\ Reach(s, "starting")
    /\ SetContainer(s, "up")
    /\ CreateFrame

\* The daemon created the container but its answer never arrived: `container`
\* is still None, so there is nothing to clean up with.
CreateUnanswered(s) ==
    /\ create[s] = "preparing"
    /\ Reach(s, "abandoned")
    /\ SetContainer(s, "up")
    /\ CreateFrame

\* start() and reload() succeed.
StartOk(s) ==
    /\ create[s] = "starting"
    /\ container[s] = "up"
    /\ Reach(s, "registering")
    /\ UNCHANGED container
    /\ CreateFrame

\* start() or reload() raises a DockerException.
StartFails(s) ==
    /\ create[s] = "starting"
    /\ Reach(s, "cleaning")
    /\ UNCHANGED container
    /\ CreateFrame

\* start() or reload() raises something else (a timeout or a broken
\* connection of the requests library), which the handler does not catch.
StartUnanswered(s) ==
    /\ create[s] = "starting"
    /\ Reach(s, "abandoned")
    /\ UNCHANGED container
    /\ CreateFrame

CleanedUp(s) ==
    /\ create[s] = "cleaning"
    /\ container[s] = "up"
    /\ s \notin Stuck
    /\ Reach(s, "failed")
    /\ SetContainer(s, "removed")
    /\ CreateFrame

\* remove() itself raises, and its error replaces the first one.
CleanUpFails(s) ==
    /\ create[s] = "cleaning"
    /\ Reach(s, "abandoned")
    /\ UNCHANGED container
    /\ CreateFrame

\* The record appears only after the runtime returned.
Register(s) ==
    /\ create[s] = "registering"
    /\ Reach(s, "served")
    /\ records' = records \cup {s}
    /\ UNCHANGED <<now, created_at, ttl, container, deletion, listing, restarts>>

Create(s) ==
    \/ \E seconds \in TTLs : Accept(s, seconds)
    \/ PrepareFails(s)
    \/ ContainerCreated(s)
    \/ CreateUnanswered(s)
    \/ StartOk(s)
    \/ StartFails(s)
    \/ StartUnanswered(s)
    \/ CleanedUp(s)
    \/ CleanUpFails(s)
    \/ Register(s)

-----------------------------------------------------------------------------
(* delete, run by a request thread or by the sweep *)

DeleteFrame == UNCHANGED <<now, creation, listing, restarts>>

Goto(a, stage) ==
    /\ at' = [at EXCEPT ![a] = stage]
    /\ UNCHANGED <<target, due>>

\* delete() returns.
Return(a) ==
    /\ at' = [at EXCEPT ![a] = "idle"]
    /\ target' = [target EXCEPT ![a] = NoSandbox]
    /\ UNCHANGED due

\* Seeded fault: an exception of the runtime is taken for a finished delete.
RaiseAsDone(a) == Goto(a, "drop")

\* Seeded fault: a failed delete ends the whole sweep pass.
RaiseEndsSweep(a) ==
    /\ at' = [at EXCEPT ![a] = "idle"]
    /\ target' = [target EXCEPT ![a] = NoSandbox]
    /\ due' = IF a = Sweeper THEN {} ELSE due

\* Seeded fault: an actor that failed stays where it was, with no target.
RaiseForgetsTarget(a) ==
    /\ target' = [target EXCEPT ![a] = NoSandbox]
    /\ UNCHANGED <<at, due>>

\* The runtime raises: the record stays.  The sweep logs it and goes on.
Raise(a) == Return(a)

\* The record is found; with no record delete() returns at once.
DeleteRequested(a, s) ==
    /\ at[a] = "idle"
    /\ s \in records
    /\ at' = [at EXCEPT ![a] = "get"]
    /\ target' = [target EXCEPT ![a] = s]
    /\ UNCHANGED <<records, container, due>>
    /\ DeleteFrame

\* containers.get answers.
GetFound(a) ==
    /\ at[a] = "get"
    /\ container[target[a]] = "up"
    /\ Goto(a, "remove")
    /\ UNCHANGED <<records, container>>
    /\ DeleteFrame

\* NotFound from get or from remove: the runtime's delete() returns early,
\* without a collection.
FindMissing(a) ==
    /\ at[a] \in {"get", "remove"}
    /\ container[target[a]] \in Gone
    /\ Goto(a, "drop")
    /\ UNCHANGED <<records, container>>
    /\ DeleteFrame

Removed(a) ==
    /\ at[a] = "remove"
    /\ container[target[a]] = "up"
    /\ target[a] \notin Stuck
    /\ SetContainer(target[a], "removed")
    /\ Goto(a, "collect")
    /\ UNCHANGED records
    /\ DeleteFrame

\* get or remove fails in another way: the daemon is unwell, or the removal
\* of the same container is already in progress.
DaemonFails(a) ==
    /\ at[a] \in {"get", "remove"}
    /\ Raise(a)
    /\ UNCHANGED <<records, container>>
    /\ DeleteFrame

\* collect_if_needed after the removal returns ...
Collected(a) ==
    /\ at[a] = "collect"
    /\ Goto(a, "drop")
    /\ UNCHANGED <<records, container>>
    /\ DeleteFrame

\* ... or raises (the inventory cannot be saved): the container is gone but
\* its record stays.
CollectFails(a) ==
    /\ at[a] = "collect"
    /\ Raise(a)
    /\ UNCHANGED <<records, container>>
    /\ DeleteFrame

\* _records.pop(sandbox_id, None)
Drop(a) ==
    /\ at[a] = "drop"
    /\ records' = records \ {target[a]}
    /\ Return(a)
    /\ UNCHANGED container
    /\ DeleteFrame

DeleteStep(a) ==
    \/ GetFound(a)
    \/ FindMissing(a)
    \/ Removed(a)
    \/ DaemonFails(a)
    \/ Collected(a)
    \/ CollectFails(a)
    \/ Drop(a)

-----------------------------------------------------------------------------
(* sweep_expired *)

Due == {s \in records : Expired(s)}

\* The interval passed and the last sweep is over: take the list of expired
\* records under the lock.
SweepWake ==
    /\ at[Sweeper] = "idle"
    /\ due = {}
    /\ due' = Due
    /\ UNCHANGED <<now, records, creation, container, at, target, listing, restarts>>

\* self.delete(sandbox_id) for the next one.  If a client deleted it in the
\* meantime the lookup fails and nothing happens.
SweepNext(s) ==
    /\ at[Sweeper] = "idle"
    /\ s \in due
    /\ due' = due \ {s}
    /\ IF s \in records
         THEN /\ at' = [at EXCEPT ![Sweeper] = "get"]
              /\ target' = [target EXCEPT ![Sweeper] = s]
         ELSE UNCHANGED <<at, target>>
    /\ UNCHANGED <<now, records, creation, container, listing, restarts>>

-----------------------------------------------------------------------------
(* list *)

ListFrame == UNCHANGED <<now, records, creation, container, deletion, restarts>>

\* Snapshot the records under the lock.
ListBegin ==
    /\ todo = {}
    /\ todo' = records
    /\ missing' = {}
    /\ ListFrame

\* Inspect the next container of the snapshot, without the lock.
ListInspect(s) ==
    /\ s \in todo
    /\ todo' = todo \ {s}
    /\ missing' = IF container[s] \in Gone THEN missing \cup {s} ELSE missing
    /\ ListFrame

\* Seeded fault: every daemon error is taken for a missing container.
ListErrorAsMissing ==
    \E s \in todo :
        /\ todo' = todo \ {s}
        /\ missing' = missing \cup {s}
        /\ ListFrame

\* A daemon error other than NotFound fails the whole listing.
ListFails ==
    /\ todo # {}
    /\ todo' = {}
    /\ missing' = {}
    /\ ListFrame

-----------------------------------------------------------------------------
(* Outside the broker's requests *)

\* Someone other than this broker process removes the container.
ExternalRemove(s) ==
    /\ container[s] = "up"
    /\ SetContainer(s, "vanished")
    /\ UNCHANGED <<now, records, creation, deletion, listing, restarts>>

\* What becomes of a sandbox when the process ends, crashed or stopped.
AfterRestart(s) ==
    CASE create[s] = "preparing" -> "failed"
      [] create[s] \in InFlight \ {"preparing"} -> "abandoned"
      [] create[s] = "served" -> "lost"
      [] OTHER -> create[s]

\* The records are memory only and nothing reads containers back: a new
\* process starts with none.  Containers live on.
Restart ==
    /\ restarts < MaxRestarts
    /\ restarts' = restarts + 1
    /\ records' = {}
    /\ create' = [s \in Sandboxes |-> AfterRestart(s)]
    /\ at' = [a \in Actors |-> "idle"]
    /\ target' = [a \in Actors |-> NoSandbox]
    /\ due' = {}
    /\ todo' = {}
    /\ missing' = {}
    /\ UNCHANGED <<now, created_at, ttl, container>>

Next ==
    \/ Tick
    \/ \E s \in Sandboxes : Create(s)
    \/ \E a \in Deleters, s \in Sandboxes : DeleteRequested(a, s)
    \/ \E a \in Actors : DeleteStep(a)
    \/ SweepWake
    \/ \E s \in Sandboxes : SweepNext(s)
    \/ ListBegin
    \/ \E s \in Sandboxes : ListInspect(s)
    \/ ListFails
    \/ \E s \in Sandboxes : ExternalRemove(s)
    \/ Restart

Spec == Init /\ [][Next]_vars

(***************************************************************************)
(* Fairness: the event loop keeps waking the sweep and its thread keeps    *)
(* running (weak fairness of its steps), and a daemon that can remove a    *)
(* container does so if asked again and again (strong fairness of the two  *)
(* successful daemon calls).  Nothing is assumed of clients, of the clock, *)
(* or of the request threads.                                              *)
(***************************************************************************)
SweepFairness ==
    /\ WF_vars(SweepWake)
    /\ WF_vars(\E s \in Sandboxes : SweepNext(s))
    /\ WF_vars(DeleteStep(Sweeper))
    /\ \A s \in Sandboxes \ Stuck :
          /\ SF_vars(target[Sweeper] = s /\ (GetFound(Sweeper) \/ FindMissing(Sweeper)))
          /\ SF_vars(target[Sweeper] = s /\ Removed(Sweeper))

FairSpec == Spec /\ SweepFairness

-----------------------------------------------------------------------------
(* Properties *)

\* Every container that is up without a record is one of the three the code
\* has no hold on: create() is still working on it, create() was cut short by
\* an exception or a restart, or it was served by an earlier process.  A
\* container this process served keeps its record for as long as it is up,
\* whatever deletes, sweeps and failures overlap, so a client can still delete
\* it and the sweep still reclaims it.
Accounted ==
    \A s \in Sandboxes :
        container[s] = "up" =>
            s \in records \/ create[s] \in InFlight \cup {"abandoned", "lost"}

\* The lifetime SPEC.md (46-54) promises has passed: the request's own, or the
\* default if it named none; with neither, a sandbox lives until it is deleted.
LifeIsOver(s) ==
    \/ ttl[s] > 0 /\ now >= created_at[s] + ttl[s]
    \/ ttl[s] = 0 /\ DefaultTTL > 0 /\ now >= created_at[s] + DefaultTTL

\* The broker removes a container before its lifetime is over only for a client's
\* DELETE or to clean up a failed start; the sweep, which works through a list
\* taken earlier, never takes a sandbox that may still live, or that may live
\* for ever since neither its request nor the settings limit it.
RemovedEarlyOnlyOnRequest ==
    [][\A s \in Sandboxes :
          /\ container[s] = "up"
          /\ container'[s] = "removed"
          /\ ~LifeIsOver(s)
          => \/ create[s] = "cleaning"
             \/ \E a \in Deleters : at[a] = "remove" /\ target[a] = s]_vars

\* What a listing reports as missing really is gone: other daemon failures
\* fail the listing, and no later step brings a container back.
MissingIsGone == \A s \in missing : container[s] \in Gone

\* The sweep reclaims every record past its deadline whose container the
\* daemon is able to remove, and then drops the record, whatever fails on the
\* way (even a delete that removed the container and then could not finish)
\* and whichever other containers never go away.  Only a restart, which
\* forgets the sandbox, gets it out of that.
ExpiredReclaimed ==
    \A s \in Sandboxes \ Stuck :
        (s \in records /\ LifeIsOver(s))
            ~> (s \notin records /\ (container[s] \in Gone \/ create[s] = "lost"))

\* What a client can tell of a sandbox.
Phase(s) ==
    IF create[s] \in {"new", "failed"} THEN create[s]
    ELSE IF create[s] \in InFlight THEN "creating"
    ELSE IF create[s] \in {"abandoned", "lost"} THEN "lost"
    ELSE IF s \notin records THEN "closed"
    ELSE IF container[s] = "up" THEN "ready"
    ELSE container[s]

phase == [s \in Sandboxes |-> Phase(s)]
deleting == {s \in Sandboxes : \E d \in Deleters : at[d] # "idle" /\ target[d] = s}
overdue == {s \in Sandboxes : create[s] # "new" /\ Expired(s)}

Promise == INSTANCE SandboxLease

\* The service implements the life of a sandbox it promises its clients: with
\* all the threads that work on the same sandbox, a sandbox that was served is
\* forgotten only after it is gone, and removed only when asked or overdue.
ImplementsLease == Promise!Spec

\* SPEC, missing sandboxes: a concurrent deletion may leave a missing entry in
\* a listing, the next listing omits it.  (Not so while the delete collects
\* images, or after it failed there.)
NextListingOmits ==
    [][ListBegin =>
          \A s \in missing : container[s] = "removed" => s \notin records]_vars
=============================================================================
