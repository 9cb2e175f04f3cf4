----------------------------- MODULE ImageCache ------------------------------
(***************************************************************************)
(* ImageCache (image_cache.py) with the parts of DockerRuntime             *)
(* (runtime.py) that use it: create() up to the container, build_image(),  *)
(* and the collection after a delete.  Creators and builders are request   *)
(* threads.  One action is one section under the cache's RLock or one call *)
(* to the Docker daemon; a collection holds the lock over several such     *)
(* calls, and threads that do not need the lock run in between.            *)
(*                                                                         *)
(* building() is used by what it promises (module RefMutex).               *)
(***************************************************************************)
EXTENDS Integers, FiniteSets

CONSTANTS
    Creators,      \* threads, each serving one POST and one DELETE of a sandbox
    Builders,      \* threads, each serving one POST /v1/images/build
    Tags,          \* references of built images; the rest of References is pulled
    References,
    Images,        \* image ids
    ImagesOf,      \* the ids a pull or build of a reference can produce
    Inventories,   \* what the inventory file may hold when the broker starts
    MinFree, TargetFree,   \* DSB_IMAGE_GC_MIN_FREE_MB, DSB_IMAGE_GC_TARGET_FREE_MB
    FreeBytes,     \* amounts of free space the daemon's disk may show
    MinAge,        \* DSB_IMAGE_GC_MIN_AGE_SECONDS
    MaxTime, MaxRestarts, MaxExternal,     \* bounds
    NoImage, NoReference, Nobody

Actors == Creators \cup Builders

\* An entry of the inventory; NoImage stands for none.
Record == [id : Images \cup {NoImage}, last : Int]

ASSUME ImageCacheAssumption ==
    /\ IsFiniteSet(Creators)
    /\ Creators \cap Builders = {}
    /\ Nobody \notin Actors
    /\ Tags \subseteq References
    /\ NoReference \notin References
    /\ NoImage \notin Images
    /\ ImagesOf \in [References -> SUBSET Images]
    /\ Inventories \subseteq [References -> Record]
    /\ FreeBytes \subseteq Nat
    /\ {MinFree, TargetFree, MinAge, MaxTime, MaxRestarts, MaxExternal} \subseteq Nat

VARIABLES
    now,           \* datetime.now(UTC)
    tag,           \* the daemon: the image a reference resolves to
    container,     \* the daemon: the image of a creator's container
    origin,        \* who made the daemon's tag: "broker" or "other"; "unreported"
                   \* when the broker made it by a call that then raised,
                   \* "lost" when a restart forgot that the broker made it
    records,       \* _records: image id and last use of a reference
    saved,         \* the inventory file
    reservations,  \* _reservations
    lock,          \* the thread that collects, and so holds _lock
    gc,            \* its local variables
    at,            \* where a thread is
    wants,         \* the reference its request names
    image,         \* the image id a thread resolved, pulled or built
    answered,      \* when the image of an answered build was last recorded
    restarts, external

docker == <<tag, container, origin>>
inventory == <<records, saved>>
threads == <<at, wants, image, answered>>
bounds == <<restarts, external>>
vars == <<now, docker, inventory, reservations, lock, gc, threads, bounds>>

NoRecord == [id |-> NoImage, last |-> 0]
NotAnswered == -1
Recorded == {ref \in References : records[ref].id # NoImage}
IdleGC == [todo |-> {}, active |-> {}, free |-> 0, must |-> FALSE, checked |-> NoReference]

Ended == {"up", "done", "failed"}

\* Builders counted in _build_gates, and those past the gate.
InGate == {"gate", "inspect", "collect", "build", "emergency", "rebuild", "record", "leave"}
Inside == InGate \ {"gate"}
BuildGates == {wants[b] : b \in {b \in Builders : at[b] \in InGate}}

\* Threads whose next step is collect_if_needed(): before a pull or build,
\* before repeating one that found the disk full, after a delete.
Collecting == {"collect", "emergency", "deleted"}

Stages ==
    InGate \cup Collecting \cup Ended \cup
    {"new", "resolve", "pull", "repull", "touch", "reserve", "create", "release", "abort"}

TypeOK ==
    /\ now \in Nat
    /\ tag \in [References -> Images \cup {NoImage}]
    /\ container \in [Creators -> Images \cup {NoImage}]
    /\ origin \in [References -> {"broker", "other", "unreported", "lost"}]
    /\ records \in [References -> Record]
    /\ saved \in [References -> Record]
    /\ reservations \in [Images -> 0..Cardinality(Creators)]
    /\ lock \in Actors \cup {Nobody}
    /\ gc \in [todo : SUBSET References, active : SUBSET Images, free : Nat,
               must : BOOLEAN, checked : References \cup {NoReference}]
    /\ at \in [Actors -> Stages]
    /\ wants \in [Actors -> References \cup {NoReference}]
    /\ image \in [Actors -> Images \cup {NoImage}]
    /\ answered \in [Builders -> {NotAnswered} \cup Nat]
    /\ restarts \in Nat
    /\ external \in Nat

\* A broker starts with the inventory an earlier one left, beside a daemon
\* that kept some of those images and may have others.
Init ==
    /\ now = 0
    /\ saved \in Inventories
    /\ records = saved
    /\ tag \in {t \in [References -> Images \cup {NoImage}] :
                   \A ref \in References : t[ref] \in ImagesOf[ref] \cup {NoImage}}
    /\ container = [c \in Creators |-> NoImage]
    /\ origin = [ref \in References |->
                    IF records[ref].id = tag[ref] THEN "broker" ELSE "other"]
    /\ reservations = [i \in Images |-> 0]
    /\ lock = Nobody
    /\ gc = IdleGC
    /\ at = [a \in Actors |-> "new"]
    /\ wants = [a \in Actors |-> NoReference]
    /\ image = [a \in Actors |-> NoImage]
    /\ answered = [b \in Builders |-> NotAnswered]
    /\ restarts = 0
    /\ external = 0

-----------------------------------------------------------------------------
(* Helpers *)

Goto(a, stage) == at' = [at EXCEPT ![a] = stage]

\* Where an exception takes a thread: a builder still has to leave its gate.
Broken(a) == IF a \in Builders THEN "leave" ELSE "failed"

\* Change _records and save them.  If the file cannot be written the change
\* stays in memory and the thread raises.
Store(new, a, stage) ==
    /\ records' = new
    /\ \/ saved' = new /\ Goto(a, stage)
       \/ UNCHANGED saved /\ Goto(a, Broken(a))

\* What `record` stores.
Entry(id) == [id |-> id, last |-> now]

With(ref, id) == [records EXCEPT ![ref] = Entry(id)]

Forgetting(ref) == [records EXCEPT ![ref] = NoRecord]

Unlocked == lock = Nobody

\* The daemon now resolves ref to an image the broker just acquired.
Acquired(ref, id) ==
    /\ tag' = [tag EXCEPT ![ref] = id]
    /\ origin' = [origin EXCEPT ![ref] = "broker"]
    /\ UNCHANGED container

\* What the daemon has after a pull or build that raised: what it had, or the
\* image as well, of which the caller learns nothing and so records nothing.
Unreported(a) ==
    /\ \/ UNCHANGED <<tag, origin>>
       \/ /\ a \in Creators => wants[a] \notin Tags
          /\ \E id \in ImagesOf[wants[a]] \ {tag[wants[a]]} :
                tag' = [tag EXCEPT ![wants[a]] = id]
          /\ origin' = [origin EXCEPT ![wants[a]] = "unreported"]
    /\ UNCHANGED container

StepFrame == UNCHANGED <<now, lock, gc, wants, bounds>>

Tick ==
    /\ now < MaxTime
    /\ now' = now + 1
    /\ UNCHANGED <<docker, inventory, reservations, lock, gc, threads, bounds>>

-----------------------------------------------------------------------------
(* DockerRuntime._ensure_image *)

RequestSandbox(c, ref) ==
    /\ at[c] = "new"
    /\ Goto(c, "resolve")
    /\ wants' = [wants EXCEPT ![c] = ref]
    /\ UNCHANGED <<now, docker, inventory, reservations, lock, gc, image, answered, bounds>>

\* images.get
Resolve(c) ==
    /\ at[c] = "resolve"
    /\ IF tag[wants[c]] # NoImage
         THEN /\ image' = [image EXCEPT ![c] = tag[wants[c]]]
              /\ Goto(c, "touch")
         ELSE /\ UNCHANGED image
              /\ Goto(c, "collect")
    /\ UNCHANGED <<docker, inventory, reservations, answered>>
    /\ StepFrame

\* touch(): refresh the record of an owned image, drop that of a changed one.
Touch(c) ==
    /\ at[c] = "touch"
    /\ Unlocked
    /\ LET record == records[wants[c]] IN
         \/ /\ record.id = NoImage
            /\ Goto(c, "reserve")
            /\ UNCHANGED inventory
         \/ /\ record.id \notin {NoImage, image[c]}
            /\ Store(Forgetting(wants[c]), c, "reserve")
         \/ /\ record.id = image[c]
            /\ Store(With(wants[c], image[c]), c, "reserve")
    /\ UNCHANGED <<docker, reservations, image, answered>>
    /\ StepFrame

\* images.pull
Pull(c) ==
    /\ at[c] \in {"pull", "repull"}
    /\ \E id \in ImagesOf[wants[c]] :
          /\ wants[c] \notin Tags
          /\ Acquired(wants[c], id)
          /\ image' = [image EXCEPT ![c] = id]
    /\ Goto(c, "record")
    /\ UNCHANGED <<inventory, reservations, answered>>
    /\ StepFrame

RecordPulled(c) ==
    /\ at[c] = "record"
    /\ Unlocked
    /\ Store(With(wants[c], image[c]), c, "reserve")
    /\ UNCHANGED <<docker, reservations, image, answered>>
    /\ StepFrame

-----------------------------------------------------------------------------
(* DockerRuntime.create *)

Reserve(c) ==
    /\ at[c] = "reserve"
    /\ Unlocked
    /\ reservations' = [reservations EXCEPT ![image[c]] = @ + 1]
    /\ Goto(c, "create")
    /\ UNCHANGED <<docker, inventory, image, answered>>
    /\ StepFrame

\* containers.create resolves the reference once more.
CreateContainer(c) ==
    /\ at[c] = "create"
    /\ IF tag[wants[c]] # NoImage
         THEN /\ container' = [container EXCEPT ![c] = tag[wants[c]]]
              /\ Goto(c, "release")
         ELSE /\ UNCHANGED container
              /\ Goto(c, "abort")
    /\ UNCHANGED <<tag, origin, inventory, reservations, image, answered>>
    /\ StepFrame

\* Seeded fault: a create() that failed gives its reservation back twice.
UnreserveTwice(c) ==
    /\ at[c] \in {"release", "abort"}
    /\ Unlocked
    /\ reservations' = [reservations EXCEPT ![image[c]] = IF at[c] = "abort" THEN @ - 2 ELSE @ - 1]
    /\ Goto(c, IF at[c] = "release" THEN "up" ELSE "failed")
    /\ UNCHANGED <<docker, inventory, image, answered>>
    /\ StepFrame

\* Seeded fault: a create() that failed keeps its reservation.
UnreserveOnSuccess(c) ==
    /\ at[c] \in {"release", "abort"}
    /\ Unlocked
    /\ reservations' = [reservations EXCEPT ![image[c]] = IF at[c] = "abort" THEN @ ELSE @ - 1]
    /\ Goto(c, IF at[c] = "release" THEN "up" ELSE "failed")
    /\ UNCHANGED <<docker, inventory, image, answered>>
    /\ StepFrame

\* The end of `with reserve(...)`, after the container or an exception.
Unreserve(c) ==
    /\ at[c] \in {"release", "abort"}
    /\ Unlocked
    /\ reservations' = [reservations EXCEPT ![image[c]] = @ - 1]
    /\ Goto(c, IF at[c] = "release" THEN "up" ELSE "failed")
    /\ UNCHANGED <<docker, inventory, image, answered>>
    /\ StepFrame

\* DockerRuntime.delete removes the container; a collection follows.
DeleteContainer(c) ==
    /\ at[c] = "up"
    /\ container' = [container EXCEPT ![c] = NoImage]
    /\ Goto(c, "deleted")
    /\ UNCHANGED <<tag, origin, inventory, reservations, image, answered>>
    /\ StepFrame

-----------------------------------------------------------------------------
(* DockerRuntime.build_image *)

\* building(): count in, then wait for the gate.
RequestBuild(b, ref) ==
    /\ at[b] = "new"
    /\ Unlocked
    /\ Goto(b, "gate")
    /\ wants' = [wants EXCEPT ![b] = ref]
    /\ UNCHANGED <<now, docker, inventory, reservations, lock, gc, image, answered, bounds>>

\* Seeded fault: nothing separates builds of the same tag.
GateAlwaysFree(b) == TRUE

GateFree(b) == \A d \in Builders \ {b} : at[d] \in Inside => wants[d] # wants[b]

PassGate(b) ==
    /\ at[b] = "gate"
    /\ GateFree(b)
    /\ Goto(b, "inspect")
    /\ UNCHANGED <<docker, inventory, reservations, image, answered>>
    /\ StepFrame

\* The build is answered once its image is recorded on disk.
NoteAnswer(b) ==
    answered' = IF saved' = records' THEN [answered EXCEPT ![b] = now] ELSE answered

\* Seeded fault: a cache hit does not renew the grace period.
HitKeepsRecord(b) ==
    /\ answered' = [answered EXCEPT ![b] = now]
    /\ Goto(b, "leave")
    /\ UNCHANGED <<inventory, origin>>

\* The tag is there and is what the broker built, or carries its labels and has
\* no record: then it becomes the broker's again.
Hit(b) ==
    /\ Store(With(wants[b], tag[wants[b]]), b, "leave")
    /\ NoteAnswer(b)
    /\ origin' = [origin EXCEPT ![wants[b]] = "broker"]

\* reuse_built(), all under the lock: no such image, a hit, or a mismatch with
\* the record or, if somebody else made the image, with the broker's labels.
ReuseBuilt(b) ==
    /\ at[b] = "inspect"
    /\ Unlocked
    /\ LET found == tag[wants[b]]
           record == records[wants[b]]
       IN  \/ /\ found = NoImage
              /\ IF record.id # NoImage
                   THEN Store(Forgetting(wants[b]), b, "collect")
                   ELSE Goto(b, "collect") /\ UNCHANGED inventory
              /\ UNCHANGED <<origin, answered>>
           \/ /\ found # NoImage
              /\ record.id \in {NoImage, found}
              /\ Hit(b)
           \/ /\ found # NoImage
              /\ record.id \notin {NoImage, found} \/ origin[wants[b]] = "other"
              /\ Goto(b, "leave")
              /\ UNCHANGED <<inventory, origin, answered>>
    /\ UNCHANGED <<tag, container, reservations, image>>
    /\ StepFrame

\* images.build
Build(b) ==
    /\ at[b] \in {"build", "rebuild"}
    /\ \E id \in ImagesOf[wants[b]] :
          /\ Acquired(wants[b], id)
          /\ image' = [image EXCEPT ![b] = id]
    /\ Goto(b, "record")
    /\ UNCHANGED <<inventory, reservations, answered>>
    /\ StepFrame

RecordBuilt(b) ==
    /\ at[b] = "record"
    /\ Unlocked
    /\ Store(With(wants[b], image[b]), b, "leave")
    /\ NoteAnswer(b)
    /\ UNCHANGED <<docker, reservations, image>>
    /\ StepFrame

LeaveGate(b) ==
    /\ at[b] = "leave"
    /\ Unlocked
    /\ Goto(b, "done")
    /\ UNCHANGED <<docker, inventory, reservations, image, answered>>
    /\ StepFrame

-----------------------------------------------------------------------------
(* Docker failures outside collection *)

\* images.get fails; images.pull or build does, in another way than for lack of
\* space or a second time; or containers.create or start does, and the
\* container may stay.  A call that fails may have taken effect.
DockerFails(a) ==
    /\ \/ /\ at[a] \in {"resolve", "inspect"}
          /\ at[a] = "inspect" => Unlocked
          /\ Goto(a, Broken(a))
          /\ UNCHANGED docker
       \/ /\ at[a] \in {"pull", "build", "repull", "rebuild"}
          /\ Goto(a, Broken(a))
          /\ Unreported(a)
       \/ /\ at[a] = "create"
          /\ Goto(a, "abort")
          /\ container' \in {container, [container EXCEPT ![a] = tag[wants[a]]]}
          /\ UNCHANGED <<tag, origin>>
    /\ UNCHANGED <<inventory, reservations, image, answered>>
    /\ StepFrame

\* The disk is full: collect in an emergency, then try once more.  The daemon
\* may have named the image before the disk was full.
DiskFull(a) ==
    /\ at[a] \in {"pull", "build"}
    /\ Goto(a, "emergency")
    /\ Unreported(a)
    /\ UNCHANGED <<inventory, reservations, image, answered>>
    /\ StepFrame

-----------------------------------------------------------------------------
(* collect_if_needed *)

Afterwards(a) ==
    CASE at[a] = "collect" -> IF a \in Builders THEN "build" ELSE "pull"
      [] at[a] = "emergency" -> IF a \in Builders THEN "rebuild" ELSE "repull"
      [] at[a] = "deleted" -> "done"

CollectFrame == UNCHANGED <<now, reservations, wants, image, answered, bounds>>

\* Nothing is recorded, the disk has room, or disk or daemon cannot be asked.
NoCollection(a) ==
    /\ at[a] \in Collecting
    /\ Unlocked
    /\ Goto(a, Afterwards(a))
    /\ UNCHANGED <<docker, inventory, lock, gc>>
    /\ CollectFrame

\* Seeded fault: only containers keep an image.
ActiveContainers == {container[c] : c \in Creators} \ {NoImage}

\* _active_image_ids
ActiveImages ==
    ({container[c] : c \in Creators} \ {NoImage}) \cup
    {i \in Images : reservations[i] > 0}

\* _prepare_collection
BeginCollection(a) ==
    /\ at[a] \in Collecting
    /\ Unlocked
    /\ Recorded # {}
    /\ \E free \in FreeBytes :
          /\ at[a] # "emergency" => free < MinFree
          /\ gc' = [todo |-> Recorded, active |-> ActiveImages, free |-> free,
                    must |-> at[a] = "emergency", checked |-> NoReference]
    /\ lock' = a
    /\ UNCHANGED <<docker, inventory, at>>
    /\ CollectFrame

\* The loop goes on to its next record, the least recently used one.
NextRecord(a, ref) ==
    /\ lock = a
    /\ gc.checked = NoReference
    /\ gc.free < TargetFree \/ gc.must
    /\ ref \in gc.todo
    /\ \A other \in gc.todo : records[ref].last <= records[other].last

\* Seeded fault: builds do not protect their tag.
MayExamineAny(ref) == now - records[ref].last >= MinAge

\* Not being built, and old enough.
MayExamine(ref) ==
    /\ ref \notin BuildGates
    /\ now - records[ref].last >= MinAge

\* The record is spared, or the daemon cannot inspect its image.
PassOver(a) ==
    /\ \E ref \in References :
          /\ NextRecord(a, ref)
          /\ gc' = [gc EXCEPT !.todo = @ \ {ref}]
    /\ UNCHANGED <<docker, inventory, lock, at>>
    /\ CollectFrame

\* _forget within a collection: an exception ends it and frees the lock.
ForgetAndGo(a, ref, next) ==
    /\ records' = Forgetting(ref)
    /\ \/ /\ saved' = records'
          /\ gc' = next
          /\ UNCHANGED <<lock, at>>
       \/ /\ UNCHANGED saved
          /\ gc' = IdleGC
          /\ lock' = Nobody
          /\ Goto(a, Broken(a))

\* The image is gone, or is no longer the recorded one.
ForgetStale(a) ==
    /\ \E ref \in References :
          /\ NextRecord(a, ref)
          /\ MayExamine(ref)
          /\ tag[ref] # records[ref].id
          /\ ForgetAndGo(a, ref, [gc EXCEPT !.todo = @ \ {ref}])
    /\ UNCHANGED docker
    /\ CollectFrame

\* It is the recorded image and nothing uses it.
Confirm(a) ==
    /\ \E ref \in References :
          /\ NextRecord(a, ref)
          /\ MayExamine(ref)
          /\ tag[ref] = records[ref].id
          /\ tag[ref] \notin gc.active
          /\ gc' = [gc EXCEPT !.todo = @ \ {ref}, !.checked = ref]
    /\ UNCHANGED <<docker, inventory, lock, at>>
    /\ CollectFrame

\* The daemon refuses to remove the last tag of an image a container uses.
Conflict(ref) ==
    /\ \E c \in Creators : container[c] = tag[ref]
    /\ \A other \in References \ {ref} : tag[other] # tag[ref]

\* images.remove, without force.
Untag(ref) ==
    /\ tag[ref] # NoImage => ~Conflict(ref)
    /\ tag' = [tag EXCEPT ![ref] = NoImage]

\* The image is removed, or is gone already; then look at the disk again.
RemoveImage(a) ==
    /\ lock = a
    /\ gc.checked # NoReference
    /\ Untag(gc.checked)
    /\ \E free \in FreeBytes :
          ForgetAndGo(a, gc.checked,
                      [gc EXCEPT !.checked = NoReference, !.must = FALSE, !.free = free])
    /\ UNCHANGED <<container, origin>>
    /\ CollectFrame

\* Seeded fault: the record of an image that could not be removed goes too.
RemoveFailsForgets(a) ==
    /\ lock = a
    /\ gc.checked # NoReference
    /\ ForgetAndGo(a, gc.checked, [gc EXCEPT !.checked = NoReference])
    /\ UNCHANGED docker
    /\ CollectFrame

\* A conflict or another error, which may follow the removal: the record stays.
RemoveFails(a) ==
    /\ lock = a
    /\ gc.checked # NoReference
    /\ UNCHANGED tag \/ Untag(gc.checked)
    /\ gc' = [gc EXCEPT !.checked = NoReference]
    /\ UNCHANGED <<container, origin, inventory, lock, at>>
    /\ CollectFrame

\* A call of the collection raises what is no DockerException (the connection
\* times out): the request ends with it, and the lock is free.  The call is the
\* list of containers, the inspection of an image or its removal.
CollectionRaises(a) ==
    /\ \/ /\ at[a] \in Collecting
          /\ Unlocked
          /\ Recorded # {}
          /\ UNCHANGED tag
       \/ /\ \E ref \in References : NextRecord(a, ref) /\ MayExamine(ref)
          /\ UNCHANGED tag
       \/ /\ lock = a
          /\ gc.checked # NoReference
          /\ UNCHANGED tag \/ Untag(gc.checked)
    /\ lock' = Nobody
    /\ gc' = IdleGC
    /\ Goto(a, Broken(a))
    /\ UNCHANGED <<container, origin, inventory>>
    /\ CollectFrame

EndCollection(a) ==
    /\ lock = a
    /\ gc.checked = NoReference
    /\ gc.todo = {} \/ (gc.free >= TargetFree /\ ~gc.must)
    /\ lock' = Nobody
    /\ gc' = IdleGC
    /\ Goto(a, Afterwards(a))
    /\ UNCHANGED <<docker, inventory>>
    /\ CollectFrame

Collect(a) ==
    \/ NoCollection(a)
    \/ BeginCollection(a)
    \/ PassOver(a)
    \/ ForgetStale(a)
    \/ Confirm(a)
    \/ RemoveImage(a)
    \/ RemoveFails(a)
    \/ CollectionRaises(a)
    \/ EndCollection(a)

-----------------------------------------------------------------------------
(* Others, and the end of the process *)

\* Another user of the daemon removes or pulls an image.
External(ref) ==
    /\ external < MaxExternal
    /\ external' = external + 1
    /\ \E id \in ImagesOf[ref] \cup {NoImage} : tag' = [tag EXCEPT ![ref] = id]
    /\ origin' = [origin EXCEPT ![ref] = "other"]
    /\ UNCHANGED <<now, container, inventory, reservations, lock, gc, threads, restarts>>

\* Only the inventory file survives a process.
Restart ==
    /\ restarts < MaxRestarts
    /\ restarts' = restarts + 1
    /\ records' = saved
    /\ origin' = [ref \in References |->
                     IF origin[ref] = "broker" /\ saved[ref].id # tag[ref]
                       THEN "lost" ELSE origin[ref]]
    /\ reservations' = [i \in Images |-> 0]
    /\ lock' = Nobody
    /\ gc' = IdleGC
    /\ at' = [a \in Actors |-> IF at[a] \in {"new", "done"} THEN at[a] ELSE "failed"]
    /\ UNCHANGED <<now, tag, container, saved, wants, image, answered, external>>

CreatorStep(c) ==
    \/ \E ref \in References : RequestSandbox(c, ref)
    \/ Resolve(c)
    \/ Touch(c)
    \/ Pull(c)
    \/ RecordPulled(c)
    \/ Reserve(c)
    \/ CreateContainer(c)
    \/ Unreserve(c)
    \/ DeleteContainer(c)

BuilderStep(b) ==
    \/ \E ref \in Tags : RequestBuild(b, ref)
    \/ PassGate(b)
    \/ ReuseBuilt(b)
    \/ Build(b)
    \/ RecordBuilt(b)
    \/ LeaveGate(b)

Next ==
    \/ Tick
    \/ \E c \in Creators : CreatorStep(c)
    \/ \E b \in Builders : BuilderStep(b)
    \/ \E a \in Actors : DockerFails(a) \/ DiskFull(a) \/ Collect(a)
    \/ \E ref \in References : External(ref)
    \/ Restart

Spec == Init /\ [][Next]_vars

-----------------------------------------------------------------------------
(* Properties *)

\* A step of a collection that removes the image a reference resolves to.
Collects(ref) == gc.checked = ref /\ tag[ref] # NoImage /\ tag'[ref] = NoImage /\ lock # Nobody

\* Collection never removes an image that some create() has reserved, although
\* what is in use was determined when the collection began.  (If the reference
\* stands for another image by now than the one that was looked at, it is that
\* one which goes; nothing is promised then.)
ReservedNotCollected ==
    [][\A ref \in References :
          Collects(ref) /\ tag[ref] = records[ref].id => reservations[tag[ref]] = 0]_vars

\* Collection never removes a tag while a request is registered to build it,
\* waiting ones included.
BuildsNotCollected ==
    [][\A ref \in References : Collects(ref) => ref \notin BuildGates]_vars

\* After a build was answered its image survives every collection for the
\* minimum age, whichever other builds, collections and restarts happen, so
\* that the sandbox request that follows finds it.
GraceKept ==
    [][\A ref \in References :
          Collects(ref) =>
              \A b \in Builders :
                  wants[b] = ref /\ answered[b] # NotAnswered
                      => now - answered[b] >= MinAge]_vars

\* The broker only ever gets one image for this reference.
Steady(ref) == \A i, j \in ImagesOf[ref] : i = j

\* An image the broker acquired stays in its inventory for as long as the
\* daemon has it under that reference, or its acquirer is about to record it;
\* what is not recorded would never be collected.  There are two ways for one
\* to be in the daemon and in no inventory, which last until the reference is
\* built or pulled again or an identical build finds it: the call that acquired
\* it raised, or the broker ended before the record was on disk.  Collections,
\* their failing calls, hits, other threads and failed saves are none.  (Where a
\* reference can come to stand for another image, a thread that still knows the
\* old one can record it, or drop the record of the new one.)
OwnedIsTracked ==
    \A ref \in References :
        Steady(ref) /\ origin[ref] # "other" /\ tag[ref] # NoImage =>
            \/ records[ref].id = tag[ref]
            \/ \E a \in Actors : at[a] = "record" /\ wants[a] = ref
            \/ origin[ref] \in {"unreported", "lost"}

\* A docker build is started only for a tag the daemon does not have, so that
\* identical requests share one build; or somebody else has put the tag there
\* since, or it is the second attempt and the first left the image.
NoDuplicateBuild ==
    \A b \in Builders :
        at[b] \in {"build", "rebuild"} =>
            \/ tag[wants[b]] = NoImage
            \/ external > 0 /\ origin[wants[b]] = "other"
            \/ at[b] = "rebuild" /\ origin[wants[b]] = "unreported"

\* Reservations are counted exactly: none leaks and none is given back twice.
ReservationsExact ==
    \A i \in Images :
        reservations[i] =
            Cardinality({c \in Creators : at[c] \in {"create", "release", "abort"} /\ image[c] = i})

\* SPEC, broker-owned image cache: a reservation closes the gap between
\* resolving an image and creating its container.  (It does not: the image can
\* be collected before it is reserved, and then create() fails.)
ResolvedImageIsThere ==
    \A c \in Creators : at[c] = "create" => tag[wants[c]] # NoImage
=============================================================================
