------------------------- MODULE ImageCache_proofs -------------------------
(* What ImageCache promises, for any number of threads, references and      *)
(* images.                                                                   *)
EXTENDS ImageCache, FiniteSetTheorems, TLAPS

\* Stages in which a thread still needs what it resolved, pulled or built.
Knowing == {"touch", "record"}
Reserving == {"create", "release", "abort"}

\* A request has the stages of its kind, and a reference of its kind.
Placed ==
    /\ \A b \in Builders :
          /\ at[b] \in InGate \cup {"new", "done", "failed"}
          /\ at[b] \in InGate => wants[b] \in Tags
    /\ \A c \in Creators :
          /\ at[c] \notin {"gate", "inspect", "build", "rebuild", "leave"}
          /\ at[c] # "new" => wants[c] \in References
          /\ at[c] \in {"reserve"} \cup Reserving => image[c] \in Images

\* What the daemon has, and what a thread got from it, was made for the
\* reference.
MadeFor ==
    /\ \A ref \in References : tag[ref] \in ImagesOf[ref] \cup {NoImage}
    /\ \A a \in Actors : at[a] \in Knowing =>
          wants[a] \in References /\ image[a] \in ImagesOf[wants[a]]

\* Builds of one tag pass the gate one at a time.
OneInside ==
    \A b, d \in Builders :
        at[b] \in Inside /\ at[d] \in Inside /\ wants[b] = wants[d] => b = d

\* From the moment a build found its tag missing until it builds it, nobody
\* but another user of the daemon makes that tag, or its own first attempt.
MissingUntilBuilt ==
    \A b \in Builders :
        at[b] \in {"collect", "build", "emergency", "rebuild"} =>
            \/ tag[wants[b]] = NoImage
            \/ external > 0 /\ origin[wants[b]] = "other"
            \/ at[b] \in {"emergency", "rebuild"} /\ origin[wants[b]] = "unreported"

\* A collection in progress: what it still has to look at is recorded, what is
\* reserved is among what it takes to be in use, and what it is about to remove
\* was looked at.
Collection ==
    IF lock = Nobody
      THEN gc.checked = NoReference
      ELSE /\ at[lock] \in Collecting
           /\ gc.todo \subseteq Recorded
           /\ \A i \in Images : reservations[i] > 0 => i \in gc.active

\* What a collection is about to remove is recorded, old enough, not in use and
\* not being built.
CheckedIsFree ==
    gc.checked # NoReference =>
        /\ lock # Nobody
        /\ gc.checked \in Recorded \ (gc.todo \cup BuildGates)
        /\ records[gc.checked].id \notin gc.active
        /\ now - records[gc.checked].last >= MinAge

\* The image of an answered build has a record no older than the answer, in
\* memory and on disk, or none.
Renewed ==
    \A b \in Builders :
        answered[b] # NotAnswered =>
            /\ at[b] # "new" /\ wants[b] \in References
            /\ answered[b] \in Nat /\ answered[b] <= now
            /\ \A entry \in {records[wants[b]], saved[wants[b]]} :
                  entry.id = NoImage \/ entry.last >= answered[b]

IInv ==
    /\ TypeOK
    /\ Placed
    /\ MadeFor
    /\ OneInside
    /\ MissingUntilBuilt
    /\ Collection
    /\ CheckedIsFree
    /\ Renewed
    /\ ReservationsExact
    /\ OwnedIsTracked

-----------------------------------------------------------------------------
(* Facts about a state that the proofs below share *)

\* A thread has the reference, and where it uses it the image, it needs.
LEMMA Equipped ==
  ASSUME IInv
  PROVE  /\ \A c \in Creators : at[c] # "new" => wants[c] \in References
         /\ \A b \in Builders : at[b] \in InGate => wants[b] \in References /\ wants[b] \in Tags
         /\ \A a \in Actors : at[a] \in Knowing => wants[a] \in References /\ image[a] \in Images
         /\ \A c \in Creators : at[c] \in {"reserve"} \cup Reserving => image[c] \in Images
  BY ImageCacheAssumption DEF IInv, Placed, MadeFor, Knowing

\* Who counts for the reservation of an image.
ReservedBy(i) == {c \in Creators : at[c] \in Reserving /\ image[c] = i}

LEMMA ReservedByFinite ==
  \A i \in Images :
      /\ IsFiniteSet(ReservedBy(i))
      /\ Cardinality(ReservedBy(i)) \in 0..Cardinality(Creators)
      /\ IsFiniteSet(ReservedBy(i)')
      /\ Cardinality(ReservedBy(i)') \in 0..Cardinality(Creators)
  <1>1. \A i \in Images : ReservedBy(i) \subseteq Creators /\ ReservedBy(i)' \subseteq Creators
    BY DEF ReservedBy
  <1>2. \A S \in SUBSET Creators :
            IsFiniteSet(S) /\ Cardinality(S) \in 0..Cardinality(Creators)
    BY ImageCacheAssumption, FS_Subset, FS_CardinalityType
  <1> QED BY <1>1, <1>2

LEMMA ExactByName ==
  /\ ReservationsExact <=> \A i \in Images : reservations[i] = Cardinality(ReservedBy(i))
  /\ ReservationsExact' <=> \A i \in Images : reservations'[i] = Cardinality(ReservedBy(i)')
  BY DEF ReservationsExact, ReservedBy, Reserving

-----------------------------------------------------------------------------
(* Reservations *)

\* What every step does to reservations: nothing to them and to those who have
\* one, or one request takes or returns one, or all are gone.
ReservationsKept ==
    /\ UNCHANGED reservations
    /\ \A c \in Creators : 
          /\ at'[c] \in Reserving <=> at[c] \in Reserving
          /\ at[c] \in Reserving => image'[c] = image[c]

\* A thread that goes from one stage without a reservation to another.
LEMMA MoveWithout ==
  ASSUME TypeOK, NEW a \in Actors, NEW stage, Goto(a, stage) \/ UNCHANGED at,
         at[a] \notin Reserving, stage \notin Reserving, UNCHANGED <<reservations, image>>
  PROVE  ReservationsKept
  BY DEF TypeOK, Goto, ReservationsKept, Actors

LEMMA CreatorReservations ==
  ASSUME IInv, NEW c \in Creators, CreatorStep(c), ~Reserve(c), ~Unreserve(c)
  PROVE  ReservationsKept
  <1> USE ImageCacheAssumption DEF StepFrame, docker, inventory, threads, bounds, ReservationsKept,
          Reserving, Goto, IInv, TypeOK, Actors
  <1>1. ASSUME NEW ref \in References, RequestSandbox(c, ref) PROVE ReservationsKept
    BY <1>1 DEF RequestSandbox
  <1>2. CASE Resolve(c)
    BY <1>2 DEF Resolve
  <1>3. CASE Touch(c)
    BY <1>3 DEF Touch, Store, Broken
  <1>4. CASE Pull(c)
    BY <1>4 DEF Pull
  <1>5. CASE RecordPulled(c)
    BY <1>5 DEF RecordPulled, Store, Broken
  <1>6. CASE CreateContainer(c)
    BY <1>6 DEF CreateContainer
  <1>7. CASE DeleteContainer(c)
    BY <1>7 DEF DeleteContainer
  <1> QED BY <1>1, <1>2, <1>3, <1>4, <1>5, <1>6, <1>7 DEF CreatorStep

LEMMA BuilderReservations ==
  ASSUME IInv, NEW b \in Builders, BuilderStep(b)
  PROVE  ReservationsKept
  <1> USE ImageCacheAssumption DEF StepFrame, docker, inventory, threads, bounds, ReservationsKept,
          Goto, IInv, TypeOK, Actors
  <1>1. ASSUME NEW ref \in Tags, RequestBuild(b, ref) PROVE ReservationsKept
    BY <1>1 DEF RequestBuild
  <1>2. CASE PassGate(b)
    BY <1>2 DEF PassGate
  <1>3. CASE ReuseBuilt(b)
    BY <1>3 DEF ReuseBuilt, Store, Hit
  <1>4. CASE Build(b)
    BY <1>4 DEF Build
  <1>5. CASE RecordBuilt(b)
    BY <1>5 DEF RecordBuilt, Store
  <1>6. CASE LeaveGate(b)
    BY <1>6 DEF LeaveGate
  <1> QED BY <1>1, <1>2, <1>3, <1>4, <1>5, <1>6 DEF BuilderStep

LEMMA SharedReservations ==
  ASSUME IInv, NEW a \in Actors, DockerFails(a) \/ DiskFull(a) \/ Collect(a)
  PROVE  ReservationsKept
  <1> USE ImageCacheAssumption DEF StepFrame, docker, inventory, threads, bounds, ReservationsKept,
          Reserving, Goto, IInv, TypeOK, Broken, CollectFrame, Collection
  <1>0. Broken(a) \in {"leave", "failed"}
    OBVIOUS
  <1>1. CASE DockerFails(a)
    <2>1. CASE at[a] = "create" /\ Goto(a, "abort")
      BY <1>1, <2>1 DEF DockerFails
    <2>2. CASE at[a] \notin Reserving /\ Goto(a, Broken(a))
      BY <1>0, <1>1, <2>2 DEF DockerFails
    <2> QED BY <1>1, <2>1, <2>2 DEF DockerFails
  <1>2. CASE DiskFull(a)
    BY <1>2 DEF DiskFull
  <1>3. CASE NoCollection(a)
    BY <1>3 DEF NoCollection, Afterwards, Collecting
  <1>4. CASE BeginCollection(a) \/ PassOver(a) \/ Confirm(a) \/ RemoveFails(a)
    BY <1>4 DEF BeginCollection, PassOver, Confirm, RemoveFails
  <1>5. CASE ForgetStale(a)
    <2>1. at[a] \in Collecting /\ (at' = at \/ Goto(a, Broken(a)))
      BY <1>5 DEF ForgetStale, ForgetAndGo, NextRecord
    <2>2. UNCHANGED <<reservations, image>>
      BY <1>5 DEF ForgetStale
    <2>3. at[a] \notin Reserving /\ Broken(a) \notin Reserving
      BY <1>0, <2>1 DEF Collecting
    <2> QED BY <2>1, <2>2, <2>3, MoveWithout
  <1>6. CASE RemoveImage(a)
    <2>1. at[a] \in Collecting /\ (at' = at \/ Goto(a, Broken(a)))
      BY <1>6 DEF RemoveImage, ForgetAndGo
    <2>2. UNCHANGED <<reservations, image>>
      BY <1>6 DEF RemoveImage
    <2>3. at[a] \notin Reserving /\ Broken(a) \notin Reserving
      BY <1>0, <2>1 DEF Collecting
    <2> QED BY <2>1, <2>2, <2>3, MoveWithout
  <1>7. CASE EndCollection(a)
    BY <1>7 DEF EndCollection, Afterwards, Collecting
  <1>8. CASE CollectionRaises(a)
    <2>1. at[a] \in Collecting /\ Goto(a, Broken(a)) /\ UNCHANGED <<reservations, image>>
      BY <1>8 DEF CollectionRaises, NextRecord
    <2>2. at[a] \notin Reserving /\ Broken(a) \notin Reserving
      BY <1>0, <2>1 DEF Collecting
    <2> QED BY <2>1, <2>2, MoveWithout
  <1> QED BY <1>1, <1>2, <1>3, <1>4, <1>5, <1>6, <1>7, <1>8 DEF Collect

LEMMA KeptIsExact ==
  ASSUME IInv, ReservationsKept
  PROVE  ReservationsExact' /\ UNCHANGED reservations
  <1>1. \A i \in Images : ReservedBy(i)' = ReservedBy(i)
    BY DEF ReservationsKept, ReservedBy
  <1> QED BY <1>1, ExactByName DEF IInv, ReservationsKept

LEMMA ReserveIsExact ==
  ASSUME IInv, NEW c \in Creators, Reserve(c)
  PROVE  /\ ReservationsExact'
         /\ reservations' \in [Images -> Int]
  <1>0. PICK id \in Images : id = image[c]
    BY Equipped DEF Reserve, Reserving
  <1>1. /\ reservations \in [Images -> Int]
        /\ reservations' = [reservations EXCEPT ![id] = @ + 1]
        /\ c \notin ReservedBy(id)
        /\ ReservedBy(id)' = ReservedBy(id) \cup {c}
        /\ \A i \in Images \ {id} : ReservedBy(i)' = ReservedBy(i)
    BY <1>0 DEF IInv, TypeOK, Actors, Reserve, Goto, ReservedBy, Reserving
  <1>2. Cardinality(ReservedBy(id)') = Cardinality(ReservedBy(id)) + 1
    BY <1>1, ReservedByFinite, FS_AddElement
  <1>3. \A i \in Images : reservations[i] = Cardinality(ReservedBy(i))
    BY ExactByName DEF IInv
  <1>4. \A i \in Images : reservations'[i] = Cardinality(ReservedBy(i)')
    BY <1>1, <1>2, <1>3
  <1> QED BY <1>1, <1>4, ExactByName

LEMMA UnreserveIsExact ==
  ASSUME IInv, NEW c \in Creators, Unreserve(c)
  PROVE  /\ ReservationsExact'
         /\ reservations' \in [Images -> Int]
  <1>a. at' = [at EXCEPT ![c] = IF at[c] = "release" THEN "up" ELSE "failed"]
    BY DEF Unreserve, Goto
  <1>0. PICK id \in Images : id = image[c]
    BY Equipped DEF Unreserve, Reserving
  <1>1. /\ reservations \in [Images -> Int]
        /\ reservations' = [reservations EXCEPT ![id] = @ - 1]
        /\ c \in ReservedBy(id)
        /\ ReservedBy(id)' = ReservedBy(id) \ {c}
        /\ \A i \in Images \ {id} : ReservedBy(i)' = ReservedBy(i)
    BY <1>0, <1>a DEF IInv, TypeOK, Actors, Unreserve, ReservedBy, Reserving
  <1>2. Cardinality(ReservedBy(id)') = Cardinality(ReservedBy(id)) - 1
    BY <1>1, ReservedByFinite, FS_RemoveElement
  <1>3. \A i \in Images : reservations[i] = Cardinality(ReservedBy(i))
    BY ExactByName DEF IInv
  <1>4. \A i \in Images : reservations'[i] = Cardinality(ReservedBy(i)')
    BY <1>1, <1>2, <1>3
  <1> QED BY <1>1, <1>4, ExactByName

LEMMA RestartIsExact ==
  ASSUME IInv, Restart
  PROVE  /\ ReservationsExact'
         /\ reservations' \in [Images -> Int]
  <1>1. \A i \in Images : ReservedBy(i)' = {} /\ reservations'[i] = 0
    BY DEF IInv, TypeOK, Actors, Restart, ReservedBy, Reserving
  <1>2. reservations' \in [Images -> Int]
    BY DEF Restart
  <1> QED BY <1>1, <1>2, ExactByName, FS_EmptySet

\* Every step keeps the reservations exact, and hence within their bounds.
LEMMA ReservationsStep ==
  ASSUME IInv, [Next]_vars
  PROVE  /\ ReservationsExact'
         /\ reservations' \in [Images -> 0..Cardinality(Creators)]
  <1>1. ReservationsExact' /\ reservations' \in [Images -> Int]
    <2> USE DEF IInv, TypeOK
    <2>1. CASE Tick \/ (\E ref \in References : External(ref)) \/ UNCHANGED vars
      <3>1. ReservationsKept
        BY <2>1 DEF Tick, External, vars, threads, ReservationsKept
      <3> QED BY <3>1, KeptIsExact
    <2>2. ASSUME NEW c \in Creators, CreatorStep(c)
          PROVE  ReservationsExact' /\ reservations' \in [Images -> Int]
      BY <2>2, CreatorReservations, KeptIsExact, ReserveIsExact, UnreserveIsExact
    <2>3. ASSUME NEW b \in Builders, BuilderStep(b)
          PROVE  ReservationsExact' /\ reservations' \in [Images -> Int]
      BY <2>3, BuilderReservations, KeptIsExact
    <2>4. ASSUME NEW a \in Actors, DockerFails(a) \/ DiskFull(a) \/ Collect(a)
          PROVE  ReservationsExact' /\ reservations' \in [Images -> Int]
      BY <2>4, SharedReservations, KeptIsExact
    <2> QED BY <2>1, <2>2, <2>3, <2>4, RestartIsExact DEF Next
  <1> QED BY <1>1, ReservedByFinite, ExactByName

-----------------------------------------------------------------------------
(* Types *)

ReservationsTyped == reservations \in [Images -> 0..Cardinality(Creators)]

\* The records that can be stored are records.
LEMMA EntriesAreRecords ==
  ASSUME TypeOK, NEW ref \in References
  PROVE  /\ Forgetting(ref) \in [References -> Record]
         /\ \A id \in Images : With(ref, id) \in [References -> Record]
  BY DEF TypeOK, With, Forgetting, Entry, NoRecord, Record

\* What Store does to the types of records, saved and at.
LEMMA StoreTypes ==
  ASSUME TypeOK, NEW a \in Actors, NEW stage \in Stages, NEW new \in [References -> Record],
         Store(new, a, stage)
  PROVE  /\ records' \in [References -> Record]
         /\ saved' \in [References -> Record]
         /\ at' \in [Actors -> Stages]
  <1>1. Broken(a) \in Stages
    BY DEF Broken, Stages, InGate, Ended
  <1> QED BY <1>1 DEF TypeOK, Store, Goto

LEMMA CreatorTypes ==
  ASSUME IInv, NEW c \in Creators, CreatorStep(c), ReservationsTyped'
  PROVE  TypeOK'
  <1> USE DEF StepFrame, docker, inventory, threads, bounds, ReservationsTyped
  <1>0. /\ c \in Actors /\ TypeOK
        /\ {"resolve", "touch", "collect", "reserve", "create", "release", "abort", "record", "up",
            "deleted", "failed"} \subseteq Stages
    BY DEF IInv, Actors, Stages, InGate, Collecting, Ended
  <1>1. ASSUME NEW ref \in References, RequestSandbox(c, ref) PROVE TypeOK'
    BY <1>0, <1>1 DEF TypeOK, RequestSandbox, Goto
  <1>2. CASE Resolve(c)
    <2>1. wants[c] \in References
      BY <1>2, Equipped DEF Resolve
    <2> QED BY <1>0, <1>2, <2>1 DEF TypeOK, Resolve, Goto
  <1>3. CASE Touch(c) \/ RecordPulled(c)
    <2>1. wants[c] \in References /\ image[c] \in Images
      BY <1>0, <1>3, Equipped DEF Touch, RecordPulled, Knowing
    <2>2. \/ Goto(c, "reserve") /\ UNCHANGED inventory
          \/ \E new \in {With(wants[c], image[c]), Forgetting(wants[c])} : Store(new, c, "reserve")
      BY <1>3 DEF Touch, RecordPulled
    <2>3. /\ records' \in [References -> Record]
          /\ saved' \in [References -> Record]
          /\ at' \in [Actors -> Stages]
      <3>1. CASE Goto(c, "reserve") /\ UNCHANGED inventory
        BY <1>0, <3>1 DEF TypeOK, Goto
      <3>2. CASE \E new \in {With(wants[c], image[c]), Forgetting(wants[c])} :
                     Store(new, c, "reserve")
        BY <1>0, <2>1, <3>2, StoreTypes, EntriesAreRecords
      <3> QED BY <2>2, <3>1, <3>2
    <2> QED BY <1>0, <1>3, <2>3 DEF TypeOK, Touch, RecordPulled
  <1>4. CASE Pull(c)
    <2>1. wants[c] \in References
      BY <1>4, Equipped DEF Pull
    <2>2. ImagesOf[wants[c]] \subseteq Images
      BY <2>1, ImageCacheAssumption
    <2> QED BY <1>0, <1>4, <2>1, <2>2 DEF TypeOK, Pull, Acquired, Goto
  <1>5. CASE CreateContainer(c)
    <2>1. wants[c] \in References
      BY <1>5, Equipped DEF CreateContainer
    <2> QED BY <1>0, <1>5, <2>1 DEF TypeOK, CreateContainer, Goto
  <1>6. CASE Reserve(c)
    BY <1>0, <1>6 DEF TypeOK, Reserve, Goto
  <1>7. CASE Unreserve(c)
    BY <1>0, <1>7 DEF TypeOK, Unreserve, Goto
  <1>8. CASE DeleteContainer(c)
    BY <1>0, <1>8 DEF TypeOK, DeleteContainer, Goto
  <1> QED BY <1>1, <1>2, <1>3, <1>4, <1>5, <1>6, <1>7, <1>8 DEF CreatorStep

LEMMA BuilderTypes ==
  ASSUME IInv, NEW b \in Builders, BuilderStep(b), ReservationsTyped'
  PROVE  TypeOK'
  <1> USE DEF StepFrame, docker, inventory, threads, bounds, ReservationsTyped
  <1>0. /\ b \in Actors /\ TypeOK /\ Tags \subseteq References
        /\ {"gate", "inspect", "collect", "record", "leave", "done"} \subseteq Stages
    BY ImageCacheAssumption DEF IInv, Actors, Stages, InGate, Collecting, Ended
  <1>1. ASSUME NEW ref \in Tags, RequestBuild(b, ref) PROVE TypeOK'
    BY <1>0, <1>1 DEF TypeOK, RequestBuild, Goto
  <1>2. CASE PassGate(b)
    BY <1>0, <1>2 DEF TypeOK, PassGate, Goto
  <1>3. CASE ReuseBuilt(b) \/ RecordBuilt(b)
    <2>1. wants[b] \in References
      BY <1>3, Equipped DEF ReuseBuilt, RecordBuilt, InGate
    <2>2. RecordBuilt(b) => image[b] \in Images
      BY <1>0, Equipped DEF RecordBuilt, Knowing
    <2>3. tag[wants[b]] \in Images \cup {NoImage}
      BY <1>0, <2>1 DEF TypeOK
    <2>4. /\ records' \in [References -> Record]
          /\ saved' \in [References -> Record]
          /\ at' \in [Actors -> Stages]
      <3>1. \/ \E stage \in {"collect", "leave"} : Goto(b, stage) /\ UNCHANGED inventory
            \/ Store(Forgetting(wants[b]), b, "collect")
            \/ \E id \in Images : Store(With(wants[b], id), b, "leave")
        BY <1>3, <2>2, <2>3 DEF ReuseBuilt, RecordBuilt, Hit
      <3>2. CASE \E stage \in {"collect", "leave"} : Goto(b, stage) /\ UNCHANGED inventory
        BY <1>0, <3>2 DEF TypeOK, Goto
      <3> QED BY <1>0, <2>1, <3>1, <3>2, StoreTypes, EntriesAreRecords
    <2>5. answered' \in [Builders -> {NotAnswered} \cup Nat]
      BY <1>0, <1>3 DEF TypeOK, ReuseBuilt, RecordBuilt, Hit, NoteAnswer
    <2>6. origin' \in [References -> {"broker", "other", "unreported", "lost"}]
      BY <1>0, <1>3 DEF TypeOK, ReuseBuilt, RecordBuilt, Hit
    <2> QED BY <1>0, <1>3, <2>4, <2>5, <2>6 DEF TypeOK, ReuseBuilt, RecordBuilt
  <1>4. CASE Build(b)
    <2>1. wants[b] \in References
      BY <1>4, Equipped DEF Build, InGate
    <2>2. ImagesOf[wants[b]] \subseteq Images
      BY <2>1, ImageCacheAssumption
    <2> QED BY <1>0, <1>4, <2>1, <2>2 DEF TypeOK, Build, Acquired, Goto
  <1>5. CASE LeaveGate(b)
    BY <1>0, <1>5 DEF TypeOK, LeaveGate, Goto
  <1> QED BY <1>1, <1>2, <1>3, <1>4, <1>5 DEF BuilderStep

GCType == [todo : SUBSET References, active : SUBSET Images, free : Nat, must : BOOLEAN,
           checked : References \cup {NoReference}]

\* How a collection goes on or ends after it dropped a record.
LEMMA ForgetTypes ==
  ASSUME TypeOK, NEW a \in Actors, NEW ref \in References, NEW next \in GCType,
         ForgetAndGo(a, ref, next)
  PROVE  /\ records' \in [References -> Record]
         /\ saved' \in [References -> Record]
         /\ at' \in [Actors -> Stages]
         /\ gc' \in GCType
         /\ lock' \in Actors \cup {Nobody}
  <1>1. Broken(a) \in Stages /\ IdleGC \in GCType
    BY DEF Broken, Stages, InGate, Ended, IdleGC, GCType
  <1>2. Forgetting(ref) \in [References -> Record]
    BY EntriesAreRecords
  <1> QED BY <1>1, <1>2 DEF TypeOK, ForgetAndGo, Goto

\* A pull or build that raised leaves the daemon's state of its type.
LEMMA UnreportedTypes ==
  ASSUME TypeOK, NEW a \in Actors, wants[a] \in References, Unreported(a)
  PROVE  /\ tag' \in [References -> Images \cup {NoImage}]
         /\ origin' \in [References -> {"broker", "other", "unreported", "lost"}]
         /\ UNCHANGED container
  <1>1. ImagesOf[wants[a]] \subseteq Images
    BY ImageCacheAssumption
  <1> QED BY <1>1 DEF TypeOK, Unreported

\* Who pulls, builds or creates a container does so for a reference.
LEMMA Acquiring ==
  ASSUME IInv, NEW a \in Actors,
         at[a] \in {"pull", "build", "repull", "rebuild", "create"}
  PROVE  wants[a] \in References
  BY Equipped DEF InGate, IInv, Placed, Actors

LEMMA SharedTypes ==
  ASSUME IInv, NEW a \in Actors, DockerFails(a) \/ DiskFull(a) \/ Collect(a), ReservationsTyped'
  PROVE  TypeOK'
  <1> USE DEF StepFrame, CollectFrame, docker, inventory, threads, bounds, ReservationsTyped
  <1>0. /\ TypeOK /\ gc \in GCType
        /\ Broken(a) \in Stages
        /\ at[a] \in Collecting => Afterwards(a) \in Stages
        /\ {"abort", "emergency"} \subseteq Stages
        /\ IdleGC \in GCType
    BY DEF IInv, TypeOK, GCType, Broken, Afterwards, Stages, InGate, Collecting, Ended, IdleGC
  <1>1. CASE DockerFails(a)
    <2>1. at' \in [Actors -> Stages]
      BY <1>0, <1>1 DEF TypeOK, DockerFails, Goto
    <2>2. /\ tag' \in [References -> Images \cup {NoImage}]
          /\ origin' \in [References -> {"broker", "other", "unreported", "lost"}]
      <3>1. UNCHANGED <<tag, origin>> \/ (wants[a] \in References /\ Unreported(a))
        BY <1>1, Acquiring DEF DockerFails
      <3> QED BY <1>0, <3>1, UnreportedTypes DEF TypeOK
    <2>3. container' \in [Creators -> Images \cup {NoImage}]
      <3>1. \/ UNCHANGED container
            \/ /\ wants[a] \in References
               /\ container' = [container EXCEPT ![a] = tag[wants[a]]]
        BY <1>1, Acquiring DEF DockerFails, Unreported
      <3> QED BY <1>0, <3>1 DEF TypeOK
    <2> QED BY <1>0, <1>1, <2>1, <2>2, <2>3 DEF TypeOK, DockerFails
  <1>2. CASE DiskFull(a)
    <2>1. at' \in [Actors -> Stages]
      BY <1>0, <1>2 DEF TypeOK, DiskFull, Goto
    <2>2. wants[a] \in References /\ Unreported(a)
      BY <1>2, Acquiring DEF DiskFull
    <2> QED BY <1>0, <1>2, <2>1, <2>2, UnreportedTypes DEF TypeOK, DiskFull
  <1>3. CASE NoCollection(a)
    BY <1>0, <1>3 DEF TypeOK, NoCollection, Goto
  <1>4. CASE BeginCollection(a)
    <2>1. ActiveImages \subseteq Images /\ Recorded \subseteq References
      BY <1>0 DEF TypeOK, ActiveImages, Recorded
    <2>2. gc' \in GCType
      BY <1>4, <2>1, ImageCacheAssumption DEF BeginCollection, GCType
    <2> QED BY <1>0, <1>4, <2>2 DEF TypeOK, BeginCollection, GCType
  <1>5. CASE PassOver(a) \/ Confirm(a) \/ RemoveFails(a)
    <2>1. gc' \in GCType
      BY <1>0, <1>5 DEF PassOver, Confirm, RemoveFails, GCType
    <2>2. UNCHANGED <<container, origin, inventory, lock, at, now, wants, image, answered, bounds>>
      BY <1>5 DEF PassOver, Confirm, RemoveFails
    <2>3. tag' \in [References -> Images \cup {NoImage}]
      BY <1>0, <1>5 DEF TypeOK, PassOver, Confirm, RemoveFails, Untag
    <2> QED BY <1>0, <2>1, <2>2, <2>3 DEF TypeOK, GCType
  <1>6. CASE ForgetStale(a)
    <2>1. PICK ref \in References : ForgetAndGo(a, ref, [gc EXCEPT !.todo = @ \ {ref}])
      BY <1>6 DEF ForgetStale
    <2>2. [gc EXCEPT !.todo = @ \ {ref}] \in GCType
      BY <1>0 DEF GCType
    <2> QED BY <1>0, <1>6, <2>1, <2>2, ForgetTypes DEF TypeOK, ForgetStale, GCType
  <1>7. CASE RemoveImage(a)
    <2>1. PICK free \in FreeBytes :
              ForgetAndGo(a, gc.checked,
                          [gc EXCEPT !.checked = NoReference, !.must = FALSE, !.free = free])
      BY <1>7 DEF RemoveImage
    <2>2. /\ gc.checked \in References
          /\ [gc EXCEPT !.checked = NoReference, !.must = FALSE, !.free = free] \in GCType
      BY <1>0, <1>7, ImageCacheAssumption DEF GCType, RemoveImage
    <2>3. tag' \in [References -> Images \cup {NoImage}]
      BY <1>0, <1>7 DEF TypeOK, RemoveImage, Untag
    <2> QED BY <1>0, <1>7, <2>1, <2>2, <2>3, ForgetTypes DEF TypeOK, RemoveImage, GCType
  <1>8. CASE EndCollection(a)
    <2>1. Afterwards(a) \in Stages
      BY <1>0, <1>8, ImageCacheAssumption DEF IInv, Collection, EndCollection
    <2> QED BY <1>0, <1>8, <2>1 DEF TypeOK, EndCollection, Goto, GCType
  <1>9. CASE CollectionRaises(a)
    <2>1. tag' \in [References -> Images \cup {NoImage}]
      BY <1>0, <1>9 DEF TypeOK, CollectionRaises, Untag
    <2> QED BY <1>0, <1>9, <2>1 DEF TypeOK, CollectionRaises, Goto, GCType
  <1> QED BY <1>1, <1>2, <1>3, <1>4, <1>5, <1>6, <1>7, <1>8, <1>9 DEF Collect

LEMMA TypesStep ==
  ASSUME IInv, [Next]_vars
  PROVE  TypeOK'
  <1>0. ReservationsTyped' /\ TypeOK
    BY ReservationsStep DEF ReservationsTyped, IInv
  <1>1. CASE Tick \/ UNCHANGED vars
    BY <1>0, <1>1 DEF TypeOK, Tick, vars, docker, inventory, threads, bounds
  <1>2. ASSUME NEW ref \in References, External(ref) PROVE TypeOK'
    <2>1. ImagesOf[ref] \subseteq Images
      BY ImageCacheAssumption
    <2> QED BY <1>0, <1>2, <2>1 DEF TypeOK, External, inventory, threads
  <1>3. CASE Restart
    <2>1. /\ "failed" \in Stages
          /\ IdleGC \in [todo : SUBSET References, active : SUBSET Images, free : Nat,
                         must : BOOLEAN, checked : References \cup {NoReference}]
      BY DEF Stages, Ended, IdleGC
    <2>2. at' \in [Actors -> Stages] /\ origin' \in [References -> {"broker", "other", "unreported", "lost"}]
      BY <1>0, <1>3, <2>1 DEF TypeOK, Restart
    <2> QED BY <1>0, <1>3, <2>1, <2>2 DEF TypeOK, Restart, ReservationsTyped
  <1> QED
    BY <1>0, <1>1, <1>2, <1>3, CreatorTypes, BuilderTypes, SharedTypes DEF Next

-----------------------------------------------------------------------------
(* Where threads are *)

\* A step of one thread leaves the others where they are.
OnlyMoves(a) ==
    \A d \in Actors \ {a} : at'[d] = at[d] /\ wants'[d] = wants[d] /\ image'[d] = image[d]

BuilderStages == {"gate", "inspect", "build", "rebuild", "leave"}

LEMMA CreatorMoves ==
  ASSUME IInv, NEW c \in Creators, CreatorStep(c)
  PROVE  /\ OnlyMoves(c)
         /\ at[c] = "new" \/ UNCHANGED wants
         /\ at'[c] \notin {"new"} \cup BuilderStages
         /\ wants'[c] \in References
         /\ at'[c] \in {"reserve"} \cup Reserving => image'[c] \in Images
         /\ at'[c] = "record" => at[c] \in {"pull", "repull"}
         /\ at'[c] = "touch" => at[c] = "resolve"
  <1> USE DEF StepFrame, Goto, OnlyMoves, BuilderStages, Reserving, Knowing
  <1>0. c \in Actors /\ c \notin Builders /\ TypeOK
    BY ImageCacheAssumption DEF IInv, Actors
  <1>1. ASSUME NEW ref \in References, RequestSandbox(c, ref)
        PROVE  /\ at[c] = "new" /\ at'[c] = "resolve" /\ wants'[c] = ref /\ OnlyMoves(c)
    BY <1>0, <1>1 DEF TypeOK, RequestSandbox
  <1>2. CASE Resolve(c)
    BY <1>0, <1>2, Equipped DEF TypeOK, Resolve
  <1>3. CASE Touch(c)
    BY <1>0, <1>3, Equipped DEF TypeOK, Touch, Store, Broken
  <1>4. CASE Pull(c)
    BY <1>0, <1>4, Equipped DEF TypeOK, Pull
  <1>5. CASE RecordPulled(c)
    BY <1>0, <1>5, Equipped DEF TypeOK, RecordPulled, Store, Broken
  <1>6. CASE CreateContainer(c)
    BY <1>0, <1>6, Equipped DEF TypeOK, CreateContainer
  <1>7. CASE Reserve(c)
    BY <1>0, <1>7, Equipped DEF TypeOK, Reserve
  <1>8. CASE Unreserve(c)
    BY <1>0, <1>8, Equipped DEF TypeOK, Unreserve
  <1>9. CASE DeleteContainer(c)
    BY <1>0, <1>9, Equipped DEF TypeOK, DeleteContainer
  <1> QED BY <1>1, <1>2, <1>3, <1>4, <1>5, <1>6, <1>7, <1>8, <1>9 DEF CreatorStep

LEMMA BuilderMoves ==
  ASSUME IInv, NEW b \in Builders, BuilderStep(b)
  PROVE  /\ OnlyMoves(b)
         /\ at[b] = "new" \/ (UNCHANGED wants /\ at[b] \in InGate)
         /\ at'[b] \in InGate \cup {"done"}
         /\ wants'[b] \in Tags
         /\ at'[b] \in {"collect", "build", "emergency", "rebuild"} => ReuseBuilt(b)
         /\ at'[b] \in Inside => at[b] \in Inside \/ PassGate(b)
         /\ at'[b] = "record" => at[b] \in {"build", "rebuild"}
         /\ at'[b] # "touch"
  <1> USE DEF StepFrame, Goto, OnlyMoves, InGate, Inside
  <1>0. b \in Actors /\ TypeOK
    BY DEF IInv, Actors
  <1>1. ASSUME NEW ref \in Tags, RequestBuild(b, ref)
        PROVE  /\ at[b] = "new" /\ at'[b] = "gate" /\ wants'[b] = ref /\ OnlyMoves(b)
    BY <1>0, <1>1 DEF TypeOK, RequestBuild
  <1>2. CASE PassGate(b)
    BY <1>0, <1>2, Equipped DEF TypeOK, PassGate
  <1>3. CASE ReuseBuilt(b)
    <2>1. PICK stage \in {"collect", "leave"} : at' = [at EXCEPT ![b] = stage]
      BY <1>3 DEF ReuseBuilt, Hit, Store, Broken
    <2> QED BY <1>0, <1>3, <2>1, Equipped DEF TypeOK, ReuseBuilt
  <1>4. CASE Build(b)
    BY <1>0, <1>4, Equipped DEF TypeOK, Build
  <1>5. CASE RecordBuilt(b)
    BY <1>0, <1>5, Equipped DEF TypeOK, RecordBuilt, Store, Broken
  <1>6. CASE LeaveGate(b)
    BY <1>0, <1>6, Equipped DEF TypeOK, LeaveGate
  <1> QED BY <1>1, <1>2, <1>3, <1>4, <1>5, <1>6 DEF BuilderStep

\* Failures and collections: a builder goes on or leaves its gate, a creation
\* goes on or fails.
LEMMA SharedMoves ==
  ASSUME IInv, NEW a \in Actors, DockerFails(a) \/ DiskFull(a) \/ Collect(a)
  PROVE  /\ OnlyMoves(a)
         /\ UNCHANGED <<wants, image, answered>>
         /\ at'[a] = at[a]
            \/ /\ at[a] \in {"resolve", "inspect", "pull", "build", "repull", "rebuild", "create"}
                            \cup Collecting
               /\ at'[a] = "abort" => at[a] = "create"
               /\ at'[a] \in {"abort", "leave", "failed", "build", "rebuild", "pull", "repull",
                              "done", "emergency"}
               /\ at'[a] = "leave" => a \in Builders
               /\ at'[a] = "failed" => a \notin Builders
               /\ at'[a] = "done" => at[a] = "deleted"
               /\ at'[a] \in {"pull", "repull"} => a \notin Builders
               /\ at'[a] \in {"build", "rebuild"} => a \in Builders /\ at[a] \in {"collect", "emergency"}
               /\ at'[a] = "build" => at[a] = "collect"
               /\ at'[a] = "emergency" => at[a] \in {"pull", "build"}
  <1> USE DEF StepFrame, CollectFrame, Goto, OnlyMoves, Collecting
  <1>0. TypeOK /\ Broken(a) = IF a \in Builders THEN "leave" ELSE "failed"
    BY DEF IInv, Broken
  <1>1. CASE DockerFails(a)
    <2>1. CASE at[a] = "create" /\ at' = [at EXCEPT ![a] = "abort"]
      BY <1>0, <1>1, <2>1 DEF TypeOK, DockerFails
    <2>2. CASE /\ at[a] \in {"resolve", "inspect", "pull", "build", "repull", "rebuild"}
               /\ at' = [at EXCEPT ![a] = Broken(a)]
      BY <1>0, <1>1, <2>2 DEF TypeOK, DockerFails
    <2> QED BY <1>1, <2>1, <2>2 DEF DockerFails
  <1>2. CASE DiskFull(a)
    BY <1>0, <1>2 DEF TypeOK, DiskFull
  <1>3. CASE Collect(a)
    <2>1. /\ UNCHANGED <<wants, image, answered>>
          /\ \/ UNCHANGED at
             \/ /\ at[a] \in Collecting
                /\ at' = [at EXCEPT ![a] = Afterwards(a)] \/ at' = [at EXCEPT ![a] = Broken(a)]
      <3>1. ASSUME lock = a PROVE at[a] \in Collecting
        BY <3>1, ImageCacheAssumption DEF IInv, Collection
      <3>2. CASE NoCollection(a) \/ BeginCollection(a)
        BY <3>2 DEF NoCollection, BeginCollection
      <3>3. CASE PassOver(a) \/ Confirm(a) \/ RemoveFails(a)
        BY <3>3 DEF PassOver, Confirm, RemoveFails
      <3>4. CASE ForgetStale(a)
        BY <3>1, <3>4 DEF ForgetStale, NextRecord, ForgetAndGo
      <3>5. CASE RemoveImage(a)
        BY <3>1, <3>5 DEF RemoveImage, ForgetAndGo
      <3>6. CASE EndCollection(a)
        BY <3>1, <3>6 DEF EndCollection
      <3>7. CASE CollectionRaises(a)
        BY <3>1, <3>7 DEF CollectionRaises, NextRecord
      <3> QED BY <1>3, <3>2, <3>3, <3>4, <3>5, <3>6, <3>7 DEF Collect
    <2>2. at[a] \in Collecting =>
            Afterwards(a) = CASE at[a] = "collect" -> IF a \in Builders THEN "build" ELSE "pull"
                              [] at[a] = "emergency" -> IF a \in Builders THEN "rebuild" ELSE "repull"
                              [] at[a] = "deleted" -> "done"
      BY DEF Afterwards
    <2> QED BY <1>0, <2>1, <2>2 DEF TypeOK
  <1> QED BY <1>1, <1>2, <1>3

\* A thread is moved by its own steps and by a restart only.
LEMMA OneThread ==
  ASSUME IInv, [Next]_vars, NEW a \in Actors
  PROVE  \/ at'[a] = at[a] /\ wants'[a] = wants[a] /\ image'[a] = image[a]
         \/ a \in Creators /\ CreatorStep(a)
         \/ a \in Builders /\ BuilderStep(a)
         \/ DockerFails(a) \/ DiskFull(a) \/ Collect(a)
         \/ Restart
  <1>1. UNCHANGED vars \/ Tick \/ (\E ref \in References : External(ref)) => UNCHANGED threads
    BY DEF vars, Tick, External
  <1>2. UNCHANGED threads => at'[a] = at[a] /\ wants'[a] = wants[a] /\ image'[a] = image[a]
    BY DEF threads
  <1>3. \A d \in Actors \ {a} :
            OnlyMoves(d) => at'[a] = at[a] /\ wants'[a] = wants[a] /\ image'[a] = image[a]
    BY DEF OnlyMoves
  <1> QED BY <1>1, <1>2, <1>3, CreatorMoves, BuilderMoves, SharedMoves DEF Next, Actors

LEMMA PlacedStep ==
  ASSUME IInv, [Next]_vars
  PROVE  Placed'
  <1> USE DEF Placed, InGate, Reserving, BuilderStages
  <1>0. Placed /\ TypeOK /\ Tags \subseteq References
    BY ImageCacheAssumption DEF IInv
  <1>1. CASE UNCHANGED threads
    BY <1>0, <1>1 DEF threads
  <1>2. ASSUME NEW c \in Creators, CreatorStep(c) PROVE Placed'
    <2>1. c \in Actors /\ c \notin Builders
      BY ImageCacheAssumption DEF Actors
    <2> QED BY <1>0, <1>2, <2>1, CreatorMoves DEF OnlyMoves, Actors
  <1>3. ASSUME NEW b \in Builders, BuilderStep(b) PROVE Placed'
    <2>1. b \in Actors /\ b \notin Creators
      BY ImageCacheAssumption DEF Actors
    <2> QED BY <1>0, <1>3, <2>1, BuilderMoves DEF OnlyMoves, Actors
  <1>4. ASSUME NEW a \in Actors, DockerFails(a) \/ DiskFull(a) \/ Collect(a) PROVE Placed'
    <2>1. ASSUME a \in Builders
          PROVE  /\ at'[a] \in InGate \cup {"new", "done", "failed"}
                 /\ at'[a] \in InGate => wants'[a] \in Tags
      BY <1>0, <1>4, <2>1, SharedMoves DEF Collecting
    <2>2. ASSUME a \notin Builders
          PROVE  /\ at'[a] \notin BuilderStages
                 /\ at'[a] # "new" => at[a] # "new"
                 /\ at'[a] \in {"reserve"} \cup Reserving => at[a] \in {"reserve"} \cup Reserving
      <3>1. a \in Creators
        BY <2>2 DEF Actors
      <3> QED BY <1>0, <1>4, <2>2, <3>1, SharedMoves DEF Collecting
    <2> QED BY <1>0, <1>4, <2>1, <2>2, SharedMoves, ImageCacheAssumption DEF OnlyMoves, Actors
  <1>5. CASE Restart
    BY <1>0, <1>5 DEF Restart, TypeOK, Actors
  <1>6. UNCHANGED vars \/ Tick \/ (\E ref \in References : External(ref)) => UNCHANGED threads
    BY DEF vars, Tick, External
  <1> QED BY <1>1, <1>2, <1>3, <1>4, <1>5, <1>6 DEF Next

LEMMA OneInsideStep ==
  ASSUME IInv, [Next]_vars
  PROVE  OneInside'
  <1> USE DEF OneInside
  <1>0. OneInside /\ TypeOK
    BY DEF IInv
  <1>1. CASE UNCHANGED threads
    BY <1>0, <1>1 DEF threads
  <1>2. ASSUME NEW c \in Creators, CreatorStep(c) PROVE OneInside'
    <2>1. c \notin Builders
      BY ImageCacheAssumption
    <2> QED BY <1>0, <1>2, <2>1, CreatorMoves DEF OnlyMoves, Actors
  <1>3. ASSUME NEW b \in Builders, BuilderStep(b) PROVE OneInside'
    <2>1. at'[b] \in Inside /\ at[b] \notin Inside =>
              \A d \in Builders \ {b} : at[d] \in Inside => wants[d] # wants[b]
      BY <1>3, BuilderMoves DEF PassGate, GateFree
    <2>2. at'[b] \in Inside => wants'[b] = wants[b]
      <3>1. ASSUME NEW ref \in Tags, RequestBuild(b, ref) PROVE at'[b] = "gate"
        BY <1>0, <3>1 DEF TypeOK, RequestBuild, Goto, Actors
      <3>2. at[b] = "new" => \E ref \in Tags : RequestBuild(b, ref)
        BY <1>3 DEF BuilderStep, PassGate, ReuseBuilt, Build, RecordBuilt, LeaveGate
      <3> QED BY <1>3, <3>1, <3>2, BuilderMoves DEF Inside
    <2> QED BY <1>0, <1>3, <2>1, <2>2, BuilderMoves DEF OnlyMoves, Actors
  <1>4. ASSUME NEW a \in Actors, DockerFails(a) \/ DiskFull(a) \/ Collect(a) PROVE OneInside'
    <2>1. at'[a] \in Inside /\ a \in Builders => at[a] \in Inside
      BY <1>4, SharedMoves DEF Inside, InGate, Collecting, IInv, Placed
    <2> QED BY <1>0, <1>4, <2>1, SharedMoves DEF OnlyMoves, Actors
  <1>5. CASE Restart
    BY <1>0, <1>5 DEF Restart, TypeOK, Actors, Inside, InGate
  <1>6. UNCHANGED vars \/ Tick \/ (\E ref \in References : External(ref)) => UNCHANGED threads
    BY DEF vars, Tick, External
  <1> QED BY <1>1, <1>2, <1>3, <1>4, <1>5, <1>6 DEF Next

-----------------------------------------------------------------------------
(* What the daemon has *)

\* How a collection removes the tag it checked.
Removing(a) == (RemoveImage(a) \/ RemoveFails(a) \/ CollectionRaises(a)) /\ Untag(gc.checked)

\* How a pull or build that raises leaves an image.
Leaving(a) == (DockerFails(a) \/ DiskFull(a)) /\ Unreported(a)

\* A step gets an image for the reference its thread wants, takes the one that
\* is there to be the broker's, removes or moves the tag of one, or leaves all
\* tags alone.
LEMMA TagsChange ==
  ASSUME IInv, [Next]_vars
  PROVE  \/ UNCHANGED <<tag, origin, external>>
         \/ \E c \in Creators : Pull(c)
         \/ \E b \in Builders : Build(b)
         \/ \E b \in Builders : ReuseBuilt(b)
         \/ \E a \in Actors : Leaving(a) /\ at[a] \in {"pull", "build", "repull", "rebuild"}
         \/ \E a \in Actors : Removing(a) /\ gc.checked \in References
         \/ \E ref \in References : External(ref)
         \/ Restart
  <1> USE DEF docker, bounds, StepFrame, CollectFrame
  <1>1. ASSUME NEW c \in Creators, CreatorStep(c), ~Pull(c) PROVE UNCHANGED <<tag, origin, external>>
    BY <1>1 DEF CreatorStep, RequestSandbox, Resolve, Touch, RecordPulled, Reserve, CreateContainer,
                Unreserve, DeleteContainer
  <1>2. ASSUME NEW b \in Builders, BuilderStep(b), ~Build(b), ~ReuseBuilt(b)
        PROVE  UNCHANGED <<tag, origin, external>>
    BY <1>2 DEF BuilderStep, RequestBuild, PassGate, RecordBuilt, LeaveGate
  <1>3. ASSUME NEW a \in Actors, DockerFails(a) \/ DiskFull(a)
        PROVE  \/ UNCHANGED <<tag, origin, external>>
               \/ Leaving(a) /\ at[a] \in {"pull", "build", "repull", "rebuild"}
    BY <1>3 DEF DockerFails, DiskFull, Leaving
  <1>4. ASSUME NEW a \in Actors, Collect(a)
        PROVE  \/ UNCHANGED <<tag, origin, external>>
               \/ Removing(a) /\ gc.checked \in References
    <2>1. CASE RemoveImage(a) \/ RemoveFails(a) \/ CollectionRaises(a)
      <3>1. UNCHANGED <<origin, external>>
        BY <2>1 DEF RemoveImage, RemoveFails, CollectionRaises
      <3>2. UNCHANGED tag \/ (Untag(gc.checked) /\ gc.checked # NoReference)
        BY <2>1 DEF RemoveImage, RemoveFails, CollectionRaises
      <3> QED BY <2>1, <3>1, <3>2 DEF Removing, IInv, TypeOK
    <2>2. ~RemoveImage(a) /\ ~RemoveFails(a) /\ ~CollectionRaises(a) =>
              UNCHANGED <<tag, origin, external>>
      BY <1>4 DEF Collect, NoCollection, BeginCollection, PassOver, ForgetStale, Confirm, EndCollection
    <2> QED BY <2>1, <2>2
  <1> QED BY <1>1, <1>2, <1>3, <1>4 DEF Next, Tick, vars

\* What those steps do to the tags and to who made them.
LEMMA ReuseTags ==
  ASSUME NEW b \in Builders, ReuseBuilt(b)
  PROVE  /\ UNCHANGED <<tag, external>>
         /\ \/ UNCHANGED origin
            \/ /\ origin' = [origin EXCEPT ![wants[b]] = "broker"]
               /\ records' = With(wants[b], tag[wants[b]])
  BY DEF ReuseBuilt, Hit, Store, StepFrame, bounds

LEMMA RemovingTags ==
  ASSUME NEW a \in Actors, Removing(a)
  PROVE  /\ tag' = [tag EXCEPT ![gc.checked] = NoImage]
         /\ UNCHANGED <<origin, external>>
  BY DEF Removing, Untag, RemoveImage, RemoveFails, CollectionRaises, CollectFrame, bounds

LEMMA LeavingTags ==
  ASSUME NEW a \in Actors, Leaving(a)
  PROVE  /\ UNCHANGED external
         /\ \/ UNCHANGED <<tag, origin>>
            \/ /\ a \in Creators => wants[a] \notin Tags
               /\ \E id \in ImagesOf[wants[a]] : tag' = [tag EXCEPT ![wants[a]] = id]
               /\ origin' = [origin EXCEPT ![wants[a]] = "unreported"]
  BY DEF Leaving, Unreported, DockerFails, DiskFull, StepFrame, bounds

LEMMA MadeForStep ==
  ASSUME IInv, [Next]_vars
  PROVE  MadeFor'
  <1> DEFINE TagsFit == \A ref \in References : tag[ref] \in ImagesOf[ref] \cup {NoImage}
  <1> DEFINE Fits(a) ==
        at'[a] \in Knowing => wants'[a] \in References /\ image'[a] \in ImagesOf[wants'[a]]
  <1>0. /\ TypeOK /\ TagsFit
        /\ \A a \in Actors : at[a] \in Knowing =>
              wants[a] \in References /\ image[a] \in ImagesOf[wants[a]]
    BY DEF IInv, MadeFor
  <1>1. TagsFit'
    <2>1. ASSUME NEW ref \in References, NEW id \in ImagesOf[ref] \cup {NoImage},
                 tag' = [tag EXCEPT ![ref] = id]
          PROVE  TagsFit'
      BY <1>0, <2>1 DEF TypeOK
    <2>2. ASSUME NEW c \in Creators, Pull(c) PROVE TagsFit'
      BY <2>1, <2>2, Equipped DEF Pull, Acquired
    <2>3. ASSUME NEW b \in Builders, Build(b) PROVE TagsFit'
      BY <2>1, <2>3, Equipped DEF Build, InGate, Acquired
    <2>4. ASSUME NEW a \in Actors, Removing(a), gc.checked \in References PROVE TagsFit'
      BY <2>1, <2>4, RemovingTags
    <2>5. ASSUME NEW ref \in References, External(ref) PROVE TagsFit'
      BY <2>1, <2>5 DEF External
    <2>6. CASE UNCHANGED tag
      BY <1>0, <2>6
    <2>7. ASSUME NEW a \in Actors, Leaving(a), at[a] \in {"pull", "build", "repull", "rebuild"}
          PROVE  TagsFit'
      <3>1. wants[a] \in References
        BY <2>7, Acquiring
      <3> QED BY <2>1, <2>6, <2>7, <3>1, LeavingTags
    <2> QED BY <2>2, <2>3, <2>4, <2>5, <2>6, <2>7, TagsChange, ReuseTags DEF Restart
  <1>2. \A a \in Actors : Fits(a)
    <2> USE DEF Knowing
    <2>1. ASSUME NEW a \in Actors,
                 at'[a] = at[a], wants'[a] = wants[a], image'[a] = image[a]
          PROVE  Fits(a)
      BY <1>0, <2>1
    <2>2. ASSUME NEW c \in Creators, CreatorStep(c) PROVE Fits(c)
      <3>0. c \in Actors
        BY DEF Actors
      <3>1. CASE at'[c] = "touch"
        <4>1. Resolve(c)
          BY <2>2, <3>1, CreatorMoves
             DEF CreatorStep, RequestSandbox, Resolve, Touch, Pull, RecordPulled, Reserve,
                 CreateContainer, Unreserve, DeleteContainer
        <4>2. wants[c] \in References /\ UNCHANGED wants
          BY <4>1, Equipped DEF Resolve, StepFrame
        <4>3. at' = [at EXCEPT ![c] = "touch"] /\ tag[wants[c]] # NoImage
              /\ image' = [image EXCEPT ![c] = tag[wants[c]]]
          BY <1>0, <3>0, <3>1, <4>1 DEF Resolve, Goto, TypeOK
        <4> QED BY <1>0, <3>0, <4>2, <4>3 DEF TypeOK
      <3>2. CASE at'[c] = "record"
        <4>1. Pull(c)
          BY <2>2, <3>2, CreatorMoves
             DEF CreatorStep, RequestSandbox, Resolve, Touch, Pull, RecordPulled, Reserve,
                 CreateContainer, Unreserve, DeleteContainer
        <4> QED BY <1>0, <3>0, <4>1, Equipped DEF TypeOK, Pull, StepFrame
      <3> QED BY <3>1, <3>2
    <2>3. ASSUME NEW b \in Builders, BuilderStep(b) PROVE Fits(b)
      <3>0. b \in Actors
        BY DEF Actors
      <3>1. CASE at'[b] = "record"
        <4>1. Build(b)
          BY <2>3, <3>1, BuilderMoves
             DEF BuilderStep, RequestBuild, PassGate, ReuseBuilt, Build, RecordBuilt, LeaveGate
        <4> QED BY <1>0, <3>0, <4>1, Equipped DEF TypeOK, Build, StepFrame, InGate
      <3> QED BY <2>3, <3>1, BuilderMoves
    <2>4. ASSUME NEW a \in Actors, DockerFails(a) \/ DiskFull(a) \/ Collect(a) PROVE Fits(a)
      <3>1. at'[a] \in Knowing => at'[a] = at[a]
        BY <2>4, SharedMoves
      <3> QED BY <2>1, <2>4, <3>1, SharedMoves
    <2>5. ASSUME NEW d \in Actors, OnlyMoves(d), Fits(d) PROVE \A a \in Actors : Fits(a)
      BY <2>1, <2>5 DEF OnlyMoves
    <2>6. CASE Restart
      BY <1>0, <2>6 DEF Restart, TypeOK
    <2>7. CASE UNCHANGED threads
      BY <2>1, <2>7 DEF threads
    <2>8. UNCHANGED vars \/ Tick \/ (\E ref \in References : External(ref)) => UNCHANGED threads
      BY DEF vars, Tick, External
    <2>9. ASSUME NEW c \in Creators, CreatorStep(c) PROVE \A a \in Actors : Fits(a)
      BY <2>2, <2>5, <2>9, CreatorMoves DEF Actors
    <2>10. ASSUME NEW b \in Builders, BuilderStep(b) PROVE \A a \in Actors : Fits(a)
      BY <2>3, <2>5, <2>10, BuilderMoves DEF Actors
    <2>11. ASSUME NEW a \in Actors, DockerFails(a) \/ DiskFull(a) \/ Collect(a)
           PROVE  \A d \in Actors : Fits(d)
      BY <2>4, <2>5, <2>11, SharedMoves
    <2> QED BY <2>6, <2>7, <2>8, <2>9, <2>10, <2>11 DEF Next
  <1> QED BY <1>1, <1>2 DEF MadeFor

LEMMA MissingStep ==
  ASSUME IInv, [Next]_vars
  PROVE  MissingUntilBuilt'
  <1> DEFINE Bound(b) == at[b] \in {"collect", "build", "emergency", "rebuild"}
  <1> DEFINE Missing(b, ref) ==
        \/ tag[ref] = NoImage
        \/ external > 0 /\ origin[ref] = "other"
        \/ at[b] \in {"emergency", "rebuild"} /\ origin[ref] = "unreported"
  <1>0. /\ TypeOK
        /\ Tags \subseteq References
        /\ \A b \in Builders : Bound(b) =>
              Missing(b, wants[b]) /\ at[b] \in Inside /\ wants[b] \in Tags
    BY Equipped, ImageCacheAssumption DEF IInv, MissingUntilBuilt, Inside, InGate
  <1> SUFFICES ASSUME NEW b \in Builders, Bound(b)' PROVE Missing(b, wants[b])'
    BY DEF MissingUntilBuilt
  <1>b. b \in Actors /\ b \notin Creators
    BY ImageCacheAssumption DEF Actors
  \* A builder that is to build has just found, or found before, that its tag is
  \* not there.
  <1>1. /\ wants'[b] = wants[b]
        /\ \/ Bound(b) /\ (at[b] \in {"emergency", "rebuild"} => at'[b] \in {"emergency", "rebuild"})
           \/ tag[wants[b]] = NoImage /\ at[b] = "inspect" /\ UNCHANGED tag
    <2>1. CASE BuilderStep(b)
      <3>1. ReuseBuilt(b)
        BY <2>1, BuilderMoves
      <3>2. ASSUME tag[wants[b]] # NoImage PROVE at'[b] = "leave"
        BY <1>0, <1>b, <3>1, <3>2 DEF ReuseBuilt, Hit, Store, Goto, Broken, TypeOK
      <3> QED BY <3>1, <3>2 DEF ReuseBuilt, StepFrame
    <2>2. CASE DockerFails(b) \/ DiskFull(b) \/ Collect(b)
      <3>1. at[b] \in InGate \cup {"new", "done", "failed"}
        BY DEF IInv, Placed
      <3> QED BY <1>b, <2>2, <3>1, SharedMoves DEF InGate
    <2>3. Restart => at'[b] \in {"new", "done", "failed"}
      BY <1>0, <1>b DEF Restart, TypeOK
    <2> QED BY <1>b, <2>1, <2>2, <2>3, OneThread
  <1>r. PICK ref \in Tags : wants[b] = ref /\ wants'[b] = ref
    BY <1>1, Equipped DEF InGate
  <1>2. CASE tag[ref] = NoImage /\ UNCHANGED tag
    BY <1>2, <1>r
  <1>3. CASE Bound(b) /\ (at[b] \in {"emergency", "rebuild"} => at'[b] \in {"emergency", "rebuild"})
    <2>0. Missing(b, ref) /\ at[b] \in Inside
      BY <1>0, <1>3, <1>r
    <2>1. ASSUME UNCHANGED external, tag'[ref] = tag[ref], origin'[ref] = origin[ref]
          PROVE  Missing(b, ref)'
      BY <1>3, <2>0, <2>1
    \* Nobody else makes or finds the tag.
    <2>2. ASSUME NEW d \in Builders, d # b, at[d] \in InGate \ {"gate"}
          PROVE  wants[d] \in References /\ wants[d] # ref
      BY <1>r, <2>0, <2>2, Equipped DEF IInv, OneInside, Inside
    <2>3. ASSUME NEW c \in Creators, Pull(c) PROVE Missing(b, ref)'
      <3>1. wants[c] \in References /\ wants[c] # ref
        BY <2>3, Equipped DEF Pull
      <3> QED BY <1>0, <2>1, <2>3, <3>1 DEF Pull, Acquired, TypeOK, StepFrame, bounds
    <2>4. ASSUME NEW d \in Builders, Build(d) PROVE Missing(b, ref)'
      <3>1. d # b
        BY <1>0, <1>b, <2>4 DEF Build, Goto, TypeOK
      <3>2. wants[d] \in References /\ wants[d] # ref
        BY <2>2, <2>4, <3>1 DEF Build, InGate
      <3> QED BY <1>0, <2>1, <2>4, <3>2 DEF Build, Acquired, TypeOK, StepFrame, bounds
    <2>5. ASSUME NEW d \in Builders, ReuseBuilt(d) PROVE Missing(b, ref)'
      <3>1. d # b
        BY <1>3, <2>5 DEF ReuseBuilt
      <3>2. wants[d] \in References /\ wants[d] # ref
        BY <2>2, <2>5, <3>1 DEF ReuseBuilt, InGate
      <3> QED BY <1>0, <2>1, <2>5, <3>2, ReuseTags DEF TypeOK
    <2>6. ASSUME NEW a \in Actors, Leaving(a), at[a] \in {"pull", "build", "repull", "rebuild"}
          PROVE  Missing(b, ref)'
      <3>1. CASE a = b
        <4>1. at'[b] = "emergency"
          BY <1>0, <1>b, <1>3, <2>6, <3>1 DEF Leaving, DockerFails, DiskFull, Goto, Broken, TypeOK
        <4> QED BY <1>0, <1>r, <2>1, <2>6, <3>1, <4>1, LeavingTags DEF TypeOK
      <3>2. CASE a # b
        <4>1. wants[a] \in References
          BY <2>6, Acquiring
        <4>2. a \in Creators \/ wants[a] # ref
          BY <2>2, <2>6, <3>2 DEF Actors, IInv, Placed, InGate
        <4>3. UNCHANGED <<tag, origin>> \/ wants[a] # ref
          BY <2>6, <4>2, LeavingTags
        <4> QED BY <1>0, <2>1, <2>6, <4>1, <4>3, LeavingTags DEF TypeOK
      <3> QED BY <3>1, <3>2
    <2>7. ASSUME NEW a \in Actors, Removing(a), gc.checked \in References PROVE Missing(b, ref)'
      BY <1>0, <2>1, <2>7, RemovingTags DEF TypeOK
    <2>8. ASSUME NEW other \in References, External(other) PROVE Missing(b, ref)'
      BY <1>0, <2>0, <1>3, <2>8 DEF External, TypeOK
    <2>9. ~Restart
      BY <1>0, <1>b DEF Restart, TypeOK
    <2>10. Missing(b, ref)'
      <3> HIDE DEF Missing
      <3> QED BY <2>1, <2>3, <2>4, <2>5, <2>6, <2>7, <2>8, <2>9, TagsChange
    <2> QED BY <1>r, <2>10
  <1> QED BY <1>1, <1>2, <1>3, <1>r

-----------------------------------------------------------------------------
(* What the inventory has *)

\* An entry made now, for an image the reference can stand for.
Renews(ref) == \E id \in ImagesOf[ref] : records' = With(ref, id)

\* A record goes if it is not, or not any more, of an image that ref stands for.
Drops(ref) ==
    /\ records' = Forgetting(ref)
    /\ \/ tag'[ref] = NoImage
       \/ tag'[ref] # records[ref].id
       \/ \E id \in ImagesOf[ref] : records[ref].id # id

LEMMA StoreSaves ==
  ASSUME NEW new, NEW a, NEW stage, Store(new, a, stage)
  PROVE  records' = new /\ saved' \in {saved, records'}
  BY DEF Store

\* A step changes at most one record; what is saved is what is in memory, or
\* what was saved before.
LEMMA RecordsChange ==
  ASSUME IInv, [Next]_vars
  PROVE  \/ UNCHANGED <<records, saved, answered>>
         \/ /\ saved' \in {saved, records'}
            /\ \/ Unlocked /\ \E a \in Actors : 
                     /\ wants[a] \in References
                     /\ Renews(wants[a])
                     /\ \/ UNCHANGED answered
                        \/ /\ a \in Builders /\ at[a] \in InGate /\ saved' = records'
                           /\ answered' = [answered EXCEPT ![a] = now]
               \/ /\ UNCHANGED answered
                  /\ \E ref \in References : 
                        /\ Drops(ref)
                        /\ Unlocked \/ gc.checked \in {NoReference, ref}
         \/ Restart
  <1> USE DEF StepFrame, CollectFrame, inventory, threads
  <1>0. /\ TypeOK
        /\ \A ref \in References : tag[ref] \in ImagesOf[ref] \cup {NoImage}
        /\ \A a \in Actors : at[a] \in Knowing =>
              wants[a] \in References /\ image[a] \in ImagesOf[wants[a]]
    BY DEF IInv, MadeFor
  <1> DEFINE Changed ==
        \/ UNCHANGED <<records, saved, answered>>
        \/ /\ saved' \in {saved, records'}
           /\ \/ Unlocked /\ \E a \in Actors : 
                    /\ wants[a] \in References
                    /\ Renews(wants[a])
                    /\ \/ UNCHANGED answered
                       \/ /\ a \in Builders /\ at[a] \in InGate /\ saved' = records'
                          /\ answered' = [answered EXCEPT ![a] = now]
              \/ /\ UNCHANGED answered
                 /\ \E ref \in References : 
                       /\ Drops(ref)
                       /\ Unlocked \/ gc.checked \in {NoReference, ref}
  <1>1. ASSUME NEW c \in Creators, CreatorStep(c) PROVE Changed
    <2>0. c \in Actors
      BY DEF Actors
    <2>1. CASE Touch(c)
      <3>1. wants[c] \in References /\ image[c] \in ImagesOf[wants[c]]
        BY <1>0, <2>0, <2>1 DEF Touch, Knowing
      <3>2. \/ UNCHANGED inventory
            \/ /\ records[wants[c]].id # image[c]
               /\ Store(Forgetting(wants[c]), c, "reserve")
            \/ Store(With(wants[c], image[c]), c, "reserve")
        BY <2>1 DEF Touch
      <3> QED BY <2>0, <2>1, <3>1, <3>2, StoreSaves DEF Touch, Renews, Drops
    <2>2. CASE RecordPulled(c)
      <3>1. wants[c] \in References /\ image[c] \in ImagesOf[wants[c]]
        BY <1>0, <2>0, <2>2 DEF RecordPulled, Knowing
      <3> QED BY <2>0, <2>2, <3>1, StoreSaves DEF RecordPulled, Renews
    <2>3. ~Touch(c) /\ ~RecordPulled(c) => UNCHANGED <<records, saved, answered>>
      BY <1>1 DEF CreatorStep, RequestSandbox, Resolve, Pull, Reserve, CreateContainer, Unreserve,
                  DeleteContainer
    <2> QED BY <2>1, <2>2, <2>3
  <1>2. ASSUME NEW b \in Builders, BuilderStep(b) PROVE Changed
    <2>0. b \in Actors
      BY DEF Actors
    <2> DEFINE Noted == \/ UNCHANGED answered
                        \/ saved' = records' /\ answered' = [answered EXCEPT ![b] = now]
    <2>1. CASE ReuseBuilt(b)
      <3>1. wants[b] \in References /\ Unlocked /\ at[b] \in InGate /\ UNCHANGED tag
        BY <2>1, Equipped DEF ReuseBuilt, InGate
      <3>2. \/ UNCHANGED <<inventory, answered>>
            \/ /\ tag[wants[b]] = NoImage
               /\ Store(Forgetting(wants[b]), b, "collect")
               /\ UNCHANGED answered
            \/ /\ tag[wants[b]] # NoImage
               /\ Store(With(wants[b], tag[wants[b]]), b, "leave")
               /\ Noted
        BY <2>1 DEF ReuseBuilt, Hit, NoteAnswer
      <3> QED BY <1>0, <2>0, <3>1, <3>2, StoreSaves DEF Renews, Drops
    <2>2. CASE RecordBuilt(b)
      <3>1. /\ wants[b] \in References /\ image[b] \in ImagesOf[wants[b]]
            /\ Unlocked /\ at[b] \in InGate
        BY <1>0, <2>0, <2>2 DEF RecordBuilt, Knowing, InGate
      <3>2. Store(With(wants[b], image[b]), b, "leave") /\ Noted
        BY <2>2 DEF RecordBuilt, NoteAnswer
      <3> QED BY <2>0, <3>1, <3>2, StoreSaves DEF Renews
    <2>3. ~ReuseBuilt(b) /\ ~RecordBuilt(b) => UNCHANGED <<records, saved, answered>>
      BY <1>2 DEF BuilderStep, RequestBuild, PassGate, Build, LeaveGate
    <2> QED BY <2>1, <2>2, <2>3
  <1>3. ASSUME NEW a \in Actors, DockerFails(a) \/ DiskFull(a) \/ Collect(a) PROVE Changed
    <2>1. CASE ForgetStale(a)
      <3>1. PICK ref \in References : /\ gc.checked = NoReference
                                      /\ tag[ref] # records[ref].id
                                      /\ records' = Forgetting(ref)
                                      /\ saved' \in {saved, records'}
        BY <2>1 DEF ForgetStale, NextRecord, ForgetAndGo
      <3>2. UNCHANGED <<tag, answered>>
        BY <2>1 DEF ForgetStale, docker
      <3> QED BY <3>1, <3>2 DEF Drops
    <2>2. CASE RemoveImage(a)
      <3>1. /\ gc.checked \in References
            /\ records' = Forgetting(gc.checked)
            /\ saved' \in {saved, records'}
        BY <1>0, <2>2 DEF RemoveImage, ForgetAndGo, TypeOK
      <3>2. tag'[gc.checked] = NoImage /\ UNCHANGED answered
        BY <1>0, <2>2, <3>1 DEF RemoveImage, Untag, TypeOK
      <3>3. PICK ref \in References : ref = gc.checked
        BY <3>1
      <3> QED BY <3>1, <3>2, <3>3 DEF Drops
    <2>3. ~ForgetStale(a) /\ ~RemoveImage(a) => UNCHANGED <<records, saved, answered>>
      BY <1>3 DEF DockerFails, DiskFull, Collect, NoCollection, BeginCollection, PassOver, Confirm,
                  RemoveFails, CollectionRaises, EndCollection
    <2> QED BY <2>1, <2>2, <2>3
  <1>4. UNCHANGED vars \/ Tick \/ (\E ref \in References : External(ref)) =>
          UNCHANGED <<records, saved, answered>>
    BY DEF vars, Tick, External
  <1> QED BY <1>1, <1>2, <1>3, <1>4 DEF Next

LEMMA RenewedStep ==
  ASSUME IInv, [Next]_vars
  PROVE  Renewed'
  <1>0. TypeOK /\ Renewed
    BY DEF IInv
  <1>1. now' \in Nat /\ now <= now' /\ now \in Nat
    <2>1. UNCHANGED now \/ Tick
      BY DEF Next, vars, CreatorStep, BuilderStep, Collect, StepFrame, CollectFrame,
             RequestSandbox, Resolve, Touch, Pull, RecordPulled, Reserve, CreateContainer, Unreserve,
             DeleteContainer, RequestBuild, PassGate, ReuseBuilt, Build, RecordBuilt, LeaveGate,
             DockerFails, DiskFull, NoCollection, BeginCollection, PassOver, ForgetStale, Confirm,
             RemoveImage, RemoveFails, CollectionRaises, EndCollection, External, Restart
    <2> QED BY <1>0, <2>1 DEF TypeOK, Tick
  <1> SUFFICES ASSUME NEW b \in Builders, answered'[b] # NotAnswered
               PROVE  /\ at'[b] # "new" /\ wants'[b] \in References
                      /\ answered'[b] \in Nat /\ answered'[b] <= now'
                      /\ \A entry \in {records'[wants'[b]], saved'[wants'[b]]} :
                            entry.id = NoImage \/ entry.last >= answered'[b]
    BY DEF Renewed
  <1>b. b \in Actors
    BY DEF Actors
  <1>2. at[b] # "new" /\ wants[b] \in References
    <2>1. CASE answered[b] # NotAnswered
      BY <1>0, <2>1 DEF Renewed
    <2>2. CASE answered[b] = NotAnswered
      <3>1. at[b] \in InGate
        BY <1>0, <2>2, RecordsChange DEF TypeOK, Restart
      <3> QED BY <3>1, Equipped DEF InGate
    <2> QED BY <2>1, <2>2
  <1>3. at'[b] # "new" /\ wants'[b] = wants[b]
    <2>1. CASE BuilderStep(b)
      BY <1>2, <2>1, BuilderMoves DEF InGate
    <2>2. CASE CreatorStep(b) /\ b \in Creators
      BY <2>2, ImageCacheAssumption
    <2>3. CASE DockerFails(b) \/ DiskFull(b) \/ Collect(b)
      BY <1>2, <1>b, <2>3, SharedMoves
    <2>4. CASE Restart
      BY <1>0, <1>b, <1>2, <2>4 DEF Restart, TypeOK
    <2> QED BY <1>2, <1>b, <2>1, <2>2, <2>3, <2>4, OneThread
  <1> DEFINE Good(entry, time) == entry.id = NoImage \/ entry.last >= time
  <1>4. PICK ref \in References : wants[b] = ref /\ wants'[b] = ref
    BY <1>2, <1>3
  <1> DEFINE StillGood ==
        /\ answered'[b] \in Nat /\ answered'[b] <= now'
        /\ Good(records'[ref], answered'[b]) /\ Good(saved'[ref], answered'[b])
  <1>5. StillGood
    <2>1. CASE UNCHANGED <<records, saved, answered>> \/ Restart
      BY <1>0, <1>1, <1>4, <2>1 DEF Renewed, Restart, TypeOK
    <2>2. ASSUME saved' \in {saved, records'}, NEW other \in References,
                 records' = Forgetting(other), UNCHANGED answered
          PROVE  StillGood
      BY <1>0, <1>1, <1>4, <2>2 DEF Renewed, TypeOK, Forgetting, NoRecord
    <2>3. ASSUME NEW a \in Actors, saved' \in {saved, records'}, wants[a] \in References,
                 NEW id, records' = With(wants[a], id), UNCHANGED answered
          PROVE  StillGood
      BY <1>0, <1>1, <1>4, <2>3 DEF Renewed, TypeOK, With, Entry
    <2>4. ASSUME NEW a \in Builders, saved' = records', wants[a] \in References,
                 NEW id, records' = With(wants[a], id), answered' = [answered EXCEPT ![a] = now]
          PROVE  StillGood
      <3>1. CASE a = b
        BY <1>0, <1>1, <1>4, <2>4, <3>1 DEF TypeOK, With, Entry
      <3>2. CASE a # b
        BY <1>0, <1>1, <1>4, <2>4, <3>2 DEF Renewed, TypeOK, With, Entry
      <3> QED BY <3>1, <3>2
    <2> QED BY <2>1, <2>2, <2>3, <2>4, RecordsChange DEF Renews, Drops
  <1> QED BY <1>3, <1>4, <1>5

\* A thread that is to record an image does so in its next step.
LEMMA RecorderRecords ==
  ASSUME IInv, [Next]_vars, ~Restart, NEW a \in Actors, at[a] = "record"
  PROVE  /\ wants'[a] = wants[a]
         /\ at'[a] = "record" \/ records' = With(wants[a], image[a])
  <1>1. CASE a \in Creators /\ CreatorStep(a)
    <2>1. RecordPulled(a)
      BY <1>1 DEF CreatorStep, RequestSandbox, Resolve, Touch, Pull, Reserve, CreateContainer,
                  Unreserve, DeleteContainer
    <2> QED BY <2>1, StoreSaves DEF RecordPulled, StepFrame
  <1>2. CASE a \in Builders /\ BuilderStep(a)
    <2>1. RecordBuilt(a)
      BY <1>2 DEF BuilderStep, RequestBuild, PassGate, ReuseBuilt, Build, LeaveGate
    <2> QED BY <2>1, StoreSaves DEF RecordBuilt, StepFrame
  <1>3. CASE DockerFails(a) \/ DiskFull(a) \/ Collect(a)
    BY <1>3, SharedMoves DEF Collecting
  <1> QED BY <1>1, <1>2, <1>3, OneThread

LEMMA OwnedStep ==
  ASSUME IInv, [Next]_vars
  PROVE  OwnedIsTracked'
  <1> DEFINE Tracked(ref) ==
        \/ records[ref].id = tag[ref]
        \/ \E a \in Actors : at[a] = "record" /\ wants[a] = ref
  <1> DEFINE Excused(ref) == origin[ref] \in {"other", "unreported", "lost"}
  <1>0. /\ TypeOK
        /\ \A ref \in References :
              Steady(ref) /\ ~Excused(ref) /\ tag[ref] # NoImage => Tracked(ref)
        /\ \A ref \in References : tag'[ref] \in ImagesOf[ref] \cup {NoImage}
        /\ \A a \in Actors : at[a] = "record" =>
              wants[a] \in References /\ image[a] \in ImagesOf[wants[a]]
    BY MadeForStep DEF IInv, OwnedIsTracked, MadeFor, Knowing
  <1> SUFFICES ASSUME NEW ref \in References,
                      Steady(ref), ~Excused(ref)', tag'[ref] # NoImage
               PROVE  Tracked(ref)'
    BY DEF OwnedIsTracked, Steady
  <1>1. tag'[ref] \in ImagesOf[ref] /\ \A id \in ImagesOf[ref] : id = tag'[ref]
    BY <1>0 DEF Steady
  \* If the reference keeps its tag, a new record is of that image, and none goes.
  <1>2. ASSUME tag'[ref] = tag[ref], origin'[ref] = origin[ref], ~Restart PROVE Tracked(ref)'
    <2>1. Tracked(ref)
      BY <1>0, <1>2
    <2>2. CASE \E a \in Actors : at[a] = "record" /\ wants[a] = ref
      <3>1. PICK a \in Actors : at[a] = "record" /\ wants[a] = ref
        BY <2>2
      <3>2. CASE at'[a] = "record"
        BY <1>2, <3>1, <3>2, RecorderRecords
      <3>3. CASE records' = With(ref, image[a])
        <4>1. records'[ref].id = image[a]
          BY <1>0, <3>3 DEF With, Entry, TypeOK
        <4> QED BY <1>0, <1>1, <3>1, <4>1
      <3> QED BY <1>2, <3>1, <3>2, <3>3, RecorderRecords
    <2>3. CASE records[ref].id = tag[ref]
      <3>1. ASSUME NEW other \in References, Renews(other) PROVE records'[ref].id = tag'[ref]
        BY <1>0, <1>1, <1>2, <2>3, <3>1 DEF Renews, With, Entry, TypeOK
      <3>2. ASSUME NEW other \in References, Drops(other) PROVE records'[ref].id = tag'[ref]
        BY <1>0, <1>1, <1>2, <2>3, <3>2 DEF Drops, Forgetting, TypeOK
      <3> QED BY <1>2, <2>3, <3>1, <3>2, RecordsChange
    <2> QED BY <2>1, <2>2, <2>3
  <1>3. ASSUME NEW a \in Actors, at'[a] = "record", wants'[a] = wants[a], wants[a] \in References,
               NEW id, Acquired(wants[a], id), ~Restart
        PROVE  Tracked(ref)'
    BY <1>0, <1>2, <1>3 DEF Acquired, TypeOK
  <1>4. ASSUME NEW c \in Creators, Pull(c) PROVE Tracked(ref)'
    <2>1. at'[c] = "record" /\ wants'[c] = wants[c] /\ wants[c] \in References /\ c \in Actors
      BY <1>0, <1>4, Equipped DEF Pull, Goto, StepFrame, TypeOK, Actors
    <2>2. ~Restart
      BY <1>0, <2>1 DEF Restart, TypeOK
    <2> QED BY <1>3, <1>4, <2>1, <2>2 DEF Pull
  <1>5. ASSUME NEW b \in Builders, Build(b) PROVE Tracked(ref)'
    <2>1. at'[b] = "record" /\ wants'[b] = wants[b] /\ wants[b] \in References /\ b \in Actors
      BY <1>0, <1>5, Equipped DEF Build, Goto, StepFrame, TypeOK, Actors, InGate
    <2>2. ~Restart
      BY <1>0, <2>1 DEF Restart, TypeOK
    <2> QED BY <1>3, <1>5, <2>1, <2>2 DEF Build
  <1>6. CASE Restart
    BY <1>0, <1>6 DEF Restart, TypeOK
  <1>7. ASSUME NEW a \in Actors, Removing(a), gc.checked \in References, ~Restart
        PROVE  Tracked(ref)'
    BY <1>0, <1>2, <1>7, RemovingTags DEF TypeOK
  <1>8. ASSUME NEW other \in References, External(other), ~Restart PROVE Tracked(ref)'
    BY <1>0, <1>2, <1>8 DEF External, TypeOK
  <1>9. ASSUME UNCHANGED <<tag, origin, external>>, ~Restart PROVE Tracked(ref)'
    BY <1>2, <1>9
  \* A hit makes the record of what it found.
  <1>10. ASSUME NEW b \in Builders, ReuseBuilt(b), ~Restart PROVE Tracked(ref)'
    <2>1. CASE UNCHANGED origin \/ wants[b] # ref
      <3>1. tag'[ref] = tag[ref] /\ origin'[ref] = origin[ref]
        BY <1>0, <1>10, <2>1, ReuseTags DEF TypeOK
      <3> QED BY <1>2, <1>10, <3>1
    <2>2. CASE records' = With(ref, tag[ref]) /\ UNCHANGED tag
      BY <1>0, <2>2 DEF With, Entry, TypeOK
    <2> QED BY <1>10, <2>1, <2>2, ReuseTags
  \* What a failing call leaves is excused.
  <1>11. ASSUME NEW a \in Actors, Leaving(a), ~Restart,
                at[a] \in {"pull", "build", "repull", "rebuild"}
         PROVE  Tracked(ref)'
    <2>1. wants[a] \in References
      BY <1>11, Acquiring
    <2>2. tag'[ref] = tag[ref] /\ origin'[ref] = origin[ref]
      BY <1>0, <1>11, <2>1, LeavingTags DEF TypeOK
    <2> QED BY <1>2, <1>11, <2>2
  <1> HIDE DEF Tracked
  <1> QED BY <1>4, <1>5, <1>6, <1>7, <1>8, <1>9, <1>10, <1>11, TagsChange

-----------------------------------------------------------------------------
(* Collections *)

\* While a collection is on, other threads neither change records nor reserve
\* images nor come to a gate.
Aside ==
    /\ UNCHANGED <<gc, lock>>
    /\ ~Unlocked =>
          /\ UNCHANGED records
          /\ \A i \in Images : reservations'[i] <= reservations[i]
          /\ BuildGates' \subseteq BuildGates
          /\ at'[lock] = at[lock]

LEMMA CreatorsAside ==
  ASSUME IInv, NEW c \in Creators, CreatorStep(c)
  PROVE  Aside
  <1> USE DEF StepFrame, inventory, Unlocked
  <1>0. TypeOK /\ c \in Actors /\ c \notin Builders
    BY ImageCacheAssumption DEF IInv, Actors
  <1>1. UNCHANGED <<gc, lock>> /\ (~Unlocked => UNCHANGED records)
    BY DEF CreatorStep, RequestSandbox, Resolve, Touch, Pull, RecordPulled, Reserve, CreateContainer,
           Unreserve, DeleteContainer
  <1>2. ~Unlocked => UNCHANGED reservations
    BY DEF CreatorStep, RequestSandbox, Resolve, Touch, Pull, RecordPulled, Reserve, CreateContainer,
           Unreserve, DeleteContainer
  <1>3. BuildGates' = BuildGates
    BY <1>0, CreatorMoves DEF OnlyMoves, BuildGates, Actors
  <1>4. ~Unlocked => lock # c
    BY <1>0 DEF IInv, Collection, Collecting, CreatorStep, RequestSandbox, Resolve, Touch, Pull,
           RecordPulled, Reserve, CreateContainer, Unreserve, DeleteContainer
  <1> QED BY <1>0, <1>1, <1>2, <1>3, <1>4, CreatorMoves DEF Aside, OnlyMoves, TypeOK

LEMMA BuildersAside ==
  ASSUME IInv, NEW b \in Builders, BuilderStep(b)
  PROVE  Aside
  <1> USE DEF StepFrame, inventory, Unlocked
  <1>0. TypeOK /\ b \in Actors
    BY DEF IInv, Actors
  <1>1. UNCHANGED <<gc, lock, reservations>> /\ (~Unlocked => UNCHANGED records)
    BY DEF BuilderStep, RequestBuild, PassGate, ReuseBuilt, Build, RecordBuilt, LeaveGate
  <1>2. ~Unlocked => UNCHANGED wants /\ at[b] \in InGate
    BY BuilderMoves DEF BuilderStep, RequestBuild, PassGate, ReuseBuilt, Build, RecordBuilt, LeaveGate,
                        InGate
  <1>3. ~Unlocked => BuildGates' \subseteq BuildGates
    BY <1>0, <1>2, BuilderMoves DEF OnlyMoves, BuildGates, Actors
  <1>4. ~Unlocked => lock # b
    BY <1>0 DEF IInv, Collection, Collecting, BuilderStep, RequestBuild, PassGate, ReuseBuilt, Build,
                RecordBuilt, LeaveGate
  <1> QED BY <1>0, <1>1, <1>3, <1>4, BuilderMoves DEF Aside, OnlyMoves, TypeOK

LEMMA OthersAside ==
  ASSUME IInv, NEW a \in Actors, DockerFails(a) \/ DiskFull(a) \/ NoCollection(a)
  PROVE  Aside
  <1> USE DEF StepFrame, CollectFrame, inventory, Unlocked
  <1>0. TypeOK /\ OnlyMoves(a) /\ UNCHANGED wants
    BY SharedMoves DEF IInv, Collect
  <1>1. UNCHANGED <<gc, lock, reservations, records>>
    BY DEF DockerFails, DiskFull, NoCollection
  <1>2. ~Unlocked => ~NoCollection(a) /\ lock # a
    BY DEF IInv, Collection, Collecting, DockerFails, DiskFull, NoCollection
  <1>3. a \in Builders /\ at'[a] \in InGate /\ ~Unlocked => at[a] \in InGate
    BY SharedMoves DEF InGate, IInv, Placed, Collect, Collecting
  <1>4. ~Unlocked => BuildGates' \subseteq BuildGates
    BY <1>0, <1>3 DEF OnlyMoves, BuildGates, Actors
  <1> QED BY <1>0, <1>1, <1>2, <1>4 DEF Aside, OnlyMoves, TypeOK

\* What a collection took up stays as it was found until the collection itself
\* goes on.
LEMMA CollectionStep ==
  ASSUME IInv, [Next]_vars
  PROVE  Collection' /\ CheckedIsFree'
  <1> DEFINE Sound == Collection /\ CheckedIsFree
  <1>0. /\ TypeOK /\ Sound
        /\ Nobody \notin Actors /\ NoReference \notin References /\ MinAge \in Nat
    BY ImageCacheAssumption DEF IInv
  <1>1. ASSUME Aside, now' \in Nat, now <= now' PROVE Sound'
    <2>1. CASE lock = Nobody
      BY <1>0, <1>1, <2>1 DEF Aside, Collection, CheckedIsFree
    <2>2. CASE lock # Nobody
      <3>1. Recorded' = Recorded
        BY <1>1, <2>2 DEF Aside, Unlocked, Recorded
      <3>2. Collection'
        BY <1>0, <1>1, <2>2, <3>1, TypesStep DEF Aside, Unlocked, Collection, TypeOK
      <3>3. CheckedIsFree'
        <4> SUFFICES ASSUME gc.checked # NoReference PROVE CheckedIsFree'
          BY <1>1 DEF Aside, CheckedIsFree
        <4>1. PICK ref \in References : gc.checked = ref
          BY <1>0 DEF CheckedIsFree, Recorded
        <4> QED BY <1>0, <1>1, <2>2, <3>1, <4>1
                DEF Aside, Unlocked, CheckedIsFree, TypeOK, Record
      <3> QED BY <3>2, <3>3
    <2> QED BY <2>1, <2>2
  <1>2. ASSUME NEW a \in Actors, BeginCollection(a) PROVE Sound'
    <2>1. /\ lock' = a /\ at'[a] \in Collecting
          /\ gc'.todo = Recorded /\ gc'.active = ActiveImages /\ gc'.checked = NoReference
          /\ UNCHANGED <<records, reservations>>
      BY <1>2 DEF BeginCollection, inventory, CollectFrame
    <2> QED BY <1>0, <2>1 DEF Collection, CheckedIsFree, ActiveImages, Recorded
  \* The collection goes on to the next record, or leaves one where it is.
  <1>3. ASSUME NEW a \in Actors, PassOver(a) \/ Confirm(a) \/ RemoveFails(a) PROVE Sound'
    <2>1. /\ lock = a /\ UNCHANGED <<lock, at, records, reservations, now, wants>>
          /\ gc'.todo \subseteq gc.todo /\ gc'.active = gc.active
      <3>1. lock = a /\ UNCHANGED <<lock, at, records, reservations, now, wants>>
        BY <1>3 DEF PassOver, Confirm, RemoveFails, NextRecord, inventory, CollectFrame
      <3>2. gc'.todo \subseteq gc.todo /\ gc'.active = gc.active
        <4>1. \/ \E ref \in References : gc' = [gc EXCEPT !.todo = @ \ {ref}]
              \/ \E ref \in References : gc' = [gc EXCEPT !.todo = @ \ {ref}, !.checked = ref]
              \/ gc' = [gc EXCEPT !.checked = NoReference]
          BY <1>3 DEF PassOver, Confirm, RemoveFails
        <4>2. gc \in GCType
          BY <1>0 DEF TypeOK, GCType
        <4>3. \A ref \in References :
                  /\ [gc EXCEPT !.todo = @ \ {ref}].todo = gc.todo \ {ref}
                  /\ [gc EXCEPT !.todo = @ \ {ref}].active = gc.active
                  /\ [gc EXCEPT !.todo = @ \ {ref}, !.checked = ref].todo = gc.todo \ {ref}
                  /\ [gc EXCEPT !.todo = @ \ {ref}, !.checked = ref].active = gc.active
          BY <4>2 DEF GCType
        <4>4. /\ [gc EXCEPT !.checked = NoReference].todo = gc.todo
              /\ [gc EXCEPT !.checked = NoReference].active = gc.active
          BY <4>2 DEF GCType
        <4> QED BY <4>1, <4>3, <4>4
      <3> QED BY <3>1, <3>2
    <2>2. Collection'
      BY <1>0, <2>1 DEF Collection, Recorded
    <2>3. gc'.checked \in {NoReference}
          \/ /\ Confirm(a)
             /\ \E ref \in References :
                   /\ gc'.checked = ref /\ ref \in gc.todo /\ gc'.todo = gc.todo \ {ref}
                   /\ MayExamine(ref) /\ records[ref].id \notin gc.active
      BY <1>0, <1>3 DEF PassOver, Confirm, RemoveFails, NextRecord, TypeOK
    <2>4. CheckedIsFree'
      BY <1>0, <2>1, <2>3 DEF CheckedIsFree, Collection, MayExamine, Recorded, BuildGates
    <2> QED BY <2>2, <2>4
  <1>4. ASSUME NEW a \in Actors, NEW ref \in References, NEW next, lock = a,
               ForgetAndGo(a, ref, next), CollectFrame,
               next.todo \subseteq gc.todo \ {ref}, next.active = gc.active,
               next.checked = NoReference
        PROVE  Sound'
    <2>1. CASE gc' = next /\ UNCHANGED <<lock, at>>
      <3>1. /\ gc'.todo \subseteq Recorded'
        BY <1>0, <1>4, <2>1 DEF ForgetAndGo, Forgetting, Recorded, Collection, TypeOK
      <3> QED BY <1>0, <1>4, <2>1, <3>1 DEF Collection, CheckedIsFree, CollectFrame
    <2>2. CASE gc' = IdleGC /\ lock' = Nobody
      BY <2>2 DEF Collection, CheckedIsFree, IdleGC
    <2> QED BY <1>4, <2>1, <2>2 DEF ForgetAndGo
  <1>5. ASSUME NEW a \in Actors, ForgetStale(a) PROVE Sound'
    <2>1. PICK ref \in References : /\ NextRecord(a, ref)
                                    /\ ForgetAndGo(a, ref, [gc EXCEPT !.todo = @ \ {ref}])
      BY <1>5 DEF ForgetStale
    <2> DEFINE next == [gc EXCEPT !.todo = @ \ {ref}]
    <2>2. next.todo = gc.todo \ {ref} /\ next.active = gc.active /\ next.checked = NoReference
      BY <1>0, <2>1 DEF NextRecord, TypeOK
    <2>3. lock = a /\ CollectFrame
      BY <1>5, <2>1 DEF NextRecord, ForgetStale
    <2> HIDE DEF next
    <2> QED BY <1>4, <2>1, <2>2, <2>3 DEF next
  <1>6. ASSUME NEW a \in Actors, RemoveImage(a) PROVE Sound'
    <2>1. PICK free \in FreeBytes :
              ForgetAndGo(a, gc.checked,
                          [gc EXCEPT !.checked = NoReference, !.must = FALSE, !.free = free])
      BY <1>6 DEF RemoveImage
    <2> DEFINE next == [gc EXCEPT !.checked = NoReference, !.must = FALSE, !.free = free]
    <2>2. next.todo = gc.todo /\ next.active = gc.active /\ next.checked = NoReference
      BY <1>0 DEF TypeOK
    <2>3. gc.checked \in References /\ gc.todo = gc.todo \ {gc.checked}
      BY <1>0, <1>6 DEF RemoveImage, TypeOK, CheckedIsFree
    <2>4. lock = a /\ CollectFrame /\ ForgetAndGo(a, gc.checked, next)
      BY <1>6, <2>1 DEF RemoveImage
    <2> HIDE DEF next
    <2> QED BY <1>4, <2>2, <2>3, <2>4
  <1>7. ASSUME lock' = Nobody, gc' = IdleGC PROVE Sound'
    BY <1>7 DEF Collection, CheckedIsFree, IdleGC
  <1>8. ASSUME NEW a \in Actors, Collect(a) PROVE Sound'
    <2>1. NoCollection(a) => now' = now
      BY DEF NoCollection, CollectFrame
    <2>2. EndCollection(a) \/ CollectionRaises(a) => lock' = Nobody /\ gc' = IdleGC
      BY DEF EndCollection, CollectionRaises
    <2> HIDE DEF Sound
    <2> QED BY <1>0, <1>1, <1>2, <1>3, <1>5, <1>6, <1>7, <1>8, <2>1, <2>2, OthersAside
            DEF Collect, TypeOK
  <1>9. ASSUME NEW a \in Actors, DockerFails(a) \/ DiskFull(a) PROVE Sound'
    <2>1. now' = now
      BY <1>9 DEF DockerFails, DiskFull, StepFrame
    <2> QED BY <1>0, <1>1, <1>9, <2>1, OthersAside DEF TypeOK
  <1>10. ASSUME NEW c \in Creators, CreatorStep(c) PROVE Sound'
    <2>1. now' = now
      BY <1>10 DEF CreatorStep, RequestSandbox, Resolve, Touch, Pull, RecordPulled, Reserve,
                   CreateContainer, Unreserve, DeleteContainer, StepFrame
    <2> QED BY <1>0, <1>1, <1>10, <2>1, CreatorsAside DEF TypeOK
  <1>11. ASSUME NEW b \in Builders, BuilderStep(b) PROVE Sound'
    <2>1. now' = now
      BY <1>11 DEF BuilderStep, RequestBuild, PassGate, ReuseBuilt, Build, RecordBuilt, LeaveGate,
                   StepFrame
    <2> QED BY <1>0, <1>1, <1>11, <2>1, BuildersAside DEF TypeOK
  <1>12. CASE Tick \/ UNCHANGED vars \/ \E ref \in References : External(ref)
    <2>1. Aside
      BY <1>0, <1>12 DEF Tick, vars, External, Aside, BuildGates, threads, inventory, TypeOK
    <2>2. now' \in Nat /\ now <= now'
      BY <1>0, <1>12 DEF Tick, vars, External, TypeOK
    <2> QED BY <1>1, <2>1, <2>2
  <1> QED BY <1>7, <1>8, <1>9, <1>10, <1>11, <1>12 DEF Next, Restart

-----------------------------------------------------------------------------
(* Theorems *)

LEMMA IInvInit == Init => IInv
  <1> SUFFICES ASSUME Init PROVE IInv
    OBVIOUS
  <1> USE ImageCacheAssumption DEF Init
  <1>1. TypeOK /\ ReservationsExact
    <2>1. \A i \in Images : ReservedBy(i) = {}
      BY DEF ReservedBy, Reserving, Actors
    <2>2. ReservationsExact
      BY <2>1, ExactByName, FS_EmptySet
    <2>3. Cardinality(Creators) \in Nat
      BY FS_CardinalityType
    <2>4. IdleGC \in GCType /\ "new" \in Stages
      BY DEF IdleGC, GCType, Stages
    <2> QED BY <2>2, <2>3, <2>4 DEF TypeOK, GCType, Actors
  <1>2. Placed /\ OneInside /\ MissingUntilBuilt
    BY DEF Placed, OneInside, MissingUntilBuilt, InGate, Inside, Reserving, Actors
  <1>3. MadeFor /\ OwnedIsTracked
    BY DEF MadeFor, Knowing, OwnedIsTracked
  <1>4. Collection /\ CheckedIsFree /\ Renewed
    BY DEF Collection, CheckedIsFree, Renewed, IdleGC
  <1> QED BY <1>1, <1>2, <1>3, <1>4 DEF IInv

LEMMA IInvStep == IInv /\ [Next]_vars => IInv'
  BY TypesStep, PlacedStep, MadeForStep, OneInsideStep, MissingStep, CollectionStep, RenewedStep,
     ReservationsStep, OwnedStep DEF IInv

LEMMA Invariant == Spec => []IInv
  BY IInvInit, IInvStep, PTL DEF Spec

\* The variables keep their types; in particular there are never more
\* reservations of an image than creations.
THEOREM TypeCorrect == Spec => []TypeOK
  BY Invariant, PTL DEF IInv

\* No create() leaks a reservation or gives one back twice, however it ends.
THEOREM ReservationsAlwaysExact == Spec => []ReservationsExact
  BY Invariant, PTL DEF IInv

\* build_image() calls docker build only for a tag that is not there, unless
\* somebody else put it there after it looked, or its own first attempt did.
THEOREM NoBuildTwice == Spec => []NoDuplicateBuild
  <1>1. IInv => NoDuplicateBuild
    BY DEF IInv, MissingUntilBuilt, NoDuplicateBuild
  <1> QED BY <1>1, Invariant, PTL

\* An image the broker pulled or built is in the inventory for as long as its
\* reference stands for it, except one whose pull or build raised, and one that
\* a restart came before saving.
THEOREM OwnedStaysTracked == Spec => []OwnedIsTracked
  BY Invariant, PTL DEF IInv

\* What a collection is about to remove, and thus all that it removes.
LEMMA RemovesChecked ==
  ASSUME IInv, NEW ref \in References, Collects(ref)
  PROVE  /\ gc.checked = ref /\ ref \in Recorded \ BuildGates
         /\ records[ref].id \notin gc.active
         /\ now - records[ref].last >= MinAge
         /\ \A i \in Images : reservations[i] > 0 => i \in gc.active
  BY ImageCacheAssumption DEF IInv, Collects, CheckedIsFree, Collection

\* A collection does not remove the image it confirmed while a create() holds a
\* reservation of it.
THEOREM ReservedStays == Spec => ReservedNotCollected
  <1>1. ASSUME IInv, [Next]_vars, NEW ref \in References, Collects(ref), tag[ref] = records[ref].id
        PROVE  reservations[tag[ref]] = 0
    <2>1. tag[ref] \in Images /\ reservations[tag[ref]] \in Nat
      BY <1>1, ImageCacheAssumption, FS_CardinalityType DEF IInv, TypeOK, Collects
    <2> QED BY <1>1, <2>1, RemovesChecked
  <1>2. IInv /\ [Next]_vars =>
          (\A ref \in References :
              Collects(ref) /\ tag[ref] = records[ref].id => reservations[tag[ref]] = 0)
    BY <1>1
  <1> QED BY <1>2, Invariant, PTL DEF Spec, ReservedNotCollected

\* A collection does not remove a tag that is being built, or is waited for.
THEOREM BuildsStay == Spec => BuildsNotCollected
  <1>1. IInv /\ [Next]_vars => (\A ref \in References : Collects(ref) => ref \notin BuildGates)
    BY RemovesChecked
  <1> QED BY <1>1, Invariant, PTL DEF Spec, BuildsNotCollected

\* The image of an answered build is not collected before the minimum age.
THEOREM GraceIsKept == Spec => GraceKept
  <1>1. ASSUME IInv, [Next]_vars, NEW ref \in References, Collects(ref),
               NEW b \in Builders, wants[b] = ref, answered[b] # NotAnswered
        PROVE  now - answered[b] >= MinAge
    <2>1. records[ref].id # NoImage /\ now - records[ref].last >= MinAge
      BY <1>1, RemovesChecked DEF Recorded
    <2>2. records[ref].last >= answered[b] /\ answered[b] \in Nat
      BY <1>1, <2>1 DEF IInv, Renewed
    <2>3. records[ref].last \in Int /\ now \in Nat /\ MinAge \in Nat
      BY <1>1, ImageCacheAssumption DEF IInv, TypeOK, Record
    <2> QED BY <2>1, <2>2, <2>3
  <1>2. IInv /\ [Next]_vars =>
          (\A ref \in References :
              Collects(ref) =>
                  \A b \in Builders :
                      wants[b] = ref /\ answered[b] # NotAnswered => now - answered[b] >= MinAge)
    BY <1>1
  <1> QED BY <1>2, Invariant, PTL DEF Spec, GraceKept

-----------------------------------------------------------------------------
(* The gates *)

\* How far a builder is with `with building(reference)`.
Turn(b) ==
    IF at[b] = "new" THEN "before"
    ELSE IF at[b] = "gate" THEN "waiting"
    ELSE IF at[b] \in Inside THEN "inside" ELSE "after"

Turns == [b \in Builders |-> Turn(b)]
Wanted == [b \in Builders |-> wants[b]]

Gates == INSTANCE RefMutex
    WITH Callers <- Builders, References <- Tags, phase <- Turns, wants <- Wanted

\* Builders use the gates as RefMutex allows; a restart ends it for all of them.
TakesTurns == Gates!Init /\ [][Gates!Next \/ Restart]_<<Turns, Wanted>>

\* A step of one builder is one of its turn.
LEMMA OneTurns ==
  ASSUME NEW b \in Builders, OnlyMoves(b), UNCHANGED wants, NEW to, Turn(b)' = to
  PROVE  Turns' = [Turns EXCEPT ![b] = to] /\ Wanted' = Wanted
  <1>1. \A d \in Builders \ {b} : Turn(d)' = Turn(d)
    BY DEF OnlyMoves, Turn, Actors
  <1>2. Turns' = [Turns EXCEPT ![b] = to]
    BY <1>1 DEF Turns
  <1> QED BY <1>2 DEF Wanted

\* Inside the gate a step that does not leave it goes unnoticed.
LEMMA StaysInside ==
  ASSUME NEW b \in Builders, OnlyMoves(b), UNCHANGED wants,
         at[b] \in Inside, at'[b] \in Inside
  PROVE  UNCHANGED <<Turns, Wanted>>
  <1>1. Turn(b)' = "inside" /\ Turns[b] = "inside"
    BY DEF Turns, Turn, Inside, InGate
  <1>2. Turns' = [Turns EXCEPT ![b] = "inside"] /\ Wanted' = Wanted
    BY <1>1, OneTurns
  <1> QED BY <1>1, <1>2 DEF Turns

LEMMA BuilderTurns ==
  ASSUME IInv, NEW b \in Builders, BuilderStep(b)
  PROVE  Gates!Next \/ UNCHANGED <<Turns, Wanted>>
  <1>0. TypeOK /\ b \in Actors /\ OnlyMoves(b)
    BY BuilderMoves DEF IInv, Actors
  <1>1. ASSUME NEW ref \in Tags, RequestBuild(b, ref)
        PROVE  Gates!Come(b, ref)
    <2>1. at[b] = "new" /\ at'[b] = "gate" /\ wants' = [wants EXCEPT ![b] = ref]
      BY <1>0, <1>1 DEF RequestBuild, Goto, TypeOK
    <2>2. \A d \in Builders \ {b} : Turn(d)' = Turn(d)
      BY <1>0 DEF OnlyMoves, Turn, Actors
    <2>3. Turns' = [Turns EXCEPT ![b] = "waiting"]
      BY <2>1, <2>2 DEF Turns, Turn
    <2>4. Wanted' = [Wanted EXCEPT ![b] = ref]
      BY <1>0, <2>1 DEF Wanted, TypeOK, Actors
    <2> QED BY <2>1, <2>3, <2>4 DEF Gates!Come, Turns, Turn
  <1>2. CASE PassGate(b)
    <2>1. at[b] = "gate" /\ at'[b] = "inspect" /\ UNCHANGED wants
      BY <1>0, <1>2 DEF PassGate, Goto, StepFrame, TypeOK
    <2>2. ASSUME NEW d \in Builders, Turns[d] = "inside", Wanted[d] = Wanted[b]
          PROVE  FALSE
      <3>1. at[d] \in Inside /\ wants[d] = wants[b]
        BY <2>2 DEF Turns, Turn, Wanted
      <3>2. d # b
        BY <2>1, <3>1 DEF Inside, InGate
      <3> QED BY <1>2, <3>1, <3>2 DEF PassGate, GateFree
    <2>3. ~Gates!Occupied(Wanted[b])
      BY <2>2 DEF Gates!Occupied
    <2>4. Turn(b)' = "inside" /\ Turns[b] = "waiting"
      BY <2>1 DEF Turns, Turn, Inside, InGate
    <2>5. Gates!GoIn(b)
      BY <1>0, <2>1, <2>3, <2>4, OneTurns DEF Gates!GoIn
    <2> QED BY <2>5 DEF Gates!Next
  <1>3. CASE LeaveGate(b)
    <2>1. at[b] = "leave" /\ at'[b] = "done" /\ UNCHANGED wants
      BY <1>0, <1>3 DEF LeaveGate, Goto, StepFrame, TypeOK
    <2>2. Turn(b)' = "after" /\ Turns[b] = "inside"
      BY <2>1 DEF Turns, Turn, Inside, InGate
    <2>3. Gates!GoOut(b)
      BY <1>0, <2>1, <2>2, OneTurns DEF Gates!GoOut
    <2> QED BY <2>3 DEF Gates!Next
  <1>4. CASE ReuseBuilt(b) \/ Build(b) \/ RecordBuilt(b)
    <2>1. at[b] \in Inside /\ at'[b] # "done" /\ at'[b] # "gate"
      <3>1. PICK stage \in {"collect", "leave", "record"} : at' = [at EXCEPT ![b] = stage]
        BY <1>4 DEF ReuseBuilt, Hit, Build, RecordBuilt, Store, Broken, Goto
      <3> QED BY <1>0, <1>4, <3>1 DEF ReuseBuilt, Build, RecordBuilt, Inside, InGate, TypeOK
    <2>2. at'[b] \in Inside /\ UNCHANGED wants
      BY <1>0, <2>1, BuilderMoves DEF Inside, InGate
    <2> QED BY <1>0, <2>1, <2>2, StaysInside
  <1> QED BY <1>1, <1>2, <1>3, <1>4 DEF BuilderStep, Gates!Next

\* Identical builds exclude each other, and no others, in everything that
\* runs under `with building(reference)` in build_image(): collections, repeated
\* builds and exceptions included, builders come to the gate of their tag, go in
\* and go out as RefMutex has it, which BuildGate implements.
THEOREM BuildersTakeTurns == Spec => TakesTurns
  <1>1. Init => Gates!Init
    BY DEF Init, Gates!Init, Turns, Turn, Wanted, Actors
  <1>2. ASSUME IInv, [Next]_vars
        PROVE  Gates!Next \/ Restart \/ UNCHANGED <<Turns, Wanted>>
    <2>1. CASE UNCHANGED <<at, wants>>
      BY <2>1 DEF Turns, Turn, Wanted
    <2>2. ASSUME NEW c \in Creators, CreatorStep(c)
          PROVE  UNCHANGED <<Turns, Wanted>>
      <3>1. \A b \in Builders : at'[b] = at[b] /\ wants'[b] = wants[b]
        BY <1>2, <2>2, CreatorMoves, ImageCacheAssumption DEF OnlyMoves, Actors
      <3> QED BY <3>1 DEF Turns, Turn, Wanted
    <2>3. ASSUME NEW b \in Builders, BuilderStep(b)
          PROVE  Gates!Next \/ UNCHANGED <<Turns, Wanted>>
      BY <1>2, <2>3, BuilderTurns
    <2>4. ASSUME NEW a \in Actors, DockerFails(a) \/ DiskFull(a) \/ Collect(a)
          PROVE  UNCHANGED <<Turns, Wanted>>
      <3>1. OnlyMoves(a) /\ UNCHANGED wants
        BY <1>2, <2>4, SharedMoves
      <3>2. CASE a \notin Builders
        BY <3>1, <3>2 DEF OnlyMoves, Turns, Turn, Wanted, Actors
      <3>3. CASE a \in Builders /\ at'[a] = at[a]
        BY <3>1, <3>3 DEF OnlyMoves, Turns, Turn, Wanted, Actors
      <3>4. CASE a \in Builders /\ at'[a] # at[a]
        <4>1. at[a] \in Inside /\ at'[a] \in Inside
          BY <1>2, <2>4, <3>4, SharedMoves DEF Inside, InGate, Collecting, IInv, Placed
        <4> QED BY <3>1, <3>4, <4>1, StaysInside
      <3> QED BY <3>2, <3>3, <3>4
    <2>5. UNCHANGED vars \/ Tick \/ (\E ref \in References : External(ref)) =>
              UNCHANGED <<at, wants>>
      BY DEF vars, threads, Tick, External
    <2> QED BY <1>2, <2>1, <2>2, <2>3, <2>4, <2>5 DEF Next
  <1>3. IInv /\ [Next]_vars => [Gates!Next \/ Restart]_<<Turns, Wanted>>
    BY <1>2
  <1> QED BY <1>1, <1>3, Invariant, PTL DEF Spec, TakesTurns
=============================================================================
