# TLA+ models of docker-sandbox-broker

The broker is a small HTTP server that creates, uses and deletes Docker
containers ("sandboxes") for clients that must not have the Docker socket. These
modules model the parts of it that are hard to test: threads and coroutines that
interleave, calls to the Docker daemon that fail half way, requests that are
cancelled, a process that is restarted. TLC checks small instances; the modules
`*_proofs` prove the most important properties for every instance.

Paths such as `service.py` are below `src/docker_sandbox_broker/` of the
repository.

## The system

| part | state | operations | model |
|---|---|---|---|
| sandbox service (`service.py`) | `_records`: id, container, deadline; memory only | create, get, list, exec, files, delete, `sweep_expired` | `SandboxService`, implements `SandboxLease` |
| expiry sweep (`api.py`, `_sweep_forever`) | none | one sweep per interval, in a thread | `SandboxService` |
| build executor (`build_executor.py`) | counters, tickets, byte budget, a semaphore, a thread pool | `run`, `_finished`, `snapshot`, `close` | `BuildExecutor`, implements `BuildAdmission` |
| build gates (`image_cache.py`, `building`) | `_build_gates`: a Lock and a user count per reference | enter, leave | `BuildGate`, implements `RefMutex` |
| image cache (`image_cache.py`) | `_records` and its file, `_reservations` | `reuse_built`, `record`, `reserve`, `touch`, `collect_if_needed` | `ImageCache` |
| Docker runtime (`runtime.py`) | none; it sequences the calls to the daemon | create, delete, inspect, `build_image`, exec, files | inlined in `SandboxService` and `ImageCache`; exec and files in `Transfer` |
| HTTP API (`api.py`) | none | handlers; lifespan | as the threads and the coroutine that run the above |
| validation, settings (`service.py`, `config.py`, `models.py`) | none | comparisons with limits | not modelled |
| Harbor and OpenInstruct adapters (`harbor.py`, `openinstruct.py`) over the client (`client.py`) | `_sandbox`, the HTTP client, `_use_prebuilt`; files in the sandbox | start, stop, close, exec, copy | `Session`, over `SandboxLease`; with Compose `ComposeSession`, over `Session`; copies in `Transfer` |
| host launcher (`host.py`) | socket, token and environment file | `prepare_runtime`, `main`, `cleanup_runtime` | `HostLauncher` |
| log wrapper (`scripts/rotate_output.py`, `just start`) | a child process, its pipe | `main`, `forward` | `RotateOutput`, over `HostLauncher` |
| `logging.py`, `timing.py` | none of the broker's | | not modelled |

### How the parts interact

* Starlette runs the plain handlers (create, list, delete, ...) in threads. They
  share the service's records and the image cache, each behind an `RLock` that
  is *not* held while Docker is called, with one exception: an image collection
  and `reuse_built` call the daemon under the cache's lock.
* `POST /v1/images/build` is a coroutine. It enters the build executor on the
  event loop, waits for a slot of an `asyncio.Semaphore`, and awaits the build,
  which runs `DockerRuntime.build_image` in the executor's own threads. Starlette
  may cancel the coroutine wherever it awaits.
* A build passes the gate of its tag, asks the cache for an image, and otherwise
  collects, builds and records. A creation resolves or pulls its image, reserves
  it, creates and starts the container, and only then gets a record. A deletion
  removes the container, collects images, and then drops the record.
* The sweep deletes expired sandboxes through the same `delete` as clients do.
* The daemon is shared: others may remove containers and move tags.
* An adapter makes HTTP requests through the client. Harbor's are made in a
  thread that a coroutine awaits: when the coroutine is cancelled the thread, and
  the broker, go on. The same holds when the client's timeout passes.
* With Compose an environment stages files in the sandbox and gives Compose
  commands there, by exec requests. A command that nobody waits for any more goes
  on: neither the client, nor the broker's thread, nor a cancelled coroutine can
  stop it. The same holds for the commands that move files and directories.
* `just start` runs a launcher under uv under the log wrapper: three processes, of
  which the wrapper is in another session and passes signals on.
* Launchers share nothing but the files of the runtime directory; the directory
  is what a container of a consumer mounts to reach the broker.

### What is hard, and what makes each part correct

* *Service.* Deletes, the sweep and listings interleave with the end of
  creations; every call can fail; the sweep works through an old list. A
  container somebody was given must stay reachable through a record, must not be
  swept early, and must be swept once it is due.
* *Executor.* A slot changes hands in three steps (released, handed over, taken)
  and cancellation may strike between any two. No slot may be lost, the limits
  must hold for what really runs, shutdown must drain, nobody may be forgotten.
* *Gates.* The Lock that separates two builds is deleted by its last user and
  made anew by the next.
* *Cache.* Collection decides, then acts; images in use, reserved, being built
  or just built must survive it, in every interleaving and across restarts.
* *Adapters.* What an adapter holds after a start or a stop that failed half way
  decides whether anybody can still delete the sandbox before its deadline. With
  Compose, later commands must name the files that the running project was made
  with, whatever start failed or was repeated.
* *Transfers.* A call that returns normally must have moved everything, and what
  is staged on the way must not stay, although any party can give up at any time
  while its command goes on.
* *Launcher.* Every file operation of one launcher can fall between any two of
  another, and the directory outlives a launcher that is killed.
* *Wrapper.* Its child is not the process whose output it reads, and either can
  end first; signals come at any moment.

`PROJECT.json` lists these hazards one by one with their lines.

## Modules

The unit of atomicity everywhere is what the code makes atomic: a section under
a lock, one call to the Docker daemon, or the code between two awaits. Actions
carry the names of the functions they come from where one action is one function.
Definitions commented "Seeded fault" are not used by any specification; they are
the wrong versions of the definition after them, kept to show that a property
notices the difference.

### `SandboxService`, `SandboxLease`

Actors are request threads (`Deleters`), the sweep (`Sweeper`), one creation per
sandbox id and one listing. `create` says how far `BrokerService.create` and, in
it, `DockerRuntime.create` is: image, container, start, clean-up after a failed
start, record. `container` is what the daemon has; `records`, `created_at`, `ttl`
are the records. `at`, `target` are an actor's position in `delete` (look up,
`containers.get`, `remove`, collection, drop of the record), `due` the rest of
the sweep's list, `todo` and `missing` a listing in progress. A restart empties
what is memory. Image acquisition and collection only succeed or raise here.

Deviations: the sweep takes the due sandboxes in any order (the code: in the
order of creation). The ownership check in `DockerRuntime.delete` is not
modelled, since the broker's own containers carry the labels it compares. An
answer of the daemon that is lost (a timeout in the HTTP library below the
Docker library, which is no `DockerException`) is the outcome `abandoned`. `get()`
is a listing of one.

`SandboxLease` is the service as a client sees it: the `phase` of each sandbox,
the deletions asked for and the deadlines passed. It has no records, threads or
Docker calls. `ImplementsLease` is the refinement: `Phase` computes the phase from
`create`, `records` and `container`, `deleting` and `overdue` come from the
deleters and the clock. `SandboxLease` is also what `Session` is built on, so what
holds there holds of adapters over this service.

### `BuildExecutor`, `BuildAdmission`

`pc` is where the `run()` of a request is suspended, `worker` the state of its
build in the pool. `Resume...` are the steps after `acquire()`, `Finished` is the
done-callback, `Answer` the end of `run()`. `StartAtOnce` and `FailAtOnce` are
`run()` when `acquire()` does not suspend. `asyncio.Semaphore` is modelled as
CPython has it since 3.12, the version the package requires: `locked()` is true
when a waiter that is not cancelled exists, a release resolves the future of the
first pending waiter, a waiter that was resolved and then cancelled gives its
slot back, and a resumed waiter wakes at most one more. The operators `WakeNext`
and `Release` are functions on the pair (free slots, `pc`), so that they compose.

`BuildAdmission` is the promise without the machinery: bounded admission,
bounded concurrency, cancellation of the caller does not end a running build,
nothing admitted after close. `ImplementsAdmission` is the refinement, with
`phase` computed from `pc` and `worker`.

### `BuildGate`, `RefMutex`

`BuildGate` has the Lock objects as values: `gate_of` and `users` are the two
halves of an entry of `_build_gates`, `my_gate` is the local variable, `holder`
the owner of a Lock. A Lock nobody refers to any more may be returned again by
`Lock()`. `RefMutex` says what `building()` is for: one at a time per reference,
no waiting across references, and everyone gets in.

### `ImageCache`

Creators and builders are one-shot request threads over the cache, its file and
the daemon's tags. `lock` and `gc` are a running collection: unlike every other
section under the cache's lock, it makes calls to the daemon that other threads
can see in between (`BeginCollection`, then per record `PassOver`, `ForgetStale`
or `Confirm` and `RemoveImage` or `RemoveFails`; `CollectionRaises` ends it by an exception the
code does not expect). `Store` is a change of
`_records` with its save, which may fail after the change. `building()` enters
as its promise, `GateFree`; `BuildGate` shows that it keeps it. A builder inside
its gate waits for the cache's lock (`Unlocked`), as in the code.

`origin` says how a reference came to stand for its image: by a call of the broker
that returned (`broker`), by one that raised although the daemon had the image by
then (`unreported`), by a broker that ended before its record was saved (`lost`), or
by somebody else (`other`). `DockerFails` and `DiskFull` let every pull, build and
second attempt raise with or without its effect (`Unreported`): docker-py reads the
daemon's stream and then asks for the image, so it can raise after the tag is there,
and the code records only what returned.

Deviations: the images of the broker carry the labels `reuse_built` compares (the
tag is a digest of the build's inputs), those of others may or may not; the mismatch
of ids is
modelled too, from an inventory that is out of date or a build that is repeated
(`ImagesOf` is a set per reference, and any step that makes a tag chooses from it).
A call that raised has had its effect by then, or never has it: a daemon that goes
on alone after the caller gave up is not modelled.
Free space is one of `FreeBytes` at each look. What containers other than the broker's use is not represented; a
removal may be refused at any time anyway (`RemoveFails`).

Three properties say less than one would like to read, each because the code does
no more:

* `ReservedNotCollected` is about the image that was confirmed. When another user
  of the daemon moves the tag between the two calls of a removal (`Confirm`,
  `RemoveImage`), the tag is removed in its new place, whatever is reserved.
* `OwnedIsTracked` excuses an image whose pull or build raised after it took effect
  (`unreported`) and one whose record was not on disk when the broker ended
  (`lost`): nobody records those, so no collection removes them, until the reference
  is acquired again or an identical build finds it and adopts it. The property also
  is about references that are never made anew (`Steady`). Where a
  reference can be pulled or built again with another result, two pulls can be
  recorded in the opposite order of their ends, and a `touch` that still knows the
  old image drops the record of the new one; then the image that is there is in no
  inventory until somebody asks for it again.
* `NoDuplicateBuild` leaves a build whose tag somebody else made after
  `reuse_built` looked, and the second attempt of a build whose first one ran out
  of space after the daemon had named its image. Between different builds of the
  broker nothing is excused.

### `Session`

Several adapters over the broker's promise: `Environments` are Harbor's
`LocalBrokerEnvironment` (those in `Composes` with `_BrokerCompose`), `Backends`
are OpenInstruct's. `box` is `_sandbox`, `http` the client, `step` and `about` what
the adapter waits for. A request for which nobody waits any more, after a timeout
or a cancellation, is simply a step of the broker later on: `CreateUnanswered`
and `DeleteFails` do not depend on whether the broker failed, is slow, or
answers too late. The actions of the broker are those of `SandboxLease`, all of
them, restart included.

Deviations: a consumer makes one call at a time on an adapter, as Harbor and
OpenInstruct do. What `start()` does after it has the sandbox (directories,
uploads) needs no state of the session: it succeeds, or fails with the sandbox
held, and both are `Created`.

### `ComposeSession`

`Session` extended by what `_BrokerCompose` does in the sandbox. `stage` is the
command or upload `start()` waits for (`After` is their order), `prebuilt` is
`_use_prebuilt`. Of the files only what commands depend on is kept: `staged` (all
files but the network overlay are there), `overlay` and `project` (the mode that
the overlay and the running project were made for). `pending` are the commands
that were given up and may still be carried out (`Lands`); an abandoned stage
before `up` is not among them, since nothing follows it in that sandbox. Every
step is one of `Session` or leaves its variables alone, so the actions that end a
start or a stop are those of `Session` with an effect in the sandbox added
(`Controlled`, `TakeDown`, `Stopped`, `Perish`).

Deviations: the uploads of one stage are one step, which happens or does not; a
file is there in full (that is `Transfer`'s subject). Whether a task has a
prebuilt image (`should_use_prebuilt_docker_image`) is chosen anew in every start,
since it depends on `force_build`. A sandbox that the adapter let go of is not
followed any more.

### `Transfer`

Any number of calls, each made once, copy files or directories into or out of one
sandbox: the broker's `write_file`, `put_archive` and `read_file`, and Harbor's
`_host_upload_dir` and `_host_download_dir`, which put an archive in `/tmp` and
pack or unpack it by a command. A call has three actors. `caller` is the adapter
or client, `thread` the broker's thread for its request, and `process` the
commands in the sandbox and the two archive calls of the Docker daemon. Each
waits for the next, and can stop waiting (`GiveUp`, `RequestFails`,
`PrepareFails`, `Landed` with "error", ...) without the other noticing.
`content` has two parts per file, written one after the other, so that a copy can
be cut off or mixed with another. `crossed` and `excused` are not of the code: they
note which uploads overlapped and which files nobody is going to remove.

Deviations: one target; all archives and files have two parts; a name that is
removed while a command has the file open leaves the command its data. The size
and path checks come before the first step.

### `HostLauncher`

One action per file operation of `prepare_runtime`, `main` and `cleanup_runtime`;
`pc` is the position of a launcher, the variables `socket`, `token` and `env` are
the files. `Kill` may happen between any two. What the server does with the path
is modelled from asyncio and uvicorn: binding removes a socket that is there, a
graceful end removes the path. `disturbed` is not a variable of the code: it notes
that launchers overlapped, or that a busy broker did not answer the probe in half
a second. The code has no lock against that, and `ServingIsExposed` is stated for
behaviours without it; `OneToken`, `TokenStable` and `EnvOnlyWhileServing` are
stated for all. uvicorn raises a SIGTERM again after its own shutdown, so that such
an end may be a `Kill` rather than a `Stop`.

### `RotateOutput`

`HostLauncher` extended by the wrapper of some of the launchers (`Wrapped`).
`wrapper` is its position: forked (the child runs, signals are not handled yet),
reading, returned or dead. `leader` is its child, uv, whose child in turn is the
launcher; both have the writing end of the pipe (`unread`). `Forward` marks both
as `told`, since it signals the process group, but only while the child is there.
`Obey` and `LeaderFollows` are not actions of their own: they name the steps that
a launcher and uv have to take when they were told, for the fairness conditions.

Deviations: rotation and the dropping of what cannot be written are inside
`ReadChunk`; the return code is not represented.

### `*_proofs`, `MC*`

The theorems, see below, and values of the constants for TLC. The theorems about
`RotateOutput` are in `HostLauncher_proofs`, those about `Session` in `Session_proofs`.

## Runs

| run | instance | what it shows |
|---|---|---|
| `sandbox_safety` | 2 sandboxes, 2 deleters, sweep, ttl omitted or 1, no default, one restart | `Accounted`, `MissingIsGone`, `RemovedEarlyOnlyOnRequest`, `ImplementsLease`, `TypeOK` |
| `sandbox_liveness` | 2 sandboxes, one of which can never be removed, ttl omitted or 1, default 1 | `ExpiredReclaimed` |
| `sandbox_listing` | a delete between two listings | *violated*: `NextListingOmits` |
| `build_safety` | 4 requests, 2 workers, queue of 1, 3 bytes for sizes 1, 1, 2, 1 | `CountsExact` (slots, counters, tickets), `TotalsExact` (bytes, totals), `WithinLimits`, `ShutdownDrains`, `NoOvertaking`, `ImplementsAdmission`, `TypeOK` |
| `build_liveness` | 4 requests, 1 worker, queue of 2, one request too large | `EveryBuildEnds`, `CloseCompletes` |
| `gate` | 3 callers, 2 references, 3 Locks | `ExactExclusion` (one build per reference, no waiting across references), `EntryIffUsed`, `ImplementsRefMutex` with its liveness, `TypeOK` |
| `image_builds` | 2 builds of one tag that may give two images, 1 creation from it, a restart, two changes from outside, three inventories | `NoDuplicateBuild`, `BuildsNotCollected`, `GraceKept`, `TypeOK` |
| `image_shared` | 2 creations, 1 build, a pulled and a built image, one interference from outside, two inventories | `OwnedIsTracked`, `ReservationsExact`, `ReservedNotCollected` |
| `image_gap` | 2 creations of one recorded image | *violated*: `ResolvedImageIsThere` |
| `session` | 2 sandboxes, an environment, one with Compose, a backend, restarts of the broker | `ProjectMatches`, `ConnectionsMatch`, `LeftOnlyToTheSweep`, `ComposeTypeOK` |
| `transfer` | 2 calls of any kind, a plain or a Docker-enabled sandbox, its deletion, deaths of the broker | `DeliveredWhole`, `LeftoversExplained`, `TypeOK` |
| `host` | 3 launchers, one with a token of its own; one of the others wrapped | `ServingIsExposed`, `OneToken`, `TokenStable`, `EnvOnlyWhileServing`, `ReturnsLast`, `SignalEnds`, `WrappingTypeOK` |

What some of them say that the code does not show at a glance:

* `RemovedEarlyOnlyOnRequest`, `ExpiredReclaimed`: both take the lifetime from
  SPEC.md (`LifeIsOver`) and not from the arithmetic of the code (`Expired`); one
  run has no default, so that an omitted ttl means for ever, the other a default.
* `LeftOnlyToTheSweep`: five ways in which an adapter lets go of a sandbox that may
  be up. One is a restart of the broker: it no longer knows the sandbox, the DELETE
  is answered as if it were gone, and `stop()` returns normally although the
  container is there.
* `ProjectMatches`: `_use_prebuilt` changes only in a `start()`, which makes a new
  sandbox first; a start that fails before it chooses leaves the old mode with an
  empty sandbox, in which nothing runs. Choosing first, as the direct mode does,
  would break it (`BeginChoosing`).
* `DeliveredWhole`: a call that returned normally left nothing running that could
  write the target later. Uploads that were given up may, so a retry of an upload
  is promised nothing while the first one is still at work (`crossed`).
* `LeftoversExplained`: the paths on which a staging file or an archive stays are
  exactly those that `excused` lists: a failure before the `try`, of the removal
  itself, or of the process in charge.
* `SignalEnds`: a signal that was passed on ends launcher, uv and wrapper. One
  that arrives before the handlers are installed ends the wrapper alone and one
  that arrives after uv ended is ignored; the model has both.

### The two violations

1. `sandbox_listing`. SPEC: after a concurrent deletion "the next listing omits"
   the sandbox. `delete` drops the record after the image collection that follows
   the removal, so later listings may show it too.
2. `image_gap`. SPEC: "an in-memory reservation closes the gap between resolving
   an image and creating its container". It starts after the image was resolved,
   in another critical section. The minimum age covers the gap for images whose
   record `touch` just renewed, unless the thread is held up for that long.

### Bounds, and why they are enough

Every bound is a constant of its module: `MaxTime` (clock), `MaxRestarts`,
`MaxExternal`, and the sets of requests, threads and references, each of which
makes one request. Two deleters and the sweep are three parties at one sandbox,
one more than any step in `delete` distinguishes; a second sandbox is what the
sweep must still reach when the first one fails. Four builds over two workers
and one queue place fill both, leave one to be rejected, and leave one to arrive
while a slot is handed over; three requests on one worker give a queue with a
successor for a slot that comes back. Three gate users are one inside, one
waiting and one arriving as the first leaves. In the cache, `image_builds` has
one reference, on which all threads meet, with a restart, and `image_shared` two, so
that collections go from one record to the next, without one (what a restart does to
`OwnedIsTracked` is left to its theorem); together they include every pair of
operations. Free space is below the minimum or at the target. In `session` a second sandbox is what an adapter that starts again
takes, and the other adapters are what can hold it; starts and stops are not
bounded but by the sandboxes. In `transfer` the second call meets what is left of
the first, in the target and in `/tmp`. In `host` a launcher can leave the
directory, one can be at work on it, and one can come after; wrapping one of them
shows the wrapper with a launcher that is refused, served or killed. Symmetry is used in the safety runs that declare it, among
interchangeable threads and requests of equal size, never with liveness.

`CHECK_DEADLOCK FALSE` is given where the requests are one-shot and the model
therefore stops when all are answered: executor, gates,
cache, transfers and launchers.

### Fairness

* Sweep: the loop wakes again (`_sweep_forever` catches everything) and its
  thread runs: weak fairness of its steps. The daemon does not refuse for ever:
  strong fairness of a successful `get` and `remove`, for removable containers
  only. Nothing is assumed of clients.
* Executor: the event loop runs what is ready, a pool thread takes what is
  submitted, builds end (the Docker client has a timeout). Requests, cancellation
  and `close()` are not fair.
* Gates: threads run and a free Lock goes to somebody waiting; bodies end. Each
  caller comes once, so nobody can be overtaken for ever.
* Wrapper: it reads what there is and sees the end of file (its loop does nothing
  else); a launcher that was signalled ends, since uvicorn handles the signal
  while it serves and Python's default does at any other moment; uv, which only
  waits for its child, ends after it. For a launcher that uv
  starts only after the signal was forwarded this assumes something of uv: that it
  hands the signal on. Nothing is assumed of who sends signals.

`Session`, `ComposeSession` and `Transfer` have no fairness: an adapter promises
nothing about when it is called, and their properties are safety.

## What is proved

All theorems are of the form `Spec => ...` for every value of the constants that
satisfies the module's `ASSUME`. They are checked by TLAPS with SMT (Z3), Zenon
and, for the temporal steps, PTL.

### `SandboxService_proofs`

`TypeCorrect`; `AlwaysAccounted` (a container that is up has a record, or is
still being created, was left behind by a failure, or forgotten by a restart);
`MissingStaysGone`; `EarlyRemovalIsRequested` (the sweep never takes a sandbox
before its deadline); `LeaseKept`, the refinement of `SandboxLease`. `Accounted` is not inductive: a record may be
dropped only because the container of a delete past its removal is gone
(`RemovalFirst`), and a creation that has not begun or failed cleanly has no
container (`ContainerFollowsCreate`). The action property needs that what the
sweep deletes was expired when it was listed and still is (`SweepsOverdue`),
because what has a record was served, so its deadline is fixed
(`KnownWasServed`), and the clock only advances. For the refinement each step
becomes one of the lease or a stutter: a removal finds its sandbox ready by
`Accounted` and asked for or overdue by `SweepsOverdue`, a dropped record finds it
gone by `RemovalFirst`, a returning `delete` ends the client's DELETE unless
another one of the same sandbox is in progress.

### `BuildExecutor_proofs`

`TypeCorrect`, `CountsAlwaysExact` (from `SlotsNeverLost` and `CountersTell`),
`CloseDrains`, `LimitsHold` and `KeepsPromise`, the refinement of `BuildAdmission`. The inductive invariant is
`IInv`: types; which pairs of `pc` and `worker` go together (`Consistent`); slots
conserved; counters exact; the limits; the drain. The core lemmas are `WakeNextConserves`
and `ReleaseAddsOne`: on any state, waking hands a slot from the free ones to one
waiter, so the sum of free slots and holders stays, and releasing adds exactly
one. Each action then removes or adds one request to each of the sets admitted,
busy and holding, and the lemmas about cardinalities of sets that gain or lose an
element (`Joins`, `Leaves`, `Frame`) do the counting. `LeastExists` (a
non-empty set of naturals has a least element) gives the first pending waiter.
The refinement follows from the invariant: `pending` being the number of admitted
requests gives the abstract room, the conservation of slots the abstract worker.

`StatusAddsUp` (`TotalsExact`). The bytes that are charged are a sum over the
admitted requests. A sum is defined by recursion over a set, which this prover has
no induction for, so the module says it by counting: `AdmittedBytes` is the set of
all single bytes of the contexts, and the charge is its cardinality. A request that
joins or leaves moves a set of `Size[r]` elements that is disjoint from the rest
(`BytesPlus`, `BytesMinus`). Likewise every accepted request is in one of
the sets admitted, completed, failed, cancelled, abandoned, whose sizes are the totals.

`NobodyOvertakes` (`NoOvertaking`) is an action property: `run()` takes a free slot
at once only if `locked()` is false, which looks at the deque only. It holds because
every request that waits, or was handed a slot and has not run since, is still in the
deque (`InLine`); it leaves the deque only when it runs again. `RemoveAtShape`,
`RemoveAtKeeps` and `RemoveFirstKeeps` are the facts about sequences this needs.

`SlotsAreHandedOn` and `NeverStuck` are what the liveness of the executor rests on,
as safety. A semaphore can lose a wake-up: a slot is released, who it was meant
for was cancelled, and the others sleep on. `NoneIdle` says that this never
happens: whenever requests pend and a slot is free, one that was woken has yet to
resume, and hands on what it leaves. Its proof needs the converse of `InLine`, `Line`:
the deque holds only requests that are still suspended, each once, so that a
newcomer that finds the deque not empty queues behind somebody who was woken or
pends (`Locked`). `SomeoneIsFirst` and `WakeNextFills` say that waking finds whoever
pends. `NeverStuck` follows with the conservation of slots: while a build is admitted,
the loop or a thread has a step to take for some build, `submitted` ones included,
since fewer threads than workers are at work then. With `AccountingExact` a `close()`
that drains waits for no less and no more. That those steps do come is fairness, and
stays with TLC (`EveryBuildEnds`, `CloseCompletes`).

### `BuildGate_proofs`

`ExclusionIsExact` (from `OneBuildPerReference` and `NoWaitForOthers`),
`TypeCorrect`, `EntriesFollowUsers`, and `GateImplementsExclusion`, the safety part of the refinement of `RefMutex`. The
invariant: every user of a reference has the Lock of its entry, different
references have different Locks, and a Lock is held exactly by the caller inside.

### `Session_proofs`

`TypeCorrect`, `ConnectionsAlwaysMatch` (from `HeldStaysDeletable` and
`ConnectionsEnd`), `OnlyTheseAreLeft`. The
invariant is a predicate about one adapter, `Fits`: what it holds was served and
comes with an open client, a backend that is in a call holds nothing, the sandbox
that an environment's `stop()` waits for is the one it holds. One step
concerns one adapter, and the broker's steps never make a served sandbox one that
was not (`Served`), so each action is checked for `Fits` of that adapter.

### `ComposeSession_proofs`

`ComposeSessionsAreSessions` is the refinement: what Compose does in a sandbox is no
step of the session, and all other steps are steps of `Session`, so the theorems
of `Session_proofs` hold here too. `ProjectAlwaysMatches` and `ComposeTypeCorrect`
rest on two more invariants. `Sole`: no two adapters hold, or wait for, the same
sandbox, and none of those is new; so what one does in its sandbox concerns no
other (`Elsewhere`). `InOrder`, a predicate about one environment, relates how far
`start()` is to what is in its sandbox: before `up` was given nothing runs there
(`Raised`), and once it was, running or pending, the files are staged, the overlay
is of the mode in `_use_prebuilt`, and `_use_prebuilt` is not chosen again.
`InOneSandbox` reduces each action to that sandbox. `Clean` says that a sandbox
nobody holds has nothing in it, which is what a start begins with.

### `HostLauncher_proofs`

`TypeCorrect`, `ServingStaysExposed`, `ServedWithOneToken`, `TokenKept`,
`DirectoryTidy`. An empty
token file has at most one writer, and nobody uses the file before it wrote
(`OneWriter`); a token in use is the launcher's own or the one in the file
(`HasToken`). While nothing was `disturbed`, `Apart` says of any two launchers
which can be at work together: one that prepares is alone, one that serves meets
at most launchers that probe its socket. Hence what a launcher wrote is still
there when it serves (`Untouched`). `DirectoryTidy` (`EnvOnlyWhileServing`, also for
launchers that overlap) needs that a file which is there has a launcher that will
remove it, or one that was killed or gave up.

About the wrapper: `WrappedLaunchersAreLaunchers` carries the theorems over to
`RotateOutput`. `WrappingTypeCorrect`, and `WrapperReturnsLast`: from `Return` on
nothing can print or start, since a launcher that is over stays so, and one that is
new needs uv.

### `ImageCache_proofs`

`TypeCorrect`, `ReservationsAlwaysExact`, `NoBuildTwice`, `OwnedStaysTracked`, and the
action properties `ReservedStays`, `BuildsStay`, `GraceIsKept`: all properties the runs
check, for any threads, references, images, inventories and bounds.

The action properties are about the step that removes an image, which comes some
calls after the collection decided to. `CheckedIsFree` says what is still true of
the image then: it is recorded, old enough, not in the snapshot of what is in use, and
its tag has no gate. `Collection` adds that whatever is reserved is in that
snapshot: reserving needs the lock, which the collection holds from its first look at
the reservations to its end. `BuildGates` grows without the lock, so `Confirm`
looks again, and a build that enters later finds the lock taken. `Renewed` gives the
grace: the record of an answered build is as young as the answer, in memory and on
disk, so that neither another record, nor a restart that reads the file, makes it old.

`NoBuildTwice` needs that builds of one tag pass the gate one at a time (`OneInside`,
which `BuildGate_proofs` shows of the gates themselves) and that between the look
and the build only somebody else can make the tag or the build's own first attempt (`MissingUntilBuilt`).
`OwnedStaysTracked` needs that what the daemon has and what threads carry was made
for their reference (`MadeFor`): with `Steady` there is only one such image, so a
late `record` or `touch` cannot be of another one. Reservations are counted
with the cardinality of the set of creations in the stages that hold one
(`ReserveIsExact`, `UnreserveIsExact`); their number bounds the type of the counter.

`BuildersTakeTurns`: seen through `Turns` (outside, waiting at the gate, inside it) and
`Wanted`, everything the builders do between two restarts is a behaviour of `RefMutex`,
which `BuildGate` implements (`GateImplementsExclusion`). The guard `GateFree`, by which
`ImageCache` stands for the gates, is thereby the promise of that theorem and
not a second model of them; a restart, which empties the gates, is the one step
that `RefMutex` does not have.

### `Transfer_proofs`

`TypeCorrect`, `LeftoversStayExplained`, `DeliveredIsWhole`, for any number of calls.
The invariant has three parts.

`Own(o)` is about one call and never depends on another. Commands, thread and caller
fit the kind of the call (`Matching`); a result is kept only for who waits for it
(`Awaited`); the thread answers once, and a call in which nothing went wrong gets past
its request only with "ok" (`AnswersOnce`); while nothing went wrong nothing is
copied that nobody waits for (`OnTrack`). A staging file or an archive that is not
excused has somebody who is still going to remove it (`StagedIsDropped`,
`ArchiveIsCleaned`), and at the end of the call that leaves only the excuses: this is
`LeftoversStayExplained`. A step of a call leaves all the others as they are
(`SameCall`), so it is enough to check each action for its own call.

`Alone(o)` is about two: an upload that is not counted as crossing `o` is over, and
what is over stays so (`OverStaysOver`), although its thread may have died and its
commands gone on before.

`CopiedSoFar(o)` says of a call that nothing spoilt which files are equal by now, or
half equal, as far as its position tells. A copy disturbs none of it: of such a call
only one command copies at a time (`OneAtATime`), and what it writes is none of the files
the call is done with (`CopyCopied`); another call writes no file of `o` but the target,
and then it is an upload at work, which `Alone` excludes (`OthersCopied`).
`DeliveredIsWhole` puts the equalities of the last positions together.

### Only model-checked

* Liveness (`ExpiredReclaimed`, `EveryBuildEnds`, `CloseCompletes`, `SignalEnds`, the
  fairness part of `ImplementsRefMutex`): beyond this prover. `NeverStuck` is the safety
  under the two of the executor.

All other invariants and action properties that a run checks are theorems. Of
`ImplementsRefMutex` the safety part is (`GateImplementsExclusion`).

## Not modelled

Validation and settings (stateless), routing, authentication and error mapping,
the layout of logs and of the inventory file, the contents of Compose files, the
checks of ownership and modes in the launcher. Of the daemon only what
the broker asks of it: containers that are there or not, tags that name an image,
calls that fail before or after they took effect.

A restart forgets every record: a sandbox that outlives its broker is `lost` in
`SandboxService` and `SandboxLease`, and no property says that it is reclaimed.
The repository's SPEC.md names recovery through labels and leases as a later
milestone. Two more things the models show and no property forbids, because the
repository does not promise otherwise: the deadline counts from before the image
was pulled, so a sandbox may be registered with little of its lifetime left; and an
image that was pulled or built when the broker died, or whose pull or build raised
after it took effect, is not in the inventory, so no collection removes it. A tag that another user of the daemon moves between
the two calls of a removal (`Confirm`, `RemoveImage`) is removed in its new place.
With both thresholds 0 the emergency collection after a full disk still removes
one image (README.md:298-299 of the repository says that 0 disables collection,
SPEC.md:135-136 describes the emergency).

## Plan

Done: all modules above, and as theorems everything the passing runs check but
liveness. What is left:

1. Safety under the other liveness properties, as `NeverStuck` is for the executor:
   that a sweep always has its next step (`ExpiredReclaimed`), that a signalled wrapper
   does (`SignalEnds`).
2. `ImageCache` over `BuildGate` itself instead of its promise, if the state
   space allows it.
