------------------------------ MODULE Session ------------------------------
(***************************************************************************)
(* The two adapters that hold a sandbox on behalf of a consumer, over what *)
(* the broker promises them (SandboxLease): Harbor's environment           *)
(* (harbor.py, LocalBrokerEnvironment, alone or with Docker Compose) and   *)
(* OpenInstruct's backend (openinstruct.py, LocalBrokerBackend).           *)
(*                                                                         *)
(* A consumer makes one call at a time on its adapter.  A call of Harbor's *)
(* is a coroutine, cancelled wherever it awaits; the thread that waits for *)
(* the broker, and the broker, then go on without it.  Work inside the     *)
(* sandbox (commands, copies) only succeeds or ends the call, and is left  *)
(* out.                                                                    *)
(***************************************************************************)

CONSTANTS
    Sandboxes,       \* ids the broker may hand out
    Environments,    \* Harbor environments
    Composes,        \* those of them that run Docker Compose in the sandbox
    Backends,        \* OpenInstruct backends
    NoSandbox

ASSUME SessionAssumption ==
    /\ Composes \subseteq Environments
    /\ Environments \cap Backends = {}
    /\ NoSandbox \notin Sandboxes

VARIABLES
    phase, deleting, overdue,    \* the broker's side, see SandboxLease
    step,     \* where in start(), stop() or close() an adapter is
    about,    \* the sandbox of the request it waits for
    box,      \* self._sandbox
    http      \* the HTTP client it holds

broker == <<phase, deleting, overdue>>
vars == <<broker, step, about, box, http>>

Lease == INSTANCE SandboxLease

Clients == Environments \cup Backends

Maybe == Sandboxes \cup {NoSandbox}

TypeOK ==
    /\ phase \in [Sandboxes -> Lease!Phases]
    /\ deleting \subseteq Sandboxes
    /\ overdue \subseteq Sandboxes
    /\ step \in [Clients -> {"idle", "preparing", "creating", "composing down",
                             "deleting", "dead"}]
    /\ about \in [Clients -> Maybe]
    /\ box \in [Clients -> Maybe]
    /\ http \in [Clients -> {"none", "open", "closed"}]
    /\ \A c \in Clients : (about[c] \in Sandboxes) <=> (step[c] \in {"creating", "deleting"})

\* An environment makes its HTTP client when it is made, a backend in start().
Init ==
    /\ Lease!Init
    /\ step = [c \in Clients |-> "idle"]
    /\ about = [c \in Clients |-> NoSandbox]
    /\ box = [c \in Clients |-> NoSandbox]
    /\ http = [c \in Clients |-> IF c \in Environments THEN "open" ELSE "none"]

\* A client goes on to a step that concerns sandbox s.
Goto(c, next, s) ==
    /\ step' = [step EXCEPT ![c] = next]
    /\ about' = [about EXCEPT ![c] = s]

Hold(c, s) == box' = [box EXCEPT ![c] = s]

Http(c, state) == http' = [http EXCEPT ![c] = state]

\* A backend drops its HTTP client, an environment keeps its own.
Hangup(c) == IF c \in Backends THEN Http(c, "none") ELSE UNCHANGED http

-----------------------------------------------------------------------------
(* start *)

\* A backend refuses to start twice; an environment does not look, so that one
\* that is started again (after a start that timed out, say) builds on.
Start(c) ==
    /\ step[c] = "idle"
    /\ c \in Backends => box[c] = NoSandbox
    /\ Goto(c, "preparing", NoSandbox)
    /\ IF c \in Backends THEN Http(c, "open") ELSE UNCHANGED http
    /\ UNCHANGED <<broker, box>>

\* The image build fails or is cancelled, or the broker refuses the request, or
\* the HTTP client was closed by an earlier stop().
StartFails(c) ==
    /\ step[c] = "preparing"
    /\ Goto(c, "idle", NoSandbox)
    /\ Hangup(c)
    /\ UNCHANGED <<broker, box>>

\* The broker has accepted the creation.
RequestCreate(c, s) ==
    /\ step[c] = "preparing"
    /\ http[c] = "open"
    /\ Lease!Begin(s)
    /\ Goto(c, "creating", s)
    /\ UNCHANGED <<box, http>>

\* The answer arrives.  What start() does next needs only the sandbox, which
\* the adapter holds from now on, whether it goes well or not.
Created(c) ==
    /\ step[c] = "creating"
    /\ phase[about[c]] \in Lease!Known \cup {"closed"}
    /\ Goto(c, "idle", NoSandbox)
    /\ Hold(c, about[c])
    /\ UNCHANGED <<broker, http>>

\* Seeded fault: a request that was given up is not forgotten.
CreateUnansweredKept(c) ==
    /\ step[c] = "creating"
    /\ step' = [step EXCEPT ![c] = "idle"]
    /\ Hangup(c)
    /\ UNCHANGED <<broker, about, box>>

\* The creation failed, or the client's timeout passed, or the coroutine was
\* cancelled: nobody waits for the answer any more.
CreateUnanswered(c) ==
    /\ step[c] = "creating"
    /\ Goto(c, "idle", NoSandbox)
    /\ Hangup(c)
    /\ UNCHANGED <<broker, box>>

-----------------------------------------------------------------------------
(* stop and close *)

\* The DELETE of the client's sandbox s, which a broker that does not know it
\* answers at once: the client waits for the answer in any case.
RequestDelete(c, s) ==
    /\ Goto(c, "deleting", s)
    /\ IF phase[s] \in Lease!Known THEN Lease!AskDelete(s) ELSE UNCHANGED broker

\* stop() of an environment without a sandbox.
StopEmpty(c) ==
    /\ c \in Environments
    /\ step[c] = "idle"
    /\ box[c] = NoSandbox
    /\ Http(c, "closed")
    /\ UNCHANGED <<broker, step, about, box>>

Stop(c) ==
    /\ c \in Environments
    /\ step[c] = "idle"
    /\ box[c] # NoSandbox
    /\ IF c \in Composes
         THEN Goto(c, "composing down", NoSandbox) /\ UNCHANGED broker
         ELSE RequestDelete(c, box[c])
    /\ UNCHANGED <<box, http>>

\* docker compose down ended, well or with an error that is logged.
Down(c) ==
    /\ step[c] = "composing down"
    /\ RequestDelete(c, box[c])
    /\ UNCHANGED <<box, http>>

\* stop() is cancelled while it waits for docker compose down.
DownCancelled(c) ==
    /\ step[c] = "composing down"
    /\ Goto(c, "idle", NoSandbox)
    /\ UNCHANGED <<broker, box, http>>

\* close() forgets the sandbox before it deletes it.
Close(c) ==
    /\ c \in Backends
    /\ step[c] = "idle"
    /\ box[c] # NoSandbox
    /\ RequestDelete(c, box[c])
    /\ Hold(c, NoSandbox)
    /\ UNCHANGED http

Deleted(c) ==
    /\ step[c] = "deleting"
    /\ phase[about[c]] \notin Lease!Known
    /\ Goto(c, "idle", NoSandbox)
    /\ Hold(c, NoSandbox)
    /\ Http(c, IF c \in Backends THEN "none" ELSE "closed")
    /\ UNCHANGED broker

\* Seeded fault: stop() closes the HTTP client whatever happens.
DeleteFailsAndCloses(c) ==
    /\ step[c] = "deleting"
    /\ Goto(c, "idle", NoSandbox)
    /\ Http(c, IF c \in Backends THEN "none" ELSE "closed")
    /\ UNCHANGED <<broker, box>>

\* Seeded fault: stop() forgets the sandbox before it deletes it.
DeleteFailsAndForgets(c) ==
    /\ step[c] = "deleting"
    /\ Goto(c, "idle", NoSandbox)
    /\ Hold(c, NoSandbox)
    /\ Hangup(c)
    /\ UNCHANGED broker

\* The broker reports an error, or does not answer in time, or stop() is
\* cancelled.  stop() raises before it forgets the sandbox or closes the HTTP
\* client; close() logs the error and returns.
DeleteFails(c) ==
    /\ step[c] = "deleting"
    /\ Goto(c, "idle", NoSandbox)
    /\ Hangup(c)
    /\ UNCHANGED <<broker, box>>

-----------------------------------------------------------------------------

\* The consumer's process ends.
Die(c) ==
    /\ step[c] # "dead"
    /\ Goto(c, "dead", NoSandbox)
    /\ Hold(c, NoSandbox)
    /\ Http(c, "none")
    /\ UNCHANGED broker

\* What the broker, the daemon and time do meanwhile.
Broker ==
    /\ \/ \E s \in Sandboxes : \/ Lease!Fail(s)
                               \/ Lease!Serve(s)
                               \/ Lease!EndDelete(s)
                               \/ Lease!Remove(s)
                               \/ Lease!Vanish(s)
                               \/ Lease!Forget(s)
       \/ \E s \in Sandboxes : Lease!Expire({s})
       \/ Lease!Restart
    /\ UNCHANGED <<step, about, box, http>>

Client(c) ==
    \/ Start(c)
    \/ StartFails(c)
    \/ \E s \in Sandboxes : RequestCreate(c, s)
    \/ Created(c)
    \/ CreateUnanswered(c)
    \/ StopEmpty(c)
    \/ Stop(c)
    \/ Down(c)
    \/ DownCancelled(c)
    \/ Close(c)
    \/ Deleted(c)
    \/ DeleteFails(c)
    \/ Die(c)

Next == Broker \/ \E c \in Clients : Client(c)

Spec == Init /\ [][Next]_vars

-----------------------------------------------------------------------------
(* Properties *)

\* An adapter that holds a sandbox holds the open HTTP client it takes to
\* delete it, after every sequence of failed starts and stops.
HeldIsDeletable ==
    \A c \in Clients : box[c] # NoSandbox => http[c] = "open"

\* No HTTP client is open without need: a backend that neither holds a sandbox
\* nor is about to has none.
NoIdleConnections ==
    \A c \in Backends :
        http[c] = "open" => box[c] # NoSandbox \/ step[c] # "idle"

\* A client's HTTP connections are there when they are needed, and only then.
ConnectionsMatch == HeldIsDeletable /\ NoIdleConnections

Knows(c) == {box[c], about[c]} \ {NoSandbox}

\* The container of s is, or will be, up; or the broker lost its record at a
\* restart, and it may be.
MayBeUp(s) == phase[s] \in {"creating", "ready", "lost"}

\* A sandbox that may be up is left to the sweep only if the adapter's process
\* ended, its start() ended without the broker's answer, an environment was
\* started again on top of it, the DELETE of a backend's close() failed, or the
\* broker had lost it at a restart: then a DELETE is answered as if it were
\* gone.  In particular an environment never gives one up because stop()
\* failed, and no stop() returns normally while a sandbox the broker knows is
\* up.
LeftOnlyToTheSweep ==
    [][\A c \in Clients : \A s \in Knows(c) :
          MayBeUp(s) /\ MayBeUp(s)' /\ s \notin Knows(c)' =>
             \/ step'[c] = "dead"
             \/ step[c] = "creating" /\ s = about[c]
             \/ step[c] = "creating" /\ c \in Environments
             \/ step[c] = "deleting" /\ c \in Backends
             \/ step[c] = "deleting" /\ phase[s] = "lost"]_vars
=============================================================================
