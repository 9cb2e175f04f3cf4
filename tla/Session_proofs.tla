--------------------------- MODULE Session_proofs ---------------------------
(***************************************************************************)
(* What Session promises, for any number of adapters and sandboxes.        *)
(***************************************************************************)
EXTENDS Session, TLAPS

\* A sandbox that was served; the broker may have lost or forgotten it since.
Served == Lease!Known \cup {"closed", "lost"}

\* Where an adapter is tells what it holds, and what it holds was served.
Fits(c) ==
    /\ about[c] \in Sandboxes <=> step[c] \in {"creating", "deleting"}
    /\ box[c] # NoSandbox => http[c] = "open" /\ phase[box[c]] \in Served
    /\ step[c] = "creating" => http[c] = "open"
    /\ step[c] = "composing down" => c \in Environments /\ box[c] # NoSandbox
    /\ c \in Environments /\ step[c] = "deleting" => about[c] = box[c]
    /\ c \in Backends =>
          /\ step[c] # "idle" => box[c] = NoSandbox
          /\ http[c] = "open" => box[c] # NoSandbox \/ step[c] # "idle"

IInv == TypeOK /\ \A c \in Clients : Fits(c)

LEMMA Initially == Init => IInv
  <1> SUFFICES ASSUME Init PROVE IInv
    OBVIOUS
  <1> USE SessionAssumption DEF Init, Lease!Init, Clients
  <1>1. TypeOK
    BY DEF TypeOK, Maybe, Lease!Phases
  <1>2. \A c \in Clients : Fits(c)
    BY DEF Fits
  <1> QED BY <1>1, <1>2 DEF IInv

\* Whatever the broker does, its variables keep their types and what was served
\* stays served.
LEMMA BrokerKeeps ==
  ASSUME TypeOK, [Broker \/ \E s \in Sandboxes : Lease!Begin(s) \/ Lease!AskDelete(s)]_broker
  PROVE  /\ phase' \in [Sandboxes -> Lease!Phases]
         /\ deleting' \subseteq Sandboxes
         /\ overdue' \subseteq Sandboxes
         /\ \A s \in Sandboxes : phase[s] \in Served => phase'[s] \in Served
  <1> USE DEF TypeOK, Served, Lease!Phases, Lease!Known, Lease!Move
  <1>1. CASE \E s \in Sandboxes : Lease!Begin(s) \/ Lease!AskDelete(s)
    BY <1>1 DEF Lease!Begin, Lease!AskDelete
  <1>2. ASSUME NEW s \in Sandboxes, Lease!Fail(s) \/ Lease!Serve(s)
        PROVE  /\ phase' \in [Sandboxes -> Lease!Phases]
               /\ deleting' = deleting /\ overdue' = overdue
               /\ phase[s] \notin Served
               /\ \A t \in Sandboxes \ {s} : phase'[t] = phase[t]
    <2>1. PICK to \in Lease!Phases : Lease!Move(s, {"creating"}, to)
      BY <1>2 DEF Lease!Fail, Lease!Serve
    <2>2. deleting' = deleting /\ overdue' = overdue
      BY <1>2 DEF Lease!Fail, Lease!Serve
    <2> QED BY <2>1, <2>2
  <1>3. CASE \E s \in Sandboxes : Lease!Remove(s) \/ Lease!Vanish(s) \/ Lease!Forget(s)
    BY <1>3 DEF Lease!Remove, Lease!Vanish, Lease!Forget
  <1>4. CASE \E s \in Sandboxes : Lease!Expire({s})
    BY <1>4 DEF Lease!Expire
  <1>5. CASE Lease!Restart
    BY <1>5 DEF Lease!Restart, Lease!Outlived
  <1>6. CASE UNCHANGED broker
    BY <1>6 DEF broker
  <1>7. CASE \E s \in Sandboxes : Lease!EndDelete(s)
    BY <1>7 DEF Lease!EndDelete
  <1>8. CASE \E s \in Sandboxes : Lease!Fail(s) \/ Lease!Serve(s)
    BY <1>2, <1>8
  <1> QED BY <1>1, <1>7, <1>8, <1>3, <1>4, <1>5, <1>6 DEF Broker

\* A client's step keeps the types and leaves every other client alone.
LEMMA ClientFrame ==
  ASSUME IInv, NEW c \in Clients, Client(c)
  PROVE  /\ [Broker \/ \E s \in Sandboxes : Lease!Begin(s) \/ Lease!AskDelete(s)]_broker
         /\ step' \in [Clients -> {"idle", "preparing", "creating", "composing down",
                                   "deleting", "dead"}]
         /\ about' \in [Clients -> Maybe]
         /\ box' \in [Clients -> Maybe]
         /\ http' \in [Clients -> {"none", "open", "closed"}]
         /\ \A d \in Clients \ {c} :
               /\ step'[d] = step[d]
               /\ about'[d] = about[d]
               /\ box'[d] = box[d]
               /\ http'[d] = http[d]
  <1> USE DEF IInv, TypeOK, Maybe, Goto, Hold, Http, Hangup
  <1>1. CASE Start(c)
    BY <1>1 DEF Start
  <1>2. CASE StartFails(c)
    BY <1>2 DEF StartFails
  <1>3. CASE \E s \in Sandboxes : RequestCreate(c, s)
    <2> PICK s \in Sandboxes : RequestCreate(c, s)
      BY <1>3
    <2> QED BY DEF RequestCreate
  <1>4. CASE Created(c)
    BY <1>4 DEF Created
  <1>5. CASE CreateUnanswered(c)
    BY <1>5 DEF CreateUnanswered
  <1>6. CASE StopEmpty(c)
    BY <1>6 DEF StopEmpty
  <1>7. CASE Stop(c)
    BY <1>7 DEF Stop, RequestDelete, Fits
  <1>8. CASE Down(c)
    BY <1>8 DEF Down, RequestDelete, Fits
  <1>9. CASE DownCancelled(c)
    BY <1>9 DEF DownCancelled
  <1>10. CASE Close(c)
    BY <1>10 DEF Close, RequestDelete, Fits
  <1>11. CASE Deleted(c)
    BY <1>11 DEF Deleted
  <1>12. CASE DeleteFails(c)
    BY <1>12 DEF DeleteFails
  <1>13. CASE Die(c)
    BY <1>13 DEF Die
  <1> QED BY <1>1, <1>2, <1>3, <1>4, <1>5, <1>6, <1>7,
             <1>8, <1>9, <1>10, <1>11, <1>12, <1>13 DEF Client

LEMMA ClientKeeps ==
  ASSUME IInv, NEW c \in Clients, Client(c)
  PROVE  IInv'
  <1>1. /\ phase' \in [Sandboxes -> Lease!Phases]
        /\ deleting' \subseteq Sandboxes
        /\ overdue' \subseteq Sandboxes
        /\ \A s \in Sandboxes : phase[s] \in Served => phase'[s] \in Served
    BY ClientFrame, BrokerKeeps DEF IInv
  <1>2. \A d \in Clients \ {c} : Fits(d)'
    <2> SUFFICES ASSUME NEW d \in Clients \ {c} PROVE Fits(d)'
      OBVIOUS
    <2>1. Fits(d) /\ box[d] \in Maybe
      BY DEF IInv, TypeOK
    <2>2. /\ step'[d] = step[d] /\ about'[d] = about[d]
          /\ box'[d] = box[d] /\ http'[d] = http[d]
      BY ClientFrame
    <2> QED BY <1>1, <2>1, <2>2 DEF Fits, Maybe
  <1>3. Fits(c)'
    <2> USE SessionAssumption, <1>1 DEF IInv, TypeOK, Clients, Maybe, Goto, Hold, Http, Hangup, Fits
    <2>1. CASE Start(c)
      BY <2>1 DEF Start
    <2>2. CASE StartFails(c)
      BY <2>2 DEF StartFails
    <2>3. CASE \E s \in Sandboxes : RequestCreate(c, s)
      <3>1. PICK s \in Sandboxes : step[c] = "preparing" /\ http[c] = "open" /\ Goto(c, "creating", s)
                                  /\ UNCHANGED <<box, http>>
        BY <2>3 DEF RequestCreate
      <3>2. about'[c] \in Sandboxes /\ step'[c] = "creating" /\ box'[c] = box[c] /\ http'[c] = "open"
        BY <3>1
      <3> QED BY <3>1, <3>2
    <2>4. CASE Created(c)
      <3>1. about[c] \in Sandboxes /\ http[c] = "open" /\ phase'[about[c]] \in Served
        BY <2>4 DEF Created, Served
      <3>2. step'[c] = "idle" /\ about'[c] = NoSandbox /\ box'[c] = about[c] /\ http'[c] = "open"
        BY <2>4, <3>1 DEF Created
      <3> QED BY <3>1, <3>2
    <2>5. CASE CreateUnanswered(c)
      BY <2>5 DEF CreateUnanswered
    <2>6. CASE StopEmpty(c)
      BY <2>6 DEF StopEmpty
    <2>7. CASE Stop(c)
      <3>1. box[c] \in Sandboxes /\ c \in Environments /\ c \notin Backends
        BY <2>7 DEF Stop
      <3>2. box'[c] = box[c] /\ http'[c] = http[c]
        BY <2>7 DEF Stop
      <3>3. \/ step'[c] = "composing down" /\ about'[c] = NoSandbox
            \/ step'[c] = "deleting" /\ about'[c] = box[c]
        BY <2>7 DEF Stop, RequestDelete
      <3> QED BY <3>1, <3>2, <3>3
    <2>8. CASE Down(c)
      BY <2>8 DEF Down, RequestDelete
    <2>9. CASE DownCancelled(c)
      BY <2>9 DEF DownCancelled
    <2>10. CASE Close(c)
      BY <2>10 DEF Close, RequestDelete
    <2>11. CASE Deleted(c)
      BY <2>11 DEF Deleted
    <2>12. CASE DeleteFails(c)
      BY <2>12 DEF DeleteFails
    <2>13. CASE Die(c)
      BY <2>13 DEF Die
    <2> QED BY <2>1, <2>2, <2>3, <2>4, <2>5, <2>6, <2>7,
               <2>8, <2>9, <2>10, <2>11, <2>12, <2>13 DEF Client
  <1> QED BY <1>1, <1>2, <1>3, ClientFrame DEF IInv, TypeOK, Fits

LEMMA StepKeeps == IInv /\ [Next]_vars => IInv'
  <1> SUFFICES ASSUME IInv, [Next]_vars PROVE IInv'
    OBVIOUS
  <1>1. CASE Broker
    <2>1. [Broker \/ \E s \in Sandboxes : Lease!Begin(s) \/ Lease!AskDelete(s)]_broker
      BY <1>1
    <2>2. /\ phase' \in [Sandboxes -> Lease!Phases]
          /\ deleting' \subseteq Sandboxes
          /\ overdue' \subseteq Sandboxes
          /\ \A s \in Sandboxes : phase[s] \in Served => phase'[s] \in Served
      BY <2>1, BrokerKeeps DEF IInv
    <2>3. UNCHANGED <<step, about, box, http>>
      BY <1>1 DEF Broker
    <2> QED BY <2>2, <2>3 DEF IInv, TypeOK, Maybe, Fits
  <1>2. CASE \E c \in Clients : Client(c)
    BY <1>2, ClientKeeps
  <1>3. CASE UNCHANGED vars
    BY <1>3 DEF vars, broker, IInv, TypeOK, Fits
  <1> QED BY <1>1, <1>2, <1>3 DEF Next

LEMMA Invariant == Spec => []IInv
  BY Initially, StepKeeps, PTL DEF Spec

\* The adapters' and the broker's variables keep their types.
THEOREM TypeCorrect == Spec => []TypeOK
  BY Invariant, PTL DEF IInv

\* An adapter that holds a sandbox has the open HTTP client to delete it with.
THEOREM HeldStaysDeletable == Spec => []HeldIsDeletable
  <1>1. IInv => HeldIsDeletable
    BY DEF IInv, Fits, HeldIsDeletable
  <1> QED BY <1>1, Invariant, PTL

\* A backend at rest without a sandbox holds no HTTP client.
THEOREM ConnectionsEnd == Spec => []NoIdleConnections
  <1>1. IInv => NoIdleConnections
    BY DEF IInv, Fits, NoIdleConnections, Clients
  <1> QED BY <1>1, Invariant, PTL

\* Clients have open connections when they need them, and only then.
THEOREM ConnectionsAlwaysMatch == Spec => []ConnectionsMatch
  BY HeldStaysDeletable, ConnectionsEnd, PTL DEF ConnectionsMatch

\* A step in which a client lets go of a sandbox that may be up is one of those listed.
LEMMA LettingGo ==
  ASSUME IInv, [Next]_vars, NEW c \in Clients, NEW s \in Knows(c),
         MayBeUp(s), MayBeUp(s)', s \notin Knows(c)'
  PROVE  \/ step'[c] = "dead"
         \/ step[c] = "creating" /\ s = about[c]
         \/ step[c] = "creating" /\ c \in Environments
         \/ step[c] = "deleting" /\ c \in Backends
         \/ step[c] = "deleting" /\ phase[s] = "lost"
  <1>1. PICK d \in Clients : Client(d)
    BY DEF Next, Broker, vars, Knows
  <1>2. d = c
    <2> SUFFICES ASSUME d # c PROVE FALSE
      OBVIOUS
    <2>1. about'[c] = about[c] /\ box'[c] = box[c]
      BY <1>1, ClientFrame
    <2> QED BY <2>1 DEF Knows
  <1> USE SessionAssumption DEF IInv, TypeOK, Clients, Maybe, Knows
  <1> USE DEF Goto, Hold
  <1>3. CASE Deleted(c)
    <2>1. CASE c \in Environments
      <3>1. s = about[c] /\ s = box[c] /\ phase[s] \notin Lease!Known
        BY <1>3, <2>1 DEF Deleted, Fits
      <3>2. phase[s] \in Served
        BY <3>1, <2>1 DEF Fits
      <3> QED BY <1>3, <3>1, <3>2 DEF Deleted, MayBeUp, Served, Lease!Known
    <2> QED BY <1>3, <2>1 DEF Deleted
  <1>4. CASE DeleteFails(c)
    BY <1>4 DEF DeleteFails, Fits
  <1>5. CASE Created(c) \/ CreateUnanswered(c)
    BY <1>5 DEF Created, CreateUnanswered, Fits
  <1>6. CASE Die(c)
    BY <1>6 DEF Die
  <1>7. CASE Start(c) \/ StartFails(c) \/ StopEmpty(c) \/ DownCancelled(c)
    BY <1>7 DEF Start, StartFails, StopEmpty, DownCancelled
  <1>8. CASE \E t \in Sandboxes : RequestCreate(c, t)
    BY <1>8 DEF RequestCreate
  <1>9. CASE Stop(c) \/ Down(c) \/ Close(c)
    BY <1>9 DEF Stop, Down, Close, RequestDelete
  <1> QED BY <1>1, <1>2, <1>3, <1>4, <1>5, <1>6, <1>7, <1>8, <1>9 DEF Client

\* An environment gives a sandbox up only when that is gone, when the
\* environment dies, when its start() is cut short, when it is started over, or
\* when the broker that lost the sandbox answers its DELETE; a backend also when
\* a close() fails.
THEOREM OnlyTheseAreLeft == Spec => LeftOnlyToTheSweep
  <1>1. IInv /\ [Next]_vars =>
          \A c \in Clients : \A s \in Knows(c) :
             MayBeUp(s) /\ MayBeUp(s)' /\ s \notin Knows(c)' =>
                \/ step'[c] = "dead"
                \/ step[c] = "creating" /\ s = about[c]
                \/ step[c] = "creating" /\ c \in Environments
                \/ step[c] = "deleting" /\ c \in Backends
                \/ step[c] = "deleting" /\ phase[s] = "lost"
    BY LettingGo
  <1> QED BY <1>1, Invariant, PTL DEF Spec, LeftOnlyToTheSweep
=============================================================================
