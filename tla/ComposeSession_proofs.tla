----------------------- MODULE ComposeSession_proofs -----------------------
(***************************************************************************)
(* What ComposeSession promises, for any adapters and sandboxes.           *)
(***************************************************************************)
EXTENDS ComposeSession, Session_proofs

LEMMA ComposesAreClients == Composes \subseteq Clients
  BY SessionAssumption DEF Clients

\* What Compose does in the sandbox is no step of the session.
LEMMA ComposingMaps ==
  ASSUME NEW c \in Composes, Composing(c)
  PROVE  Client(c) \/ UNCHANGED vars
  BY DEF Composing, Begin, Otherwise, Controlled, Proceed, Abandon, TakeDown, TakeDownCancelled,
         Stopped, Perish, Client

LEMMA ComposeStepMaps == [ComposeNext]_composeVars => [Next]_vars
  <1>1. ASSUME NEW c \in Composes, Composing(c) PROVE [Next]_vars
    BY <1>1, ComposingMaps, ComposesAreClients DEF Next
  <1>2. ASSUME NEW s \in Sandboxes, Lands(s) PROVE UNCHANGED vars
    BY <1>2 DEF Lands
  <1>3. ASSUME UNCHANGED composeVars PROVE UNCHANGED vars
    BY <1>3 DEF composeVars
  <1> QED BY <1>1, <1>2, <1>3 DEF ComposeNext, Next

\* The environments here are those of Session: what holds of those holds here.
THEOREM ComposeSessionsAreSessions == ComposeSpec => Spec
  <1>1. ComposeInit => Init
    BY DEF ComposeInit
  <1> QED BY <1>1, ComposeStepMaps, PTL DEF ComposeSpec, Spec

-----------------------------------------------------------------------------
(* No two adapters have to do with the same sandbox. *)

Claims(c, s) == box[c] = s \/ (step[c] = "creating" /\ about[c] = s)

Sole ==
    /\ \A s \in Sandboxes : \A c, d \in Clients : Claims(c, s) /\ Claims(d, s) => c = d
    /\ \A s \in Sandboxes : \A c \in Clients : Claims(c, s) => phase[s] # "new"
    /\ \A c \in Clients : step[c] = "creating" => about[c] # box[c]

LEMMA NewComesFirst ==
  ASSUME TypeOK, [Broker \/ \E s \in Sandboxes : Lease!Begin(s) \/ Lease!AskDelete(s)]_broker
  PROVE  \A s \in Sandboxes : phase[s] # "new" => phase'[s] # "new"
  <1> USE DEF TypeOK, Lease!Phases, Lease!Known, Lease!Move
  <1>1. CASE \E s \in Sandboxes : Lease!Begin(s) \/ Lease!AskDelete(s)
    BY <1>1 DEF Lease!Begin, Lease!AskDelete
  <1>2. CASE \E s \in Sandboxes : Lease!Fail(s) \/ Lease!Serve(s)
    BY <1>2 DEF Lease!Fail, Lease!Serve
  <1>3. CASE \E s \in Sandboxes : Lease!Remove(s) \/ Lease!Vanish(s) \/ Lease!Forget(s)
    BY <1>3 DEF Lease!Remove, Lease!Vanish, Lease!Forget
  <1>4. CASE \E s \in Sandboxes : Lease!Expire({s}) \/ Lease!EndDelete(s)
    BY <1>4 DEF Lease!Expire, Lease!EndDelete
  <1>5. CASE Lease!Restart
    BY <1>5 DEF Lease!Restart, Lease!Outlived
  <1>6. CASE UNCHANGED broker
    BY <1>6 DEF broker
  <1> QED BY <1>1, <1>2, <1>3, <1>4, <1>5, <1>6 DEF Broker

\* An adapter comes to have to do with a sandbox only by asking for a new one.
LEMMA ClaimsGrow ==
  ASSUME IInv, Sole, NEW c \in Clients, Client(c)
  PROVE  /\ \A s \in Sandboxes :
               Claims(c, s)' => Claims(c, s) \/ (phase[s] = "new" /\ phase'[s] # "new")
         /\ step'[c] = "creating" => about'[c] # box'[c]
  <1> USE SessionAssumption
      DEF IInv, TypeOK, Fits, Maybe, Claims, Sole, Goto, Hold, Http, Hangup
  <1>1. CASE Start(c)
    BY <1>1 DEF Start
  <1>2. CASE StartFails(c)
    BY <1>2 DEF StartFails
  <1>3. CASE \E s \in Sandboxes : RequestCreate(c, s)
    <2>1. PICK s \in Sandboxes : RequestCreate(c, s)
      BY <1>3
    <2>2. /\ phase[s] = "new" /\ phase'[s] = "creating"
          /\ step'[c] = "creating" /\ about'[c] = s /\ box'[c] = box[c]
      BY <2>1 DEF RequestCreate, Lease!Begin, Lease!Move, Lease!Phases
    <2>3. box[c] # s
      BY <2>2
    <2> QED BY <2>2, <2>3
  <1>4. CASE Created(c)
    <2>1. step[c] = "creating" /\ step'[c] = "idle" /\ box'[c] = about[c]
      BY <1>4 DEF Created
    <2> QED BY <2>1
  <1>5. CASE CreateUnanswered(c)
    BY <1>5 DEF CreateUnanswered
  <1>6. CASE StopEmpty(c)
    BY <1>6 DEF StopEmpty
  <1>7. CASE Stop(c)
    <2>1. step'[c] \in {"composing down", "deleting"} /\ box'[c] = box[c]
      BY <1>7 DEF Stop, RequestDelete
    <2> QED BY <2>1
  <1>8. CASE Down(c)
    BY <1>8 DEF Down, RequestDelete
  <1>9. CASE DownCancelled(c)
    BY <1>9 DEF DownCancelled
  <1>10. CASE Close(c)
    <2>1. step'[c] = "deleting" /\ box'[c] = NoSandbox
      BY <1>10 DEF Close, RequestDelete
    <2> QED BY <2>1
  <1>11. CASE Deleted(c)
    <2>1. step'[c] = "idle" /\ box'[c] = NoSandbox
      BY <1>11 DEF Deleted
    <2> QED BY <2>1
  <1>12. CASE DeleteFails(c)
    BY <1>12 DEF DeleteFails
  <1>13. CASE Die(c)
    <2>1. step'[c] = "dead" /\ box'[c] = NoSandbox
      BY <1>13 DEF Die
    <2> QED BY <2>1
  <1> QED BY <1>1, <1>2, <1>3, <1>4, <1>5, <1>6, <1>7,
             <1>8, <1>9, <1>10, <1>11, <1>12, <1>13 DEF Client

LEMMA SoleNext == IInv /\ Sole /\ [Next]_vars => Sole'
  <1> SUFFICES ASSUME IInv, Sole, [Next]_vars PROVE Sole'
    OBVIOUS
  <1>1. ASSUME NEW c \in Clients, Client(c) PROVE Sole'
    <2>1. \A s \in Sandboxes : phase[s] # "new" => phase'[s] # "new"
      BY <1>1, ClientFrame, NewComesFirst DEF IInv
    <2>2. \A d \in Clients \ {c} : /\ step'[d] = step[d]
                                   /\ about'[d] = about[d]
                                   /\ box'[d] = box[d]
      BY <1>1, ClientFrame
    <2>3. \A d \in Clients \ {c} : \A s \in Sandboxes : Claims(d, s)' <=> Claims(d, s)
      BY <2>2 DEF Claims
    <2> QED BY <1>1, <2>1, <2>2, <2>3, ClaimsGrow DEF Sole
  <1>2. CASE Broker
    <2>1. \A s \in Sandboxes : phase[s] # "new" => phase'[s] # "new"
      BY <1>2, NewComesFirst DEF IInv
    <2> QED BY <1>2, <2>1 DEF Sole, Claims, Broker
  <1>3. CASE UNCHANGED vars
    BY <1>3 DEF vars, broker, Sole, Claims
  <1> QED BY <1>1, <1>2, <1>3 DEF Next

-----------------------------------------------------------------------------
(* What is in the sandbox of an environment comes from one start(). *)

\* Nothing was done in sandbox s, or nobody follows it.
Clean(s) ==
    /\ s \notin staged
    /\ overlay[s] = "none"
    /\ project[s] = "none"
    /\ pending[s] = {}

\* docker compose up was given for sandbox s.
Raised(s) == project[s] # "none" \/ \E mode \in Modes : <<"up", mode>> \in pending[s]

\* How far start() is tells what is in the sandbox of c.
InOrder(c) ==
    LET s == box[c] IN
    /\ stage[c] \in {"network", "build", "up", "main"} \/ Raised(s) => s \in staged
    /\ stage[c] \in {"build", "up", "main"} \/ Raised(s) => overlay[s] = prebuilt[c]
    /\ stage[c] \in {"none", "main"} \/ ~Raised(s)
    /\ project[s] \in {"none", prebuilt[c]}
    /\ \A mode \in Modes : <<"up", mode>> \in pending[s] => mode = prebuilt[c]

ComposeIInv ==
    /\ IInv
    /\ Sole
    /\ ComposeTypeOK
    /\ \A s \in Sandboxes : (\A c \in Composes : box[c] # s) => Clean(s)
    /\ \A c \in Composes : box[c] # NoSandbox => InOrder(c)

LEMMA AfterIs ==
    /\ Stages = {"daemon", "files", "network", "build", "up", "main"}
    /\ After["daemon"] = "files" /\ After["files"] = "network" /\ After["network"] = "build"
    /\ After["build"] = "up" /\ After["up"] = "main" /\ After["main"] = "none"
  BY DEF Stages, After

LEMMA ComposeInitially == ComposeInit => ComposeIInv
  <1> SUFFICES ASSUME ComposeInit PROVE ComposeIInv
    OBVIOUS
  <1>1. IInv /\ TypeOK
    BY Initially DEF ComposeInit, IInv
  <1>2. Sole
    BY SessionAssumption DEF ComposeInit, Init, Lease!Init, Sole, Claims, Clients
  <1>3. ComposeTypeOK
    BY <1>1 DEF ComposeInit, ComposeTypeOK, Modes
  <1>4. \A c \in Composes : box[c] = NoSandbox
    BY ComposesAreClients DEF ComposeInit, Init
  <1>5. \A s \in Sandboxes : Clean(s)
    BY DEF ComposeInit, Clean
  <1> QED BY <1>1, <1>2, <1>3, <1>4, <1>5 DEF ComposeIInv

\* A step of the session, and what it does to the environments with Compose.
LEMMA SessionSide ==
  ASSUME ComposeIInv, [ComposeNext]_composeVars
  PROVE  IInv' /\ Sole' /\ TypeOK'
  BY ComposeStepMaps, StepKeeps, SoleNext DEF ComposeIInv, IInv

\* Steps that leave Compose, its sandboxes and who holds them alone.
LEMMA Apart ==
  ASSUME ComposeIInv, IInv', Sole', UNCHANGED composing,
         \A c \in Composes : box'[c] = box[c],
         \A c \in Composes : stage[c] # "none" => step'[c] = "idle"
  PROVE  ComposeIInv'
  <1>1. ComposeTypeOK'
    BY DEF ComposeIInv, ComposeTypeOK, composing, IInv
  <1>2. \A s \in Sandboxes : Clean(s)' <=> Clean(s)
    BY DEF composing, Clean
  <1>3. \A c \in Composes : box[c] # NoSandbox => InOrder(c)'
    BY DEF ComposeIInv, composing, InOrder, Raised
  <1> QED BY <1>1, <1>2, <1>3 DEF ComposeIInv

LEMMA ComposingFrame ==
  ASSUME ComposeIInv, NEW c \in Composes, Composing(c)
  PROVE  /\ \A d \in Composes \ {c} :
               /\ step'[d] = step[d]
               /\ box'[d] = box[d]
               /\ stage'[d] = stage[d]
               /\ prebuilt'[d] = prebuilt[d]
  <1>1. \A d \in Composes \ {c} : step'[d] = step[d] /\ box'[d] = box[d]
    <2>1. CASE Client(c)
      BY <2>1, ClientFrame, ComposesAreClients DEF ComposeIInv
    <2>2. CASE UNCHANGED vars
      BY <2>2 DEF vars
    <2> QED BY <2>1, <2>2, ComposingMaps
  <1>2. \A d \in Composes \ {c} : stage'[d] = stage[d] /\ prebuilt'[d] = prebuilt[d]
    BY DEF ComposeIInv, ComposeTypeOK, Composing, Begin, Otherwise, Controlled, Proceed, Abandon,
           TakeDown, TakeDownCancelled, Stopped, Perish, composing
  <1> QED BY <1>1, <1>2

\* Sandbox t looks as it did.
Same(t) ==
    /\ t \in staged' <=> t \in staged
    /\ overlay'[t] = overlay[t]
    /\ project'[t] = project[t]
    /\ pending'[t] = pending[t]

\* A step in the sandbox of c, or one that gives it up, concerns no other.
LEMMA Elsewhere ==
  ASSUME ComposeIInv, NEW c \in Composes, Composing(c),
         \A t \in Sandboxes \ {box[c]} : Same(t)
  PROVE  /\ \A d \in Composes \ {c} : box'[d] # NoSandbox => InOrder(d)'
         /\ \A t \in Sandboxes \ {box[c]} : (\A d \in Composes : box'[d] # t) => Clean(t)'
  <1>1. ASSUME NEW d \in Composes \ {c}, box'[d] # NoSandbox
        PROVE  InOrder(d)'
    <2>1. box'[d] = box[d] /\ stage'[d] = stage[d] /\ prebuilt'[d] = prebuilt[d]
      BY ComposingFrame
    <2>2. box[d] \in Sandboxes /\ box[d] # box[c]
      BY <1>1, <2>1, ComposesAreClients DEF ComposeIInv, IInv, TypeOK, Maybe, Sole, Claims
    <2>3. Same(box[d]) /\ InOrder(d)
      BY <1>1, <2>1, <2>2 DEF ComposeIInv
    <2> QED BY <2>1, <2>2, <2>3 DEF InOrder, Raised, Same
  <1>2. ASSUME NEW t \in Sandboxes \ {box[c]}, \A d \in Composes : box'[d] # t
        PROVE  Clean(t)'
    <2>1. \A d \in Composes : box[d] # t
      BY <1>2, ComposingFrame
    <2>2. Clean(t) /\ Same(t)
      BY <2>1 DEF ComposeIInv
    <2> QED BY <2>2 DEF Clean, Same
  <1> QED BY <1>1, <1>2

\* The invariant is kept by what c does if it is kept in the sandbox of c.
LEMMA InOneSandbox ==
  ASSUME ComposeIInv, IInv', Sole', NEW c \in Composes, Composing(c), ComposeTypeOK',
         \A t \in Sandboxes \ {box[c]} : Same(t),
         box'[c] # NoSandbox => InOrder(c)',
         \A t \in Sandboxes : t = box[c] /\ box'[c] # t => Clean(t)'
  PROVE  ComposeIInv'
  <1>1. ASSUME NEW t \in Sandboxes, \A d \in Composes : box'[d] # t PROVE Clean(t)'
    <2>1. CASE t = box[c]
      BY <1>1, <2>1
    <2>2. CASE t # box[c]
      BY <1>1, <2>2, Elsewhere
    <2> QED BY <2>1, <2>2
  <1>2. ASSUME NEW d \in Composes, box'[d] # NoSandbox PROVE InOrder(d)'
    BY <1>2, Elsewhere
  <1> QED BY <1>1, <1>2 DEF ComposeIInv

\* What a command leaves keeps its type, and concerns one sandbox.
LEMMA EffectKeeps ==
  ASSUME ComposeTypeOK, NEW s \in Sandboxes, NEW w, NEW mode \in Modes, Effect(s, w, mode)
  PROVE  /\ staged' \subseteq Sandboxes
         /\ overlay' \in [Sandboxes -> Modes \cup {"none"}]
         /\ project' \in [Sandboxes -> Modes \cup {"none"}]
         /\ s \in staged' <=> s \in staged \/ w = "files"
         /\ overlay'[s] = IF w = "network" THEN mode ELSE overlay[s]
         /\ project'[s] = IF w = "up" THEN mode ELSE IF w = "down" THEN "none" ELSE project[s]
         /\ \A t \in Sandboxes \ {s} : /\ t \in staged' <=> t \in staged
                                       /\ overlay'[t] = overlay[t]
                                       /\ project'[t] = project[t]
  BY DEF ComposeTypeOK, Effect

LEMMA LeaveBehindKeeps ==
  ASSUME ComposeTypeOK, NEW c \in Composes, box[c] \in Sandboxes, NEW w, LeaveBehind(c, w)
  PROVE  /\ pending' \in [Sandboxes -> SUBSET (Lasting \X Modes)]
         /\ pending'[box[c]] = IF w \in Lasting THEN pending[box[c]] \cup {<<w, prebuilt[c]>>}
                                                ELSE pending[box[c]]
         /\ \A t \in Sandboxes \ {box[c]} : pending'[t] = pending[t]
  <1>1. pending \in [Sandboxes -> SUBSET (Lasting \X Modes)] /\ prebuilt[c] \in Modes
    BY DEF ComposeTypeOK
  <1>2. CASE w \in Lasting
    <2>1. pending' = [pending EXCEPT ![box[c]] = @ \cup {<<w, prebuilt[c]>>}]
      BY <1>2 DEF LeaveBehind
    <2>2. pending[box[c]] \cup {<<w, prebuilt[c]>>} \in SUBSET (Lasting \X Modes)
      BY <1>1, <1>2
    <2> QED BY <1>1, <1>2, <2>1, <2>2
  <1>3. CASE w \notin Lasting
    BY <1>1, <1>3 DEF LeaveBehind
  <1> QED BY <1>2, <1>3

LEMMA LetGoKeeps ==
  ASSUME ComposeTypeOK, NEW c \in Composes, LetGo(c)
  PROVE  /\ staged' \subseteq Sandboxes
         /\ overlay' \in [Sandboxes -> Modes \cup {"none"}]
         /\ project' \in [Sandboxes -> Modes \cup {"none"}]
         /\ pending' \in [Sandboxes -> SUBSET (Lasting \X Modes)]
         /\ \A t \in Sandboxes : t = box[c] => Clean(t)'
         /\ \A t \in Sandboxes \ {box[c]} : Same(t)
  <1> USE DEF ComposeTypeOK
  <1>1. staged' \subseteq Sandboxes
    BY DEF LetGo
  <1>2. /\ overlay' \in [Sandboxes -> Modes \cup {"none"}]
        /\ project' \in [Sandboxes -> Modes \cup {"none"}]
    BY DEF LetGo
  <1>3. pending' \in [Sandboxes -> SUBSET (Lasting \X Modes)]
    <2>1. pending' = [t \in Sandboxes |-> IF t = box[c] THEN {} ELSE pending[t]]
      BY DEF LetGo
    <2>2. \A t \in Sandboxes : pending[t] \in SUBSET (Lasting \X Modes)
      OBVIOUS
    <2> QED BY <2>1, <2>2
  <1>4. ASSUME NEW t \in Sandboxes, t = box[c] PROVE Clean(t)'
    BY <1>4 DEF LetGo, Clean
  <1>5. \A t \in Sandboxes \ {box[c]} : Same(t)
    BY DEF LetGo, Same
  <1> QED BY <1>1, <1>2, <1>3, <1>4, <1>5

\* start() has its sandbox: nothing was done there.
LEMMA ControlledKeeps ==
  ASSUME ComposeIInv, IInv', Sole', NEW c \in Composes, Composing(c), Controlled(c)
  PROVE  ComposeIInv'
  <1>1. /\ step[c] = "creating" /\ about[c] \in Sandboxes /\ about[c] # box[c]
        /\ step'[c] = "idle" /\ box'[c] = about[c]
        /\ stage' = [stage EXCEPT ![c] = "daemon"] /\ prebuilt' = prebuilt
        /\ LetGo(c)
    <2>1. IInv /\ Sole /\ c \in Clients
      BY ComposesAreClients DEF ComposeIInv
    <2>2. /\ step[c] = "creating" /\ step'[c] = "idle" /\ box'[c] = about[c]
      BY <2>1 DEF Controlled, Created, Goto, Hold, IInv, TypeOK
    <2>3. about[c] \in Sandboxes /\ about[c] # box[c]
      BY <2>1, <2>2 DEF IInv, Fits, Sole
    <2> QED BY <2>2, <2>3 DEF Controlled
  <1>2. ComposeTypeOK
    BY DEF ComposeIInv
  <1>3. ComposeTypeOK'
    <2>1. \A d \in Composes : stage'[d] # "none" => step'[d] = "idle" /\ box'[d] # NoSandbox
      BY <1>1, <1>2, ComposingFrame, SessionAssumption DEF ComposeTypeOK
    <2> QED BY <1>1, <1>2, <2>1, LetGoKeeps, AfterIs DEF ComposeTypeOK, IInv
  <1>4. \A d \in Composes : box[d] # about[c]
    BY <1>1, ComposesAreClients DEF ComposeIInv, Sole, Claims
  <1>5. Clean(about[c]) /\ Same(about[c])
    BY <1>1, <1>2, <1>4, LetGoKeeps DEF ComposeIInv
  <1>6. InOrder(c)'
    BY <1>1, <1>2, <1>5 DEF Clean, Same, InOrder, Raised, ComposeTypeOK
  <1>7. \A t \in Sandboxes \ {box[c]} : Same(t)
    BY <1>1, <1>2, LetGoKeeps
  <1>8. \A t \in Sandboxes : t = box[c] => Clean(t)'
    BY <1>1, <1>2, LetGoKeeps
  <1> QED BY <1>3, <1>6, <1>7, <1>8, InOneSandbox

\* An environment lets go of its sandbox.
LEMMA LettingGoKeeps ==
  ASSUME ComposeIInv, IInv', Sole', NEW c \in Composes, Composing(c), Stopped(c) \/ Perish(c)
  PROVE  ComposeIInv'
  <1>1. ComposeTypeOK /\ stage[c] \in Stages \cup {"none"}
    BY DEF ComposeIInv, ComposeTypeOK
  <1>2. /\ box'[c] = NoSandbox /\ prebuilt' = prebuilt /\ LetGo(c)
        /\ stage' = [stage EXCEPT ![c] = "none"]
    <2>1. CASE Stopped(c)
      <3>1. step[c] = "deleting" /\ box'[c] = NoSandbox
        BY <2>1, ComposesAreClients DEF Stopped, Deleted, Hold, ComposeIInv, IInv, TypeOK
      <3>2. stage[c] = "none"
        BY <1>1, <3>1 DEF ComposeTypeOK
      <3> QED BY <1>1, <2>1, <3>1, <3>2 DEF Stopped, ComposeTypeOK
    <2>2. CASE Perish(c)
      BY <2>2, ComposesAreClients DEF Perish, Die, Hold, ComposeIInv, IInv, TypeOK
    <2> QED BY <2>1, <2>2
  <1>3. ComposeTypeOK'
    <2>1. \A d \in Composes : stage'[d] # "none" => step'[d] = "idle" /\ box'[d] # NoSandbox
      BY <1>1, <1>2, ComposingFrame DEF ComposeTypeOK
    <2> QED BY <1>1, <1>2, <2>1, LetGoKeeps DEF ComposeTypeOK, IInv
  <1>4. \A t \in Sandboxes \ {box[c]} : Same(t)
    BY <1>1, <1>2, LetGoKeeps
  <1>5. \A t \in Sandboxes : t = box[c] => Clean(t)'
    BY <1>1, <1>2, LetGoKeeps
  <1> QED BY <1>2, <1>3, <1>4, <1>5, InOneSandbox

\* A command of start() went well.
LEMMA ProceedKeeps ==
  ASSUME ComposeIInv, IInv', Sole', NEW c \in Composes, Composing(c), Proceed(c)
  PROVE  ComposeIInv'
  <1> DEFINE s == box[c]
             w == stage[c]
  <1>1. /\ ComposeTypeOK /\ w \in Stages /\ prebuilt[c] \in Modes
        /\ s \in Sandboxes /\ step[c] = "idle"
    <2>1. ComposeTypeOK /\ stage[c] # "none" /\ box[c] \in Maybe
      BY ComposesAreClients DEF Proceed, ComposeIInv, IInv, TypeOK
    <2> QED BY <2>1 DEF ComposeTypeOK, Maybe
  <1>2. /\ box' = box /\ step' = step /\ pending' = pending
        /\ Effect(s, w, prebuilt[c])
        /\ stage' = [stage EXCEPT ![c] = After[w]]
        /\ w # "files" => prebuilt' = prebuilt
    BY DEF Proceed, vars
  <1>3. prebuilt' \in [Composes -> Modes] /\ prebuilt'[c] \in Modes
    BY <1>1 DEF Proceed, ComposeTypeOK
  <1>4. After[w] \in Stages \cup {"none"} /\ stage'[c] = After[w]
    BY <1>1, <1>2, AfterIs DEF ComposeTypeOK
  <1> HIDE DEF w
  <1>5. ComposeTypeOK'
    <2>1. /\ staged' \subseteq Sandboxes
          /\ overlay' \in [Sandboxes -> Modes \cup {"none"}]
          /\ project' \in [Sandboxes -> Modes \cup {"none"}]
      BY <1>1, <1>2, EffectKeeps
    <2>2. stage' \in [Composes -> Stages \cup {"none"}]
      BY <1>1, <1>2, <1>4 DEF ComposeTypeOK
    <2>3. \A d \in Composes : stage'[d] # "none" => step'[d] = "idle" /\ box'[d] # NoSandbox
      BY <1>1, <1>2, ComposingFrame, SessionAssumption DEF ComposeTypeOK
    <2> QED BY <1>1, <1>2, <1>3, <2>1, <2>2, <2>3 DEF ComposeTypeOK, IInv
  <1>6. \A t \in Sandboxes \ {s} : Same(t)
    BY <1>1, <1>2, EffectKeeps DEF Same
  <1>7. InOrder(c) /\ s # NoSandbox
    BY <1>1, SessionAssumption DEF ComposeIInv
  <1>8. InOrder(c)'
    <2>1. /\ s \in staged' <=> s \in staged \/ w = "files"
          /\ overlay'[s] = IF w = "network" THEN prebuilt[c] ELSE overlay[s]
          /\ project'[s] = IF w = "up" THEN prebuilt[c]
                           ELSE IF w = "down" THEN "none" ELSE project[s]
      BY <1>1, <1>2, EffectKeeps
    <2>2. CASE w = "daemon"
      BY <1>2, <1>4, <1>7, <2>1, <2>2, AfterIs DEF InOrder, Raised, w
    <2>3. CASE w = "files"
      BY <1>2, <1>3, <1>4, <1>7, <2>1, <2>3, AfterIs DEF InOrder, Raised, w
    <2>4. CASE w = "network"
      BY <1>2, <1>4, <1>7, <2>1, <2>4, AfterIs DEF InOrder, Raised, w
    <2>5. CASE w = "build"
      BY <1>2, <1>4, <1>7, <2>1, <2>5, AfterIs DEF InOrder, Raised, w
    <2>6. CASE w = "up"
      BY <1>2, <1>4, <1>7, <2>1, <2>6, AfterIs DEF InOrder, Raised, w
    <2>7. CASE w = "main"
      BY <1>2, <1>4, <1>7, <2>1, <2>7, AfterIs DEF InOrder, Raised, w
    <2> QED BY <1>1, <2>2, <2>3, <2>4, <2>5, <2>6, <2>7, AfterIs
  <1> QED BY <1>2, <1>5, <1>6, <1>8, InOneSandbox

\* start() gives up, and its command may still come to its end.
LEMMA AbandonKeeps ==
  ASSUME ComposeIInv, IInv', Sole', NEW c \in Composes, Composing(c), Abandon(c)
  PROVE  ComposeIInv'
  <1> DEFINE s == box[c]
  <1>1. /\ ComposeTypeOK /\ stage[c] \in Stages /\ prebuilt[c] \in Modes /\ s \in Sandboxes
    BY ComposesAreClients DEF Abandon, ComposeIInv, ComposeTypeOK, IInv, TypeOK, Maybe
  <1>2. /\ box' = box /\ step' = step /\ prebuilt' = prebuilt /\ staged' = staged
        /\ overlay' = overlay /\ project' = project
        /\ LeaveBehind(c, stage[c])
        /\ stage' = [stage EXCEPT ![c] = "none"]
    BY DEF Abandon, vars
  <1>3. ComposeTypeOK'
    BY <1>1, <1>2, LeaveBehindKeeps DEF ComposeTypeOK, IInv
  <1>4. \A t \in Sandboxes \ {s} : Same(t)
    BY <1>1, <1>2, LeaveBehindKeeps DEF Same
  <1>5. InOrder(c)'
    <2>1. InOrder(c) /\ stage'[c] = "none"
      BY <1>1, <1>2, SessionAssumption DEF ComposeIInv, ComposeTypeOK
    <2>2. \A mode \in Modes : <<"up", mode>> \in pending'[s] =>
              \/ <<"up", mode>> \in pending[s]
              \/ stage[c] = "up" /\ mode = prebuilt[c]
      <3>1. pending'[s] = IF stage[c] \in Lasting
                          THEN pending[s] \cup {<<stage[c], prebuilt[c]>>} ELSE pending[s]
        BY <1>1, <1>2, LeaveBehindKeeps
      <3> QED BY <3>1
    <2> QED BY <1>1, <1>2, <2>1, <2>2, AfterIs DEF InOrder, Raised
  <1> QED BY <1>2, <1>3, <1>4, <1>5, InOneSandbox

\* docker compose down, to its end or not.
LEMMA TakeDownKeeps ==
  ASSUME ComposeIInv, IInv', Sole', NEW c \in Composes, Composing(c),
         TakeDown(c) \/ TakeDownCancelled(c)
  PROVE  ComposeIInv'
  <1> DEFINE s == box[c]
  <1>1. /\ ComposeTypeOK /\ prebuilt[c] \in Modes
        /\ s \in Sandboxes /\ step[c] = "composing down" /\ stage[c] = "none"
    <2>1. step[c] = "composing down"
      BY DEF TakeDown, TakeDownCancelled, Down, DownCancelled
    <2>2. ComposeTypeOK /\ box[c] \in Maybe /\ box[c] # NoSandbox
      BY <2>1, ComposesAreClients DEF ComposeIInv, IInv, TypeOK, Fits
    <2>3. stage[c] = "none" /\ prebuilt[c] \in Modes
      BY <2>1, <2>2 DEF ComposeTypeOK
    <2> QED BY <2>1, <2>2, <2>3 DEF Maybe
  <1>2. box' = box /\ stage' = stage /\ prebuilt' = prebuilt
    BY DEF TakeDown, TakeDownCancelled, Down, DownCancelled
  <1>3. \/ Effect(s, "down", prebuilt[c]) /\ pending' = pending
        \/ LeaveBehind(c, "down") /\ staged' = staged /\ overlay' = overlay /\ project' = project
    BY DEF TakeDown, TakeDownCancelled
  <1>4. \A d \in Composes : stage'[d] # "none" => step'[d] = "idle" /\ box'[d] # NoSandbox
    BY <1>1, <1>2, ComposingFrame DEF ComposeTypeOK
  <1>5. InOrder(c)
    BY <1>1, SessionAssumption DEF ComposeIInv
  <1>6. CASE Effect(s, "down", prebuilt[c]) /\ pending' = pending
    <2>1. /\ s \in staged' <=> s \in staged
          /\ overlay'[s] = overlay[s] /\ project'[s] = "none"
      BY <1>1, <1>6, EffectKeeps
    <2>2. InOrder(c)'
      BY <1>1, <1>2, <1>5, <1>6, <2>1 DEF InOrder, Raised
    <2>3. \A t \in Sandboxes \ {s} : Same(t)
      BY <1>1, <1>6, EffectKeeps DEF Same
    <2>4. ComposeTypeOK'
      BY <1>1, <1>2, <1>4, <1>6, EffectKeeps DEF ComposeTypeOK, IInv
    <2> QED BY <1>2, <2>2, <2>3, <2>4, InOneSandbox
  <1>7. CASE LeaveBehind(c, "down") /\ staged' = staged /\ overlay' = overlay
             /\ project' = project
    <2>1. \A mode \in Modes : <<"up", mode>> \in pending'[s] => <<"up", mode>> \in pending[s]
      <3>1. pending'[s] = pending[s] \cup {<<"down", prebuilt[c]>>}
        BY <1>1, <1>7, LeaveBehindKeeps DEF Lasting
      <3> QED BY <3>1
    <2>2. InOrder(c)'
      BY <1>1, <1>2, <1>5, <1>7, <2>1 DEF InOrder, Raised
    <2>3. \A t \in Sandboxes \ {s} : Same(t)
      BY <1>1, <1>7, LeaveBehindKeeps DEF Same
    <2>4. ComposeTypeOK'
      BY <1>1, <1>2, <1>4, <1>7, LeaveBehindKeeps DEF ComposeTypeOK, IInv
    <2> QED BY <1>2, <2>2, <2>3, <2>4, InOneSandbox
  <1> QED BY <1>3, <1>6, <1>7

\* The other steps of an environment do nothing in a sandbox.
LEMMA BesidesKeeps ==
  ASSUME ComposeIInv, IInv', Sole', NEW c \in Composes,
         Composing(c), stage[c] = "none" /\ (Begin(c) \/ Otherwise(c))
  PROVE  ComposeIInv'
  <1>1. UNCHANGED composing
    BY DEF Begin, Otherwise
  <1>2. box'[c] = box[c]
    BY DEF Begin, Otherwise, Start, StartFails, RequestCreate, CreateUnanswered, StopEmpty, Stop,
           DeleteFails
  <1>3. \A d \in Composes : box'[d] = box[d]
    BY <1>2, ComposingFrame
  <1>4. \A d \in Composes : stage[d] # "none" => step'[d] = "idle"
    BY ComposingFrame DEF ComposeIInv, ComposeTypeOK
  <1> QED BY <1>1, <1>3, <1>4, Apart

\* So do those of the other adapters, of the broker, the daemon and time.
LEMMA OthersKeep ==
  ASSUME ComposeIInv, IInv', Sole', Broker \/ \E c \in Clients \ Composes : Client(c),
         UNCHANGED composing
  PROVE  ComposeIInv'
  <1>1. \A d \in Composes : box'[d] = box[d] /\ step'[d] = step[d]
    <2>1. CASE Broker
      BY <2>1 DEF Broker
    <2>2. CASE \E c \in Clients \ Composes : Client(c)
      BY <2>2, ClientFrame, ComposesAreClients DEF ComposeIInv
    <2> QED BY <2>1, <2>2
  <1> QED BY <1>1, Apart DEF ComposeIInv, ComposeTypeOK

\* What was given up comes to its end all the same.
LEMMA LandsKeeps ==
  ASSUME ComposeIInv, IInv', Sole', NEW s \in Sandboxes, Lands(s)
  PROVE  ComposeIInv'
  <1>1. PICK p \in pending[s] : /\ Effect(s, p[1], p[2])
                                 /\ pending' = [pending EXCEPT ![s] = @ \ {p}]
    BY DEF Lands
  <1>2. /\ box' = box /\ step' = step /\ stage' = stage /\ prebuilt' = prebuilt
    BY DEF Lands, vars
  <1>3. ComposeTypeOK /\ pending[s] \in SUBSET (Lasting \X Modes)
    BY DEF ComposeIInv, ComposeTypeOK
  <1>4. p \in Lasting \X Modes /\ p[1] \in Lasting /\ p[2] \in Modes /\ p = <<p[1], p[2]>>
    BY <1>3
  <1>5. /\ staged' \subseteq Sandboxes
        /\ overlay' \in [Sandboxes -> Modes \cup {"none"}]
        /\ project' \in [Sandboxes -> Modes \cup {"none"}]
        /\ s \in staged' <=> s \in staged
        /\ overlay'[s] = overlay[s]
        /\ project'[s] = IF p[1] = "up" THEN p[2] ELSE "none"
        /\ \A t \in Sandboxes \ {s} : /\ t \in staged' <=> t \in staged
                                      /\ overlay'[t] = overlay[t]
                                      /\ project'[t] = project[t]
    BY <1>1, <1>3, <1>4, EffectKeeps DEF Lasting
  <1>6. /\ pending' \in [Sandboxes -> SUBSET (Lasting \X Modes)]
        /\ pending'[s] = pending[s] \ {p}
        /\ \A t \in Sandboxes \ {s} : pending'[t] = pending[t]
    BY <1>1, <1>3 DEF ComposeTypeOK
  <1>7. ComposeTypeOK'
    BY <1>2, <1>3, <1>5, <1>6 DEF ComposeTypeOK, IInv
  <1>8. ASSUME NEW c \in Composes, box[c] # NoSandbox PROVE InOrder(c)'
    <2>1. InOrder(c) /\ box[c] \in Sandboxes /\ prebuilt[c] \in Modes
      BY <1>3, <1>8, ComposesAreClients DEF ComposeIInv, ComposeTypeOK, IInv, TypeOK, Maybe
    <2>2. CASE box[c] # s
      <3>1. Same(box[c])
        BY <1>5, <1>6, <2>1, <2>2 DEF Same
      <3> QED BY <1>2, <2>1, <3>1 DEF InOrder, Raised, Same
    <2>3. CASE box[c] = s
      <3>1. \A mode \in Modes : <<"up", mode>> \in pending'[s] => <<"up", mode>> \in pending[s]
        BY <1>6
      <3>2. p[1] = "up" => p[2] = prebuilt[c] /\ Raised(s)
        BY <1>1, <1>4, <2>1, <2>3 DEF InOrder, Raised
      <3>3. p[1] # "up" => project'[s] = "none"
        BY <1>5
      <3>4. Raised(s)' => Raised(s)
        BY <3>1, <3>2, <3>3 DEF Raised
      <3>5. project'[s] \in {"none", prebuilt[c]}
        BY <1>5, <3>2
      <3> QED BY <1>2, <1>5, <2>1, <2>3, <3>1, <3>4, <3>5 DEF InOrder
    <2> QED BY <2>2, <2>3
  <1>9. ASSUME NEW t \in Sandboxes, \A c \in Composes : box[c] # t PROVE Clean(t)'
    <2>1. Clean(t)
      BY <1>9 DEF ComposeIInv
    <2>2. t # s
      BY <1>1, <2>1 DEF Clean
    <2> QED BY <1>5, <1>6, <2>1, <2>2 DEF Clean
  <1> QED BY <1>2, <1>7, <1>8, <1>9 DEF ComposeIInv

LEMMA ComposeStepKeeps == ComposeIInv /\ [ComposeNext]_composeVars => ComposeIInv'
  <1> SUFFICES ASSUME ComposeIInv, [ComposeNext]_composeVars PROVE ComposeIInv'
    OBVIOUS
  <1>1. IInv' /\ Sole'
    BY SessionSide
  <1>2. ASSUME NEW c \in Composes, Composing(c) PROVE ComposeIInv'
    <2>1. CASE stage[c] = "none" /\ (Begin(c) \/ Otherwise(c))
      BY <1>1, <1>2, <2>1, BesidesKeeps
    <2>2. CASE Controlled(c)
      BY <1>1, <1>2, <2>2, ControlledKeeps
    <2>3. CASE Proceed(c)
      BY <1>1, <1>2, <2>3, ProceedKeeps
    <2>4. CASE Abandon(c)
      BY <1>1, <1>2, <2>4, AbandonKeeps
    <2>5. CASE TakeDown(c) \/ TakeDownCancelled(c)
      BY <1>1, <1>2, <2>5, TakeDownKeeps
    <2>6. CASE Stopped(c) \/ Perish(c)
      BY <1>1, <1>2, <2>6, LettingGoKeeps
    <2> QED BY <1>2, <2>1, <2>2, <2>3, <2>4, <2>5, <2>6 DEF Composing
  <1>3. CASE (Broker \/ \E c \in Clients \ Composes : Client(c)) /\ UNCHANGED composing
    BY <1>1, <1>3, OthersKeep
  <1>4. ASSUME NEW s \in Sandboxes, Lands(s) PROVE ComposeIInv'
    BY <1>1, <1>4, LandsKeeps
  <1>5. CASE UNCHANGED composeVars
    BY <1>1, <1>5, Apart DEF composeVars, vars, ComposeIInv, ComposeTypeOK
  <1> QED BY <1>2, <1>3, <1>4, <1>5 DEF ComposeNext

LEMMA ComposeInvariant == ComposeSpec => []ComposeIInv
  BY ComposeInitially, ComposeStepKeeps, PTL DEF ComposeSpec

\* The variables keep their types, and start() uses the sandbox only while it has
\* one and nothing else is under way.
THEOREM ComposeTypeCorrect == ComposeSpec => []ComposeTypeOK
  <1>1. ComposeIInv => ComposeTypeOK
    BY DEF ComposeIInv
  <1> QED BY <1>1, ComposeInvariant, PTL

\* exec, copies and down name the files that the project was brought up with,
\* and these are in the sandbox (_compose_file_flags).
THEOREM ProjectAlwaysMatches == ComposeSpec => []ProjectMatches
  <1>1. ComposeIInv => ProjectMatches
    <2> SUFFICES ASSUME ComposeIInv, NEW c \in Composes,
                        box[c] # NoSandbox, project[box[c]] # "none"
                 PROVE  /\ prebuilt[c] = project[box[c]]
                        /\ overlay[box[c]] = project[box[c]]
                        /\ box[c] \in staged
      BY DEF ProjectMatches
    <2> QED BY DEF ComposeIInv, InOrder, Raised
  <1> QED BY <1>1, ComposeInvariant, PTL
=============================================================================
