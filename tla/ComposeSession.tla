--------------------------- MODULE ComposeSession ---------------------------
(***************************************************************************)
(* Harbor's environments with Docker Compose (harbor.py, _BrokerCompose):  *)
(* what start() does in the sandbox once it has it, command by command,    *)
(* and what stop() takes down again.  The adapters and the broker are      *)
(* those of Session.                                                       *)
(*                                                                         *)
(* A Compose project is described by files in the sandbox, and Compose is  *)
(* told which at every command.  What is there was staged by the start()   *)
(* that made the sandbox; which to name follows from _use_prebuilt, which  *)
(* belongs to the adapter and outlives it.                                 *)
(***************************************************************************)
EXTENDS Session

VARIABLES
    stage,       \* what start() waits for after it has its sandbox
    prebuilt,    \* self._use_prebuilt, as one of Modes
    staged,      \* sandboxes with all files but the network overlay
    overlay,     \* the mode the network overlay in a sandbox is made for
    project,     \* the mode the project in a sandbox was brought up in
    pending      \* commands that nobody waits for any more, and their mode

composing == <<stage, prebuilt, staged, overlay, project, pending>>
composeVars == <<vars, composing>>

Modes == {"prebuilt", "build"}

\* The order of start(): the daemon in the sandbox, the files (Harbor's overlays,
\* the environment, extra files, mounts), the network overlay, docker compose
\* build and up, the main service.
After == [daemon |-> "files", files |-> "network", network |-> "build", build |-> "up",
          up |-> "main", main |-> "none"]

Stages == DOMAIN After

\* Commands that matter when nobody waits for them any more: in a sandbox that a
\* start() left before "up" nothing is done to the project any more.
Lasting == {"up", "down"}

ComposeTypeOK ==
    /\ TypeOK
    /\ stage \in [Composes -> Stages \cup {"none"}]
    /\ prebuilt \in [Composes -> Modes]
    /\ staged \subseteq Sandboxes
    /\ overlay \in [Sandboxes -> Modes \cup {"none"}]
    /\ project \in [Sandboxes -> Modes \cup {"none"}]
    /\ pending \in [Sandboxes -> SUBSET (Lasting \X Modes)]
    /\ \A c \in Composes : stage[c] # "none" => step[c] = "idle" /\ box[c] # NoSandbox

ComposeInit ==
    /\ Init
    /\ stage = [c \in Composes |-> "none"]
    /\ prebuilt = [c \in Composes |-> "build"]
    /\ staged = {}
    /\ overlay = [s \in Sandboxes |-> "none"]
    /\ project = [s \in Sandboxes |-> "none"]
    /\ pending = [s \in Sandboxes |-> {}]

\* What is left in sandbox s when command w is through.
Effect(s, w, mode) ==
    /\ staged' = IF w = "files" THEN staged \cup {s} ELSE staged
    /\ overlay' = IF w = "network" THEN [overlay EXCEPT ![s] = mode] ELSE overlay
    /\ project' =
         CASE w = "up"   -> [project EXCEPT ![s] = mode]
           [] w = "down" -> [project EXCEPT ![s] = "none"]
           [] OTHER      -> project

\* A command of c may still come to its end.
LeaveBehind(c, w) ==
    pending' = IF w \in Lasting
               THEN [pending EXCEPT ![box[c]] = @ \cup {<<w, prebuilt[c]>>}]
               ELSE pending

\* Nobody looks into the sandbox of c any more, and what happens there is not
\* followed.
LetGo(c) ==
    LET s == box[c] IN
    /\ staged' = staged \ {s}
    /\ overlay' = [t \in Sandboxes |-> IF t = s THEN "none" ELSE overlay[t]]
    /\ project' = [t \in Sandboxes |-> IF t = s THEN "none" ELSE project[t]]
    /\ pending' = [t \in Sandboxes |-> IF t = s THEN {} ELSE pending[t]]

-----------------------------------------------------------------------------
(* start *)

\* Seeded fault: start() determines the mode first of all.
BeginChoosing(c) ==
    /\ Start(c)
    /\ \E mode \in Modes : prebuilt' = [prebuilt EXCEPT ![c] = mode]
    /\ UNCHANGED <<stage, staged, overlay, project, pending>>

Begin(c) ==
    /\ Start(c)
    /\ UNCHANGED composing

\* The controller is there; start() goes on.
Controlled(c) ==
    /\ Created(c)
    /\ stage' = [stage EXCEPT ![c] = "daemon"]
    /\ LetGo(c)
    /\ UNCHANGED prebuilt

\* A command went well (docker info and the main service are asked more than
\* once).  Before the network overlay start() looks whether the
\* task has an image, unless it is forced to build.
Proceed(c) ==
    /\ stage[c] # "none"
    /\ phase[box[c]] = "ready"
    /\ Effect(box[c], stage[c], prebuilt[c])
    /\ stage' = [stage EXCEPT ![c] = After[@]]
    /\ IF stage[c] = "files"
         THEN \E mode \in Modes : prebuilt' = [prebuilt EXCEPT ![c] = mode]
         ELSE UNCHANGED prebuilt
    /\ UNCHANGED <<vars, pending>>

\* A command fails or takes too long, the daemon or the main service does not
\* come up, or start() is cancelled.  The sandbox stays held.
Abandon(c) ==
    /\ stage[c] # "none"
    /\ stage' = [stage EXCEPT ![c] = "none"]
    /\ LeaveBehind(c, stage[c])
    /\ UNCHANGED <<vars, prebuilt, staged, overlay, project>>

\* What was given up happens all the same.
Lands(s) ==
    /\ phase[s] \in {"ready", "lost"}
    /\ \E p \in pending[s] :
          /\ Effect(s, p[1], p[2])
          /\ pending' = [pending EXCEPT ![s] = @ \ {p}]
    /\ UNCHANGED <<vars, stage, prebuilt>>

-----------------------------------------------------------------------------
(* stop *)

\* docker compose down worked, or failed, or took too long: its result is not
\* looked at.
TakeDown(c) ==
    /\ Down(c)
    /\ \/ Effect(box[c], "down", prebuilt[c]) /\ UNCHANGED pending
       \/ LeaveBehind(c, "down") /\ UNCHANGED <<staged, overlay, project>>
    /\ UNCHANGED <<stage, prebuilt>>

TakeDownCancelled(c) ==
    /\ DownCancelled(c)
    /\ LeaveBehind(c, "down")
    /\ UNCHANGED <<stage, prebuilt, staged, overlay, project>>

\* The process ends in the middle of start() or elsewhere.
Perish(c) ==
    /\ Die(c)
    /\ stage' = [stage EXCEPT ![c] = "none"]
    /\ LetGo(c)
    /\ UNCHANGED prebuilt

\* stop() has deleted the sandbox.
Stopped(c) ==
    /\ Deleted(c)
    /\ LetGo(c)
    /\ UNCHANGED <<stage, prebuilt>>

-----------------------------------------------------------------------------

\* The steps of an adapter outside start() and stop() of the project.
Otherwise(c) ==
    /\ \/ StartFails(c)
       \/ \E s \in Sandboxes : RequestCreate(c, s)
       \/ CreateUnanswered(c)
       \/ StopEmpty(c)
       \/ Stop(c)
       \/ DeleteFails(c)
    /\ UNCHANGED composing

Composing(c) ==
    \/ stage[c] = "none" /\ (Begin(c) \/ Otherwise(c))
    \/ Controlled(c)
    \/ Proceed(c)
    \/ Abandon(c)
    \/ TakeDown(c)
    \/ TakeDownCancelled(c)
    \/ Stopped(c)
    \/ Perish(c)

ComposeNext ==
    \/ (Broker \/ \E c \in Clients \ Composes : Client(c)) /\ UNCHANGED composing
    \/ \E c \in Composes : Composing(c)
    \/ \E s \in Sandboxes : Lands(s)

ComposeSpec == ComposeInit /\ [][ComposeNext]_composeVars

-----------------------------------------------------------------------------
(* Properties *)

\* Whatever starts failed, were cancelled or given up before, each command that
\* an environment gives to Compose names the files its project was brought up
\* with, and they are all in the sandbox: exec, copies and down reach the
\* services that run.
ProjectMatches ==
    \A c \in Composes :
        LET s == box[c] IN
        s # NoSandbox /\ project[s] # "none" =>
            /\ prebuilt[c] = project[s]
            /\ overlay[s] = project[s]
            /\ s \in staged
=============================================================================
