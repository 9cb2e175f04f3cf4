------------------------------ MODULE Transfer ------------------------------
(***************************************************************************)
(* Files and directories on their way into and out of one sandbox: the     *)
(* calls of the client and of Harbor's adapter (harbor.py), the thread of  *)
(* the broker that serves a request of theirs (runtime.py), and the        *)
(* commands that run in the sandbox for either.  Nobody can stop a command *)
(* or a thread: one that is given up goes on.                              *)
(*                                                                         *)
(* A file, an archive and a directory are all a thing of two parts, which  *)
(* is written part by part.                                                *)
(***************************************************************************)

CONSTANTS
    Calls,       \* calls of consumers, each made once
    Nothing      \* a part that was not written

ASSUME TransferAssumption == Nothing \notin Calls

VARIABLES
    docker,      \* the sandbox is Docker-enabled
    up,          \* the sandbox exists
    kind,        \* what a call does
    caller,      \* what a call waits for
    well,        \* nothing went wrong in it so far
    thread,      \* the command that the broker's thread for a call waits for
    answer,      \* what the thread answers
    process,     \* how far a command is
    linked,      \* the files that have a name in the sandbox
    content,     \* the parts of a file, each named after the call it comes from
    crossed,     \* calls that shared the target with an upload; not of the code
    excused      \* files nobody is going to remove any more; not of the code

calls == <<kind, caller, well>>
threads == <<thread, answer>>
files == <<linked, content>>
vars == <<docker, up, calls, threads, process, files, crossed, excused>>

Parts == {1, 2}

\* write_file, put_archive, read_file, and Harbor's directories
Uploads == {"write", "archive", "upload dir"}
Kinds == Uploads \cup {"read", "download dir"}
OfDirectory == {"upload dir", "download dir"}

\* Everybody's target; a call's archive under /tmp, its file in
\* /broker-transfer, and what its caller and its broker have in memory.
Target == <<"target", Nothing>>
Archive(o) == <<"archive", o>>
Staged(o) == <<"staged", o>>
Local(o) == <<"local", o>>
Files == {Target} \cup ({"archive", "staged", "local"} \X Calls)

\* What the broker is asked to write or read.
Subject(o) == IF kind[o] \in OfDirectory THEN Archive(o) ELSE Target

\* The commands and the two Docker calls that move data; "move" stands for the
\* mv of write_file and for the tar -xf of put_archive.  /broker-transfer is a
\* volume, so that mv copies.
Copies == {"stage", "put", "move", "copy", "fetch", "pack", "unpack"}
Removals == {"drop", "clean"}
Commands == Copies \cup Removals

Source(o, c) ==
    CASE c \in {"stage", "put"} -> Local(o)
      [] c = "move"             -> Staged(o)
      [] c = "copy"             -> Subject(o)
      [] c = "fetch"            -> IF docker THEN Staged(o) ELSE Subject(o)
      [] c = "pack"             -> Target
      [] c = "unpack"           -> Archive(o)

Destination(o, c) ==
    CASE c \in {"stage", "copy"} -> Staged(o)
      [] c \in {"put", "move"}   -> Subject(o)
      [] c = "fetch"             -> Local(o)
      [] c = "pack"              -> Archive(o)
      [] c = "unpack"            -> Target

\* What rm -f is told to remove.
Rubbish(o, c) == IF c = "drop" THEN Staged(o) ELSE Archive(o)

TypeOK ==
    /\ docker \in BOOLEAN
    /\ up \in BOOLEAN
    /\ kind \in [Calls -> Kinds \cup {"none"}]
    /\ caller \in [Calls -> {"idle", "request", "pack", "unpack", "clean", "over"}]
    /\ well \in [Calls -> BOOLEAN]
    /\ thread \in [Calls -> {"none", "stage", "put", "move", "copy", "fetch", "drop"}]
    /\ answer \in [Calls -> {"none", "ok", "error"}]
    /\ process \in [Calls -> [Commands -> {"none", "first", "second", "done", "failed"}]]
    /\ linked \subseteq Files
    /\ content \in [Files -> [Parts -> Calls \cup {Nothing}]]
    /\ crossed \subseteq Calls
    /\ excused \subseteq Files
    /\ \A o \in Calls :
          /\ caller[o] = "idle" <=> kind[o] = "none"
          /\ thread[o] \in {"stage", "move", "copy"} => docker
          /\ thread[o] = "put" => ~docker

Init ==
    /\ docker \in BOOLEAN
    /\ up = TRUE
    /\ kind = [o \in Calls |-> "none"]
    /\ caller = [o \in Calls |-> "idle"]
    /\ well = [o \in Calls |-> TRUE]
    /\ thread = [o \in Calls |-> "none"]
    /\ answer = [o \in Calls |-> "none"]
    /\ process = [o \in Calls |-> [c \in Commands |-> "none"]]
    /\ linked = {}
    /\ content = [f \in Files |-> [p \in Parts |-> Nothing]]
    /\ crossed = {}
    /\ excused = {}

-----------------------------------------------------------------------------
(* Commands *)

Running(o, c) == process[o][c] \in {"first", "second"}

Waited(o, c) == caller[o] = c \/ thread[o] = c

Start(o, d) == process' = [process EXCEPT ![o][d] = "first"]

\* Nobody waits for c any more: its result is of no use.
Forget(result) == IF result \in {"done", "failed"} THEN "none" ELSE result

Quit(o, c) == process' = [process EXCEPT ![o][c] = Forget(@)]

Switch(o, c, d) == process' = [process EXCEPT ![o][c] = Forget(@), ![o][d] = "first"]

End(o, c, result) ==
    process' = [process EXCEPT ![o][c] = IF Waited(o, c) THEN result ELSE "none"]

\* The file is opened, and its first part copied; its name may be removed then.
CopyFirst(o, c) ==
    /\ process[o][c] = "first"
    /\ c \in {"stage", "put"} \/ Source(o, c) \in linked
    /\ linked' = linked \cup {Destination(o, c)}
    /\ content' = [content EXCEPT ![Destination(o, c)][1] = content[Source(o, c)][1]]
    /\ process' = [process EXCEPT ![o][c] = "second"]

CopySecond(o, c) ==
    /\ process[o][c] = "second"
    /\ content' = [content EXCEPT ![Destination(o, c)][2] = content[Source(o, c)][2]]
    /\ End(o, c, "done")
    /\ UNCHANGED linked

Remove(o, c) ==
    /\ process[o][c] = "first"
    /\ linked' = linked \ {Rubbish(o, c)}
    /\ End(o, c, "done")
    /\ UNCHANGED content

\* The disk is full, the source is not there, timeout(1) or somebody else kills
\* it, the sandbox is gone, ...
Break(o, c) ==
    /\ Running(o, c)
    /\ End(o, c, "failed")
    /\ UNCHANGED files

Command(o, c) ==
    /\ \/ up /\ c \in Copies /\ (CopyFirst(o, c) \/ CopySecond(o, c))
       \/ up /\ c \in Removals /\ Remove(o, c)
       \/ Break(o, c)
    /\ UNCHANGED <<docker, up, calls, threads, crossed, excused>>

-----------------------------------------------------------------------------
(* The broker's thread: write_file, put_archive, read_file *)

\* Seeded fault: a Docker-enabled sandbox is written to like a plain one.
FirstCommandUnstaged(o) ==
    CASE kind'[o] \in Uploads -> "put"
      [] OTHER                -> (IF docker THEN "copy" ELSE "fetch")

FirstCommand(o) ==
    CASE kind'[o] \in Uploads -> (IF docker THEN "stage" ELSE "put")
      [] OTHER                -> (IF docker THEN "copy" ELSE "fetch")

Await(o, c) == thread' = [thread EXCEPT ![o] = c]

Answer(o, a) == answer' = [answer EXCEPT ![o] = a]

\* The staging file is there, the command on it can start.
Prepared(o) ==
    /\ thread[o] \in {"stage", "copy"}
    /\ process[o][thread[o]] = "done"
    /\ LET next == IF thread[o] = "stage" THEN "move" ELSE "fetch"
       IN /\ Await(o, next)
          /\ Switch(o, thread[o], next)
    /\ UNCHANGED <<docker, up, calls, answer, files, crossed, excused>>

\* It failed, or its answer did not come.  The try statement is still ahead.
PrepareFails(o) ==
    /\ thread[o] \in {"stage", "copy"}
    /\ Await(o, "none")
    /\ Answer(o, "error")
    /\ Quit(o, thread[o])
    /\ excused' = excused \cup {Staged(o)}
    /\ UNCHANGED <<docker, up, calls, files, crossed>>

\* Seeded fault: the staging file is dropped only when all went well.
LandedThenDrop(o, a) ==
    /\ thread[o] \in {"put", "move", "fetch"}
    /\ a = "ok" => process[o][thread[o]] = "done"
    /\ Answer(o, a)
    /\ IF docker /\ a = "ok"
         THEN Await(o, "drop") /\ Switch(o, thread[o], "drop")
         ELSE Await(o, "none") /\ Quit(o, thread[o])
    /\ UNCHANGED <<docker, up, calls, files, crossed, excused>>

\* The data is where it belongs, or moving it failed, or the answer did not
\* come, or what was read is not what it has to be.  The finally clause drops
\* the staging file, if there is one.
Landed(o, a) ==
    /\ thread[o] \in {"put", "move", "fetch"}
    /\ a = "ok" => process[o][thread[o]] = "done"
    /\ Answer(o, a)
    /\ IF docker
         THEN Await(o, "drop") /\ Switch(o, thread[o], "drop")
         ELSE Await(o, "none") /\ Quit(o, thread[o])
    /\ UNCHANGED <<docker, up, calls, files, crossed, excused>>

Dropped(o) ==
    /\ thread[o] = "drop"
    /\ process[o]["drop"] = "done"
    /\ Await(o, "none")
    /\ Quit(o, "drop")
    /\ UNCHANGED <<docker, up, calls, answer, files, crossed, excused>>

\* Errors of Docker are suppressed, others replace the answer.
DropFails(o) ==
    /\ thread[o] = "drop"
    /\ Await(o, "none")
    /\ Answer(o, answer[o]) \/ Answer(o, "error")
    /\ Quit(o, "drop")
    /\ excused' = excused \cup {Staged(o)}
    /\ UNCHANGED <<docker, up, calls, files, crossed>>

Thread(o) ==
    \/ Prepared(o)
    \/ PrepareFails(o)
    \/ \E a \in {"ok", "error"} : Landed(o, a)
    \/ Dropped(o)
    \/ DropFails(o)

-----------------------------------------------------------------------------
(* The caller *)

Wait(o, c) == caller' = [caller EXCEPT ![o] = c]

Fail(o) == well' = [well EXCEPT ![o] = FALSE]

\* A request is sent, and a thread of the broker takes it up.
Request(o) ==
    /\ Wait(o, "request")
    /\ Await(o, FirstCommand(o))

\* Something that belongs to the call may still change a file.
Active(o) ==
    \/ caller[o] \notin {"idle", "over"}
    \/ thread[o] # "none"
    \/ \E c \in Commands : Running(o, c)

Overlaps(o) == \E q \in Calls : q # o /\ kind[q] \in Uploads /\ Active(q)

\* An upload crosses whatever was begun before.
Begin(o, k) ==
    /\ caller[o] = "idle"
    /\ kind' = [kind EXCEPT ![o] = k]
    /\ content' = [content EXCEPT ![Local(o)] =
                     [p \in Parts |-> IF k \in Uploads THEN o ELSE Nothing]]
    /\ IF k = "download dir"
         THEN Wait(o, "pack") /\ Start(o, "pack") /\ UNCHANGED thread
         ELSE Request(o) /\ Start(o, FirstCommand(o))
    /\ crossed' = crossed \cup {q \in Calls :
                     \/ k \in Uploads /\ caller[q] # "idle"
                     \/ q = o /\ Overlaps(o)}
    /\ UNCHANGED <<docker, up, well, answer, linked, excused>>

Packed(o) ==
    /\ caller[o] = "pack"
    /\ process[o]["pack"] = "done"
    /\ UNCHANGED kind
    /\ Request(o)
    /\ Switch(o, "pack", FirstCommand(o))
    /\ UNCHANGED <<docker, up, well, answer, files, crossed, excused>>

\* The command failed, or took more than its 120 seconds, or the call was
\* cancelled; the try statement is still ahead.
PackFails(o) ==
    /\ caller[o] = "pack"
    /\ Wait(o, "over")
    /\ Fail(o)
    /\ Quit(o, "pack")
    /\ excused' = excused \cup {Archive(o)}
    /\ UNCHANGED <<docker, up, kind, threads, files, crossed>>

Requested(o) ==
    /\ caller[o] = "request"
    /\ thread[o] = "none"
    /\ answer[o] = "ok"
    /\ CASE kind[o] = "upload dir"   -> Wait(o, "unpack") /\ Start(o, "unpack")
         [] kind[o] = "download dir" -> Wait(o, "clean") /\ Start(o, "clean")
         [] OTHER                    -> Wait(o, "over") /\ UNCHANGED process
    /\ UNCHANGED <<docker, up, kind, well, threads, files, crossed, excused>>

\* The broker answers with an error or not in time, or what was downloaded
\* cannot be stored, or the call is cancelled.  An upload has its try statement
\* still ahead, a download is inside it.
RequestFails(o) ==
    /\ caller[o] = "request"
    /\ Fail(o)
    /\ IF kind[o] = "download dir"
         THEN Wait(o, "clean") /\ Start(o, "clean")
         ELSE Wait(o, "over") /\ UNCHANGED process
    /\ excused' = IF kind[o] = "upload dir" THEN excused \cup {Archive(o)} ELSE excused
    /\ UNCHANGED <<docker, up, kind, threads, files, crossed>>

\* Seeded fault: the exit code of tar is not looked at.
UnpackedSomehow(o) ==
    /\ caller[o] = "unpack"
    /\ process[o]["unpack"] \in {"done", "failed"}
    /\ Wait(o, "clean")
    /\ Switch(o, "unpack", "clean")
    /\ UNCHANGED <<docker, up, kind, well, threads, files, crossed, excused>>

Unpacked(o) ==
    /\ caller[o] = "unpack"
    /\ process[o]["unpack"] = "done"
    /\ Wait(o, "clean")
    /\ Switch(o, "unpack", "clean")
    /\ UNCHANGED <<docker, up, kind, well, threads, files, crossed, excused>>

\* The finally clause removes the archive under the hands of a tar that may
\* still be at work.
UnpackFails(o) ==
    /\ caller[o] = "unpack"
    /\ Fail(o)
    /\ Wait(o, "clean")
    /\ Switch(o, "unpack", "clean")
    /\ UNCHANGED <<docker, up, kind, threads, files, crossed, excused>>

\* Nobody looks at the exit code of rm.
Cleaned(o) ==
    /\ caller[o] = "clean"
    /\ process[o]["clean"] \in {"done", "failed"}
    /\ Wait(o, "over")
    /\ Quit(o, "clean")
    /\ excused' = IF process[o]["clean"] = "failed" THEN excused \cup {Archive(o)} ELSE excused
    /\ UNCHANGED <<docker, up, kind, well, threads, files, crossed>>

\* No answer, or cancelled once more; or the consumer's process ends.
GiveUp(o) ==
    /\ caller[o] \notin {"idle", "over"}
    /\ Fail(o)
    /\ Wait(o, "over")
    /\ process' = [process EXCEPT ![o] = [c \in Commands |->
                      IF caller[o] = c THEN Forget(@[c]) ELSE @[c]]]
    /\ excused' = excused \cup {Archive(o)}
    /\ UNCHANGED <<docker, up, kind, threads, files, crossed>>

Caller(o) ==
    \/ \E k \in Kinds : Begin(o, k)
    \/ Packed(o)
    \/ PackFails(o)
    \/ Requested(o)
    \/ RequestFails(o)
    \/ Unpacked(o)
    \/ UnpackFails(o)
    \/ Cleaned(o)
    \/ GiveUp(o)

-----------------------------------------------------------------------------

\* The sandbox is deleted, by its owner or because it expired.
Delete ==
    /\ up
    /\ up' = FALSE
    /\ linked' = {f \in linked : \E o \in Calls : f = Local(o)}
    /\ UNCHANGED <<docker, calls, threads, process, content, crossed, excused>>

\* The broker's process ends; what runs in the sandbox goes on.
BrokerDies ==
    /\ thread' = [o \in Calls |-> "none"]
    /\ answer' = [o \in Calls |-> IF thread[o] = "none" THEN answer[o] ELSE "error"]
    /\ process' = [o \in Calls |-> [c \in Commands |->
                      IF thread[o] = c THEN Forget(process[o][c]) ELSE process[o][c]]]
    /\ excused' = excused \cup {Staged(o) : o \in {q \in Calls : thread[q] # "none"}}
    /\ UNCHANGED <<docker, up, calls, files, crossed>>

Next ==
    \/ \E o \in Calls, c \in Commands : Command(o, c)
    \/ \E o \in Calls : Thread(o)
    \/ \E o \in Calls : Caller(o)
    \/ Delete
    \/ BrokerDies

Spec == Init /\ [][Next]_vars

-----------------------------------------------------------------------------
(* Properties *)

\* A call that returned normally moved what it had to move, all of it, and
\* nothing of it is left that could change the target later: if no upload
\* overlapped with it, or with what still ran of an upload that was given up,
\* and none was begun since, then target and source are the same.
DeliveredWhole ==
    \A o \in Calls :
        caller[o] = "over" /\ well[o] =>
            /\ \A c \in Copies : ~Running(o, c)
            /\ up /\ o \notin crossed => content[Target] = content[Local(o)]

\* A call leaves a file in /tmp or /broker-transfer only if writing it failed
\* or was given up before the try statement that removes it, or the removal
\* itself failed or was given up, or the process in charge of it died.  A
\* command that fails, a thread whose caller is gone, and a cancelled call
\* that still has an extraction running all clean up.
LeftoversExplained ==
    \A o \in Calls : ~Active(o) => {Archive(o), Staged(o)} \cap linked \subseteq excused
=============================================================================
