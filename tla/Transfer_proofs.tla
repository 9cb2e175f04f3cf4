--------------------------- MODULE Transfer_proofs ---------------------------
(* Safety of Transfer, for any calls.                                        *)
EXTENDS Transfer, TLAPS

(***************************************************************************)
(* Where a call is.  What goes on with it fits what it does; a result is   *)
(* kept only for who waits for it; the thread answers once, and a call     *)
(* in which nothing went wrong is past its request only with "ok".         *)
(***************************************************************************)

\* A call of kind k may use the command c.
Fits(k, c) ==
    /\ k \in Kinds
    /\ c \in {"stage", "put", "move"} => k \in Uploads
    /\ c \in {"copy", "fetch"} => k \notin Uploads
    /\ c = "pack" => k = "download dir"
    /\ c = "unpack" => k = "upload dir"
    /\ c = "clean" => k \in OfDirectory

Matching(o) ==
    \A c \in Commands :
        /\ process[o][c] # "none" \/ Waited(o, c) => Fits(kind[o], c)
        /\ c \in {"stage", "copy", "move"} /\ process[o][c] # "none" => docker

Awaited(o) ==
    \A c \in Commands : process[o][c] \in {"done", "failed"} => Waited(o, c)

AnswersOnce(o) ==
    /\ thread[o] \in Copies => answer[o] = "none"
    /\ caller[o] \in {"idle", "pack"} => thread[o] = "none" /\ answer[o] = "none"
    /\ well[o] /\ caller[o] \in {"unpack", "clean", "over"} =>
          thread[o] = "none" /\ answer[o] = "ok"

\* While nothing went wrong, nothing is copied that nobody waits for.
OnTrack(o) ==
    \A c \in Copies :
        well[o] /\ answer[o] # "error" /\ Running(o, c) => Waited(o, c)

(***************************************************************************)
(* The files of a call that it has to remove: not explained means that     *)
(* whoever has to remove one is still going to.                            *)
(***************************************************************************)

Untouched(o) == caller[o] = "idle" => {Archive(o), Staged(o)} \cap linked = {}

StagedIsDropped(o) ==
    Staged(o) \notin excused =>
        /\ \A c \in {"stage", "copy"} : process[o][c] = "first" => thread[o] = c
        /\ Staged(o) \in linked =>
              /\ docker
              /\ thread[o] \in {"stage", "copy", "move", "fetch", "drop"}
              /\ thread[o] = "drop" => process[o]["drop"] # "done"

ArchiveIsCleaned(o) ==
    Archive(o) \notin excused =>
        /\ process[o]["pack"] = "first" => caller[o] = "pack"
        /\ kind[o] = "upload dir" =>
              /\ thread[o] # "none" => caller[o] = "request"
              /\ \A c \in {"put", "move"} :
                    process[o][c] = "first" =>
                        /\ caller[o] = "request"
                        /\ thread[o] = c \/ answer[o] = "error"
        /\ Archive(o) \in linked =>
              /\ kind[o] \in OfDirectory
              /\ caller[o] \in {"pack", "request", "unpack", "clean"}
              /\ caller[o] = "clean" => process[o]["clean"] # "done"

Own(o) ==
    /\ Matching(o)
    /\ Awaited(o)
    /\ AnswersOnce(o)
    /\ OnTrack(o)
    /\ Untouched(o)
    /\ StagedIsDropped(o)
    /\ ArchiveIsCleaned(o)

(***************************************************************************)
(* What was copied.                                                        *)
(***************************************************************************)

\* An upload that shares the target with o is over for good.
Alone(o) ==
    caller[o] # "idle" /\ o \notin crossed =>
        \A q \in Calls \ {o} : kind[q] \in Uploads => ~Active(q)

Moved(o, c) == content[Destination(o, c)] = content[Source(o, c)]

HalfMoved(o, c) == content[Destination(o, c)][1] = content[Source(o, c)][1]

\* The broker did what it was asked to do.
Served(o) == content[Subject(o)] = content[Local(o)]

\* Nothing kept o from its target so far.
Unspoilt(o) ==
    /\ up
    /\ caller[o] # "idle"
    /\ well[o]
    /\ answer[o] # "error"
    /\ o \notin crossed

\* What o has moved so far, as far as what is left of it tells.
Progress(o) ==
    /\ \A c \in Copies :
          /\ process[o][c] = "second" => HalfMoved(o, c)
          /\ process[o][c] = "done" => Moved(o, c)
    /\ thread[o] = "move" => Moved(o, "stage")
    /\ thread[o] = "fetch" /\ docker => Moved(o, "copy")
    /\ answer[o] = "ok" => Served(o)
    /\ kind[o] = "download dir" /\ caller[o] \in {"request", "clean", "over"} =>
          Moved(o, "pack")
    /\ kind[o] = "upload dir" /\ caller[o] \in {"clean", "over"} => Moved(o, "unpack")

CopiedSoFar(o) == Unspoilt(o) => Progress(o)

IInv ==
    /\ TypeOK
    /\ \A o \in Calls : Own(o)
    /\ \A o \in Calls : Alone(o)
    /\ \A o \in Calls : CopiedSoFar(o)

-----------------------------------------------------------------------------
(* Steps of one call *)

ProcessStates == {"none", "first", "second", "done", "failed"}

ProcessOK == process \in [Calls -> [Commands -> ProcessStates]]

LEMMA ProcessSet ==
    ASSUME ProcessOK, NEW o \in Calls, NEW c \in Commands, NEW s \in ProcessStates,
           process' = [process EXCEPT ![o][c] = s]
    PROVE  /\ ProcessOK'
           /\ \A q \in Calls, d \in Commands :
                 process'[q][d] = IF q = o /\ d = c THEN s ELSE process[q][d]
           /\ \A q \in Calls \ {o} : process'[q] = process[q]
  BY DEF ProcessOK

LEMMA ProcessSwitch ==
    ASSUME ProcessOK, NEW o \in Calls, NEW c \in Commands, NEW d \in Commands,
           c # d, Switch(o, c, d)
    PROVE  /\ ProcessOK'
           /\ process'[o][c] # "none" => process'[o][c] = process[o][c]
           /\ process'[o][c] \in {"none", "first", "second"}
           /\ process'[o][d] = "first"
           /\ \A e \in Commands \ {c, d} : process'[o][e] = process[o][e]
           /\ \A q \in Calls \ {o} : process'[q] = process[q]
  BY DEF ProcessOK, ProcessStates, Switch, Forget

LEMMA ProcessQuit ==
    ASSUME ProcessOK, NEW o \in Calls, NEW c \in Commands, Quit(o, c)
    PROVE  /\ ProcessOK'
           /\ process'[o][c] # "none" => process'[o][c] = process[o][c]
           /\ process'[o][c] \in {"none", "first", "second"}
           /\ \A e \in Commands \ {c} : process'[o][e] = process[o][e]
           /\ \A q \in Calls \ {o} : process'[q] = process[q]
  BY DEF ProcessOK, ProcessStates, Quit, Forget

LEMMA ProcessStart ==
    ASSUME ProcessOK, NEW o \in Calls, NEW d \in Commands, Start(o, d)
    PROVE  /\ ProcessOK'
           /\ process'[o][d] = "first"
           /\ \A e \in Commands \ {d} : process'[o][e] = process[o][e]
           /\ \A q \in Calls \ {o} : process'[q] = process[q]
  BY DEF ProcessOK, ProcessStates, Start

LEMMA ProcessEnd ==
    ASSUME ProcessOK, NEW o \in Calls, NEW c \in Commands,
           NEW result \in {"done", "failed"}, End(o, c, result)
    PROVE  /\ ProcessOK'
           /\ process'[o][c] = IF Waited(o, c) THEN result ELSE "none"
           /\ \A e \in Commands \ {c} : process'[o][e] = process[o][e]
           /\ \A q \in Calls \ {o} : process'[q] = process[q]
  BY DEF ProcessOK, ProcessStates, End

LEMMA Types ==
    ASSUME TypeOK
    PROVE  /\ ProcessOK
           /\ kind \in [Calls -> Kinds \cup {"none"}]
           /\ caller \in [Calls -> {"idle", "request", "pack", "unpack", "clean", "over"}]
           /\ well \in [Calls -> BOOLEAN]
           /\ thread \in [Calls -> {"none", "stage", "put", "move", "copy", "fetch", "drop"}]
           /\ answer \in [Calls -> {"none", "ok", "error"}]
  BY DEF TypeOK, ProcessOK, ProcessStates

\* The rest of TypeOK is about single calls.
FieldsOK(o) ==
    /\ caller[o] = "idle" <=> kind[o] = "none"
    /\ thread[o] \in {"stage", "move", "copy"} => docker
    /\ thread[o] = "put" => ~docker

\* The types of what is kept per call, and of the rest.
CallsOK ==
    /\ kind \in [Calls -> Kinds \cup {"none"}]
    /\ caller \in [Calls -> {"idle", "request", "pack", "unpack", "clean", "over"}]
    /\ well \in [Calls -> BOOLEAN]
    /\ thread \in [Calls -> {"none", "stage", "put", "move", "copy", "fetch", "drop"}]
    /\ answer \in [Calls -> {"none", "ok", "error"}]

RestOK ==
    /\ up \in BOOLEAN
    /\ linked \subseteq Files
    /\ content \in [Files -> [Parts -> Calls \cup {Nothing}]]
    /\ crossed \subseteq Calls
    /\ excused \subseteq Files

\* The files of a call, and which of them are its own.
FilesOf(o) == {Target, Archive(o), Staged(o), Local(o)}

LEMMA Distinct ==
    ASSUME NEW o \in Calls
    PROVE  /\ FilesOf(o) \subseteq Files
           /\ Target # Archive(o) /\ Target # Staged(o) /\ Target # Local(o)
           /\ Archive(o) # Staged(o) /\ Archive(o) # Local(o) /\ Staged(o) # Local(o)
           /\ \A q \in Calls \ {o} : FilesOf(q) \cap FilesOf(o) = {Target}
  BY DEF FilesOf, Files, Target, Archive, Staged, Local

\* Where a command copies to and from.
LEMMA Destinations ==
    ASSUME NEW o
    PROVE  /\ Destination(o, "stage") = Staged(o) /\ Destination(o, "copy") = Staged(o)
           /\ Destination(o, "put") = Subject(o) /\ Destination(o, "move") = Subject(o)
           /\ Destination(o, "fetch") = Local(o)
           /\ Destination(o, "pack") = Archive(o)
           /\ Destination(o, "unpack") = Target
<1>1. Destination(o, "stage") = Staged(o) /\ Destination(o, "copy") = Staged(o)
    BY DEF Destination
<1>2. Destination(o, "put") = Subject(o) /\ Destination(o, "move") = Subject(o)
    BY DEF Destination
<1>3. Destination(o, "fetch") = Local(o)
    BY DEF Destination
<1>4. Destination(o, "pack") = Archive(o)
    BY DEF Destination
<1>5. Destination(o, "unpack") = Target
    BY DEF Destination
<1>6. QED
    BY <1>1, <1>2, <1>3, <1>4, <1>5

LEMMA Sources ==
    ASSUME NEW o
    PROVE  /\ Source(o, "stage") = Local(o) /\ Source(o, "put") = Local(o)
           /\ Source(o, "move") = Staged(o)
           /\ Source(o, "copy") = Subject(o)
           /\ Source(o, "fetch") = IF docker THEN Staged(o) ELSE Subject(o)
           /\ Source(o, "pack") = Target
           /\ Source(o, "unpack") = Archive(o)
<1>1. Source(o, "stage") = Local(o) /\ Source(o, "put") = Local(o)
    BY DEF Source
<1>2. Source(o, "move") = Staged(o)
    BY DEF Source
<1>3. Source(o, "copy") = Subject(o)
    BY DEF Source
<1>4. Source(o, "fetch") = IF docker THEN Staged(o) ELSE Subject(o)
    BY DEF Source
<1>5. Source(o, "pack") = Target
    BY DEF Source
<1>6. Source(o, "unpack") = Archive(o)
    BY DEF Source
<1>7. QED
    BY <1>1, <1>2, <1>3, <1>4, <1>5, <1>6

LEMMA Ends ==
    ASSUME NEW o \in Calls, NEW c \in Copies
    PROVE  /\ Source(o, c) \in FilesOf(o) /\ Destination(o, c) \in FilesOf(o)
           /\ Source(o, c) \in Files /\ Destination(o, c) \in Files
           /\ Subject(o) \in FilesOf(o)
<1>1. Source(o, c) \in FilesOf(o)
    BY DEF Source, Subject, FilesOf, Copies
<1>2. Destination(o, c) \in FilesOf(o)
    BY DEF Destination, Subject, FilesOf, Copies
<1>3. QED
    BY <1>1, <1>2, Distinct DEF Subject, FilesOf

\* A step leaves what is written down of q alone; files of q that are to be
\* removed do not appear, and excuses stay.
SameCall(q) ==
    /\ docker' = docker
    /\ kind'[q] = kind[q] /\ caller'[q] = caller[q] /\ well'[q] = well[q]
    /\ thread'[q] = thread[q] /\ answer'[q] = answer[q]
    /\ process'[q] = process[q]
    /\ \A f \in {Archive(q), Staged(q)} :
          /\ f \in linked' => f \in linked
          /\ f \in excused => f \in excused'

LEMMA TypeAssemble ==
    ASSUME TypeOK, NEW o \in Calls, \A q \in Calls \ {o} : SameCall(q),
           docker' = docker, ProcessOK', CallsOK', RestOK', FieldsOK(o)'
    PROVE  TypeOK'
<1>1. \A q \in Calls : FieldsOK(q)'
  <2>1. ASSUME NEW q \in Calls, q # o PROVE FieldsOK(q)'
    <3>1. FieldsOK(q) /\ SameCall(q)
        BY <2>1 DEF TypeOK, FieldsOK
    <3>2. QED
        BY <3>1 DEF SameCall, FieldsOK
  <2>2. QED
      BY <2>1
<1>2. \A q \in Calls :
          /\ caller'[q] = "idle" <=> kind'[q] = "none"
          /\ thread'[q] \in {"stage", "move", "copy"} => docker'
          /\ thread'[q] = "put" => ~docker'
    BY <1>1 DEF FieldsOK
<1>3. QED
    BY <1>2 DEF TypeOK, ProcessOK, ProcessStates, CallsOK, RestOK

LEMMA OthersOwn ==
    ASSUME NEW q \in Calls, SameCall(q), Own(q)
    PROVE  Own(q)'
<1> USE DEF SameCall, Own
<1>1. Matching(q)' /\ Awaited(q)'
    BY DEF Matching, Awaited, Waited
<1>2. AnswersOnce(q)' /\ OnTrack(q)' /\ Untouched(q)'
    BY DEF AnswersOnce, OnTrack, Untouched, Running, Waited, Archive, Staged
<1>3. StagedIsDropped(q)'
    BY DEF StagedIsDropped, Archive, Staged
<1>4. ArchiveIsCleaned(q)'
    BY DEF ArchiveIsCleaned, Archive, Staged
<1>5. QED
    BY <1>1, <1>2, <1>3, <1>4

\* A step of o keeps the types and every call's part of the invariant, and
\* leaves the other calls alone.
Stepped(o) ==
    /\ TypeOK'
    /\ \A q \in Calls : Own(q)'
    /\ \A q \in Calls \ {o} : SameCall(q)

LEMMA OwnAssemble ==
    ASSUME IInv, NEW o \in Calls, TypeOK', \A q \in Calls \ {o} : SameCall(q), Own(o)'
    PROVE  Stepped(o)
<1>1. ASSUME NEW q \in Calls, q # o PROVE Own(q)'
    BY <1>1, OthersOwn DEF IInv
<1>2. QED
    BY <1>1 DEF Stepped

LEMMA PreparedOwn ==
    ASSUME IInv, NEW o \in Calls, Prepared(o)
    PROVE  Stepped(o)
<1> USE DEF Prepared, calls, files, Await
<1>1. TypeOK /\ Own(o)
    BY DEF IInv
<1>2. PICK c \in {"stage", "copy"}, d \in {"move", "fetch"} :
          /\ thread[o] = c /\ process[o][c] = "done"
          /\ c = "stage" <=> d = "move"
          /\ thread' = [thread EXCEPT ![o] = d]
          /\ Switch(o, c, d)
    BY Zenon
<1>3. /\ ProcessOK' /\ process'[o][c] = "none" /\ process'[o][d] = "first"
      /\ \A e \in Commands \ {c, d} : process'[o][e] = process[o][e]
      /\ \A q \in Calls \ {o} : process'[q] = process[q]
    BY <1>1, <1>2, Types, ProcessSwitch DEF Forget, Commands, Copies, Removals
<1>4. /\ UNCHANGED <<docker, up, kind, caller, well, answer, linked, content, crossed, excused>>
      /\ thread'[o] = d
    BY <1>1, <1>2, Types
<1> HIDE DEF Prepared, calls, files, Await
<1>5. \A q \in Calls \ {o} : SameCall(q)
    BY <1>1, <1>2, <1>3, <1>4, Types DEF SameCall
<1>6. TypeOK'
  <2>1. CallsOK' /\ RestOK' /\ FieldsOK(o)'
      BY <1>1, <1>2, <1>4 DEF TypeOK, CallsOK, RestOK, FieldsOK
  <2>2. QED
      BY <1>1, <1>3, <1>4, <1>5, <2>1, TypeAssemble
<1> USE <1>1, <1>2, <1>3, <1>4 DEF Own
<1>7. Matching(o)'
  <2>1. Fits(kind[o], c) /\ docker
      BY DEF Matching, Waited, TypeOK, Commands, Copies, Removals
  <2>2. Fits(kind[o], d)
      BY <2>1 DEF Fits
  <2>3. QED
      BY <2>2 DEF Matching, Waited, Commands, Copies, Removals
<1>8. Awaited(o)'
    BY DEF Awaited, Waited
<1>9. AnswersOnce(o)' /\ OnTrack(o)' /\ Untouched(o)'
    BY DEF AnswersOnce, OnTrack, Untouched, Running, Waited, Archive, Staged, Copies, Commands
<1>10. StagedIsDropped(o)'
    BY DEF StagedIsDropped, Archive, Staged, Commands, Copies, Removals
<1>11. ArchiveIsCleaned(o)'
    BY DEF ArchiveIsCleaned, Archive, Staged, Commands, Copies, Removals, AnswersOnce
<1>12. Own(o)'
    BY <1>7, <1>8, <1>9, <1>10, <1>11
<1>13. QED
    BY <1>5, <1>6, <1>12, OwnAssemble

LEMMA PrepareFailsOwn ==
    ASSUME IInv, NEW o \in Calls, PrepareFails(o)
    PROVE  Stepped(o)
<1> USE DEF PrepareFails, calls, files, Await, Answer
<1>1. TypeOK /\ Own(o)
    BY DEF IInv
<1>2. PICK c \in {"stage", "copy"} :
          /\ thread[o] = c
          /\ thread' = [thread EXCEPT ![o] = "none"]
          /\ answer' = [answer EXCEPT ![o] = "error"]
          /\ excused' = excused \cup {Staged(o)}
          /\ Quit(o, c)
    BY Zenon
<1>3. /\ ProcessOK'
      /\ process'[o][c] # "none" => process'[o][c] = process[o][c]
      /\ process'[o][c] \in {"none", "first", "second"}
      /\ \A e \in Commands \ {c} : process'[o][e] = process[o][e]
      /\ \A q \in Calls \ {o} : process'[q] = process[q]
    BY <1>1, <1>2, Types, ProcessQuit DEF Commands, Copies, Removals
<1>4. /\ UNCHANGED <<docker, up, kind, caller, well, linked, content, crossed>>
      /\ thread'[o] = "none" /\ answer'[o] = "error"
      /\ excused' \subseteq Files
    BY <1>1, <1>2, Types, Distinct DEF TypeOK, FilesOf
<1> HIDE DEF PrepareFails, calls, files, Await, Answer
<1>5. \A q \in Calls \ {o} : SameCall(q)
    BY <1>1, <1>2, <1>3, <1>4, Types, Distinct DEF SameCall, FilesOf
<1>6. TypeOK'
  <2>1. CallsOK' /\ RestOK' /\ FieldsOK(o)'
      BY <1>1, <1>2, <1>4 DEF TypeOK, CallsOK, RestOK, FieldsOK
  <2>2. QED
      BY <1>1, <1>3, <1>4, <1>5, <2>1, TypeAssemble
<1> USE <1>1, <1>2, <1>3, <1>4 DEF Own
<1>7. Matching(o)'
    BY DEF Matching, Waited, Commands, Copies, Removals
<1>8. Awaited(o)'
    BY DEF Awaited, Waited, Commands, Copies, Removals
<1>9. AnswersOnce(o)' /\ OnTrack(o)' /\ Untouched(o)'
  <2>1. AnswersOnce(o)'
      BY DEF AnswersOnce, Copies
  <2>2. OnTrack(o)'
      BY DEF AnswersOnce, OnTrack, Running, Waited, Copies, Commands
  <2>3. Untouched(o)'
      BY DEF Untouched, Archive, Staged
  <2>4. QED
      BY <2>1, <2>2, <2>3
<1>10. StagedIsDropped(o)'
    BY DEF StagedIsDropped, Archive, Staged, Commands, Copies, Removals
<1>11. ArchiveIsCleaned(o)'
    BY DEF ArchiveIsCleaned, Archive, Staged, Commands, Copies, Removals, AnswersOnce
<1>12. Own(o)'
    BY <1>7, <1>8, <1>9, <1>10, <1>11
<1>13. QED
    BY <1>5, <1>6, <1>12, OwnAssemble

LEMMA LandedOwn ==
    ASSUME IInv, NEW o \in Calls, NEW a \in {"ok", "error"}, Landed(o, a)
    PROVE  Stepped(o)
<1> USE DEF Landed, calls, files, Await, Answer
<1>1. TypeOK /\ Own(o)
    BY DEF IInv
<1>2. PICK c \in {"put", "move", "fetch"}, d \in {"none", "drop"} :
          /\ thread[o] = c /\ (a = "ok" => process[o][c] = "done")
          /\ docker <=> d = "drop"
          /\ thread' = [thread EXCEPT ![o] = d]
          /\ answer' = [answer EXCEPT ![o] = a]
          /\ IF d = "drop" THEN Switch(o, c, "drop") ELSE Quit(o, c)
    BY Zenon
<1>3. /\ ProcessOK'
      /\ process'[o][c] # "none" => process'[o][c] = process[o][c]
      /\ process'[o][c] \in {"none", "first", "second"}
      /\ d = "drop" => process'[o]["drop"] = "first"
      /\ d = "none" => process'[o]["drop"] = process[o]["drop"]
      /\ \A e \in Commands \ {c, "drop"} : process'[o][e] = process[o][e]
      /\ \A q \in Calls \ {o} : process'[q] = process[q]
    BY <1>1, <1>2, Types, ProcessQuit, ProcessSwitch DEF Commands, Copies, Removals
<1>4. /\ UNCHANGED <<docker, up, kind, caller, well, linked, content, crossed, excused>>
      /\ thread'[o] = d /\ answer'[o] = a
    BY <1>1, <1>2, Types
<1> HIDE DEF Landed, calls, files, Await, Answer
<1>5. \A q \in Calls \ {o} : SameCall(q)
    BY <1>1, <1>2, <1>3, <1>4, Types DEF SameCall
<1>6. TypeOK'
  <2>1. CallsOK' /\ RestOK' /\ FieldsOK(o)'
      BY <1>1, <1>2, <1>4 DEF TypeOK, CallsOK, RestOK, FieldsOK
  <2>2. QED
      BY <1>1, <1>3, <1>4, <1>5, <2>1, TypeAssemble
<1> USE <1>1, <1>2, <1>3, <1>4 DEF Own
<1>7. Matching(o)'
  <2>1. Fits(kind[o], c)
      BY DEF Matching, Waited, TypeOK, Commands, Copies, Removals
  <2>2. Fits(kind[o], "drop")
      BY <2>1 DEF Fits
  <2>3. QED
      BY <2>1, <2>2 DEF Matching, Waited, Commands, Copies, Removals
<1>8. Awaited(o)'
    BY DEF Awaited, Waited, Commands, Copies, Removals
<1>9. AnswersOnce(o)' /\ OnTrack(o)' /\ Untouched(o)'
  <2>1. AnswersOnce(o)'
      BY DEF AnswersOnce, Copies
  <2>2. OnTrack(o)'
      BY DEF AnswersOnce, OnTrack, Running, Waited, Copies, Commands
  <2>3. Untouched(o)'
      BY DEF Untouched, Archive, Staged
  <2>4. QED
      BY <2>1, <2>2, <2>3
<1>10. StagedIsDropped(o)'
    BY DEF StagedIsDropped, Archive, Staged, Commands, Copies, Removals
<1>11. ArchiveIsCleaned(o)'
  <2>1. answer[o] = "none"
      BY DEF AnswersOnce, Copies
  <2>2. ASSUME NEW e \in {"put", "move"}, process'[o][e] = "first",
               Archive(o) \notin excused, kind[o] = "upload dir"
        PROVE  caller[o] = "request" /\ a = "error"
    <3>1. process[o][e] = "first"
        BY <2>2 DEF Commands, Copies, Removals
    <3>2. caller[o] = "request" /\ thread[o] = e
        BY <2>1, <2>2, <3>1 DEF ArchiveIsCleaned
    <3>3. QED
        BY <3>1, <3>2
  <2>3. /\ process'[o]["pack"] = process[o]["pack"]
        /\ process'[o]["clean"] = process[o]["clean"]
      BY DEF Commands, Copies, Removals
  <2>4. QED
      BY <2>2, <2>3 DEF ArchiveIsCleaned, Archive
<1>12. Own(o)'
    BY <1>7, <1>8, <1>9, <1>10, <1>11
<1>13. QED
    BY <1>5, <1>6, <1>12, OwnAssemble

LEMMA DroppedOwn ==
    ASSUME IInv, NEW o \in Calls, Dropped(o) \/ DropFails(o)
    PROVE  Stepped(o)
<1> USE DEF Dropped, DropFails, calls, files, Await, Answer
<1>1. TypeOK /\ Own(o)
    BY DEF IInv
<1>2. PICK a \in {"none", "ok", "error"} :
          /\ thread[o] = "drop"
          /\ a = answer[o] \/ a = "error"
          /\ thread' = [thread EXCEPT ![o] = "none"]
          /\ answer' = [answer EXCEPT ![o] = a]
          /\ \/ excused' = excused \cup {Staged(o)}
             \/ excused' = excused /\ process[o]["drop"] = "done"
          /\ Quit(o, "drop")
    BY <1>1 DEF TypeOK
<1>3. /\ ProcessOK'
      /\ process'[o]["drop"] # "none" => process'[o]["drop"] = process[o]["drop"]
      /\ process'[o]["drop"] \in {"none", "first", "second"}
      /\ \A e \in Commands \ {"drop"} : process'[o][e] = process[o][e]
      /\ \A q \in Calls \ {o} : process'[q] = process[q]
    BY <1>1, <1>2, Types, ProcessQuit DEF Commands, Copies, Removals
<1>4. /\ UNCHANGED <<docker, up, kind, caller, well, linked, content, crossed>>
      /\ thread'[o] = "none" /\ answer'[o] = a
      /\ excused' \subseteq Files
      /\ excused \subseteq excused'
    BY <1>1, <1>2, Types, Distinct DEF TypeOK, FilesOf
<1> HIDE DEF Dropped, DropFails, calls, files, Await, Answer
<1>5. \A q \in Calls \ {o} : SameCall(q)
    BY <1>1, <1>2, <1>3, <1>4, Types, Distinct DEF SameCall, FilesOf
<1>6. TypeOK'
  <2>1. CallsOK' /\ RestOK' /\ FieldsOK(o)'
      BY <1>1, <1>2, <1>4 DEF TypeOK, CallsOK, RestOK, FieldsOK
  <2>2. QED
      BY <1>1, <1>3, <1>4, <1>5, <2>1, TypeAssemble
<1> USE <1>1, <1>2, <1>3, <1>4 DEF Own
<1>7. Matching(o)'
  <2>1. Fits(kind[o], "drop")
      BY DEF Matching, Waited, TypeOK, Commands, Copies, Removals
  <2>2. Fits(kind[o], "drop")
      BY <2>1 DEF Fits
  <2>3. QED
      BY <2>1, <2>2 DEF Matching, Waited, Commands, Copies, Removals
<1>8. Awaited(o)'
    BY DEF Awaited, Waited, Commands, Copies, Removals
<1>9. AnswersOnce(o)' /\ OnTrack(o)' /\ Untouched(o)'
  <2>1. AnswersOnce(o)'
      BY DEF AnswersOnce, Copies
  <2>2. OnTrack(o)'
      BY DEF AnswersOnce, OnTrack, Running, Waited, Copies, Commands
  <2>3. Untouched(o)'
      BY DEF Untouched, Archive, Staged
  <2>4. QED
      BY <2>1, <2>2, <2>3
<1>10. StagedIsDropped(o)'
    BY DEF StagedIsDropped, Archive, Staged, Commands, Copies, Removals
<1>11. ArchiveIsCleaned(o)'
    BY DEF ArchiveIsCleaned, Archive, Staged, Commands, Copies, Removals, AnswersOnce
<1>12. Own(o)'
    BY <1>7, <1>8, <1>9, <1>10, <1>11
<1>13. QED
    BY <1>5, <1>6, <1>12, OwnAssemble

LEMMA PackedOwn ==
    ASSUME IInv, NEW o \in Calls, Packed(o)
    PROVE  Stepped(o)
<1> USE DEF Packed, threads, files, Await, Wait
<1>1. TypeOK /\ Own(o)
    BY DEF IInv
<1>2. PICK c \in {"copy", "fetch"} :
          /\ caller[o] = "pack" /\ process[o]["pack"] = "done"
          /\ docker <=> c = "copy"
          /\ caller' = [caller EXCEPT ![o] = "request"]
          /\ thread' = [thread EXCEPT ![o] = c]
          /\ Switch(o, "pack", c)
  <2>1. kind[o] = "download dir"
      BY <1>1 DEF Own, Matching, Fits, Waited, Commands, Copies, Removals
  <2>2. kind'[o] \notin Uploads
      BY <2>1 DEF Uploads
  <2>3. FirstCommand(o) = IF docker THEN "copy" ELSE "fetch"
      BY <2>2 DEF FirstCommand
  <2>4. QED
      BY <2>3, Zenon DEF Request
<1>3. /\ ProcessOK'
      /\ process'[o]["pack"] # "none" => process'[o]["pack"] = process[o]["pack"]
      /\ process'[o]["pack"] \in {"none", "first", "second"}
      /\ process'[o][c] = "first"
      /\ \A e \in Commands \ {"pack", c} : process'[o][e] = process[o][e]
      /\ \A q \in Calls \ {o} : process'[q] = process[q]
    BY <1>1, <1>2, Types, ProcessSwitch DEF Commands, Copies, Removals
<1>4. /\ UNCHANGED <<docker, up, kind, well, answer, linked, content, crossed, excused>>
      /\ caller'[o] = "request" /\ thread'[o] = c
      /\ thread[o] = "none" /\ answer[o] = "none"
    BY <1>1, <1>2, Types DEF Own, AnswersOnce
<1> HIDE DEF Packed, threads, files, Await, Wait
<1>5. \A q \in Calls \ {o} : SameCall(q)
    BY <1>1, <1>2, <1>3, <1>4, Types DEF SameCall
<1>6. TypeOK'
  <2>1. CallsOK' /\ RestOK' /\ FieldsOK(o)'
      BY <1>1, <1>2, <1>4 DEF TypeOK, CallsOK, RestOK, FieldsOK
  <2>2. QED
      BY <1>1, <1>3, <1>4, <1>5, <2>1, TypeAssemble
<1> USE <1>1, <1>2, <1>3, <1>4 DEF Own
<1>7. Matching(o)'
  <2>1. kind[o] = "download dir"
      BY DEF Matching, Fits, Waited, TypeOK, Commands, Copies, Removals
  <2>2. Fits(kind[o], c)
      BY <2>1 DEF Fits, Kinds, Uploads, OfDirectory
  <2>3. ASSUME NEW e \in Commands
        PROVE  /\ process'[o][e] # "none" \/ Waited(o, e)' => Fits(kind[o], e)
               /\ e \in {"stage", "copy", "move"} /\ process'[o][e] # "none" => docker
    <3>1. CASE e = c
        BY <2>2, <3>1
    <3>2. CASE e = "pack"
        BY <3>2 DEF Matching, Waited
    <3>3. CASE e \notin {c, "pack"}
      <4>1. process'[o][e] = process[o][e] /\ ~Waited(o, e)'
          BY <3>3 DEF Waited, Commands, Copies, Removals
      <4>2. QED
          BY <4>1 DEF Matching
    <3>4. QED
        BY <3>1, <3>2, <3>3
  <2>4. QED
      BY <2>3 DEF Matching
<1>8. Awaited(o)'
    BY DEF Awaited, Waited, Commands, Copies, Removals
<1>9. AnswersOnce(o)' /\ OnTrack(o)' /\ Untouched(o)'
  <2>1. AnswersOnce(o)'
      BY DEF AnswersOnce, Copies
  <2>2. OnTrack(o)'
      BY DEF AnswersOnce, OnTrack, Running, Waited, Copies, Commands
  <2>3. Untouched(o)'
      BY DEF Untouched, Archive, Staged
  <2>4. QED
      BY <2>1, <2>2, <2>3
<1>10. StagedIsDropped(o)'
    BY DEF StagedIsDropped, Archive, Staged, Commands, Copies, Removals
<1>11. ArchiveIsCleaned(o)'
    BY DEF ArchiveIsCleaned, Archive, Staged, Commands, Copies, Removals, AnswersOnce
<1>12. Own(o)'
    BY <1>7, <1>8, <1>9, <1>10, <1>11
<1>13. QED
    BY <1>5, <1>6, <1>12, OwnAssemble

LEMMA PackFailsOwn ==
    ASSUME IInv, NEW o \in Calls, PackFails(o)
    PROVE  Stepped(o)
<1> USE DEF PackFails, threads, files, Wait, Fail
<1>1. TypeOK /\ Own(o)
    BY DEF IInv
<1>2. /\ caller[o] = "pack"
      /\ caller' = [caller EXCEPT ![o] = "over"]
      /\ well' = [well EXCEPT ![o] = FALSE]
      /\ Quit(o, "pack")
      /\ excused' = excused \cup {Archive(o)}
    OBVIOUS
<1>3. /\ ProcessOK'
      /\ process'[o]["pack"] # "none" => process'[o]["pack"] = process[o]["pack"]
      /\ process'[o]["pack"] \in {"none", "first", "second"}
      /\ \A e \in Commands \ {"pack"} : process'[o][e] = process[o][e]
      /\ \A q \in Calls \ {o} : process'[q] = process[q]
    BY <1>1, <1>2, Types, ProcessQuit DEF Commands, Copies, Removals
<1>4. /\ UNCHANGED <<docker, up, kind, thread, answer, linked, content, crossed>>
      /\ caller'[o] = "over" /\ well'[o] = FALSE
      /\ excused' \subseteq Files
    BY <1>1, <1>2, Types, Distinct DEF TypeOK, FilesOf
<1> HIDE DEF PackFails, threads, files, Wait, Fail
<1>5. \A q \in Calls \ {o} : SameCall(q)
    BY <1>1, <1>2, <1>3, <1>4, Types, Distinct DEF SameCall, FilesOf
<1>6. TypeOK'
  <2>1. CallsOK' /\ RestOK' /\ FieldsOK(o)'
      BY <1>1, <1>2, <1>4 DEF TypeOK, CallsOK, RestOK, FieldsOK
  <2>2. QED
      BY <1>1, <1>3, <1>4, <1>5, <2>1, TypeAssemble
<1> USE <1>1, <1>2, <1>3, <1>4 DEF Own
<1>7. Matching(o)'
    BY DEF Matching, Waited, Commands, Copies, Removals
<1>8. Awaited(o)'
    BY DEF Awaited, Waited, Commands, Copies, Removals
<1>9. AnswersOnce(o)' /\ OnTrack(o)' /\ Untouched(o)'
  <2>1. AnswersOnce(o)'
      BY DEF AnswersOnce, Copies
  <2>2. OnTrack(o)'
      BY DEF AnswersOnce, OnTrack, Running, Waited, Copies, Commands
  <2>3. Untouched(o)'
      BY DEF Untouched, Archive, Staged
  <2>4. QED
      BY <2>1, <2>2, <2>3
<1>10. StagedIsDropped(o)'
    BY DEF StagedIsDropped, Archive, Staged, Commands, Copies, Removals
<1>11. ArchiveIsCleaned(o)'
    BY DEF ArchiveIsCleaned, Archive, Staged, Commands, Copies, Removals, AnswersOnce
<1>12. Own(o)'
    BY <1>7, <1>8, <1>9, <1>10, <1>11
<1>13. QED
    BY <1>5, <1>6, <1>12, OwnAssemble

LEMMA RequestedOwn ==
    ASSUME IInv, NEW o \in Calls, Requested(o)
    PROVE  Stepped(o)
<1> USE DEF Requested, threads, files, Wait
<1>1. TypeOK /\ Own(o)
    BY DEF IInv
<1>2. PICK d \in {"unpack", "clean", "over"} :
          /\ caller[o] = "request" /\ thread[o] = "none" /\ answer[o] = "ok"
          /\ kind[o] = "upload dir" <=> d = "unpack"
          /\ kind[o] = "download dir" <=> d = "clean"
          /\ caller' = [caller EXCEPT ![o] = d]
          /\ IF d = "over" THEN UNCHANGED process ELSE Start(o, d)
    BY Zenon
<1>3. /\ ProcessOK'
      /\ d \in Commands => process'[o][d] = "first"
      /\ \A e \in Commands \ {d} : process'[o][e] = process[o][e]
      /\ \A q \in Calls \ {o} : process'[q] = process[q]
  <2>1. CASE d = "over"
      BY <1>1, <1>2, <2>1, Types DEF Commands, Copies, Removals, ProcessOK
  <2>2. CASE d # "over"
    <3>1. d \in Commands /\ Start(o, d)
        BY <1>2, <2>2 DEF Commands, Copies, Removals
    <3>2. QED
        BY <1>1, <3>1, Types, ProcessStart
  <2>3. QED
      BY <2>1, <2>2
<1>4. /\ UNCHANGED <<docker, up, kind, well, thread, answer, linked, content, crossed, excused>>
      /\ caller'[o] = d
    BY <1>1, <1>2, Types
<1> HIDE DEF Requested, threads, files, Wait
<1>5. \A q \in Calls \ {o} : SameCall(q)
    BY <1>1, <1>2, <1>3, <1>4, Types DEF SameCall
<1>6. TypeOK'
  <2>1. CallsOK' /\ RestOK' /\ FieldsOK(o)'
      BY <1>1, <1>2, <1>4 DEF TypeOK, CallsOK, RestOK, FieldsOK
  <2>2. QED
      BY <1>1, <1>3, <1>4, <1>5, <2>1, TypeAssemble
<1> USE <1>1, <1>2, <1>3, <1>4 DEF Own
<1>7. Matching(o)'
  <2>1. d \in Commands => Fits(kind[o], d)
      BY DEF Fits, Kinds, Uploads, OfDirectory, TypeOK, Commands, Copies, Removals
  <2>2. d \notin {"stage", "copy", "move"}
      OBVIOUS
  <2>3. ASSUME NEW e \in Commands
        PROVE  /\ process'[o][e] # "none" \/ Waited(o, e)' => Fits(kind'[o], e)
               /\ e \in {"stage", "copy", "move"} /\ process'[o][e] # "none" => docker'
    <3>1. CASE e = d
        BY <2>1, <2>2, <3>1
    <3>2. CASE e # d
      <4>1. process'[o][e] = process[o][e] /\ (Waited(o, e)' => Waited(o, e))
          BY <3>2 DEF Waited
      <4>2. QED
          BY <4>1 DEF Matching
    <3>3. QED
        BY <3>1, <3>2
  <2>4. QED
      BY <2>3, Zenon DEF Matching
<1>8. Awaited(o)'
    BY DEF Awaited, Waited, Commands, Copies, Removals
<1>9. AnswersOnce(o)' /\ OnTrack(o)' /\ Untouched(o)'
  <2>1. AnswersOnce(o)'
      BY DEF AnswersOnce, Copies
  <2>2. OnTrack(o)'
      BY DEF AnswersOnce, OnTrack, Running, Waited, Copies, Commands
  <2>3. Untouched(o)'
      BY DEF Untouched, Archive, Staged
  <2>4. QED
      BY <2>1, <2>2, <2>3
<1>10. StagedIsDropped(o)'
  <2>1. \A e \in {"stage", "copy", "drop"} : process'[o][e] = process[o][e]
      BY DEF Commands, Copies, Removals
  <2>2. QED
      BY <2>1 DEF StagedIsDropped, Staged
<1>11. ArchiveIsCleaned(o)'
  <2>1. \A e \in {"put", "move", "pack"} : process'[o][e] = process[o][e]
      BY DEF Commands, Copies, Removals
  <2>2. d = "clean" => process'[o]["clean"] # "done"
      BY DEF Commands, Copies, Removals
  <2>3. Archive(o) \notin excused' =>
          /\ process[o]["pack"] # "first"
          /\ kind[o] = "upload dir" =>
               thread[o] = "none" /\ \A e \in {"put", "move"} : process[o][e] # "first"
      BY DEF ArchiveIsCleaned
  <2>4. Archive(o) \notin excused' /\ Archive(o) \in linked =>
          kind[o] \in OfDirectory /\ d \in {"unpack", "clean"}
      BY DEF ArchiveIsCleaned, OfDirectory
  <2>5. QED
      BY <2>1, <2>2, <2>3, <2>4 DEF ArchiveIsCleaned, Archive
<1>12. Own(o)'
    BY <1>7, <1>8, <1>9, <1>10, <1>11
<1>13. QED
    BY <1>5, <1>6, <1>12, OwnAssemble

LEMMA RequestFailsOwn ==
    ASSUME IInv, NEW o \in Calls, RequestFails(o)
    PROVE  Stepped(o)
<1> USE DEF RequestFails, threads, files, Wait, Fail
<1>1. TypeOK /\ Own(o)
    BY DEF IInv
<1>2. PICK d \in {"clean", "over"} :
          /\ caller[o] = "request"
          /\ kind[o] = "download dir" <=> d = "clean"
          /\ caller' = [caller EXCEPT ![o] = d]
          /\ well' = [well EXCEPT ![o] = FALSE]
          /\ IF d = "over" THEN UNCHANGED process ELSE Start(o, d)
    BY Zenon
<1>3. /\ ProcessOK'
      /\ d \in Commands => process'[o][d] = "first"
      /\ \A e \in Commands \ {d} : process'[o][e] = process[o][e]
      /\ \A q \in Calls \ {o} : process'[q] = process[q]
  <2>1. CASE d = "over"
      BY <1>1, <1>2, <2>1, Types DEF Commands, Copies, Removals, ProcessOK
  <2>2. CASE d # "over"
    <3>1. d \in Commands /\ Start(o, d)
        BY <1>2, <2>2 DEF Commands, Copies, Removals
    <3>2. QED
        BY <1>1, <3>1, Types, ProcessStart
  <2>3. QED
      BY <2>1, <2>2
<1>4. /\ UNCHANGED <<docker, up, kind, thread, answer, linked, content, crossed>>
      /\ caller'[o] = d /\ well'[o] = FALSE
      /\ excused \subseteq excused' /\ excused' \subseteq Files
      /\ kind[o] = "upload dir" => Archive(o) \in excused'
    BY <1>1, <1>2, Types, Distinct DEF TypeOK, FilesOf
<1> HIDE DEF RequestFails, threads, files, Wait, Fail
<1>5. \A q \in Calls \ {o} : SameCall(q)
    BY <1>1, <1>2, <1>3, <1>4, Types, Distinct DEF SameCall, FilesOf
<1>6. TypeOK'
  <2> USE <1>1, <1>2, <1>4
  <2>1. CallsOK' /\ RestOK' /\ FieldsOK(o)'
    <3>1. CallsOK'
        BY Types DEF CallsOK
    <3>2. RestOK'
        BY DEF TypeOK, RestOK
    <3>3. FieldsOK(o)'
        BY DEF TypeOK, FieldsOK
    <3>4. QED
        BY <3>1, <3>2, <3>3
  <2>2. QED
      BY <1>1, <1>3, <1>4, <1>5, <2>1, TypeAssemble
<1> USE <1>1, <1>2, <1>3, <1>4 DEF Own
<1>7. Matching(o)'
  <2>1. d \in Commands => Fits(kind[o], d)
      BY DEF Fits, Kinds, Uploads, OfDirectory, TypeOK, Commands, Copies, Removals
  <2>2. d \notin {"stage", "copy", "move"}
      OBVIOUS
  <2>3. ASSUME NEW e \in Commands
        PROVE  /\ process'[o][e] # "none" \/ Waited(o, e)' => Fits(kind'[o], e)
               /\ e \in {"stage", "copy", "move"} /\ process'[o][e] # "none" => docker'
    <3>1. CASE e = d
        BY <2>1, <2>2, <3>1
    <3>2. CASE e # d
      <4>1. process'[o][e] = process[o][e] /\ (Waited(o, e)' => Waited(o, e))
          BY <3>2 DEF Waited
      <4>2. QED
          BY <4>1 DEF Matching
    <3>3. QED
        BY <3>1, <3>2
  <2>4. QED
      BY <2>3, Zenon DEF Matching
<1>8. Awaited(o)'
    BY DEF Awaited, Waited, Commands, Copies, Removals
<1>9. AnswersOnce(o)' /\ OnTrack(o)' /\ Untouched(o)'
  <2>1. AnswersOnce(o)'
      BY DEF AnswersOnce, Copies
  <2>2. OnTrack(o)'
      BY DEF AnswersOnce, OnTrack, Running, Waited, Copies, Commands
  <2>3. Untouched(o)'
      BY DEF Untouched, Archive, Staged
  <2>4. QED
      BY <2>1, <2>2, <2>3
<1>10. StagedIsDropped(o)'
  <2>1. \A e \in {"stage", "copy", "drop"} : process'[o][e] = process[o][e]
      BY DEF Commands, Copies, Removals
  <2>2. Staged(o) \notin excused' => Staged(o) \notin excused
      OBVIOUS
  <2>3. QED
      BY <2>1, <2>2 DEF StagedIsDropped, Staged
<1>11. ArchiveIsCleaned(o)'
  <2>1. \A e \in {"put", "move", "pack"} : process'[o][e] = process[o][e]
      BY DEF Commands, Copies, Removals
  <2>2. d = "clean" => process'[o]["clean"] # "done"
      BY DEF Commands, Copies, Removals
  <2>3. Archive(o) \notin excused' =>
          /\ process[o]["pack"] # "first"
          /\ kind[o] = "upload dir" =>
               thread[o] = "none" /\ \A e \in {"put", "move"} : process[o][e] # "first"
      BY DEF ArchiveIsCleaned
  <2>4. Archive(o) \notin excused' /\ Archive(o) \in linked =>
          kind[o] \in OfDirectory /\ d \in {"unpack", "clean"}
      BY DEF ArchiveIsCleaned, OfDirectory
  <2>5. QED
      BY <2>1, <2>2, <2>3, <2>4 DEF ArchiveIsCleaned, Archive
<1>12. Own(o)'
    BY <1>7, <1>8, <1>9, <1>10, <1>11
<1>13. QED
    BY <1>5, <1>6, <1>12, OwnAssemble

LEMMA UnpackEndsOwn ==
    ASSUME IInv, NEW o \in Calls, Unpacked(o) \/ UnpackFails(o)
    PROVE  Stepped(o)
<1> USE DEF Unpacked, UnpackFails, threads, files, Wait, Fail
<1>1. TypeOK /\ Own(o)
    BY DEF IInv
<1>2. /\ caller[o] = "unpack"
      /\ caller' = [caller EXCEPT ![o] = "clean"]
      /\ well' = well \/ well' = [well EXCEPT ![o] = FALSE]
      /\ Switch(o, "unpack", "clean")
    OBVIOUS
<1>3. /\ ProcessOK'
      /\ process'[o]["unpack"] # "none" => process'[o]["unpack"] = process[o]["unpack"]
      /\ process'[o]["unpack"] \in {"none", "first", "second"}
      /\ Unpacked(o) => process'[o]["unpack"] = "none"
      /\ process'[o]["clean"] = "first"
      /\ \A e \in Commands \ {"unpack", "clean"} : process'[o][e] = process[o][e]
      /\ \A q \in Calls \ {o} : process'[q] = process[q]
    BY <1>1, <1>2, Types, ProcessSwitch DEF Commands, Copies, Removals
<1>4. /\ UNCHANGED <<docker, up, kind, thread, answer, linked, content, crossed, excused>>
      /\ caller'[o] = "clean" /\ (well'[o] => Unpacked(o) /\ well[o])
      /\ well' \in [Calls -> BOOLEAN]
      /\ \A q \in Calls \ {o} : well'[q] = well[q]
    BY <1>1, <1>2, Types
<1> HIDE DEF Unpacked, UnpackFails, threads, files, Wait, Fail
<1>5. \A q \in Calls \ {o} : SameCall(q)
    BY <1>1, <1>2, <1>3, <1>4, Types DEF SameCall
<1>6. TypeOK'
  <2>1. CallsOK' /\ RestOK' /\ FieldsOK(o)'
      BY <1>1, <1>2, <1>4 DEF TypeOK, CallsOK, RestOK, FieldsOK
  <2>2. QED
      BY <1>1, <1>3, <1>4, <1>5, <2>1, TypeAssemble
<1> USE <1>1, <1>2, <1>3, <1>4 DEF Own
<1>7. Matching(o)'
  <2>1. Fits(kind[o], "clean")
      BY DEF Matching, Fits, Waited, Kinds, Uploads, OfDirectory, TypeOK, Commands, Copies, Removals
  <2>2. QED
      BY <2>1 DEF Matching, Waited, Commands, Copies, Removals
<1>8. Awaited(o)'
    BY DEF Awaited, Waited, Commands, Copies, Removals
<1>9. AnswersOnce(o)' /\ OnTrack(o)' /\ Untouched(o)'
  <2>1. AnswersOnce(o)'
      BY DEF AnswersOnce, Copies
  <2>2. OnTrack(o)'
      BY DEF AnswersOnce, OnTrack, Running, Waited, Copies, Commands
  <2>3. Untouched(o)'
      BY DEF Untouched, Archive, Staged
  <2>4. QED
      BY <2>1, <2>2, <2>3
<1>10. StagedIsDropped(o)'
    BY DEF StagedIsDropped, Archive, Staged, Commands, Copies, Removals
<1>11. ArchiveIsCleaned(o)'
    BY DEF ArchiveIsCleaned, Archive, Staged, Commands, Copies, Removals, AnswersOnce
<1>12. Own(o)'
    BY <1>7, <1>8, <1>9, <1>10, <1>11
<1>13. QED
    BY <1>5, <1>6, <1>12, OwnAssemble

LEMMA CleanedOwn ==
    ASSUME IInv, NEW o \in Calls, Cleaned(o)
    PROVE  Stepped(o)
<1> USE DEF Cleaned, threads, files, Wait
<1>1. TypeOK /\ Own(o)
    BY DEF IInv
<1>2. /\ caller[o] = "clean" /\ process[o]["clean"] \in {"done", "failed"}
      /\ caller' = [caller EXCEPT ![o] = "over"]
      /\ Quit(o, "clean")
      /\ \/ excused' = excused \cup {Archive(o)}
         \/ excused' = excused /\ process[o]["clean"] = "done"
    OBVIOUS
<1>3. /\ ProcessOK'
      /\ process'[o]["clean"] # "none" => process'[o]["clean"] = process[o]["clean"]
      /\ process'[o]["clean"] \in {"none", "first", "second"}
      /\ \A e \in Commands \ {"clean"} : process'[o][e] = process[o][e]
      /\ \A q \in Calls \ {o} : process'[q] = process[q]
    BY <1>1, <1>2, Types, ProcessQuit DEF Commands, Copies, Removals
<1>4. /\ UNCHANGED <<docker, up, kind, well, thread, answer, linked, content, crossed>>
      /\ caller'[o] = "over"
      /\ excused \subseteq excused' /\ excused' \subseteq Files
    BY <1>1, <1>2, Types, Distinct DEF TypeOK, FilesOf
<1> HIDE DEF Cleaned, threads, files, Wait
<1>5. \A q \in Calls \ {o} : SameCall(q)
    BY <1>1, <1>2, <1>3, <1>4, Types, Distinct DEF SameCall, FilesOf
<1>6. TypeOK'
  <2>1. CallsOK' /\ RestOK' /\ FieldsOK(o)'
      BY <1>1, <1>2, <1>4 DEF TypeOK, CallsOK, RestOK, FieldsOK
  <2>2. QED
      BY <1>1, <1>3, <1>4, <1>5, <2>1, TypeAssemble
<1> USE <1>1, <1>2, <1>3, <1>4 DEF Own
<1>7. Matching(o)'
    BY DEF Matching, Waited, Commands, Copies, Removals
<1>8. Awaited(o)'
    BY DEF Awaited, Waited, Commands, Copies, Removals
<1>9. AnswersOnce(o)' /\ OnTrack(o)' /\ Untouched(o)'
  <2>1. AnswersOnce(o)'
      BY DEF AnswersOnce, Copies
  <2>2. OnTrack(o)'
      BY DEF AnswersOnce, OnTrack, Running, Waited, Copies, Commands
  <2>3. Untouched(o)'
      BY DEF Untouched, Archive, Staged
  <2>4. QED
      BY <2>1, <2>2, <2>3
<1>10. StagedIsDropped(o)'
    BY DEF StagedIsDropped, Archive, Staged, Commands, Copies, Removals
<1>11. ArchiveIsCleaned(o)'
    BY DEF ArchiveIsCleaned, Archive, Staged, Commands, Copies, Removals, AnswersOnce
<1>12. Own(o)'
    BY <1>7, <1>8, <1>9, <1>10, <1>11
<1>13. QED
    BY <1>5, <1>6, <1>12, OwnAssemble

LEMMA GiveUpOwn ==
    ASSUME IInv, NEW o \in Calls, GiveUp(o)
    PROVE  Stepped(o)
<1> USE DEF GiveUp, threads, files, Wait, Fail
<1>1. TypeOK /\ Own(o)
    BY DEF IInv
<1>2. /\ caller[o] \notin {"idle", "over"}
      /\ caller' = [caller EXCEPT ![o] = "over"]
      /\ well' = [well EXCEPT ![o] = FALSE]
      /\ excused' = excused \cup {Archive(o)}
    OBVIOUS
<1>3. /\ ProcessOK'
      /\ \A e \in Commands :
            /\ process'[o][e] # "none" => process'[o][e] = process[o][e]
            /\ caller[o] # e => process'[o][e] = process[o][e]
            /\ caller[o] = e => process'[o][e] \notin {"done", "failed"}
      /\ \A q \in Calls \ {o} : process'[q] = process[q]
    BY <1>1, Types DEF ProcessOK, ProcessStates, Forget
<1>4. /\ UNCHANGED <<docker, up, kind, thread, answer, linked, content, crossed>>
      /\ caller'[o] = "over" /\ well'[o] = FALSE
      /\ caller[o] \in {"request", "pack", "unpack", "clean"}
      /\ excused' \subseteq Files
    BY <1>1, <1>2, Types, Distinct DEF TypeOK, FilesOf
<1> HIDE DEF GiveUp, threads, files, Wait, Fail
<1>5. \A q \in Calls \ {o} : SameCall(q)
    BY <1>1, <1>2, <1>3, <1>4, Types, Distinct DEF SameCall, FilesOf
<1>6. TypeOK'
  <2>1. CallsOK' /\ RestOK' /\ FieldsOK(o)'
      BY <1>1, <1>2, <1>4 DEF TypeOK, CallsOK, RestOK, FieldsOK
  <2>2. QED
      BY <1>1, <1>3, <1>4, <1>5, <2>1, TypeAssemble
<1> USE <1>1, <1>2, <1>3, <1>4 DEF Own
<1>7. Matching(o)'
    BY DEF Matching, Waited, Commands, Copies, Removals
<1>8. Awaited(o)'
    BY DEF Awaited, Waited, Commands, Copies, Removals
<1>9. AnswersOnce(o)' /\ OnTrack(o)' /\ Untouched(o)'
  <2>1. AnswersOnce(o)'
      BY DEF AnswersOnce, Copies
  <2>2. OnTrack(o)'
      BY DEF AnswersOnce, OnTrack, Running, Waited, Copies, Commands
  <2>3. Untouched(o)'
      BY DEF Untouched, Archive, Staged
  <2>4. QED
      BY <2>1, <2>2, <2>3
<1>10. StagedIsDropped(o)'
    BY DEF StagedIsDropped, Archive, Staged, Commands, Copies, Removals
<1>11. ArchiveIsCleaned(o)'
    BY DEF ArchiveIsCleaned, Archive, Staged, Commands, Copies, Removals, AnswersOnce
<1>12. Own(o)'
    BY <1>7, <1>8, <1>9, <1>10, <1>11
<1>13. QED
    BY <1>5, <1>6, <1>12, OwnAssemble

\* A call that has not begun has nothing at work.
LEMMA IdleIsQuiet ==
    ASSUME TypeOK, NEW o \in Calls, Own(o), caller[o] = "idle"
    PROVE  /\ kind[o] = "none" /\ thread[o] = "none" /\ answer[o] = "none"
           /\ \A c \in Commands : process[o][c] = "none"
           /\ Archive(o) \notin linked /\ Staged(o) \notin linked
<1>1. kind[o] = "none"
    BY DEF TypeOK
<1>2. ~(kind[o] \in Kinds)
    BY <1>1 DEF Kinds, Uploads
<1>3. \A c \in Commands : process[o][c] = "none"
    BY <1>2 DEF Own, Matching, Fits
<1>4. QED
    BY <1>1, <1>3 DEF Own, AnswersOnce, Untouched

LEMMA BeginOwn ==
    ASSUME IInv, NEW o \in Calls, NEW k \in Kinds, Begin(o, k)
    PROVE  Stepped(o)
<1>1. TypeOK /\ Own(o)
    BY DEF IInv
<1>2. /\ caller[o] = "idle"
      /\ kind' = [kind EXCEPT ![o] = k]
      /\ content' = [content EXCEPT ![Local(o)] =
                       [p \in Parts |-> IF k \in Uploads THEN o ELSE Nothing]]
      /\ UNCHANGED <<docker, up, well, answer, linked, excused>>
      /\ crossed' \subseteq Calls
    BY <1>1 DEF Begin, TypeOK
<1>3. /\ kind[o] = "none" /\ thread[o] = "none" /\ answer[o] = "none"
      /\ \A e \in Commands : process[o][e] = "none"
      /\ Archive(o) \notin linked /\ Staged(o) \notin linked
      /\ kind'[o] = k
    BY <1>1, <1>2, IdleIsQuiet, Types
<1>4. PICK c \in {"stage", "put", "copy", "fetch", "pack"} :
          /\ c = "pack" <=> k = "download dir"
          /\ c \in {"stage", "copy"} => docker
          /\ c = "put" => ~docker
          /\ c \in {"stage", "put"} => k \in Uploads
          /\ c \in {"copy", "fetch"} => k \notin Uploads
          /\ caller' = [caller EXCEPT ![o] = IF c = "pack" THEN "pack" ELSE "request"]
          /\ thread' = [thread EXCEPT ![o] = IF c = "pack" THEN "none" ELSE c]
          /\ Start(o, c)
  <2>1. CASE k = "download dir"
    <3>1. /\ caller' = [caller EXCEPT ![o] = "pack"]
          /\ thread' = [thread EXCEPT ![o] = "none"]
          /\ Start(o, "pack")
      <4>1. caller' = [caller EXCEPT ![o] = "pack"] /\ Start(o, "pack") /\ thread' = thread
          BY <2>1 DEF Begin, Wait
      <4>2. thread = [thread EXCEPT ![o] = "none"]
          BY <1>1, <1>3, Types
      <4>3. QED
          BY <4>1, <4>2
    <3>2. QED
        BY <2>1, <3>1 DEF Uploads
  <2>2. CASE k # "download dir"
    <3> DEFINE c == FirstCommand(o)
    <3>1. /\ caller' = [caller EXCEPT ![o] = "request"]
          /\ thread' = [thread EXCEPT ![o] = c]
          /\ Start(o, c)
        BY <2>2 DEF Begin, Wait, Request, Await
    <3>2. c = IF k \in Uploads THEN (IF docker THEN "stage" ELSE "put")
                               ELSE (IF docker THEN "copy" ELSE "fetch")
        BY <1>3 DEF FirstCommand
    <3> HIDE DEF c
    <3>3. QED
        BY <2>2, <3>1, <3>2
  <2>3. QED
      BY <2>1, <2>2
<1>5. /\ ProcessOK' /\ process'[o][c] = "first"
      /\ \A e \in Commands \ {c} : process'[o][e] = "none"
      /\ \A q \in Calls \ {o} : process'[q] = process[q]
  <2>1. c \in Commands /\ Start(o, c)
      BY <1>4 DEF Commands, Copies
  <2>2. /\ ProcessOK' /\ process'[o][c] = "first"
        /\ \A e \in Commands \ {c} : process'[o][e] = process[o][e]
        /\ \A q \in Calls \ {o} : process'[q] = process[q]
      BY <1>1, <2>1, Types, ProcessStart
  <2>3. QED
      BY <1>3, <2>2
<1>6. /\ caller'[o] = (IF c = "pack" THEN "pack" ELSE "request")
      /\ thread'[o] = (IF c = "pack" THEN "none" ELSE c)
      /\ answer'[o] = "none"
    BY <1>1, <1>2, <1>3, <1>4, Types
<1>7. \A q \in Calls \ {o} : SameCall(q)
    BY <1>1, <1>2, <1>4, <1>5, Types DEF SameCall
<1>8. TypeOK'
  <2>1. CallsOK'
      BY <1>1, <1>2, <1>4, Types DEF CallsOK
  <2>2. content' \in [Files -> [Parts -> Calls \cup {Nothing}]]
      BY <1>1, <1>2 DEF TypeOK
  <2>3. RestOK'
      BY <1>1, <1>2, <2>2 DEF TypeOK, RestOK
  <2>4. FieldsOK(o)'
    <3>1. kind'[o] # "none" /\ caller'[o] # "idle"
        BY <1>3, <1>6 DEF Kinds, Uploads
    <3>2. docker' = docker
        BY <1>2
    <3>3. QED
        BY <1>4, <1>6, <3>1, <3>2 DEF FieldsOK
  <2>5. QED
      BY <1>1, <1>2, <1>5, <1>7, <2>1, <2>3, <2>4, TypeAssemble
<1> USE <1>3, <1>5, <1>6
<1>9. Matching(o)'
  <2>1. Fits(k, c)
      BY <1>4 DEF Fits
  <2>2. docker' = docker /\ c # "move"
      BY <1>2
  <2>3. \A e \in Commands \ {c} : process'[o][e] = "none" /\ ~Waited(o, e)'
      BY DEF Waited, Commands, Copies, Removals
  <2>4. c \in {"stage", "copy", "move"} => docker'
      BY <1>4, <2>2
  <2>5. QED
      BY <2>1, <2>3, <2>4 DEF Matching
<1>10. Awaited(o)'
    BY DEF Awaited
<1>11. AnswersOnce(o)'
    BY DEF AnswersOnce
<1>12. OnTrack(o)'
    BY DEF OnTrack, Running, Waited, Commands
<1>13. Untouched(o)'
    BY DEF Untouched
<1>14. StagedIsDropped(o)'
    BY <1>2 DEF StagedIsDropped, Staged, Commands, Copies, Removals
<1>15. ArchiveIsCleaned(o)'
    BY <1>2, <1>4 DEF ArchiveIsCleaned, Archive, Commands, Copies, Removals
<1>16. Own(o)'
    BY <1>9, <1>10, <1>11, <1>12, <1>13, <1>14, <1>15 DEF Own
<1>17. QED
    BY <1>7, <1>8, <1>16, OwnAssemble

LEMMA CopyFirstOwn ==
    ASSUME IInv, NEW o \in Calls, NEW c \in Copies, Command(o, c), CopyFirst(o, c)
    PROVE  Stepped(o)
<1>1. TypeOK /\ Own(o)
    BY DEF IInv
<1>2. /\ UNCHANGED <<docker, up, kind, caller, well, thread, answer, crossed, excused>>
    BY DEF Command, calls, threads
<1>3. /\ ProcessOK' /\ process[o][c] = "first" /\ process'[o][c] = "second"
      /\ \A e \in Commands \ {c} : process'[o][e] = process[o][e]
      /\ \A q \in Calls \ {o} : process'[q] = process[q]
      /\ c \in Commands
  <2>1. process[o][c] = "first" /\ process' = [process EXCEPT ![o][c] = "second"]
      BY DEF CopyFirst
  <2>2. ProcessOK /\ c \in Commands /\ "second" \in ProcessStates
      BY <1>1, Types DEF Commands, ProcessStates
  <2>3. /\ ProcessOK'
        /\ \A q \in Calls, d \in Commands :
              process'[q][d] = IF q = o /\ d = c THEN "second" ELSE process[q][d]
        /\ \A q \in Calls \ {o} : process'[q] = process[q]
      BY <2>1, <2>2, ProcessSet
  <2>4. QED
      BY <2>1, <2>2, <2>3
<1>4. /\ linked' = linked \cup {Destination(o, c)}
      /\ Destination(o, c) \in FilesOf(o)
      /\ linked' \subseteq Files
      /\ content' \in [Files -> [Parts -> Calls \cup {Nothing}]]
  <2>1. Source(o, c) \in Files /\ Destination(o, c) \in Files
      BY Ends
  <2>2. content \in [Files -> [Parts -> Calls \cup {Nothing}]] /\ linked \subseteq Files
      BY <1>1 DEF TypeOK
  <2>3. QED
      BY <2>1, <2>2, Ends DEF CopyFirst, Parts
<1>5. \A q \in Calls \ {o} : SameCall(q)
  <2>1. ASSUME NEW q \in Calls \ {o}
        PROVE  \A f \in {Archive(q), Staged(q)} : f \in linked' => f \in linked
    <3>1. Archive(q) \notin FilesOf(o) /\ Staged(q) \notin FilesOf(o)
        BY Distinct DEF FilesOf
    <3>2. QED
        BY <1>4, <3>1
  <2>2. QED
      BY <1>2, <1>3, <2>1 DEF SameCall, Archive, Staged
<1>6. TypeOK'
  <2>1. CallsOK' /\ RestOK' /\ FieldsOK(o)'
      BY <1>1, <1>2, <1>4, Types DEF TypeOK, CallsOK, RestOK, FieldsOK
  <2>2. QED
      BY <1>1, <1>2, <1>3, <1>5, <2>1, TypeAssemble
<1> USE <1>1, <1>2, <1>3, <1>4 DEF Own
<1>7. Matching(o)'
    BY DEF Matching, Waited, Running
<1>8. Awaited(o)'
    BY DEF Awaited, Waited
<1>9. AnswersOnce(o)' /\ OnTrack(o)'
  <2>1. AnswersOnce(o)'
      BY DEF AnswersOnce
  <2>2. OnTrack(o)'
      BY DEF OnTrack, Running, Waited, Commands
  <2>3. QED
      BY <2>1, <2>2
<1>10. Untouched(o)'
  <2>1. caller[o] # "idle"
      BY IdleIsQuiet
  <2>2. QED
      BY <2>1 DEF Untouched
<1>11. StagedIsDropped(o)'
  <2>1. Staged(o) \in linked' => Staged(o) \in linked \/ c \in {"stage", "copy"}
    <3>1. Destination(o, c) = Staged(o) => c \in {"stage", "copy"}
        BY Distinct, Destinations DEF Subject, Copies
    <3>2. QED
        BY <3>1
  <2>2. c \in {"stage", "copy"} => docker
      BY DEF Matching
  <2>3. process'[o]["drop"] = process[o]["drop"]
      BY DEF Commands, Copies, Removals
  <2>4. \A e \in {"stage", "copy"} :
           process'[o][e] = "first" => process[o][e] = "first"
      BY DEF Commands, Copies, Removals
  <2>5. QED
      BY <2>1, <2>2, <2>3, <2>4 DEF StagedIsDropped, Staged
<1>12. ArchiveIsCleaned(o)'
  <2>1. Archive(o) \in linked' =>
           \/ Archive(o) \in linked
           \/ c = "pack"
           \/ c \in {"put", "move"} /\ kind[o] \in OfDirectory
    <3>1. c \in {"stage", "copy", "fetch", "unpack"} => Destination(o, c) # Archive(o)
        BY Distinct, Destinations
    <3>2. kind[o] \notin OfDirectory => Subject(o) # Archive(o)
        BY Distinct DEF Subject
    <3>3. c \in {"put", "move"} => Destination(o, c) = Subject(o)
        BY Destinations
    <3>4. Destination(o, c) = Archive(o) =>
             c = "pack" \/ (c \in {"put", "move"} /\ kind[o] \in OfDirectory)
        BY <3>1, <3>2, <3>3 DEF Copies
    <3>5. QED
        BY <3>4
  <2>2. Fits(kind[o], c)
      BY DEF Matching
  <2>3. /\ c = "pack" => kind[o] = "download dir"
        /\ c \in {"put", "move"} /\ kind[o] \in OfDirectory => kind[o] = "upload dir"
      BY <2>2 DEF Fits, OfDirectory, Uploads
  <2>4. process'[o]["clean"] = process[o]["clean"]
      BY DEF Commands, Copies, Removals
  <2>5. \A e \in {"pack", "put", "move"} :
           process'[o][e] = "first" => process[o][e] = "first"
      BY DEF Commands, Copies, Removals
  <2>6. QED
      BY <2>1, <2>3, <2>4, <2>5 DEF ArchiveIsCleaned, Archive, OfDirectory
<1>13. Own(o)'
    BY <1>7, <1>8, <1>9, <1>10, <1>11, <1>12
<1>14. QED
    BY <1>5, <1>6, <1>13, OwnAssemble

LEMMA CopySecondOwn ==
    ASSUME IInv, NEW o \in Calls, NEW c \in Copies, Command(o, c), CopySecond(o, c)
    PROVE  Stepped(o)
<1>1. TypeOK /\ Own(o)
    BY DEF IInv
<1>2. /\ UNCHANGED <<docker, up, kind, caller, well, thread, answer, crossed, excused>>
    BY DEF Command, calls, threads
<1>3. /\ ProcessOK' /\ process[o][c] = "second"
      /\ process'[o][c] = IF Waited(o, c) THEN "done" ELSE "none"
      /\ \A e \in Commands \ {c} : process'[o][e] = process[o][e]
      /\ \A q \in Calls \ {o} : process'[q] = process[q]
      /\ c \in Commands
    BY <1>1, Types, ProcessEnd DEF CopySecond, Commands
<1>4. /\ linked' = linked
      /\ linked' \subseteq Files
      /\ content' \in [Files -> [Parts -> Calls \cup {Nothing}]]
  <2>1. Source(o, c) \in Files /\ Destination(o, c) \in Files
      BY Ends
  <2>2. content \in [Files -> [Parts -> Calls \cup {Nothing}]] /\ linked \subseteq Files
      BY <1>1 DEF TypeOK
  <2>3. QED
      BY <2>1, <2>2 DEF CopySecond, Parts
<1>5. \A q \in Calls \ {o} : SameCall(q)
    BY <1>2, <1>3, <1>4, Distinct DEF SameCall, FilesOf
<1>6. TypeOK'
  <2>1. CallsOK' /\ RestOK' /\ FieldsOK(o)'
      BY <1>1, <1>2, <1>4, Types DEF TypeOK, CallsOK, RestOK, FieldsOK
  <2>2. QED
      BY <1>1, <1>2, <1>3, <1>5, <2>1, TypeAssemble
<1> USE <1>1, <1>2, <1>3, <1>4 DEF Own
<1>7. Matching(o)'
    BY DEF Matching, Waited, Running
<1>8. Awaited(o)'
    BY DEF Awaited, Waited
<1>9. AnswersOnce(o)' /\ OnTrack(o)'
  <2>1. AnswersOnce(o)'
      BY DEF AnswersOnce
  <2>2. OnTrack(o)'
      BY DEF OnTrack, Running, Waited, Commands
  <2>3. QED
      BY <2>1, <2>2
<1>10. Untouched(o)'
    BY DEF Untouched, Archive, Staged
<1>11. StagedIsDropped(o)'
    BY DEF StagedIsDropped, Staged, Commands, Copies, Removals
<1>12. ArchiveIsCleaned(o)'
    BY DEF ArchiveIsCleaned, Archive, Commands, Copies, Removals
<1>13. Own(o)'
    BY <1>7, <1>8, <1>9, <1>10, <1>11, <1>12
<1>14. QED
    BY <1>5, <1>6, <1>13, OwnAssemble

LEMMA RemoveOwn ==
    ASSUME IInv, NEW o \in Calls, NEW c \in Removals, Command(o, c), Remove(o, c)
    PROVE  Stepped(o)
<1>1. TypeOK /\ Own(o)
    BY DEF IInv
<1>2. /\ UNCHANGED <<docker, up, kind, caller, well, thread, answer, crossed, excused>>
    BY DEF Command, calls, threads
<1>3. /\ ProcessOK' /\ process[o][c] = "first"
      /\ process'[o][c] = IF Waited(o, c) THEN "done" ELSE "none"
      /\ \A e \in Commands \ {c} : process'[o][e] = process[o][e]
      /\ \A q \in Calls \ {o} : process'[q] = process[q]
      /\ c \in Commands
    BY <1>1, Types, ProcessEnd DEF Remove, Commands
<1>4. /\ linked' \subseteq linked
      /\ c = "drop" => Staged(o) \notin linked'
      /\ c = "clean" => Archive(o) \notin linked'
      /\ linked' \subseteq Files
      /\ content' = content
    BY <1>1 DEF Remove, Rubbish, Removals, TypeOK
<1>5. \A q \in Calls \ {o} : SameCall(q)
    BY <1>2, <1>3, <1>4, Distinct DEF SameCall, FilesOf
<1>6. TypeOK'
  <2>1. CallsOK' /\ RestOK' /\ FieldsOK(o)'
      BY <1>1, <1>2, <1>4, Types DEF TypeOK, CallsOK, RestOK, FieldsOK
  <2>2. QED
      BY <1>1, <1>2, <1>3, <1>5, <2>1, TypeAssemble
<1> USE <1>1, <1>2, <1>3, <1>4 DEF Own
<1>7. Matching(o)'
    BY DEF Matching, Waited, Running
<1>8. Awaited(o)'
    BY DEF Awaited, Waited
<1>9. AnswersOnce(o)' /\ OnTrack(o)'
  <2>1. AnswersOnce(o)'
      BY DEF AnswersOnce
  <2>2. OnTrack(o)'
      BY DEF OnTrack, Running, Waited, Commands
  <2>3. QED
      BY <2>1, <2>2
<1>10. Untouched(o)'
    BY DEF Untouched, Archive, Staged
<1>11. StagedIsDropped(o)'
    BY DEF StagedIsDropped, Staged, Commands, Copies, Removals
<1>12. ArchiveIsCleaned(o)'
    BY DEF ArchiveIsCleaned, Archive, Commands, Copies, Removals
<1>13. Own(o)'
    BY <1>7, <1>8, <1>9, <1>10, <1>11, <1>12
<1>14. QED
    BY <1>5, <1>6, <1>13, OwnAssemble

LEMMA BreakOwn ==
    ASSUME IInv, NEW o \in Calls, NEW c \in Commands, Command(o, c), Break(o, c)
    PROVE  Stepped(o)
<1>1. TypeOK /\ Own(o)
    BY DEF IInv
<1>2. /\ UNCHANGED <<docker, up, kind, caller, well, thread, answer, crossed, excused>>
    BY DEF Command, calls, threads
<1>3. /\ ProcessOK' /\ Running(o, c)
      /\ process'[o][c] = IF Waited(o, c) THEN "failed" ELSE "none"
      /\ \A e \in Commands \ {c} : process'[o][e] = process[o][e]
      /\ \A q \in Calls \ {o} : process'[q] = process[q]
    BY <1>1, Types, ProcessEnd DEF Break
<1>4. /\ linked' = linked /\ content' = content
    BY DEF Break, files
<1>5. \A q \in Calls \ {o} : SameCall(q)
    BY <1>2, <1>3, <1>4, Distinct DEF SameCall, FilesOf
<1>6. TypeOK'
  <2>1. CallsOK' /\ RestOK' /\ FieldsOK(o)'
      BY <1>1, <1>2, <1>4, Types DEF TypeOK, CallsOK, RestOK, FieldsOK
  <2>2. QED
      BY <1>1, <1>2, <1>3, <1>5, <2>1, TypeAssemble
<1> USE <1>1, <1>2, <1>3, <1>4 DEF Own
<1>7. Matching(o)'
    BY DEF Matching, Waited, Running
<1>8. Awaited(o)'
    BY DEF Awaited, Waited
<1>9. AnswersOnce(o)' /\ OnTrack(o)'
  <2>1. AnswersOnce(o)'
      BY DEF AnswersOnce
  <2>2. OnTrack(o)'
      BY DEF OnTrack, Running, Waited, Commands
  <2>3. QED
      BY <2>1, <2>2
<1>10. Untouched(o)'
    BY DEF Untouched, Archive, Staged
<1>11. StagedIsDropped(o)'
    BY DEF StagedIsDropped, Staged, Commands, Copies, Removals
<1>12. ArchiveIsCleaned(o)'
    BY DEF ArchiveIsCleaned, Archive, Commands, Copies, Removals
<1>13. Own(o)'
    BY <1>7, <1>8, <1>9, <1>10, <1>11, <1>12
<1>14. QED
    BY <1>5, <1>6, <1>13, OwnAssemble

LEMMA DeleteOwn ==
    ASSUME IInv, Delete
    PROVE  TypeOK' /\ \A q \in Calls : Own(q)'
<1>1. /\ UNCHANGED <<docker, kind, caller, well, thread, answer>>
      /\ UNCHANGED <<process, content, crossed, excused>>
      /\ up' = FALSE /\ linked' \subseteq linked
    BY DEF Delete, calls, threads
<1>2. TypeOK'
    BY <1>1 DEF IInv, TypeOK
<1>3. \A q \in Calls : SameCall(q)
    BY <1>1 DEF SameCall
<1>4. QED
    BY <1>2, <1>3, OthersOwn DEF IInv

LEMMA BrokerDiesOwn ==
    ASSUME IInv, BrokerDies
    PROVE  TypeOK' /\ \A q \in Calls : Own(q)'
<1>1. TypeOK
    BY DEF IInv
<1>2. /\ UNCHANGED <<docker, up, kind, caller, well, linked, content, crossed>>
      /\ thread' = [o \in Calls |-> "none"]
      /\ answer' = [o \in Calls |-> IF thread[o] = "none" THEN answer[o] ELSE "error"]
      /\ process' = [o \in Calls |-> [c \in Commands |->
                        IF thread[o] = c THEN Forget(process[o][c]) ELSE process[o][c]]]
      /\ excused' = excused \cup {Staged(o) : o \in {q \in Calls : thread[q] # "none"}}
    BY DEF BrokerDies, calls, files
<1>3. /\ ProcessOK'
      /\ \A o \in Calls, c \in Commands :
            /\ process'[o][c] # "none" => process'[o][c] = process[o][c]
            /\ thread[o] # c => process'[o][c] = process[o][c]
            /\ thread[o] = c => process'[o][c] \notin {"done", "failed"}
    BY <1>1, <1>2, Types DEF ProcessOK, ProcessStates, Forget
<1>4. TypeOK'
  <2>1. answer' \in [Calls -> {"none", "ok", "error"}]
      BY <1>1, <1>2, Types
  <2>2. excused' \subseteq Files
      BY <1>1, <1>2, Distinct DEF TypeOK, FilesOf
  <2>3. QED
      BY <1>1, <1>2, <1>3, <2>1, <2>2 DEF TypeOK, ProcessOK, ProcessStates
<1>5. ASSUME NEW o \in Calls PROVE Own(o)'
  <2>1. Own(o)
      BY DEF IInv
  <2>2. /\ thread'[o] = "none"
        /\ thread[o] = "none" => answer'[o] = answer[o]
        /\ thread[o] # "none" => answer'[o] = "error" /\ Staged(o) \in excused'
        /\ excused \subseteq excused'
        /\ UNCHANGED <<docker, kind, caller, well, linked>>
      BY <1>2
  <2> USE <1>3, <2>1, <2>2 DEF Own
  <2>3. Matching(o)'
      BY DEF Matching, Waited, Commands, Copies, Removals
  <2>4. Awaited(o)'
      BY DEF Awaited, Waited, Commands, Copies, Removals
  <2>5. AnswersOnce(o)'
      BY DEF AnswersOnce, Copies
  <2>6. OnTrack(o)'
      BY DEF OnTrack, Running, Waited, Commands
  <2>7. Untouched(o)'
      BY DEF Untouched, Archive, Staged
  <2>8. StagedIsDropped(o)'
      BY DEF StagedIsDropped, Staged, Commands, Copies, Removals
  <2>9. ArchiveIsCleaned(o)'
    <3>1. \A c \in {"put", "move", "pack"} :
             process'[o][c] = "first" => process[o][c] = "first"
        BY DEF Commands, Copies, Removals
    <3>2. process'[o]["clean"] = "done" => process[o]["clean"] = "done"
        BY DEF Commands, Copies, Removals
    <3>3. QED
        BY <3>1, <3>2 DEF ArchiveIsCleaned, Archive, Commands, Copies
  <2>10. QED
      BY <2>3, <2>4, <2>5, <2>6, <2>7, <2>8, <2>9
<1>6. QED
    BY <1>4, <1>5

\* A step of a call is one of a command, its thread or its caller.
CallStep(o) == (\E c \in Commands : Command(o, c)) \/ Thread(o) \/ Caller(o)

LEMMA CallStepOwn ==
    ASSUME IInv, NEW o \in Calls, CallStep(o)
    PROVE  Stepped(o)
<1>1. ASSUME NEW c \in Commands, Command(o, c)
      PROVE  Stepped(o)
  <2>1. CASE c \in Copies /\ CopyFirst(o, c)
      BY <1>1, <2>1, CopyFirstOwn
  <2>2. CASE c \in Copies /\ CopySecond(o, c)
      BY <1>1, <2>2, CopySecondOwn
  <2>3. CASE c \in Removals /\ Remove(o, c)
      BY <1>1, <2>3, RemoveOwn
  <2>4. CASE Break(o, c)
      BY <1>1, <2>4, BreakOwn
  <2>5. QED
      BY <1>1, <2>1, <2>2, <2>3, <2>4 DEF Command
<1>2. CASE Thread(o)
    BY <1>2, PreparedOwn, PrepareFailsOwn, LandedOwn, DroppedOwn DEF Thread
<1>3. CASE Caller(o)
    BY <1>3, BeginOwn, PackedOwn, PackFailsOwn, RequestedOwn, RequestFailsOwn,
       UnpackEndsOwn, CleanedOwn, GiveUpOwn DEF Caller
<1>4. QED
    BY <1>1, <1>2, <1>3 DEF CallStep

LEMMA NextIs ==
    Next <=> (\E o \in Calls : CallStep(o)) \/ Delete \/ BrokerDies
  BY DEF Next, CallStep

LEMMA OwnStep == IInv /\ [Next]_vars => TypeOK' /\ \A q \in Calls : Own(q)'
<1> SUFFICES ASSUME IInv, [Next]_vars PROVE TypeOK' /\ \A q \in Calls : Own(q)'
    OBVIOUS
<1>1. CASE UNCHANGED vars
  <2>1. /\ UNCHANGED <<docker, up, kind, caller, well, thread, answer>>
        /\ UNCHANGED <<process, linked, content, crossed, excused>>
      BY <1>1 DEF vars, calls, threads, files
  <2>2. TypeOK'
      BY <2>1 DEF IInv, TypeOK
  <2>3. \A q \in Calls : SameCall(q)
      BY <2>1 DEF SameCall
  <2>4. QED
      BY <2>2, <2>3, OthersOwn DEF IInv
<1>2. QED
    BY <1>1, CallStepOwn, DeleteOwn, BrokerDiesOwn, NextIs DEF Stepped

-----------------------------------------------------------------------------
(* Uploads that are over *)

\* Only a call at work, or one that begins, takes a step.
LEMMA OnlyActive ==
    ASSUME IInv, NEW o \in Calls, CallStep(o)
    PROVE  Active(o) \/ caller[o] = "idle"
<1>1. ASSUME NEW c \in Commands, Command(o, c)
      PROVE  Active(o)
    BY <1>1 DEF Command, CopyFirst, CopySecond, Remove, Break, Running, Active
<1>2. ASSUME Thread(o)
      PROVE  Active(o)
    BY <1>2 DEF Thread, Prepared, PrepareFails, Landed, Dropped, DropFails, Active
<1>3. ASSUME Caller(o)
      PROVE  Active(o) \/ caller[o] = "idle"
    BY <1>3 DEF Caller, Begin, Packed, PackFails, Requested, RequestFails, Unpacked,
           UnpackFails, Cleaned, GiveUp, Active
<1>4. QED
    BY <1>1, <1>2, <1>3 DEF CallStep

LEMMA SameActive ==
    ASSUME NEW q \in Calls, SameCall(q)
    PROVE  Active(q)' <=> Active(q)
  BY DEF SameCall, Active, Running

\* What is over stays over: a call that begins is not an upload yet.
LEMMA OverStaysOver ==
    ASSUME IInv, [Next]_vars, NEW q \in Calls, kind[q] \in Uploads, ~Active(q)
    PROVE  kind'[q] = kind[q] /\ caller'[q] = caller[q] /\ ~Active(q)'
<1>1. caller[q] # "idle"
    BY DEF IInv, TypeOK, Uploads
<1>2. ASSUME NEW o \in Calls, CallStep(o)
      PROVE  SameCall(q)
  <2>1. o # q
      BY <1>1, <1>2, OnlyActive
  <2>2. QED
      BY <1>2, <2>1, CallStepOwn DEF Stepped
<1>3. CASE Delete \/ UNCHANGED vars
  <2>1. UNCHANGED <<docker, kind, caller, well, thread, answer, process>>
      BY <1>3 DEF Delete, vars, calls, threads
  <2>2. QED
      BY <2>1 DEF Active, Running
<1>4. CASE BrokerDies
  <2>1. /\ UNCHANGED <<kind, caller>>
        /\ thread'[q] = "none"
        /\ \A c \in Commands : process'[q][c] =
              IF thread[q] = c THEN Forget(process[q][c]) ELSE process[q][c]
      BY <1>4 DEF BrokerDies, calls
  <2>2. \A c \in Commands : ~Running(q, c)'
    <3>1. \A c \in Commands : process[q][c] \notin {"first", "second"}
        BY DEF Active, Running
    <3>2. QED
        BY <2>1, <3>1 DEF Forget, Running
  <2>3. QED
      BY <2>1, <2>2 DEF Active
<1>5. QED
    BY <1>2, <1>3, <1>4, SameActive, NextIs DEF SameCall

LEMMA AloneStep ==
    ASSUME IInv, [Next]_vars, NEW o \in Calls
    PROVE  Alone(o)'
<1> SUFFICES ASSUME caller'[o] # "idle", o \notin crossed',
                    NEW q \in Calls, q # o, kind'[q] \in Uploads
             PROVE  ~Active(q)'
    BY DEF Alone
<1>1. ASSUME ~\E p \in Calls, k \in Kinds : Begin(p, k)
      PROVE  /\ UNCHANGED <<kind, crossed>>
             /\ caller[o] = "idle" => caller'[o] = "idle"
  <2>1. ASSUME NEW p \in Calls, NEW c \in Commands, Command(p, c)
        PROVE  UNCHANGED <<kind, crossed, caller>>
      BY <2>1 DEF Command, calls
  <2>2. ASSUME NEW p \in Calls, Thread(p)
        PROVE  UNCHANGED <<kind, crossed, caller>>
      BY <2>2 DEF Thread, Prepared, PrepareFails, Landed, Dropped, DropFails, calls
  <2>3. ASSUME NEW p \in Calls, Caller(p)
        PROVE  /\ UNCHANGED <<kind, crossed>>
               /\ caller[o] = "idle" => caller'[o] = "idle"
    <3>1. UNCHANGED <<kind, crossed>>
        BY <1>1, <2>3 DEF Caller, Packed, PackFails, Requested, RequestFails, Unpacked,
               UnpackFails, Cleaned, GiveUp
    <3>2. CASE p = o
        BY <1>1, <2>3, <3>2 DEF Caller, Packed, PackFails, Requested, RequestFails,
           Unpacked, UnpackFails, Cleaned, GiveUp
    <3>3. CASE p # o
      <4>1. SameCall(o)
          BY <2>3, <3>3, CallStepOwn DEF Stepped, CallStep
      <4>2. QED
          BY <3>1, <4>1 DEF SameCall
    <3>4. QED
        BY <3>1, <3>2, <3>3
  <2>4. CASE Delete \/ BrokerDies \/ UNCHANGED vars
      BY <2>4 DEF Delete, BrokerDies, vars, calls
  <2>5. QED
      BY <2>1, <2>2, <2>3, <2>4 DEF Next
<1>2. ASSUME ~\E p \in Calls, k \in Kinds : Begin(p, k)
      PROVE  ~Active(q)'
  <2>1. kind[q] \in Uploads /\ caller[o] # "idle" /\ o \notin crossed
      BY <1>1, <1>2
  <2>2. ~Active(q)
      BY <2>1 DEF IInv, Alone
  <2>3. QED
      BY <2>1, <2>2, OverStaysOver
<1>3. ASSUME NEW p \in Calls, NEW k \in Kinds, Begin(p, k)
      PROVE  ~Active(q)'
  <2>1. /\ kind' = [kind EXCEPT ![p] = k] /\ caller[p] = "idle"
        /\ crossed' = crossed \cup {r \in Calls :
                         \/ k \in Uploads /\ caller[r] # "idle"
                         \/ r = p /\ Overlaps(p)}
      BY <1>3 DEF Begin
  <2>2. \A r \in Calls \ {p} : SameCall(r)
      BY <1>3, BeginOwn DEF Stepped
  <2>3. kind \in [Calls -> Kinds \cup {"none"}]
      BY Types DEF IInv
  <2>4. CASE q = p
    <3>1. k \in Uploads /\ caller[o] # "idle"
        BY <2>1, <2>2, <2>3, <2>4 DEF SameCall
    <3>2. QED
        BY <2>1, <3>1
  <2>5. CASE q # p
    <3>1. kind[q] \in Uploads /\ SameCall(q)
        BY <2>1, <2>2, <2>3, <2>5
    <3>2. ~Active(q)
      <4>1. CASE o = p
          BY <2>1, <3>1, <4>1 DEF Overlaps
      <4>2. CASE o # p
        <5>1. caller[o] # "idle" /\ o \notin crossed
            BY <2>1, <2>2, <4>2 DEF SameCall
        <5>2. QED
            BY <3>1, <5>1 DEF IInv, Alone
      <4>3. QED
          BY <4>1, <4>2
    <3>3. QED
        BY <3>1, <3>2, SameActive
  <2>6. QED
      BY <2>4, <2>5
<1>4. QED
    BY <1>2, <1>3

-----------------------------------------------------------------------------
(* What was copied *)

\* A step that leaves the kind of q and the contents of its files alone.
SameFiles(q) ==
    /\ docker' = docker
    /\ kind'[q] = kind[q]
    /\ \A f \in FilesOf(q) : content'[f] = content[f]

LEMMA PlacesSame ==
    ASSUME NEW q \in Calls, NEW c \in Copies, docker' = docker, kind'[q] = kind[q]
    PROVE  /\ Subject(q)' = Subject(q)
           /\ Destination(q, c)' = Destination(q, c)
           /\ Source(q, c)' = Source(q, c)
<1>1. Subject(q)' = Subject(q)
    BY DEF Subject, Archive, Target
<1>2. Destination(q, c)' = Destination(q, c)
    BY <1>1 DEF Destination, Copies, Staged, Local, Archive, Target
<1>3. Source(q, c)' = Source(q, c)
    BY <1>1 DEF Source, Copies, Staged, Local, Archive, Target
<1>4. QED
    BY <1>1, <1>2, <1>3

LEMMA MovedSame ==
    ASSUME NEW q \in Calls, SameFiles(q)
    PROVE  /\ \A c \in Copies : Moved(q, c) => Moved(q, c)'
           /\ \A c \in Copies : HalfMoved(q, c) => HalfMoved(q, c)'
           /\ Served(q) => Served(q)'
<1>1. ASSUME NEW c \in Copies
      PROVE  /\ Moved(q, c) => Moved(q, c)'
             /\ HalfMoved(q, c) => HalfMoved(q, c)'
  <2> DEFINE d == Destination(q, c)
             s == Source(q, c)
  <2>1. content'[d] = content[d] /\ content'[s] = content[s]
      BY Ends DEF SameFiles
  <2>2. Destination(q, c)' = d /\ Source(q, c)' = s
      BY PlacesSame DEF SameFiles
  <2>3. Moved(q, c)' <=> content'[d] = content'[s]
      BY <2>2 DEF Moved
  <2>4. HalfMoved(q, c)' <=> content'[d][1] = content'[s][1]
      BY <2>2 DEF HalfMoved
  <2>5. Moved(q, c) <=> content[d] = content[s]
      BY DEF Moved
  <2>6. HalfMoved(q, c) <=> content[d][1] = content[s][1]
      BY DEF HalfMoved
  <2> HIDE DEF d, s
  <2>7. QED
      BY <2>1, <2>3, <2>4, <2>5, <2>6
<1>2. Served(q) => Served(q)'
  <2>1. Subject(q)' = Subject(q) /\ Subject(q) \in FilesOf(q) /\ Local(q) \in FilesOf(q)
      BY PlacesSame, Ends DEF SameFiles, FilesOf, Copies
  <2>2. QED
      BY <2>1 DEF Served, SameFiles, Local
<1>3. QED
    BY <1>1, <1>2

\* No command of q got further.
NoFurther(q) ==
    \A c \in Copies :
        process'[q][c] \in {"second", "done"} => process'[q][c] = process[q][c]

LEMMA ProgressKept ==
    ASSUME NEW q \in Calls, SameFiles(q), NoFurther(q), Progress(q),
           thread'[q] = "move" => thread[q] = "move" \/ Moved(q, "stage"),
           thread'[q] = "fetch" /\ docker => thread[q] = "fetch" \/ Moved(q, "copy"),
           answer'[q] = "ok" => answer[q] = "ok" \/ Served(q),
           kind[q] = "download dir" /\ caller'[q] \in {"request", "clean", "over"} =>
               caller[q] \in {"request", "clean", "over"} \/ Moved(q, "pack"),
           kind[q] = "upload dir" /\ caller'[q] \in {"clean", "over"} =>
               caller[q] \in {"clean", "over"} \/ Moved(q, "unpack")
    PROVE  Progress(q)'
<1>1. /\ \A c \in Copies : Moved(q, c) => Moved(q, c)'
      /\ \A c \in Copies : HalfMoved(q, c) => HalfMoved(q, c)'
      /\ Served(q) => Served(q)'
    BY MovedSame
<1>2. docker' = docker /\ kind'[q] = kind[q]
    BY DEF SameFiles
<1>3. \A c \in Copies : /\ process'[q][c] = "second" => HalfMoved(q, c)'
                        /\ process'[q][c] = "done" => Moved(q, c)'
    BY <1>1 DEF NoFurther, Progress
<1>4. /\ thread'[q] = "move" => Moved(q, "stage")'
      /\ thread'[q] = "fetch" /\ docker' => Moved(q, "copy")'
      /\ answer'[q] = "ok" => Served(q)'
    BY <1>1, <1>2 DEF Progress, Copies
<1>5. /\ kind'[q] = "download dir" /\ caller'[q] \in {"request", "clean", "over"} =>
            Moved(q, "pack")'
      /\ kind'[q] = "upload dir" /\ caller'[q] \in {"clean", "over"} => Moved(q, "unpack")'
    BY <1>1, <1>2 DEF Progress, Copies
<1>6. QED
    BY <1>3, <1>4, <1>5 DEF Progress

LEMMA NothingFurther ==
    ASSUME ProcessOK, NEW o \in Calls, NEW c \in Commands, NEW d \in Commands,
           \/ c # d /\ Switch(o, c, d)
           \/ Quit(o, c)
           \/ Start(o, d)
           \/ UNCHANGED process
    PROVE  NoFurther(o)
<1>1. CASE c # d /\ Switch(o, c, d)
    BY <1>1, ProcessSwitch DEF NoFurther, Commands
<1>2. CASE Quit(o, c)
    BY <1>2, ProcessQuit DEF NoFurther, Commands
<1>3. CASE Start(o, d)
    BY <1>3, ProcessStart DEF NoFurther, Commands
<1>4. CASE UNCHANGED process
    BY <1>4 DEF NoFurther
<1>5. QED
    BY <1>1, <1>2, <1>3, <1>4

\* What a thread does, but for ending with an error.
LEMMA ThreadCopied ==
    ASSUME IInv, NEW o \in Calls, Thread(o), Unspoilt(o)'
    PROVE  Progress(o)'
<1>1. /\ TypeOK /\ Own(o) /\ CopiedSoFar(o)
      /\ UNCHANGED <<docker, up, kind, caller, well, content>>
      /\ crossed' = crossed
    BY DEF IInv, Thread, Prepared, PrepareFails, Landed, Dropped, DropFails, calls, files
<1>2. SameFiles(o)
    BY <1>1 DEF SameFiles
<1>3. CASE Prepared(o)
  <2>1. PICK c \in {"stage", "copy"}, d \in {"move", "fetch"} :
            /\ thread[o] = c /\ process[o][c] = "done"
            /\ c = "stage" <=> d = "move"
            /\ thread' = [thread EXCEPT ![o] = d]
            /\ Switch(o, c, d)
            /\ answer' = answer
      BY <1>3, Zenon DEF Prepared, Await
  <2>2. NoFurther(o)
      BY <1>1, <2>1, Types, NothingFurther DEF Commands, Copies, Removals
  <2>3. thread'[o] = d
      BY <1>1, <2>1, Types
  <2>4. Progress(o)
      BY <1>1, <2>1 DEF CopiedSoFar, Unspoilt
  <2>5. Moved(o, c)
      BY <2>1, <2>4 DEF Progress, Copies
  <2>6. QED
      BY <1>1, <1>2, <2>1, <2>2, <2>3, <2>4, <2>5, ProgressKept
<1>4. CASE PrepareFails(o)
  <2>1. answer' = [answer EXCEPT ![o] = "error"]
      BY <1>4 DEF PrepareFails, Answer
  <2>2. answer'[o] = "error"
      BY <1>1, <2>1, Types
  <2>3. QED
      BY <2>2 DEF Unspoilt
<1>5. ASSUME NEW a \in {"ok", "error"}, Landed(o, a)
      PROVE  Progress(o)'
  <2>1. PICK c \in {"put", "move", "fetch"}, d \in {"none", "drop"} :
            /\ thread[o] = c /\ (a = "ok" => process[o][c] = "done")
            /\ thread' = [thread EXCEPT ![o] = d]
            /\ answer' = [answer EXCEPT ![o] = a]
            /\ IF d = "drop" THEN Switch(o, c, "drop") ELSE Quit(o, c)
      BY <1>5, Zenon DEF Landed, Await, Answer
  <2>2. NoFurther(o)
      BY <1>1, <2>1, Types, NothingFurther DEF Commands, Copies, Removals
  <2>3. thread'[o] = d /\ answer'[o] = a
      BY <1>1, <2>1, Types
  <2>4. a = "ok" /\ process[o][c] = "done"
      BY <2>1, <2>3 DEF Unspoilt
  <2>5. answer[o] = "none"
      BY <1>1, <2>1 DEF Own, AnswersOnce, Copies
  <2>6. Progress(o)
      BY <1>1, <2>5 DEF CopiedSoFar, Unspoilt
  <2>7. Served(o)
    <3>1. Moved(o, c)
        BY <2>1, <2>4, <2>6 DEF Progress, Copies
    <3>2. CASE c = "put"
        BY <3>1, <3>2, Destinations, Sources DEF Moved, Served
    <3>3. CASE c = "move"
      <4>1. Moved(o, "stage")
          BY <2>1, <2>6, <3>3 DEF Progress
      <4>2. QED
          BY <3>1, <3>3, <4>1, Destinations, Sources DEF Moved, Served
    <3>4. CASE c = "fetch"
      <4>1. docker => Moved(o, "copy")
          BY <2>1, <2>6, <3>4 DEF Progress
      <4>2. QED
          BY <3>1, <3>4, <4>1, Destinations, Sources DEF Moved, Served
    <3>5. QED
        BY <3>2, <3>3, <3>4
  <2>8. QED
      BY <1>1, <1>2, <2>2, <2>3, <2>6, <2>7, ProgressKept
<1>6. CASE Dropped(o) \/ DropFails(o)
  <2>1. /\ Quit(o, "drop")
        /\ thread' = [thread EXCEPT ![o] = "none"]
        /\ answer' = answer \/ answer' = [answer EXCEPT ![o] = answer[o]]
              \/ answer' = [answer EXCEPT ![o] = "error"]
      BY <1>6, Zenon DEF Dropped, DropFails, Await, Answer
  <2>2. NoFurther(o)
      BY <1>1, <2>1, Types, NothingFurther DEF Commands, Copies, Removals
  <2>3. thread'[o] = "none" /\ answer'[o] \in {answer[o], "error"}
      BY <1>1, <2>1, Types
  <2>4. answer'[o] = answer[o]
      BY <2>3 DEF Unspoilt
  <2>5. Progress(o)
      BY <1>1, <2>4 DEF CopiedSoFar, Unspoilt
  <2>6. QED
      BY <1>1, <1>2, <2>2, <2>3, <2>4, <2>5, ProgressKept
<1>7. QED
    BY <1>3, <1>4, <1>5, <1>6 DEF Thread

LEMMA BeginCopied ==
    ASSUME IInv, NEW o \in Calls, NEW k \in Kinds, Begin(o, k)
    PROVE  Progress(o)'
<1>1. /\ TypeOK /\ Own(o)
      /\ caller[o] = "idle" /\ answer' = answer /\ docker' = docker
      /\ kind' = [kind EXCEPT ![o] = k]
    BY DEF IInv, Begin
<1>2. /\ answer[o] = "none" /\ kind'[o] = k
      /\ \A e \in Commands : process[o][e] = "none"
    BY <1>1, IdleIsQuiet, Types
<1>3. PICK c \in {"stage", "put", "copy", "fetch", "pack"} :
          /\ c = "pack" <=> k = "download dir"
          /\ c = "fetch" => ~docker
          /\ caller' = [caller EXCEPT ![o] = IF c = "pack" THEN "pack" ELSE "request"]
          /\ c = "pack" => thread' = thread
          /\ c # "pack" => thread' = [thread EXCEPT ![o] = c]
          /\ Start(o, c)
  <2>1. CASE k = "download dir"
      BY <2>1 DEF Begin, Wait
  <2>2. CASE k # "download dir"
    <3> DEFINE c == FirstCommand(o)
    <3>1. /\ caller' = [caller EXCEPT ![o] = "request"]
          /\ thread' = [thread EXCEPT ![o] = c]
          /\ Start(o, c)
        BY <2>2 DEF Begin, Request, Wait, Await
    <3>2. /\ c \in {"stage", "put", "copy", "fetch"}
          /\ c = "fetch" => ~docker
        BY <1>2 DEF FirstCommand
    <3> HIDE DEF c
    <3>3. QED
        BY <2>2, <3>1, <3>2
  <2>3. QED
      BY <2>1, <2>2
<1>4. \A e \in Commands : process'[o][e] \in {"none", "first"}
  <2>1. c \in Commands /\ ProcessOK
      BY <1>1, Types DEF Commands, Copies
  <2>2. process'[o][c] = "first" /\ \A e \in Commands \ {c} : process'[o][e] = process[o][e]
      BY <1>3, <2>1, ProcessStart
  <2>3. QED
      BY <1>2, <2>2
<1>5. /\ caller'[o] = IF c = "pack" THEN "pack" ELSE "request"
      /\ thread'[o] # "move" /\ (thread'[o] = "fetch" => ~docker)
  <2>1. thread[o] = "none"
      BY <1>1 DEF Own, AnswersOnce
  <2>2. QED
      BY <1>1, <1>3, <2>1, Types
<1>6. \A e \in Copies : /\ process'[o][e] = "second" => HalfMoved(o, e)'
                        /\ process'[o][e] = "done" => Moved(o, e)'
    BY <1>4 DEF Commands
<1>7. /\ thread'[o] # "move" /\ ~(thread'[o] = "fetch" /\ docker')
      /\ answer'[o] # "ok"
      /\ ~(kind'[o] = "download dir" /\ caller'[o] \in {"request", "clean", "over"})
      /\ ~(kind'[o] = "upload dir" /\ caller'[o] \in {"clean", "over"})
  <2>1. thread'[o] # "move" /\ ~(thread'[o] = "fetch" /\ docker')
      BY <1>1, <1>5, Zenon
  <2>2. answer'[o] # "ok"
      BY <1>1, <1>2
  <2>3. /\ kind'[o] = "download dir" => caller'[o] = "pack"
        /\ caller'[o] \in {"pack", "request"}
      BY <1>2, <1>3, <1>5
  <2>4. QED
      BY <2>1, <2>2, <2>3
<1>8. QED
    BY <1>6, <1>7 DEF Progress

\* What a caller does, but for what goes wrong.
LEMMA CallerCopied ==
    ASSUME IInv, NEW o \in Calls, Caller(o), Unspoilt(o)'
    PROVE  Progress(o)'
<1>1. TypeOK /\ Own(o) /\ CopiedSoFar(o)
    BY DEF IInv
<1>2. well'[o]
    BY DEF Unspoilt
<1>3. ASSUME NEW k \in Kinds, Begin(o, k)
      PROVE  Progress(o)'
    BY <1>3, BeginCopied
<1>4. ~PackFails(o) /\ ~RequestFails(o) /\ ~UnpackFails(o) /\ ~GiveUp(o)
  <2>1. ~Fail(o)
      BY <1>1, <1>2, Types DEF Fail
  <2>2. QED
      BY <2>1 DEF PackFails, RequestFails, UnpackFails, GiveUp
<1>5. ASSUME Packed(o) \/ Requested(o) \/ Unpacked(o) \/ Cleaned(o)
      PROVE  SameFiles(o) /\ Progress(o) /\ answer' = answer
  <2>1. /\ UNCHANGED <<docker, up, kind, well, answer, content, crossed>>
        /\ caller[o] # "idle"
      BY <1>5 DEF Packed, Requested, Unpacked, Cleaned, threads, files
  <2>2. QED
      BY <1>1, <2>1 DEF SameFiles, CopiedSoFar, Unspoilt
<1>6. CASE Packed(o)
  <2>1. PICK c \in {"copy", "fetch"} :
            /\ process[o]["pack"] = "done"
            /\ docker <=> c = "copy"
            /\ thread' = [thread EXCEPT ![o] = c]
            /\ Switch(o, "pack", c)
    <3>1. kind'[o] \notin Uploads
      <4>1. kind[o] = "download dir" /\ kind' = kind
          BY <1>1, <1>6 DEF Packed, Own, Matching, Fits, Waited, Commands, Copies, Removals
      <4>2. QED
          BY <4>1 DEF Uploads
    <3>2. FirstCommand(o) = IF docker THEN "copy" ELSE "fetch"
        BY <3>1 DEF FirstCommand
    <3>3. QED
        BY <1>6, <3>2, Zenon DEF Packed, Request, Await
  <2>2. NoFurther(o)
      BY <1>1, <2>1, Types, NothingFurther DEF Commands, Copies, Removals
  <2>3. thread'[o] = c
      BY <1>1, <2>1, Types
  <2>4. Moved(o, "pack") /\ kind[o] # "upload dir"
    <3>1. Moved(o, "pack")
        BY <1>5, <1>6, <2>1 DEF Progress, Copies
    <3>2. kind[o] = "download dir"
        BY <1>1, <2>1 DEF Own, Matching, Fits, Commands, Copies
    <3>3. QED
        BY <3>1, <3>2
  <2>5. QED
      BY <1>5, <1>6, <2>1, <2>2, <2>3, <2>4, ProgressKept
<1>7. CASE Requested(o)
  <2>1. PICK d \in {"unpack", "clean", "over"} :
            /\ caller[o] = "request"
            /\ kind[o] = "upload dir" <=> d = "unpack"
            /\ caller' = [caller EXCEPT ![o] = d]
            /\ IF d = "over" THEN UNCHANGED process ELSE Start(o, d)
            /\ thread' = thread
      BY <1>7, Zenon DEF Requested, Wait, threads
  <2>2. NoFurther(o)
      BY <1>1, <2>1, Types, NothingFurther DEF Commands, Copies, Removals
  <2>3. caller'[o] = d
      BY <1>1, <2>1, Types
  <2>4. QED
      BY <1>5, <1>7, <2>1, <2>2, <2>3, ProgressKept
<1>8. CASE Unpacked(o)
  <2>1. /\ process[o]["unpack"] = "done" /\ thread' = thread
        /\ Switch(o, "unpack", "clean")
      BY <1>8 DEF Unpacked, threads
  <2>2. NoFurther(o)
      BY <1>1, <2>1, Types, NothingFurther DEF Commands, Copies, Removals
  <2>3. Moved(o, "unpack") /\ kind[o] # "download dir"
    <3>1. Moved(o, "unpack")
        BY <1>5, <1>8, <2>1 DEF Progress, Copies
    <3>2. kind[o] = "upload dir"
        BY <1>1, <2>1 DEF Own, Matching, Fits, Commands, Copies
    <3>3. QED
        BY <3>1, <3>2
  <2>4. QED
      BY <1>5, <1>8, <2>1, <2>2, <2>3, ProgressKept
<1>9. CASE Cleaned(o)
  <2>1. caller[o] = "clean" /\ thread' = thread /\ Quit(o, "clean")
      BY <1>9 DEF Cleaned, threads
  <2>2. NoFurther(o)
      BY <1>1, <2>1, Types, NothingFurther DEF Commands, Copies, Removals
  <2>3. QED
      BY <1>5, <1>9, <2>1, <2>2, ProgressKept
<1>10. QED
    BY <1>3, <1>4, <1>6, <1>7, <1>8, <1>9 DEF Caller

\* Of a call that is not spoilt, at most one command is copying or has a result.
LEMMA OneAtATime ==
    ASSUME TypeOK, NEW o \in Calls, Own(o), Unspoilt(o),
           NEW c \in Copies, Running(o, c)
    PROVE  /\ Waited(o, c)
           /\ \A e \in Copies \ {c} : process[o][e] \in {"none", "failed", "first"}
           /\ thread[o] \in {c, "none", "drop"}
           /\ answer[o] = "ok" => c = "unpack"
           /\ caller[o] \in {"clean", "over"} => FALSE
           /\ kind[o] = "download dir" => c # "unpack"
           /\ kind[o] = "upload dir" => c # "pack"
           /\ caller[o] = "request" => c # "pack"
<1>1. Waited(o, c)
    BY DEF Own, OnTrack, Unspoilt
<1>2. /\ caller[o] = "pack" => thread[o] = "none" /\ answer[o] = "none"
      /\ caller[o] \in {"unpack", "clean", "over"} => thread[o] = "none"
      /\ thread[o] \in Copies => answer[o] = "none"
    BY DEF Own, AnswersOnce, Unspoilt
<1>3. thread[o] \in Copies \cup {"none", "drop"}
    BY Types DEF Copies
<1>4. caller[o] \in {"idle", "request", "pack", "unpack", "clean", "over"}
    BY Types
<1>5. ASSUME NEW e \in Copies, e # c
      PROVE  process[o][e] \in {"none", "failed", "first"}
  <2>1. ~Waited(o, e)
      BY <1>1, <1>2, <1>3, <1>4, <1>5 DEF Waited, Copies
  <2>2. ~Running(o, e)
      BY <2>1 DEF Own, OnTrack, Unspoilt
  <2>3. process[o][e] \in ProcessStates
      BY Types DEF ProcessOK, Commands
  <2>4. process[o][e] \notin {"done", "failed"}
      BY <2>1 DEF Own, Awaited, Commands
  <2>5. QED
      BY <2>2, <2>3 , <2>4 DEF ProcessStates, Running
<1>6. thread[o] \in {c, "none", "drop"}
    BY <1>1, <1>2, <1>3, <1>4 DEF Waited, Copies
<1>7. Fits(kind[o], c)
    BY DEF Own, Matching, Running, Commands
<1>8. /\ caller[o] \notin {"clean", "over"}
      /\ answer[o] = "ok" => c = "unpack"
      /\ caller[o] = "request" => c # "pack"
  <2>1. thread[o] # "pack"
      BY Types
  <2>2. QED
      BY <1>1, <1>2, <1>3, <1>4, <2>1 DEF Waited, Copies
<1>9. /\ kind[o] = "download dir" => c # "unpack"
      /\ kind[o] = "upload dir" => c # "pack"
    BY <1>7 DEF Fits
<1>10. QED
    BY <1>1, <1>5, <1>6, <1>8, <1>9

\* What a command writes to is none of the files its call was done with, and
\* it does not read what it writes.
LEMMA CopyCopied ==
    ASSUME IInv, NEW o \in Calls, NEW c \in Copies, Command(o, c),
           CopyFirst(o, c) \/ CopySecond(o, c), Unspoilt(o)'
    PROVE  Progress(o)'
<1>1. /\ TypeOK /\ Own(o) /\ CopiedSoFar(o) /\ ProcessOK
      /\ UNCHANGED <<docker, up, kind, caller, well, thread, answer, crossed>>
      /\ c \in Commands
    BY Types DEF IInv, Command, calls, threads, Commands
<1>2. Running(o, c) /\ Unspoilt(o) /\ Progress(o)
    BY <1>1 DEF CopyFirst, CopySecond, Running, CopiedSoFar, Unspoilt
<1>3. /\ Waited(o, c)
      /\ \A e \in Copies \ {c} : process[o][e] \in {"none", "failed", "first"}
      /\ thread[o] \in {c, "none", "drop"}
      /\ answer[o] = "ok" => c = "unpack"
      /\ caller[o] \notin {"clean", "over"}
      /\ kind[o] = "download dir" => c # "unpack"
      /\ caller[o] = "request" => c # "pack"
    BY <1>1, <1>2, OneAtATime
<1> DEFINE d == Destination(o, c)
           s == Source(o, c)
<1>4. Destination(o, c)' = d /\ Source(o, c)' = s /\ Subject(o)' = Subject(o)
    BY <1>1, PlacesSame
<1>5. d \in Files /\ s \in Files /\ d # s
  <2>1. d # s
      BY Destinations, Sources, Distinct DEF Copies, Subject
  <2>2. QED
      BY <2>1, Ends
<1>6. /\ \A f \in Files : f # d => content'[f] = content[f]
      /\ content'[d] \in [Parts -> Calls \cup {Nothing}]
      /\ content'[s] \in [Parts -> Calls \cup {Nothing}]
  <2>1. content \in [Files -> [Parts -> Calls \cup {Nothing}]]
      BY <1>1 DEF TypeOK
  <2>2. PICK p \in Parts : content' = [content EXCEPT ![d][p] = content[s][p]]
      BY DEF CopyFirst, CopySecond, Parts
  <2> HIDE DEF d, s
  <2>3. QED
      BY <1>5, <2>1, <2>2
<1>7. /\ process'[o][c] = "second" => HalfMoved(o, c)'
      /\ process'[o][c] = "done" => Moved(o, c)'
  <2>1. content \in [Files -> [Parts -> Calls \cup {Nothing}]]
      BY <1>1 DEF TypeOK
  <2>2. CASE CopyFirst(o, c)
    <3>1. /\ content' = [content EXCEPT ![d][1] = content[s][1]]
          /\ process' = [process EXCEPT ![o][c] = "second"]
        BY <2>2 DEF CopyFirst
    <3>2. process'[o][c] = "second"
        BY <1>1, <3>1 DEF ProcessOK
    <3> HIDE DEF d, s
    <3>3. content'[d][1] = content'[s][1]
        BY <1>5, <2>1, <3>1 DEF Parts
    <3>4. QED
        BY <1>4, <3>2, <3>3 DEF HalfMoved
  <2>3. CASE CopySecond(o, c)
    <3>1. /\ content' = [content EXCEPT ![d][2] = content[s][2]]
          /\ End(o, c, "done") /\ process[o][c] = "second"
        BY <2>3 DEF CopySecond
    <3>2. process'[o][c] = "done"
        BY <1>1, <1>3, <3>1, ProcessEnd
    <3>3. content[d][1] = content[s][1]
        BY <1>2, <3>1 DEF Progress, HalfMoved
    <3> HIDE DEF d, s
    <3>4. content'[d][1] = content'[s][1] /\ content'[d][2] = content'[s][2]
        BY <1>5, <2>1, <3>1, <3>3 DEF Parts
    <3>5. content'[d] = content'[s]
        BY <1>6, <3>4 DEF Parts
    <3>6. QED
        BY <1>4, <3>2, <3>5 DEF Moved
  <2>4. QED
      BY <2>2, <2>3
<1>8. \A e \in Copies \ {c} : process'[o][e] \notin {"second", "done"}
  <2>1. \A e \in Commands \ {c} : process'[o][e] = process[o][e]
    <3>1. CASE CopyFirst(o, c)
        BY <1>1, <3>1 DEF CopyFirst, ProcessOK
    <3>2. CASE CopySecond(o, c)
        BY <1>1, <3>2, ProcessEnd DEF CopySecond
    <3>3. QED
        BY <3>1, <3>2
  <2>2. QED
      BY <1>3, <2>1 DEF Commands
<1>9. thread'[o] = "move" => Moved(o, "stage")'
  <2> SUFFICES ASSUME thread'[o] = "move" PROVE Moved(o, "stage")'
      OBVIOUS
  <2>1. c = "move"
      BY <1>1, <1>3
  <2>2. d = Subject(o) /\ Moved(o, "stage")
      BY <1>1, <1>2, <2>1, Destinations DEF Progress
  <2>3. Staged(o) # d /\ Local(o) # d
      BY <2>2, Distinct DEF Subject
  <2>4. content[Staged(o)] = content[Local(o)]
      BY <2>2, Destinations, Sources DEF Moved
  <2>5. content'[Staged(o)] = content'[Local(o)]
      BY <1>6, <2>3, <2>4, Distinct DEF FilesOf
  <2>6. QED
      BY <2>5 DEF Moved, Destination, Source, Staged, Local
<1>10. thread'[o] = "fetch" /\ docker' => Moved(o, "copy")'
  <2> SUFFICES ASSUME thread'[o] = "fetch", docker' PROVE Moved(o, "copy")'
      OBVIOUS
  <2>1. c = "fetch" /\ docker
      BY <1>1, <1>3
  <2>2. d = Local(o) /\ Moved(o, "copy")
      BY <1>1, <1>2, <2>1, Destinations DEF Progress
  <2>3. Staged(o) # d /\ Subject(o) # d /\ Subject(o) \in Files /\ Staged(o) \in Files
      BY <2>2, Distinct, Ends DEF Subject, FilesOf
  <2>4. content[Staged(o)] = content[Subject(o)]
      BY <2>2, Destinations, Sources DEF Moved
  <2>5. content'[Staged(o)] = content'[Subject(o)]
      BY <1>6, <2>3, <2>4
  <2>6. Destination(o, "copy")' = Staged(o) /\ Source(o, "copy")' = Subject(o)
      BY <1>1, PlacesSame, Destinations, Sources DEF Copies
  <2>7. QED
      BY <2>5, <2>6 DEF Moved
<1>11. answer'[o] = "ok" => Served(o)'
  <2> SUFFICES ASSUME answer'[o] = "ok" PROVE Served(o)'
      OBVIOUS
  <2>1. c = "unpack" /\ answer[o] = "ok"
      BY <1>1, <1>3
  <2>2. d = Target /\ Served(o)
      BY <1>1, <1>2, <2>1, Destinations DEF Progress
  <2>3. Fits(kind[o], c)
      BY <1>1, <1>2 DEF Own, Matching, Running
  <2>4. Subject(o) # d /\ Local(o) # d /\ Subject(o) \in Files /\ Local(o) \in Files
      BY <2>1, <2>2, <2>3, Distinct DEF Fits, Subject, FilesOf, OfDirectory
  <2>5. content'[Subject(o)] = content'[Local(o)]
      BY <1>6, <2>2, <2>4 DEF Served
  <2>6. QED
      BY <1>4, <2>5 DEF Served, Local
<1>12. kind'[o] = "download dir" /\ caller'[o] \in {"request", "clean", "over"} =>
           Moved(o, "pack")'
  <2> SUFFICES ASSUME kind'[o] = "download dir", caller'[o] = "request"
               PROVE  Moved(o, "pack")'
      BY <1>1, <1>3
  <2>1. kind[o] = "download dir" /\ caller[o] = "request" /\ c \in {"copy", "fetch"}
    <3>1. kind[o] = "download dir" /\ caller[o] = "request"
        BY <1>1
    <3>2. Fits(kind[o], c)
        BY <1>1, <1>2 DEF Own, Matching, Running
    <3>3. QED
        BY <1>3, <3>1, <3>2 DEF Fits, Uploads, Copies
  <2>2. d \in {Staged(o), Local(o)} /\ Moved(o, "pack")
      BY <1>1, <1>2, <2>1, Destinations DEF Progress
  <2>3. content[Archive(o)] = content[Target]
      BY <2>2, Destinations, Sources DEF Moved
  <2>4. content'[Archive(o)] = content'[Target]
      BY <1>6, <2>2, <2>3, Distinct DEF FilesOf
  <2>5. QED
      BY <2>4 DEF Moved, Destination, Source, Archive, Target
<1>13. ~(kind'[o] = "upload dir" /\ caller'[o] \in {"clean", "over"})
    BY <1>1, <1>3
<1>14. \A e \in Copies : /\ process'[o][e] = "second" => HalfMoved(o, e)'
                         /\ process'[o][e] = "done" => Moved(o, e)'
    BY <1>7, <1>8
<1>15. QED
    BY <1>9, <1>10, <1>11, <1>12, <1>13, <1>14 DEF Progress

LEMMA CommandCopied ==
    ASSUME IInv, NEW o \in Calls, NEW c \in Commands, Command(o, c), Unspoilt(o)'
    PROVE  Progress(o)'
<1>1. CASE c \in Copies /\ (CopyFirst(o, c) \/ CopySecond(o, c))
    BY <1>1, CopyCopied
<1>2. CASE Break(o, c) \/ (c \in Removals /\ Remove(o, c))
  <2>1. /\ UNCHANGED <<docker, up, kind, caller, well, thread, answer, crossed, content>>
        /\ ProcessOK
      BY <1>2, Types DEF IInv, Command, calls, threads, Break, Remove, files
  <2>2. Progress(o)
      BY <2>1 DEF IInv, CopiedSoFar, Unspoilt
  <2>3. SameFiles(o)
      BY <2>1 DEF SameFiles
  <2>4. NoFurther(o)
    <3>1. CASE Break(o, c)
        BY <2>1, <3>1, ProcessEnd DEF Break, NoFurther, Commands
    <3>2. CASE c \in Removals /\ Remove(o, c)
        BY <2>1, <3>2, ProcessEnd DEF Remove, NoFurther, Commands, Copies, Removals
    <3>3. QED
        BY <1>2, <3>1, <3>2
  <2>5. QED
      BY <2>1, <2>2, <2>3, <2>4, ProgressKept
<1>3. QED
    BY <1>1, <1>2 DEF Command

\* What another call does: an upload that could spoil the target of q is over.
LEMMA OthersCopied ==
    ASSUME IInv, NEW o \in Calls, NEW q \in Calls, q # o, CallStep(o), Unspoilt(q)'
    PROVE  Progress(q)'
<1>1. SameCall(q) /\ TypeOK /\ Own(o) /\ CopiedSoFar(q)
    BY CallStepOwn DEF Stepped, IInv
<1>2. up' = up /\ crossed \subseteq crossed'
    BY DEF CallStep, Command, Thread, Prepared, PrepareFails, Landed, Dropped, DropFails,
           Caller, Begin, Packed, PackFails, Requested, RequestFails, Unpacked,
           UnpackFails, Cleaned, GiveUp
<1>3. Unspoilt(q) /\ Progress(q)
    BY <1>1, <1>2 DEF Unspoilt, SameCall, CopiedSoFar
<1>4. FilesOf(q) \subseteq Files /\ FilesOf(q) \cap FilesOf(o) = {Target}
    BY Distinct
<1>5. \A f \in FilesOf(q) : content'[f] = content[f]
  <2>1. ASSUME NEW c \in Copies, Command(o, c), CopyFirst(o, c) \/ CopySecond(o, c)
        PROVE  \A f \in FilesOf(q) : content'[f] = content[f]
    <3> DEFINE d == Destination(o, c)
    <3>1. d \in FilesOf(o) /\ d \in Files
        BY Ends
    <3>2. d # Target
      <4>1. Running(o, c) /\ Fits(kind[o], c)
          BY <1>1, <2>1 DEF CopyFirst, CopySecond, Running, Own, Matching, Commands
      <4>2. kind[o] \notin Uploads
        <5>1. Active(o)
            BY <4>1 DEF Active, Commands
        <5>2. QED
            BY <1>3, <5>1 DEF IInv, Alone, Unspoilt
      <4>3. c \in {"copy", "fetch", "pack"}
          BY <4>1, <4>2 DEF Fits, Copies, Uploads
      <4>4. QED
          BY <4>3, Destinations, Distinct
    <3>3. d \notin FilesOf(q)
        BY <1>4, <3>1, <3>2
    <3>4. PICK p, x : content' = [content EXCEPT ![d][p] = x]
        BY <2>1 DEF CopyFirst, CopySecond
    <3> HIDE DEF d
    <3>5. QED
        BY <1>1, <1>4, <3>3, <3>4 DEF TypeOK
  <2>2. ASSUME NEW k \in Kinds, Begin(o, k)
        PROVE  \A f \in FilesOf(q) : content'[f] = content[f]
    <3>1. PICK x : content' = [content EXCEPT ![Local(o)] = x]
        BY <2>2 DEF Begin
    <3>2. Local(o) \in FilesOf(o) /\ Local(o) # Target
        BY Distinct DEF FilesOf
    <3>3. Local(o) \notin FilesOf(q)
        BY <1>4, <3>2
    <3>4. QED
        BY <1>1, <1>4, <3>1, <3>3 DEF TypeOK
  <2>3. ASSUME ~\E k \in Kinds : Begin(o, k),
               ~\E c \in Copies : Command(o, c) /\ (CopyFirst(o, c) \/ CopySecond(o, c))
        PROVE  content' = content
    <3>1. ASSUME NEW c \in Commands, Command(o, c)
          PROVE  content' = content
        BY <2>3, <3>1 DEF Command, Remove, Break, files
    <3>2. CASE Thread(o)
        BY <3>2 DEF Thread, Prepared, PrepareFails, Landed, Dropped, DropFails, files
    <3>3. CASE Caller(o)
        BY <2>3, <3>3 DEF Caller, Packed, PackFails, Requested, RequestFails, Unpacked,
               UnpackFails, Cleaned, GiveUp, files
    <3>4. QED
        BY <3>1, <3>2, <3>3 DEF CallStep
  <2>4. QED
      BY <2>1, <2>2, <2>3
<1>6. SameFiles(q) /\ NoFurther(q)
    BY <1>1, <1>5 DEF SameFiles, SameCall, NoFurther
<1>7. QED
    BY <1>1, <1>3, <1>6, ProgressKept DEF SameCall

LEMMA BrokerDiesCopied ==
    ASSUME IInv, NEW q \in Calls, BrokerDies, Unspoilt(q)'
    PROVE  Progress(q)'
<1>1. TypeOK /\ CopiedSoFar(q)
    BY DEF IInv
<1>2. /\ UNCHANGED <<docker, up, kind, caller, well, content, crossed>>
      /\ thread'[q] = "none"
      /\ answer'[q] = IF thread[q] = "none" THEN answer[q] ELSE "error"
      /\ \A c \in Commands :
            process'[q][c] = IF thread[q] = c THEN Forget(process[q][c]) ELSE process[q][c]
    BY DEF BrokerDies, calls, files
<1>3. thread[q] = "none" /\ answer'[q] = answer[q]
    BY <1>2 DEF Unspoilt
<1>4. Progress(q) /\ SameFiles(q) /\ NoFurther(q)
  <2>1. Progress(q)
      BY <1>1, <1>2, <1>3 DEF CopiedSoFar, Unspoilt
  <2>2. SameFiles(q)
      BY <1>2 DEF SameFiles
  <2>3. NoFurther(q)
      BY <1>2, <1>3 DEF NoFurther, Commands, Copies, Removals
  <2>4. QED
      BY <2>1, <2>2, <2>3
<1>5. QED
    BY <1>2, <1>3, <1>4, ProgressKept

LEMMA CopiedStep ==
    ASSUME IInv, [Next]_vars, NEW q \in Calls
    PROVE  CopiedSoFar(q)'
<1> SUFFICES ASSUME Unspoilt(q)' PROVE Progress(q)'
    BY DEF CopiedSoFar
<1>1. ASSUME NEW o \in Calls, CallStep(o)
      PROVE  Progress(q)'
  <2>1. CASE o = q
      BY <1>1, <2>1, CommandCopied, ThreadCopied, CallerCopied DEF CallStep
  <2>2. CASE o # q
      BY <1>1, <2>2, OthersCopied
  <2>3. QED
      BY <2>1, <2>2
<1>2. CASE Delete
    BY <1>2 DEF Delete, Unspoilt
<1>3. CASE BrokerDies
    BY <1>3, BrokerDiesCopied
<1>4. CASE UNCHANGED vars
  <2>1. /\ UNCHANGED <<docker, up, kind, caller, well, thread, answer, process>>
        /\ UNCHANGED <<content, crossed>>
      BY <1>4 DEF vars, calls, threads, files
  <2>2. Progress(q) /\ SameFiles(q) /\ NoFurther(q)
      BY <2>1 DEF IInv, CopiedSoFar, Unspoilt, SameFiles, NoFurther
  <2>3. QED
      BY <2>1, <2>2, ProgressKept
<1>5. QED
    BY <1>1, <1>2, <1>3, <1>4, NextIs

-----------------------------------------------------------------------------
(* Results *)

LEMMA IInvInit == Init => IInv
<1> SUFFICES ASSUME Init PROVE IInv
    OBVIOUS
<1>1. TypeOK
    BY DEF Init, TypeOK, Files
<1>2. \A o \in Calls : /\ kind[o] = "none" /\ caller[o] = "idle"
                       /\ thread[o] = "none" /\ answer[o] = "none"
                       /\ \A c \in Commands : process[o][c] = "none"
    BY DEF Init
<1>3. linked = {}
    BY DEF Init
<1>4. ASSUME NEW o \in Calls PROVE Own(o)
  <2>1. Matching(o) /\ Awaited(o) /\ AnswersOnce(o) /\ OnTrack(o)
      BY <1>2 DEF Matching, Awaited, AnswersOnce, OnTrack, Running, Waited, Commands,
             Copies, Removals
  <2>2. Untouched(o) /\ StagedIsDropped(o) /\ ArchiveIsCleaned(o)
      BY <1>2, <1>3 DEF Untouched, StagedIsDropped, ArchiveIsCleaned, Commands, Copies,
             Removals
  <2>3. QED
      BY <2>1, <2>2 DEF Own
<1>5. QED
    BY <1>1, <1>2, <1>4 DEF IInv, Alone, CopiedSoFar, Unspoilt

LEMMA IInvStep == IInv /\ [Next]_vars => IInv'
  BY OwnStep, AloneStep, CopiedStep DEF IInv

LEMMA Invariance == Spec => []IInv
  BY IInvInit, IInvStep, PTL DEF Spec

\* Every field has its type: a call that is not begun has no kind, and only a
\* Docker-enabled sandbox has a volume to stage in (harbor.py, runtime.py).
THEOREM TypeCorrect == Spec => []TypeOK
<1>1. IInv => TypeOK
    BY DEF IInv
<1>2. QED
    BY <1>1, Invariance, PTL

\* No call leaves a file in /tmp or in /broker-transfer that somebody was still
\* going to remove: whoever writes one of them removes it, unless writing it
\* failed, removing it failed, or the process in charge died (the try and
\* finally clauses of runtime.py and harbor.py).
THEOREM LeftoversStayExplained == Spec => []LeftoversExplained
<1>1. ASSUME IInv, NEW o \in Calls, ~Active(o)
      PROVE  {Archive(o), Staged(o)} \cap linked \subseteq excused
  <2>1. Own(o) /\ caller[o] \in {"idle", "over"} /\ thread[o] = "none"
      BY <1>1 DEF IInv, Active
  <2>2. Staged(o) \in linked => Staged(o) \in excused
      BY <2>1 DEF Own, StagedIsDropped
  <2>3. Archive(o) \in linked => Archive(o) \in excused
      BY <2>1 DEF Own, ArchiveIsCleaned
  <2>4. QED
      BY <2>2, <2>3
<1>2. IInv => LeftoversExplained
    BY <1>1 DEF LeftoversExplained
<1>3. QED
    BY <1>2, Invariance, PTL

\* A call that returned normally has no command left that could still write
\* somewhere, and if no upload came into its way, the target is what the
\* caller has in its memory, both parts of it: the staging file, the archive
\* and the target were copied one after the other, each one when the one
\* before was complete (write_file, put_archive and read_file in runtime.py,
\* the directory transfers in harbor.py).
THEOREM DeliveredIsWhole == Spec => []DeliveredWhole
<1>1. ASSUME IInv, NEW o \in Calls, caller[o] = "over", well[o]
      PROVE  /\ \A c \in Copies : ~Running(o, c)
             /\ up /\ o \notin crossed => content[Target] = content[Local(o)]
  <2>1. Own(o) /\ CopiedSoFar(o) /\ kind[o] \in Kinds
      BY <1>1 DEF IInv, TypeOK
  <2>2. thread[o] = "none" /\ answer[o] = "ok"
      BY <1>1, <2>1 DEF Own, AnswersOnce
  <2>3. \A c \in Copies : ~Running(o, c)
      BY <1>1, <2>1, <2>2 DEF Own, OnTrack, Waited, Copies
  <2>4. ASSUME up, o \notin crossed
        PROVE  content[Target] = content[Local(o)]
    <3>1. Progress(o)
        BY <1>1, <2>1, <2>2, <2>4 DEF CopiedSoFar, Unspoilt
    <3>2. content[Subject(o)] = content[Local(o)]
        BY <2>2, <3>1 DEF Progress, Served
    <3>3. CASE kind[o] \notin OfDirectory
        BY <3>2, <3>3 DEF Subject
    <3>4. CASE kind[o] = "upload dir"
      <4>1. Moved(o, "unpack")
          BY <1>1, <3>1, <3>4 DEF Progress
      <4>2. content[Target] = content[Archive(o)]
          BY <4>1, Destinations, Sources DEF Moved
      <4>3. QED
          BY <3>2, <3>4, <4>2 DEF Subject, OfDirectory
    <3>5. CASE kind[o] = "download dir"
      <4>1. Moved(o, "pack")
          BY <1>1, <3>1, <3>5 DEF Progress
      <4>2. content[Archive(o)] = content[Target]
          BY <4>1, Destinations, Sources DEF Moved
      <4>3. QED
          BY <3>2, <3>5, <4>2 DEF Subject, OfDirectory
    <3>6. QED
        BY <3>3, <3>4, <3>5 DEF OfDirectory
  <2>5. QED
      BY <2>3, <2>4
<1>2. IInv => DeliveredWhole
    BY <1>1 DEF DeliveredWhole
<1>3. QED
    BY <1>2, Invariance, PTL
=============================================================================
