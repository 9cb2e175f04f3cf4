---------------------------- MODULE RotateOutput ----------------------------
(***************************************************************************)
(* "just start": scripts/rotate_output.py runs the host launcher through   *)
(* uv, in a session of its own, reads what both print from a pipe, and     *)
(* passes on the signals it gets.  The launchers are those of              *)
(* HostLauncher; some of them are run that way.                            *)
(***************************************************************************)
EXTENDS HostLauncher

CONSTANT Wrapped     \* launchers that are run by a wrapper

ASSUME RotateOutputAssumption == Wrapped \subseteq Launchers

VARIABLES
    wrapper,     \* how far the wrapper of a launcher is
    leader,      \* its child (uv, parent of the launcher) is there
    unread,      \* there is output in the pipe
    told         \* those of the child and the launcher that got SIGTERM or SIGINT

wrapping == <<wrapper, leader, unread, told>>
allVars == <<vars, wrapping>>

\* The launcher's process has ended.
Over(l) == pc[l] \in {"ended", "refused", "killed"}

WrappingTypeOK ==
    /\ TypeOK
    /\ wrapper \in [Wrapped -> {"none", "forked", "reading", "returned", "dead"}]
    /\ leader \in [Wrapped -> BOOLEAN]
    /\ unread \in [Wrapped -> BOOLEAN]
    /\ told \in [Wrapped -> SUBSET {"child", "launcher"}]
    /\ \A l \in Wrapped :
          wrapper[l] = "none" => pc[l] = "new" /\ ~leader[l] /\ ~unread[l] /\ told[l] = {}

WrappingInit ==
    /\ Init
    /\ wrapper = [l \in Wrapped |-> "none"]
    /\ leader = [l \in Wrapped |-> FALSE]
    /\ unread = [l \in Wrapped |-> FALSE]
    /\ told = [l \in Wrapped |-> {}]

Go(l, stage) == wrapper' = [wrapper EXCEPT ![l] = stage]

-----------------------------------------------------------------------------
(* main of the wrapper *)

\* Popen
Fork(l) ==
    /\ wrapper[l] = "none"
    /\ Go(l, "forked")
    /\ leader' = [leader EXCEPT ![l] = TRUE]
    /\ UNCHANGED <<vars, unread, told>>

\* The signal handlers are installed.
Attach(l) ==
    /\ wrapper[l] = "forked"
    /\ Go(l, "reading")
    /\ UNCHANGED <<vars, leader, unread, told>>

\* A chunk is read, and written or, if the log cannot be written, dropped.
\* There may be more.
ReadChunk(l) ==
    /\ wrapper[l] = "reading"
    /\ unread[l]
    /\ unread' = [unread EXCEPT ![l] = FALSE]
    /\ UNCHANGED <<vars, wrapper, leader, told>>

\* Seeded fault: the loop ends with the child, not with its output.
ReturnWithLeader(l) ==
    /\ wrapper[l] = "reading"
    /\ ~leader[l]
    /\ Go(l, "returned")
    /\ UNCHANGED <<vars, leader, unread, told>>

\* End of file: nobody has the other end of the pipe open.  wait() returns.
Return(l) ==
    /\ wrapper[l] = "reading"
    /\ ~unread[l]
    /\ ~leader[l]
    /\ Over(l) \/ pc[l] = "new"
    /\ Go(l, "returned")
    /\ UNCHANGED <<vars, leader, unread, told>>

\* Seeded fault: the signal goes to the child alone, which ends.
ForwardToChild(l) ==
    /\ wrapper[l] = "reading"
    /\ leader[l]
    /\ told' = [told EXCEPT ![l] = {"child"}]
    /\ UNCHANGED <<vars, wrapper, leader, unread>>

\* forward: to the process group, but only while the child is there.
Forward(l) ==
    /\ wrapper[l] = "reading"
    /\ leader[l]
    /\ told' = [told EXCEPT ![l] = {"child", "launcher"}]
    /\ UNCHANGED <<vars, wrapper, leader, unread>>

\* SIGKILL; or a signal when there is no handler yet.  The child is in another
\* session and goes on.
WrapperDies(l) ==
    /\ wrapper[l] \in {"forked", "reading"}
    /\ Go(l, "dead")
    /\ unread' = [unread EXCEPT ![l] = FALSE]
    /\ UNCHANGED <<vars, leader, told>>

-----------------------------------------------------------------------------
(* The process group *)

\* They print as long as either is there; without a wrapper it is lost.
Emit(l) ==
    /\ wrapper[l] \in {"forked", "reading"}
    /\ leader[l] \/ Busy(l) \/ l \in Listening
    /\ unread' = [unread EXCEPT ![l] = TRUE]
    /\ UNCHANGED <<vars, wrapper, leader, told>>

\* uv ends.  That is for whatever reason; see Fairness for when it has to.
LeaderEnds(l) ==
    /\ leader[l]
    /\ leader' = [leader EXCEPT ![l] = FALSE]
    /\ UNCHANGED <<vars, wrapper, unread, told>>

\* A launcher takes a step; uv starts it if it is wrapped.
Launch(l) ==
    /\ l \in Wrapped /\ pc[l] = "new" => leader[l]
    /\ Main(l)
    /\ UNCHANGED wrapping

Wrapping(l) ==
    \/ Fork(l)
    \/ Attach(l)
    \/ ReadChunk(l)
    \/ Return(l)
    \/ Forward(l)
    \/ WrapperDies(l)
    \/ Emit(l)
    \/ LeaderEnds(l)

WrappingNext ==
    \/ \E l \in Launchers : Launch(l)
    \/ \E l \in Wrapped : Wrapping(l)

\* A launcher that got the signal: uvicorn shuts down, and the cleanup follows
\* unless uvicorn, which then raises the signal again, ends the process; at any
\* other moment the signal does.
Obey(l) ==
    /\ "launcher" \in told[l]
    /\ Stop(l) \/ StartFails(l) \/ UnlinkEnv(l) \/ UnlinkSocket(l) \/ Kill(l)
    /\ UNCHANGED wrapping

\* uv waits for its child; without one, it ends when it is told.
LeaderFollows(l) ==
    /\ Over(l) \/ (pc[l] = "new" /\ "child" \in told[l])
    /\ LeaderEnds(l)

Fairness ==
    \A l \in Wrapped :
        /\ WF_allVars(ReadChunk(l))
        /\ WF_allVars(Return(l))
        /\ WF_allVars(Obey(l))
        /\ WF_allVars(LeaderFollows(l))

WrappingSpec == WrappingInit /\ [][WrappingNext]_allVars /\ Fairness

-----------------------------------------------------------------------------
(* Properties *)

\* A wrapper that returns by itself is the last: the launcher and uv are gone,
\* and what they printed until then, its last words included, has been read.
ReturnsLast ==
    \A l \in Wrapped :
        wrapper[l] = "returned" =>
            /\ Over(l) \/ pc[l] = "new"
            /\ ~leader[l]
            /\ ~unread[l]

\* A signal that was passed on ends the launcher, uv and the wrapper, also when
\* it comes while the launcher is still at work on its files, and when the
\* wrapper is killed after it.
SignalEnds ==
    \A l \in Wrapped :
        told[l] # {} ~> /\ Over(l) \/ pc[l] = "new"
                        /\ ~leader[l]
                        /\ wrapper[l] \in {"returned", "dead"}
=============================================================================
