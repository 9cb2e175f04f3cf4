---------------------------- MODULE HostLauncher ----------------------------
(***************************************************************************)
(* The host launcher (host.py): processes that prepare one runtime         *)
(* directory, serve on its socket, and clean up, with nothing between them *)
(* but the files.  One action is one file operation, or the probe of a     *)
(* socket; a process may be killed between any two.                        *)
(***************************************************************************)

CONSTANTS
    Launchers,     \* processes, each runs main() once
    Given,         \* those that get their token from DSB_AUTH_TOKEN
    Nothing        \* a file that does not exist, a token not known yet

ASSUME HostLauncherAssumption ==
    /\ Given \subseteq Launchers
    /\ Nothing \notin Launchers \cup {"empty"}
    /\ "empty" \notin Launchers

VARIABLES
    pc,          \* how far a launcher is
    socket,      \* broker.sock: the launcher that bound it
    token,       \* the token file: "empty", or the launcher that made it up
    env,         \* container.env: the token in it
    mine,        \* the token a launcher serves with
    disturbed    \* a launcher began while another was at work on the files, or
                 \* a broker missed a probe; not a variable of the code

vars == <<pc, socket, token, env, mine, disturbed>>

\* A token is named after the launcher that made it up or was given it.
Tokens == Launchers

Stages == {"new", "probe", "unlink", "token", "write", "env", "bind", "serving",
           "unlink env", "unlink socket", "ended", "refused", "killed"}

TypeOK ==
    /\ pc \in [Launchers -> Stages]
    /\ socket \in Launchers \cup {Nothing}
    /\ token \in Tokens \cup {Nothing, "empty"}
    /\ env \in Tokens \cup {Nothing}
    /\ mine \in [Launchers -> Tokens \cup {Nothing}]
    /\ disturbed \in BOOLEAN

Init ==
    /\ pc = [l \in Launchers |-> "new"]
    /\ socket = Nothing
    /\ token = Nothing
    /\ env = Nothing
    /\ mine = [l \in Launchers |-> Nothing]
    /\ disturbed = FALSE

Goto(l, stage) == pc' = [pc EXCEPT ![l] = stage]

\* Neither serving nor finished: at work on the files.
Busy(l) == pc[l] \notin {"new", "serving", "ended", "refused", "killed"}

Listening == {l \in Launchers : pc[l] = "serving"}

-----------------------------------------------------------------------------
(* prepare_runtime *)

\* lstat of the socket path.
Begin(l) ==
    /\ pc[l] = "new"
    /\ Goto(l, IF socket = Nothing THEN "token" ELSE "probe")
    /\ disturbed' = (disturbed \/ \E k \in Launchers : Busy(k))
    /\ UNCHANGED <<socket, token, env, mine>>

\* Seeded fault: a socket that exists is taken for a stale one.
ProbeSkipped(l) ==
    /\ pc[l] = "probe"
    /\ Goto(l, "unlink")
    /\ UNCHANGED <<socket, token, env, mine, disturbed>>

\* Somebody answers GET /health: refuse to start.
FindLive(l) ==
    /\ pc[l] = "probe"
    /\ socket \in Listening
    /\ Goto(l, "refused")
    /\ UNCHANGED <<socket, token, env, mine, disturbed>>

\* Nobody answers in half a second; a broker that listens but is busy may not.
FindStale(l) ==
    /\ pc[l] = "probe"
    /\ Goto(l, "unlink")
    /\ disturbed' = (disturbed \/ socket \in Listening)
    /\ UNCHANGED <<socket, token, env, mine>>

\* The path is unlinked, whatever it is by now; if it is gone, unlink raises.
UnlinkStale(l) ==
    /\ pc[l] = "unlink"
    /\ Goto(l, IF socket = Nothing THEN "refused" ELSE "token")
    /\ socket' = Nothing
    /\ UNCHANGED <<token, env, mine, disturbed>>

UseGiven(l) ==
    /\ pc[l] = "token"
    /\ l \in Given
    /\ Goto(l, "env")
    /\ mine' = [mine EXCEPT ![l] = l]
    /\ UNCHANGED <<socket, token, env, disturbed>>

\* Seeded fault: the token file is opened without O_EXCL, and truncated.
TruncateToken(l) ==
    /\ pc[l] = "token"
    /\ l \notin Given
    /\ Goto(l, "write")
    /\ token' = "empty"
    /\ UNCHANGED <<socket, env, mine, disturbed>>

\* The exclusive creation of the token file succeeds ...
CreateToken(l) ==
    /\ pc[l] = "token"
    /\ l \notin Given
    /\ token = Nothing
    /\ Goto(l, "write")
    /\ token' = "empty"
    /\ UNCHANGED <<socket, env, mine, disturbed>>

\* ... and only then is the token written.
WriteToken(l) ==
    /\ pc[l] = "write"
    /\ Goto(l, "env")
    /\ token' = l
    /\ mine' = [mine EXCEPT ![l] = l]
    /\ UNCHANGED <<socket, env, disturbed>>

\* Seeded fault: the length of the token is not checked.
ReadAnyToken(l) ==
    /\ pc[l] = "token"
    /\ l \notin Given
    /\ token # Nothing
    /\ Goto(l, "env")
    /\ mine' = [mine EXCEPT ![l] = token]
    /\ UNCHANGED <<socket, token, env, disturbed>>

\* Seeded fault: a launcher that finds the file there serves with a new token.
IgnoreToken(l) ==
    /\ pc[l] = "token"
    /\ l \notin Given
    /\ token # Nothing
    /\ Goto(l, "env")
    /\ mine' = [mine EXCEPT ![l] = l]
    /\ UNCHANGED <<socket, token, env, disturbed>>

\* The file exists.  One that is still (or was left) empty is refused.
ReadToken(l) ==
    /\ pc[l] = "token"
    /\ l \notin Given
    /\ token # Nothing
    /\ IF token = "empty"
         THEN Goto(l, "refused") /\ UNCHANGED mine
         ELSE Goto(l, "env") /\ mine' = [mine EXCEPT ![l] = token]
    /\ UNCHANGED <<socket, token, env, disturbed>>

\* container.env is replaced in one step.
WriteEnv(l) ==
    /\ pc[l] = "env"
    /\ Goto(l, "bind")
    /\ env' = mine[l]
    /\ UNCHANGED <<socket, token, mine, disturbed>>

\* A file cannot be written: prepare_runtime raises and nothing is cleaned up.
WriteFails(l) ==
    /\ pc[l] \in {"write", "env"}
    /\ Goto(l, "refused")
    /\ UNCHANGED <<socket, token, env, mine, disturbed>>

-----------------------------------------------------------------------------
(* main *)

\* The server binds the path; asyncio first removes a socket that is there.
Bind(l) ==
    /\ pc[l] = "bind"
    /\ Goto(l, "serving")
    /\ socket' = l
    /\ UNCHANGED <<token, env, mine, disturbed>>

\* The settings are refused or the server cannot start.
StartFails(l) ==
    /\ pc[l] = "bind"
    /\ Goto(l, "unlink env")
    /\ UNCHANGED <<socket, token, env, mine, disturbed>>

\* The server stops; uvicorn removes the path it was given.
Stop(l) ==
    /\ pc[l] = "serving"
    /\ Goto(l, "unlink env")
    /\ socket' = Nothing
    /\ UNCHANGED <<token, env, mine, disturbed>>

\* Seeded fault: the server's end leaves container.env.
KeepEnv(l) ==
    /\ pc[l] = "unlink env"
    /\ Goto(l, "unlink socket")
    /\ UNCHANGED <<socket, token, env, mine, disturbed>>

\* cleanup_runtime, first half
UnlinkEnv(l) ==
    /\ pc[l] = "unlink env"
    /\ Goto(l, "unlink socket")
    /\ env' = Nothing
    /\ UNCHANGED <<socket, token, mine, disturbed>>

\* cleanup_runtime, second half
UnlinkSocket(l) ==
    /\ pc[l] = "unlink socket"
    /\ Goto(l, "ended")
    /\ socket' = Nothing
    /\ UNCHANGED <<token, env, mine, disturbed>>

Kill(l) ==
    /\ Busy(l) \/ pc[l] = "serving"
    /\ Goto(l, "killed")
    /\ UNCHANGED <<socket, token, env, mine, disturbed>>

Main(l) ==
    \/ Begin(l)
    \/ FindLive(l)
    \/ FindStale(l)
    \/ UnlinkStale(l)
    \/ UseGiven(l)
    \/ CreateToken(l)
    \/ WriteToken(l)
    \/ ReadToken(l)
    \/ WriteEnv(l)
    \/ WriteFails(l)
    \/ Bind(l)
    \/ StartFails(l)
    \/ Stop(l)
    \/ UnlinkEnv(l)
    \/ UnlinkSocket(l)
    \/ Kill(l)

Next == \E l \in Launchers : Main(l)

Spec == Init /\ [][Next]_vars

-----------------------------------------------------------------------------
(* Properties *)

\* A broker that serves is the one behind broker.sock, and container.env has
\* its token, whatever launchers were refused, failed or were killed before and
\* since, as long as none begins while another is at work on the files and no
\* broker misses a probe.  (Otherwise a launcher unlinks, or replaces, the
\* socket of a broker that serves.)
ServingIsExposed ==
    ~disturbed =>
        \A l \in Listening : socket = l /\ env = mine[l]

\* All brokers without a token of their own serve with the one in the token
\* file, also when their launchers race to create it.
OneToken ==
    \A l \in Listening \ Given : mine[l] = token

\* Once the directory has a token it keeps it, across restarts and crashes.
TokenStable == [][(token \in Tokens) => (token' = token)]_vars

\* A directory that no launcher was killed in, or gave up in, shows a socket and
\* container.env only while one is at work or serving, however they overlapped.
EnvOnlyWhileServing ==
    (\A l \in Launchers : pc[l] \in {"new", "ended"}) => env = Nothing /\ socket = Nothing
=============================================================================
