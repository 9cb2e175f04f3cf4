------------------------ MODULE HostLauncher_proofs ------------------------
(* What HostLauncher and, over it, RotateOutput promise, for any number of   *)
(* launchers and wrappers.                                                   *)
EXTENDS RotateOutput, TLAPS

\* Only one launcher writes the token file, and until it has, no launcher that
\* uses the file has a token.
OneWriter ==
    /\ \A l \in Launchers : pc[l] = "write" => token = "empty" /\ l \notin Given
    /\ \A l, k \in Launchers : pc[l] = "write" /\ pc[k] = "write" => l = k

\* A token in use is the launcher's own or the one in the file.
HasToken ==
    \A l \in Launchers :
        /\ pc[l] \in {"env", "bind", "serving"} => mine[l] # Nothing
        /\ l \notin Given /\ mine[l] # Nothing => token \in Tokens /\ mine[l] = token

Preparing(l) == pc[l] \in {"token", "write", "env", "bind"}

CleaningUp(l) == pc[l] \in {"unlink env", "unlink socket"}

Serving(l) == pc[l] = "serving"

\* Who can be at work at the same time, if nothing disturbed them: a launcher
\* that prepares is alone; one that serves meets at most launchers that probe
\* its socket; one that found a socket stale can only meet a launcher that
\* stopped meanwhile, and then it finds no socket.
Apart(l, k) ==
    /\ Preparing(l) => ~Busy(k) /\ ~Serving(k)
    /\ Serving(l) => pc[k] = "probe" \/ (~Busy(k) /\ ~Serving(k))
    /\ pc[l] = "unlink" => ~Serving(k)
    /\ pc[l] \in {"probe", "unlink"} /\ Busy(k) => CleaningUp(k) /\ socket = Nothing

Separate == \A l, k \in Launchers : l # k => Apart(l, k)

\* What a launcher wrote is still there when it serves.
Untouched ==
    \A l \in Launchers :
        /\ pc[l] = "bind" => env = mine[l]
        /\ Serving(l) => socket = l /\ env = mine[l]

IInv ==
    /\ TypeOK
    /\ OneWriter
    /\ HasToken
    /\ ~disturbed => Separate /\ Untouched

LEMMA Initially == Init => IInv
  BY HostLauncherAssumption
     DEF Init, IInv, TypeOK, OneWriter, HasToken, Separate, Untouched, Tokens, Stages,
         Apart, Preparing, CleaningUp, Serving, Busy

LEMMA TypingNext == TypeOK /\ [Next]_vars => TypeOK'
  <1> SUFFICES ASSUME TypeOK, [Next]_vars PROVE TypeOK'
    OBVIOUS
  <1> USE HostLauncherAssumption DEF TypeOK, Tokens, Stages, Goto
  <1>1. ASSUME NEW l \in Launchers, Main(l) PROVE TypeOK'
    <2>1. CASE Begin(l)
      BY <2>1 DEF Begin
    <2>2. CASE FindLive(l)
      BY <2>2 DEF FindLive
    <2>3. CASE FindStale(l)
      BY <2>3 DEF FindStale
    <2>4. CASE UnlinkStale(l)
      BY <2>4 DEF UnlinkStale
    <2>5. CASE UseGiven(l)
      BY <2>5 DEF UseGiven
    <2>6. CASE CreateToken(l)
      BY <2>6 DEF CreateToken
    <2>7. CASE WriteToken(l)
      BY <2>7 DEF WriteToken
    <2>8. CASE ReadToken(l)
      BY <2>8 DEF ReadToken
    <2>9. CASE WriteEnv(l)
      BY <2>9 DEF WriteEnv
    <2>10. CASE WriteFails(l)
      BY <2>10 DEF WriteFails
    <2>11. CASE Bind(l)
      BY <2>11 DEF Bind
    <2>12. CASE StartFails(l)
      BY <2>12 DEF StartFails
    <2>13. CASE Stop(l)
      BY <2>13 DEF Stop
    <2>14. CASE UnlinkEnv(l)
      BY <2>14 DEF UnlinkEnv
    <2>15. CASE UnlinkSocket(l)
      BY <2>15 DEF UnlinkSocket
    <2>16. CASE Kill(l)
      BY <2>16 DEF Kill
    <2> QED
      BY <1>1, <2>1, <2>2, <2>3, <2>4, <2>5, <2>6, <2>7, <2>8,
         <2>9, <2>10, <2>11, <2>12, <2>13, <2>14, <2>15, <2>16 DEF Main
  <1>2. CASE UNCHANGED vars
    BY <1>2 DEF vars
  <1> QED BY <1>1, <1>2 DEF Next

LEMMA TokensNext ==
  ASSUME IInv, NEW l \in Launchers, Main(l)
  PROVE  OneWriter' /\ HasToken'
  <1> USE HostLauncherAssumption
      DEF IInv, TypeOK, OneWriter, HasToken, Tokens, Goto
  <1>1. CASE Begin(l)
    BY <1>1 DEF Begin
  <1>2. CASE FindLive(l)
    BY <1>2 DEF FindLive
  <1>3. CASE FindStale(l)
    BY <1>3 DEF FindStale
  <1>4. CASE UnlinkStale(l)
    BY <1>4 DEF UnlinkStale
  <1>5. CASE UseGiven(l)
    BY <1>5 DEF UseGiven
  <1>6. CASE CreateToken(l)
    <2>1. \A k \in Launchers : pc[k] # "write" /\ (k \notin Given => mine[k] = Nothing)
      BY <1>6 DEF CreateToken
    <2>2. /\ token' = "empty" /\ mine' = mine /\ l \notin Given
          /\ \A k \in Launchers : pc'[k] = IF k = l THEN "write" ELSE pc[k]
      BY <1>6 DEF CreateToken
    <2> QED BY <2>1, <2>2
  <1>7. CASE WriteToken(l)
    BY <1>7 DEF WriteToken
  <1>8. CASE ReadToken(l)
    BY <1>8 DEF ReadToken
  <1>9. CASE WriteEnv(l)
    BY <1>9 DEF WriteEnv
  <1>10. CASE WriteFails(l)
    BY <1>10 DEF WriteFails
  <1>11. CASE Bind(l)
    BY <1>11 DEF Bind
  <1>12. CASE StartFails(l)
    BY <1>12 DEF StartFails
  <1>13. CASE Stop(l)
    BY <1>13 DEF Stop
  <1>14. CASE UnlinkEnv(l)
    BY <1>14 DEF UnlinkEnv
  <1>15. CASE UnlinkSocket(l)
    BY <1>15 DEF UnlinkSocket
  <1>16. CASE Kill(l)
    BY <1>16 DEF Kill
  <1> QED BY <1>1, <1>2, <1>3, <1>4, <1>5, <1>6, <1>7, <1>8,
             <1>9, <1>10, <1>11, <1>12, <1>13, <1>14, <1>15, <1>16 DEF Main

\* A step moves one launcher.
LEMMA Moves ==
  ASSUME IInv, NEW l \in Launchers, Main(l)
  PROVE  /\ ~disturbed' => ~disturbed
         /\ \A k \in Launchers \ {l} : pc'[k] = pc[k] /\ mine'[k] = mine[k]
  BY DEF IInv, TypeOK, Goto, Main, Begin, FindLive, FindStale, UnlinkStale, UseGiven, CreateToken,
           WriteToken, ReadToken, WriteEnv, WriteFails, Bind, StartFails, Stop, UnlinkEnv,
           UnlinkSocket, Kill

LEMMA SeparateNext ==
  ASSUME IInv, NEW l \in Launchers, Main(l), ~disturbed'
  PROVE  Separate'
  <1> SUFFICES ASSUME NEW j \in Launchers, NEW k \in Launchers, j # k
               PROVE  Apart(j, k)'
    BY DEF Separate
  <1>0. /\ pc \in [Launchers -> Stages]
        /\ Apart(j, k) /\ Apart(k, j)
        /\ l # j => Apart(l, j) /\ Apart(j, l)
        /\ l # k => Apart(l, k) /\ Apart(k, l)
        /\ \A i \in Launchers : Serving(i) => socket = i
    BY Moves DEF IInv, TypeOK, Separate, Untouched
  <1>00. \A i \in Launchers \ {l} : pc'[i] = pc[i]
    BY Moves
  <1> USE HostLauncherAssumption, <1>0, <1>00
      DEF Apart, Stages, Goto, Preparing, CleaningUp, Serving, Busy
  <1>1. CASE Begin(l)
    BY <1>1 DEF Begin
  <1>2. CASE FindLive(l)
    BY <1>2 DEF FindLive
  <1>3. CASE FindStale(l)
    BY <1>3 DEF FindStale, Listening
  <1>4. CASE UnlinkStale(l)
    BY <1>4 DEF UnlinkStale
  <1>5. CASE UseGiven(l)
    BY <1>5 DEF UseGiven
  <1>6. CASE CreateToken(l)
    BY <1>6 DEF CreateToken
  <1>7. CASE WriteToken(l)
    BY <1>7 DEF WriteToken
  <1>8. CASE ReadToken(l)
    BY <1>8 DEF ReadToken
  <1>9. CASE WriteEnv(l)
    BY <1>9 DEF WriteEnv
  <1>10. CASE WriteFails(l)
    BY <1>10 DEF WriteFails
  <1>11. CASE Bind(l)
    BY <1>11 DEF Bind
  <1>12. CASE StartFails(l)
    BY <1>12 DEF StartFails
  <1>13. CASE Stop(l)
    BY <1>13 DEF Stop
  <1>14. CASE UnlinkEnv(l)
    BY <1>14 DEF UnlinkEnv
  <1>15. CASE UnlinkSocket(l)
    BY <1>15 DEF UnlinkSocket
  <1>16. CASE Kill(l)
    BY <1>16 DEF Kill
  <1> QED BY <1>1, <1>2, <1>3, <1>4, <1>5, <1>6, <1>7, <1>8,
             <1>9, <1>10, <1>11, <1>12, <1>13, <1>14, <1>15, <1>16 DEF Main

LEMMA UntouchedNext ==
  ASSUME IInv, NEW l \in Launchers, Main(l), ~disturbed'
  PROVE  Untouched'
  <1> SUFFICES ASSUME NEW k \in Launchers
               PROVE  /\ pc'[k] = "bind" => env' = mine'[k]
                      /\ Serving(k)' => socket' = k /\ env' = mine'[k]
    BY DEF Untouched
  <1>0. /\ pc \in [Launchers -> Stages]
        /\ mine \in [Launchers -> Tokens \cup {Nothing}]
        /\ l # k => Apart(l, k) /\ Apart(k, l)
        /\ pc[k] = "bind" => env = mine[k]
        /\ Serving(k) => socket = k /\ env = mine[k]
    BY Moves DEF IInv, TypeOK, Separate, Untouched
  <1>00. l # k => pc'[k] = pc[k] /\ mine'[k] = mine[k]
    BY Moves
  <1> USE HostLauncherAssumption, <1>0, <1>00
      DEF Apart, Stages, Goto, Preparing, CleaningUp, Serving, Busy
  <1>1. CASE Begin(l)
    BY <1>1 DEF Begin
  <1>2. CASE FindLive(l)
    BY <1>2 DEF FindLive
  <1>3. CASE FindStale(l)
    BY <1>3 DEF FindStale, Listening
  <1>4. CASE UnlinkStale(l)
    BY <1>4 DEF UnlinkStale
  <1>5. CASE UseGiven(l)
    BY <1>5 DEF UseGiven
  <1>6. CASE CreateToken(l)
    BY <1>6 DEF CreateToken
  <1>7. CASE WriteToken(l)
    BY <1>7 DEF WriteToken
  <1>8. CASE ReadToken(l)
    BY <1>8 DEF ReadToken
  <1>9. CASE WriteEnv(l)
    BY <1>9 DEF WriteEnv
  <1>10. CASE WriteFails(l)
    BY <1>10 DEF WriteFails
  <1>11. CASE Bind(l)
    BY <1>11 DEF Bind
  <1>12. CASE StartFails(l)
    BY <1>12 DEF StartFails
  <1>13. CASE Stop(l)
    BY <1>13 DEF Stop
  <1>14. CASE UnlinkEnv(l)
    BY <1>14 DEF UnlinkEnv
  <1>15. CASE UnlinkSocket(l)
    BY <1>15 DEF UnlinkSocket
  <1>16. CASE Kill(l)
    BY <1>16 DEF Kill
  <1> QED BY <1>1, <1>2, <1>3, <1>4, <1>5, <1>6, <1>7, <1>8,
             <1>9, <1>10, <1>11, <1>12, <1>13, <1>14, <1>15, <1>16 DEF Main

LEMMA StepKeeps == IInv /\ [Next]_vars => IInv'
  <1>1. ASSUME IInv, UNCHANGED vars PROVE IInv'
    BY <1>1 DEF vars, IInv, TypeOK, OneWriter, HasToken, Separate, Untouched,
                Apart, Preparing, CleaningUp, Serving, Busy
  <1>2. ASSUME IInv, NEW l \in Launchers, Main(l) PROVE IInv'
    <2>1. TypeOK'
      BY <1>2, TypingNext DEF Next, IInv
    <2> QED BY <1>2, <2>1, TokensNext, SeparateNext, UntouchedNext DEF IInv
  <1> QED BY <1>1, <1>2 DEF Next

LEMMA Invariant == Spec => []IInv
  BY Initially, StepKeeps, PTL DEF Spec

\* The launchers' variables keep their types.
THEOREM TypeCorrect == Spec => []TypeOK
  BY Invariant, PTL DEF IInv

\* An undisturbed broker is the one clients reach, with the token they have.
THEOREM ServingStaysExposed == Spec => []ServingIsExposed
  <1>1. IInv => ServingIsExposed
    BY DEF IInv, Untouched, Serving, ServingIsExposed, Listening
  <1> QED BY <1>1, Invariant, PTL

\* All brokers that use the token file serve with the same token.
THEOREM ServedWithOneToken == Spec => []OneToken
  <1>1. IInv => OneToken
    BY DEF IInv, HasToken, OneToken, Listening
  <1> QED BY <1>1, Invariant, PTL

\* Whoever is responsible for a file that is there: a launcher that has not come
\* to removing it, or never will.
EnvOwned == \E l \in Launchers : pc[l] \in {"bind", "serving", "unlink env", "refused", "killed"}
SocketOwned == \E l \in Launchers : pc[l] \in {"serving", "killed"}
Owned == (env # Nothing => EnvOwned) /\ (socket # Nothing => SocketOwned)

\* A launcher that removes nothing stays responsible if it was.
LEMMA OwnersStay ==
  ASSUME TypeOK, NEW l \in Launchers, Main(l)
  PROVE  /\ EnvOwned => EnvOwned' \/ env' = Nothing
         /\ SocketOwned => SocketOwned' \/ socket' = Nothing
  <1>1. ASSUME NEW k \in Launchers,
               pc[k] \in {"bind", "serving", "unlink env", "refused", "killed"}
        PROVE  pc'[k] \in {"bind", "serving", "unlink env", "refused", "killed"} \/ env' = Nothing
    BY <1>1 DEF TypeOK, Goto, Main, Busy, Begin, FindLive, FindStale, UnlinkStale, UseGiven,
       CreateToken, WriteToken, ReadToken, WriteEnv, WriteFails, Bind, StartFails, Stop,
       UnlinkEnv, UnlinkSocket, Kill
  <1>2. ASSUME NEW k \in Launchers, pc[k] \in {"serving", "killed"}
        PROVE  pc'[k] \in {"serving", "killed"} \/ socket' = Nothing
    BY <1>2 DEF TypeOK, Goto, Main, Busy, Begin, FindLive, FindStale, UnlinkStale, UseGiven,
       CreateToken, WriteToken, ReadToken, WriteEnv, WriteFails, Bind, StartFails, Stop,
       UnlinkEnv, UnlinkSocket, Kill
  <1> QED BY <1>1, <1>2 DEF EnvOwned, SocketOwned

\* A launcher that makes a file becomes responsible for it.
LEMMA MakersOwn ==
  ASSUME TypeOK, NEW l \in Launchers, Main(l)
  PROVE  /\ env' \in {env, Nothing} \/ EnvOwned'
         /\ socket' \in {socket, Nothing} \/ SocketOwned'
  <1>1. env' \in {env, Nothing} \/ pc'[l] = "bind"
    BY DEF TypeOK, Goto, Main, Begin, FindLive, FindStale, UnlinkStale, UseGiven,
       CreateToken, WriteToken, ReadToken, WriteEnv, WriteFails, Bind, StartFails, Stop,
       UnlinkEnv, UnlinkSocket, Kill
  <1>2. socket' \in {socket, Nothing} \/ pc'[l] = "serving"
    BY DEF TypeOK, Goto, Main, Begin, FindLive, FindStale, UnlinkStale, UseGiven,
       CreateToken, WriteToken, ReadToken, WriteEnv, WriteFails, Bind, StartFails, Stop,
       UnlinkEnv, UnlinkSocket, Kill
  <1> QED BY <1>1, <1>2 DEF EnvOwned, SocketOwned

\* Nothing is left behind in a directory where no launcher failed.
THEOREM DirectoryTidy == Spec => []EnvOnlyWhileServing
  <1>1. Init => Owned
    BY DEF Init, Owned
  <1>2. IInv /\ Owned /\ [Next]_vars => Owned'
    <2>1. ASSUME IInv, Owned, NEW l \in Launchers, Main(l) PROVE Owned'
      BY <2>1, OwnersStay, MakersOwn DEF IInv, Owned
    <2>2. ASSUME Owned, UNCHANGED vars PROVE Owned'
      BY <2>2 DEF Owned, EnvOwned, SocketOwned, vars
    <2> QED BY <2>1, <2>2 DEF Next
  <1>3. Owned => EnvOnlyWhileServing
    BY DEF Owned, EnvOwned, SocketOwned, EnvOnlyWhileServing
  <1> QED BY <1>1, <1>2, <1>3, Invariant, PTL DEF Spec

\* The token of a directory never changes.
THEOREM TokenKept == Spec => TokenStable
  <1>1. IInv /\ [Next]_vars => ((token \in Tokens) => (token' = token)) \/ UNCHANGED vars
    <2> SUFFICES ASSUME IInv, NEW l \in Launchers, Main(l), token \in Tokens
                 PROVE  token' = token
      BY DEF Next
    <2> QED
      BY HostLauncherAssumption
         DEF IInv, OneWriter, Tokens, Main, Begin, FindLive, FindStale, UnlinkStale, UseGiven,
             CreateToken, WriteToken, ReadToken, WriteEnv, WriteFails, Bind, StartFails, Stop,
             UnlinkEnv, UnlinkSocket, Kill
  <1> QED BY <1>1, Invariant, PTL DEF Spec, TokenStable

-----------------------------------------------------------------------------
(* RotateOutput *)

\* What the wrapper and uv do leaves the launchers and their files alone.
LEMMA WrappingHides ==
  ASSUME NEW l \in Wrapped, Wrapping(l)
  PROVE  UNCHANGED vars
  BY DEF Wrapping, Fork, Attach, ReadChunk, Return, Forward, WrapperDies, Emit, LeaderEnds

LEMMA StepMaps == [WrappingNext]_allVars => [Next]_vars
  <1>1. ASSUME NEW l \in Launchers, Launch(l) PROVE Next
    BY <1>1 DEF Launch, Next
  <1>2. ASSUME UNCHANGED allVars PROVE UNCHANGED vars
    BY <1>2 DEF allVars
  <1> QED BY <1>1, <1>2, WrappingHides DEF WrappingNext

\* A launcher that is run by the wrapper is one that HostLauncher describes:
\* what holds of those holds here.
THEOREM WrappedLaunchersAreLaunchers == WrappingSpec => Spec
  <1>1. WrappingInit => Init
    BY DEF WrappingInit
  <1> QED BY <1>1, StepMaps, PTL DEF WrappingSpec, Spec

-----------------------------------------------------------------------------

WrappingIInv == WrappingTypeOK /\ ReturnsLast

LEMMA WrappingInitially == WrappingInit => WrappingIInv
  <1> SUFFICES ASSUME WrappingInit PROVE WrappingIInv
    OBVIOUS
  <1>1. TypeOK
    BY Initially DEF WrappingInit, IInv
  <1>2. \A l \in Wrapped : pc[l] = "new"
    BY RotateOutputAssumption DEF WrappingInit, Init
  <1> QED BY <1>1, <1>2 DEF WrappingInit, WrappingIInv, WrappingTypeOK, ReturnsLast

\* A launcher that is over stays so, and one that was not started does too as
\* long as uv is not there to start it.
LEMMA LaunchKeeps ==
  ASSUME WrappingIInv, NEW l \in Launchers, Launch(l)
  PROVE  WrappingIInv'
  <1>1. TypeOK'
    BY TypingNext DEF Launch, Next, WrappingIInv, WrappingTypeOK
  <1>2. /\ ~Over(l)
        /\ l \in Wrapped /\ pc[l] = "new" => leader[l]
        /\ UNCHANGED wrapping
        /\ \A k \in Launchers \ {l} : pc'[k] = pc[k]
    BY DEF WrappingIInv, WrappingTypeOK, TypeOK, Launch, Over, Goto, Busy, Main, Begin, FindLive,
       FindStale, UnlinkStale, UseGiven, CreateToken, WriteToken, ReadToken, WriteEnv, WriteFails,
       Bind, StartFails, Stop, UnlinkEnv, UnlinkSocket, Kill
  <1> QED BY <1>1, <1>2, RotateOutputAssumption
             DEF WrappingIInv, WrappingTypeOK, ReturnsLast, Over, wrapping

LEMMA WrappingKeeps ==
  ASSUME WrappingIInv, NEW l \in Wrapped, Wrapping(l)
  PROVE  WrappingIInv'
  <1>0. UNCHANGED vars /\ TypeOK'
    BY WrappingHides, TypingNext DEF WrappingIInv, WrappingTypeOK
  <1> USE <1>0 DEF WrappingIInv, WrappingTypeOK, ReturnsLast, Over, Go, vars
  <1>1. CASE Fork(l)
    BY <1>1 DEF Fork
  <1>2. CASE Attach(l)
    BY <1>2 DEF Attach
  <1>3. CASE ReadChunk(l)
    BY <1>3 DEF ReadChunk
  <1>4. CASE Return(l)
    BY <1>4 DEF Return
  <1>5. CASE Forward(l)
    BY <1>5 DEF Forward
  <1>6. CASE WrapperDies(l)
    BY <1>6 DEF WrapperDies
  <1>7. CASE Emit(l)
    BY <1>7 DEF Emit
  <1>8. CASE LeaderEnds(l)
    BY <1>8 DEF LeaderEnds
  <1> QED BY <1>1, <1>2, <1>3, <1>4, <1>5, <1>6, <1>7, <1>8 DEF Wrapping

LEMMA WrappingInvariant == WrappingSpec => []WrappingIInv
  <1>1. ASSUME WrappingIInv, UNCHANGED allVars PROVE WrappingIInv'
    BY <1>1 DEF allVars, vars, wrapping, WrappingIInv, WrappingTypeOK, TypeOK, ReturnsLast, Over
  <1>2. WrappingIInv /\ [WrappingNext]_allVars => WrappingIInv'
    BY <1>1, LaunchKeeps, WrappingKeeps DEF WrappingNext
  <1> QED BY <1>2, WrappingInitially, PTL DEF WrappingSpec

\* The variables of wrappers and launchers keep their types.
THEOREM WrappingTypeCorrect == WrappingSpec => []WrappingTypeOK
  BY WrappingInvariant, PTL DEF WrappingIInv

\* A wrapper that returned leaves no process behind, and nothing unread.
THEOREM WrapperReturnsLast == WrappingSpec => []ReturnsLast
  BY WrappingInvariant, PTL DEF WrappingIInv
=============================================================================
