--------------------------- MODULE DevicesProofs ---------------------------
(***************************************************************************)
(* The safety properties of Devices, for every value of its constants: its *)
(* invariant DInv is inductive and implies them.                           *)
(***************************************************************************)
EXTENDS DevicesInv, TLAPS, WellFoundedInduction

(* First(ks) is the least element of ks.                                   *)
LEMMA FirstIsIn ==
  ASSUME NEW ks \in SUBSET Nat, ks # {}
  PROVE  First(ks) \in ks
<1>1. IsWellFoundedOn(OpToRel(<, Nat), Nat)
  BY NatLessThanWellFounded
<1>2. PICK k \in ks : \A l \in ks : ~(<<l, k>> \in OpToRel(<, Nat))
  BY <1>1, WFMin
<1>3. \A l \in ks : ~(l < k)
  BY <1>2 DEF OpToRel
<1>4. \E m \in ks : \A l \in ks : m <= l
  BY <1>3
<1> QED BY <1>4 DEF First

(* A read of no or of one chunk fits into the caller's buffer.             *)
LEMMA AsSizeSmall == AsSize(0) < OutSize /\ AsSize(1) < OutSize
<1>1. SizeMod \in Nat /\ OutSize \in Nat /\ OutSize >= 2 /\ SizeMod >= 3
  BY SizeAssumption
<1>2. (0 + SizeMod) % SizeMod = 0
  BY <1>1
<1>3. (1 + SizeMod) % SizeMod = 1
  BY <1>1
<1> QED BY <1>1, <1>2, <1>3 DEF AsSize

-----------------------------------------------------------------------------
(* One command changes.                                                    *)
LEMMA SetCommand ==
  ASSUME CommandInv, NEW t \in Callers,
         cmd' \in [Callers -> Commands],
         \A u \in Callers : u # t => cmd'[u] = cmd[u],
         CommandOK(cmd'[t]),
         read_errors' \in Nat, zombies' \in Nat,
         zombies' + Behind(cmd'[t]) + read_errors <= zombies + Behind(cmd[t]) + read_errors'
  PROVE  CommandInv'
<1>1. Callers = {"video", "reload"}
  BY DevicesAssumption
<1>2. \A c : Behind(c) \in Nat
  BY DEF Behind
<1> HIDE DEF Behind
<1>3. (zombies + Behind(cmd["video"]) + Behind(cmd["reload"]) <= read_errors)'
  BY <1>1, <1>2 DEF CommandInv
<1> QED BY <1>3 DEF CommandInv, CommandOK, Behind

(* Every step of a command keeps pipe, program and the count of programs   *)
(* left behind in order, and concerns no other command.                    *)
LEMMA CommandKeeps ==
  ASSUME CommandInv, NEW t \in Callers,
         \/ CommandStep(t) \/ ProgramEnds(t) \/ Returned(t)
         \/ \E out \in BOOLEAN : adb_execute(t, out)
  PROVE  CommandInv' /\ \A u \in Callers : u # t => cmd'[u] = cmd[u]
<1> USE DEF At
<1>1. /\ cmd \in [Callers -> Commands] /\ cmd[t] \in Commands
      /\ read_errors \in Nat /\ zombies \in Nat
      /\ CommandOK(cmd[t])
  BY DEF CommandInv
<1>2. ASSUME NEW e \in Commands, cmd' = [cmd EXCEPT ![t] = e]
      PROVE  cmd' \in [Callers -> Commands] /\ cmd'[t] = e
             /\ \A u \in Callers : u # t => cmd'[u] = cmd[u]
  BY <1>1, <1>2
<1>3. ASSUME NEW e \in Commands, cmd' = [cmd EXCEPT ![t] = e], CommandOK(e),
             UNCHANGED <<read_errors, zombies>>, Behind(e) = 0
      PROVE  CommandInv' /\ \A u \in Callers : u # t => cmd'[u] = cmd[u]
  <2>1. Behind(cmd[t]) \in Nat
    BY DEF Behind
  <2> HIDE DEF Behind
  <2>2. zombies' + Behind(cmd'[t]) + read_errors <= zombies + Behind(cmd[t]) + read_errors'
    BY <1>1, <1>2, <1>3, <2>1
  <2> QED BY <1>1, <1>2, <1>3, <2>2, SetCommand
<1>4. CASE \E out \in BOOLEAN : adb_execute(t, out)
  <2>1. PICK out \in BOOLEAN : adb_execute(t, out)
    BY <1>4
  <2> DEFINE e == [NoCommand EXCEPT !.pc = "pipe", !.out = out]
  <2>2. NoCommand \in Commands
    BY DEF NoCommand, Commands, CommandSteps
  <2>3. e \in Commands
    BY <2>2 DEF Commands, CommandSteps
  <2>4. e.pc = "pipe" /\ e.pipe = {} /\ e.child = "none"
    BY DEF NoCommand
  <2>5. cmd' = [cmd EXCEPT ![t] = e] /\ UNCHANGED <<read_errors, zombies>>
    BY <2>1 DEF adb_execute
  <2> HIDE DEF e
  <2>6. CommandOK(e) /\ Behind(e) = 0
    BY <2>4 DEF CommandOK, Behind
  <2> QED BY <1>3, <2>3, <2>5, <2>6
<1>5. CASE Returned(t)
  <2>1. NoCommand \in Commands /\ CommandOK(NoCommand) /\ Behind(NoCommand) = 0
    BY DEF NoCommand, Commands, CommandSteps, CommandOK, Behind
  <2> QED BY <1>3, <1>5, <2>1 DEF Returned
<1>6. CASE Pipe(t)
  <2>1. CASE cmd' = [cmd EXCEPT ![t].pc = "fork", ![t].pipe = {"read", "write"}]
    <3> DEFINE e == [cmd[t] EXCEPT !.pc = "fork", !.pipe = {"read", "write"}]
    <3>1. cmd' = [cmd EXCEPT ![t] = e]
      BY <1>1, <2>1
    <3>2. e \in Commands /\ CommandOK(e) /\ Behind(e) = 0
      BY <1>1, <1>6 DEF Pipe, Commands, CommandSteps, CommandOK, Behind
    <3> HIDE DEF e
    <3> QED BY <1>3, <1>6, <3>1, <3>2 DEF Pipe
  <2>2. CASE cmd' = [cmd EXCEPT ![t].pc = "done"]
    <3> DEFINE e == [cmd[t] EXCEPT !.pc = "done"]
    <3>1. cmd' = [cmd EXCEPT ![t] = e]
      BY <1>1, <2>2
    <3>2. e \in Commands /\ CommandOK(e) /\ Behind(e) = 0
      BY <1>1, <1>6 DEF Pipe, Commands, CommandSteps, CommandOK, Behind
    <3> HIDE DEF e
    <3> QED BY <1>3, <1>6, <3>1, <3>2 DEF Pipe
  <2> QED BY <1>6, <2>1, <2>2 DEF Pipe
<1>7. CASE ForkFail(t)
  <2> DEFINE e == [cmd[t] EXCEPT !.pc = "end"]
  <2>1. cmd' = [cmd EXCEPT ![t] = e]
    BY <1>1, <1>7 DEF ForkFail
  <2>2. e \in Commands /\ CommandOK(e) /\ Behind(e) = 0
    BY <1>1, <1>7 DEF ForkFail, Commands, CommandSteps, CommandOK, Behind
  <2> HIDE DEF e
  <2> QED BY <1>3, <1>7, <2>1, <2>2 DEF ForkFail
<1>8. CASE Fork(t)
  <2>1. PICK n \in 0..MaxChunks :
             cmd' = [cmd EXCEPT ![t].pc = IF cmd[t].out THEN "read" ELSE "drain",
                                ![t].pipe = {"read"}, ![t].child = "runs", ![t].left = n]
    BY <1>8 DEF Fork
  <2> DEFINE next == IF cmd[t].out THEN "read" ELSE "drain"
             e == [cmd[t] EXCEPT !.pc = next, !.pipe = {"read"}, !.child = "runs", !.left = n]
  <2>2. cmd' = [cmd EXCEPT ![t] = e]
    BY <1>1, <2>1
  <2>3. next \in {"read", "drain"} /\ n \in Int /\ {"read"} \in SUBSET {"read", "write"}
    BY CommandBounds
  <2> HIDE DEF next
  <2>4. e \in Commands /\ e.pc = next
    BY <1>1, <2>3 DEF Commands, CommandSteps
  <2> HIDE DEF e
  <2>5. CommandOK(e) /\ Behind(e) = 0
    BY <2>3, <2>4 DEF CommandOK, Behind
  <2> QED BY <1>3, <1>8, <2>2, <2>4, <2>5 DEF Fork
<1>9. CASE ReadOutput(t)
  <2>1. PICK r \in {-1, 0, 1} :
             /\ Read(t, r)
             /\ cmd' = [cmd EXCEPT ![t].left = Left(t, r),
                           ![t].pc = IF AsSize(r) >= OutSize THEN "end" ELSE "drain",
                           ![t].ok = AsSize(r) < OutSize]
    BY <1>9 DEF ReadOutput
  <2> DEFINE fits == AsSize(r) < OutSize
             next == IF AsSize(r) >= OutSize THEN "end" ELSE "drain"
             e == [cmd[t] EXCEPT !.left = Left(t, r), !.pc = next, !.ok = fits]
  <2>2. cmd' = [cmd EXCEPT ![t] = e]
    BY <1>1, <2>1
  <2>3. Left(t, r) \in Int /\ next \in {"end", "drain"} /\ fits \in BOOLEAN
    BY <1>1 DEF Left, Commands
  <2>4. r # -1 => fits
    BY AsSizeSmall
  <2> HIDE DEF fits, next
  <2>5. e \in Commands /\ e.pc = next /\ e.ok = fits
    BY <1>1, <2>3 DEF Commands, CommandSteps
  <2> HIDE DEF e
  <2>6. CommandOK(e) /\ Behind(e) \in {0, 1} /\ Behind(cmd[t]) = 0
    BY <1>9, <2>3, <2>5 DEF ReadOutput, CommandOK, Behind
  <2>7. fits => Behind(e) = 0
    BY <2>5 DEF Behind
  <2>8. /\ read_errors' \in Nat /\ read_errors' >= read_errors
        /\ r = -1 => read_errors' = read_errors + 1
    BY <1>1, <2>1 DEF Read
  <2>9. zombies' + Behind(e) + read_errors <= zombies + Behind(cmd[t]) + read_errors'
        /\ zombies' \in Nat
    BY <1>1, <1>9, <2>4, <2>6, <2>7, <2>8 DEF ReadOutput
  <2> QED BY <1>1, <1>2, <2>2, <2>5, <2>6, <2>8, <2>9, SetCommand
<1>10. CASE Drain(t)
  <2>1. PICK r \in {-1, 0, 1} :
             /\ Read(t, r)
             /\ cmd' = [cmd EXCEPT ![t].left = Left(t, r), ![t].ok = TRUE,
                          ![t].pc = IF AsSize(r) > 0 THEN "drain" ELSE "end"]
    BY <1>10 DEF Drain
  <2> DEFINE next == IF AsSize(r) > 0 THEN "drain" ELSE "end"
             e == [cmd[t] EXCEPT !.left = Left(t, r), !.ok = TRUE, !.pc = next]
  <2>2. cmd' = [cmd EXCEPT ![t] = e]
    BY <1>1, <2>1
  <2>3. Left(t, r) \in Int /\ next \in {"end", "drain"}
    BY <1>1 DEF Left, Commands
  <2> HIDE DEF next
  <2>4. e \in Commands /\ e.pc = next /\ e.ok = TRUE
    BY <1>1, <2>3 DEF Commands, CommandSteps
  <2> HIDE DEF e
  <2>5. CommandOK(e) /\ Behind(e) = 0 /\ Behind(cmd[t]) = 0
    BY <1>10, <2>3, <2>4 DEF Drain, CommandOK, Behind
  <2>6. read_errors' \in Nat /\ read_errors' >= read_errors
    BY <1>1, <2>1 DEF Read
  <2>7. zombies' + Behind(e) + read_errors <= zombies + Behind(cmd[t]) + read_errors'
        /\ zombies' \in Nat
    BY <1>1, <1>10, <2>5, <2>6 DEF Drain
  <2> QED BY <1>1, <1>2, <2>2, <2>4, <2>5, <2>6, <2>7, SetCommand
<1>11. CASE End(t)
  <2> DEFINE kept == IF cmd[t].ok THEN cmd[t].child ELSE "none"
             next == IF cmd[t].ok THEN "wait" ELSE "done"
             e == [cmd[t] EXCEPT !.pipe = {}, !.child = kept, !.pc = next]
  <2>1. cmd' = [cmd EXCEPT ![t] = e] /\ read_errors' = read_errors
    BY <1>1, <1>11 DEF End
  <2>2. kept \in {"none", "runs", "succeeded", "failed"} /\ next \in {"wait", "done"}
        /\ (next = "done" => kept = "none")
    BY <1>1 DEF Commands
  <2> HIDE DEF kept, next
  <2>3. e \in Commands /\ e.pc = next /\ e.pipe = {} /\ e.child = kept
    BY <1>1, <2>2 DEF Commands, CommandSteps
  <2> HIDE DEF e
  <2>4. CommandOK(e) /\ Behind(e) = 0
    BY <2>2, <2>3 DEF CommandOK, Behind
  <2>5. zombies' = zombies + Behind(cmd[t]) /\ Behind(cmd[t]) \in {0, 1}
    BY <1>11 DEF End, Behind
  <2>6. zombies' + Behind(e) + read_errors <= zombies + Behind(cmd[t]) + read_errors'
        /\ zombies' \in Nat
    BY <1>1, <2>1, <2>4, <2>5
  <2> QED BY <1>1, <1>2, <2>1, <2>3, <2>4, <2>6, SetCommand
<1>12. CASE Wait(t)
  <2> DEFINE good == cmd[t].child = "succeeded"
             e == [cmd[t] EXCEPT !.pc = "done", !.child = "none", !.ok = good]
  <2>1. cmd' = [cmd EXCEPT ![t] = e]
    BY <1>1, <1>12 DEF Wait
  <2>2. good \in BOOLEAN
    OBVIOUS
  <2> HIDE DEF good
  <2>3. e \in Commands /\ e.pc = "done" /\ e.pipe = cmd[t].pipe /\ e.child = "none"
    BY <1>1, <2>2 DEF Commands, CommandSteps
  <2> HIDE DEF e
  <2>4. CommandOK(e) /\ Behind(e) = 0
    BY <1>1, <1>12, <2>3 DEF CommandOK, Behind, Wait
  <2> QED BY <1>3, <1>12, <2>1, <2>3, <2>4 DEF Wait
<1>13. CASE ProgramEnds(t)
  <2>1. PICK how \in {"succeeded", "failed"} : cmd' = [cmd EXCEPT ![t].child = how]
    BY <1>13 DEF ProgramEnds
  <2> DEFINE e == [cmd[t] EXCEPT !.child = how]
  <2>2. cmd' = [cmd EXCEPT ![t] = e]
    BY <1>1, <2>1
  <2>3. e \in Commands /\ e.pc = cmd[t].pc /\ e.pipe = cmd[t].pipe /\ e.ok = cmd[t].ok
    BY <1>1 DEF Commands
  <2> HIDE DEF e
  <2>4. CommandOK(e) /\ Behind(e) = Behind(cmd[t]) /\ Behind(e) \in Nat
    <3>1. cmd[t].child # "none" /\ e.child # "none"
      BY <1>1, <1>13, <2>1, <2>2 DEF ProgramEnds, Commands
    <3> QED BY <1>1, <2>3, <3>1 DEF CommandOK, Behind
  <2>5. UNCHANGED <<read_errors, zombies>>
    BY <1>13 DEF ProgramEnds
  <2>6. zombies' + Behind(e) + read_errors <= zombies + Behind(cmd[t]) + read_errors'
    BY <1>1, <2>4, <2>5
  <2> QED BY <1>1, <1>2, <2>2, <2>3, <2>4, <2>5, <2>6, SetCommand
<1> QED BY <1>4, <1>5, <1>6, <1>7, <1>8, <1>9, <1>10, <1>11, <1>12, <1>13 DEF CommandStep

-----------------------------------------------------------------------------
(* What the steps of the three threads do to the commands.                 *)
LEMMA CommandInvStep ==
  ASSUME CommandInv, CallerInv, ReloadInv, [Next]_vars
  PROVE  CommandInv' /\ CallerInv'
<1> USE DEF vars, cmdVars, portVars, mgrVars, fixed, rest
<1> DEFINE Waiting == {"version", "served", "cleared", "forwarded"}
<1>1. Callers = {"video", "reload"}
  BY DevicesAssumption
<1>2. /\ vpc \notin Waiting => cmd["video"].pc = "idle"
      /\ rpc # "listed" => cmd["reload"].pc = "idle"
  BY DEF CallerInv
<1>3. ASSUME UNCHANGED cmdVars, vpc' = vpc \/ vpc \notin Waiting, rpc' = rpc \/ rpc # "listed"
      PROVE  CommandInv' /\ CallerInv'
  <2>1. CommandInv'
    BY <1>3 DEF CommandInv, CommandOK, Behind
  <2>2. CallerInv'
    BY <1>2, <1>3 DEF CallerInv
  <2> QED BY <2>1, <2>2
<1>4. ASSUME \E out \in BOOLEAN : adb_execute("video", out), vpc' \in Waiting, rpc' = rpc
      PROVE  CommandInv' /\ CallerInv'
  <2>1. CommandInv' /\ cmd'["reload"] = cmd["reload"]
    BY <1>1, <1>4, CommandKeeps
  <2> QED BY <1>2, <1>4, <2>1 DEF CallerInv
<1>5. ASSUME Returned("video"), rpc' = rpc
      PROVE  CommandInv' /\ CallerInv'
  <2>1. CommandInv' /\ cmd'["reload"] = cmd["reload"]
    BY <1>1, <1>5, CommandKeeps
  <2>2. cmd'["video"].pc = "idle"
    BY <1>1, <1>5 DEF Returned, NoCommand, CommandInv
  <2> QED BY <1>2, <1>5, <2>1, <2>2 DEF CallerInv
<1>6. CASE TryVariant
  <2>1. rpc' = rpc
    BY <1>6 DEF TryVariant
  <2>2. CASE vpc' = "version" /\ adb_execute("video", TRUE)
    BY <1>4, <2>1, <2>2
  <2>3. CASE UNCHANGED cmdVars
    <3>1. vpc \notin Waiting
      BY <1>6 DEF TryVariant
    <3> QED BY <1>3, <2>1, <2>3, <3>1
  <2> QED BY <1>6, <2>2, <2>3 DEF TryVariant
<1>7. CASE StartServer \/ AddForward
  BY <1>4, <1>7 DEF StartServer, AddForward, VGoto
<1>8. CASE ClearForwards
  <2>1. rpc' = rpc /\ vpc = "clear"
    BY <1>8 DEF ClearForwards
  <2>2. CASE vpc' = "cleared" /\ adb_execute("video", FALSE)
    BY <1>4, <2>1, <2>2
  <2>3. CASE UNCHANGED cmdVars
    BY <1>3, <2>1, <2>3
  <2> QED BY <1>8, <2>2, <2>3 DEF ClearForwards
<1>9. CASE VersionRan \/ ServerRan \/ Cleared \/ Forwarded
  BY <1>5, <1>9 DEF VersionRan, ServerRan, Cleared, Forwarded
<1>10. CASE AdbReload
  <2>1. vpc' = vpc /\ rpc = "reload"
    BY <1>10 DEF AdbReload, RKeeps
  <2>2. CASE rpc' = "listed" /\ adb_execute("reload", TRUE)
    <3>1. CommandInv' /\ cmd'["video"] = cmd["video"]
      BY <1>1, <2>2, CommandKeeps
    <3> QED BY <1>2, <2>1, <2>2, <3>1 DEF CallerInv
  <2>3. CASE UNCHANGED cmdVars
    BY <1>3, <2>1, <2>3
  <2> QED BY <1>10, <2>2, <2>3 DEF AdbReload
<1>11. CASE AdbListed
  <2>1. vpc' = vpc /\ Returned("reload")
    BY <1>11 DEF AdbListed, RKeeps
  <2>2. CommandInv' /\ cmd'["video"] = cmd["video"]
    BY <1>1, <2>1, CommandKeeps
  <2>3. cmd'["reload"].pc = "idle"
    BY <1>1, <2>1 DEF Returned, NoCommand, CommandInv
  <2> QED BY <1>2, <2>1, <2>2, <2>3 DEF CallerInv
<1>12. ASSUME NEW t \in Callers, StepOf(t) PROVE CommandInv' /\ CallerInv'
  <2>1. CommandInv' /\ \A u \in Callers : u # t => cmd'[u] = cmd[u]
    BY <1>12, CommandKeeps DEF StepOf
  <2>2. cmd[t].pc # "idle" /\ UNCHANGED <<vpc, rpc>>
    BY <1>12 DEF StepOf, CommandStep, Pipe, ForkFail, Fork, ReadOutput, Drain, End, Wait, At
  <2> QED BY <1>1, <1>2, <2>1, <2>2 DEF CallerInv
<1>13. ASSUME NEW t \in Callers, Program(t) PROVE CommandInv' /\ CallerInv'
  <2>1. CommandInv' /\ \A u \in Callers : u # t => cmd'[u] = cmd[u]
    BY <1>13, CommandKeeps DEF Program
  <2>2. cmd'[t].pc = cmd[t].pc /\ UNCHANGED <<vpc, rpc>>
    BY <1>13 DEF Program, ProgramEnds, CommandInv, Commands
  <2> QED BY <1>1, <1>2, <2>1, <2>2 DEF CallerInv
<1>14. CASE USBMuxCtor \/ StartReload \/ ResetIter \/ RetryReload
  <2>1. Reload => rpc # "listed"
    BY DEF Reload, Joined, ReloadInv
  <2> QED BY <1>3, <1>14, <2>1 DEF USBMuxCtor, StartReload, ResetIter, RetryReload, VGoto
<1>15. CASE Loop \/ GetDevice \/ Window \/ Connect \/ Connected \/ NotConnected
  BY <1>3, <1>15 DEF Loop, GetDevice, Window, Connect, Connected, NotConnected, VGoto
<1>16. CASE USBMuxConnect \/ ProxyStart \/ StopSeen \/ Lost \/ SlowLoop
  BY <1>3, <1>16 DEF USBMuxConnect, ProxyStart, StopSeen, Lost, Disconnect, SlowLoop, VGoto
<1>17. CASE DtorBody \/ DtorProxy \/ DtorBase \/ ProxyThread \/ Stop
  BY <1>3, <1>17 DEF DtorBody, DtorProxy, DtorBase, ProxyThread, Stop, VGoto
<1>18. CASE Clear \/ USBMuxReload \/ MDNSReload \/ AddDevice \/ Fill \/ ReloadEnds
  BY <1>3, <1>18 DEF Clear, USBMuxReload, MDNSReload, AddDevice, Fill, ReloadEnds, RKeeps, RGoto
<1>19. CASE UNCHANGED vars
  BY <1>3, <1>19
<1> QED BY <1>1, <1>6, <1>7, <1>8, <1>9, <1>10, <1>11, <1>12, <1>13, <1>14, <1>15, <1>16, <1>17,
        <1>18, <1>19 DEF Next, Video, ReloadThread, Ended

(* A step of net_connect itself.                                           *)
LEMMA NetKeeps ==
  ASSUME NetInv, NetStep, vpc = "net", vpc' = vpc
  PROVE  NetInv'
<1> USE DEF NGoto
<1>1. Len(addrs) \in Nat /\ tried \in Nat /\ addrs \in Seq(Peers)
  BY DEF NetInv
<1>2. ASSUME TryNext, npc \in {"socket", "connect", "select", "block"}
      PROVE  NetInv'
  BY <1>1, <1>2 DEF NetInv, TryNext
<1>3. CASE Resolve
  <2>1. PICK n \in 1..MaxAddrs : addrs' \in [1..n -> Peers]
    BY <1>3 DEF Resolve, Lists
  <2>2. addrs' \in Seq(Peers) /\ Len(addrs') = n /\ n \in Nat /\ 1 \in 1..n
    BY <2>1, MaxAddrsAssumption
  <2> QED BY <1>3, <2>2 DEF NetInv, Resolve
<1>4. CASE ResolveFail
  BY <1>4 DEF NetInv, ResolveFail
<1>5. CASE SocketFail \/ ConnectError \/ SelectFail \/ BlockFail
  BY <1>2, <1>5 DEF SocketFail, ConnectError, SelectFail, BlockFail
<1>6. CASE Socket \/ Connecting \/ Writable \/ Ready
  BY <1>6 DEF NetInv, Socket, Connecting, Writable, Ready
<1> QED BY <1>3, <1>4, <1>5, <1>6 DEF NetStep

(* The socket has one owner at a time.                                     *)
LEMMA NetInvStep ==
  ASSUME NetInv, [Next]_vars PROVE NetInv'
<1> USE DEF vars, netVars, portVars, mgrVars, fixed, rest
<1>1. ASSUME UNCHANGED netVars, vpc' = vpc \/ vpc \notin {"net", "proxy", "up"}
      PROVE  NetInv'
  BY <1>1 DEF NetInv
<1>2. ASSUME net_connect, vpc \notin {"proxy", "up"}, vpc' = "net" PROVE NetInv'
  BY <1>2 DEF NetInv, net_connect, NGoto
<1>3. CASE Loop
  BY <1>1, <1>2, <1>3 DEF Loop
<1>4. CASE GetDevice
  <2>1. vpc = "get" /\ ((UNCHANGED netVars) \/ (vpc' = "net" /\ net_connect))
    BY <1>4 DEF GetDevice
  <2> QED BY <1>1, <1>2, <2>1
<1>5. CASE Forwarded
  <2>1. vpc = "forwarded" /\ ((UNCHANGED netVars) \/ (vpc' = "net" /\ net_connect))
    BY <1>5 DEF Forwarded
  <2> QED BY <1>1, <1>2, <2>1
<1>6. CASE Connect
  BY <1>6, NetKeeps DEF Connect
<1>7. CASE Connected \/ NotConnected
  <2>1. <<>> \in Seq(Peers)
    OBVIOUS
  <2>2. NetReturn
    BY <1>7 DEF Connected, NotConnected
  <2>3. vpc' = "up" \/ (vpc = "net" /\ npc = "failed")
    BY <1>7 DEF Connected, NotConnected, VGoto
  <2> QED BY <2>1, <2>2, <2>3 DEF NetInv, NetReturn
<1>8. CASE USBMuxConnect
  BY <1>8 DEF NetInv, USBMuxConnect
<1>9. CASE ProxyStart
  BY <1>9 DEF NetInv, ProxyStart
<1>10. CASE Lost \/ StopSeen
  BY <1>10 DEF NetInv, Lost, StopSeen, Disconnect, net_close, VGoto
<1>11. CASE TryVariant \/ VersionRan \/ StartServer \/ ServerRan \/ USBMuxCtor
  BY <1>1, <1>11 DEF TryVariant, VersionRan, StartServer, ServerRan, USBMuxCtor, VGoto
<1>12. CASE StartReload \/ ResetIter \/ RetryReload \/ Window \/ ClearForwards
  BY <1>1, <1>12 DEF StartReload, ResetIter, RetryReload, Window, ClearForwards, VGoto
<1>13. CASE Cleared \/ AddForward \/ SlowLoop
  BY <1>1, <1>13 DEF Cleared, AddForward, SlowLoop, VGoto
<1>14. CASE DtorBody \/ DtorProxy \/ DtorBase \/ ProxyThread \/ Stop
  BY <1>1, <1>14 DEF DtorBody, DtorProxy, DtorBase, ProxyThread, Stop, VGoto
<1>15. CASE Clear \/ AdbReload \/ AdbListed \/ USBMuxReload \/ MDNSReload
            \/ AddDevice \/ Fill \/ ReloadEnds
  BY <1>1, <1>15 DEF Clear, AdbReload, AdbListed, USBMuxReload, MDNSReload, AddDevice, Fill,
     ReloadEnds, RKeeps
<1>16. ASSUME NEW t, StepOf(t) \/ Program(t) PROVE NetInv'
  BY <1>1, <1>16 DEF StepOf, Program
<1>17. CASE UNCHANGED vars
  BY <1>1, <1>17
<1> QED BY <1>3, <1>4, <1>5, <1>6, <1>7, <1>8, <1>9, <1>10, <1>11, <1>12, <1>13, <1>14, <1>15,
        <1>16, <1>17 DEF Next, Video, ReloadThread, Ended

(* The proxy's thread and its descriptors.                                 *)
LEMMA ProxyInvStep ==
  ASSUME ProxyInv, PortInv, [Next]_vars PROVE ProxyInv'
<1> USE DEF vars, proxyVars, runVars, portVars, mgrVars, fixed, rest
<1> DEFINE Ending == {"dtor_proxy", "dtor_base", "gone"}
<1>1. ASSUME UNCHANGED proxyVars,
             vpc' = vpc \/ (vpc \notin {"proxy"} \cup Ending /\ vpc' \notin Ending)
      PROVE  ProxyInv'
  BY <1>1 DEF ProxyInv
<1>2. CASE ProxyThread
  <2>1. vpc' = vpc /\ proxy_run
    BY <1>2 DEF ProxyThread
  <2>2. CASE Look
    BY <2>1, <2>2 DEF ProxyInv, Look, PKeeps
  <2>3. CASE Accept \/ AcceptNone
    BY <2>1, <2>3 DEF ProxyInv, Accept, AcceptNone, PKeeps, PGoto
  <2>4. CASE Remote \/ RemoteFail
    BY <2>1, <2>4 DEF ProxyInv, Remote, RemoteFail, PKeeps, PGoto
  <2>5. CASE Relay
    BY <2>1, <2>5 DEF ProxyInv, Relay, PKeeps, PGoto
  <2>6. CASE RunEnd
    BY <2>1, <2>6 DEF ProxyInv, RunEnd, PKeeps, PGoto
  <2> QED BY <2>1, <2>2, <2>3, <2>4, <2>5, <2>6 DEF proxy_run
<1>3. CASE USBMuxConnect
  <2>1. CASE UNCHANGED proxyVars
    BY <1>1, <1>3, <2>1 DEF USBMuxConnect
  <2>2. CASE vpc' = "proxy" /\ Start(dev)
    BY <1>3, <2>2 DEF USBMuxConnect, Start, ProxyInv
  <2> QED BY <1>3, <2>1, <2>2 DEF USBMuxConnect
<1>4. CASE ProxyStart
  <2>1. CASE StartReturn /\ vpc' = "up"
    BY <1>4, <2>1 DEF ProxyStart, StartReturn, SGoto, ProxyInv
  <2>2. CASE (Listen \/ ListenFail \/ CreateFail) /\ UNCHANGED vpc
    BY <1>4, <2>2 DEF ProxyStart, Listen, ListenFail, CreateFail, SGoto, ProxyInv
  <2>3. CASE (Create \/ Assign) /\ UNCHANGED vpc
    BY <1>4, <2>3 DEF ProxyStart, Create, Assign, SGoto, ProxyInv
  <2> QED BY <1>4, <2>1, <2>2, <2>3 DEF ProxyStart, StartStep
<1>5. CASE DtorBody
  BY <1>5 DEF DtorBody, Dtor, ProxyInv
<1>6. CASE DtorProxy
  BY <1>6 DEF DtorProxy, DtorJoin, VGoto, ProxyInv
<1>7. CASE DtorBase
  BY <1>7 DEF DtorBase, VGoto, ProxyInv
<1>8. CASE TryVariant \/ VersionRan \/ StartServer \/ ServerRan \/ USBMuxCtor
  BY <1>1, <1>8 DEF TryVariant, VersionRan, StartServer, ServerRan, USBMuxCtor, VGoto
<1>9. CASE StartReload \/ ResetIter \/ RetryReload \/ Window \/ Loop
  BY <1>1, <1>9 DEF StartReload, ResetIter, RetryReload, Window, Loop, VGoto
<1>10. CASE GetDevice \/ Cleared \/ AddForward \/ Forwarded \/ SlowLoop
  BY <1>1, <1>10 DEF GetDevice, Cleared, AddForward, Forwarded, SlowLoop, VGoto
<1>11. CASE Connect \/ Connected \/ NotConnected \/ Lost \/ StopSeen \/ Stop
  BY <1>1, <1>11 DEF Connect, Connected, NotConnected, Lost, StopSeen, Disconnect, Stop, VGoto
<1>12. CASE Clear \/ AdbReload \/ AdbListed \/ USBMuxReload \/ MDNSReload
            \/ AddDevice \/ Fill \/ ReloadEnds
  BY <1>1, <1>12 DEF Clear, AdbReload, AdbListed, USBMuxReload, MDNSReload, AddDevice, Fill,
     ReloadEnds, RKeeps
<1>13. ASSUME NEW t, StepOf(t) \/ Program(t) PROVE ProxyInv'
  BY <1>1, <1>13 DEF StepOf, Program
<1>14. CASE UNCHANGED vars
  BY <1>1, <1>14
<1>15. CASE ClearForwards
  BY <1>1, <1>15 DEF ClearForwards, PortInv
<1> QED BY <1>2, <1>3, <1>4, <1>5, <1>6, <1>7, <1>8, <1>9, <1>10, <1>11, <1>12, <1>13, <1>14, <1>15
        DEF Next, Video, ReloadThread, Ended

(* The reload thread is joined or was never created when nobody waits.     *)
LEMMA ReloadInvStep ==
  ASSUME ReloadInv, PortInv, [Next]_vars PROVE ReloadInv'
<1> USE DEF vars, portVars, mgrVars, fixed, rest
<1>1. ASSUME UNCHANGED <<rthr, rpc, msocks>>, vpc' = vpc \/ vpc' # "gone"
      PROVE  ReloadInv'
  BY <1>1 DEF ReloadInv
<1>2. ASSUME Reload, vpc' # "gone" PROVE ReloadInv'
  BY <1>2 DEF Reload, Joined, ReloadInv
<1>4. CASE StartReload \/ RetryReload
  BY <1>1, <1>2, <1>4 DEF StartReload, RetryReload, VGoto
<1>5. CASE ResetIter
  BY <1>5 DEF ResetIter, Joined, VGoto, ReloadInv
<1>6. CASE DtorBase
  BY <1>6 DEF DtorBase, Joined, VGoto, ReloadInv
<1>7. CASE Clear \/ AdbReload \/ AdbListed \/ USBMuxReload
  BY <1>7 DEF Clear, AdbReload, AdbListed, USBMuxReload, RKeeps, RGoto, ReloadInv
<1>8. CASE MDNSReload
  <2>1. msocks' \in Nat
    BY <1>8, DevicesAssumption DEF MDNSReload
  <2> QED BY <1>8, <2>1 DEF MDNSReload, RKeeps, RGoto, ReloadInv
<1>9. CASE AddDevice
  <2>1. rpc = "add" /\ rpc' \in {"add", "fill"} /\ UNCHANGED <<rthr, msocks, vpc>>
    BY <1>9 DEF AddDevice, RKeeps
  <2> QED BY <2>1 DEF ReloadInv
<1>10. CASE Fill \/ ReloadEnds
  BY <1>10 DEF Fill, ReloadEnds, RKeeps, RGoto, ReloadInv
<1>11. CASE TryVariant \/ VersionRan \/ StartServer \/ ServerRan \/ USBMuxCtor
  BY <1>1, <1>11 DEF TryVariant, VersionRan, StartServer, ServerRan, USBMuxCtor, VGoto
<1>12. CASE Loop \/ GetDevice \/ Window \/ ClearForwards \/ Cleared \/ AddForward \/ Forwarded
  BY <1>1, <1>12 DEF Loop, GetDevice, Window, ClearForwards, Cleared, AddForward, Forwarded,
     VGoto, PortInv
<1>13. CASE Connect \/ Connected \/ NotConnected \/ USBMuxConnect \/ ProxyStart
  BY <1>1, <1>13 DEF Connect, Connected, NotConnected, USBMuxConnect, ProxyStart, VGoto
<1>14. CASE Lost \/ StopSeen \/ SlowLoop \/ DtorBody \/ DtorProxy \/ ProxyThread \/ Stop
  BY <1>1, <1>14 DEF Lost, StopSeen, Disconnect, SlowLoop, DtorBody, DtorProxy, ProxyThread,
     Stop, VGoto
<1>15. ASSUME NEW t, StepOf(t) \/ Program(t) PROVE ReloadInv'
  BY <1>1, <1>15 DEF StepOf, Program
<1>16. CASE UNCHANGED vars
  BY <1>1, <1>16
<1> QED BY <1>4, <1>5, <1>6, <1>7, <1>8, <1>9, <1>10, <1>11, <1>12, <1>13, <1>14, <1>15, <1>16
        DEF Next, Video, ReloadThread, Ended

(* Where the first device found is in the list.                            *)
LEMMA FirstInList ==
  ASSUME DeviceInv, PortInv
  PROVE  /\ Ours # {} => /\ First(Ours) \in DOMAIN list /\ First(Ours) \in Nat
                         /\ First(Ours) - 1 \in 0..(DevicesLimit - 1)
         /\ \A s : Same(s) # {} => First(Same(s)) - 1 \in 0..(DevicesLimit - 1)
<1>1. /\ DOMAIN list = 1..Len(list) /\ Len(list) \in Nat /\ Len(list) <= DevicesLimit
      /\ DevicesLimit \in Nat
  BY DevicesAssumption DEF DeviceInv, PortInv
<1>2. Ours \in SUBSET (1..Len(list)) /\ \A s : Same(s) \in SUBSET (1..Len(list))
  BY <1>1 DEF Ours, Same
<1>3. ASSUME NEW ks \in SUBSET (1..Len(list)), ks # {}
      PROVE  First(ks) \in 1..Len(list)
  <2>1. ks \in SUBSET Nat
    BY <1>3
  <2> QED BY <1>3, <2>1, FirstIsIn
<1> HIDE DEF Ours, Same, First
<1>4. ASSUME NEW k \in 1..Len(list) PROVE k \in Nat /\ k - 1 \in 0..(DevicesLimit - 1)
  BY <1>1
<1> QED BY <1>1, <1>2, <1>3, <1>4

(* What AddDevice and Fill do to the list.                                 *)
LEMMA ListGrows ==
  ASSUME list \in Seq(Records), NEW e \in Records, list' = Append(list, e)
  PROVE  /\ list' \in Seq(Records)
         /\ \A d : Alive(d) => Alive(d)'
         /\ Ours # {} => Ours' # {}
<1>1. /\ list' \in Seq(Records) /\ DOMAIN list = 1..Len(list) /\ DOMAIN list' = 1..(Len(list) + 1)
      /\ Len(list) \in Nat /\ \A k \in 1..Len(list) : list'[k] = list[k]
  OBVIOUS
<1>2. \A k \in DOMAIN list : k \in DOMAIN list' /\ list'[k] = list[k]
  BY <1>1
<1>3. \A d : Alive(d) => Alive(d)'
  BY <1>2 DEF Alive
<1>4. Ours # {} => Ours' # {}
  BY <1>2 DEF Ours
<1> QED BY <1>1, <1>3, <1>4

LEMMA ListFilled ==
  ASSUME list \in Seq(Records), NEW b \in BOOLEAN, NEW n,
         list' = [list EXCEPT ![n].usable = b]
  PROVE  /\ list' \in Seq(Records)
         /\ \A d : Alive(d) => Alive(d)'
         /\ Ours # {} => Ours' # {}
<1>1. list' = [list EXCEPT ![n] = [list[n] EXCEPT !.usable = b]]
  OBVIOUS
<1>2. /\ DOMAIN list = 1..Len(list) /\ Len(list) \in Nat
      /\ \A k \in DOMAIN list : list[k] \in Records
  OBVIOUS
<1>3. \A k \in DOMAIN list : /\ list'[k] \in Records
                             /\ list'[k].id = list[k].id /\ list'[k].serial = list[k].serial
  BY <1>1, <1>2 DEF Records
<1>4. list' \in [1..Len(list) -> Records] /\ DOMAIN list' = DOMAIN list
  BY <1>1, <1>2, <1>3
<1>5. list' \in Seq(Records)
  BY <1>2, <1>4
<1>6. \A d : Alive(d) => Alive(d)'
  BY <1>3, <1>4 DEF Alive
<1>7. Ours # {} => Ours' # {}
  BY <1>3, <1>4 DEF Ours
<1> QED BY <1>5, <1>6, <1>7

(* A report is a sequence of devices.                                      *)
LEMMA ReportsType == Reports \subseteq Seq(Entries)
<1>1. Reported \subseteq Entries
  BY DEF Reported, Serials, Entries
<1>2. ASSUME NEW n \in 0..MaxReport, NEW r \in [1..n -> Reported] PROVE r \in Seq(Entries)
  <2>1. n \in Nat /\ r \in [1..n -> Entries]
    BY <1>1, DevicesBounds
  <2> QED BY <2>1
<1> QED BY <1>2 DEF Reports

(* The device in use stays in the list.                                    *)
LEMMA DeviceInvStep ==
  ASSUME DeviceInv, PortInv, ReloadInv, [Next]_vars PROVE DeviceInv'
<1> USE DEF vars, proxyVars, runVars, portVars, mgrVars, fixed, rest
<1> DEFINE Using == {"window", "ios", "forward", "forwarded", "clear", "cleared"}
           Early == {"adb", "version", "server", "served", "usbmux"}
           Fits(v) == /\ v # "gone"
                      /\ rpc = "clear" => v \in {"reset", "wait"}
                      /\ v \in Early \cup {"start", "reset", "reload"} => dev = 0
                      /\ v \in Using => dev # 0
                      /\ v = "net" => dev # 0 \/ type = "WIFI"
           Same1 == UNCHANGED <<list, report, rpc, reloads, dev, type>>
           Same2 == UNCHANGED <<proxy_device, ppc, spc>>
<1>1. ASSUME Same1, Same2, vpc' = vpc \/ (vpc # "gone" /\ Fits(vpc')) PROVE DeviceInv'
  BY <1>1 DEF DeviceInv, Alive, Ours
<1>2. /\ list \in Seq(Records) /\ report \in Seq(Entries)
      /\ reloads \in Nat
      /\ rpc = "fill" => report # <<>>
      /\ rpc = "clear" => vpc \in {"reset", "wait"} /\ dev = 0
      /\ vpc \in Early \cup {"start", "reset", "reload"} => dev = 0
      /\ vpc \in Using => dev # 0
      /\ vpc = "net" => dev # 0 \/ type = "WIFI"
      /\ dev = 0 => proxy_device = 0
      /\ dev # 0 /\ vpc # "gone" => Alive(dev) /\ Ours # {}
      /\ proxy_device # 0 /\ vpc # "gone" => Alive(proxy_device)
      /\ ppc # "none" \/ spc # "idle" => proxy_device # 0
  BY DEF DeviceInv
<1>3. ASSUME Same2, UNCHANGED <<list, report, dev, type>>, dev = 0, vpc' \in {"reset", "wait"},
             Reload
      PROVE  DeviceInv'
  <2>1. reloads' \in Nat /\ rpc' \in {"clear", "none"}
    BY <1>2, <1>3 DEF Reload
  <2> QED BY <1>2, <1>3, <2>1 DEF DeviceInv
<1>4. CASE TryVariant \/ VersionRan \/ StartServer \/ ServerRan \/ USBMuxCtor
  BY <1>1, <1>2, <1>4 DEF TryVariant, VersionRan, StartServer, ServerRan, USBMuxCtor, VGoto
<1>5. CASE StartReload
  <2>1. CASE type = "WIFI"
    BY <1>1, <1>2, <1>5, <2>1 DEF StartReload
  <2>2. CASE type # "WIFI"
    BY <1>2, <1>3, <1>5, <2>2 DEF StartReload, Reload
  <2> QED BY <2>1, <2>2
<1>6. CASE RetryReload
  BY <1>2, <1>3, <1>6 DEF RetryReload, Reload, VGoto
<1>7. CASE ResetIter
  <2>1. rpc # "clear"
    BY <1>7 DEF ResetIter, Joined, ReloadInv
  <2> QED BY <1>1, <1>2, <1>7, <2>1 DEF ResetIter, VGoto
<1>8. CASE Loop
  BY <1>1, <1>2, <1>8 DEF Loop
<1>9. CASE GetDevice
  <2>1. CASE Ours = {}
    BY <1>1, <1>2, <1>9, <2>1 DEF GetDevice
  <2>2. CASE Ours # {}
    <3>1. First(Ours) \in DOMAIN list
      BY <2>2, FirstInList
    <3>2. /\ dev' = list[First(Ours)].id /\ vpc' \in {"net", "window", "ios"} /\ vpc = "get"
          /\ UNCHANGED <<list, report, rpc, reloads, type>> /\ Same2
      BY <1>9, <2>2 DEF GetDevice
    <3>3. dev' # 0 /\ Alive(dev')
      <4>1. list[First(Ours)] \in Records
        BY <1>2, <3>1
      <4>2. dev' # 0
        BY <3>2, <4>1 DEF Records
      <4> QED BY <3>1, <3>2, <4>2 DEF Alive
    <3>4. Alive(dev)' /\ Ours' = Ours /\ \A d : Alive(d)' <=> Alive(d)
      BY <3>2, <3>3 DEF Alive, Ours
    <3> QED BY <1>2, <2>2, <3>2, <3>3, <3>4 DEF DeviceInv
  <2> QED BY <2>1, <2>2
<1>10. CASE Window \/ ClearForwards \/ Cleared \/ AddForward \/ Forwarded
  BY <1>1, <1>2, <1>10 DEF Window, ClearForwards, Cleared, AddForward, Forwarded, VGoto, PortInv
<1>11. CASE Connect \/ Connected \/ NotConnected
  BY <1>1, <1>2, <1>11 DEF Connect, Connected, NotConnected, VGoto
<1>12. CASE USBMuxConnect
  <2>1. Same1 /\ vpc = "ios"
    BY <1>12 DEF USBMuxConnect
  <2>2. CASE vpc' = "wait" /\ UNCHANGED proxyVars
    BY <1>1, <1>2, <2>1, <2>2
  <2>3. CASE vpc' = "proxy" /\ Start(dev)
    <3>1. proxy_device' = dev /\ ppc' = ppc
      BY <2>3 DEF Start
    <3>2. Ours' = Ours /\ \A d : Alive(d)' <=> Alive(d)
      BY <2>1 DEF Alive, Ours
    <3> QED BY <1>2, <2>1, <2>3, <3>1, <3>2 DEF DeviceInv
  <2> QED BY <1>12, <2>2, <2>3 DEF USBMuxConnect
<1>13. CASE ProxyStart
  <2>1. /\ Same1 /\ proxy_device' = proxy_device /\ vpc = "proxy" /\ vpc' \in {"proxy", "up"}
        /\ spc # "idle"
    BY <1>13 DEF ProxyStart, StartStep, Listen, ListenFail, Create, CreateFail, Assign,
       StartReturn, SGoto
  <2>2. Ours' = Ours /\ \A d : Alive(d)' <=> Alive(d)
    BY <2>1 DEF Alive, Ours
  <2> QED BY <1>2, <2>1, <2>2 DEF DeviceInv
<1>14. CASE ProxyThread
  <2>1. Same1 /\ UNCHANGED <<proxy_device, spc, vpc>> /\ ppc # "none"
    BY <1>14 DEF ProxyThread, proxy_run, Look, Accept, AcceptNone, Remote, RemoteFail, Relay,
       RunEnd, PGoto, PKeeps
  <2>2. Ours' = Ours /\ \A d : Alive(d)' <=> Alive(d)
    BY <2>1 DEF Alive, Ours
  <2> QED BY <1>2, <2>1, <2>2 DEF DeviceInv
<1>15. CASE Lost \/ StopSeen \/ SlowLoop
  BY <1>1, <1>2, <1>15 DEF Lost, StopSeen, Disconnect, SlowLoop, VGoto
<1>16. CASE DtorBody \/ DtorProxy
  BY <1>1, <1>2, <1>16 DEF DtorBody, DtorProxy, Dtor, DtorJoin, VGoto
<1>17. CASE DtorBase
  <2>1. list' \in Seq(Records)
    BY <1>17 DEF DtorBase
  <2>2. /\ vpc' = "gone" /\ vpc = "dtor_base" /\ Same2 /\ UNCHANGED <<report, rpc, reloads, dev, type>>
    BY <1>17 DEF DtorBase, VGoto
  <2> QED BY <1>2, <2>1, <2>2 DEF DeviceInv
<1>18. CASE Clear
  <2>1. list' \in Seq(Records)
    BY <1>18 DEF Clear
  <2>2. /\ rpc = "clear" /\ rpc' = "reload" /\ Same2 /\ UNCHANGED <<report, reloads, dev, type, vpc>>
    BY <1>18 DEF Clear, RGoto, RKeeps
  <2> QED BY <1>2, <2>1, <2>2 DEF DeviceInv
<1>19. CASE AdbReload \/ AdbListed \/ USBMuxReload \/ MDNSReload \/ ReloadEnds
  <2>1. /\ Same2 /\ UNCHANGED <<list, reloads, dev, type, vpc>>
        /\ rpc' \notin {"clear", "fill"}
        /\ report' = report \/ report' \in Reports \/ report' = <<>>
    BY <1>19 DEF AdbReload, AdbListed, USBMuxReload, MDNSReload, ReloadEnds, RGoto, RKeeps
  <2>2. report' \in Seq(Entries)
    <3>1. <<>> \in Seq(Entries)
      OBVIOUS
    <3> QED BY <1>2, <2>1, <3>1, ReportsType
  <2>3. Ours' = Ours /\ \A d : Alive(d)' <=> Alive(d)
    BY <2>1 DEF Alive, Ours
  <2> QED BY <1>2, <2>1, <2>2, <2>3 DEF DeviceInv
<1>20. CASE AddDevice
  <2>1. /\ Same2 /\ UNCHANGED <<reloads, dev, type, vpc>> /\ rpc = "add" /\ report # <<>>
        /\ rpc' \in {"add", "fill"}
    BY <1>20 DEF AddDevice, RKeeps
  <2>2. CASE list' = list /\ rpc' = rpc /\ report' \in {Tail(report), <<>>}
    <3>1. report' \in Seq(Entries)
      <4>1. <<>> \in Seq(Entries) /\ Tail(report) \in Seq(Entries)
        BY <1>2, <2>1
      <4> QED BY <2>2, <4>1
    <3>2. Ours' = Ours /\ \A d : Alive(d)' <=> Alive(d)
      BY <2>2 DEF Alive, Ours
    <3> QED BY <1>2, <2>1, <2>2, <3>1, <3>2 DEF DeviceInv
  <2>3. CASE /\ list' = Append(list, [id |-> NewId, serial |-> Head(report).serial, usable |-> FALSE])
             /\ report' = report
    <3>1. NewId \in Nat \ {0}
      <4>1. Len(list) \in Nat /\ DevicesLimit \in Nat /\ reloads * DevicesLimit \in Nat
        BY <1>2, DevicesAssumption
      <4> QED BY <4>1 DEF NewId
    <3>2. Head(report).serial \in Serials
      <4>1. Head(report) \in Entries
        BY <1>2, <2>1
      <4> QED BY <4>1 DEF Entries
    <3> DEFINE e == [id |-> NewId, serial |-> Head(report).serial, usable |-> FALSE]
    <3>3. e \in Records
      BY <3>1, <3>2 DEF Records
    <3> HIDE DEF e
    <3>4. /\ list' \in Seq(Records) /\ (Ours # {} => Ours' # {})
          /\ \A d : Alive(d) => Alive(d)'
      BY <1>2, <2>3, <3>3, ListGrows DEF e
    <3> QED BY <1>2, <2>1, <2>3, <3>4 DEF DeviceInv
  <2> QED BY <1>20, <2>2, <2>3 DEF AddDevice
<1>21. CASE Fill
  <2>1. /\ Same2 /\ UNCHANGED <<reloads, dev, type, vpc>> /\ rpc' = "add" /\ report # <<>>
        /\ list' = [list EXCEPT ![Len(list)].usable = Head(report).usable]
        /\ report' = Tail(report)
    BY <1>2, <1>21 DEF Fill, RGoto, RKeeps
  <2>2. Head(report).usable \in BOOLEAN /\ report' \in Seq(Entries)
    <3>1. Head(report) \in Entries /\ report' \in Seq(Entries)
      BY <1>2, <2>1
    <3> QED BY <3>1 DEF Entries
  <2>3. /\ list' \in Seq(Records) /\ (Ours # {} => Ours' # {})
        /\ \A d : Alive(d) => Alive(d)'
    BY <1>2, <2>1, <2>2, ListFilled
  <2> QED BY <1>2, <2>1, <2>2, <2>3 DEF DeviceInv
<1>22. CASE Stop
  BY <1>1, <1>22 DEF Stop
<1>23. ASSUME NEW t, StepOf(t) \/ Program(t) PROVE DeviceInv'
  BY <1>1, <1>23 DEF StepOf, Program
<1>24. CASE UNCHANGED vars
  BY <1>1, <1>24
<1> QED BY <1>4, <1>5, <1>6, <1>7, <1>8, <1>9, <1>10, <1>11, <1>12, <1>13, <1>14, <1>15, <1>16,
        <1>17, <1>18, <1>19, <1>20, <1>21, <1>22, <1>23, <1>24
        DEF Next, Video, ReloadThread, Ended

(* A port is used only after it was brought into a window.                 *)
LEMMA PortInvStep ==
  ASSUME PortInv, DeviceInv, [Next]_vars PROVE PortInv'
<1> USE DEF vars, portVars, mgrVars, fixed, rest
<1> DEFINE Clearing == {"clear", "cleared"}
           Chosen(v) == \/ v \in {"forward", "forwarded"}
                        \/ v = "net" /\ type = "ADB"
                        \/ v \in Clearing /\ after = "forward"
<1>1. /\ iter \in 0..(DevicesLimit - 1) /\ Len(list) \in Nat /\ Len(list) <= DevicesLimit
      /\ DevicesLimit \in Nat \ {0} /\ usb_port \in Nat
      /\ vpc \in Clearing => after \in {"forward", "wait"}
      /\ Chosen(vpc) => InWindow
  BY DevicesAssumption DEF PortInv, DeviceInv
<1>2. ASSUME UNCHANGED <<list, iter, usb_port, type, after>>,
             vpc' \in Clearing => vpc \in Clearing, Chosen(vpc') => Chosen(vpc)
      PROVE  PortInv'
  BY <1>1, <1>2 DEF PortInv, InWindow
<1>3. ASSUME iter' \in 0..(DevicesLimit - 1), UNCHANGED <<list, usb_port, type, after>>,
             ~Chosen(vpc'), vpc' \notin Clearing
      PROVE  PortInv'
  BY <1>1, <1>3 DEF PortInv
<1>4. CASE TryVariant \/ VersionRan \/ StartServer \/ ServerRan \/ USBMuxCtor
  BY <1>2, <1>4 DEF TryVariant, VersionRan, StartServer, ServerRan, USBMuxCtor, VGoto
<1>5. CASE StartReload \/ RetryReload \/ Loop
  BY <1>2, <1>5 DEF StartReload, RetryReload, Loop, Reload, VGoto
<1>6. CASE ResetIter
  BY <1>1, <1>3, <1>6 DEF ResetIter, VGoto
<1>7. CASE GetDevice
  <2>1. CASE Ours = {}
    BY <1>2, <1>7, <2>1 DEF GetDevice
  <2>2. CASE Ours # {}
    <3>1. iter' \in 0..(DevicesLimit - 1)
      BY <1>7, <2>2, FirstInList DEF GetDevice
    <3>2. UNCHANGED <<list, usb_port, type, after>> /\ ~Chosen(vpc') /\ vpc' \notin Clearing
      BY <1>7, <2>2 DEF GetDevice
    <3> QED BY <1>3, <3>1, <3>2
  <2> QED BY <2>1, <2>2
<1>8. CASE Window
  <2>1. CASE ~Usable(dev)
    BY <1>2, <1>8, <2>1 DEF Window
  <2>2. CASE Usable(dev)
    <3> DEFINE start == Base + iter * Stride
    <3>1. start \in Nat /\ Width \in Nat
      <4>1. iter \in Nat /\ Stride \in Nat /\ Base \in Nat /\ iter * Stride \in Nat
        BY <1>1, DevicesAssumption
      <4> QED BY <4>1, DevicesAssumption
    <3>2. /\ usb_port' = IF usb_port \in start..(start + Width) THEN usb_port ELSE start
          /\ \/ vpc' = "clear" /\ after' = "forward"
             \/ vpc' = "forward" /\ after' = after
          /\ UNCHANGED <<list, iter, type>>
      BY <1>8, <2>2 DEF Window
    <3> HIDE DEF start
    <3>3. usb_port' \in start..(start + Width) /\ usb_port' \in Nat
      BY <1>1, <3>1, <3>2
    <3>4. InWindow'
      BY <1>1, <3>3 DEF InWindow, start
    <3> QED BY <1>1, <3>2, <3>3, <3>4 DEF PortInv
  <2> QED BY <2>1, <2>2
<1>9. CASE ClearForwards
  BY <1>1, <1>2, <1>9 DEF ClearForwards
<1>10. CASE Cleared \/ AddForward
  BY <1>2, <1>10 DEF Cleared, AddForward, VGoto
<1>11. CASE Forwarded
  <2>1. CASE cmd["video"].ok
    BY <1>2, <1>11, <2>1 DEF Forwarded
  <2>2. CASE ~cmd["video"].ok
    BY <1>1, <1>11, <2>2 DEF Forwarded, PortInv
  <2> QED BY <2>1, <2>2
<1>12. CASE Connect \/ Connected
  BY <1>2, <1>12 DEF Connect, Connected, VGoto
<1>13. CASE NotConnected
  BY <1>1, <1>13 DEF NotConnected, PortInv
<1>14. CASE USBMuxConnect \/ ProxyStart \/ Lost \/ StopSeen \/ SlowLoop
  BY <1>2, <1>14 DEF USBMuxConnect, ProxyStart, Lost, StopSeen, Disconnect, SlowLoop, VGoto
<1>15. CASE DtorBody \/ DtorProxy \/ ProxyThread \/ Stop
  BY <1>2, <1>15 DEF DtorBody, DtorProxy, ProxyThread, Stop, VGoto
<1>16. CASE DtorBase \/ Clear
  <2>1. Len(list') = 0 /\ UNCHANGED <<iter, usb_port, type, after>> /\ (vpc' = vpc \/ vpc' = "gone")
    BY <1>16 DEF DtorBase, Clear, VGoto, RKeeps
  <2> QED BY <1>1, <2>1 DEF PortInv, InWindow
<1>17. CASE AdbReload \/ AdbListed \/ USBMuxReload \/ MDNSReload \/ ReloadEnds
  BY <1>2, <1>17 DEF AdbReload, AdbListed, USBMuxReload, MDNSReload, ReloadEnds, RKeeps
<1>18. CASE AddDevice
  <2>1. UNCHANGED <<usb_port, type, after, vpc>>
    BY <1>18 DEF AddDevice, RKeeps
  <2>2. iter' \in 0..(DevicesLimit - 1)
    BY <1>1, <1>18, FirstInList DEF AddDevice
  <2>3. Len(list') <= DevicesLimit
    <3>1. CASE list' = list
      BY <1>1, <3>1
    <3>2. CASE Len(list) < DevicesLimit /\ \E e : list' = Append(list, e)
      <4>1. Len(list') = Len(list) + 1
        BY <3>2 DEF DeviceInv
      <4> QED BY <1>1, <3>2, <4>1
    <3> QED BY <1>18, <3>1, <3>2 DEF AddDevice
  <2> QED BY <1>1, <2>1, <2>2, <2>3 DEF PortInv, InWindow
<1>19. CASE Fill
  <2>1. UNCHANGED <<iter, usb_port, type, after, vpc>>
    BY <1>19 DEF Fill, RKeeps
  <2>2. Len(list') = Len(list)
    BY <1>19 DEF Fill, DeviceInv
  <2> QED BY <1>1, <2>1, <2>2 DEF PortInv, InWindow
<1>20. ASSUME NEW t, StepOf(t) \/ Program(t) PROVE PortInv'
  BY <1>2, <1>20 DEF StepOf, Program
<1>21. CASE UNCHANGED vars
  BY <1>2, <1>21
<1> QED BY <1>4, <1>5, <1>6, <1>7, <1>8, <1>9, <1>10, <1>11, <1>12, <1>13, <1>14, <1>15, <1>16,
        <1>17, <1>18, <1>19, <1>20, <1>21
        DEF Next, Video, ReloadThread, Ended

-----------------------------------------------------------------------------
LEMMA InitDInv == Init => DInv
<1> SUFFICES ASSUME Init PROVE DInv
  OBVIOUS
<1>1. CommandInv /\ CallerInv
  <2>1. NoCommand \in Commands /\ CommandOK(NoCommand) /\ Behind(NoCommand) = 0
        /\ NoCommand.pc = "idle"
    BY DEF NoCommand, Commands, CommandSteps, CommandOK, Behind
  <2>2. cmd = [t \in Callers |-> NoCommand] /\ read_errors = 0 /\ zombies = 0
    BY DEF Init, CommandInit
  <2>3. cmd["video"] = NoCommand /\ cmd["reload"] = NoCommand
    BY <2>2, DevicesAssumption
  <2> HIDE DEF NoCommand
  <2> QED BY <2>1, <2>2, <2>3 DEF CommandInv, CallerInv
<1>2. NetInv
  <2>1. <<>> \in Seq(Peers)
    OBVIOUS
  <2> QED BY <2>1 DEF Init, NetInit, NetInv
<1>3. ProxyInv
  <2>1. thread_active \in BOOLEAN /\ proxy_sock \in BOOLEAN
    BY DEF Init, ProxyInit
  <2>2. spc = "idle" /\ ppc = "none" /\ relays = 0 /\ relay_fds = 0 /\ vpc = "adb"
    BY DEF Init, ProxyInit
  <2> QED BY <2>1, <2>2 DEF ProxyInv
<1>4. ReloadInv
  <2>1. rthr \in BOOLEAN
    BY DEF Init
  <2>2. rpc = "none" /\ vpc = "adb" /\ msocks = 0
    BY DEF Init
  <2> QED BY <2>1, <2>2 DEF ReloadInv
<1>5. DeviceInv
  <2>1. <<>> \in Seq(Records) /\ <<>> \in Seq(Entries)
    OBVIOUS
  <2> QED BY <2>1 DEF Init, ProxyInit, DeviceInv
<1>6. PortInv
  BY DevicesAssumption DEF Init, PortInv
<1> QED BY <1>1, <1>2, <1>3, <1>4, <1>5, <1>6 DEF DInv

(* DInv is an invariant of Devices.                                        *)
THEOREM DevicesInvariance == Spec => []DInv
<1>1. DInv /\ [Next]_vars => DInv'
  BY CommandInvStep, NetInvStep, ProxyInvStep, ReloadInvStep, DeviceInvStep, PortInvStep DEF DInv
<1> QED BY InitDInv, <1>1, PTL DEF Spec

(* connect_device and the proxy never use a device that the reload thread  *)
(* deleted, for any list, any number of reloads and any order of steps.    *)
THEOREM DeviceStaysAllocated == Spec => []DeviceKept
<1>1. DInv => DeviceKept
  <2> SUFFICES ASSUME DInv PROVE DeviceKept
    OBVIOUS
  <2>1. vpc \in {"window", "ios", "forward", "forwarded", "clear", "cleared"} => Alive(dev)
    BY DEF DInv, DeviceInv
  <2>2. vpc = "net" /\ type = "MDNS" => Alive(dev)
    BY DEF DInv, DeviceInv
  <2>3. ppc \in {"look", "accept", "remote", "relay"} => Alive(proxy_device)
    BY DEF DInv, DeviceInv, ProxyInv
  <2> QED BY <2>1, <2>2, <2>3 DEF DeviceKept
<1> QED BY DevicesInvariance, <1>1, PTL

(* Every port adb is asked to forward is inside the window of one place of *)
(* the list, for any base, stride, width and length of the list.           *)
THEOREM PortsStayInWindow == Spec => []PortInWindow
<1>1. DInv => PortInWindow
  BY DEF DInv, PortInv, InWindow, PortInWindow
<1> QED BY DevicesInvariance, <1>1, PTL

(* No path through net_connect, the proxy or an mDNS query loses a socket. *)
THEOREM NoDescriptorLost == Spec => []DescriptorsAccounted
<1>1. DInv => DescriptorsAccounted
  BY DEF DInv, NetInv, ProxyInv, ReloadInv, DescriptorsAccounted
<1> QED BY DevicesInvariance, <1>1, PTL

(* net_connect gives up only after the last address, and what it returns   *)
(* is a blocking socket with a timeout.                                    *)
THEOREM ConnectAnswers == Spec => []ConnectAnswer
<1>1. DInv => ConnectAnswer
  BY DEF DInv, NetInv, ConnectAnswer
<1> QED BY DevicesInvariance, <1>1, PTL

(* Commands close their pipes and wait for their programs, except those    *)
(* whose first read failed, for any buffer that holds more than one read.  *)
THEOREM CommandsCleanUp == Spec => []CommandsCleanedUp
<1>1. ASSUME DInv PROVE CommandsCleanedUp
  <2>1. \A c : Behind(c) \in Nat
    BY DEF Behind
  <2> HIDE DEF Behind
  <2>2. zombies <= read_errors
    BY <1>1, <2>1 DEF DInv, CommandInv
  <2> QED BY <1>1, <2>2 DEF DInv, CommandInv, CommandOK, CommandsCleanedUp
<1>2. DInv => CommandsCleanedUp
  BY <1>1
<1> QED BY DevicesInvariance, <1>2, PTL
=============================================================================
