------------------------------ MODULE Devices ------------------------------
(***************************************************************************)
(* How a session finds its device and connects to it: the managers of      *)
(* device_discovery.cc and mdns_discovery.cc, connect_device and the outer *)
(* loop of video_thread in source.cc, composed with the command runner,    *)
(* the TCP client and the USB proxy.  `vpc` follows the one session from   *)
(* the constructors over its video thread to the destructors, which run    *)
(* after that thread was joined; `rpc` is the reload thread of the manager *)
(* in use.  What the connection carries is module Source.                  *)
(* droidcam_source_start sets the type WIFI; connect_device and the loop   *)
(* handle four, and all four are modelled.  The platform is Linux.         *)
(***************************************************************************)
EXTENDS Command, NetConnect, Proxy, FiniteSets

CONSTANTS DeviceTypes,    \* of "WIFI", "MDNS", "ADB", "IOS"
          DevicesLimit,   \* DEVICES_LIMIT
          Parallel,       \* PARALLEL, sockets of an mDNS query
          Variants,       \* places where adb is looked for
          Base,           \* device_info.port
          Stride, Width,  \* 10 and 8: ports of a device
          MaxReport,      \* bound: devices a reload is told of
          MaxReloads      \* bound: reload threads created

ASSUME DevicesAssumption == /\ DeviceTypes \subseteq {"WIFI", "MDNS", "ADB", "IOS"}
                            /\ DevicesLimit \in Nat \ {0} /\ Parallel \in Nat \ {0}
                            /\ Base \in Nat /\ Width \in Nat /\ Stride \in Nat /\ Width < Stride
                            /\ Callers = {"video", "reload"}
ASSUME DevicesBounds == Variants \in Nat /\ MaxReport \in Nat /\ MaxReloads \in Nat

VARIABLES type,           \* device_info.type
          vpc, after,     \* the session, and where ClearForwards returns to
          i,              \* its loop counter: variants of adb, ports to clear
          disabled, hModuleUsbmux,
          list,           \* deviceList; every Device has its own id
          iter, dev,      \* iter; the id of connect_device's dev
          port_start, usb_port,
          rthr, rpc, report, msocks, reloads,
          stop

mgrVars == <<list, rpc, report, msocks>>
portVars == <<port_start, usb_port, after, i>>
fixed == <<type, disabled, hModuleUsbmux>>
rest == <<fixed, mgrVars, iter, dev, rthr, reloads, stop>>
vars == <<cmdVars, netVars, proxyVars, portVars, vpc, rest>>

\* Serials: "longer" starts with the characters of "ours", the id looked for.
\* usable: adb says "device", or the handle or the address is known.
Reported == [serial : {"ours", "longer", "other"}, usable : {TRUE}]
            \cup (IF type = "ADB" THEN [serial : {"ours"}, usable : {FALSE}] ELSE {})

Reports == UNION {[1..n -> Reported] : n \in 0..MaxReport}

\* strncmp(d.serial, s, length): a udid is compared whole, an adb serial and
\* an mDNS record only up to the length of s.
Matches(d, s) == d.serial = s \/ (type # "IOS" /\ d.serial = "longer" /\ s = "ours")

\* Indices GetDevice(s) could stop at; the first one counts.
Same(s) == {k \in DOMAIN list : Matches(list[k], s)}
First(ks) == CHOOSE k \in ks : \A l \in ks : k <= l

\* connect_device asks with all 80 characters of the id.
Ours == {k \in DOMAIN list : list[k].serial = "ours"}

\* A Device is known by the reload that found it and its place.
NewId == reloads * DevicesLimit + Len(list) + 1

Alive(id) == \E k \in DOMAIN list : list[k].id = id
Usable(id) == \E k \in DOMAIN list : list[k].id = id /\ list[k].usable

VGoto(from, to) == vpc = from /\ vpc' = to

Init == /\ CommandInit /\ NetInit /\ ProxyInit
        /\ type \in DeviceTypes
        /\ vpc = "adb" /\ after = "none" /\ i = 0
        /\ disabled = TRUE /\ hModuleUsbmux = FALSE
        /\ list = <<>> /\ iter = 0 /\ dev = 0
        /\ port_start = 0 /\ usb_port = 0
        /\ rthr = FALSE /\ rpc = "none" /\ report = <<>> /\ msocks = 0 /\ reloads = 0
        /\ stop = FALSE

-----------------------------------------------------------------------------
\* AdbMgr::AdbMgr: the first place where `adb version` succeeds is used.
TryVariant == /\ vpc = "adb"
              /\ \/ i < Variants /\ vpc' = "version" /\ adb_execute("video", TRUE) /\ UNCHANGED i
                 \/ i < Variants /\ i' = i + 1 /\ UNCHANGED <<vpc, cmdVars>>
                 \/ i = Variants /\ vpc' = "usbmux" /\ UNCHANGED <<i, cmdVars>>
              /\ UNCHANGED <<netVars, proxyVars, port_start, usb_port, after, rest>>

VersionRan == /\ vpc = "version" /\ Returned("video")
              /\ IF cmd["video"].ok
                 THEN disabled' = FALSE /\ vpc' = "server" /\ UNCHANGED i
                 ELSE vpc' = "adb" /\ i' = i + 1 /\ UNCHANGED disabled
              /\ UNCHANGED <<netVars, proxyVars, type, hModuleUsbmux, mgrVars, port_start,
                             usb_port, after, iter, dev, rthr, reloads, stop>>

StartServer == /\ VGoto("server", "served") /\ adb_execute("video", FALSE)
               /\ UNCHANGED <<netVars, proxyVars, portVars, rest>>

ServerRan == /\ VGoto("served", "usbmux") /\ Returned("video")
             /\ UNCHANGED <<netVars, proxyVars, portVars, rest>>

\* USBMux::USBMux: the library was found, or iOS is not supported (a choice
\* that only matters where an iOS device is asked for).
USBMuxCtor == /\ VGoto("usbmux", "start")
              /\ hModuleUsbmux' \in {FALSE, type = "IOS"}
              /\ UNCHANGED <<cmdVars, netVars, proxyVars, type, disabled, mgrVars, portVars,
                             iter, dev, rthr, reloads, stop>>

-----------------------------------------------------------------------------
\* join(): wait for the reload thread, if there is one.
Joined == rthr => rpc = "done"

\* DeviceDiscovery::Reload.
Reload == /\ Joined
          /\ \/ reloads < MaxReloads /\ reloads' = reloads + 1 /\ rthr' = TRUE /\ rpc' = "clear"
             \/ rthr' = FALSE /\ rpc' = "none" /\ UNCHANGED reloads
          /\ UNCHANGED <<list, report, msocks>>

\* video_thread, before its loop.
StartReload == /\ vpc = "start"
               /\ IF type = "WIFI"
                  THEN vpc' = "loop" /\ UNCHANGED <<mgrVars, rthr, reloads>>
                  ELSE vpc' = "reset" /\ Reload
               /\ UNCHANGED <<cmdVars, netVars, proxyVars, fixed, portVars, iter, dev, stop>>

ResetIter == /\ VGoto("reset", "loop") /\ Joined
             /\ rthr' = FALSE /\ iter' = 0
             /\ UNCHANGED <<cmdVars, netVars, proxyVars, fixed, mgrVars, portVars, dev, reloads, stop>>

\* The loop: the session ends, or connect_device is called.
Loop == /\ vpc = "loop"
        /\ \/ stop /\ vpc' = "dtor" /\ UNCHANGED netVars
           \/ ~stop /\ type = "WIFI" /\ vpc' = "net" /\ net_connect
           \/ ~stop /\ type # "WIFI" /\ vpc' = "get" /\ UNCHANGED netVars
        /\ UNCHANGED <<cmdVars, proxyVars, portVars, rest>>

GetDevice == /\ vpc = "get"
             /\ IF Ours = {}
                THEN vpc' = "reload" /\ UNCHANGED <<iter, dev, netVars>>
                ELSE /\ iter' = First(Ours) - 1 /\ dev' = list[First(Ours)].id
                     /\ \/ type = "MDNS" /\ vpc' = "net" /\ net_connect
                        \/ type = "ADB" /\ vpc' = "window" /\ UNCHANGED netVars
                        \/ type = "IOS" /\ vpc' = "ios" /\ UNCHANGED netVars
             /\ UNCHANGED <<cmdVars, proxyVars, fixed, mgrVars, portVars, rthr, reloads, stop>>

RetryReload == /\ VGoto("reload", "wait") /\ Reload
               /\ UNCHANGED <<cmdVars, netVars, proxyVars, fixed, portVars, iter, dev, stop>>

-----------------------------------------------------------------------------
\* Mutant: the port is not brought back after the last one of the window.
WindowUnbounded ==
  /\ vpc = "window"
  /\ IF ~Usable(dev)
     THEN vpc' = "wait" /\ UNCHANGED portVars
     ELSE LET start == Base + iter * Stride IN
          /\ port_start' = start /\ vpc' = "forward" /\ UNCHANGED <<i, after>>
          /\ usb_port' = IF usb_port < start THEN start ELSE usb_port
  /\ UNCHANGED <<cmdVars, netVars, proxyVars, rest>>

\* The ports of this device, from where Iter() says it is in the list.
\* `disabled` needs no test from here on: then the list stays empty.
Window ==
  /\ vpc = "window"
  /\ IF ~Usable(dev)
     THEN vpc' = "wait" /\ UNCHANGED portVars
     ELSE LET start == Base + iter * Stride IN
          /\ port_start' = start
          /\ usb_port' = IF usb_port \in start..(start + Width) THEN usb_port ELSE start
          /\ IF usb_port > start + Width
             THEN vpc' = "clear" /\ after' = "forward" /\ i' = start
             ELSE vpc' = "forward" /\ UNCHANGED <<after, i>>
  /\ UNCHANGED <<cmdVars, netVars, proxyVars, rest>>

\* ClearForwards: one command per port.
ClearForwards == /\ vpc = "clear"
                 /\ IF i <= port_start + Width
                    THEN vpc' = "cleared" /\ adb_execute("video", FALSE)
                    ELSE vpc' = after /\ UNCHANGED cmdVars
                 /\ UNCHANGED <<netVars, proxyVars, portVars, rest>>

Cleared == /\ VGoto("cleared", "clear") /\ Returned("video")
           /\ i' = i + 1
           /\ UNCHANGED <<netVars, proxyVars, port_start, usb_port, after, rest>>

AddForward == /\ VGoto("forward", "forwarded") /\ adb_execute("video", FALSE)
              /\ UNCHANGED <<netVars, proxyVars, portVars, rest>>

Forwarded == /\ vpc = "forwarded" /\ Returned("video")
             /\ IF cmd["video"].ok
                THEN vpc' = "net" /\ net_connect /\ UNCHANGED usb_port
                ELSE vpc' = "wait" /\ usb_port' = usb_port + 1 /\ UNCHANGED netVars
             /\ UNCHANGED <<proxyVars, port_start, after, i, rest>>

\* net_connect runs.  The address of an mDNS device may still be empty;
\* localhost_ip is one numeric address.
Connect == /\ vpc = "net" /\ NetStep
           /\ npc = "resolve" /\ type = "MDNS" /\ ~Usable(dev) => npc' = "failed"
           /\ npc = "resolve" /\ type = "ADB" => npc' # "failed" /\ Len(addrs') = 1
           /\ UNCHANGED <<cmdVars, proxyVars, portVars, vpc, rest>>

Connected == /\ VGoto("net", "up") /\ npc = "connected" /\ NetReturn
             /\ UNCHANGED <<cmdVars, proxyVars, portVars, rest>>

NotConnected ==
  /\ vpc = "net" /\ npc = "failed" /\ NetReturn
  /\ IF type = "ADB"
     THEN vpc' = "clear" /\ after' = "wait" /\ i' = port_start
     ELSE vpc' = "wait" /\ UNCHANGED <<after, i>>
  /\ UNCHANGED <<cmdVars, proxyVars, port_start, usb_port, rest>>

\* USBMux::Connect: a descriptor from usbmuxd, made blocking; then the proxy.
USBMuxConnect ==
  /\ vpc = "ios"
  /\ \/ vpc' = "wait" /\ UNCHANGED <<proxyVars, netVars>>
     \/ /\ hModuleUsbmux /\ Usable(dev) /\ vpc' = "proxy"
        /\ nsock' = "blocking" /\ recv_timeout' = TRUE /\ UNCHANGED <<npc, addrs, tried>>
        /\ Start(dev)
  /\ UNCHANGED <<cmdVars, portVars, rest>>

ProxyStart == /\ vpc = "proxy"
              /\ \/ StartStep /\ UNCHANGED vpc
                 \/ StartReturn /\ vpc' = "up"
              /\ UNCHANGED <<cmdVars, netVars, portVars, rest>>

\* The connection fails, or the session is asked to end.
Disconnect(to) == /\ VGoto("up", to) /\ net_close
                  /\ UNCHANGED <<cmdVars, proxyVars, portVars, rest>>
Lost == Disconnect("wait")
StopSeen == stop /\ Disconnect("dtor")

\* Mutant: the next attempt is made at once.
SlowLoopAtOnce == /\ VGoto("wait", "loop")
                  /\ UNCHANGED <<cmdVars, netVars, proxyVars, portVars, rest>>

\* SLOW_LOOP sleeps 2 s.  That is long enough for a reload thread that was
\* just created to empty the list, the one assumption about time made here.
SlowLoop == /\ VGoto("wait", "loop")
            /\ rpc # "clear"
            /\ UNCHANGED <<cmdVars, netVars, proxyVars, portVars, rest>>

-----------------------------------------------------------------------------
\* The destructors of mdnsMgr, iosMgr and adbMgr.  The body of a derived one
\* frees what its reload thread uses before the base class joins the thread.
DtorBody == /\ vpc = "dtor"
            /\ \/ vpc' = "dtor_proxy" /\ Dtor
               \/ /\ type \in {"ADB", "IOS"} /\ rthr /\ rpc # "done"
                  /\ vpc' = "crashed" /\ UNCHANGED proxyVars
            /\ UNCHANGED <<cmdVars, netVars, portVars, rest>>

\* A thread was started exactly if thread_active was found set.
DtorProxy == /\ VGoto("dtor_proxy", "dtor_base") /\ DtorJoin(ppc # "none")
             /\ UNCHANGED <<cmdVars, netVars, portVars, rest>>

DtorBase == /\ VGoto("dtor_base", "gone") /\ Joined
            /\ rthr' = FALSE /\ list' = <<>>
            /\ UNCHANGED <<cmdVars, netVars, proxyVars, fixed, rpc, report, msocks,
                           portVars, iter, dev, reloads, stop>>

-----------------------------------------------------------------------------
RGoto(from, to) == rpc = from /\ rpc' = to
RKeeps == UNCHANGED <<netVars, proxyVars, fixed, portVars, vpc, dev, rthr, reloads, stop>>

Clear == /\ RGoto("clear", "reload")
         /\ list' = <<>>
         /\ RKeeps /\ UNCHANGED <<cmdVars, iter, report, msocks>>

\* AdbMgr::DoReload, USBMux::DoReload and MDNS::DoReload up to their loops.
AdbReload == /\ type = "ADB" /\ rpc = "reload"
             /\ IF disabled THEN rpc' = "done" /\ UNCHANGED cmdVars
                            ELSE rpc' = "listed" /\ adb_execute("reload", TRUE)
             /\ RKeeps /\ UNCHANGED <<list, iter, report, msocks>>

AdbListed == /\ rpc = "listed" /\ Returned("reload")
             /\ IF cmd["reload"].ok THEN rpc' = "add" /\ report' \in Reports
                                    ELSE rpc' = "done" /\ UNCHANGED report
             /\ RKeeps /\ UNCHANGED <<list, iter, msocks>>

USBMuxReload == /\ type = "IOS" /\ rpc = "reload"
                /\ \/ rpc' = "done" /\ UNCHANGED report
                   \/ hModuleUsbmux /\ rpc' = "add" /\ report' \in Reports
                /\ RKeeps /\ UNCHANGED <<cmdVars, list, iter, msocks>>

MDNSReload == /\ type = "MDNS" /\ RGoto("reload", "add")
              /\ msocks' \in 0..Parallel
              /\ report' \in IF msocks' = 0 THEN {<<>>} ELSE Reports
              /\ RKeeps /\ UNCHANGED <<cmdVars, list, iter>>

\* AddDevice for the next one, by the loops of the three and query_callback:
\* a device taken for a duplicate or a full list ends the loop, not for mDNS.
AddDevice ==
  /\ rpc = "add" /\ report # <<>>
  /\ LET same == Same(Head(report).serial) IN
     /\ iter' = IF same = {} THEN iter ELSE First(same) - 1
     /\ IF same = {} /\ Len(list) < DevicesLimit
        THEN /\ list' = Append(list, [id |-> NewId, serial |-> Head(report).serial, usable |-> FALSE])
             /\ rpc' = "fill" /\ UNCHANGED report
        ELSE /\ report' = IF type = "MDNS" THEN Tail(report) ELSE <<>>
             /\ UNCHANGED <<list, rpc>>
  /\ RKeeps /\ UNCHANGED <<cmdVars, msocks>>

\* Its state, handle or address is written after it is in the list.
Fill == /\ RGoto("fill", "add")
        /\ list' = [list EXCEPT ![Len(list)].usable = Head(report).usable]
        /\ report' = Tail(report)
        /\ RKeeps /\ UNCHANGED <<cmdVars, iter, msocks>>

ReloadEnds == /\ RGoto("add", "done") /\ report = <<>>
              /\ msocks' = 0
              /\ RKeeps /\ UNCHANGED <<cmdVars, list, iter, report>>

-----------------------------------------------------------------------------
StepOf(t) == /\ CommandStep(t)
             /\ UNCHANGED <<netVars, proxyVars, portVars, vpc, rest>>

Video == \/ TryVariant \/ VersionRan \/ StartServer \/ ServerRan \/ USBMuxCtor
         \/ StartReload \/ ResetIter \/ Loop \/ GetDevice \/ RetryReload
         \/ Window \/ ClearForwards \/ Cleared \/ AddForward \/ Forwarded
         \/ Connect \/ Connected \/ NotConnected \/ USBMuxConnect \/ ProxyStart
         \/ StopSeen \/ SlowLoop \/ DtorBody \/ DtorProxy \/ DtorBase
         \/ StepOf("video")

ReloadThread == \/ Clear \/ AdbReload \/ AdbListed \/ USBMuxReload \/ MDNSReload
                \/ AddDevice \/ Fill \/ ReloadEnds \/ StepOf("reload")

ProxyThread == proxy_run /\ UNCHANGED <<cmdVars, netVars, portVars, vpc, rest>>

Program(t) == ProgramEnds(t) /\ UNCHANGED <<netVars, proxyVars, portVars, vpc, rest>>

Stop == /\ ~stop /\ vpc \notin {"adb", "version", "server", "served", "usbmux"}
        /\ stop' = TRUE
        /\ UNCHANGED <<cmdVars, netVars, proxyVars, fixed, mgrVars, portVars, vpc, iter, dev,
                       rthr, reloads>>

Ended == vpc \in {"gone", "crashed"} /\ UNCHANGED vars

Next == \/ /\ vpc # "crashed"
           /\ \/ Video \/ Lost \/ ReloadThread \/ ProxyThread \/ Stop
              \/ \E t \in Callers : Program(t)
        \/ Ended

\* The threads are scheduled and adb ends; nobody promises that a
\* connection fails or that a session is stopped.
Fairness == /\ WF_vars(vpc # "crashed" /\ Video)
            /\ WF_vars(vpc # "crashed" /\ ReloadThread)
            /\ WF_vars(vpc # "crashed" /\ ProxyThread)
            /\ \A t \in Callers : WF_vars(vpc # "crashed" /\ Program(t))

Spec == Init /\ [][Next]_vars /\ Fairness

-----------------------------------------------------------------------------
(* No thread is left with a deleted Device: not connect_device while it    *)
(* forwards, connects or resolves, and not the proxy, which reads the      *)
(* device of the last Start whenever a client comes, although the reload   *)
(* thread deletes every device without a lock.                             *)
DeviceKept ==
  /\ vpc \in {"window", "ios", "forward", "forwarded", "clear", "cleared"} => Alive(dev)
  /\ vpc = "net" /\ type = "MDNS" => Alive(dev)
  /\ ppc \in {"look", "accept", "remote", "relay"} => Alive(proxy_device)

(* Two devices never share a local port: every port a forward is asked for *)
(* is inside the window of one place of the device list, however often     *)
(* forwards failed before and whatever the reload thread did to iter.      *)
PortInWindow ==
  type = "ADB" /\ vpc \in {"forward", "forwarded", "net"} =>
    \E k \in 0..(DevicesLimit - 1) : usb_port \in (Base + k * Stride)..(Base + k * Stride + Width)

(* Every socket has an owner that will close it, whichever call failed     *)
(* before: net_connect while it tries an address, the session while it is  *)
(* connected, a relay for its pair, the mDNS query for its sockets.  After *)
(* the destructors only the listening socket of a proxy whose thread could *)
(* not be created is left.                                                 *)
DescriptorsAccounted ==
  /\ nsock # "none" => npc \in {"connect", "select", "block", "connected"} \/ vpc \in {"proxy", "up"}
  /\ relay_fds = 2 * relays + (IF ppc = "remote" THEN 1 ELSE 0)
  /\ msocks > 0 => rpc \in {"add", "fill"}
  /\ vpc = "gone" => nsock = "none" /\ relay_fds = 0 /\ msocks = 0 /\ (proxy_sock => ppc = "none")

(* What net_connect answers: a blocking socket with a receive timeout, to  *)
(* an address that did answer, or failure once every address was tried and *)
(* its socket closed.                                                      *)
ConnectAnswer ==
  /\ npc = "connected" => /\ nsock = "blocking" /\ recv_timeout
                          /\ addrs[tried] = "answers"
  /\ npc = "failed" => nsock = "none" /\ tried = Len(addrs)

(* The constructors and every attempt to connect come to an end, with all  *)
(* their commands, the join of a reload that still runs and the start of   *)
(* the proxy: no command waits for output that never ends.                 *)
AttemptReturns == vpc \in {"adb", "loop"} ~> vpc \in {"up", "wait", "dtor", "crashed"}

(* A stop ends the session: the loop sees it and the destructors come to   *)
(* their end, with the proxy's thread and the reload thread joined.        *)
StopEnds == stop ~> vpc \in {"gone", "crashed"}
=============================================================================
