----------------------------- MODULE DevicesInv -----------------------------
(***************************************************************************)
(* The inductive invariant of finding a device and connecting to it: what  *)
(* has to be known of the session, the reload thread, the commands, the    *)
(* socket and the proxy for the properties of Devices to follow.           *)
(***************************************************************************)
EXTENDS Devices

CommandSteps == {"idle", "pipe", "fork", "read", "drain", "end", "wait", "done"}
Commands == [pc : CommandSteps, out : BOOLEAN, pipe : SUBSET {"read", "write"},
             child : {"none", "runs", "succeeded", "failed"}, left : Int, ok : BOOLEAN]

\* Pipe and program of a command, by where it is; only a command whose first
\* read failed comes to its end with a program and without success.
CommandOK(c) ==
  /\ c.pc \in {"idle", "pipe", "done"} => c.pipe = {} /\ c.child = "none"
  /\ c.pc = "fork" => c.child = "none"
  /\ c.pc = "wait" => c.pipe = {}

\* A program that is about to be left behind.
Behind(c) == IF c.pc = "end" /\ ~c.ok /\ c.child # "none" THEN 1 ELSE 0

CommandInv ==
  /\ cmd \in [Callers -> Commands]
  /\ read_errors \in Nat /\ zombies \in Nat
  /\ \A t \in Callers : CommandOK(cmd[t])
  /\ zombies + Behind(cmd["video"]) + Behind(cmd["reload"]) <= read_errors

\* A thread that runs a command is waiting for it, so none is overwritten.
CallerInv ==
  /\ vpc \notin {"version", "served", "cleared", "forwarded"} => cmd["video"].pc = "idle"
  /\ rpc # "listed" => cmd["reload"].pc = "idle"

\* The socket of net_connect, and of the session once it is connected.
NetInv ==
  /\ addrs \in Seq(Peers) /\ tried \in Nat
  /\ npc \in {"idle", "resolve", "socket", "connect", "select", "block", "connected", "failed"}
  /\ npc \in {"idle", "resolve"} => addrs = <<>> /\ tried = 0
  /\ npc \in {"socket", "connect", "select", "block", "connected"} => tried \in 1..Len(addrs)
  /\ npc \in {"block", "connected"} => addrs[tried] = "answers"
  /\ npc = "connected" => nsock = "blocking" /\ recv_timeout
  /\ npc = "failed" => tried = Len(addrs)
  /\ npc # "idle" => vpc = "net"
  /\ nsock # "none" => npc \in {"connect", "select", "block", "connected"} \/ vpc \in {"proxy", "up"}

\* The proxy's thread is created once, and outlived only by the destructors.
ProxyInv ==
  /\ relays \in Nat
  /\ relay_fds = 2 * relays + (IF ppc = "remote" THEN 1 ELSE 0)
  /\ ppc \in {"none", "look", "accept", "remote", "relay", "end", "done"}
  /\ ppc \in {"none", "done"} => relays = 0
  /\ thread_active \in BOOLEAN /\ proxy_sock \in BOOLEAN
  /\ spc # "idle" => vpc = "proxy"
  /\ spc \in {"listen", "create"} => ppc = "none"
  /\ ppc # "none" /\ vpc \notin {"dtor_proxy", "dtor_base", "gone"} =>
       thread_active \/ spc = "assign"
  /\ vpc \in {"dtor_base", "gone"} => ppc \in {"none", "done"} /\ (proxy_sock => ppc = "none")

\* The reload thread is joined before another one is created.
ReloadInv ==
  /\ rthr \in BOOLEAN
  /\ ~rthr => rpc \in {"none", "done"}
  /\ vpc = "gone" => ~rthr
  /\ msocks \in Nat
  /\ msocks > 0 => rpc \in {"add", "fill"}

Serials == {"ours", "longer", "other"}

\* The list's devices, and what a reload is told of one.
Records == [id : Nat \ {0}, serial : Serials, usable : BOOLEAN]
Entries == [serial : Serials, usable : BOOLEAN]

\* A device found once stays in the list: after that nothing asks for a
\* reload, and the one that empties it has done so before the next look.
DeviceInv ==
  /\ list \in Seq(Records)
  /\ report \in Seq(Entries)
  /\ rpc = "fill" => report # <<>>
  /\ reloads \in Nat
  /\ rpc = "clear" => vpc \in {"reset", "wait"}
  /\ dev # 0 /\ vpc # "gone" =>
       /\ Alive(dev) /\ Ours # {} /\ rpc # "clear"
       /\ vpc \notin {"start", "reset", "reload"}
  /\ dev = 0 => vpc \notin {"window", "ios", "forward", "forwarded", "clear", "cleared"}
  /\ dev = 0 /\ vpc = "net" => type = "WIFI"
  /\ dev = 0 => proxy_device = 0
  /\ vpc \in {"adb", "version", "server", "served", "usbmux"} => dev = 0
  /\ proxy_device # 0 /\ vpc # "gone" => Alive(proxy_device)
  /\ ppc # "none" \/ spc # "idle" => proxy_device # 0

InWindow == \E k \in 0..(DevicesLimit - 1) :
              usb_port \in (Base + k * Stride)..(Base + k * Stride + Width)

\* The port is inside a window from the moment it is chosen.
PortInv ==
  /\ iter \in 0..(DevicesLimit - 1) /\ Len(list) <= DevicesLimit
  /\ usb_port \in Nat
  /\ vpc \in {"clear", "cleared"} => after \in {"forward", "wait"}
  /\ \/ vpc \in {"forward", "forwarded"}
     \/ vpc = "net" /\ type = "ADB"
     \/ vpc \in {"clear", "cleared"} /\ after = "forward"
     => InWindow

(* The inductive invariant of Devices.                                     *)
DInv == /\ CommandInv /\ CallerInv /\ NetInv /\ ProxyInv
        /\ ReloadInv /\ DeviceInv /\ PortInv
=============================================================================
