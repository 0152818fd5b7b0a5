----------------------------- MODULE NetConnect -----------------------------
(***************************************************************************)
(* net.cc: net_connect.  The host's addresses are tried in turn: a socket, *)
(* made non-blocking, connect, at most 2 s in select, made blocking again, *)
(* a receive timeout of 5 s.  An address is known by how its peer behaves. *)
(* bindIP is never set in this program, and a failed bind is only logged.  *)
(***************************************************************************)
EXTENDS Naturals, Sequences

CONSTANTS MaxAddrs     \* bound: addresses of a host

ASSUME MaxAddrsAssumption == MaxAddrs \in Nat \ {0}

\* A peer that accepts and one that refuses look the same to this code.
Peers == {"answers", "silent"}

VARIABLES npc,         \* where the calling thread is in net_connect
          addrs,       \* getaddrinfo's answer
          tried,       \* addresses tried so far, the current one included
          nsock,       \* "none", or the mode of the socket: "nonblocking", "blocking"
          recv_timeout \* SO_RCVTIMEO of that socket is set

netVars == <<npc, addrs, tried, nsock, recv_timeout>>

NetInit == /\ npc = "idle" /\ addrs = <<>> /\ tried = 0
           /\ nsock = "none" /\ recv_timeout = FALSE

NGoto(from, to) == npc = from /\ npc' = to

\* net_connect(host) is called.
net_connect == /\ NGoto("idle", "resolve")
               /\ tried' = 0 /\ addrs' = <<>>
               /\ UNCHANGED <<nsock, recv_timeout>>

Lists == UNION {[1..n -> Peers] : n \in 1..MaxAddrs}

Resolve == /\ NGoto("resolve", "socket")
           /\ addrs' \in Lists
           /\ tried' = 1
           /\ UNCHANGED <<nsock, recv_timeout>>

ResolveFail == /\ NGoto("resolve", "failed")
               /\ UNCHANGED <<addrs, tried, nsock, recv_timeout>>

\* Mutant: the last address is never tried.
TryNextStops == /\ nsock' = "none"
                /\ IF tried + 1 < Len(addrs)
                   THEN npc' = "socket" /\ tried' = tried + 1
                   ELSE npc' = "failed" /\ UNCHANGED tried
                /\ UNCHANGED <<addrs, recv_timeout>>

\* This address failed: close the socket, on to ai_next.
TryNext == /\ nsock' = "none"
           /\ IF tried < Len(addrs)
              THEN npc' = "socket" /\ tried' = tried + 1
              ELSE npc' = "failed" /\ UNCHANGED tried
           /\ UNCHANGED <<addrs, recv_timeout>>

Socket == /\ NGoto("socket", "connect")
          /\ nsock' = "nonblocking" /\ recv_timeout' = FALSE
          /\ UNCHANGED <<addrs, tried>>

\* socket() or the first set_nonblock failed.
SocketFail == npc = "socket" /\ TryNext

\* connect is under way, or errno still says so from an earlier call.
Connecting == /\ NGoto("connect", "select")
              /\ UNCHANGED <<addrs, tried, nsock, recv_timeout>>

\* It failed at once, or it succeeded at once and errno was never reset.
ConnectError == /\ npc = "connect"
                /\ addrs[tried] = "answers"
                /\ TryNext

\* Writable: connected or refused, which the code does not tell apart.
Writable == /\ NGoto("select", "block")
            /\ addrs[tried] = "answers"
            /\ UNCHANGED <<addrs, tried, nsock, recv_timeout>>

\* select timed out or failed.
SelectFail == npc = "select" /\ TryNext

Ready == /\ NGoto("block", "connected")
         /\ nsock' = "blocking" /\ recv_timeout' = TRUE
         /\ UNCHANGED <<addrs, tried>>

BlockFail == npc = "block" /\ TryNext

NetStep == \/ Resolve \/ ResolveFail \/ Socket \/ SocketFail \/ Connecting
           \/ ConnectError \/ Writable \/ SelectFail \/ Ready \/ BlockFail

\* The caller has taken the result; net_close of a connection it is done with.
NetReturn == /\ npc' = "idle" /\ addrs' = <<>> /\ tried' = 0
             /\ UNCHANGED <<nsock, recv_timeout>>

net_close == /\ nsock' = "none" /\ recv_timeout' = FALSE
             /\ UNCHANGED <<npc, addrs, tried>>
=============================================================================
