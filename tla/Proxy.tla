------------------------------- MODULE Proxy -------------------------------
(***************************************************************************)
(* proxy.cc: local clients reach an iOS device through a listening socket  *)
(* on localhost.  Start is called by the thread that connects (spc is its  *)
(* program counter there), proxy_run is the proxy's own thread.  Clients   *)
(* and devices come and go.  What is relayed is left out: a relay is a     *)
(* pair of descriptors that stays or breaks.                               *)
(***************************************************************************)
EXTENDS Naturals

CONSTANTS MaxRelays        \* bound: relays at a time

ASSUME MaxRelaysAssumption == MaxRelays \in Nat

VARIABLES spc,             \* the caller in Start
          ppc,             \* proxy_run
          thread_active,
          proxy_sock,      \* the listening socket is open
          proxy_device,    \* the device given to the last Start, 0 for none
          relays,          \* length of proxy_run's list
          relay_fds        \* descriptors of clients and devices open in proxy_run

proxyVars == <<spc, ppc, thread_active, proxy_sock, proxy_device, relays, relay_fds>>
runVars == <<ppc, relays, relay_fds>>

ProxyInit == /\ spc = "idle" /\ ppc = "none"
             /\ thread_active = FALSE /\ proxy_sock = FALSE
             /\ proxy_device = 0 /\ relays = 0 /\ relay_fds = 0

SGoto(from, to) == spc = from /\ spc' = to

\* Start(dev): the device changes under a running thread.
Start(dev) == /\ spc = "idle"
              /\ spc' = IF thread_active THEN "done" ELSE "listen"
              /\ proxy_device' = dev
              /\ UNCHANGED <<runVars, thread_active, proxy_sock>>

\* A socket left by an earlier failure is closed, a new one opened.
Listen == /\ SGoto("listen", "create")
          /\ proxy_sock' = TRUE
          /\ UNCHANGED <<runVars, thread_active, proxy_device>>

\* net_listen fails, or only net_listen_port does: then the socket stays.
ListenFail == /\ SGoto("listen", "done")
              /\ proxy_sock' \in BOOLEAN
              /\ UNCHANGED <<runVars, thread_active, proxy_device>>

\* From here on the new thread runs, and thread_active is not set yet.
Create == /\ SGoto("create", "assign")
          /\ ppc' = "look"
          /\ UNCHANGED <<thread_active, proxy_sock, proxy_device, relays, relay_fds>>

CreateFail == /\ SGoto("create", "done")
              /\ UNCHANGED <<runVars, thread_active, proxy_sock, proxy_device>>

Assign == /\ SGoto("assign", "done")
          /\ thread_active' = TRUE
          /\ UNCHANGED <<runVars, proxy_sock, proxy_device>>

StartStep == Listen \/ ListenFail \/ Create \/ CreateFail \/ Assign

StartReturn == /\ SGoto("done", "idle")
               /\ UNCHANGED <<runVars, thread_active, proxy_sock, proxy_device>>

PGoto(from, to) == ppc = from /\ ppc' = to
PKeeps == UNCHANGED <<spc, thread_active, proxy_sock, proxy_device>>

Look == /\ ppc = "look"
        /\ ppc' = IF thread_active THEN "accept" ELSE "end"
        /\ PKeeps /\ UNCHANGED <<relays, relay_fds>>

Accept == /\ PGoto("accept", "remote")
          /\ relays < MaxRelays
          /\ relay_fds' = relay_fds + 1
          /\ PKeeps /\ UNCHANGED relays

AcceptNone == /\ PGoto("accept", "relay")
              /\ PKeeps /\ UNCHANGED <<relays, relay_fds>>

\* usbmuxd_connect to proxy_device->handle; the client is closed if it fails.
Remote == /\ PGoto("remote", "relay")
          /\ relays' = relays + 1 /\ relay_fds' = relay_fds + 1
          /\ PKeeps

RemoteFail == /\ PGoto("remote", "relay")
              /\ relay_fds' = relay_fds - 1
              /\ PKeeps /\ UNCHANGED relays

\* Mutant: only the client's descriptor is closed.
RelayHalfClosed == /\ PGoto("relay", "look")
                   /\ \E broken \in 0..relays :
                        relays' = relays - broken /\ relay_fds' = relay_fds - broken
                   /\ PKeeps

\* One round of the loop: nothing to do, or some relays end on an error.
Relay == /\ PGoto("relay", "look")
         /\ \E broken \in 0..relays :
              relays' = relays - broken /\ relay_fds' = relay_fds - 2 * broken
         /\ PKeeps

RunEnd == /\ PGoto("end", "done")
          /\ relays' = 0 /\ relay_fds' = relay_fds - 2 * relays
          /\ PKeeps

proxy_run == Look \/ Accept \/ AcceptNone \/ Remote \/ RemoteFail \/ Relay \/ RunEnd

\* Mutant: the destructor does not ask the thread to end.
DtorForgets == UNCHANGED proxyVars

\* ~Proxy: ask the thread to end; join it; close the socket it served.
Dtor == /\ thread_active' = FALSE
        /\ UNCHANGED <<spc, runVars, proxy_sock, proxy_device>>

DtorJoin(active) == /\ active => ppc \in {"none", "done"}
                    /\ proxy_sock' = (proxy_sock /\ ~active)
                    /\ UNCHANGED <<spc, runVars, thread_active, proxy_device>>
=============================================================================
