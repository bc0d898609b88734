-------------------------------- MODULE Lan --------------------------------
(***************************************************************************)
(* network.LAN (network_lan.c): active(True), active(False), the callback  *)
(* that the link monitor task of the Ethernet driver calls when the cable  *)
(* is plugged or unplugged, and the DHCP request both of them make.        *)
(*                                                                         *)
(* The callback runs in the driver's task, not under the GIL, so it        *)
(* interleaves with active() at every step.  The driver sets               *)
(* eth_link_is_up before it calls the callback, and calls it again only    *)
(* after it has returned.                                                  *)
(***************************************************************************)
VARIABLES
  overlap,   \* fixed: FALSE when active() is not called during a callback, nor the reverse
  started,   \* network_lan_eth_init_done
  netif,     \* netif_is_up(pnetif_eth)
  link,      \* eth_link_is_up
  addr,      \* the interface has an address
  hasIp,     \* network_lan_has_ip
  route,     \* the interface is the default one
  at,        \* the step of the Python task and of the link monitor task
  lease,     \* what lwip_request_ip returned to each of them
  asked      \* history: an address was requested since the interface and the link came up

lanVars == <<started, netif, link, addr, hasIp, route, at, lease, asked>>

Tasks == {"py", "monitor"}

LanTypeOK ==
  /\ {overlap, started, netif, link, addr, hasIp, route, asked} \subseteq BOOLEAN
  /\ lease \in [Tasks -> BOOLEAN]
  /\ at["py"] \in {"idle", "check", "request", "store", "route", "clear", "down"}
  /\ at["monitor"] \in {"idle", "up", "request", "store", "route", "forget", "clear"}

LanInit ==
  /\ overlap \in BOOLEAN
  /\ started = FALSE /\ netif = FALSE /\ link = FALSE /\ addr = FALSE
  /\ hasIp = FALSE /\ route = FALSE /\ asked = FALSE
  /\ at = [t \in Tasks |-> "idle"] /\ lease = [t \in Tasks |-> FALSE]

Moves(t, step) == at' = [at EXCEPT ![t] = step]

MayStart == \A t \in Tasks : at[t] = "idle" \/ overlap

-----------------------------------------------------------------------------
(* network_lan_do_dhcp, by either task.  lwip_request_ip blocks, and       *)
(* succeeds only on an interface that is up and linked.                    *)
DhcpRequest(t) ==
  /\ at[t] = "request" /\ asked' = TRUE
  /\ \E ok \in {FALSE} \cup {netif /\ link} :
       lease' = [lease EXCEPT ![t] = ok] /\ addr' = (addr \/ ok)
  /\ Moves(t, "store")
  /\ UNCHANGED <<started, netif, link, hasIp, route>>

Store(t) ==
  /\ at[t] = "store" /\ hasIp' = lease[t] /\ Moves(t, "route")
  /\ UNCHANGED <<started, netif, link, addr, route, lease, asked>>

(* The flag, not the result, is read again before the route is set.        *)
Routed(t) == hasIp

SetDefault(t) ==
  /\ at[t] = "route" /\ route' = (route \/ Routed(t)) /\ Moves(t, "idle")
  /\ UNCHANGED <<started, netif, link, addr, hasIp, lease, asked>>

-----------------------------------------------------------------------------
(* network_lan_make_new starts the driver, once.                           *)
MakeNew ==
  /\ at["py"] = "idle" /\ ~started /\ started' = TRUE
  /\ UNCHANGED <<netif, link, addr, hasIp, route, at, lease, asked>>

(* network_lan_active(True): lwip_netif_set_up, then the link is read.     *)
ActiveTrue ==
  /\ started /\ at["py"] = "idle" /\ MayStart
  /\ netif' = TRUE /\ Moves("py", "check")
  /\ UNCHANGED <<started, link, addr, hasIp, route, lease, asked>>

(* Mutant: active(True) leaves the request to the callback.                *)
AfterCheckNothing == "idle"

AfterCheck == IF link THEN "request" ELSE "idle"

Check ==
  /\ at["py"] = "check" /\ Moves("py", AfterCheck)
  /\ UNCHANGED <<started, netif, link, addr, hasIp, route, lease, asked>>

Forgotten == FALSE

(* network_lan_active(False): the flag, the address, the interface.        *)
ActiveFalse ==
  /\ started /\ at["py"] = "idle" /\ MayStart
  /\ hasIp' = Forgotten /\ Moves("py", "clear")
  /\ UNCHANGED <<started, netif, link, addr, route, lease, asked>>

ClearIp ==
  /\ at["py"] = "clear" /\ addr' = FALSE /\ Moves("py", "down")
  /\ UNCHANGED <<started, netif, link, hasIp, route, lease, asked>>

SetDown ==
  /\ at["py"] = "down" /\ netif' = FALSE /\ asked' = FALSE /\ Moves("py", "idle")
  /\ UNCHANGED <<started, link, addr, hasIp, route, lease>>

(* network_lan_ifconfig sets a static address.                             *)
Ifconfig ==
  /\ started /\ at["py"] = "idle" /\ MayStart /\ addr' = TRUE
  /\ UNCHANGED <<started, netif, link, hasIp, route, at, lease, asked>>

-----------------------------------------------------------------------------
(* The link monitor task.                                                  *)
LinkChange ==
  /\ started /\ at["monitor"] = "idle" /\ MayStart
  /\ link' = ~link /\ asked' = FALSE
  /\ Moves("monitor", IF link' THEN "up" ELSE "forget")
  /\ UNCHANGED <<started, netif, addr, hasIp, route, lease>>

(* network_lan_link_callback(1)                                            *)
LinkUp ==
  /\ at["monitor"] = "up" /\ Moves("monitor", IF netif THEN "request" ELSE "idle")
  /\ UNCHANGED <<started, netif, link, addr, hasIp, route, lease, asked>>

(* network_lan_link_callback(0)                                            *)
LinkDown ==
  /\ at["monitor"] = "forget" /\ hasIp' = FALSE /\ Moves("monitor", "clear")
  /\ UNCHANGED <<started, netif, link, addr, route, lease, asked>>

LinkDownClear ==
  /\ at["monitor"] = "clear" /\ addr' = (addr /\ ~netif) /\ Moves("monitor", "idle")
  /\ UNCHANGED <<started, netif, link, hasIp, route, lease, asked>>

LanStep ==
  \/ MakeNew \/ ActiveTrue \/ Check \/ ActiveFalse \/ ClearIp \/ SetDown \/ Ifconfig
  \/ LinkChange \/ LinkUp \/ LinkDown \/ LinkDownClear
  \/ \E t \in Tasks : DhcpRequest(t) \/ Store(t) \/ SetDefault(t)

LanNext == LanStep /\ UNCHANGED overlap

LanSpec == LanInit /\ [][LanNext]_<<lanVars, overlap>>

-----------------------------------------------------------------------------
(* network_lan_isconnected                                                 *)
Isconnected == link /\ hasIp

(* The state is well typed.  isconnected() reflects a lease (comment at    *)
(* network_lan.c:36-39): when it is true the interface is up and has an    *)
(* address, unless active(False) overlaps the request of a callback, which *)
(* stores its lease after the address is gone.  Once nothing is in         *)
(* progress, a connected interface is the default one, and one that is up  *)
(* on a link that is up has asked for an address: whichever of             *)
(* active(True) and the callback comes second sees what the other has done *)
(* (network_lan.c:140-143).                                                *)
LeaseReflected ==
  /\ LanTypeOK
  /\ ~overlap /\ Isconnected => addr /\ netif
  /\ (\A t \in Tasks : at[t] = "idle") =>
       (Isconnected => route) /\ (netif /\ link => asked)
=============================================================================
