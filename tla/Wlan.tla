-------------------------------- MODULE Wlan --------------------------------
(***************************************************************************)
(* network.WLAN (network_wlan.c): the access point, which active(True) and *)
(* config() start between them in either order, and the station, which     *)
(* connect() joins to a network and gives an address.                      *)
(*                                                                         *)
(* wifi_start_ap, wifi_connect and lwip_request_ip run without the GIL:    *)
(* another thread may use the interface in the meantime.  The two objects  *)
(* are static, and a soft reset changes nothing of this.  The driver and   *)
(* lwIP are external.                                                      *)
(***************************************************************************)
VARIABLES
  ap,        \* ap_active_requested, ap_ssid_len # 0, and the access point itself
  sta,       \* the station
  wait,      \* what each thread waits for without the GIL
  failed,    \* history: the last call for the access point that had to start it raised
  alone      \* fixed: one thread at a time uses the interface

wlanVars == <<ap, sta, wait, failed>>

Users == {"main", "other"}

WlanTypeOK ==
  /\ ap \in [wanted : BOOLEAN, ssid : BOOLEAN, running : BOOLEAN, ip : BOOLEAN, dhcps : BOOLEAN]
  /\ sta \in [joined : BOOLEAN, ip : BOOLEAN, static : BOOLEAN]
  /\ wait \in [Users -> {"no", "wifi_start_ap", "wifi_connect", "lwip_request_ip"}]
  /\ failed \in BOOLEAN /\ alone \in BOOLEAN

WlanInit ==
  /\ ap = [wanted |-> FALSE, ssid |-> FALSE, running |-> FALSE, ip |-> FALSE, dhcps |-> FALSE]
  /\ sta = [joined |-> FALSE, ip |-> FALSE, static |-> FALSE]
  /\ wait = [u \in Users |-> "no"] /\ failed = FALSE /\ alone \in BOOLEAN

MayCall(u) == wait[u] = "no" /\ (alone => \A w \in Users : wait[w] = "no")
Waits(u, what) == wait' = [wait EXCEPT ![u] = what]

-----------------------------------------------------------------------------
(* The access point.                                                       *)

(* The cleanup at the beginning of wlan_ap_start.                          *)
CleanedUp(a) == [a EXCEPT !.dhcps = FALSE, !.ip = FALSE, !.running = FALSE]

(* wlan_ap_start, up to wifi_start_ap.                                     *)
ApStart(u, a) == ap' = CleanedUp(a) /\ Waits(u, "wifi_start_ap") /\ UNCHANGED failed

(* active(True) and config() start it when they have what they need.       *)
ActiveStarts(a) == a.ssid

ConfigStarts(a) == a.wanted /\ a.ssid /\ ~a.running

StartIf(u, starts, a) ==
  \/ starts /\ ApStart(u, a)
  \/ ~starts /\ ap' = a /\ UNCHANGED <<wait, failed>>

ApActiveTrue(u) ==
  /\ MayCall(u)
  /\ LET a == [ap EXCEPT !.wanted = TRUE] IN StartIf(u, ActiveStarts(a), a)
  /\ UNCHANGED sta

ApActiveFalse(u) ==
  /\ MayCall(u) /\ ap' = [CleanedUp(ap) EXCEPT !.wanted = FALSE, !.ssid = FALSE]
  /\ failed' = FALSE /\ UNCHANGED <<sta, wait>>

(* config(): an SSID, perhaps an empty one, or other settings only.        *)
ApConfig(u) ==
  /\ MayCall(u)
  /\ \E s \in BOOLEAN : LET a == [ap EXCEPT !.ssid = s] IN StartIf(u, ConfigStarts(a), a)
  /\ UNCHANGED sta

(* config() raises at one of its arguments, with the SSID stored or not.   *)
ApConfigRaises(u) ==
  /\ MayCall(u) /\ \E s \in BOOLEAN : ap' = [ap EXCEPT !.ssid = s]
  /\ failed' = TRUE /\ UNCHANGED <<sta, wait>>

(* The rest of wlan_ap_start: the address and the DHCP server, or EIO.     *)
ApStarted(u) ==
  /\ wait[u] = "wifi_start_ap" /\ Waits(u, "no")
  /\ \/ ap' = [ap EXCEPT !.running = TRUE, !.ip = TRUE, !.dhcps = TRUE] /\ failed' = FALSE
     \/ failed' = TRUE /\ UNCHANGED ap
  /\ UNCHANGED sta

(* ifconfig() of the access point: the server is started anew, also when   *)
(* the access point does not run.                                          *)
ApIfconfig(u) ==
  /\ MayCall(u) /\ ap' = [ap EXCEPT !.ip = TRUE, !.dhcps = TRUE]
  /\ UNCHANGED <<sta, wait, failed>>

-----------------------------------------------------------------------------
(* The station.  active() only keeps a flag.                               *)

Connect(u) ==
  /\ MayCall(u) /\ Waits(u, "wifi_connect") /\ UNCHANGED <<ap, sta, failed>>

Joined(u) ==
  /\ wait[u] = "wifi_connect"
  /\ \/ sta' = [sta EXCEPT !.joined = TRUE] /\ Waits(u, "lwip_request_ip")
     \/ sta' = [sta EXCEPT !.joined = FALSE] /\ Waits(u, "no")
  /\ UNCHANGED <<ap, failed>>

(* Mutant: the station stays joined without an address.                    *)
NoLeaseNot(s) == [s EXCEPT !.ip = FALSE]

(* wifi_disconnect, lwip_clear_ip.                                         *)
NoLease(s) == [s EXCEPT !.joined = FALSE, !.ip = FALSE]

(* DHCP, or the static address; it fails if the station is not joined.     *)
Leased(u) ==
  /\ wait[u] = "lwip_request_ip" /\ Waits(u, "no")
  /\ \/ sta.joined /\ sta' = [sta EXCEPT !.ip = TRUE]
     \/ sta' = NoLease(sta)
  /\ UNCHANGED <<ap, failed>>

Disconnect(u) ==
  /\ MayCall(u) /\ sta' = [joined |-> FALSE, ip |-> FALSE, static |-> FALSE]
  /\ UNCHANGED <<ap, wait, failed>>

StaIfconfig(u) ==
  /\ MayCall(u) /\ sta' = [sta EXCEPT !.static = TRUE, !.ip = TRUE]
  /\ UNCHANGED <<ap, wait, failed>>

(* The network goes away.                                                  *)
LinkLost ==
  /\ sta.joined /\ sta' = [sta EXCEPT !.joined = FALSE] /\ UNCHANGED <<ap, wait, failed>>

WlanStep ==
  \/ \E u \in Users :
       \/ ApActiveTrue(u) \/ ApActiveFalse(u) \/ ApConfig(u) \/ ApConfigRaises(u)
       \/ ApStarted(u) \/ ApIfconfig(u)
       \/ Connect(u) \/ Joined(u) \/ Leased(u) \/ Disconnect(u) \/ StaIfconfig(u)
  \/ LinkLost

WlanNext == WlanStep /\ UNCHANGED alone

WlanSpec == WlanInit /\ [][WlanNext]_<<wlanVars, alone>>

-----------------------------------------------------------------------------
(* The state is well typed, and between two calls, whatever their order    *)
(* and their failures: an access point that is wanted and named runs,      *)
(* unless the call that had to start it raised (comment at                 *)
(* network_wlan.c:116-119); one that runs is wanted and has an address and *)
(* a DHCP server; and a station that is joined has an address.  Two        *)
(* threads on one interface can leave an access point that runs and is not *)
(* wanted (network_wlan.c:88).                                             *)
InterfacesServed ==
  /\ WlanTypeOK
  /\ alone /\ (\A u \in Users : wait[u] = "no") =>
       /\ ap.wanted /\ ap.ssid /\ ~failed => ap.running
       /\ ap.running => ap.wanted /\ ap.ip /\ ap.dhcps
       /\ sta.joined => sta.ip
=============================================================================
