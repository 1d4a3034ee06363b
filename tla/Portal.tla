------------------------------- MODULE Portal -------------------------------
(***************************************************************************)
(* The captive portal (traffy-web, user/views.py) and what it asks of      *)
(* traffy-server, on the network of module DhcpWatchdog.                   *)
(*                                                                         *)
(* A user sends a registration key, and accepts the conditions and the     *)
(* privacy policy: three requests, of which the first writes the key and   *)
(* the address into the session cookie and the last registers the address  *)
(* that the session names.  The handlers take any request with the right   *)
(* button, in any order and as often as it comes: nothing but the session  *)
(* connects them.  Every request asks the server first who is at the       *)
(* address it comes from, and what the key's state is.  Requests of        *)
(* different browsers are served by different workers, so that anything    *)
(* can happen between the questions of a request and the call that ends    *)
(* it.                                                                     *)
(*                                                                         *)
(* The steps of a registration inside the server are those of module       *)
(* Registry; here each is one step, and what matters is who is registered. *)
(***************************************************************************)
EXTENDS DhcpWatchdog

CONSTANTS Keys,        \* registration keys
          NoKey,
          MaxDevices   \* MAX_MAC_ADDRESSES_PER_REG_KEY

ASSUME PortalAssumption == NoKey \notin Keys /\ MaxDevices \in Nat \ {0}

VARIABLES
    keyState,   \* per key: "active", "inactive" or "deleted"
    pairs,      \* registered devices: hardware address, address, key
    browser,    \* per device: reg_key and ip_address of its browser's session,
                \* and the call that a request of it is about to make
    \* history
    late,       \* devices that sent their key before another registration
    overrun,    \* keys on which a late device was registered
    strayed,    \* devices that left since their session took their address
    closed      \* keys that became inactive when no registration was on its way

portalVars == <<keyState, pairs, browser, late, overrun, strayed, closed>>
vars == <<netVars, portalVars>>

Calls == {"none", "register", "deregister"}

Browser == [call : Calls, key : Keys \cup {NoKey}, ip : Ips \cup {NoIp}]

\* A browser without a session.
Blank == [call |-> "none", key |-> NoKey, ip |-> NoIp]

Pair == [mac : Devices, ip : Ips, key : Keys]

Devs(k) == {p \in pairs : p.key = k}

TypeOK ==
    /\ NetTypeOK
    /\ keyState \in [Keys -> {"active", "inactive", "deleted"}]
    /\ pairs \subseteq Pair
    /\ \A p, q \in pairs : p.mac = q.mac \/ p.ip = q.ip => p = q
    /\ \A p \in pairs : keyState[p.key] # "deleted"
    /\ browser \in [Devices -> Browser]
    /\ late \subseteq {d \in Devices : browser[d].key # NoKey}
    /\ strayed \subseteq {d \in Devices : browser[d].ip # NoIp}
    /\ overrun \cup closed \subseteq Keys

Init ==
    /\ NetInit
    /\ keyState \in [Keys -> {"active", "inactive", "deleted"}]
    /\ closed = {k \in Keys : keyState[k] = "inactive"}
    /\ pairs = {}
    /\ browser = [d \in Devices |-> Blank]
    /\ late = {} /\ overrun = {} /\ strayed = {}

-----------------------------------------------------------------------------
(* Questions to the server *)

\* access_check: the device is looked up in the lease file, by address.
AccessMode(i) ==
    LET mac   == lease[i]
        known == {p \in pairs : p.mac = mac}
    IN  CASE mac = NoDevice -> "no_lease"
          [] mac # NoDevice /\ known = {} -> "unregistered"
          [] \E p \in known : p.ip # i -> "different_port"
          [] \E p \in known : p.ip = i /\ keyState[p.key] = "inactive" ->
                "deactivated"
          [] OTHER -> "registered"

Idle(d) == at[d] # NoIp /\ browser[d].call = "none"

\* Bug: the server is not asked who is at the address.
AnyAccess(d, restricted) == Idle(d)

\* __route_manager lets a request through to a page for registered devices, or
\* to one for the others.
Admitted(d, restricted) ==
    /\ Idle(d)
    /\ AccessMode(at[d]) = IF restricted THEN "registered" ELSE "unregistered"

\* Bug: the deactivation is not asked for.
KeyThere(k) == k # NoKey /\ keyState[k] # "deleted"

\* __reg_key_check and is_reg_key_deactivated.
KeyAccepted(k) == k # NoKey /\ keyState[k] = "active"

\* Bug: one device too many.
AtLimit(k) == Cardinality(Devs(k)) <= MaxDevices

BelowLimit(k) == Cardinality(Devs(k)) < MaxDevices

-----------------------------------------------------------------------------
(* Requests of a browser *)

\* Bug: a session that has an address keeps it.
KeepAddress(d, k) ==
    [browser[d] EXCEPT !.key = k, !.ip = IF @ = NoIp THEN at[d] ELSE @]

\* __init_session_variables.
Session(d, k) == [browser[d] EXCEPT !.key = k, !.ip = at[d]]

\* /, /dashboard, or /register without a key.
Visit(d) ==
    /\ Idle(d)
    /\ browser' = [browser EXCEPT ![d] = Session(d, browser[d].key)]
    /\ strayed' = strayed \ {d}
    /\ UNCHANGED <<netVars, keyState, pairs, late, overrun, closed>>

\* /register with a key.
SendKey(d, k) ==
    /\ Admitted(d, FALSE)
    /\ KeyAccepted(k)
    /\ BelowLimit(k)
    /\ browser' = [browser EXCEPT ![d] = Session(d, k)]
    /\ late' = late \ {d}
    /\ strayed' = strayed \ {d}
    /\ UNCHANGED <<netVars, keyState, pairs, overrun, closed>>

\* /privacy-policy with the button, up to the call of register_device.
AcceptPolicy(d) ==
    /\ Admitted(d, FALSE)
    /\ KeyAccepted(browser[d].key)
    /\ browser' = [browser EXCEPT ![d].call = "register"]
    /\ UNCHANGED <<netVars, keyState, pairs, late, overrun, strayed, closed>>

\* /deregister with the button, up to the call of deregister_device.
AskDeregister(d) ==
    /\ Admitted(d, TRUE)
    /\ browser' = [browser EXCEPT ![d].call = "deregister"]
    /\ UNCHANGED <<netVars, keyState, pairs, late, overrun, strayed, closed>>

\* The browser is closed, and the session cookie with it.
Close(d) ==
    /\ browser[d].call = "none" /\ browser[d] # Blank
    /\ browser' = [browser EXCEPT ![d] = Blank]
    /\ late' = late \ {d}
    /\ strayed' = strayed \ {d}
    /\ UNCHANGED <<netVars, keyState, pairs, overrun, closed>>

-----------------------------------------------------------------------------
(* The calls of the server that change something *)

\* Bug: only the address is looked up among the registered ones.
AddressFree(k, i) ==
    /\ keyState[k] # "deleted"
    /\ lease[i] # NoDevice
    /\ \A p \in pairs : p.ip # i

\* register_device: an unknown key, an address or a hardware address that is
\* registered, or an address without a lease make it fail without a word.
Registrable(k, i) ==
    /\ keyState[k] # "deleted"
    /\ lease[i] # NoDevice
    /\ \A p \in pairs : p.ip # i /\ p.mac # lease[i]

Returns(d) == browser' = [browser EXCEPT ![d].call = "none"]

RegisterDevice(d) ==
    LET k == browser[d].key  i == browser[d].ip
    IN  /\ browser[d].call = "register"
        /\ Returns(d)
        /\ IF Registrable(k, i)
           THEN /\ pairs' = pairs \cup {[mac |-> lease[i], ip |-> i, key |-> k]}
                /\ overrun' = IF d \in late THEN overrun \cup {k} ELSE overrun
                /\ late' = late \cup {e \in Devices : browser[e].key = k}
           ELSE UNCHANGED <<pairs, overrun, late>>
        /\ UNCHANGED <<netVars, keyState, strayed, closed>>

\* deregister_device: whoever is registered at the session's address.
DeregisterDevice(d) ==
    /\ browser[d].call = "deregister"
    /\ Returns(d)
    /\ pairs' = {p \in pairs : p.ip # browser[d].ip}
    /\ UNCHANGED <<netVars, keyState, late, overrun, strayed, closed>>

\* Administrators.
Registering(k) ==
    \E d \in Devices : browser[d].call = "register" /\ browser[d].key = k

Deactivate(k) ==
    /\ keyState[k] = "active"
    /\ keyState' = [keyState EXCEPT ![k] = "inactive"]
    /\ closed' = IF Registering(k) THEN closed ELSE closed \cup {k}
    /\ UNCHANGED <<netVars, pairs, browser, late, overrun, strayed>>

Activate(k) ==
    /\ keyState[k] = "inactive"
    /\ keyState' = [keyState EXCEPT ![k] = "active"]
    /\ closed' = closed \ {k}
    /\ UNCHANGED <<netVars, pairs, browser, late, overrun, strayed>>

DeleteKey(k) ==
    /\ keyState[k] # "deleted"
    /\ keyState' = [keyState EXCEPT ![k] = "deleted"]
    /\ pairs' = pairs \ Devs(k)
    /\ overrun' = overrun \ {k}
    /\ closed' = closed \ {k}
    /\ UNCHANGED <<netVars, browser, late, strayed>>

\* deregister_device for an address that an administrator picks.
RemoveDevice(p) ==
    /\ p \in pairs
    /\ pairs' = pairs \ {p}
    /\ UNCHANGED <<netVars, keyState, browser, late, overrun, strayed, closed>>

\* The network.
Network ==
    /\ NetNext
    /\ strayed' = strayed \cup {d \in Devices :
                                  at'[d] # at[d] /\ browser[d].ip # NoIp}
    /\ UNCHANGED <<keyState, pairs, browser, late, overrun, closed>>

Next ==
    \/ Network
    \/ \E d \in Devices :
          \/ Visit(d)
          \/ \E k \in Keys : SendKey(d, k)
          \/ AcceptPolicy(d) \/ AskDeregister(d)
          \/ Close(d)
          \/ RegisterDevice(d) \/ DeregisterDevice(d)
    \/ \E k \in Keys : Deactivate(k) \/ Activate(k) \/ DeleteKey(k)
    \/ \E p \in pairs : RemoveDevice(p)

Spec == Init /\ [][Next]_vars

-----------------------------------------------------------------------------
(* Properties *)

\* The step is the end of such a call for d.
Returned(d, call) == browser[d].call = call /\ browser'[d].call = "none"

\* A key has more devices than the limit allows only if one of them was
\* registered on an answer of /register that another registration had made
\* old.  (The count is asked for in the first request, not in the last one.)
DeviceLimit ==
    \A k \in Keys \ overrun : Cardinality(Devs(k)) <= MaxDevices

\* A user registers the own device and no other, unless the device has left the
\* network since the session took its address.  (The address comes from the
\* session, the device from the lease file, and the watchdog may have released
\* the address in between.)
OwnDevice ==
    [][\A p \in pairs' \ pairs : \E d \in Devices :
          Returned(d, "register") /\ (p.mac = d \/ d \in strayed)]_vars

\* A key that was inactive before the request that registers began gets no
\* device.
ClosedKeyGetsNone ==
    [][\A p \in pairs' \ pairs : p.key \notin closed]_vars

\* A user who deregisters removes the own device and no other, unless the device
\* has left the network since the session took its address.  (The server is
\* asked about the address that the request comes from, and is told to remove
\* whoever is registered at the session's.)
OwnRemoval ==
    [][\A d \in Devices :
          Returned(d, "deregister") /\ d \notin strayed
          => \A p \in pairs \ pairs' : p.mac = d]_vars
=============================================================================
