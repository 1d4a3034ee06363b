--------------------------- MODULE DeviceRegistry ---------------------------
(***************************************************************************)
(* What the registry of traffy-server promises, whatever its threads do    *)
(* and wherever it stops: the devices a user or an administrator can see   *)
(* change one at a time, no two share an address, and each belongs to a    *)
(* key that is there, active or not, which goes only without devices and   *)
(* never comes back.                                                       *)
(***************************************************************************)
CONSTANTS Keys, Macs, Ips

VARIABLES keyState,   \* "none", "active", "inactive" or "deleted", per key
          devices     \* the registered devices, with their owner's key

vars == <<keyState, devices>>

Device == [key : Keys, mac : Macs, ip : Ips]

Init == keyState = [k \in Keys |-> "none"] /\ devices = {}

\* An inactive key can get a device too.
Register(d) ==
    /\ keyState[d.key] \in {"active", "inactive"}
    /\ \A e \in devices : e.mac # d.mac /\ e.ip # d.ip
    /\ devices' = devices \cup {d}
    /\ keyState' = keyState

Deregister(d) == devices' = devices \ {d} /\ keyState' = keyState

KeyStep(k, from, to) ==
    /\ keyState[k] \in from
    /\ keyState' = [keyState EXCEPT ![k] = to]
    /\ devices' = devices

Add(k)        == KeyStep(k, {"none"}, "active")
Activate(k)   == KeyStep(k, {"inactive"}, "active")
Deactivate(k) == KeyStep(k, {"active"}, "inactive")

\* Only a key without devices can go.
Delete(k) ==
    /\ \A d \in devices : d.key # k
    /\ KeyStep(k, {"active", "inactive"}, "deleted")

Next ==
    \/ \E d \in Device : Register(d)
    \/ \E d \in devices : Deregister(d)
    \/ \E k \in Keys : Add(k) \/ Activate(k) \/ Deactivate(k) \/ Delete(k)

Spec == Init /\ [][Next]_vars
=============================================================================
