------------------------------ MODULE MCPortal ------------------------------
(* Module Portal for TLC. *)
EXTENDS Portal, TLC

CONSTANTS d1, d2, k1, k2, i1, i2, u1

\* The tag of port i1, and that of an uplink, is the beginning of port i2's,
\* whose line comes first.
MCFound == i1 :> i2 @@ i2 :> i2 @@ u1 :> i2

Perms == {f @@ g : f \in Permutations({d1, d2}), g \in Permutations({k1, k2})}

\* Each arrival of a device at the network is counted: three with one key and
\* probes of each address, else two.
VARIABLE arrivals

MCInit ==
    /\ Init
    /\ keyState[k1] = "active"
    /\ \/ keyState[k2] = "deleted" /\ arrivals = IF mode = "arp" THEN 3 ELSE 2
       \/ keyState[k2] = "active" /\ mode = "trap" /\ arrivals = 2

Arrives == \E d \in Devices : at[d] = NoIp /\ at'[d] # NoIp

MCNext ==
    /\ Next
    /\ arrivals' = IF Arrives THEN arrivals - 1 ELSE arrivals
    /\ arrivals' >= 0

MCSpec == MCInit /\ [][MCNext]_<<vars, arrivals>>
=============================================================================
