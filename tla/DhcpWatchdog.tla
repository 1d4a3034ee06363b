---------------------------- MODULE DhcpWatchdog ----------------------------
(***************************************************************************)
(* Leases of dnsmasq, the devices that use them, and traffy-dhcp-watchdog, *)
(* which releases the leases of devices that are gone.  The watchdog runs  *)
(* in one of three modes:                                                  *)
(*   arp   read the leases, then probe each address in a thread of its own *)
(*   snmp  read the leases, then the state of every switch port, once      *)
(*   trap  wait for a switch to report that a port went down               *)
(* In each of them it learns at one time that nobody is at an address, or  *)
(* believes so, and releases whatever lease the address has later.         *)
(*                                                                         *)
(* dnsmasq and the devices are external: an address is offered to a device *)
(* when it is free (dnsmasq pings it first) or leased to that device.      *)
(***************************************************************************)
EXTENDS Integers, FiniteSets

CONSTANTS Devices,   \* devices, named by their hardware addresses
          Ips,       \* addresses of the network; in the modes that ask
                     \* switches, one per switch port
          Uplinks,   \* switch ports that have no line in the allocation file
          Found,     \* per port: the address of the first line that holds the
                     \* port's tag, which can be the beginning of a longer one
          Excluded,  \* EXCLUDED_IPS
          NoDevice, NoIp

\* A port that has a line is named by the address of that line.
Ports == Ips \cup Uplinks

ASSUME NetworkAssumption ==
    /\ NoDevice \notin Devices /\ NoIp \notin Ips \cup Uplinks
    /\ Uplinks \cap Ips = {}
    /\ Found \in [Ports -> Ips \cup {NoIp}]
    /\ \A i \in Ips : Found[i] # NoIp
    /\ Excluded \subseteq Ips

VARIABLES
    mode,    \* configuration of the watchdog
    at,      \* per device: the address it uses, NoIp if it is not plugged in
    lease,   \* per address: the device in the lease file
    probe,   \* per address, the watchdog: "none", "asked" (in the list of
             \* leases, not yet looked at), "silent" (to be released)
    raced,   \* history: silent addresses whose device came back since
    misled   \* history: silent addresses that were in use, but the device did
             \* not answer, or another port's state was taken for its own

netVars == <<mode, at, lease, probe, raced, misled>>

Modes == {"arp", "snmp", "trap"}

Present(i) == \E d \in Devices : at[d] = i

NetTypeOK ==
    /\ mode \in Modes
    /\ at \in [Devices -> Ips \cup {NoIp}]
    /\ lease \in [Ips -> Devices \cup {NoDevice}]
    /\ probe \in [Ips -> {"none", "asked", "silent"}]
    /\ raced \cup misled \subseteq {i \in Ips : probe[i] = "silent"}

NetInit ==
    /\ mode \in Modes
    /\ at = [d \in Devices |-> NoIp]
    /\ lease = [i \in Ips |-> NoDevice]
    /\ probe = [i \in Ips |-> "none"]
    /\ raced = {} /\ misled = {}

-----------------------------------------------------------------------------
(* dnsmasq and the devices *)

Race(i) == raced' = IF probe[i] = "silent" THEN raced \cup {i} ELSE raced

PlugIn(d, i) ==
    /\ at[d] = NoIp
    /\ ~Present(i)
    /\ lease[i] \in {d, NoDevice}
    /\ at' = [at EXCEPT ![d] = i]
    /\ lease' = [lease EXCEPT ![i] = d]
    /\ Race(i)
    /\ UNCHANGED <<mode, probe, misled>>

Renew(d) ==
    /\ at[d] # NoIp
    /\ lease[at[d]] = NoDevice
    /\ lease' = [lease EXCEPT ![at[d]] = d]
    /\ Race(at[d])
    /\ UNCHANGED <<mode, at, probe, misled>>

\* The switch reports that port p is down, now that the devices have moved as
\* they have: the search for its tag ends at the first line that contains it.
Report(p) ==
    LET i    == Found[p]
        used == \E d \in Devices : at'[d] = i
    IN
    /\ mode = "trap" /\ i # NoIp
    /\ probe' = [probe EXCEPT ![i] = "silent"]
    /\ raced' = raced \ {i}
    /\ misled' = IF p # i /\ used THEN misled \cup {i} ELSE misled \ {i}

\* The device leaves; the switch may report it, and the report may be lost.
Unplug(d) ==
    /\ at[d] # NoIp
    /\ at' = [at EXCEPT ![d] = NoIp]
    /\ UNCHANGED <<mode, lease>>
    /\ UNCHANGED <<probe, raced, misled>> \/ Report(at[d])

Expire(i) ==
    /\ lease[i] # NoDevice
    /\ at[lease[i]] # i
    /\ lease' = [lease EXCEPT ![i] = NoDevice]
    /\ UNCHANGED <<mode, at, probe, raced, misled>>

-----------------------------------------------------------------------------
(* The watchdog *)

UplinkDown(u) ==
    /\ UNCHANGED <<mode, at, lease>>
    /\ Report(u)

\* watchdog.py is started: the list of leases.
Scan ==
    /\ mode \in {"arp", "snmp"}
    /\ \A i \in Ips : probe[i] = "none"
    /\ probe' = [i \in Ips |-> IF lease[i] = NoDevice THEN "none" ELSE "asked"]
    /\ UNCHANGED <<mode, at, lease, raced, misled>>

\* Bug: the answer is not looked at.
Ignored(answered) == "silent"

\* response_check.
Verdict(answered) == IF answered THEN "none" ELSE "silent"

\* arping has ended in the thread of this lease.  A device can be silent for
\* all tries, and an arping that fails counts as an answer.
Arping(i) ==
    /\ mode = "arp"
    /\ probe[i] = "asked"
    /\ \E answered \in BOOLEAN :
          /\ probe' = [probe EXCEPT ![i] = Verdict(answered)]
          /\ misled' = IF ~answered /\ Present(i) THEN misled \cup {i} ELSE misled
    /\ UNCHANGED <<mode, at, lease, raced>>

\* The ports whose state is entered for address i; the last one of the walk
\* over the switches stays.
Entered(i) == {p \in Ports : Found[p] = i}

\* One answer of the switches for all ports.  An address without an entry
\* keeps its lease.
QueryStatus ==
    /\ mode = "snmp"
    /\ \E i \in Ips : probe[i] = "asked"
    /\ \E used \in SUBSET Uplinks, last \in [Ips -> Ports] :
          LET up == used \cup {i \in Ips : Present(i)}
              Answered(i) == Entered(i) # {} => last[i] \in up
          IN  /\ \A i \in Ips : Entered(i) # {} => last[i] \in Entered(i)
              /\ probe' = [i \in Ips |-> IF probe[i] = "asked"
                                          THEN Verdict(Answered(i)) ELSE probe[i]]
              /\ misled' = misled \cup
                    {i \in Ips : /\ probe[i] = "asked" /\ ~Answered(i)
                                 /\ last[i] # i /\ Present(i)}
    /\ UNCHANGED <<mode, at, lease, raced>>

\* DeleteDhcpLease of an address, whoever holds it now.
Release(i) ==
    /\ probe[i] = "silent"
    /\ lease' = [lease EXCEPT ![i] = IF i \in Excluded THEN @ ELSE NoDevice]
    /\ probe' = [probe EXCEPT ![i] = "none"]
    /\ raced' = raced \ {i} /\ misled' = misled \ {i}
    /\ UNCHANGED <<mode, at>>

NetNext ==
    \/ \E d \in Devices, i \in Ips : PlugIn(d, i)
    \/ \E d \in Devices : Renew(d) \/ Unplug(d)
    \/ \E i \in Ips : Expire(i) \/ Arping(i) \/ Release(i)
    \/ \E u \in Uplinks : UplinkDown(u)
    \/ Scan
    \/ QueryStatus

-----------------------------------------------------------------------------
(* Properties *)

\* The watchdog takes the lease of a device that is there only if the device
\* came back after the watchdog had found its address silent; if it did not
\* answer any of the pings; or if the state of another port was taken for its
\* own, because that port's tag is the beginning of its tag.  (watchdog.py acts
\* on an answer that is old by then, and arping knows no sleeping device;
\* trap_listener.py and util.py look ports up by a substring.)
LiveLeaseKept ==
    [][\A i \in Ips :
          /\ lease[i] # NoDevice /\ lease'[i] = NoDevice
          /\ at[lease[i]] = i
          => i \in raced \cup misled]_netVars
=============================================================================
