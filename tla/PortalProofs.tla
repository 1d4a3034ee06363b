---------------------------- MODULE PortalProofs ----------------------------
(***************************************************************************)
(* Proofs about Portal and DhcpWatchdog, for any number of devices,        *)
(* addresses, keys and switch ports: types, the limit of devices of a key, *)
(* whose device a session registers or removes, which keys get devices,    *)
(* and which leases the watchdog takes.                                    *)
(***************************************************************************)
EXTENDS Portal, FiniteSetTheorems, TLAPS

-----------------------------------------------------------------------------
(* The network: its invariant *)

\* Two devices never use one address.
Apart == \A d, e \in Devices : at[d] = at[e] /\ at[d] # NoIp => d = e

\* The lease of an address in use is its user's, or there is none.
OwnLease == \A d \in Devices : at[d] # NoIp => lease[at[d]] \in {d, NoDevice}

\* Nobody is at an address that is to be released, but for the races and the
\* wrong answers.
SilentGone ==
    \A i \in Ips : probe[i] = "silent" /\ i \notin raced \cup misled => ~Present(i)

NetInv == NetTypeOK /\ Apart /\ OwnLease /\ SilentGone

LEMMA NetInvInit == NetInit => NetInv
  BY NetworkAssumption
     DEF NetInit, NetInv, NetTypeOK, Apart, OwnLease, SilentGone

LEMMA NetTypeStep ==
    ASSUME NetTypeOK, NetNext
    PROVE  NetTypeOK'
  <1> USE NetworkAssumption DEF NetTypeOK
  <1>1. ASSUME NEW d \in Devices, NEW i \in Ips, PlugIn(d, i)
        PROVE  NetTypeOK'
    BY <1>1 DEF PlugIn, Race
  <1>2. ASSUME NEW d \in Devices, Renew(d)
        PROVE  NetTypeOK'
    BY <1>2 DEF Renew, Race
  <1>3. ASSUME NEW d \in Devices, Unplug(d)
        PROVE  NetTypeOK'
    <2>1. at[d] \in Ports
      BY <1>3 DEF Unplug, Ports
    <2>2. Found[at[d]] \in Ips \cup {NoIp}
      BY <2>1
    <2> QED  BY <1>3, <2>2 DEF Unplug, Report
  <1>4. ASSUME NEW i \in Ips, Expire(i)
        PROVE  NetTypeOK'
    BY <1>4 DEF Expire
  <1>5. ASSUME NEW i \in Ips, Arping(i)
        PROVE  NetTypeOK'
    BY <1>5 DEF Arping, Verdict
  <1>6. ASSUME NEW i \in Ips, Release(i)
        PROVE  NetTypeOK'
    BY <1>6 DEF Release
  <1>7. ASSUME NEW u \in Uplinks, UplinkDown(u)
        PROVE  NetTypeOK'
    <2>1. Found[u] \in Ips \cup {NoIp}
      BY DEF Ports
    <2> QED  BY <1>7, <2>1 DEF UplinkDown, Report
  <1>8. CASE Scan
    BY <1>8 DEF Scan
  <1>9. CASE QueryStatus
    BY <1>9 DEF QueryStatus, Verdict
  <1> QED  BY <1>1, <1>2, <1>3, <1>4, <1>5, <1>6, <1>7, <1>8, <1>9
           DEF NetNext

\* A report that a port is down leaves the address it is taken for silent.
LEMMA ReportedGone ==
    ASSUME NetInv, NEW p \in Ports, Report(p), \A e \in Devices : at'[e] # p,
           \A i \in Ips : ~Present(i) => ~Present(i)'
    PROVE  SilentGone'
  <1>1. Found[p] \in Ips
    BY NetworkAssumption DEF Report
  <1> DEFINE used == \E d \in Devices : at'[d] = Found[p]
  <1>2. /\ probe' = [probe EXCEPT ![Found[p]] = "silent"]
        /\ raced' = raced \ {Found[p]}
        /\ misled' = IF p # Found[p] /\ used THEN misled \cup {Found[p]}
                     ELSE misled \ {Found[p]}
    BY DEF Report
  <1>3. probe \in [Ips -> {"none", "asked", "silent"}]
    BY DEF NetInv, NetTypeOK
  <1>4. Found[p] \notin misled' => ~Present(Found[p])'
    <2>1. CASE p = Found[p]
      BY <2>1 DEF Present
    <2>2. CASE p # Found[p]
      BY <1>2, <2>2 DEF Present
    <2> QED  BY <2>1, <2>2
  <1> HIDE DEF used
  <1>5. ASSUME NEW i \in Ips, i # Found[p],
               probe'[i] = "silent", i \notin raced' \cup misled'
        PROVE  ~Present(i)'
    <2>1. probe[i] = "silent" /\ i \notin raced \cup misled
      BY <1>1, <1>2, <1>3, <1>5
    <2>2. ~Present(i)
      BY <2>1 DEF NetInv, SilentGone
    <2> QED  BY <2>2
  <1> QED  BY <1>4, <1>5 DEF SilentGone

LEMMA NetInvStep ==
    ASSUME NetInv, NetNext
    PROVE  NetInv'
  <1> USE NetworkAssumption DEF NetInv, Apart, OwnLease, SilentGone, Present
  <1>0. NetTypeOK'
    BY NetTypeStep
  <1>1. ASSUME NEW d \in Devices, NEW i \in Ips, PlugIn(d, i)
        PROVE  NetInv'
    <2>1. /\ at' = [at EXCEPT ![d] = i] /\ lease' = [lease EXCEPT ![i] = d]
          /\ \A e \in Devices : at[e] # i
          /\ probe' = probe
          /\ raced' = IF probe[i] = "silent" THEN raced \cup {i} ELSE raced
          /\ misled' = misled
      BY <1>1 DEF PlugIn, Race
    <2>2. Apart' /\ OwnLease'
      BY <2>1 DEF NetTypeOK
    <2>3. SilentGone'
      BY <2>1 DEF NetTypeOK
    <2> QED  BY <1>0, <2>2, <2>3
  <1>2. ASSUME NEW d \in Devices, Renew(d)
        PROVE  NetInv'
    BY <1>0, <1>2 DEF Renew, Race, NetTypeOK
  <1>3. ASSUME NEW d \in Devices, Unplug(d)
        PROVE  NetInv'
    <2>1. /\ at' = [at EXCEPT ![d] = NoIp] /\ lease' = lease
          /\ at[d] \in Ips
      BY <1>3 DEF Unplug, NetTypeOK
    <2>2. Apart' /\ OwnLease'
      BY <2>1 DEF NetTypeOK
    <2>3. \A i \in Ips : ~Present(i) => ~Present(i)'
      BY <2>1 DEF NetTypeOK
    <2>4. \A e \in Devices : at'[e] # at[d]
      BY <2>1 DEF NetTypeOK
    <2>5. CASE UNCHANGED <<probe, raced, misled>>
      BY <1>0, <2>2, <2>3, <2>5
    <2>6. CASE Report(at[d])
      BY <1>0, <2>1, <2>2, <2>3, <2>4, <2>6, ReportedGone DEF Ports
    <2> QED  BY <1>3, <2>5, <2>6 DEF Unplug
  <1>4. ASSUME NEW i \in Ips, Expire(i)
        PROVE  NetInv'
    BY <1>0, <1>4 DEF Expire, NetTypeOK
  <1>5. ASSUME NEW i \in Ips, Arping(i)
        PROVE  NetInv'
    BY <1>0, <1>5 DEF Arping, Verdict, NetTypeOK
  <1>6. ASSUME NEW i \in Ips, Release(i)
        PROVE  NetInv'
    <2>1. OwnLease'
      BY <1>6 DEF Release, NetTypeOK
    <2>2. SilentGone'
      BY <1>6 DEF Release, NetTypeOK
    <2>3. Apart'
      BY <1>6 DEF Release
    <2> QED  BY <1>0, <2>1, <2>2, <2>3
  <1>7. ASSUME NEW u \in Uplinks, UplinkDown(u)
        PROVE  NetInv'
    <2>1. Apart' /\ OwnLease' /\ (\A i \in Ips : ~Present(i) => ~Present(i)')
      BY <1>7 DEF UplinkDown
    <2>2. Report(u) /\ u \in Ports /\ \A e \in Devices : at'[e] # u
      BY <1>7 DEF UplinkDown, Ports, NetTypeOK
    <2> QED  BY <1>0, <2>1, <2>2, ReportedGone
  <1>8. CASE Scan
    BY <1>0, <1>8 DEF Scan
  <1>9. CASE QueryStatus
    <2>1. UNCHANGED <<mode, at, lease, raced>>
      BY <1>9 DEF QueryStatus
    <2>2. PICK used \in SUBSET Uplinks, last \in [Ips -> Ports] :
             LET up == used \cup {i \in Ips : Present(i)}
                 Answered(i) == Entered(i) # {} => last[i] \in up
             IN  /\ \A i \in Ips : Entered(i) # {} => last[i] \in Entered(i)
                 /\ probe' = [i \in Ips |-> IF probe[i] = "asked"
                                             THEN Verdict(Answered(i)) ELSE probe[i]]
                 /\ misled' = misled \cup
                       {i \in Ips : /\ probe[i] = "asked" /\ ~Answered(i)
                                    /\ last[i] # i /\ Present(i)}
      BY <1>9 DEF QueryStatus
    <2>3. ASSUME NEW i \in Ips, probe'[i] = "silent", Present(i), probe[i] # "silent"
          PROVE  i \in misled'
      <3>1. probe[i] = "asked" /\ Entered(i) # {} /\ last[i] \notin used
            /\ ~(last[i] \in Ips /\ Present(last[i]))
        BY <2>2, <2>3 DEF Verdict
      <3>2. last[i] # i
        BY <2>3, <3>1
      <3> QED  BY <2>2, <2>3, <3>1, <3>2
    <2>4. ASSUME NEW i \in Ips, probe'[i] = "silent", probe[i] = "silent", i \in misled
          PROVE  i \in misled'
      BY <2>2, <2>4
    <2>5. SilentGone'
      BY <2>1, <2>3, <2>4
    <2> QED  BY <1>0, <2>1, <2>5
  <1> QED  BY <1>1, <1>2, <1>3, <1>4, <1>5, <1>6, <1>7, <1>8, <1>9
           DEF NetNext

\* The lease of a device that is there is taken only in a race, or on a wrong
\* answer.
LEMMA LeaseStep ==
    ASSUME NetInv, NetNext, NEW i \in Ips,
           lease[i] # NoDevice, lease'[i] = NoDevice, at[lease[i]] = i
    PROVE  i \in raced \cup misled
  <1> USE NetworkAssumption DEF NetInv, NetTypeOK
  <1>1. lease[i] \in Devices /\ lease' # lease
    OBVIOUS
  <1>2. \A j \in Ips : Expire(j) => j # i
    BY DEF Expire
  <1>3. PICK j \in Ips : Expire(j) \/ Release(j)
    BY <1>1 DEF NetNext, PlugIn, Renew, Unplug, UplinkDown, Scan, Arping,
       QueryStatus
  <1>4. CASE Expire(j)
    BY <1>2, <1>4 DEF Expire
  <1>5. CASE Release(j)
    <2>1. j = i /\ probe[i] = "silent"
      BY <1>5 DEF Release
    <2> QED  BY <1>1, <2>1 DEF SilentGone, Present
  <1> QED  BY <1>3, <1>4, <1>5

-----------------------------------------------------------------------------
(* What the portal's sessions hold *)

\* A session with a key has an address; the address is the device's own unless
\* the device has left since; and only a session with a key registers.
SessionInv ==
    \A d \in Devices :
       /\ browser[d].key # NoKey => browser[d].ip # NoIp
       /\ browser[d].ip # NoIp /\ d \notin strayed => browser[d].ip = at[d]
       /\ browser[d].call = "register" => browser[d].key # NoKey

\* Whoever has sent a key, and is not late, can still be counted in.
LimitInv ==
    /\ IsFiniteSet(pairs)
    /\ \A k \in Keys \ overrun : Cardinality(Devs(k)) <= MaxDevices
    /\ \A d \in Devices \ late :
          browser[d].key \in Keys \ overrun =>
             Cardinality(Devs(browser[d].key)) < MaxDevices

\* No registration on a closed key is on its way.
ClosedInv == \A k \in closed : keyState[k] # "active" /\ ~Registering(k)

\* The device that is registered where a removal is about to happen is the
\* session's own.
TargetInv ==
    \A d \in Devices \ strayed : browser[d].call = "deregister" =>
       \A p \in pairs : p.ip = browser[d].ip => p.mac = d

PortalInv == SessionInv /\ LimitInv /\ ClosedInv /\ TargetInv

LEMMA DevsFinite ==
    ASSUME IsFiniteSet(pairs), NEW k
    PROVE  IsFiniteSet(Devs(k)) /\ Cardinality(Devs(k)) \in Nat
  <1>1. Devs(k) \subseteq pairs
    BY DEF Devs
  <1> QED  BY <1>1, FS_Subset, FS_CardinalityType

\* A key that loses devices stays below a limit it kept.
LEMMA FewerDevices ==
    ASSUME IsFiniteSet(pairs), pairs' \subseteq pairs, NEW k
    PROVE  /\ IsFiniteSet(pairs') /\ Cardinality(Devs(k)') \in Nat
           /\ Cardinality(Devs(k)') <= Cardinality(Devs(k))
  <1>1. Devs(k)' \subseteq Devs(k) /\ Devs(k) \subseteq pairs
    BY DEF Devs
  <1>2. IsFiniteSet(Devs(k)) /\ IsFiniteSet(pairs')
    BY <1>1, FS_Subset
  <1> QED  BY <1>1, <1>2, FS_Subset, FS_CardinalityType

LEMMA LimitStep ==
    ASSUME LimitInv, pairs' \subseteq pairs, overrun' = overrun,
           \A d \in Devices : d \notin late' /\ browser'[d].key \in Keys \ overrun =>
              \/ d \notin late /\ browser'[d].key = browser[d].key
              \/ Cardinality(Devs(browser'[d].key)) < MaxDevices
    PROVE  LimitInv'
  <1> USE PortalAssumption DEF LimitInv
  <1>1. /\ IsFiniteSet(pairs')
        /\ \A k : /\ Cardinality(Devs(k)') \in Nat /\ Cardinality(Devs(k)) \in Nat
                  /\ Cardinality(Devs(k)') <= Cardinality(Devs(k))
    BY FewerDevices, DevsFinite
  <1>2. ASSUME NEW k \in Keys \ overrun'
        PROVE  Cardinality(Devs(k)') <= MaxDevices
    <2>1. Cardinality(Devs(k)) <= MaxDevices
      BY <1>2
    <2> QED  BY <1>1, <2>1
  <1>3. ASSUME NEW d \in Devices \ late', NEW k \in Keys \ overrun',
               browser'[d].key = k
        PROVE  Cardinality(Devs(k)') < MaxDevices
    <2>1. Cardinality(Devs(k)) < MaxDevices
      BY <1>3
    <2> QED  BY <1>1, <2>1
  <1> QED  BY <1>1, <1>2, <1>3 DEF Devs

\* A registration on a key that the browser was not late for stays in the limit.
LEMMA LimitAdd ==
    ASSUME LimitInv, NEW d \in Devices, NEW k \in Keys, NEW new,
           browser[d].key = k,
           \A e \in Devices : browser'[e].key = browser[e].key,
           new.key = k, pairs' = pairs \cup {new},
           overrun' = IF d \in late THEN overrun \cup {k} ELSE overrun,
           late' = late \cup {e \in Devices : browser[e].key = k}
    PROVE  LimitInv'
  <1> USE PortalAssumption
  <1>1. IsFiniteSet(pairs) /\ IsFiniteSet(pairs')
    BY FS_AddElement DEF LimitInv
  <1>2. \A h \in Keys \ {k} : Devs(h)' = Devs(h)
    BY DEF Devs
  <1>3. Devs(k)' \subseteq Devs(k) \cup {new}
    BY DEF Devs
  <1>4. /\ Cardinality(Devs(k)') \in Nat /\ Cardinality(Devs(k)) \in Nat
        /\ Cardinality(Devs(k)') <= Cardinality(Devs(k)) + 1
    <2>1. IsFiniteSet(Devs(k)) /\ Cardinality(Devs(k)) \in Nat
      BY <1>1, DevsFinite
    <2>2. /\ IsFiniteSet(Devs(k) \cup {new})
          /\ Cardinality(Devs(k) \cup {new}) \in Nat
          /\ Cardinality(Devs(k) \cup {new}) <= Cardinality(Devs(k)) + 1
      <3>1. /\ IsFiniteSet(Devs(k) \cup {new})
            /\ \/ Cardinality(Devs(k) \cup {new}) = Cardinality(Devs(k))
               \/ Cardinality(Devs(k) \cup {new}) = Cardinality(Devs(k)) + 1
        BY <2>1, FS_AddElement
      <3> QED  BY <2>1, <3>1
    <2>3. /\ IsFiniteSet(Devs(k)')
          /\ Cardinality(Devs(k)') <= Cardinality(Devs(k) \cup {new})
      BY <1>3, <2>2, FS_Subset
    <2>4. Cardinality(Devs(k)') \in Nat
      BY <2>3, FS_CardinalityType
    <2> QED  BY <2>1, <2>2, <2>3, <2>4
  <1>5. k \notin overrun' => Cardinality(Devs(k)') <= MaxDevices
    <2>1. SUFFICES ASSUME k \notin overrun'
                   PROVE  Cardinality(Devs(k)') <= MaxDevices
      OBVIOUS
    <2>2. d \notin late /\ k \notin overrun
      BY <2>1
    <2>3. Cardinality(Devs(k)) < MaxDevices
      BY <2>2 DEF LimitInv
    <2> QED  BY <1>4, <2>3
  <1>6. \A h \in Keys \ overrun' : Cardinality(Devs(h)') <= MaxDevices
    BY <1>2, <1>5 DEF LimitInv
  <1>7. ASSUME NEW e \in Devices \ late', NEW h \in Keys \ overrun',
               browser'[e].key = h
        PROVE  Cardinality(Devs(h)') < MaxDevices
    <2>1. e \notin late /\ browser[e].key = h /\ h # k
      BY <1>7
    <2>2. Cardinality(Devs(h)) < MaxDevices
      BY <1>7, <2>1 DEF LimitInv
    <2> QED  BY <1>2, <2>1, <2>2
  <1> QED  BY <1>1, <1>6, <1>7 DEF LimitInv, Devs

-----------------------------------------------------------------------------
(* The steps of a browser *)

Inv == NetInv /\ TypeOK /\ PortalInv

\* A step of the browser of d, which leaves the server's data alone.
Browses(d) ==
    /\ UNCHANGED <<netVars, keyState, pairs, overrun, closed>>
    /\ browser' = [browser EXCEPT ![d] = browser'[d]]
    /\ browser'[d] \in Browser
    /\ \A e \in Devices \ {d} : /\ e \in late' <=> e \in late
                                /\ e \in strayed' <=> e \in strayed
    /\ late' \cup strayed' \subseteq Devices
    /\ d \in late' => browser'[d].key # NoKey
    /\ d \in strayed' => browser'[d].ip # NoIp

LEMMA BrowsesType ==
    ASSUME Inv, NEW d \in Devices, Browses(d)
    PROVE  TypeOK'
  <1>1. /\ browser' \in [Devices -> Browser]
        /\ \A e \in Devices \ {d} : browser'[e] = browser[e]
    BY DEF Inv, TypeOK, Browses
  <1>2. /\ late' \subseteq {e \in Devices : browser'[e].key # NoKey}
        /\ strayed' \subseteq {e \in Devices : browser'[e].ip # NoIp}
    BY <1>1 DEF Inv, TypeOK, Browses
  <1>3. UNCHANGED <<mode, at, lease, probe, raced, misled>>
    BY DEF Browses, netVars
  <1> QED  BY <1>1, <1>2, <1>3 DEF Inv, TypeOK, Browses, NetTypeOK

\* What such a step has to show about the browser of d.
SessionKept(d) ==
    /\ browser'[d].key # NoKey => browser'[d].ip # NoIp
    /\ browser'[d].ip # NoIp /\ d \notin strayed' => browser'[d].ip = at[d]
    /\ browser'[d].call = "register" => browser'[d].key # NoKey

CountKept(d) ==
    d \notin late' /\ browser'[d].key \in Keys \ overrun =>
       \/ d \notin late /\ browser'[d].key = browser[d].key
       \/ Cardinality(Devs(browser'[d].key)) < MaxDevices

OpenKept(d) ==
    browser'[d].call = "register" => keyState[browser'[d].key] = "active"

TargetKept(d) ==
    browser'[d].call = "deregister" /\ d \notin strayed' =>
       \A p \in pairs : p.ip = browser'[d].ip => p.mac = d

LEMMA BrowsesInv ==
    ASSUME Inv, NEW d \in Devices, Browses(d),
           SessionKept(d), CountKept(d), OpenKept(d), TargetKept(d)
    PROVE  Inv'
  <1>1. /\ UNCHANGED <<mode, at, lease, probe, raced, misled, keyState, pairs, overrun,
                       closed>>
        /\ \A e \in Devices \ {d} : /\ browser'[e] = browser[e]
                                    /\ e \in late' <=> e \in late
                                    /\ e \in strayed' <=> e \in strayed
    BY DEF Browses, netVars, Inv, TypeOK
  <1>2. NetInv'
    BY <1>1 DEF Inv, NetInv, NetTypeOK, Apart, OwnLease, SilentGone, Present
  <1>3. TypeOK'
    BY BrowsesType
  <1>4. SessionInv'
    BY <1>1 DEF Inv, PortalInv, SessionInv, SessionKept
  <1>5. LimitInv'
    <2>1. \A e \in Devices : e \notin late' /\ browser'[e].key \in Keys \ overrun =>
             \/ e \notin late /\ browser'[e].key = browser[e].key
             \/ Cardinality(Devs(browser'[e].key)) < MaxDevices
      BY <1>1 DEF CountKept
    <2>2. LimitInv /\ pairs' \subseteq pairs /\ overrun' = overrun
      BY <1>1 DEF Inv, PortalInv
    <2> QED  BY <2>1, <2>2, LimitStep
  <1>6. ClosedInv'
    BY <1>1 DEF Inv, PortalInv, ClosedInv, Registering, OpenKept
  <1>7. TargetInv'
    BY <1>1 DEF Inv, PortalInv, TargetInv, TargetKept
  <1> QED  BY <1>2, <1>3, <1>4, <1>5, <1>6, <1>7 DEF Inv, PortalInv

\* /deregister is let through only where the device itself is registered.
LEMMA RegisteredHere ==
    ASSUME Inv, NEW d \in Devices, Admitted(d, TRUE),
           NEW p \in pairs, p.ip = at[d]
    PROVE  p.mac = d
  <1> USE NetworkAssumption
  <1> DEFINE known == {q \in pairs : q.mac = lease[at[d]]}
  <1>1. at[d] # NoIp /\ AccessMode(at[d]) = "registered"
    BY DEF Admitted, Idle
  <1>2. /\ lease[at[d]] # NoDevice
        /\ known # {} /\ \A q \in known : q.ip = at[d]
    BY <1>1 DEF AccessMode
  <1>3. lease[at[d]] = d
    BY <1>1, <1>2 DEF Inv, NetInv, OwnLease
  <1>4. PICK q \in pairs : q.mac = lease[at[d]] /\ q.ip = at[d]
    BY <1>2
  <1>5. q = p
    BY <1>4 DEF Inv, TypeOK
  <1> QED  BY <1>3, <1>4, <1>5

LEMMA BrowserSteps ==
    ASSUME Inv, NEW d \in Devices,
           \/ Visit(d) \/ \E k \in Keys : SendKey(d, k)
           \/ AcceptPolicy(d) \/ AskDeregister(d)
           \/ Close(d)
    PROVE  Inv'
  <1> USE NetworkAssumption, PortalAssumption
  <1> USE DEF SessionKept, CountKept, OpenKept, TargetKept
  <1>0. /\ at[d] \in Ips \cup {NoIp} /\ browser[d] \in Browser
        /\ browser \in [Devices -> Browser]
        /\ late \subseteq Devices /\ strayed \subseteq Devices
        /\ d \in late => browser[d].key # NoKey
        /\ d \in strayed => browser[d].ip # NoIp
        /\ browser[d].key # NoKey => browser[d].ip # NoIp
        /\ browser[d].ip # NoIp /\ d \notin strayed => browser[d].ip = at[d]
    BY DEF Inv, NetInv, NetTypeOK, TypeOK, PortalInv, SessionInv
  <1>1. CASE Visit(d)
    <2>1. /\ browser'[d] = [browser[d] EXCEPT !.ip = at[d]]
          /\ browser' = [browser EXCEPT ![d] = browser'[d]]
          /\ browser[d].call = "none" /\ at[d] # NoIp
      BY <1>0, <1>1 DEF Visit, Session, Browser, Idle
    <2>2. /\ browser'[d] \in Browser /\ browser'[d].call = "none"
          /\ browser'[d].key = browser[d].key /\ browser'[d].ip = at[d]
      BY <1>0, <2>1 DEF Browser
    <2>3. Browses(d)
      BY <1>0, <1>1, <2>1, <2>2 DEF Browses, Visit
    <2>4. SessionKept(d) /\ CountKept(d) /\ OpenKept(d) /\ TargetKept(d)
      BY <1>0, <1>1, <2>1, <2>2 DEF Visit
    <2> QED  BY <2>3, <2>4, BrowsesInv
  <1>2. ASSUME NEW k \in Keys, SendKey(d, k)
        PROVE  Inv'
    <2>1. /\ browser'[d] = [browser[d] EXCEPT !.key = k, !.ip = at[d]]
          /\ browser' = [browser EXCEPT ![d] = browser'[d]]
          /\ browser[d].call = "none" /\ at[d] # NoIp
      BY <1>0, <1>2 DEF SendKey, Admitted, Idle, Session
    <2>2. /\ browser'[d] \in Browser /\ browser'[d].call = "none"
          /\ browser'[d].key = k /\ browser'[d].ip = at[d]
      BY <1>0, <2>1 DEF Browser
    <2>3. Browses(d)
      BY <1>0, <1>2, <2>1, <2>2 DEF Browses, SendKey
    <2>4. CountKept(d)
      BY <1>2, <2>2 DEF SendKey, BelowLimit
    <2>5. SessionKept(d) /\ OpenKept(d) /\ TargetKept(d)
      BY <1>0, <2>1, <2>2
    <2> QED  BY <2>3, <2>4, <2>5, BrowsesInv
  <1>3. CASE AcceptPolicy(d)
    <2>1. /\ browser'[d] = [browser[d] EXCEPT !.call = "register"]
          /\ browser' = [browser EXCEPT ![d] = browser'[d]]
      BY <1>0, <1>3 DEF AcceptPolicy, Browser
    <2>2. /\ browser'[d] \in Browser /\ browser'[d].call = "register"
          /\ browser'[d].key = browser[d].key /\ browser'[d].ip = browser[d].ip
      BY <1>0, <2>1 DEF Browser, Calls
    <2>3. Browses(d)
      BY <1>0, <1>3, <2>1, <2>2 DEF Browses, AcceptPolicy
    <2>4. SessionKept(d) /\ CountKept(d) /\ OpenKept(d) /\ TargetKept(d)
      BY <1>0, <1>3, <2>2 DEF AcceptPolicy, KeyAccepted
    <2> QED  BY <2>3, <2>4, BrowsesInv
  <1>4. CASE AskDeregister(d)
    <2>1. /\ browser'[d] = [browser[d] EXCEPT !.call = "deregister"]
          /\ browser' = [browser EXCEPT ![d] = browser'[d]]
      BY <1>0, <1>4 DEF AskDeregister, Browser
    <2>2. /\ browser'[d] \in Browser /\ browser'[d].call = "deregister"
          /\ browser'[d].key = browser[d].key /\ browser'[d].ip = browser[d].ip
      BY <1>0, <2>1 DEF Browser, Calls
    <2>3. Browses(d)
      BY <1>0, <1>4, <2>1, <2>2 DEF Browses, AskDeregister
    <2>4. TargetKept(d)
      <3>1. strayed' = strayed /\ Admitted(d, TRUE)
        BY <1>4 DEF AskDeregister
      <3>2. \A p \in pairs : p.ip # NoIp
        BY DEF Inv, TypeOK, Pair
      <3> QED  BY <1>0, <2>2, <3>1, <3>2, RegisteredHere
    <2>5. SessionKept(d) /\ CountKept(d) /\ OpenKept(d)
      BY <1>0, <1>4, <2>2 DEF AskDeregister
    <2> QED  BY <2>3, <2>4, <2>5, BrowsesInv
  <1>5. CASE Close(d)
    <2>1. /\ browser'[d] = Blank
          /\ browser' = [browser EXCEPT ![d] = browser'[d]]
      BY <1>0, <1>5 DEF Close
    <2>2. Blank \in Browser
      BY DEF Blank, Browser, Calls
    <2>3. Browses(d)
      BY <1>0, <1>5, <2>1, <2>2 DEF Browses, Close
    <2>4. SessionKept(d) /\ CountKept(d) /\ OpenKept(d) /\ TargetKept(d)
      BY <2>1 DEF Blank
    <2> QED  BY <2>3, <2>4, BrowsesInv
  <1> QED  BY <1>1, <1>2, <1>3, <1>4, <1>5

-----------------------------------------------------------------------------
(* The server's steps *)

\* A call has returned to the browser of d.
LEMMA ReturnsKept ==
    ASSUME Inv, NEW d \in Devices, Returns(d)
    PROVE  /\ browser' \in [Devices -> Browser]
           /\ \A e \in Devices :
                 /\ browser'[e].key = browser[e].key /\ browser'[e].ip = browser[e].ip
                 /\ browser'[e].call = IF e = d THEN "none" ELSE browser[e].call
  <1>1. browser \in [Devices -> Browser]
    BY DEF Inv, TypeOK
  <1> QED  BY <1>1 DEF Returns, Browser, Calls

\* A call that ends registers at most one device: the one that holds the lease
\* of the session's address.
LEMMA RegisterInv ==
    ASSUME Inv, NEW d \in Devices, RegisterDevice(d)
    PROVE  Inv'
  <1> USE NetworkAssumption, PortalAssumption
  <1> DEFINE k == browser[d].key
             i == browser[d].ip
             new == [mac |-> lease[i], ip |-> i, key |-> k]
  <1>0. /\ k \in Keys /\ i \in Ips /\ lease[i] \in Devices \cup {NoDevice}
        /\ UNCHANGED <<mode, at, lease, probe, raced, misled, keyState, strayed, closed>>
        /\ late \subseteq Devices
    BY DEF Inv, PortalInv, SessionInv, RegisterDevice, NetInv, NetTypeOK, TypeOK,
           Browser, netVars
  <1>1. \/ /\ Registrable(k, i) /\ pairs' = pairs \cup {new}
           /\ overrun' = IF d \in late THEN overrun \cup {k} ELSE overrun
           /\ late' = late \cup {e \in Devices : browser[e].key = k}
        \/ pairs' = pairs /\ overrun' = overrun /\ late' = late
    BY DEF RegisterDevice
  <1>2. /\ browser' \in [Devices -> Browser]
        /\ \A e \in Devices :
              /\ browser'[e].key = browser[e].key /\ browser'[e].ip = browser[e].ip
              /\ browser'[e].call = IF e = d THEN "none" ELSE browser[e].call
    BY ReturnsKept DEF RegisterDevice
  <1>3. Registrable(k, i)
        => /\ new \in Pair /\ new.mac = lease[i] /\ new.ip = i /\ new.key = k
           /\ lease[i] # NoDevice
    <2>1. SUFFICES ASSUME Registrable(k, i)
                   PROVE  /\ new \in Pair /\ new.mac = lease[i]
                          /\ new.ip = i /\ new.key = k /\ lease[i] # NoDevice
      OBVIOUS
    <2>2. lease[i] \in Devices /\ lease[i] # NoDevice
      BY <1>0, <2>1 DEF Registrable
    <2> HIDE DEF k, i
    <2> QED  BY <1>0, <2>2 DEF Pair
  <1>4. NetInv'
    BY <1>0 DEF Inv, NetInv, NetTypeOK, Apart, OwnLease, SilentGone, Present
  <1>5. TypeOK'
    <2>1. /\ late' \subseteq {e \in Devices : browser'[e].key # NoKey}
          /\ strayed' \subseteq {e \in Devices : browser'[e].ip # NoIp}
      BY <1>0, <1>1, <1>2 DEF Inv, TypeOK
    <2>2. /\ pairs' \subseteq Pair
          /\ \A p, q \in pairs' : p.mac = q.mac \/ p.ip = q.ip => p = q
          /\ \A p \in pairs' : keyState[p.key] # "deleted"
          /\ overrun' \subseteq Keys
      <3>1. CASE pairs' = pairs /\ overrun' = overrun
        BY <3>1 DEF Inv, TypeOK
      <3>2. CASE /\ Registrable(k, i) /\ pairs' = pairs \cup {new}
                 /\ overrun' = IF d \in late THEN overrun \cup {k} ELSE overrun
        <4>1. /\ \A p \in pairs : p.ip # new.ip /\ p.mac # new.mac
              /\ keyState[new.key] # "deleted"
          BY <1>3, <3>2 DEF Registrable
        <4>2. new \in Pair /\ pairs \subseteq Pair /\ overrun' \subseteq Keys
          BY <1>0, <1>3, <3>2 DEF Inv, TypeOK
        <4> HIDE DEF new
        <4> QED  BY <3>2, <4>1, <4>2 DEF Inv, TypeOK
      <3> QED  BY <1>1, <3>1, <3>2
    <2> QED  BY <1>0, <1>2, <1>4, <2>1, <2>2 DEF Inv, TypeOK, NetInv
  <1>6. SessionInv'
    BY <1>0, <1>2 DEF Inv, PortalInv, SessionInv
  <1>7. LimitInv'
    <2>1. CASE pairs' = pairs /\ overrun' = overrun /\ late' = late
      <3>1. \A e \in Devices : e \notin late' /\ browser'[e].key \in Keys \ overrun =>
               e \notin late /\ browser'[e].key = browser[e].key
        BY <1>2, <2>1
      <3>2. LimitInv /\ pairs' \subseteq pairs /\ overrun' = overrun
        BY <2>1 DEF Inv, PortalInv
      <3> QED  BY <3>1, <3>2, LimitStep
    <2>2. CASE /\ Registrable(k, i) /\ pairs' = pairs \cup {new}
               /\ overrun' = IF d \in late THEN overrun \cup {k} ELSE overrun
               /\ late' = late \cup {e \in Devices : browser[e].key = k}
      <3>1. LimitInv /\ new.key = k
        BY <1>3, <2>2 DEF Inv, PortalInv
      <3>2. k \in Keys /\ browser[d].key = k
            /\ \A e \in Devices : browser'[e].key = browser[e].key
        BY <1>0, <1>2
      <3> HIDE DEF new, k
      <3> QED  BY <2>2, <3>1, <3>2, LimitAdd
    <2> QED  BY <1>1, <2>1, <2>2
  <1>8. ClosedInv'
    BY <1>0, <1>2 DEF Inv, PortalInv, ClosedInv, Registering
  <1>9. TargetInv'
    <2> SUFFICES ASSUME NEW e \in Devices \ strayed, browser[e].call = "deregister",
                        NEW p \in pairs', p.ip = browser[e].ip
                 PROVE  p.mac = e
      BY <1>0, <1>2 DEF TargetInv
    <2>1. CASE p \in pairs
      BY <2>1 DEF Inv, PortalInv, TargetInv
    <2>2. CASE p \notin pairs
      <3>1. p = new /\ Registrable(k, i)
        BY <1>1, <2>2
      <3>2. p.ip = i /\ p.mac = lease[i] /\ lease[i] # NoDevice
        BY <1>3, <3>1
      <3>3. at[e] = i
        BY <1>0, <3>2 DEF Inv, PortalInv, SessionInv
      <3> HIDE DEF i, new
      <3> QED  BY <1>0, <3>2, <3>3 DEF Inv, NetInv, OwnLease
    <2> QED  BY <2>1, <2>2
  <1> QED  BY <1>4, <1>5, <1>6, <1>7, <1>8, <1>9 DEF Inv, PortalInv

\* A step that can only take devices away, and touches no browser but that of
\* a call it ends.
LEMMA RemovalInv ==
    ASSUME Inv,
           \/ \E d \in Devices : DeregisterDevice(d)
           \/ \E p \in pairs : RemoveDevice(p)
    PROVE  Inv'
  <1> USE NetworkAssumption, PortalAssumption
  <1>1. /\ UNCHANGED <<mode, at, lease, probe, raced, misled, keyState, closed, late,
                       overrun, strayed>>
        /\ pairs' \subseteq pairs
    BY DEF DeregisterDevice, RemoveDevice, netVars
  <1>2. /\ browser' \in [Devices -> Browser]
        /\ \A e \in Devices :
              /\ browser'[e].key = browser[e].key /\ browser'[e].ip = browser[e].ip
              /\ browser'[e].call \in {"none", browser[e].call}
    <2>1. CASE \E d \in Devices : DeregisterDevice(d)
      BY <2>1, ReturnsKept DEF DeregisterDevice
    <2>2. CASE browser' = browser
      BY <2>2 DEF Inv, TypeOK
    <2> QED  BY <2>1, <2>2 DEF RemoveDevice
  <1>3. NetInv'
    BY <1>1 DEF Inv, NetInv, NetTypeOK, Apart, OwnLease, SilentGone, Present
  <1>4. TypeOK'
    BY <1>1, <1>2, <1>3 DEF Inv, TypeOK, NetInv
  <1>5. SessionInv'
    BY <1>1, <1>2 DEF Inv, PortalInv, SessionInv
  <1>6. LimitInv'
    <2>1. \A e \in Devices : e \notin late' /\ browser'[e].key \in Keys \ overrun =>
             e \notin late /\ browser'[e].key = browser[e].key
      BY <1>1, <1>2
    <2>2. LimitInv
      BY DEF Inv, PortalInv
    <2> QED  BY <1>1, <2>1, <2>2, LimitStep
  <1>7. ClosedInv'
    BY <1>1, <1>2 DEF Inv, PortalInv, ClosedInv, Registering
  <1>8. TargetInv'
    BY <1>1, <1>2 DEF Inv, PortalInv, TargetInv
  <1> QED  BY <1>3, <1>4, <1>5, <1>6, <1>7, <1>8 DEF Inv, PortalInv

LEMMA KeyInv ==
    ASSUME Inv, NEW k \in Keys, Deactivate(k) \/ Activate(k) \/ DeleteKey(k)
    PROVE  Inv'
  <1> USE PortalAssumption
  <1>0. /\ UNCHANGED <<mode, at, lease, probe, raced, misled, browser, late, strayed>>
        /\ pairs' \subseteq pairs
        /\ keyState \in [Keys -> {"active", "inactive", "deleted"}]
    BY DEF Deactivate, Activate, DeleteKey, netVars, Inv, TypeOK
  <1>1. NetInv' /\ SessionInv' /\ TargetInv'
    BY <1>0 DEF Inv, NetInv, NetTypeOK, Apart, OwnLease, SilentGone, Present,
       PortalInv, SessionInv, TargetInv
  <1>2. CASE Deactivate(k) \/ Activate(k)
    <2>1. /\ UNCHANGED <<pairs, overrun>>
          /\ \E v \in {"active", "inactive"} : keyState' = [keyState EXCEPT ![k] = v]
          /\ keyState[k] # "deleted"
          /\ closed' \subseteq closed \cup {k}
      BY <1>2 DEF Deactivate, Activate
    <2>2. TypeOK'
      BY <1>0, <1>1, <2>1 DEF Inv, TypeOK, NetInv, Pair
    <2>3. LimitInv'
      BY <1>0, <2>1, LimitStep DEF Inv, PortalInv
    <2>4. ClosedInv'
      <3>1. closed \subseteq Keys /\ \A h : Registering(h)' = Registering(h)
        BY <1>0 DEF Inv, TypeOK, Registering
      <3>2. \A h \in closed : keyState[h] # "active" /\ ~Registering(h)
        BY DEF Inv, PortalInv, ClosedInv
      <3>3. CASE Deactivate(k)
        BY <1>0, <3>1, <3>2, <3>3 DEF Deactivate, ClosedInv
      <3>4. CASE Activate(k)
        BY <1>0, <3>1, <3>2, <3>4 DEF Activate, ClosedInv
      <3> QED  BY <1>2, <3>3, <3>4
    <2> QED  BY <1>1, <2>2, <2>3, <2>4 DEF Inv, PortalInv
  <1>3. CASE DeleteKey(k)
    <2>1. /\ pairs' = pairs \ Devs(k)
          /\ overrun' = overrun \ {k} /\ closed' = closed \ {k}
          /\ keyState' = [keyState EXCEPT ![k] = "deleted"]
      BY <1>3 DEF DeleteKey
    <2>2. TypeOK'
      BY <1>0, <1>1, <2>1 DEF Inv, TypeOK, NetInv, Pair, Devs
    <2>3. LimitInv'
      <3>1. /\ IsFiniteSet(pairs')
            /\ \A h : /\ Cardinality(Devs(h)') \in Nat /\ Cardinality(Devs(h)) \in Nat
                      /\ Cardinality(Devs(h)') <= Cardinality(Devs(h))
        BY <1>0, FewerDevices, DevsFinite DEF Inv, PortalInv, LimitInv
      <3>2. Devs(k)' = {}
        BY <2>1 DEF Devs
      <3>3. Cardinality(Devs(k)') = 0
        BY <3>2, FS_EmptySet
      <3>4. ASSUME NEW h \in Keys \ overrun'
            PROVE  Cardinality(Devs(h)') <= MaxDevices
        <4>1. CASE h = k
          BY <3>3, <4>1
        <4>2. CASE h # k
          <5>1. Cardinality(Devs(h)) <= MaxDevices
            BY <2>1, <4>2 DEF Inv, PortalInv, LimitInv
          <5> QED  BY <3>1, <5>1
        <4> QED  BY <4>1, <4>2
      <3>5. ASSUME NEW d \in Devices \ late', NEW h \in Keys \ overrun',
                   browser'[d].key = h
            PROVE  Cardinality(Devs(h)') < MaxDevices
        <4>1. CASE h = k
          BY <3>3, <4>1
        <4>2. CASE h # k
          <5>1. Cardinality(Devs(h)) < MaxDevices
            BY <1>0, <2>1, <3>5, <4>2 DEF Inv, PortalInv, LimitInv
          <5> QED  BY <3>1, <5>1
        <4> QED  BY <4>1, <4>2
      <3> QED  BY <3>1, <3>4, <3>5 DEF LimitInv, Devs
    <2>4. ClosedInv'
      BY <1>0, <2>1 DEF Inv, PortalInv, ClosedInv, Registering, TypeOK
    <2> QED  BY <1>1, <2>2, <2>3, <2>4 DEF Inv, PortalInv
  <1> QED  BY <1>2, <1>3

LEMMA NetworkInv ==
    ASSUME Inv, Network
    PROVE  Inv'
  <1>0. /\ UNCHANGED <<keyState, pairs, browser, late, overrun, closed>>
        /\ strayed' = strayed \cup
              {d \in Devices : at'[d] # at[d] /\ browser[d].ip # NoIp}
    BY DEF Network
  <1>1. NetInv'
    BY NetInvStep DEF Inv, Network
  <1>2. TypeOK'
    BY <1>0, <1>1 DEF Inv, TypeOK, NetInv
  <1>3. SessionInv'
    BY <1>0 DEF Inv, PortalInv, SessionInv
  <1>4. LimitInv' /\ ClosedInv' /\ TargetInv'
    BY <1>0 DEF Inv, PortalInv, LimitInv, ClosedInv, TargetInv, Devs, Registering
  <1> QED  BY <1>1, <1>2, <1>3, <1>4 DEF Inv, PortalInv

-----------------------------------------------------------------------------
(* The theorems *)

LEMMA InvInit == Init => Inv
  <1> SUFFICES ASSUME Init PROVE Inv
    OBVIOUS
  <1> USE PortalAssumption DEF Init
  <1>1. /\ Blank \in Browser
        /\ Blank.key = NoKey /\ Blank.ip = NoIp /\ Blank.call = "none"
    BY DEF Blank, Browser, Calls
  <1>2. NetInv
    BY NetInvInit
  <1>3. TypeOK
    BY <1>1, <1>2 DEF NetInv, TypeOK
  <1>4. SessionInv /\ TargetInv
    BY <1>1 DEF SessionInv, TargetInv
  <1>5. LimitInv
    <2>1. \A k : Devs(k) = {}
      BY DEF Devs
    <2>2. IsFiniteSet(pairs) /\ \A k : Cardinality(Devs(k)) = 0
      BY <2>1, FS_EmptySet
    <2> QED  BY <2>2 DEF LimitInv
  <1>6. ClosedInv
    BY <1>1 DEF ClosedInv, Registering
  <1> QED  BY <1>2, <1>3, <1>4, <1>5, <1>6 DEF Inv, PortalInv

LEMMA InvNext ==
    ASSUME Inv, [Next]_vars
    PROVE  Inv'
  <1>1. CASE Next
    BY <1>1, BrowserSteps, RegisterInv, RemovalInv, KeyInv, NetworkInv DEF Next
  <1>2. CASE UNCHANGED vars
    BY <1>2 DEF vars, netVars, portalVars, Inv, NetInv, NetTypeOK, Apart,
       OwnLease, SilentGone, Present, TypeOK, PortalInv, SessionInv, LimitInv,
       ClosedInv, TargetInv, Devs, Registering
  <1> QED  BY <1>1, <1>2

LEMMA Invariant == Spec => []Inv
  BY InvInit, InvNext, PTL DEF Spec

\* The network, the database rows, the sessions and the history have their
\* types, one address or hardware address has one row, and no row is of a
\* deleted key (user/views.py and register_device).
THEOREM TypeCorrect == Spec => []TypeOK
  BY Invariant, PTL DEF Inv

\* A key has more devices than MAX_MAC_ADDRESSES_PER_REG_KEY only if /register
\* answered before another registration on the key: the answer is not asked for
\* again when the device is registered.
THEOREM LimitKept == Spec => []DeviceLimit
  <1>1. Inv => DeviceLimit
    BY DEF Inv, PortalInv, LimitInv, DeviceLimit
  <1> QED  BY <1>1, Invariant, PTL

\* A new row comes from one call of register_device, for the session of the
\* browser that made it.
LEMMA NewDevice ==
    ASSUME Inv, [Next]_vars, NEW p \in pairs' \ pairs
    PROVE  \E d \in Devices :
              /\ Returned(d, "register") /\ p.key = browser[d].key
              /\ p.mac = lease[browser[d].ip] /\ lease[browser[d].ip] # NoDevice
              /\ keyState[p.key] # "deleted"
  <1>1. PICK d \in Devices : RegisterDevice(d)
    BY DEF Next, vars, portalVars, Network, Visit, SendKey, AcceptPolicy,
       AskDeregister, Close, DeregisterDevice, Deactivate, Activate, DeleteKey,
       RemoveDevice
  <1>2. Registrable(browser[d].key, browser[d].ip)
    BY <1>1 DEF RegisterDevice
  <1>3. p = [mac |-> lease[browser[d].ip], ip |-> browser[d].ip, key |-> browser[d].key]
    BY <1>1 DEF RegisterDevice
  <1>4. p.key = browser[d].key /\ p.mac = lease[browser[d].ip]
    BY <1>3
  <1>5. Returned(d, "register")
    BY <1>1, ReturnsKept DEF RegisterDevice, Returned
  <1> QED  BY <1>2, <1>4, <1>5 DEF Registrable

\* A user registers the own device, unless it has left the network since the
\* session took its address.
THEOREM OwnDeviceOnly == Spec => OwnDevice
  <1>1. ASSUME Inv, [Next]_vars, NEW p \in pairs' \ pairs
        PROVE  \E d \in Devices : Returned(d, "register") /\ (p.mac = d \/ d \in strayed)
    <2>1. PICK d \in Devices :
             /\ Returned(d, "register") /\ p.mac = lease[browser[d].ip]
             /\ lease[browser[d].ip] # NoDevice
      BY <1>1, NewDevice
    <2>2. /\ browser[d].ip \in Ips
          /\ d \notin strayed => browser[d].ip = at[d]
      <3>1. browser[d].ip # NoIp /\ (d \notin strayed => browser[d].ip = at[d])
        BY <1>1, <2>1 DEF Returned, Inv, PortalInv, SessionInv
      <3>2. browser[d] \in Browser
        BY <1>1 DEF Inv, TypeOK
      <3> QED  BY <3>1, <3>2 DEF Browser
    <2>3. d \notin strayed => lease[at[d]] = d
      BY <1>1, <2>1, <2>2, NetworkAssumption DEF Inv, NetInv, OwnLease
    <2> QED  BY <2>1, <2>2, <2>3
  <1>2. Inv /\ [Next]_vars
        => [\A p \in pairs' \ pairs : \E d \in Devices :
               Returned(d, "register") /\ (p.mac = d \/ d \in strayed)]_vars
    BY <1>1
  <1> QED  BY <1>2, Invariant, PTL DEF Spec, OwnDevice

\* A key that was inactive before the last request of a registration gets no
\* device: only that request asks whether the key is active.
THEOREM ClosedKeysStay == Spec => ClosedKeyGetsNone
  <1>1. ASSUME Inv, [Next]_vars, NEW p \in pairs' \ pairs
        PROVE  p.key \notin closed
    <2>1. PICK d \in Devices : Returned(d, "register") /\ p.key = browser[d].key
      BY <1>1, NewDevice
    <2> QED  BY <1>1, <2>1 DEF Returned, Inv, PortalInv, ClosedInv, Registering
  <1>2. Inv /\ [Next]_vars => [\A p \in pairs' \ pairs : p.key \notin closed]_vars
    BY <1>1
  <1> QED  BY <1>2, Invariant, PTL DEF Spec, ClosedKeyGetsNone

\* A user who deregisters removes the own device, unless it has left the network
\* since the session took its address.
THEOREM OwnDeviceRemoved == Spec => OwnRemoval
  <1>1. ASSUME Inv, [Next]_vars, NEW d \in Devices \ strayed,
               Returned(d, "deregister"), NEW p \in pairs \ pairs'
        PROVE  p.mac = d
    <2>1. \A e \in Devices \ {d} : ~DeregisterDevice(e)
      BY <1>1, ReturnsKept DEF DeregisterDevice, Returned
    <2>2. CASE DeregisterDevice(d)
      BY <1>1, <2>2 DEF DeregisterDevice, Inv, PortalInv, TargetInv
    <2>3. CASE \E e \in Devices : RegisterDevice(e)
      BY <1>1, <2>3 DEF RegisterDevice
    <2>4. CASE UNCHANGED browser
      BY <1>1, <2>4 DEF Returned
    <2>5. CASE UNCHANGED pairs
      BY <1>1, <2>5
    <2> QED
      BY <1>1, <2>1, <2>2, <2>3, <2>4, <2>5
         DEF Next, vars, portalVars, Network, Visit, SendKey, AcceptPolicy,
             AskDeregister, Close, Deactivate, Activate, DeleteKey, RemoveDevice
  <1>2. Inv /\ [Next]_vars
        => [\A d \in Devices : Returned(d, "deregister") /\ d \notin strayed
               => \A p \in pairs \ pairs' : p.mac = d]_vars
    BY <1>1
  <1> QED  BY <1>2, Invariant, PTL DEF Spec, OwnRemoval

\* The watchdog takes the lease of a device that is there only in the races of
\* watchdog.py and trap_listener.py, after no answer to any ping, or on the state
\* of another port whose tag is the beginning of the device's.
THEOREM LiveLeases == Spec => LiveLeaseKept
  <1>1. ASSUME Inv, [Next]_vars, NEW i \in Ips,
               lease[i] # NoDevice, lease'[i] = NoDevice, at[lease[i]] = i
        PROVE  i \in raced \cup misled
    <2>1. lease' # lease
      BY <1>1
    <2>2. NetNext
      BY <1>1, <2>1 DEF Next, vars, netVars, Network, Visit, SendKey, AcceptPolicy,
         AskDeregister, Close, RegisterDevice, DeregisterDevice, Deactivate, Activate,
         DeleteKey, RemoveDevice
    <2> QED  BY <1>1, <2>2, LeaseStep DEF Inv
  <1>2. Inv /\ [Next]_vars
        => [\A i \in Ips :
               /\ lease[i] # NoDevice /\ lease'[i] = NoDevice
               /\ at[lease[i]] = i
               => i \in raced \cup misled]_netVars
    BY <1>1
  <1> QED  BY <1>2, Invariant, PTL DEF Spec, LiveLeaseKept
=============================================================================
