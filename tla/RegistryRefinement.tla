------------------------- MODULE RegistryRefinement -------------------------
(***************************************************************************)
(* Registry implements DeviceRegistry, for any number of keys, addresses   *)
(* and stops: of all the steps of a handler only a commit that changes an  *)
(* address_pair row or a key's state is a step of the abstract registry.   *)
(* The argument needs the integrity of the database: two pairs that are    *)
(* there never stand for the same device, so deleting one removes it.      *)
(***************************************************************************)
EXTENDS RegistryProofs

\* Steps the abstract registry does not see.
LEMMA RowsStutter ==
    ASSUME UNCHANGED rowVars, keyState' = keyState
    PROVE  UNCHANGED Abstract!vars
  BY DEF rowVars, Abstract!vars

\* A change of a key's state is one of the abstract key steps, or none.
LEMMA KeyStepRefines ==
    ASSUME TypeInv, UNCHANGED rowVars, NEW k \in Keys,
           NEW s \in {"active", "inactive", "deleted"},
           keyState' = [keyState EXCEPT ![k] = s],
           \/ keyState[k] = "none" /\ s = "active"
           \/ Exists(k) /\ s \in {"active", "inactive"}
           \/ Exists(k) /\ s = "deleted" /\ PairsOf(k) = {}
    PROVE  [Abstract!Next]_(Abstract!vars)
  <1>1. {reg[n] : n \in pairRows}' = {reg[n] : n \in pairRows}
    BY DEF rowVars
  <1>2. keyState[k] = s => keyState' = keyState
    BY DEF TypeInv, KeysType
  <1>3. CASE keyState[k] = s
    BY <1>1, <1>2, <1>3 DEF Abstract!vars
  <1>4. CASE keyState[k] # s
    <2>1. CASE keyState[k] = "none" /\ s = "active"
      <3>1. Abstract!Add(k)
        BY <1>1, <2>1 DEF Abstract!Add, Abstract!KeyStep
      <3> QED  BY <3>1 DEF Abstract!Next
    <2>2. CASE Exists(k) /\ s = "active"
      <3>1. Abstract!Activate(k)
        BY <1>1, <1>4, <2>2 DEF Abstract!Activate, Abstract!KeyStep, Exists
      <3> QED  BY <3>1 DEF Abstract!Next
    <2>3. CASE Exists(k) /\ s = "inactive"
      <3>1. Abstract!Deactivate(k)
        BY <1>1, <1>4, <2>3 DEF Abstract!Deactivate, Abstract!KeyStep, Exists
      <3> QED  BY <3>1 DEF Abstract!Next
    <2>4. CASE Exists(k) /\ s = "deleted" /\ PairsOf(k) = {}
      <3>1. \A n \in pairRows : reg[n].key # k
        BY <2>4 DEF PairsOf
      <3>2. Abstract!Delete(k)
        BY <1>1, <2>4, <3>1 DEF Abstract!Delete, Abstract!KeyStep, Exists
      <3> QED  BY <3>2 DEF Abstract!Next
    <2> QED  BY <2>1, <2>2, <2>3, <2>4
  <1> QED  BY <1>3, <1>4

\* The commit of register_device is the abstract registration.
LEMMA RegisterRefines ==
    ASSUME TypeInv, DbInv, NEW k \in Keys, NEW m \in Macs, NEW i \in Ips,
           RegisterCommit(k, m, i)
    PROVE  Abstract!Next
  <1> DEFINE n == Len(reg) + 1
             d == [key |-> k, mac |-> m, ip |-> i]
             devices == {reg[a] : a \in pairRows}
  <1>1. /\ n \notin 1..Len(reg) /\ pairRows \subseteq 1..Len(reg)
    BY DEF TypeInv, RowsType
  <1>2. reg'[n] = d /\ \A a \in 1..Len(reg) : reg'[a] = reg[a]
    BY DEF RegisterCommit, TypeInv, RowsType
  <1>3. /\ pairRows' = pairRows \cup {n}
        /\ keyState' = keyState /\ Exists(k)
        /\ \A a \in ipRows : reg[a].ip # i
        /\ \A a \in macRows : reg[a].mac # m
    BY DEF RegisterCommit, Unused, keyVars
  <1>4. pairRows \subseteq ipRows \cap macRows
    BY DEF DbInv, PairsBacked
  <1> HIDE DEF n
  <1>5. {reg[a] : a \in pairRows}' = devices \cup {d}
    BY <1>1, <1>2, <1>3
  <1>6. d.key = k /\ d.mac = m /\ d.ip = i /\ d \in Abstract!Device
    BY DEF Abstract!Device
  <1> HIDE DEF d
  <1>7. Abstract!Register(d)
    BY <1>3, <1>4, <1>5, <1>6 DEF Abstract!Register, Exists
  <1> QED  BY <1>6, <1>7 DEF Abstract!Next

\* The commit that deletes a pair is the abstract removal; deleting one that
\* another thread has deleted is nothing.
LEMMA DeletePairRefines ==
    ASSUME TypeInv, DbInv, NEW t \in Threads, DeletePair(t)
    PROVE  [Abstract!Next]_(Abstract!vars)
  <1> DEFINE n == task[t].n
             devices == {reg[a] : a \in pairRows}
  <1>1. reg' = reg /\ keyState' = keyState /\ pairRows' = pairRows \ {n}
    BY DEF DeletePair, keyVars
  <1>2. CASE n \notin pairRows
    BY <1>1, <1>2 DEF Abstract!vars
  <1>3. CASE n \in pairRows
    <2>1. ASSUME NEW a \in pairRows, a # n
          PROVE  reg[a] # reg[n]
      <3>1. a \in ipRows /\ n \in ipRows
        BY <1>3 DEF DbInv, PairsBacked
      <3> QED  BY <2>1, <3>1 DEF DbInv, UniqueAddresses
    <2>2. {reg[a] : a \in pairRows}' = devices \ {reg[n]}
      BY <1>1, <2>1
    <2>3. reg[n] \in devices /\ keyState' = keyState
      BY <1>1, <1>3
    <2>4. \E d \in devices : Abstract!Deregister(d)
      <3> SUFFICES \E d \in devices :
                      /\ {reg[a] : a \in pairRows}' = devices \ {d}
                      /\ keyState' = keyState
        BY DEF Abstract!Deregister
      <3> HIDE DEF n, devices
      <3> QED  BY <2>2, <2>3
    <2> QED  BY <2>4 DEF Abstract!Next
  <1> QED  BY <1>2, <1>3

-----------------------------------------------------------------------------
\* The devices and keys an administrator sees change only by registering a
\* device on a key that is there, removing one device, activating or
\* deactivating a key, and deleting a key without devices, one at a time: in
\* every interleaving of the three threads, and over every stop of the process.
THEOREM Refinement == Spec => ImplementsDeviceRegistry
  <1>1. Init => Abstract!Init
    BY DEF Init, Abstract!Init
  <1>2. TypeInv /\ DbInv /\ [Next]_vars => [Abstract!Next]_(Abstract!vars)
    <2> SUFFICES ASSUME TypeInv, DbInv, [Next]_vars
                 PROVE  [Abstract!Next]_(Abstract!vars)
      OBVIOUS
    <2>0. {"rpc", "hk"} \subseteq Threads
      BY DEF Threads
    <2>1. CASE Rpc
      <3>1. ASSUME NEW k \in Keys, NEW m \in Macs, NEW i \in Ips,
                   RegisterCommit(k, m, i)
            PROVE  [Abstract!Next]_(Abstract!vars)
        BY <3>1, RegisterRefines
      <3>2. ASSUME NEW k \in Keys, AddKey(k) \/ BeginActivate(k)
            PROVE  [Abstract!Next]_(Abstract!vars)
        <4>1. /\ keyState' = [keyState EXCEPT ![k] = "active"]
              /\ UNCHANGED rowVars
              /\ keyState[k] = "none" \/ Exists(k)
          BY <3>2 DEF AddKey, BeginActivate
        <4> QED  BY <4>1, KeyStepRefines
      <3>3. ASSUME CommitInactive("rpc")
            PROVE  [Abstract!Next]_(Abstract!vars)
        <4> DEFINE k == task["rpc"].key
        <4>1. /\ UNCHANGED rowVars /\ k \in Keys
              /\ keyState' = IF Exists(k) THEN [keyState EXCEPT ![k] = "inactive"]
                             ELSE keyState
          BY <2>0, <3>3 DEF CommitInactive, TypeInv, TaskType
        <4> QED  BY <4>1, KeyStepRefines, RowsStutter
      <3>4. ASSUME \/ \E k \in Keys :
                         \/ BeginDeregisterAll(k) \/ BeginDelete("rpc", k)
                         \/ BeginDeactivate(k) \/ SetCustomCredit(k)
                   \/ \E n \in pairRows : BeginDeregister(n)
                   \/ Unlock("rpc") \/ CountDevices("rpc")
                   \/ SetupAccounting("rpc") \/ ShapeDevice("rpc")
                   \/ SetupKey("rpc") \/ RelockAll("rpc")
            PROVE  [Abstract!Next]_(Abstract!vars)
        <4>1. UNCHANGED rowVars /\ keyState' = keyState
          BY <3>4 DEF BeginDeregisterAll, BeginDelete, BeginDeactivate,
             SetCustomCredit, BeginDeregister, Unlock, CountDevices,
             SetupAccounting, ShapeDevice, SetupKey, RelockAll, keyVars
        <4> QED  BY <4>1, RowsStutter
      <3> QED  BY <2>1, <3>1, <3>2, <3>3, <3>4 DEF Rpc
    <2>2. CASE Housekeeping
      <3>1. UNCHANGED rowVars /\ keyState' = keyState
        BY <2>2 DEF Housekeeping, BeginMove, BeginDelete, keyVars
      <3> QED  BY <3>1, RowsStutter
    <2>3. ASSUME NEW t \in {"rpc", "hk"}, Removal(t)
          PROVE  [Abstract!Next]_(Abstract!vars)
      <3>1. CASE DeletePair(t)
        BY <2>0, <3>1, DeletePairRefines
      <3>2. CASE DeleteKeyRow(t)
        <4> DEFINE k == task[t].key
        <4>1. UNCHANGED rowVars /\ k \in Keys
          BY <2>0, <3>2 DEF DeleteKeyRow, TypeInv, TaskType
        <4>2. \/ keyState' = keyState
              \/ /\ Exists(k) /\ PairsOf(k) = {}
                 /\ keyState' = [keyState EXCEPT ![k] = "deleted"]
          BY <3>2 DEF DeleteKeyRow, Unreferenced
        <4> QED  BY <4>1, <4>2, KeyStepRefines, RowsStutter
      <3>3. CASE DeleteIp(t) \/ DeleteMac(t)
        BY <3>3 DEF DeleteIp, DeleteMac, keyVars, Abstract!vars
      <3>4. CASE \/ Unaccount(t) \/ Teardown(t) \/ Relock(t) \/ NextDevice(t)
                 \/ DeleteTraffic(t)
        <4>1. UNCHANGED rowVars /\ keyState' = keyState
          BY <3>4 DEF Unaccount, Teardown, Relock, NextDevice, DeleteTraffic,
             keyVars
        <4> QED  BY <4>1, RowsStutter
      <3> QED  BY <2>3, <3>1, <3>2, <3>3, <3>4 DEF Removal
    <2>4. CASE Accounting
      <3>1. UNCHANGED rowVars /\ keyState' = keyState
        BY <2>4 DEF Accounting, NewTrafficRow, ReadToShape, BeginShape,
           ReadToUnshape, BeginUnshape, FinishShape, RemoveShaped, keyVars
      <3> QED  BY <3>1, RowsStutter
    <2>5. CASE Midnight \/ Process \/ UNCHANGED vars
      <3>1. UNCHANGED rowVars /\ keyState' = keyState
        BY <2>5 DEF Midnight, Process, Boot, Shutdown, PowerLoss, Kill, Stop,
           vars, keyVars
      <3> QED  BY <3>1, RowsStutter
    <2> QED  BY <2>1, <2>2, <2>3, <2>4, <2>5 DEF Next
  <1>3. Spec => [](TypeInv /\ DbInv)
    BY TypeInvariant, DatabaseIntegrity, PTL DEF DbInv
  <1> QED  BY <1>1, <1>2, <1>3, PTL DEF Spec, ImplementsDeviceRegistry, Abstract!Spec
=============================================================================
