--------------------------- MODULE RegistryProofs ---------------------------
(***************************************************************************)
(* Proofs about Registry, for any number of keys, addresses and stops:     *)
(* type correctness, the integrity of the database under every             *)
(* interleaving of the threads and every stop, and that the rows implement *)
(* the abstract registry of devices.                                       *)
(***************************************************************************)
EXTENDS Registry, TLAPS

-----------------------------------------------------------------------------
(* The commands on the kernel's table keep its shape *)

LEMMA AllocationsType ==
    ASSUME NEW f \in Table, NEW S, S \subseteq Macs \X Ips
    PROVE  /\ AddAllocations(f, S) \in Table
           /\ DeleteAllocations(f, S) \in Table
  BY DEF Table, AddAllocations, DeleteAllocations

LEMMA KeySetsType ==
    ASSUME NEW f \in Table, NEW ks, ks \subseteq Keys
    PROVE  AddKeySets(f, ks) \in Table
  BY DEF Table, AddKeySets

LEMMA KeyElemsType ==
    ASSUME NEW f \in Table, NEW S, S \subseteq Keys \X Ips
    PROVE  /\ AddKeyElems(f, S) \in Table
           /\ DeleteKeyElems(f, S) \in Table
  BY DEF Table, AddKeyElems, DeleteKeyElems

LEMMA DeleteKeySetType ==
    ASSUME NEW f \in Table, NEW k \in Keys
    PROVE  DeleteKeySet(f, k) \in Table
  BY DEF Table, DeleteKeySet

LEMMA AddMatchingRulesType ==
    ASSUME NEW f \in Table, NEW ks, ks \subseteq Keys
    PROVE  AddMatchingRules(f, ks) \in Table
  <1>1. \A k \in Keys : f.rules[k] \in Nat /\ f.rules[k] + 1 \in Nat
    BY DEF Table
  <1> QED  BY <1>1 DEF Table, AddMatchingRules

LEMMA DeleteMatchingRulesType ==
    ASSUME NEW f \in Table, NEW k \in Keys
    PROVE  DeleteMatchingRules(f, k) \in Table
  BY DEF Table, DeleteMatchingRules

LEMMA DeleteAccountingType ==
    ASSUME NEW f \in Table, NEW k \in Keys
    PROVE  DeleteAccounting(f, k) \in Table
  BY DeleteMatchingRulesType, DeleteKeySetType DEF DeleteAccounting

LEMMA EmptyTableType == EmptyTable \in Table
  BY DEF Table, EmptyTable

-----------------------------------------------------------------------------
(* Type correctness, in four parts *)

Registration == [key : Keys, mac : Macs, ip : Ips]

RowsType ==
    /\ reg \in Seq(Registration)
    /\ Len(reg) <= MaxRegs
    /\ pairRows \subseteq 1..Len(reg)
    /\ ipRows \subseteq 1..Len(reg)
    /\ macRows \subseteq 1..Len(reg)

KeysType ==
    /\ keyState \in [Keys -> {"none", "active", "inactive", "deleted"}]
    /\ traffic \subseteq Keys /\ over \subseteq Keys
    /\ status \in {"up", "down"}
    /\ shaped \subseteq Keys
    /\ irregular \subseteq Keys

KernelType == nft \in Table /\ filters \subseteq Ips

TaskType ==
    /\ task \in [Threads -> Task]
    /\ \A t \in Threads :
          /\ task[t].pc # "idle" => task[t].key \in Keys
          /\ task[t].pc \in DevicePcs => task[t].n \in 1..Len(reg)
          /\ task[t].n <= Len(reg)
          /\ task[t].todo \subseteq 1..Len(reg)

HistoryType == stops \in 0..MaxStops /\ torn \subseteq 1..Len(reg)

TypeInv == RowsType /\ KeysType /\ KernelType /\ TaskType /\ HistoryType

LEMMA RegistrationType ==
    ASSUME RowsType
    PROVE  \A n \in 1..Len(reg) :
              /\ reg[n].key \in Keys /\ reg[n].mac \in Macs /\ reg[n].ip \in Ips
              /\ Elem(n) \in Macs \X Ips
  <1> SUFFICES ASSUME NEW n \in 1..Len(reg)
               PROVE  /\ reg[n].key \in Keys /\ reg[n].mac \in Macs
                      /\ reg[n].ip \in Ips
                      /\ Elem(n) \in Macs \X Ips
    OBVIOUS
  <1>1. reg[n] \in Registration
    BY DEF RowsType
  <1> QED  BY <1>1 DEF Registration, Elem

LEMMA SetsOfRows ==
    ASSUME RowsType, NEW S, S \subseteq 1..Len(reg)
    PROVE  /\ Elems(S) \subseteq Macs \X Ips
           /\ KeyElems(S) \subseteq Keys \X Ips
           /\ IpsOf(S) \subseteq Ips
  BY RegistrationType DEF Elems, KeyElems, IpsOf

\* The three ways a handler's task changes, while no registration is added.
LEMMA GotoType ==
    ASSUME TaskType, reg' = reg, NEW t \in Threads, NEW pc \in Pcs,
           task[t].pc # "idle",
           pc \in DevicePcs => task[t].n \in 1..Len(reg),
           Goto(t, pc)
    PROVE  TaskType'
  BY DEF TaskType, Goto, Task, Pcs

LEMMA FinishType ==
    ASSUME TaskType, reg' = reg, RegistryAssumption, RowsType,
           NEW t \in Threads, Finish(t)
    PROVE  TaskType'
  BY DEF TaskType, RowsType, Finish, Task, Idle, Pcs, Ops, DevicePcs, KeyPcs,
         RegistryAssumption

LEMMA BeginType ==
    ASSUME TaskType, RowsType, reg' = reg, RegistryAssumption,
           NEW t \in Threads, NEW pc \in Pcs, NEW op \in Ops, NEW k \in Keys,
           NEW n \in 0..Len(reg), NEW todo, todo \subseteq 1..Len(reg),
           pc \in DevicePcs => n \in 1..Len(reg),
           Begin(t, pc, op, k, n, todo)
    PROVE  TaskType'
  <1> DEFINE r == [pc |-> pc, op |-> op, key |-> k, n |-> n, todo |-> todo]
  <1>0. Len(reg) \in Nat /\ Len(reg) <= MaxRegs /\ MaxRegs \in Nat
    BY DEF RowsType, RegistryAssumption
  <1>1. n \in 0..MaxRegs /\ todo \subseteq 1..MaxRegs
    BY <1>0
  <1>2. r \in Task
    BY <1>1 DEF Task
  <1>3. task' = [task EXCEPT ![t] = r]
    BY DEF Begin
  <1>4. task' \in [Threads -> Task]
    BY <1>2, <1>3 DEF TaskType
  <1>5. ASSUME NEW u \in Threads
        PROVE  /\ task'[u].pc # "idle" => task'[u].key \in Keys
               /\ task'[u].pc \in DevicePcs => task'[u].n \in 1..Len(reg)
               /\ task'[u].n <= Len(reg)
               /\ task'[u].todo \subseteq 1..Len(reg)
    <2>1. CASE u = t
      <3>1. task'[u] = r
        BY <1>3, <2>1 DEF TaskType
      <3> QED  BY <3>1, <1>0
    <2>2. CASE u # t
      <3>1. task'[u] = task[u]
        BY <1>3, <2>2 DEF TaskType
      <3> QED  BY <3>1 DEF TaskType
    <2> QED  BY <2>1, <2>2
  <1> QED  BY <1>4, <1>5 DEF TaskType

LEMMA SameTaskType ==
    ASSUME TaskType, reg' = reg, task' = task
    PROVE  TaskType'
  BY DEF TaskType

LEMMA OverlapType ==
    ASSUME TaskType, NEW t \in Threads, NEW k \in Keys, NEW ips
    PROVE  Overlap(t, k, ips) \subseteq Keys
  BY DEF TaskType, Overlap, Touches, IsIdle

LEMMA MovedType ==
    ASSUME RowsType, NEW S
    PROVE  MovedTo(S) \subseteq Keys
  BY RegistrationType DEF MovedTo, RowsType

LEMMA PairsType ==
    ASSUME RowsType, NEW k
    PROVE  PairsOf(k) \subseteq 1..Len(reg) /\ PairsOf(k) \subseteq pairRows
  BY DEF RowsType, PairsOf

LEMMA LoadDeviceType ==
    ASSUME TypeInv, NEW t \in Threads, NEW op \in Ops, NEW n \in 1..Len(reg),
           NEW todo, todo \subseteq 1..Len(reg), NEW marked,
           marked \subseteq Keys,
           UNCHANGED <<keyVars, rowVars, nft, status, shaped, stops, torn>>,
           LoadDevice(t, op, n, todo, marked)
    PROVE  TypeInv'
  <1> USE RegistryAssumption DEF TypeInv
  <1>1. RowsType' /\ HistoryType'
    BY DEF RowsType, HistoryType, rowVars
  <1>2. irregular' \subseteq Keys
    BY DEF LoadDevice, Mark, KeysType
  <1>3. KeysType'
    BY <1>2 DEF KeysType, keyVars
  <1>4. KernelType'
    BY DEF KernelType, LoadDevice
  <1>5. TaskType'
    <2> DEFINE pc == IF OnShapedList(reg[n].key) /\ n \in Unfiltered({n})
                     THEN "relock" ELSE "delPair"
    <2>1. Begin(t, pc, op, reg[n].key, n, todo)
      BY DEF LoadDevice
    <2>2. pc \in Pcs /\ reg' = reg /\ n \in 0..Len(reg)
      BY DEF Pcs, DevicePcs, rowVars
    <2>3. reg[n].key \in Keys
      BY RegistrationType
    <2> HIDE DEF pc
    <2> QED  BY <2>1, <2>2, <2>3, BeginType
  <1> QED  BY <1>1, <1>3, <1>4, <1>5

LEMMA BeginRemovalType ==
    ASSUME TypeInv, NEW t \in Threads, NEW op \in Ops, NEW k \in Keys,
           UNCHANGED <<keyVars, rowVars, nft, status, shaped, stops, torn>>,
           BeginRemoval(t, op, k)
    PROVE  TypeInv'
  <1>1. PICK n \in PairsOf(k) :
           LoadDevice(t, op, n, PairsOf(k) \ {n},
                      Overlap(t, k, IpsOf(PairsOf(k))))
    BY DEF BeginRemoval
  <1>2. PairsOf(k) \subseteq 1..Len(reg)
    BY PairsType DEF TypeInv
  <1>3. Overlap(t, k, IpsOf(PairsOf(k))) \subseteq Keys
    BY OverlapType DEF TypeInv
  <1> QED  BY <1>1, <1>2, <1>3, LoadDeviceType

-----------------------------------------------------------------------------
(* The steps of the RPC thread's handlers *)

LEMMA RegisterType ==
    ASSUME TypeInv, NEW k \in Keys, NEW m \in Macs, NEW i \in Ips,
           RegisterCommit(k, m, i)
    PROVE  TypeInv'
  <1> USE RegistryAssumption DEF TypeInv
  <1> DEFINE d == [key |-> k, mac |-> m, ip |-> i]
             n == Len(reg) + 1
  <1>1. /\ reg' = Append(reg, d) /\ d \in Registration
        /\ Len(reg) \in Nat /\ n <= MaxRegs
    BY DEF RegisterCommit, Registration, RowsType
  <1>2. reg' \in Seq(Registration) /\ Len(reg') = n
    BY <1>1 DEF RowsType
  <1>3. RowsType' /\ HistoryType'
    <2>1. /\ pairRows' = pairRows \cup {n} /\ ipRows' = ipRows \cup {n}
          /\ macRows' = macRows \cup {n}
          /\ stops' = stops /\ torn' = torn
      BY DEF RegisterCommit
    <2>2. 1..Len(reg) \subseteq 1..n /\ n \in 1..n
      BY <1>1
    <2>3. Len(reg') = n /\ n <= MaxRegs /\ reg' \in Seq(Registration)
      BY <1>1, <1>2
    <2> HIDE DEF n
    <2> QED  BY <2>1, <2>2, <2>3 DEF RowsType, HistoryType
  <1>4. irregular' \subseteq Keys
    <2>1. Overlap("rpc", k, {i}) \subseteq Keys
      BY OverlapType DEF Threads
    <2> QED  BY <2>1 DEF RegisterCommit, Mark, KeysType
  <1>5. KeysType' /\ KernelType'
    BY <1>4 DEF RegisterCommit, KeysType, KernelType, keyVars, kernelVars
  <1>6. TaskType'
    <2> DEFINE r == [pc |-> "unlock", op |-> "register", key |-> k,
                     n |-> n, todo |-> {}]
    <2>1. task' = [task EXCEPT !["rpc"] = r]
      BY DEF RegisterCommit, Begin
    <2>2. n \in 1..MaxRegs
      BY <1>1
    <2>3. r \in Task
      BY <2>2 DEF Task, Pcs, DevicePcs, Ops
    <2>4. task' \in [Threads -> Task]
      BY <2>1, <2>3 DEF TaskType
    <2>5. ASSUME NEW u \in Threads
          PROVE  /\ task'[u].pc # "idle" => task'[u].key \in Keys
                 /\ task'[u].pc \in DevicePcs => task'[u].n \in 1..Len(reg')
                 /\ task'[u].n <= Len(reg')
                 /\ task'[u].todo \subseteq 1..Len(reg')
      <3>1. CASE u = "rpc"
        <4>1. task'[u] = r
          BY <2>1, <3>1 DEF TaskType
        <4> QED  BY <4>1, <2>2, <1>2
      <3>2. CASE u # "rpc"
        <4>1. task'[u] = task[u] /\ task[u].n \in Nat
          BY <2>1, <3>2 DEF TaskType, Task
        <4> QED  BY <4>1, <1>1, <1>2 DEF TaskType
      <3> QED  BY <3>1, <3>2
    <2> QED  BY <2>4, <2>5 DEF TaskType
  <1> QED  BY <1>3, <1>5, <1>6

LEMMA RegisterStepsType ==
    ASSUME TypeInv, NEW t \in Threads,
           Unlock(t) \/ CountDevices(t) \/ SetupAccounting(t) \/ ShapeDevice(t)
    PROVE  TypeInv'
  <1> USE RegistryAssumption DEF TypeInv
  <1> DEFINE n == task[t].n
             k == task[t].key
  <1>1. RowsType' /\ HistoryType' /\ KeysType' /\ reg' = reg
    BY DEF Unlock, CountDevices, SetupAccounting, ShapeDevice, RowsType,
           HistoryType, KeysType, rowVars, keyVars, historyVars
  <1>2. n \in 1..Len(reg) /\ k \in Keys /\ task[t].pc # "idle"
    BY DEF Unlock, CountDevices, SetupAccounting, ShapeDevice, TaskType,
           DevicePcs
  <1>3. /\ {Elem(n)} \subseteq Macs \X Ips
        /\ KeyElems({n}) \subseteq Keys \X Ips
        /\ reg[n].ip \in Ips
    BY <1>2, RegistrationType, SetsOfRows
  <1>4. KernelType' /\ TaskType'
    <2>1. CASE Unlock(t)
      <3>1. KernelType'
        BY <1>3, <2>1, AllocationsType DEF Unlock, Elems, KernelType
      <3>2. Goto(t, "count") /\ "count" \in Pcs
        BY <2>1 DEF Unlock, Pcs, DevicePcs
      <3> QED  BY <1>1, <1>2, <3>1, <3>2, GotoType
    <2>2. CASE CountDevices(t)
      <3>1. KernelType'
        BY <2>2 DEF CountDevices, KernelType, kernelVars
      <3>2. Finish(t) \/ Goto(t, "setup") \/ Goto(t, "addIp")
        BY <2>2 DEF CountDevices
      <3>3. "setup" \in Pcs /\ "addIp" \in Pcs
        BY DEF Pcs, DevicePcs
      <3> QED  BY <1>1, <1>2, <3>1, <3>2, <3>3, GotoType, FinishType
    <2>3. CASE SetupAccounting(t)
      <3> DEFINE f == IF task[t].pc = "setup"
                      THEN AddMatchingRules(AddKeySets(nft, {k}), {k}) ELSE nft
      <3>1. f \in Table
        BY <1>2, KeySetsType, AddMatchingRulesType DEF KernelType
      <3>2. nft' = AddKeyElems(f, KeyElems({n})) /\ filters' = filters
        BY <2>3 DEF SetupAccounting
      <3> HIDE DEF f
      <3>3. KernelType'
        BY <1>3, <3>1, <3>2, KeyElemsType DEF KernelType
      <3>4. Goto(t, "shapeDevice") /\ "shapeDevice" \in Pcs
        BY <2>3 DEF SetupAccounting, Pcs, DevicePcs
      <3> QED  BY <1>1, <1>2, <3>3, <3>4, GotoType
    <2>4. CASE ShapeDevice(t)
      <3>1. KernelType'
        BY <1>3, <2>4 DEF ShapeDevice, KernelType
      <3> QED  BY <1>1, <2>4, <3>1, FinishType DEF ShapeDevice
    <2> QED  BY <2>1, <2>2, <2>3, <2>4
  <1> QED  BY <1>1, <1>4

LEMMA KeyHandlersType ==
    ASSUME TypeInv, NEW k \in Keys, BeginActivate(k) \/ BeginDeactivate(k)
    PROVE  TypeInv'
  <1> USE RegistryAssumption DEF TypeInv
  <1> DEFINE P == PairsOf(k)
  <1>1. RowsType' /\ HistoryType' /\ reg' = reg
    BY DEF BeginActivate, BeginDeactivate, RowsType, HistoryType, rowVars
  <1>2. P \subseteq 1..Len(reg)
    BY PairsType
  <1>3. Overlap("rpc", k, IpsOf(P)) \subseteq Keys
    BY OverlapType DEF Threads
  <1>4. KeysType' /\ KernelType'
    <2>1. CASE BeginActivate(k)
      BY <1>3, <2>1 DEF BeginActivate, Mark, KeysType, KernelType, kernelVars
    <2>2. CASE BeginDeactivate(k)
      <3>1. nft' \in Table
        BY <2>2, DeleteAccountingType
           DEF BeginDeactivate, KernelType
      <3> QED  BY <1>3, <2>2, <3>1
               DEF BeginDeactivate, Mark, KeysType, KernelType, keyVars
    <2> QED  BY <2>1, <2>2
  <1>5. TaskType'
    <2>1. "rpc" \in Threads /\ 0 \in 0..Len(reg)
      BY DEF Threads, RowsType
    <2>2. CASE BeginActivate(k)
      <3>1. Begin("rpc", "setupKey", "activate", k, 0, {})
        BY <2>2 DEF BeginActivate
      <3>2. /\ "setupKey" \in Pcs \ DevicePcs /\ "activate" \in Ops
            /\ {} \subseteq 1..Len(reg)
        BY DEF Pcs, DevicePcs, KeyPcs, Ops
      <3> QED  BY <1>1, <2>1, <3>1, <3>2, BeginType
    <2>3. CASE BeginDeactivate(k)
      <3>1. Begin("rpc", "relockAll", "deactivate", k, 0, P)
        BY <2>3 DEF BeginDeactivate
      <3>2. "relockAll" \in Pcs \ DevicePcs /\ "deactivate" \in Ops
        BY DEF Pcs, DevicePcs, KeyPcs, Ops
      <3> QED  BY <1>1, <1>2, <2>1, <3>1, <3>2, BeginType
    <2> QED  BY <2>2, <2>3
  <1> QED  BY <1>1, <1>4, <1>5

LEMMA KeyStepsType ==
    ASSUME TypeInv, NEW t \in Threads,
           SetupKey(t) \/ RelockAll(t) \/ CommitInactive(t)
    PROVE  TypeInv'
  <1> USE RegistryAssumption DEF TypeInv
  <1> DEFINE k == task[t].key
  <1>1. RowsType' /\ HistoryType' /\ reg' = reg
    BY DEF SetupKey, RelockAll, CommitInactive, RowsType, HistoryType,
           rowVars, historyVars
  <1>2. k \in Keys /\ task[t].pc # "idle" /\ task[t].todo \subseteq 1..Len(reg)
    BY DEF SetupKey, RelockAll, CommitInactive, TaskType
  <1>3. CASE SetupKey(t)
    <2> DEFINE P == PairsOf(k)
    <2>1. P \subseteq 1..Len(reg)
      BY PairsType
    <2>2. /\ Elems(P) \subseteq Macs \X Ips /\ KeyElems(P) \subseteq Keys \X Ips
          /\ IpsOf(P) \subseteq Ips
      BY <2>1, SetsOfRows
    <2> DEFINE f == AddAllocations(AddKeySets(nft, {k}), Elems(P))
    <2>3. f \in Table
      BY <1>2, <2>2, AllocationsType, KeySetsType DEF KernelType
    <2>4. AddMatchingRules(AddKeyElems(f, KeyElems(P)), {k}) \in Table
      BY <1>2, <2>2, <2>3, KeyElemsType, AddMatchingRulesType
    <2>5. KernelType'
      BY <1>3, <2>2, <2>4 DEF SetupKey, KernelType
    <2>6. KeysType'
      BY <1>2, <1>3 DEF SetupKey, Mark, KeysType, keyVars
    <2> QED  BY <1>1, <1>3, <2>5, <2>6, FinishType DEF SetupKey
  <1>4. CASE RelockAll(t)
    <2> DEFINE P    == task[t].todo
               bad  == IF k \in over THEN Unfiltered(P) ELSE {}
               done == Handled(P, bad)
    <2>1. done \subseteq 1..Len(reg)
      BY <1>2 DEF Handled
    <2>2. Elems(done) \subseteq Macs \X Ips
      BY <2>1, SetsOfRows
    <2>3. /\ nft' = DeleteAllocations(nft, Elems(done))
          /\ filters' \subseteq filters
          /\ irregular' \subseteq irregular \cup {k}
          /\ UNCHANGED <<keyVars, status, shaped>>
      BY <1>4 DEF RelockAll, Mark
    <2>4. Finish(t) \/ Goto(t, "commitInactive")
      BY <1>4 DEF RelockAll
    <2> HIDE DEF done
    <2>5. KernelType' /\ KeysType'
      BY <1>2, <2>2, <2>3, AllocationsType DEF KernelType, KeysType, keyVars
    <2>6. "commitInactive" \in Pcs \ DevicePcs
      BY DEF Pcs, DevicePcs, KeyPcs
    <2> QED  BY <1>1, <1>2, <2>4, <2>5, <2>6, FinishType, GotoType
  <1>5. CASE CommitInactive(t)
    <2>1. KeysType' /\ KernelType'
      BY <1>5 DEF CommitInactive, KeysType, KernelType, kernelVars, historyVars
    <2> QED  BY <1>1, <1>5, <2>1, FinishType DEF CommitInactive
  <1> QED  BY <1>3, <1>4, <1>5

LEMMA ColumnsType ==
    ASSUME TypeInv,
           Midnight \/ \E k \in Keys : AddKey(k) \/ SetCustomCredit(k)
    PROVE  TypeInv'
  <1>1. RowsType' /\ HistoryType' /\ KernelType' /\ TaskType'
    BY DEF TypeInv, AddKey, SetCustomCredit, Midnight, RowsType, HistoryType,
           KernelType, TaskType, rowVars, historyVars, kernelVars
  <1>2. KeysType'
    BY DEF TypeInv, AddKey, SetCustomCredit, Midnight, KeysType, historyVars
  <1> QED  BY <1>1, <1>2 DEF TypeInv

-----------------------------------------------------------------------------
(* The removal of devices and keys, in either thread *)

LEMMA RowDeletionsType ==
    ASSUME TypeInv, NEW t \in Threads,
           DeletePair(t) \/ DeleteIp(t) \/ DeleteMac(t)
    PROVE  TypeInv'
  <1> USE RegistryAssumption DEF TypeInv
  <1>1. RowsType' /\ HistoryType' /\ KeysType' /\ KernelType' /\ reg' = reg
    BY DEF DeletePair, DeleteIp, DeleteMac, RowsType, HistoryType, KeysType,
           KernelType, keyVars, kernelVars, historyVars
  <1>2. task[t].pc # "idle" /\ task[t].n \in 1..Len(reg)
    BY DEF DeletePair, DeleteIp, DeleteMac, TaskType, DevicePcs
  <1>3. \E pc \in {"delIp", "delMac", "relock", "unaccount"} : Goto(t, pc)
    BY DEF DeletePair, DeleteIp, DeleteMac
  <1>4. {"delIp", "delMac", "relock", "unaccount"} \subseteq Pcs
    BY DEF Pcs, DevicePcs
  <1>5. TaskType'
    BY <1>1, <1>2, <1>3, <1>4, GotoType
  <1> QED  BY <1>1, <1>5

LEMMA RemovalKernelType ==
    ASSUME TypeInv, NEW t \in Threads,
           Unaccount(t) \/ Teardown(t) \/ Relock(t)
    PROVE  TypeInv'
  <1> USE RegistryAssumption DEF TypeInv
  <1> DEFINE n == task[t].n
             k == task[t].key
  <1>1. RowsType' /\ HistoryType' /\ KeysType' /\ reg' = reg
    BY DEF Unaccount, Teardown, Relock, RowsType, HistoryType, KeysType,
           rowVars, keyVars, historyVars
  <1>2. task[t].pc # "idle" /\ n \in 1..Len(reg) /\ k \in Keys
    BY DEF Unaccount, Teardown, Relock, TaskType, DevicePcs
  <1>3. Elems({n}) \subseteq Macs \X Ips /\ KeyElems({n}) \subseteq Keys \X Ips
    BY <1>2, SetsOfRows
  <1>4. KernelType'
    <2>1. CASE Unaccount(t)
      BY <1>3, <2>1, KeyElemsType DEF Unaccount, KernelType
    <2>2. CASE Teardown(t)
      BY <1>2, <2>2, DeleteAccountingType
         DEF Teardown, KernelType
    <2>3. CASE Relock(t)
      <3>1. {Elem(n)} \subseteq Macs \X Ips
        BY <1>3 DEF Elems
      <3> QED  BY <2>3, <3>1, AllocationsType DEF Relock, KernelType
    <2> QED  BY <2>1, <2>2, <2>3
  <1>5. \/ Finish(t)
        \/ \E pc \in {"relock", "teardown", "delTraffic", "next"} : Goto(t, pc)
    <2>1. CASE Relock(t)
      BY <2>1 DEF Relock
    <2>2. CASE Unaccount(t) \/ Teardown(t)
      BY <2>2 DEF Unaccount, Teardown
    <2> QED  BY <2>1, <2>2
  <1>6. {"relock", "teardown", "delTraffic", "next"} \subseteq Pcs
    BY DEF Pcs, DevicePcs, KeyPcs
  <1>7. TaskType'
    BY <1>1, <1>2, <1>5, <1>6, FinishType, GotoType
  <1> QED  BY <1>1, <1>4, <1>7

LEMMA NextDeviceType ==
    ASSUME TypeInv, NEW t \in Threads, NextDevice(t)
    PROVE  TypeInv'
  <1>1. PICK n \in task[t].todo :
           IF n \in pairRows
           THEN LoadDevice(t, task[t].op, n, task[t].todo \ {n}, {})
           ELSE Finish(t) /\ UNCHANGED <<filters, irregular>>
    BY DEF NextDevice
  <1>2. UNCHANGED <<keyVars, rowVars, nft, status, shaped, stops, torn>>
    BY DEF NextDevice
  <1>3. n \in 1..Len(reg) /\ task[t].todo \subseteq 1..Len(reg)
        /\ task[t].op \in Ops
    BY DEF TypeInv, TaskType, Task
  <1>4. CASE n \in pairRows
    BY <1>1, <1>2, <1>3, <1>4, LoadDeviceType
  <1>5. CASE n \notin pairRows
    <2>1. RowsType' /\ KeysType' /\ KernelType' /\ HistoryType' /\ reg' = reg
      BY <1>1, <1>2, <1>5 DEF TypeInv, RowsType, KeysType, KernelType,
         HistoryType, rowVars, keyVars
    <2>2. TaskType'
      BY <1>1, <1>5, <2>1, FinishType, RegistryAssumption DEF TypeInv
    <2> QED  BY <2>1, <2>2 DEF TypeInv
  <1> QED  BY <1>4, <1>5

LEMMA DeleteKeyStepsType ==
    ASSUME TypeInv, NEW t \in Threads, DeleteTraffic(t) \/ DeleteKeyRow(t)
    PROVE  TypeInv'
  <1> USE RegistryAssumption DEF TypeInv
  <1>1. RowsType' /\ HistoryType' /\ KeysType' /\ KernelType' /\ reg' = reg
    BY DEF DeleteTraffic, DeleteKeyRow, RowsType, HistoryType, KeysType,
           KernelType, rowVars, kernelVars, historyVars
  <1>2. task[t].pc # "idle"
    BY DEF DeleteTraffic, DeleteKeyRow
  <1>3. Finish(t) \/ Goto(t, "delKey")
    BY DEF DeleteTraffic, DeleteKeyRow
  <1>4. "delKey" \in Pcs \ DevicePcs
    BY DEF Pcs, DevicePcs, KeyPcs
  <1>5. TaskType'
    BY <1>1, <1>2, <1>3, <1>4, FinishType, GotoType
  <1> QED  BY <1>1, <1>5

LEMMA BeginDeregisterType ==
    ASSUME TypeInv, NEW n \in pairRows, BeginDeregister(n)
    PROVE  TypeInv'
  <1>1. "rpc" \in Threads /\ "deregister" \in Ops
    BY DEF Threads, Ops
  <1>2. /\ n \in 1..Len(reg) /\ {} \subseteq 1..Len(reg)
        /\ UNCHANGED <<keyVars, rowVars, nft, status, shaped, stops, torn>>
        /\ LoadDevice("rpc", "deregister", n, {},
                      Overlap("rpc", reg[n].key, {reg[n].ip}))
    BY DEF BeginDeregister, TypeInv, RowsType
  <1>3. reg[n].key \in Keys
    BY <1>2, RegistrationType DEF TypeInv
  <1>4. Overlap("rpc", reg[n].key, {reg[n].ip}) \subseteq Keys
    BY <1>1, <1>3, OverlapType DEF TypeInv
  <1> QED  BY <1>1, <1>2, <1>4, LoadDeviceType

LEMMA BeginsType ==
    ASSUME TypeInv, NEW t \in Threads, NEW k \in Keys,
           BeginDeregisterAll(k) \/ BeginDelete(t, k) \/ BeginMove(k)
    PROVE  TypeInv'
  <1>1. {"rpc", "hk"} \subseteq Threads
    BY DEF Threads
  <1>2. {"deregisterAll", "delete", "move"} \subseteq Ops
    BY DEF Ops
  <1>4. CASE BeginDeregisterAll(k)
    BY <1>1, <1>2, <1>4, BeginRemovalType DEF BeginDeregisterAll
  <1>5. CASE BeginMove(k)
    BY <1>1, <1>2, <1>5, BeginRemovalType DEF BeginMove
  <1>6. CASE BeginDelete(t, k)
    <2>1. UNCHANGED <<keyVars, rowVars, nft, status, shaped, stops, torn>>
      BY <1>6 DEF BeginDelete
    <2>2. CASE BeginRemoval(t, "delete", k)
      BY <1>2, <2>1, <2>2, BeginRemovalType
    <2>3. CASE /\ Begin(t, "delTraffic", "delete", k, 0, {})
               /\ Mark(Overlap(t, k, {}))
               /\ filters' = filters
      <3>1. Overlap(t, k, {}) \subseteq Keys
        BY OverlapType DEF TypeInv
      <3>2. RowsType' /\ KeysType' /\ KernelType' /\ HistoryType' /\ reg' = reg
        BY <2>1, <2>3, <3>1 DEF TypeInv, RowsType, KeysType, KernelType,
           HistoryType, Mark, rowVars, keyVars
      <3>3. /\ "delTraffic" \in Pcs \ DevicePcs /\ 0 \in 0..Len(reg)
            /\ {} \subseteq 1..Len(reg)
        BY DEF Pcs, DevicePcs, KeyPcs, TypeInv, RowsType
      <3>4. TaskType'
        BY <1>2, <2>3, <3>2, <3>3, BeginType, RegistryAssumption DEF TypeInv
      <3> QED  BY <3>2, <3>4 DEF TypeInv
    <2> QED  BY <1>6, <2>2, <2>3 DEF BeginDelete
  <1> QED  BY <1>4, <1>5, <1>6

-----------------------------------------------------------------------------
(* The accounting thread, starts and stops *)

LEMMA AccountingType ==
    ASSUME TypeInv, Accounting
    PROVE  TypeInv'
  <1> USE RegistryAssumption DEF TypeInv
  <1> DEFINE t == "acct"
             k == task[t].key
  <1>1. RowsType' /\ HistoryType' /\ reg' = reg
    BY DEF Accounting, NewTrafficRow, ReadToShape, BeginShape, ReadToUnshape,
           BeginUnshape, FinishShape, RemoveShaped, RowsType, HistoryType,
           rowVars, historyVars
  <1>2. t \in Threads
    BY DEF Threads
  <1>3. /\ {"beginShape", "finishShape", "beginUnshape", "removeShaped"}
             \subseteq Pcs \ DevicePcs
        /\ {"shape", "unshape"} \subseteq Ops
        /\ 0 \in 0..Len(reg) /\ {} \subseteq 1..Len(reg)
    BY DEF Pcs, DevicePcs, KeyPcs, Ops, RowsType
  <1>4. ASSUME NEW h \in Keys, NewTrafficRow(h)
        PROVE  KeysType' /\ KernelType' /\ TaskType'
    BY <1>1, <1>4, SameTaskType
       DEF NewTrafficRow, KeysType, KernelType, kernelVars, historyVars
  <1>5. ASSUME NEW h \in Keys, ReadToShape(h) \/ ReadToUnshape(h)
        PROVE  KeysType' /\ KernelType' /\ TaskType'
    <2>1. PairsOf(h) \subseteq 1..Len(reg)
      BY PairsType
    <2>2. KeysType' /\ KernelType'
      BY <1>5 DEF ReadToShape, ReadToUnshape, KeysType, KernelType,
         keyVars, kernelVars, historyVars
    <2>3. \/ Begin(t, "beginShape", "shape", h, 0, {})
          \/ Begin(t, "beginUnshape", "unshape", h, 0, PairsOf(h))
      BY <1>5 DEF ReadToShape, ReadToUnshape
    <2>4. TaskType'
      BY <1>1, <1>2, <1>3, <2>1, <2>3, BeginType
    <2> QED  BY <2>2, <2>4
  <1>6. ASSUME BeginShape(t) \/ BeginUnshape(t)
        PROVE  KeysType' /\ KernelType' /\ TaskType'
    <2>1. k \in Keys /\ task[t].todo \subseteq 1..Len(reg)
      BY <1>2, <1>6 DEF BeginShape, BeginUnshape, TaskType
    <2>2. PairsOf(k) \subseteq 1..Len(reg)
      BY <2>1, PairsType
    <2>3. /\ Overlap(t, k, IpsOf(PairsOf(k))) \subseteq Keys
          /\ Overlap(t, k, IpsOf(task[t].todo)) \subseteq Keys
          /\ MovedTo(task[t].todo) \subseteq Keys
      BY <1>2, <2>1, OverlapType, MovedType
    <2>4. irregular' \subseteq Keys
      BY <1>6, <2>1, <2>3 DEF BeginShape, BeginUnshape, Mark, KeysType
    <2>5. KeysType' /\ KernelType'
      BY <1>6, <2>1, <2>4 DEF BeginShape, BeginUnshape, KeysType, KernelType,
         kernelVars, keyVars
    <2>6. \/ Finish(t)
          \/ Begin(t, "finishShape", "shape", k, 0, PairsOf(k))
          \/ Goto(t, "removeShaped")
      BY <1>6 DEF BeginShape, BeginUnshape
    <2>7. TaskType'
      <3>1. CASE Finish(t)
        BY <1>1, <1>2, <3>1, FinishType
      <3>2. CASE Begin(t, "finishShape", "shape", k, 0, PairsOf(k))
        BY <1>1, <1>2, <1>3, <2>1, <2>2, <3>2, BeginType
      <3>3. CASE Goto(t, "removeShaped")
        <4>1. task[t].pc # "idle"
          BY <1>6 DEF BeginShape, BeginUnshape
        <4> QED  BY <1>1, <1>2, <1>3, <3>3, <4>1, GotoType
      <3> QED  BY <2>6, <3>1, <3>2, <3>3
    <2> QED  BY <2>5, <2>7
  <1>7. ASSUME FinishShape(t) \/ RemoveShaped(t)
        PROVE  KeysType' /\ KernelType' /\ TaskType'
    <2>1. k \in Keys /\ task[t].todo \subseteq 1..Len(reg)
      BY <1>2, <1>7 DEF FinishShape, RemoveShaped, TaskType
    <2>2. IpsOf(task[t].todo) \subseteq Ips
      BY <2>1, SetsOfRows
    <2>3. KeysType' /\ KernelType'
      BY <1>7, <2>1, <2>2 DEF FinishShape, RemoveShaped, KeysType, KernelType,
         keyVars, kernelVars, historyVars
    <2>4. TaskType'
      BY <1>1, <1>2, <1>7, FinishType DEF FinishShape, RemoveShaped
    <2> QED  BY <2>3, <2>4
  <1> QED  BY <1>1, <1>4, <1>5, <1>6, <1>7 DEF Accounting

LEMMA ProcessType ==
    ASSUME TypeInv, Process
    PROVE  TypeInv'
  <1> USE RegistryAssumption DEF TypeInv
  <1>1. RowsType' /\ reg' = reg
    BY DEF Process, Boot, Shutdown, PowerLoss, Kill, Stop, RowsType, rowVars
  <1>2. CASE Boot
    <2> DEFINE P  == ActiveRows
               ks == {reg[n].key : n \in P}
    <2>1. P \subseteq 1..Len(reg)
      BY DEF RowsType, ActiveRows
    <2>2. ks \subseteq Keys
      BY <2>1, RegistrationType
    <2>3. /\ Elems(P) \subseteq Macs \X Ips /\ KeyElems(P) \subseteq Keys \X Ips
      BY <2>1, SetsOfRows
    <2> DEFINE f == AddKeySets(AddAllocations(nft, Elems(P)), ks)
    <2>4. f \in Table
      BY <2>2, <2>3, AllocationsType, KeySetsType DEF KernelType
    <2>5. AddMatchingRules(AddKeyElems(f, KeyElems(P)), ks) \in Table
      BY <2>2, <2>3, <2>4, KeyElemsType, AddMatchingRulesType
    <2>6. nft' = AddMatchingRules(AddKeyElems(f, KeyElems(P)), ks)
      BY <1>2 DEF Boot
    <2> HIDE DEF f, ks, P
    <2>7. KernelType' /\ KeysType' /\ HistoryType'
      BY <1>2, <2>5, <2>6 DEF Boot, KernelType, KeysType, HistoryType, keyVars,
         rowVars, historyVars
    <2> QED  BY <1>1, <1>2, <2>7, SameTaskType DEF Boot
  <1>3. CASE Shutdown \/ PowerLoss \/ Kill
    <2>1. Stop
      BY <1>3 DEF Shutdown, PowerLoss, Kill
    <2>2. KernelType' /\ irregular' \subseteq Keys
      BY <1>3, EmptyTableType DEF Shutdown, PowerLoss, Kill, ClearKernel,
         KernelType, KeysType, kernelVars, Mark
    <2>3. KeysType'
      BY <2>1, <2>2 DEF Stop, KeysType, keyVars
    <2>4. torn' \subseteq 1..Len(reg)
      <3>1. \A u \in Threads : task[u].pc \in {"delIp", "delMac"} =>
                                  task[u].n \in 1..Len(reg)
        BY DEF TaskType, DevicePcs
      <3> QED  BY <2>1, <3>1 DEF Stop, HistoryType
    <2>5. HistoryType'
      BY <1>1, <2>1, <2>4 DEF Stop, HistoryType
    <2>6. TaskType'
      BY <1>1, <2>1 DEF Stop, TaskType, Task, Idle, Pcs, Ops, DevicePcs, KeyPcs,
         RowsType
    <2> QED  BY <1>1, <2>2, <2>3, <2>5, <2>6
  <1> QED  BY <1>2, <1>3 DEF Process

-----------------------------------------------------------------------------
\* The type invariant the other proofs rest on.
LEMMA TypeInvariant == Spec => []TypeInv
  <1>1. Init => TypeInv
    BY RegistryAssumption, EmptyTableType
       DEF Init, TypeInv, RowsType, KeysType, KernelType, TaskType, HistoryType,
           Task, Idle, Pcs, Ops, DevicePcs, KeyPcs
  <1>2. TypeInv /\ [Next]_vars => TypeInv'
    <2> SUFFICES ASSUME TypeInv, [Next]_vars
                 PROVE  TypeInv'
      OBVIOUS
    <2>0. {"rpc", "hk"} \subseteq Threads
      BY DEF Threads
    <2>1. CASE Rpc
      <3>1. ASSUME NEW k \in Keys, NEW m \in Macs, NEW i \in Ips,
                   RegisterCommit(k, m, i)
            PROVE  TypeInv'
        BY <3>1, RegisterType
      <3>2. ASSUME NEW k \in Keys,
                   BeginDeregisterAll(k) \/ BeginDelete("rpc", k)
            PROVE  TypeInv'
        BY <2>0, <3>2, BeginsType
      <3>3. ASSUME NEW k \in Keys, BeginActivate(k) \/ BeginDeactivate(k)
            PROVE  TypeInv'
        BY <3>3, KeyHandlersType
      <3>4. ASSUME NEW k \in Keys, AddKey(k) \/ SetCustomCredit(k)
            PROVE  TypeInv'
        BY <3>4, ColumnsType
      <3>5. ASSUME NEW n \in pairRows, BeginDeregister(n)
            PROVE  TypeInv'
        BY <3>5, BeginDeregisterType
      <3>6. ASSUME \/ Unlock("rpc") \/ CountDevices("rpc")
                   \/ SetupAccounting("rpc") \/ ShapeDevice("rpc")
            PROVE  TypeInv'
        BY <2>0, <3>6, RegisterStepsType
      <3>7. ASSUME SetupKey("rpc") \/ RelockAll("rpc") \/ CommitInactive("rpc")
            PROVE  TypeInv'
        BY <2>0, <3>7, KeyStepsType
      <3> QED  BY <2>1, <3>1, <3>2, <3>3, <3>4, <3>5, <3>6, <3>7 DEF Rpc
    <2>2. CASE Housekeeping
      BY <2>0, <2>2, BeginsType DEF Housekeeping
    <2>3. ASSUME NEW t \in {"rpc", "hk"}, Removal(t)
          PROVE  TypeInv'
      BY <2>0, <2>3, RowDeletionsType, RemovalKernelType, NextDeviceType,
         DeleteKeyStepsType DEF Removal
    <2>4. CASE Accounting
      BY <2>4, AccountingType
    <2>5. CASE Midnight
      BY <2>5, ColumnsType
    <2>6. CASE Process
      BY <2>6, ProcessType
    <2>7. CASE UNCHANGED vars
      BY <2>7 DEF vars, keyVars, rowVars, kernelVars, historyVars, TypeInv,
         RowsType, KeysType, KernelType, TaskType, HistoryType
    <2> QED  BY <2>1, <2>2, <2>3, <2>4, <2>5, <2>6, <2>7 DEF Next
  <1> QED  BY <1>1, <1>2, PTL DEF Spec

\* Every variable keeps its type, and a handler that works on a device or a
\* key knows which, in every reachable state (the whole of Registry).
THEOREM TypeCorrect == Spec => []TypeOK
  <1>1. TypeInv => TypeOK
    BY DEF TypeInv, TypeOK, RowsType, KeysType, KernelType, TaskType,
       HistoryType, Registration
  <1> QED  BY <1>1, TypeInvariant, PTL

-----------------------------------------------------------------------------
(* The database *)

DbInv == UniqueAddresses /\ PairsBacked /\ OrphansExplained

\* What almost every step leaves alone: the rows, that a key exists, and the
\* tasks that stand between two deletions of a device's rows.
QuietTask ==
    \A t \in Threads :
       \/ task'[t] = task[t]
       \/ /\ task[t].pc \notin {"delIp", "delMac"}
          /\ task'[t].pc \notin {"delIp", "delMac"}

Quiet ==
    /\ UNCHANGED rowVars /\ torn' = torn
    /\ \A n \in pairRows : Exists(reg[n].key) => Exists(reg[n].key)'
    /\ QuietTask

LEMMA QuietStep ==
    ASSUME TypeInv, DbInv, Quiet
    PROVE  DbInv'
  <1>1. UniqueAddresses'
    BY DEF DbInv, UniqueAddresses, Quiet, rowVars
  <1>2. PairsBacked'
    <2>1. pairRows' \subseteq ipRows' \cap macRows'
      BY DEF DbInv, PairsBacked, Quiet, rowVars
    <2>2. \A n \in pairRows' : Exists(reg[n].key)'
      BY DEF DbInv, PairsBacked, Quiet, rowVars
    <2>3. \A t \in Threads : task'[t].pc \in {"delIp", "delMac"} =>
                                task'[t].n \notin pairRows'
      BY DEF DbInv, PairsBacked, Quiet, QuietTask, rowVars
    <2> QED  BY <2>1, <2>2, <2>3 DEF PairsBacked
  <1>3. \A n, pc : pc \in {"delIp", "delMac"} /\ Removing(n, pc)
                      => Removing(n, pc)'
    BY DEF Removing, Quiet, QuietTask
  <1>4. OrphansExplained'
    BY <1>3 DEF DbInv, OrphansExplained, Quiet, rowVars
  <1> QED  BY <1>1, <1>2, <1>4 DEF DbInv

LEMMA QuietMoves ==
    ASSUME TypeInv, NEW t \in Threads,
           task[t].pc \notin {"delIp", "delMac"},
           \/ task' = task
           \/ Finish(t)
           \/ \E pc \in Pcs \ {"delIp", "delMac"} : Goto(t, pc)
           \/ \E pc \in Pcs \ {"delIp", "delMac"} : \E op, k, n, todo :
                 Begin(t, pc, op, k, n, todo)
    PROVE  QuietTask
  <1>1. task \in [Threads -> Task]
    BY DEF TypeInv, TaskType
  <1>2. ASSUME NEW r, task' = [task EXCEPT ![t] = r],
               r.pc \notin {"delIp", "delMac"}
        PROVE  QuietTask
    <2>1. ASSUME NEW u \in Threads
          PROVE  task'[u] = IF u = t THEN r ELSE task[u]
      BY <1>1, <1>2
    <2> QED  BY <1>2, <2>1 DEF QuietTask
  <1>3. CASE task' = task
    BY <1>3 DEF QuietTask
  <1>4. CASE Finish(t)
    <2>1. Idle.pc \notin {"delIp", "delMac"}
      BY DEF Idle
    <2> QED  BY <1>2, <1>4, <2>1 DEF Finish
  <1>5. ASSUME NEW pc \in Pcs \ {"delIp", "delMac"}, Goto(t, pc)
        PROVE  QuietTask
    <2> DEFINE r == [task[t] EXCEPT !.pc = pc]
    <2>1. r.pc = pc
      BY <1>1 DEF Task
    <2>2. task' = [task EXCEPT ![t] = r]
      BY <1>5 DEF Goto
    <2> HIDE DEF r
    <2> QED  BY <1>2, <2>1, <2>2
  <1>6. ASSUME NEW pc \in Pcs \ {"delIp", "delMac"}, NEW op, NEW k, NEW n,
               NEW todo, Begin(t, pc, op, k, n, todo)
        PROVE  QuietTask
    <2> DEFINE r == [pc |-> pc, op |-> op, key |-> k, n |-> n, todo |-> todo]
    <2>1. r.pc = pc /\ task' = [task EXCEPT ![t] = r]
      BY <1>6 DEF Begin
    <2> HIDE DEF r
    <2> QED  BY <1>2, <2>1
  <1> QED  BY <1>3, <1>4, <1>5, <1>6

LEMMA LoadDeviceQuiet ==
    ASSUME TypeInv, NEW t \in Threads, NEW op, NEW n, NEW todo, NEW marked,
           task[t].pc \notin {"delIp", "delMac"},
           LoadDevice(t, op, n, todo, marked)
    PROVE  QuietTask
  <1>1. \/ Begin(t, "relock", op, reg[n].key, n, todo)
        \/ Begin(t, "delPair", op, reg[n].key, n, todo)
    BY DEF LoadDevice
  <1>2. {"relock", "delPair"} \subseteq Pcs \ {"delIp", "delMac"}
    BY DEF Pcs, DevicePcs
  <1> QED  BY <1>1, <1>2, QuietMoves

LEMMA RegisterDb ==
    ASSUME TypeInv, DbInv, NEW k \in Keys, NEW m \in Macs, NEW i \in Ips,
           RegisterCommit(k, m, i)
    PROVE  DbInv'
  <1> DEFINE n == Len(reg) + 1
             d == [key |-> k, mac |-> m, ip |-> i]
  <1>1. /\ Len(reg) \in Nat /\ n \notin 1..Len(reg)
        /\ ipRows \subseteq 1..Len(reg) /\ macRows \subseteq 1..Len(reg)
        /\ pairRows \subseteq 1..Len(reg)
    BY DEF TypeInv, RowsType
  <1>2. /\ reg'[n] = d
        /\ \A a \in 1..Len(reg) : reg'[a] = reg[a]
    BY DEF RegisterCommit, TypeInv, RowsType
  <1>3. /\ pairRows' = pairRows \cup {n}
        /\ ipRows'   = ipRows \cup {n}
        /\ macRows'  = macRows \cup {n}
        /\ keyState' = keyState /\ torn' = torn /\ Exists(k)
        /\ \A a \in ipRows : reg[a].ip # i
        /\ \A a \in macRows : reg[a].mac # m
    BY DEF RegisterCommit, Unused, keyVars
  <1>4. Begin("rpc", "unlock", "register", k, n, {}) /\ task["rpc"].pc = "idle"
    BY DEF RegisterCommit, IsIdle
  <1>5. QuietTask
    BY <1>4, QuietMoves DEF Pcs, DevicePcs, Threads
  <1>6. \A t \in Threads : task[t].n # n
    BY <1>1 DEF TypeInv, TaskType, Task
  <1> HIDE DEF n
  <1>7. UniqueAddresses'
    <2>1. ASSUME NEW a \in ipRows', NEW b \in ipRows', reg'[a].ip = reg'[b].ip
          PROVE  a = b
      <3>1. CASE a \in ipRows /\ b \in ipRows
        BY <1>1, <1>2, <2>1, <3>1 DEF DbInv, UniqueAddresses
      <3>2. CASE a = n \/ b = n
        BY <1>1, <1>2, <1>3, <2>1, <3>2
      <3> QED  BY <1>3, <3>1, <3>2
    <2>2. ASSUME NEW a \in macRows', NEW b \in macRows',
                 reg'[a].mac = reg'[b].mac
          PROVE  a = b
      <3>1. CASE a \in macRows /\ b \in macRows
        BY <1>1, <1>2, <2>2, <3>1 DEF DbInv, UniqueAddresses
      <3>2. CASE a = n \/ b = n
        BY <1>1, <1>2, <1>3, <2>2, <3>2
      <3> QED  BY <1>3, <3>1, <3>2
    <2> QED  BY <2>1, <2>2 DEF UniqueAddresses
  <1>8. PairsBacked'
    <2>1. pairRows' \subseteq ipRows' \cap macRows'
      BY <1>3 DEF DbInv, PairsBacked
    <2>2. ASSUME NEW a \in pairRows'
          PROVE  Exists(reg[a].key)'
      <3>1. CASE a \in pairRows
        BY <1>1, <1>2, <1>3, <3>1 DEF DbInv, PairsBacked, Exists
      <3>2. CASE a = n
        BY <1>2, <1>3, <3>2 DEF Exists
      <3> QED  BY <1>3, <3>1, <3>2
    <2>3. ASSUME NEW t \in Threads, task'[t].pc \in {"delIp", "delMac"}
          PROVE  task'[t].n \notin pairRows'
      <3>1. task'[t] = task[t]
        BY <1>5, <2>3 DEF QuietTask
      <3> QED  BY <1>3, <1>6, <2>3, <3>1 DEF DbInv, PairsBacked
    <2> QED  BY <2>1, <2>2, <2>3 DEF PairsBacked
  <1>9. OrphansExplained'
    <2>1. \A a, pc : pc \in {"delIp", "delMac"} /\ Removing(a, pc)
                        => Removing(a, pc)'
      BY <1>5 DEF Removing, QuietTask
    <2> QED  BY <1>3, <2>1 DEF DbInv, OrphansExplained
  <1> QED  BY <1>7, <1>8, <1>9 DEF DbInv

\* The heart of the matter: three commits, in any interleaving with another
\* thread that removes the same device.
LEMMA RowDeletionsDb ==
    ASSUME TypeInv, DbInv, NEW t \in Threads,
           DeletePair(t) \/ DeleteIp(t) \/ DeleteMac(t)
    PROVE  DbInv'
  <1> DEFINE n == task[t].n
  <1>1. /\ reg' = reg /\ keyState' = keyState /\ torn' = torn
        /\ pairRows' \subseteq pairRows /\ ipRows' \subseteq ipRows
        /\ macRows' \subseteq macRows
    BY DEF DeletePair, DeleteIp, DeleteMac, keyVars, historyVars
  <1>2. UniqueAddresses'
    BY <1>1 DEF DbInv, UniqueAddresses
  <1>3. \A k : Exists(k)' <=> Exists(k)
    BY <1>1 DEF Exists
  <1>4. \A n_1 \in pairRows' : Exists(reg[n_1].key)'
    BY <1>1, <1>3 DEF DbInv, PairsBacked
  <1>5. \A u \in Threads : u # t => task'[u] = task[u]
    BY DEF DeletePair, DeleteIp, DeleteMac, Goto, TypeInv, TaskType
  <1>6. CASE DeletePair(t)
    <2>1. /\ task'[t].pc = "delIp" /\ task'[t].n = n /\ task[t].pc = "delPair"
          /\ pairRows' = pairRows \ {n} /\ ipRows' = ipRows /\ macRows' = macRows
      BY <1>6 DEF DeletePair, Goto, TypeInv, TaskType, Task
    <2>2. PairsBacked'
      BY <1>4, <1>5, <2>1 DEF DbInv, PairsBacked
    <2>3. \A a, pc : pc \in {"delIp", "delMac"} /\ Removing(a, pc)
                        => Removing(a, pc)'
      BY <1>5, <2>1 DEF Removing
    <2>4. Removing(n, "delIp")'
      BY <2>1 DEF Removing
    <2>5. OrphansExplained'
      BY <1>1, <2>1, <2>3, <2>4 DEF DbInv, OrphansExplained
    <2> QED  BY <1>2, <2>2, <2>5 DEF DbInv
  <1>7. CASE DeleteIp(t)
    <2>1. /\ task'[t].pc = IF n \in ipRows THEN "delMac" ELSE "relock"
          /\ task'[t].n = n /\ task[t].pc = "delIp"
          /\ ipRows' = ipRows \ {n} /\ pairRows' = pairRows /\ macRows' = macRows
      BY <1>7 DEF DeleteIp, Goto, TypeInv, TaskType, Task
    <2>2. n \notin pairRows
      BY <2>1 DEF DbInv, PairsBacked
    <2>3. PairsBacked'
      BY <1>4, <1>5, <2>1, <2>2 DEF DbInv, PairsBacked
    <2>4. \A a : Removing(a, "delMac") => Removing(a, "delMac")'
      BY <1>5, <2>1 DEF Removing
    <2>5. \A a : a # n /\ Removing(a, "delIp") => Removing(a, "delIp")'
      BY <1>5, <2>1 DEF Removing
    <2>6. n \in ipRows => Removing(n, "delMac")'
      BY <2>1 DEF Removing
    <2>7. OrphansExplained'
      BY <1>1, <2>1, <2>4, <2>5, <2>6 DEF DbInv, OrphansExplained
    <2> QED  BY <1>2, <2>3, <2>7 DEF DbInv
  <1>8. CASE DeleteMac(t)
    <2>1. /\ task'[t].pc \in {"unaccount", "relock"}
          /\ task'[t].n = n /\ task[t].pc = "delMac"
          /\ macRows' = macRows \ {n} /\ pairRows' = pairRows /\ ipRows' = ipRows
      BY <1>8 DEF DeleteMac, Goto, TypeInv, TaskType, Task
    <2>2. n \notin pairRows
      BY <2>1 DEF DbInv, PairsBacked
    <2>3. PairsBacked'
      BY <1>4, <1>5, <2>1, <2>2 DEF DbInv, PairsBacked
    <2>4. \A a : Removing(a, "delIp") => Removing(a, "delIp")'
      BY <1>5, <2>1 DEF Removing
    <2>5. \A a : a # n /\ Removing(a, "delMac") => Removing(a, "delMac")'
      BY <1>5, <2>1 DEF Removing
    <2>6. OrphansExplained'
      BY <1>1, <2>1, <2>4, <2>5 DEF DbInv, OrphansExplained
    <2> QED  BY <1>2, <2>3, <2>6 DEF DbInv
  <1> QED  BY <1>6, <1>7, <1>8

LEMMA StopDb ==
    ASSUME TypeInv, DbInv, Stop
    PROVE  DbInv'
  <1>1. /\ UNCHANGED rowVars /\ keyState' = keyState /\ torn \subseteq torn'
        /\ \A t \in Threads : task'[t].pc = "idle"
        /\ \A a, pc : pc \in {"delIp", "delMac"} /\ Removing(a, pc)
                         => a \in torn'
    BY DEF Stop, keyVars, Idle, Removing
  <1>2. UniqueAddresses'
    BY <1>1 DEF DbInv, UniqueAddresses, rowVars
  <1>3. PairsBacked'
    BY <1>1 DEF DbInv, PairsBacked, Exists, rowVars
  <1>4. OrphansExplained'
    BY <1>1 DEF DbInv, OrphansExplained, rowVars
  <1> QED  BY <1>2, <1>3, <1>4 DEF DbInv

LEMMA DeleteKeyRowDb ==
    ASSUME TypeInv, DbInv, NEW t \in Threads, DeleteKeyRow(t)
    PROVE  DbInv'
  <1>1. "delKey" \notin {"delIp", "delMac"} /\ task[t].pc = "delKey"
    BY DEF DeleteKeyRow
  <1>2. QuietTask
    BY <1>1, QuietMoves DEF DeleteKeyRow
  <1>3. ASSUME NEW n \in pairRows, Exists(reg[n].key)
        PROVE  Exists(reg[n].key)'
    <2>1. reg' = reg
      BY DEF DeleteKeyRow, rowVars
    <2>2. CASE keyState' = keyState
      BY <1>3, <2>1, <2>2 DEF Exists
    <2>3. CASE /\ PairsOf(task[t].key) = {}
               /\ keyState' = [keyState EXCEPT ![task[t].key] = "deleted"]
      <3>1. reg[n].key # task[t].key
        BY <2>3 DEF PairsOf
      <3> QED  BY <1>3, <2>1, <2>3, <3>1 DEF Exists, TypeInv, KeysType
    <2> QED  BY <2>2, <2>3 DEF DeleteKeyRow, Unreferenced
  <1>4. Quiet
    BY <1>2, <1>3 DEF DeleteKeyRow, Quiet, historyVars
  <1> QED  BY <1>4, QuietStep

\* Handlers that leave every row and every key's existence alone: they differ
\* in how their task moves on.
LEMMA KeyKept ==
    ASSUME TypeInv, UNCHANGED rowVars,
           \/ keyState' = keyState
           \/ \E k \in Keys, s \in {"active", "inactive"} :
                 keyState' = [keyState EXCEPT ![k] = s]
    PROVE  \A n \in pairRows : Exists(reg[n].key) => Exists(reg[n].key)'
  <1> SUFFICES ASSUME NEW n \in pairRows, Exists(reg[n].key)
               PROVE  Exists(reg[n].key)'
    OBVIOUS
  <1> DEFINE j == reg[n].key
  <1>1. reg' = reg /\ j' = j
    BY DEF rowVars
  <1>2. j \in Keys
    BY RegistrationType DEF TypeInv, RowsType
  <1>3. keyState'[j] \in {"active", "inactive"}
    BY <1>2 DEF TypeInv, KeysType, Exists
  <1> QED  BY <1>1, <1>3 DEF Exists

LEMMA RegisterStepsQuiet ==
    ASSUME TypeInv, NEW t \in Threads,
           Unlock(t) \/ CountDevices(t) \/ SetupAccounting(t) \/ ShapeDevice(t)
    PROVE  Quiet
  <1>1. /\ UNCHANGED rowVars /\ torn' = torn /\ keyState' = keyState
        /\ task[t].pc \notin {"delIp", "delMac"}
    BY DEF Unlock, CountDevices, SetupAccounting, ShapeDevice, keyVars,
           rowVars, historyVars
  <1>2. \/ Finish(t)
        \/ \E pc \in {"count", "setup", "addIp", "shapeDevice"} : Goto(t, pc)
    BY DEF Unlock, CountDevices, SetupAccounting, ShapeDevice
  <1>3. {"count", "setup", "addIp", "shapeDevice"} \subseteq Pcs \ {"delIp", "delMac"}
    BY DEF Pcs, DevicePcs
  <1>4. QuietTask
    BY <1>1, <1>2, <1>3, QuietMoves
  <1> QED  BY <1>1, <1>4, KeyKept DEF Quiet

LEMMA KeyHandlersQuiet ==
    ASSUME TypeInv, NEW k \in Keys, BeginActivate(k) \/ BeginDeactivate(k)
    PROVE  Quiet
  <1>1. /\ UNCHANGED rowVars /\ torn' = torn
        /\ \/ keyState' = keyState
           \/ keyState' = [keyState EXCEPT ![k] = "active"]
        /\ task["rpc"].pc = "idle"
    BY DEF BeginActivate, BeginDeactivate, keyVars, IsIdle
  <1>2. \/ Begin("rpc", "setupKey", "activate", k, 0, {})
        \/ Begin("rpc", "relockAll", "deactivate", k, 0, PairsOf(k))
    BY DEF BeginActivate, BeginDeactivate
  <1>3. /\ {"setupKey", "relockAll"} \subseteq Pcs \ {"delIp", "delMac"}
        /\ "rpc" \in Threads
    BY DEF Pcs, KeyPcs, Threads
  <1>4. QuietTask
    BY <1>1, <1>2, <1>3, QuietMoves
  <1> QED  BY <1>1, <1>4, KeyKept DEF Quiet

LEMMA KeyStepsQuiet ==
    ASSUME TypeInv, NEW t \in Threads,
           SetupKey(t) \/ RelockAll(t) \/ CommitInactive(t)
    PROVE  Quiet
  <1>1. /\ UNCHANGED rowVars /\ torn' = torn
        /\ task[t].pc \in {"setupKey", "relockAll", "commitInactive"}
        /\ \/ keyState' = keyState
           \/ keyState' = [keyState EXCEPT ![task[t].key] = "inactive"]
    BY DEF SetupKey, RelockAll, CommitInactive, keyVars, historyVars
  <1>2. task[t].key \in Keys
    BY <1>1 DEF TypeInv, TaskType
  <1>3. Finish(t) \/ Goto(t, "commitInactive")
    BY DEF SetupKey, RelockAll, CommitInactive
  <1>4. "commitInactive" \in Pcs \ {"delIp", "delMac"}
    BY DEF Pcs, KeyPcs
  <1>5. QuietTask
    BY <1>1, <1>3, <1>4, QuietMoves
  <1> QED  BY <1>1, <1>2, <1>5, KeyKept DEF Quiet

LEMMA ColumnsQuiet ==
    ASSUME TypeInv,
           \/ \E k \in Keys : AddKey(k) \/ SetCustomCredit(k)
           \/ Midnight
    PROVE  Quiet
  <1>1. /\ UNCHANGED rowVars /\ torn' = torn /\ task' = task
        /\ \/ keyState' = keyState
           \/ \E k \in Keys : keyState' = [keyState EXCEPT ![k] = "active"]
    BY DEF AddKey, SetCustomCredit, Midnight, historyVars
  <1> QED  BY <1>1, KeyKept DEF Quiet, QuietTask

\* A removal begins: BeginRemoval, or a deletion of a key without devices.
LEMMA BeginsQuiet ==
    ASSUME TypeInv, NEW t \in Threads, NEW k \in Keys,
           \/ t = "rpc" /\ BeginDeregisterAll(k)
           \/ BeginDelete(t, k)
           \/ t = "hk" /\ BeginMove(k)
    PROVE  Quiet
  <1>1. /\ UNCHANGED rowVars /\ torn' = torn /\ keyState' = keyState
        /\ task[t].pc \notin {"delIp", "delMac"}
    BY DEF BeginDeregisterAll, BeginDelete, BeginMove, keyVars, IsIdle
  <1>2. QuietTask
    <2>1. CASE Begin(t, "delTraffic", "delete", k, 0, {})
      <3>1. "delTraffic" \in Pcs \ {"delIp", "delMac"}
        BY DEF Pcs, KeyPcs
      <3> QED  BY <1>1, <2>1, <3>1, QuietMoves
    <2>2. ASSUME NEW op, BeginRemoval(t, op, k)
          PROVE  QuietTask
      BY <1>1, <2>2, LoadDeviceQuiet DEF BeginRemoval
    <2> QED  BY <2>1, <2>2 DEF BeginDeregisterAll, BeginDelete, BeginMove
  <1> QED  BY <1>1, <1>2, KeyKept DEF Quiet

LEMMA BeginDeregisterQuiet ==
    ASSUME TypeInv, NEW n \in pairRows, BeginDeregister(n)
    PROVE  Quiet
  <1>1. /\ UNCHANGED rowVars /\ torn' = torn /\ keyState' = keyState
        /\ task["rpc"].pc \notin {"delIp", "delMac"} /\ "rpc" \in Threads
    BY DEF BeginDeregister, keyVars, IsIdle, Threads
  <1>2. QuietTask
    BY <1>1, LoadDeviceQuiet DEF BeginDeregister
  <1> QED  BY <1>1, <1>2, KeyKept DEF Quiet

LEMMA RemovalQuiet ==
    ASSUME TypeInv, NEW t \in Threads,
           \/ Unaccount(t) \/ Teardown(t) \/ Relock(t) \/ NextDevice(t)
           \/ DeleteTraffic(t)
    PROVE  Quiet
  <1>1. /\ UNCHANGED rowVars /\ torn' = torn /\ keyState' = keyState
        /\ task[t].pc \notin {"delIp", "delMac"}
    BY DEF Unaccount, Teardown, Relock, NextDevice, DeleteTraffic, keyVars,
           rowVars, historyVars
  <1>2. \/ Finish(t)
        \/ \E pc \in {"relock", "teardown", "delTraffic", "next", "delKey"} :
              Goto(t, pc)
        \/ \E n \in task[t].todo :
              LoadDevice(t, task[t].op, n, task[t].todo \ {n}, {})
    BY DEF Unaccount, Teardown, Relock, NextDevice, DeleteTraffic
  <1>3. {"relock", "teardown", "delTraffic", "next", "delKey"}
           \subseteq Pcs \ {"delIp", "delMac"}
    BY DEF Pcs, DevicePcs, KeyPcs
  <1>4. QuietTask
    BY <1>1, <1>2, <1>3, QuietMoves, LoadDeviceQuiet
  <1> QED  BY <1>1, <1>4, KeyKept DEF Quiet

LEMMA AccountingQuiet ==
    ASSUME TypeInv, Accounting
    PROVE  Quiet
  <1> DEFINE t  == "acct"
             ps == {"beginShape", "finishShape", "beginUnshape",
                    "removeShaped"}
  <1>1. UNCHANGED rowVars /\ torn' = torn /\ keyState' = keyState
    BY DEF Accounting, NewTrafficRow, ReadToShape, BeginShape, ReadToUnshape,
           BeginUnshape, FinishShape, RemoveShaped, keyVars, rowVars,
           historyVars
  <1>2. task' = task \/ task[t].pc \in ps \cup {"idle"}
    BY DEF Accounting, NewTrafficRow, ReadToShape, BeginShape, ReadToUnshape,
           BeginUnshape, FinishShape, RemoveShaped, Counted, IsIdle
  <1>3. \/ task' = task
        \/ Finish(t)
        \/ Goto(t, "removeShaped")
        \/ \E pc \in ps : \E op, k, n, todo : Begin(t, pc, op, k, n, todo)
    BY DEF Accounting, NewTrafficRow, ReadToShape, BeginShape, ReadToUnshape,
           BeginUnshape, FinishShape, RemoveShaped
  <1>4. /\ ps \subseteq Pcs \ {"delIp", "delMac"}
        /\ "removeShaped" \in ps
        /\ t \in Threads
    BY DEF Pcs, KeyPcs, Threads
  <1>5. QuietTask
    <2>1. CASE task' = task
      BY <2>1 DEF QuietTask
    <2>2. CASE task' # task
      <3>1. task[t].pc \notin {"delIp", "delMac"}
        BY <1>2, <2>2
      <3> HIDE DEF ps, t
      <3> QED  BY <1>3, <1>4, <2>2, <3>1, QuietMoves
    <2> QED  BY <2>1, <2>2
  <1> QED  BY <1>1, <1>5, KeyKept DEF Quiet

LEMMA BootQuiet ==
    ASSUME TypeInv, Boot
    PROVE  Quiet
  <1>1. /\ UNCHANGED rowVars /\ torn' = torn /\ task' = task
        /\ keyState' = keyState
    BY DEF Boot, keyVars, rowVars, historyVars
  <1> QED  BY <1>1, KeyKept DEF Quiet, QuietTask

LEMMA StutterQuiet ==
    ASSUME TypeInv, UNCHANGED vars
    PROVE  Quiet
  <1>1. /\ UNCHANGED rowVars /\ torn' = torn /\ task' = task
        /\ keyState' = keyState
    BY DEF vars, keyVars, historyVars
  <1> QED  BY <1>1, KeyKept DEF Quiet, QuietTask

-----------------------------------------------------------------------------
\* Registrations in the database never share an address, a pair always has its
\* address, its hardware address and its key, and a row without its pair is
\* one a removal is about to delete or a stop left behind: after every step of
\* every thread and every stop (register_device, deregister_device,
\* delete_registration_key).
THEOREM DatabaseIntegrity ==
    Spec => [](UniqueAddresses /\ PairsBacked /\ OrphansExplained)
  <1>1. Init => DbInv
    BY DEF Init, DbInv, UniqueAddresses, PairsBacked, OrphansExplained, Idle
  <1>2. TypeInv /\ DbInv /\ [Next]_vars => DbInv'
    <2> SUFFICES ASSUME TypeInv, DbInv, [Next]_vars
                 PROVE  DbInv'
      OBVIOUS
    <2>0. /\ {"rpc", "hk"} \subseteq Threads
          /\ pairRows \subseteq 1..Len(reg)
      BY DEF Threads, TypeInv, RowsType
    <2>1. CASE Rpc
      <3>1. ASSUME NEW k \in Keys, NEW m \in Macs, NEW i \in Ips,
                   RegisterCommit(k, m, i)
            PROVE  DbInv'
        BY <3>1, RegisterDb
      <3>2. ASSUME NEW k \in Keys,
                   BeginDeregisterAll(k) \/ BeginDelete("rpc", k)
            PROVE  DbInv'
        BY <2>0, <3>2, BeginsQuiet, QuietStep
      <3>3. ASSUME NEW k \in Keys, BeginActivate(k) \/ BeginDeactivate(k)
            PROVE  DbInv'
        BY <3>3, KeyHandlersQuiet, QuietStep
      <3>4. ASSUME NEW k \in Keys, AddKey(k) \/ SetCustomCredit(k)
            PROVE  DbInv'
        BY <3>4, ColumnsQuiet, QuietStep
      <3>5. ASSUME NEW n \in pairRows, BeginDeregister(n)
            PROVE  DbInv'
        BY <3>5, BeginDeregisterQuiet, QuietStep
      <3>6. ASSUME \/ Unlock("rpc") \/ CountDevices("rpc")
                   \/ SetupAccounting("rpc") \/ ShapeDevice("rpc")
            PROVE  DbInv'
        BY <2>0, <3>6, RegisterStepsQuiet, QuietStep
      <3>7. ASSUME SetupKey("rpc") \/ RelockAll("rpc") \/ CommitInactive("rpc")
            PROVE  DbInv'
        BY <2>0, <3>7, KeyStepsQuiet, QuietStep
      <3> QED  BY <2>1, <3>1, <3>2, <3>3, <3>4, <3>5, <3>6, <3>7 DEF Rpc
    <2>2. CASE Housekeeping
      BY <2>0, <2>2, BeginsQuiet, QuietStep DEF Housekeeping
    <2>3. ASSUME NEW t \in {"rpc", "hk"}, Removal(t)
          PROVE  DbInv'
      BY <2>0, <2>3, RowDeletionsDb, RemovalQuiet, DeleteKeyRowDb, QuietStep
         DEF Removal
    <2>4. CASE Accounting
      BY <2>4, AccountingQuiet, QuietStep
    <2>5. CASE Midnight
      BY <2>5, ColumnsQuiet, QuietStep
    <2>6. CASE Process
      BY <2>6, BootQuiet, QuietStep, StopDb
         DEF Process, Shutdown, PowerLoss, Kill
    <2>7. CASE UNCHANGED vars
      BY <2>7, StutterQuiet, QuietStep
    <2> QED  BY <2>1, <2>2, <2>3, <2>4, <2>5, <2>6, <2>7 DEF Next
  <1>3. Spec => []TypeInv
    BY TypeInvariant
  <1> QED  BY <1>1, <1>2, <1>3, PTL DEF Spec, DbInv

=============================================================================
