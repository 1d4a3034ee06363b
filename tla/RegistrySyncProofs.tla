-------------------------- MODULE RegistrySyncProofs --------------------------
(***************************************************************************)
(* Proofs about Registry: the packet filter, the counters and the shaping  *)
(* filters agree with the database for every settled key, whichever        *)
(* handlers interleave and wherever the process stops.                     *)
(*                                                                         *)
(* The invariant says, for every regular key, that at most one thread      *)
(* works on it, and what the kernel holds of it at each step of that       *)
(* thread's handler (KeyInv).  A handler of another key leaves all of this *)
(* alone because it touches only the addresses of registrations it owns    *)
(* (OwnersInv), and no two devices in the database share an address.       *)
(***************************************************************************)
EXTENDS RegistryProofs, FiniteSetTheorems

-----------------------------------------------------------------------------
(* What the kernel holds of a key *)

\* The captive portal lets all devices of S through, or none of them.
Passed(S, b) == \A n \in S : Elem(n) \in nft.registered <=> b

\* All devices of S have filters, or none of them has.
Slowed(S, b) == \A n \in S : reg[n].ip \in filters <=> b

\* The traffic of the devices of S is counted for the key, once.
Counts(k, S) ==
    /\ nft.rules[k] = IF S = {} THEN 0 ELSE 1
    /\ k \in nft.sets <=> S # {}
    /\ k \in nft.counters <=> S # {}
    /\ {e \in nft.elems : e[1] = k} = KeyElems(S)

Open(k) == keyState[k] = "active"

Slow(k) == Open(k) /\ k \in shaped

Due(k, S) == IF Open(k) THEN S ELSE {}

\* The state of a key nobody works on.
Rest(k) ==
    /\ Passed(PairsOf(k), Open(k))
    /\ Slowed(PairsOf(k), Slow(k))
    /\ Counts(k, Due(k, PairsOf(k)))

Bare(k) ==
    /\ Passed(PairsOf(k), FALSE)
    /\ Slowed(PairsOf(k), FALSE)
    /\ Counts(k, {})

-----------------------------------------------------------------------------
(* The state of a key while a thread works on it *)

Working(t, k) ==
    task[t].key = k /\ task[t].pc \notin {"idle", "beginShape", "beginUnshape"}

RegisterPcs == {"unlock", "count", "setup", "addIp", "shapeDevice"}
RemovalPcs == {"delIp", "delMac", "unaccount", "teardown", "relock"}
BetweenPcs == {"next", "delTraffic", "delKey"}

RegisterOK(t, k) ==
    task[t].pc \in RegisterPcs =>
    /\ task[t].n \in PairsOf(k) /\ Open(k)
    /\ Passed(IF task[t].pc = "unlock" THEN PairsOf(k) \ {task[t].n}
              ELSE PairsOf(k), TRUE)
    /\ Slowed(PairsOf(k) \ {task[t].n}, k \in shaped)
    /\ reg[task[t].n].ip \notin filters
    /\ Counts(k, IF task[t].pc = "shapeDevice" THEN PairsOf(k)
                 ELSE PairsOf(k) \ {task[t].n})
    /\ task[t].pc = "setup" => PairsOf(k) = {task[t].n}
    /\ task[t].pc = "addIp" => PairsOf(k) # {task[t].n}

RemovalOK(t, k) ==
    /\ task[t].pc \in {"delPair"} \cup BetweenPcs \cup RemovalPcs =>
          Passed(PairsOf(k), Open(k)) /\ Exists(k)
    /\ task[t].pc \in {"delPair", "relock"} \cup BetweenPcs =>
          Counts(k, Due(k, PairsOf(k)))
    /\ task[t].pc = "delPair" =>
          /\ task[t].n \in PairsOf(k) /\ reg[task[t].n].ip \notin filters
          /\ Slowed(PairsOf(k) \ {task[t].n}, Slow(k))
    /\ task[t].pc \in BetweenPcs \cup RemovalPcs => Slowed(PairsOf(k), Slow(k))
    /\ task[t].pc = "delIp" => task[t].n \in ipRows
    /\ task[t].pc \in {"delIp", "delMac"} => task[t].n \in macRows
    /\ task[t].pc \in {"delIp", "delMac", "unaccount"} =>
          Counts(k, Due(k, PairsOf(k) \cup {task[t].n}))
    /\ task[t].pc = "teardown" =>
          PairsOf(k) = {} /\ {e \in nft.elems : e[1] = k} = {}
    /\ task[t].pc \in RemovalPcs /\ task[t].n \in PairsOf(k) =>
          task[t].pc = "relock" /\ ~Open(k)

KeyOK(t, k) ==
    /\ task[t].pc = "setupKey" =>
          Open(k) /\ Slowed(PairsOf(k), FALSE) /\ Counts(k, {})
    /\ task[t].pc = "relockAll" =>
          /\ task[t].todo = PairsOf(k)
          /\ Passed(PairsOf(k), Open(k)) /\ Slowed(PairsOf(k), Slow(k))
          /\ Counts(k, {})
    /\ task[t].pc = "commitInactive" => Bare(k)

ShapeOK(t, k) ==
    task[t].pc \in {"finishShape", "removeShaped"} =>
    /\ task[t].todo = PairsOf(k) /\ Open(k)
    /\ Passed(PairsOf(k), TRUE) /\ Slowed(PairsOf(k), FALSE)
    /\ Counts(k, PairsOf(k))
    /\ k \in shaped <=> task[t].pc = "removeShaped"

Stage(t, k) == RegisterOK(t, k) /\ RemovalOK(t, k) /\ KeyOK(t, k) /\ ShapeOK(t, k)

KeyInv(k) ==
    \/ k \in irregular
    \/ /\ \A t \in Threads : ~Working(t, k)
       /\ IF status = "up" THEN Rest(k) ELSE Bare(k)
    \/ \E t \in Threads :
          /\ Working(t, k) /\ \A u \in Threads : Working(u, k) => u = t
          /\ Stage(t, k)

KeysInv == \A k \in Keys : KeyInv(k)

-----------------------------------------------------------------------------
(* The rest of the invariant *)

\* A handler's registrations are its key's, and its key has been there.
TaskOK(t) ==
    /\ \A m \in task[t].todo \cup {task[t].n} : m # 0 => reg[m].key = task[t].key
    /\ task[t].pc # "idle" => keyState[task[t].key] # "none"
    /\ task[t].pc \in {"beginShape", "beginUnshape"} => t = "acct" /\ task[t].n = 0
    /\ task[t].pc = "beginShape" => task[t].key \notin shaped
    /\ task[t].pc = "beginUnshape" => task[t].key \in shaped
    /\ task[t].op = "deregister" => task[t].pc \in {"delPair"} \cup RemovalPcs

TasksInv == \A t \in Threads : TaskOK(t)

\* Whoever has the address of a registration that a handler works on has it
\* irregularly.
Owns(m) ==
    \A p \in pairRows : p # m /\ reg[p].ip = reg[m].ip => reg[p].key \in irregular

OwnersOK(t) ==
    task[t].pc \notin {"idle", "beginShape", "beginUnshape"} =>
       \A m \in task[t].todo \cup {task[t].n} : m # 0 => Owns(m)

OwnersInv == \A t \in Threads : OwnersOK(t)

\* Why the captive portal lets an element through.
PassWitness(n) ==
    \/ reg[n].key \in irregular
    \/ Live(n)
    \/ \E t \in Threads : task[t].n = n /\ task[t].pc \in RemovalPcs

PassInv ==
    \A e \in nft.registered : \E n \in 1..Len(reg) : Elem(n) = e /\ PassWitness(n)

\* Why an address has filters.
FilterWitness(n) == reg[n].key \in irregular \/ (Live(n) /\ reg[n].key \in shaped)

FilterInv ==
    \A i \in filters : \E n \in 1..Len(reg) : reg[n].ip = i /\ FilterWitness(n)

LifeInv ==
    /\ \A n \in 1..Len(reg) : keyState[reg[n].key] # "none"
    /\ status = "down" => shaped = {} /\ \A t \in Threads : IsIdle(t)

SyncInv == KeysInv /\ TasksInv /\ OwnersInv /\ PassInv /\ FilterInv /\ LifeInv

-----------------------------------------------------------------------------
(* What the commands do to the parts of the kernel's table *)

LEMMA AllocationFields ==
    ASSUME NEW f \in Table, NEW S
    PROVE  /\ AddAllocations(f, S).registered = f.registered \cup S
           /\ DeleteAllocations(f, S).registered = f.registered \ S
           /\ \A g \in {AddAllocations(f, S), DeleteAllocations(f, S)} :
                 /\ g.sets = f.sets /\ g.elems = f.elems
                 /\ g.rules = f.rules /\ g.counters = f.counters
  BY DEF Table, AddAllocations, DeleteAllocations

LEMMA KeySetFields ==
    ASSUME NEW f \in Table, NEW ks
    PROVE  /\ AddKeySets(f, ks).sets = f.sets \cup ks
           /\ AddKeySets(f, ks).registered = f.registered
           /\ AddKeySets(f, ks).elems = f.elems
           /\ AddKeySets(f, ks).rules = f.rules
           /\ AddKeySets(f, ks).counters = f.counters
  BY DEF Table, AddKeySets

LEMMA KeyElemFields ==
    ASSUME NEW f \in Table, NEW S
    PROVE  /\ AddKeyElems(f, S).elems = f.elems \cup {e \in S : e[1] \in f.sets}
           /\ DeleteKeyElems(f, S).elems = f.elems \ S
           /\ \A g \in {AddKeyElems(f, S), DeleteKeyElems(f, S)} :
                 /\ g.registered = f.registered /\ g.sets = f.sets
                 /\ g.rules = f.rules /\ g.counters = f.counters
  BY DEF Table, AddKeyElems, DeleteKeyElems

LEMMA MatchingRuleFields ==
    ASSUME NEW f \in Table, NEW ks
    PROVE  /\ \A k \in Keys : AddMatchingRules(f, ks).rules[k] =
                 IF k \in ks /\ k \in f.sets THEN f.rules[k] + 1 ELSE f.rules[k]
           /\ AddMatchingRules(f, ks).counters = f.counters \cup ks
           /\ AddMatchingRules(f, ks).registered = f.registered
           /\ AddMatchingRules(f, ks).sets = f.sets
           /\ AddMatchingRules(f, ks).elems = f.elems
  BY DEF Table, AddMatchingRules

\* The rules go first, and with them what refers to the set.
LEMMA DeleteAccountingFields ==
    ASSUME NEW f \in Table, NEW k \in Keys
    PROVE  /\ DeleteAccounting(f, k).rules = [f.rules EXCEPT ![k] = 0]
           /\ DeleteAccounting(f, k).counters = f.counters \ {k}
           /\ DeleteAccounting(f, k).sets = f.sets \ {k}
           /\ DeleteAccounting(f, k).elems = {e \in f.elems : e[1] # k}
           /\ DeleteAccounting(f, k).registered = f.registered
  <1> DEFINE g == DeleteMatchingRules(f, k)
  <1>1. /\ g.rules = [f.rules EXCEPT ![k] = 0] /\ g.counters = f.counters \ {k}
        /\ g.sets = f.sets /\ g.elems = f.elems /\ g.registered = f.registered
    BY DEF Table, DeleteMatchingRules
  <1>2. g \in Table
    BY DeleteMatchingRulesType
  <1>3. g.rules[k] = 0
    BY <1>1 DEF Table
  <1> HIDE DEF g
  <1>4. DeleteKeySet(g, k) = [g EXCEPT !.sets = @ \ {k},
                                       !.elems = {e \in @ : e[1] # k}]
    BY <1>3 DEF DeleteKeySet
  <1>5. /\ DeleteKeySet(g, k).rules = g.rules
        /\ DeleteKeySet(g, k).counters = g.counters
        /\ DeleteKeySet(g, k).sets = g.sets \ {k}
        /\ DeleteKeySet(g, k).elems = {e \in g.elems : e[1] # k}
        /\ DeleteKeySet(g, k).registered = g.registered
    BY <1>2, <1>4 DEF Table
  <1> QED  BY <1>1, <1>5 DEF DeleteAccounting, g

-----------------------------------------------------------------------------
(* Keys that a step does not work on *)

SameAccount(k) ==
    /\ nft'.rules[k] = nft.rules[k]
    /\ k \in nft'.sets <=> k \in nft.sets
    /\ k \in nft'.counters <=> k \in nft.counters
    /\ {e \in nft'.elems : e[1] = k} = {e \in nft.elems : e[1] = k}

\* Nothing that KeyInv says of the key has changed.
Undisturbed(k) ==
    /\ status' = status /\ keyState'[k] = keyState[k]
    /\ PairsOf(k)' = PairsOf(k)
    /\ \A n \in 1..Len(reg) : reg'[n] = reg[n]
    /\ \A n \in PairsOf(k) : /\ Elem(n) \in nft'.registered <=> Elem(n) \in nft.registered
                             /\ reg[n].ip \in filters' <=> reg[n].ip \in filters
    /\ SameAccount(k)
    /\ k \in shaped' <=> k \in shaped
    /\ \A t \in Threads : Working(t, k) \/ Working(t, k)' => task'[t] = task[t]
    /\ \A t \in Threads : Working(t, k) =>
          /\ task[t].n \in ipRows => task[t].n \in ipRows'
          /\ task[t].n \in macRows => task[t].n \in macRows'

LEMMA TornDown ==
    ASSUME TypeInv, NEW k \in Keys, nft' = DeleteAccounting(nft, k)
    PROVE  /\ nft'.registered = nft.registered
           /\ \A h \in Keys \ {k} : SameAccount(h)
           /\ nft'.rules[k] = 0 /\ k \notin nft'.sets /\ k \notin nft'.counters
           /\ {e \in nft'.elems : e[1] = k} = {}
  <1>1. nft \in Table /\ nft.rules \in [Keys -> Nat]
    BY DEF TypeInv, KernelType, Table
  <1>2. /\ nft'.rules = [nft.rules EXCEPT ![k] = 0]
        /\ nft'.counters = nft.counters \ {k} /\ nft'.sets = nft.sets \ {k}
        /\ nft'.elems = {e \in nft.elems : e[1] # k}
        /\ nft'.registered = nft.registered
    BY <1>1, DeleteAccountingFields
  <1> QED  BY <1>1, <1>2 DEF SameAccount

LEMMA UndisturbedParts ==
    ASSUME TypeInv, NEW k \in Keys, Undisturbed(k)
    PROVE  /\ \A S, b : S \subseteq PairsOf(k) =>
                 /\ Passed(S, b) => Passed(S, b)'
                 /\ Slowed(S, b) => Slowed(S, b)'
           /\ \A S : S \subseteq 1..Len(reg) => (Counts(k, S) => Counts(k, S)')
           /\ Open(k)' = Open(k) /\ Slow(k)' = Slow(k) /\ Exists(k)' = Exists(k)
  <1>1. PairsOf(k) \subseteq 1..Len(reg)
    BY PairsType DEF TypeInv
  <1>2. \A n \in PairsOf(k) : reg'[n] = reg[n] /\ Elem(n)' = Elem(n)
    BY <1>1 DEF Undisturbed, Elem
  <1>3. \A S : S \subseteq 1..Len(reg) => KeyElems(S)' = KeyElems(S)
    BY DEF KeyElems, Undisturbed
  <1>4. ASSUME NEW S, NEW b, S \subseteq PairsOf(k)
        PROVE  /\ Passed(S, b) => Passed(S, b)'
               /\ Slowed(S, b) => Slowed(S, b)'
    BY <1>2, <1>4 DEF Passed, Slowed, Undisturbed
  <1>5. ASSUME NEW S, S \subseteq 1..Len(reg), Counts(k, S)
        PROVE  Counts(k, S)'
    BY <1>3, <1>5 DEF Counts, Undisturbed, SameAccount
  <1>6. Open(k)' = Open(k) /\ Slow(k)' = Slow(k) /\ Exists(k)' = Exists(k)
    BY DEF Open, Slow, Exists, Undisturbed
  <1> QED  BY <1>4, <1>5, <1>6

LEMMA UndisturbedInv ==
    ASSUME TypeInv, TasksInv, NEW k \in Keys, KeyInv(k), Undisturbed(k),
           k \in irregular => k \in irregular'
    PROVE  KeyInv(k)'
  <1>0. /\ PairsOf(k)' = PairsOf(k) /\ PairsOf(k) \subseteq 1..Len(reg)
        /\ \A t \in Threads : Working(t, k)' <=> Working(t, k)
        /\ status' = status
    BY PairsType DEF TypeInv, Undisturbed, Working
  <1>1. /\ \A S, b : S \subseteq PairsOf(k) =>
              /\ Passed(S, b) => Passed(S, b)'
              /\ Slowed(S, b) => Slowed(S, b)'
        /\ \A S : S \subseteq 1..Len(reg) => (Counts(k, S) => Counts(k, S)')
        /\ Open(k)' = Open(k) /\ Slow(k)' = Slow(k) /\ Exists(k)' = Exists(k)
    BY UndisturbedParts
  <1>2. \A S : S \subseteq 1..Len(reg) => Due(k, S) \subseteq 1..Len(reg) /\ Due(k, S)' = Due(k, S)
    BY <1>1 DEF Due
  <1>3. Rest(k) => Rest(k)'
    <2>1. ASSUME Rest(k)
          PROVE  /\ Passed(PairsOf(k), Open(k))' /\ Slowed(PairsOf(k), Slow(k))'
                 /\ Counts(k, Due(k, PairsOf(k)))'
      BY <1>0, <1>1, <1>2, <2>1 DEF Rest
    <2> QED  BY <2>1 DEF Rest
  <1>4. Bare(k) => Bare(k)'
    BY <1>0, <1>1 DEF Bare
  <1>5. ASSUME NEW t \in Threads, Working(t, k), Stage(t, k)
        PROVE  Stage(t, k)'
    <2>1. /\ task'[t] = task[t] /\ (k \in shaped' <=> k \in shaped)
          /\ task[t].n \in ipRows => task[t].n \in ipRows'
          /\ task[t].n \in macRows => task[t].n \in macRows'
      BY <1>5 DEF Undisturbed
    <2>2. task[t].n \in 0..Len(reg) /\ {task[t].n} \cap (1..Len(reg)) \subseteq 1..Len(reg)
      BY DEF TypeInv, TaskType, RowsType, Task
    <2>3. RegisterOK(t, k)'
      <3> SUFFICES ASSUME task[t].pc \in RegisterPcs
                   PROVE  RegisterOK(t, k)'
        BY <2>1 DEF RegisterOK
      <3>1. /\ task[t].n \in PairsOf(k) /\ Open(k) /\ reg[task[t].n].ip \notin filters
            /\ task[t].pc = "setup" => PairsOf(k) = {task[t].n}
            /\ task[t].pc = "addIp" => PairsOf(k) # {task[t].n}
        BY <1>5 DEF Stage, RegisterOK
      <3>2. (reg[task[t].n].ip \notin filters)'
        BY <1>0, <2>1, <3>1 DEF Undisturbed
      <3>3. Slowed(PairsOf(k) \ {task[t].n}, k \in shaped)'
        <4>1. Slowed(PairsOf(k) \ {task[t].n}, k \in shaped)
          BY <1>5 DEF Stage, RegisterOK
        <4> QED  BY <1>0, <2>1, <4>1 DEF Slowed, Undisturbed
      <3>4. Passed(IF task[t].pc = "unlock" THEN PairsOf(k) \ {task[t].n}
                   ELSE PairsOf(k), TRUE)'
        <4>1. Passed(IF task[t].pc = "unlock" THEN PairsOf(k) \ {task[t].n}
                     ELSE PairsOf(k), TRUE)
          BY <1>5 DEF Stage, RegisterOK
        <4> QED  BY <1>0, <1>1, <2>1, <4>1
      <3>5. Counts(k, IF task[t].pc = "shapeDevice" THEN PairsOf(k)
                      ELSE PairsOf(k) \ {task[t].n})'
        <4>1. Counts(k, IF task[t].pc = "shapeDevice" THEN PairsOf(k)
                        ELSE PairsOf(k) \ {task[t].n})
          BY <1>5 DEF Stage, RegisterOK
        <4> QED  BY <1>0, <1>1, <2>1, <4>1
      <3> QED  BY <1>0, <1>1, <2>1, <3>1, <3>2, <3>3, <3>4, <3>5 DEF RegisterOK
    <2>4. RemovalOK(t, k)'
      <3>1. RemovalOK(t, k)
        BY <1>5 DEF Stage
      <3>2. task[t].pc \in {"delPair"} \cup BetweenPcs \cup RemovalPcs =>
               Passed(PairsOf(k), Open(k))' /\ Exists(k)'
        BY <1>0, <1>1, <3>1 DEF RemovalOK
      <3>3. task[t].pc \in {"delPair", "relock"} \cup BetweenPcs =>
               Counts(k, Due(k, PairsOf(k)))'
        BY <1>0, <1>1, <1>2, <3>1 DEF RemovalOK
      <3>4. task[t].pc = "delPair" =>
               /\ reg'[task[t].n].ip \notin filters'
               /\ Slowed(PairsOf(k) \ {task[t].n}, Slow(k))'
        <4>1. task[t].pc = "delPair" =>
                 /\ task[t].n \in PairsOf(k) /\ reg[task[t].n].ip \notin filters
                 /\ Slowed(PairsOf(k) \ {task[t].n}, Slow(k))
          BY <3>1 DEF RemovalOK
        <4> QED  BY <1>0, <1>1, <2>1, <4>1 DEF Undisturbed
      <3>5. task[t].pc \in BetweenPcs \cup RemovalPcs => Slowed(PairsOf(k), Slow(k))'
        BY <1>0, <1>1, <3>1 DEF RemovalOK
      <3>6. task[t].pc \in {"delIp", "delMac", "unaccount"} =>
               Counts(k, Due(k, PairsOf(k) \cup {task[t].n}))'
        <4>1. SUFFICES ASSUME task[t].pc \in {"delIp", "delMac", "unaccount"}
                       PROVE  Counts(k, Due(k, PairsOf(k) \cup {task[t].n}))'
          OBVIOUS
        <4>2. task[t].n \in 1..Len(reg)
          BY <4>1 DEF TypeInv, TaskType, DevicePcs
        <4>3. Counts(k, Due(k, PairsOf(k) \cup {task[t].n}))
          BY <3>1, <4>1 DEF RemovalOK
        <4> QED  BY <1>0, <1>1, <1>2, <2>1, <4>2, <4>3
      <3>7. {e \in nft'.elems : e[1] = k} = {e \in nft.elems : e[1] = k}
        BY DEF Undisturbed, SameAccount
      <3> QED  BY <1>0, <1>1, <2>1, <3>1, <3>2, <3>3, <3>4, <3>5, <3>6, <3>7
               DEF RemovalOK
    <2>5. KeyOK(t, k)'
      <3>1. KeyOK(t, k)
        BY <1>5 DEF Stage
      <3> QED  BY <1>0, <1>1, <1>4, <2>1, <3>1 DEF KeyOK
    <2>6. ShapeOK(t, k)'
      <3>1. ShapeOK(t, k)
        BY <1>5 DEF Stage
      <3> QED  BY <1>0, <1>1, <2>1, <3>1 DEF ShapeOK
    <2> QED  BY <2>3, <2>4, <2>5, <2>6 DEF Stage
  <1> QED  BY <1>0, <1>3, <1>4, <1>5 DEF KeyInv

-----------------------------------------------------------------------------
(* A step that a thread takes for a key *)

\* The registrations of S are the key's and the thread's own; no other key's
\* data changes, and the kernel changes only at addresses of S.
StepOf(t, k, S) ==
    /\ status = "up" /\ status' = status /\ reg' = reg
    /\ irregular \subseteq irregular'
    /\ pairRows' \subseteq pairRows
    /\ \A n \in 1..Len(reg) : reg[n].key # k =>
          /\ n \in pairRows => n \in pairRows'
          /\ n \in ipRows => n \in ipRows'
          /\ n \in macRows => n \in macRows'
    /\ \A u \in Threads \ {t} : task'[u] = task[u]
    /\ task[t].pc = "idle" \/ task[t].key = k
    /\ task'[t].pc = "idle" \/ task'[t].key = k
    /\ \A h \in Keys \ {k} : /\ keyState'[h] = keyState[h]
                             /\ h \in shaped' <=> h \in shaped
                             /\ SameAccount(h)
    /\ keyState'[k] # keyState[k] => keyState'[k] # "none"
    /\ t # "acct" => shaped' = shaped
    /\ S \subseteq 1..Len(reg)
    /\ \A m \in S : reg[m].key = k /\ Owns(m)'
    /\ \A n \in 1..Len(reg) : (\A m \in S : reg[m].ip # reg[n].ip) =>
          /\ Elem(n) \in nft'.registered <=> Elem(n) \in nft.registered
          /\ reg[n].ip \in filters' <=> reg[n].ip \in filters

LEMMA StepFrame ==
    ASSUME TypeInv, TasksInv, NEW t \in Threads, NEW k \in Keys, NEW S,
           StepOf(t, k, S), NEW h \in Keys \ {k}, h \notin irregular'
    PROVE  Undisturbed(h)
  <1>1. PairsOf(h) \subseteq 1..Len(reg) /\ PairsOf(h) \subseteq pairRows
        /\ \A n \in PairsOf(h) : reg[n].key = h
    BY PairsType DEF TypeInv, PairsOf
  <1>2. PairsOf(h)' = PairsOf(h)
    BY <1>1 DEF StepOf, PairsOf
  <1>3. \A n \in PairsOf(h) : \A m \in S : reg[m].ip # reg[n].ip
    <2> SUFFICES ASSUME NEW n \in PairsOf(h), NEW m \in S, reg[m].ip = reg[n].ip
                 PROVE  FALSE
      OBVIOUS
    <2>1. n # m /\ n \in pairRows' /\ reg'[n].key = h /\ reg'[m].ip = reg'[n].ip
      BY <1>1, <1>2 DEF StepOf, PairsOf
    <2>2. Owns(m)'
      BY DEF StepOf
    <2> QED  BY <2>1, <2>2 DEF Owns
  <1>4. \A n \in PairsOf(h) :
           /\ Elem(n) \in nft'.registered <=> Elem(n) \in nft.registered
           /\ reg[n].ip \in filters' <=> reg[n].ip \in filters
    BY <1>1, <1>3 DEF StepOf
  <1>5. ~Working(t, h) /\ ~Working(t, h)'
    BY DEF StepOf, Working
  <1>6. \A u \in Threads : Working(u, h) \/ Working(u, h)' => task'[u] = task[u]
    BY <1>5 DEF StepOf
  <1>7. ASSUME NEW u \in Threads, Working(u, h)
        PROVE  /\ task[u].n \in ipRows => task[u].n \in ipRows'
               /\ task[u].n \in macRows => task[u].n \in macRows'
    <2>1. task[u].n \in 0..Len(reg) /\ 0 \notin ipRows /\ 0 \notin macRows
      BY DEF TypeInv, TaskType, RowsType, Task
    <2>2. task[u].n # 0 => reg[task[u].n].key = h
      BY <1>7 DEF TasksInv, TaskOK, Working
    <2>3. task[u].n # 0 => task[u].n \in 1..Len(reg)
      BY <2>1 DEF TypeInv, RowsType
    <2> QED  BY <2>1, <2>2, <2>3 DEF StepOf
  <1> QED  BY <1>2, <1>4, <1>6, <1>7 DEF StepOf, Undisturbed

\* What the captive portal and the shaper let such a step do: for each element
\* and each address that is left or added, there is still, or is now, a reason.
PassStep(t, k, S) ==
    /\ k \notin irregular' => \A n \in PairsOf(k) :
          Live(n) /\ Elem(n) \in nft'.registered =>
             Live(n)' \/ (task'[t].n = n /\ task'[t].pc \in RemovalPcs)
    /\ task[t].pc \in RemovalPcs =>
          \/ task'[t].n = task[t].n /\ task'[t].pc \in RemovalPcs
          \/ Elem(task[t].n) \notin nft'.registered
    /\ \A e \in nft'.registered \ nft.registered : \E n \in S :
          Elem(n) = e /\ (k \in irregular' \/ Live(n)')

FilterStep(k, S) ==
    /\ k \notin irregular' => \A n \in PairsOf(k) :
          Live(n) /\ k \in shaped /\ reg[n].ip \in filters' =>
             Live(n)' /\ k \in shaped'
    /\ \A i \in filters' \ filters : \E n \in S :
          reg[n].ip = i /\ (k \in irregular' \/ (Live(n)' /\ k \in shaped'))

LEMMA StepInv ==
    ASSUME TypeInv, TypeInv', SyncInv, NEW t \in Threads, NEW k \in Keys, NEW S,
           StepOf(t, k, S), PassStep(t, k, S), FilterStep(k, S),
           KeyInv(k)', TaskOK(t)', OwnersOK(t)'
    PROVE  SyncInv'
  <1>0. /\ reg' = reg /\ Len(reg') = Len(reg) /\ irregular \subseteq irregular'
        /\ pairRows \subseteq 1..Len(reg) /\ pairRows' \subseteq pairRows
        /\ \A n \in 1..Len(reg) : Elem(n)' = Elem(n) /\ reg[n].key \in Keys
    BY RegistrationType DEF StepOf, Elem, TypeInv, RowsType
  <1>1. KeysInv'
    <2> SUFFICES ASSUME NEW h \in Keys \ {k} PROVE KeyInv(h)'
      BY DEF KeysInv
    <2>1. CASE h \in irregular'
      BY <2>1 DEF KeyInv
    <2>2. CASE h \notin irregular'
      BY <1>0, <2>2, StepFrame, UndisturbedInv DEF SyncInv, KeysInv
    <2> QED  BY <2>1, <2>2
  <1>2. TasksInv'
    <2> SUFFICES ASSUME NEW u \in Threads \ {t} PROVE TaskOK(u)'
      BY DEF TasksInv
    <2>1. TaskOK(u) /\ task'[u] = task[u]
      BY DEF SyncInv, TasksInv, StepOf
    <2>2. task[u].pc # "idle" => keyState'[task[u].key] # "none"
      <3>1. task[u].pc # "idle" => task[u].key \in Keys /\ keyState[task[u].key] # "none"
        BY <2>1 DEF TypeInv, TaskType, TaskOK
      <3> QED  BY <3>1 DEF StepOf
    <2>3. task[u].pc \in {"beginShape", "beginUnshape"} => shaped' = shaped
      BY <2>1 DEF TaskOK, StepOf
    <2> QED  BY <1>0, <2>1, <2>2, <2>3 DEF TaskOK
  <1>3. OwnersInv'
    <2> SUFFICES ASSUME NEW u \in Threads \ {t} PROVE OwnersOK(u)'
      BY DEF OwnersInv
    <2>1. OwnersOK(u) /\ task'[u] = task[u]
      BY DEF SyncInv, OwnersInv, StepOf
    <2>2. \A m : Owns(m) => Owns(m)'
      BY <1>0 DEF Owns
    <2> QED  BY <2>1, <2>2 DEF OwnersOK
  <1>4. \A n \in 1..Len(reg) : reg[n].key # k /\ Live(n) => Live(n)'
    BY <1>0 DEF Live, StepOf
  <1>5. PassInv'
    <2> SUFFICES ASSUME NEW e \in nft'.registered
                 PROVE  \E n \in 1..Len(reg) : Elem(n) = e /\ PassWitness(n)'
      BY <1>0 DEF PassInv
    <2>1. CASE e \notin nft.registered
      <3>1. PICK n \in S : Elem(n) = e /\ (k \in irregular' \/ Live(n)')
        BY <2>1 DEF PassStep
      <3>2. n \in 1..Len(reg) /\ reg[n].key = k
        BY DEF StepOf
      <3> QED  BY <1>0, <3>1, <3>2 DEF PassWitness
    <2>2. CASE e \in nft.registered
      <3>1. PICK n \in 1..Len(reg) : Elem(n) = e /\ PassWitness(n)
        BY <2>2 DEF SyncInv, PassInv
      <3>2. CASE reg[n].key \in irregular
        BY <1>0, <3>1, <3>2 DEF PassWitness
      <3>3. CASE Live(n)
        <4>1. CASE reg[n].key # k
          BY <1>4, <3>1, <3>3, <4>1 DEF PassWitness
        <4>2. CASE reg[n].key = k /\ k \in irregular'
          BY <1>0, <3>1, <4>2 DEF PassWitness
        <4>3. CASE reg[n].key = k /\ k \notin irregular'
          <5>1. n \in PairsOf(k)
            BY <3>3, <4>3 DEF Live, PairsOf
          <5>2. Live(n)' \/ (task'[t].n = n /\ task'[t].pc \in RemovalPcs)
            BY <3>1, <3>3, <4>3, <5>1 DEF PassStep
          <5> QED  BY <3>1, <5>2 DEF PassWitness
        <4> QED  BY <4>1, <4>2, <4>3
      <3>4. ASSUME NEW u \in Threads, task[u].n = n, task[u].pc \in RemovalPcs
            PROVE  \E m \in 1..Len(reg) : Elem(m) = e /\ PassWitness(m)'
        <4>1. CASE u # t
          <5>1. task'[u] = task[u]
            BY <4>1 DEF StepOf
          <5> QED  BY <3>1, <3>4, <5>1 DEF PassWitness
        <4>2. CASE u = t
          <5>1. task'[t].n = n /\ task'[t].pc \in RemovalPcs
            BY <3>1, <3>4, <4>2 DEF PassStep
          <5> QED  BY <3>1, <5>1 DEF PassWitness
        <4> QED  BY <4>1, <4>2
      <3> QED  BY <3>1, <3>2, <3>3, <3>4 DEF PassWitness
    <2> QED  BY <2>1, <2>2
  <1>6. FilterInv'
    <2> SUFFICES ASSUME NEW i \in filters'
                 PROVE  \E n \in 1..Len(reg) : reg[n].ip = i /\ FilterWitness(n)'
      BY <1>0 DEF FilterInv
    <2>1. CASE i \notin filters
      <3>1. PICK n \in S : reg[n].ip = i /\ (k \in irregular' \/ (Live(n)' /\ k \in shaped'))
        BY <2>1 DEF FilterStep
      <3>2. n \in 1..Len(reg) /\ reg[n].key = k
        BY DEF StepOf
      <3> QED  BY <1>0, <3>1, <3>2 DEF FilterWitness
    <2>2. CASE i \in filters
      <3>1. PICK n \in 1..Len(reg) : reg[n].ip = i /\ FilterWitness(n)
        BY <2>2 DEF SyncInv, FilterInv
      <3>2. CASE reg[n].key \in irregular'
        BY <1>0, <3>1, <3>2 DEF FilterWitness
      <3>3. CASE reg[n].key \notin irregular'
        <4>1. Live(n) /\ reg[n].key \in shaped
          BY <1>0, <3>1, <3>3 DEF FilterWitness
        <4>2. CASE reg[n].key # k
          BY <1>0, <1>4, <3>1, <4>1, <4>2 DEF FilterWitness, StepOf
        <4>3. CASE reg[n].key = k
          <5>1. n \in PairsOf(k)
            BY <4>1, <4>3 DEF Live, PairsOf
          <5>2. Live(n)' /\ k \in shaped'
            BY <3>1, <3>3, <4>1, <4>3, <5>1 DEF FilterStep
          <5> QED  BY <1>0, <3>1, <4>3, <5>2 DEF FilterWitness
        <4> QED  BY <4>2, <4>3
      <3> QED  BY <3>2, <3>3
    <2> QED  BY <2>1, <2>2
  <1>7. LifeInv'
    <2>1. \A n \in 1..Len(reg) : keyState[reg[n].key] # "none"
      BY DEF SyncInv, LifeInv
    <2> QED  BY <1>0, <2>1 DEF LifeInv, StepOf
  <1> QED  BY <1>1, <1>2, <1>3, <1>5, <1>6, <1>7 DEF SyncInv

-----------------------------------------------------------------------------
(* How a thread's task moves, and what it owns *)

LEMMA GotoTask ==
    ASSUME TypeInv, NEW t \in Threads, NEW pc, Goto(t, pc)
    PROVE  /\ task'[t].pc = pc /\ task'[t].op = task[t].op
           /\ task'[t].key = task[t].key /\ task'[t].n = task[t].n
           /\ task'[t].todo = task[t].todo
           /\ \A u \in Threads \ {t} : task'[u] = task[u]
  BY DEF Goto, TypeInv, TaskType, Task

LEMMA FinishTask ==
    ASSUME TypeInv, NEW t \in Threads, Finish(t)
    PROVE  /\ task'[t].pc = "idle" /\ task'[t].op = "none"
           /\ task'[t].n = 0 /\ task'[t].todo = {}
           /\ \A u \in Threads \ {t} : task'[u] = task[u]
  BY DEF Finish, Idle, TypeInv, TaskType

LEMMA BeginTask ==
    ASSUME TypeInv, NEW t \in Threads, NEW pc, NEW op, NEW k, NEW n, NEW todo,
           Begin(t, pc, op, k, n, todo)
    PROVE  /\ task'[t].pc = pc /\ task'[t].op = op /\ task'[t].key = k
           /\ task'[t].n = n /\ task'[t].todo = todo
           /\ \A u \in Threads \ {t} : task'[u] = task[u]
  BY DEF Begin, TypeInv, TaskType

\* Two registrations in the database never have one address.
LEMMA PresentOwns ==
    ASSUME DbInv, NEW m \in pairRows
    PROVE  Owns(m)
  BY DEF DbInv, UniqueAddresses, PairsBacked, Owns

LEMMA OwnsKept ==
    ASSUME reg' = reg, pairRows' \subseteq pairRows, irregular \subseteq irregular',
           NEW m, Owns(m)
    PROVE  Owns(m)'
  BY DEF Owns

LEMMA GotoOK ==
    ASSUME TypeInv, SyncInv, NEW t \in Threads, NEW pc, Goto(t, pc),
           {pc, task[t].pc} \cap {"idle", "beginShape", "beginUnshape"} = {},
           task[t].op = "deregister" => pc \in {"delPair"} \cup RemovalPcs,
           reg' = reg, pairRows' \subseteq pairRows, irregular \subseteq irregular',
           keyState'[task[t].key] = keyState[task[t].key]
    PROVE  TaskOK(t)' /\ OwnersOK(t)'
  <1>1. TaskOK(t) /\ OwnersOK(t)
    BY DEF SyncInv, TasksInv, OwnersInv
  <1>2. /\ task'[t].pc = pc /\ task'[t].op = task[t].op
        /\ task'[t].key = task[t].key /\ task'[t].n = task[t].n
        /\ task'[t].todo = task[t].todo
    BY GotoTask
  <1>3. TaskOK(t)'
    BY <1>1, <1>2 DEF TaskOK
  <1>4. \A m \in task[t].todo \cup {task[t].n} : m # 0 => Owns(m)
    BY <1>1 DEF OwnersOK
  <1>5. OwnersOK(t)'
    BY <1>2, <1>4, OwnsKept DEF OwnersOK
  <1> QED  BY <1>3, <1>5

LEMMA FinishOK ==
    ASSUME TypeInv, NEW t \in Threads, Finish(t)
    PROVE  TaskOK(t)' /\ OwnersOK(t)'
  BY FinishTask DEF TaskOK, OwnersOK

\* A thread that works on a key has its registration for itself.
LEMMA WorkerOwns ==
    ASSUME TypeInv, SyncInv, NEW t \in Threads, NEW k, Working(t, k)
    PROVE  /\ status = "up" /\ k \in Keys /\ keyState[k] # "none"
           /\ task[t].key = k /\ task[t].pc # "idle"
           /\ \A m \in task[t].todo \cup {task[t].n} : m # 0 =>
                 m \in 1..Len(reg) /\ reg[m].key = k /\ Owns(m)
  <1>1. TaskOK(t) /\ OwnersOK(t)
    BY DEF SyncInv, TasksInv, OwnersInv
  <1>2. /\ task[t].pc \notin {"idle", "beginShape", "beginUnshape"}
        /\ task[t].key = k /\ k \in Keys
        /\ task[t].n \in 0..Len(reg) /\ task[t].todo \subseteq 1..Len(reg)
        /\ status \in {"up", "down"} /\ Len(reg) \in Nat
    BY DEF Working, TypeInv, TaskType, KeysType, RowsType, Task
  <1>3. status = "up"
    BY <1>2 DEF SyncInv, LifeInv, IsIdle
  <1>4. \A m \in task[t].todo \cup {task[t].n} : m # 0 => m \in 1..Len(reg)
    BY <1>2
  <1> QED  BY <1>1, <1>2, <1>3, <1>4 DEF TaskOK, OwnersOK

\* Nobody else works on a regular key.
LEMMA Alone ==
    ASSUME SyncInv, NEW t \in Threads, NEW k \in Keys, Working(t, k),
           k \notin irregular
    PROVE  Stage(t, k) /\ \A u \in Threads \ {t} : ~Working(u, k)
  BY DEF SyncInv, KeysInv, KeyInv

LEMMA OwnNext ==
    ASSUME NEW t \in Threads, NEW k \in Keys,
           \A u \in Threads \ {t} : ~Working(u, k) /\ task'[u] = task[u],
           status' = "up",
           \/ Working(t, k)' /\ Stage(t, k)'
           \/ ~Working(t, k)' /\ Rest(k)'
    PROVE  KeyInv(k)'
  <1>1. \A u \in Threads \ {t} : ~Working(u, k)'
    BY DEF Working
  <1> QED  BY <1>1 DEF KeyInv

\* Elements and addresses of a registration that the thread owns are no other
\* device's of the same regular key.
LEMMA OwnApart ==
    ASSUME NEW k, k \notin irregular, NEW m, Owns(m), NEW p \in PairsOf(k), p # m
    PROVE  reg[p].ip # reg[m].ip /\ Elem(p) # Elem(m)
  BY DEF Owns, PairsOf, Elem

\* What is said of a key stays true where the kernel stays as it is.
LEMMA Carried ==
    ASSUME reg' = reg
    PROVE  /\ \A S, b : nft'.registered = nft.registered =>
                 (Passed(S, b)' <=> Passed(S, b))
           /\ \A S, b : filters' = filters => (Slowed(S, b)' <=> Slowed(S, b))
           /\ \A k, S : SameAccount(k) => (Counts(k, S)' <=> Counts(k, S))
           /\ \A k : pairRows' = pairRows => PairsOf(k)' = PairsOf(k)
           /\ \A n : Elem(n)' = Elem(n)
  BY DEF Passed, Slowed, Counts, SameAccount, KeyElems, Elem, PairsOf

\* All of this at once, for a thread that is in the middle of a handler.
LEMMA Worker ==
    ASSUME TypeInv, SyncInv, NEW t \in Threads, NEW k, NEW n,
           task[t].key = k, task[t].n = n,
           task[t].pc \notin {"idle", "beginShape", "beginUnshape"}
    PROVE  /\ Working(t, k) /\ status = "up" /\ k \in Keys /\ keyState[k] # "none"
           /\ task[t].pc \in DevicePcs =>
                 n \in 1..Len(reg) /\ reg[n].key = k /\ Owns(n)
           /\ \A m \in task[t].todo : m \in 1..Len(reg) /\ reg[m].key = k /\ Owns(m)
           /\ k \notin irregular =>
                 Stage(t, k) /\ \A u \in Threads \ {t} : ~Working(u, k)
  <1>1. Working(t, k)
    BY DEF Working
  <1>2. task[t].pc \in DevicePcs => n \in 1..Len(reg) /\ n # 0
    BY DEF TypeInv, TaskType
  <1>3. task[t].todo \subseteq 1..Len(reg) /\ 0 \notin task[t].todo
    BY DEF TypeInv, TaskType
  <1> QED  BY <1>1, <1>2, <1>3, WorkerOwns, Alone

LEMMA WorkerStep ==
    ASSUME TypeInv, TypeInv', SyncInv, NEW t \in Threads, NEW k \in Keys, NEW S,
           StepOf(t, k, S), PassStep(t, k, S), FilterStep(k, S),
           TaskOK(t)', OwnersOK(t)',
           k \notin irregular' =>
              /\ \A u \in Threads \ {t} : ~Working(u, k)
              /\ \/ Working(t, k)' /\ Stage(t, k)'
                 \/ ~Working(t, k)' /\ Rest(k)'
    PROVE  SyncInv'
  <1>1. /\ status' = "up" /\ irregular \subseteq irregular'
        /\ \A u \in Threads \ {t} : task'[u] = task[u]
    BY DEF StepOf
  <1>2. KeyInv(k)'
    <2>1. CASE k \in irregular'
      BY <2>1 DEF KeyInv
    <2>2. CASE k \notin irregular'
      BY <1>1, <2>2, OwnNext
    <2> QED  BY <2>1, <2>2
  <1> QED  BY <1>2, StepInv

LEMMA StillAtRest ==
    ASSUME UNCHANGED <<keyState, reg, pairRows, nft, filters, shaped>>, NEW k, Rest(k)
    PROVE  Rest(k)'
  <1>1. /\ PairsOf(k)' = PairsOf(k) /\ Open(k)' = Open(k) /\ Slow(k)' = Slow(k)
        /\ Due(k, PairsOf(k))' = Due(k, PairsOf(k))
    BY DEF PairsOf, Open, Slow, Due
  <1> QED  BY <1>1, Carried DEF Rest, SameAccount

-----------------------------------------------------------------------------
(* Registration of a device *)

LEMMA UnlockSync ==
    ASSUME TypeInv, TypeInv', DbInv, SyncInv, NEW t \in Threads, NEW k, NEW n,
           task[t].key = k, task[t].n = n, Unlock(t)
    PROVE  SyncInv'
  <1>1. /\ task[t].pc = "unlock" /\ Goto(t, "count")
        /\ nft' = AddAllocations(nft, {Elem(n)}) /\ nft \in Table
        /\ UNCHANGED <<keyState, reg, pairRows, ipRows, macRows, filters, status,
                       shaped, irregular>>
    BY DEF Unlock, keyVars, rowVars, historyVars, TypeInv, KernelType
  <1>2. /\ Working(t, k) /\ n \in 1..Len(reg) /\ n # 0
    BY <1>1 DEF Working, TypeInv, TaskType, DevicePcs
  <1>3. /\ status = "up" /\ k \in Keys /\ reg[n].key = k /\ Owns(n)
    BY <1>1, <1>2, WorkerOwns
  <1>4. /\ task'[t].pc = "count" /\ task'[t].key = k /\ task'[t].n = n
        /\ \A u \in Threads \ {t} : task'[u] = task[u]
        /\ TaskOK(t)' /\ OwnersOK(t)'
    <2>1. task[t].op # "deregister"
      BY <1>1 DEF SyncInv, TasksInv, TaskOK, RemovalPcs
    <2> QED  BY <1>1, <2>1, GotoTask, GotoOK
  <1>5. /\ nft'.registered = nft.registered \cup {Elem(n)}
        /\ \A h \in Keys : SameAccount(h)
    BY <1>1, AllocationFields DEF SameAccount
  <1>6. Owns(n)'
    BY <1>1, <1>3, OwnsKept
  <1>7. StepOf(t, k, {n})
    BY <1>1, <1>2, <1>3, <1>4, <1>5, <1>6 DEF StepOf, Elem
  <1>8. k \notin irregular => Stage(t, k) /\ \A u \in Threads \ {t} : ~Working(u, k)
    BY <1>2, <1>3, Alone
  <1>9. PassStep(t, k, {n}) /\ FilterStep(k, {n})
    BY <1>1, <1>5, <1>8 DEF PassStep, FilterStep, RemovalPcs, Live, Stage, RegisterOK,
       RegisterPcs, PairsOf, Open
  <1>10. KeyInv(k)'
    <2> SUFFICES ASSUME k \notin irregular PROVE KeyInv(k)'
      BY <1>1 DEF KeyInv
    <2>1. /\ n \in PairsOf(k) /\ Open(k) /\ Passed(PairsOf(k) \ {n}, TRUE)
          /\ Slowed(PairsOf(k) \ {n}, k \in shaped) /\ reg[n].ip \notin filters
          /\ Counts(k, PairsOf(k) \ {n})
      BY <1>1, <1>8 DEF Stage, RegisterOK, RegisterPcs
    <2>2. Passed(PairsOf(k), TRUE)'
      BY <1>1, <1>5, <2>1 DEF Passed, Elem, PairsOf
    <2>3. PairsOf(k)' = PairsOf(k) /\ Open(k)' = Open(k)
      BY <1>1 DEF PairsOf, Open
    <2>4. Slowed(PairsOf(k) \ {n}, k \in shaped)' /\ Counts(k, PairsOf(k) \ {n})'
      BY <1>1, <1>3, <1>5, <2>1, <2>3, Carried
    <2>5. RegisterOK(t, k)'
      BY <1>1, <1>4, <2>1, <2>2, <2>3, <2>4 DEF RegisterOK
    <2>6. Stage(t, k)' /\ Working(t, k)'
      BY <1>4, <2>5 DEF Stage, Working, RemovalOK, KeyOK, ShapeOK, RemovalPcs,
         BetweenPcs
    <2> QED  BY <1>1, <1>3, <1>4, <1>8, <2>6, OwnNext
  <1> QED  BY <1>3, <1>4, <1>7, <1>9, <1>10, StepInv

LEMMA FewDevices ==
    ASSUME TypeInv, NEW k, NEW n \in PairsOf(k)
    PROVE  FirstDevice(k) <=> PairsOf(k) = {n}
  <1>1. IsFiniteSet(PairsOf(k))
    <2>1. PairsOf(k) \subseteq 1..Len(reg) /\ Len(reg) \in Nat
      BY PairsType DEF TypeInv, RowsType
    <2>2. IsFiniteSet(1..Len(reg))
      BY <2>1, FS_Interval
    <2> QED  BY <2>1, <2>2, FS_Subset
  <1>2. Cardinality({n}) = 1 /\ IsFiniteSet({n})
    BY FS_Singleton
  <1>3. /\ {n} \subseteq PairsOf(k) /\ Cardinality(PairsOf(k)) \in Nat
        /\ Cardinality({n}) <= Cardinality(PairsOf(k))
        /\ Cardinality({n}) = Cardinality(PairsOf(k)) => {n} = PairsOf(k)
    BY <1>1, FS_Subset, FS_CardinalityType
  <1>4. Cardinality(PairsOf(k)) <= 1 <=> PairsOf(k) = {n}
    BY <1>2, <1>3
  <1> QED  BY <1>4 DEF FirstDevice

LEMMA CountDevicesSync ==
    ASSUME TypeInv, TypeInv', DbInv, SyncInv, NEW t \in Threads, NEW k, NEW n,
           task[t].key = k, task[t].n = n, CountDevices(t)
    PROVE  SyncInv'
  <1>1. /\ task[t].pc = "count"
        /\ \/ ~Exists(k) /\ Finish(t)
           \/ FirstDevice(k) /\ Goto(t, "setup")
           \/ ~FirstDevice(k) /\ Goto(t, "addIp")
        /\ UNCHANGED <<keyState, reg, pairRows, ipRows, macRows, nft, filters, status,
                       shaped, irregular>>
    BY DEF CountDevices, keyVars, rowVars, kernelVars, historyVars
  <1>2. /\ Working(t, k) /\ n \in 1..Len(reg) /\ n # 0
    BY <1>1 DEF Working, TypeInv, TaskType, DevicePcs
  <1>3. /\ status = "up" /\ k \in Keys
    BY <1>1, <1>2, WorkerOwns
  <1>4. /\ \/ ~Exists(k) /\ task'[t].pc = "idle"
           \/ /\ task'[t].pc = IF FirstDevice(k) THEN "setup" ELSE "addIp"
              /\ task'[t].key = k /\ task'[t].n = n
        /\ \A u \in Threads \ {t} : task'[u] = task[u]
        /\ TaskOK(t)' /\ OwnersOK(t)'
    <2>1. task[t].op # "deregister"
      BY <1>1 DEF SyncInv, TasksInv, TaskOK, RemovalPcs
    <2> QED  BY <1>1, <2>1, GotoTask, GotoOK, FinishTask, FinishOK
  <1>5. \A h \in Keys : SameAccount(h)
    BY <1>1 DEF SameAccount
  <1>6. StepOf(t, k, {})
    BY <1>1, <1>2, <1>3, <1>4, <1>5 DEF StepOf, Elem
  <1>7. PassStep(t, k, {}) /\ FilterStep(k, {})
    BY <1>1 DEF PassStep, FilterStep, RemovalPcs, Live
  <1>8. KeyInv(k)'
    <2> SUFFICES ASSUME k \notin irregular PROVE KeyInv(k)'
      BY <1>1 DEF KeyInv
    <2>0. Stage(t, k) /\ \A u \in Threads \ {t} : ~Working(u, k)
      BY <1>2, <1>3, Alone
    <2>1. /\ n \in PairsOf(k) /\ Open(k) /\ Passed(PairsOf(k), TRUE)
          /\ Slowed(PairsOf(k) \ {n}, k \in shaped) /\ reg[n].ip \notin filters
          /\ Counts(k, PairsOf(k) \ {n})
      BY <1>1, <2>0 DEF Stage, RegisterOK, RegisterPcs
    <2>2. FirstDevice(k) <=> PairsOf(k) = {n}
      BY <2>1, FewDevices
    <2>3. PairsOf(k)' = PairsOf(k) /\ Open(k)' = Open(k)
      BY <1>1 DEF PairsOf, Open
    <2>4. /\ Passed(PairsOf(k), TRUE)' /\ Slowed(PairsOf(k) \ {n}, k \in shaped)'
          /\ Counts(k, PairsOf(k) \ {n})'
      BY <1>1, <1>3, <1>5, <2>1, <2>3, Carried
    <2>5. /\ task'[t].pc = IF FirstDevice(k) THEN "setup" ELSE "addIp"
          /\ task'[t].key = k /\ task'[t].n = n
      BY <1>4, <2>1 DEF Open, Exists
    <2>6. RegisterOK(t, k)'
      BY <1>1, <2>1, <2>2, <2>3, <2>4, <2>5 DEF RegisterOK
    <2>7. Stage(t, k)' /\ Working(t, k)'
      BY <2>5, <2>6 DEF Stage, Working, RemovalOK, KeyOK, ShapeOK, RemovalPcs,
         BetweenPcs
    <2> QED  BY <1>1, <1>3, <1>4, <2>0, <2>7, OwnNext
  <1> QED  BY <1>3, <1>4, <1>6, <1>7, <1>8, StepInv

\* The commands that count one device: for its first one, with the key's rules.
LEMMA SetupFields ==
    ASSUME TypeInv, NEW t \in Threads, NEW k \in Keys, NEW n \in 1..Len(reg),
           task[t].key = k, task[t].n = n, reg[n].key = k, SetupAccounting(t)
    PROVE  /\ nft'.registered = nft.registered
           /\ \A h \in Keys \ {k} : SameAccount(h)
           /\ task[t].pc = "setup" =>
                 /\ nft'.rules[k] = nft.rules[k] + 1
                 /\ k \in nft'.sets /\ k \in nft'.counters
                 /\ nft'.elems = nft.elems \cup KeyElems({n})
           /\ task[t].pc = "addIp" =>
                 /\ nft'.rules[k] = nft.rules[k] /\ nft'.sets = nft.sets
                 /\ nft'.counters = nft.counters
                 /\ k \in nft.sets => nft'.elems = nft.elems \cup KeyElems({n})
  <1> DEFINE e == <<k, reg[n].ip>>
             f == AddKeySets(nft, {k})
             g == AddMatchingRules(f, {k})
  <1>1. nft \in Table /\ KeyElems({n}) = {e} /\ e[1] = k
    BY DEF TypeInv, KernelType, KeyElems
  <1>2. /\ f \in Table /\ f.sets = nft.sets \cup {k} /\ f.elems = nft.elems
        /\ f.rules = nft.rules /\ f.counters = nft.counters
        /\ f.registered = nft.registered
    BY <1>1, KeySetFields, KeySetsType
  <1> HIDE DEF f
  <1>3. /\ g \in Table /\ g.sets = f.sets /\ g.elems = f.elems
        /\ g.counters = f.counters \cup {k} /\ g.registered = f.registered
        /\ \A h \in Keys : g.rules[h] = IF h \in {k} /\ h \in f.sets
                                        THEN f.rules[h] + 1 ELSE f.rules[h]
    BY <1>2, MatchingRuleFields, AddMatchingRulesType
  <1> HIDE DEF g, e
  <1>4. CASE task[t].pc = "setup"
    <2>1. nft' = AddKeyElems(g, {e})
      BY <1>1, <1>4 DEF SetupAccounting, f, g
    <2>2. /\ nft'.elems = g.elems \cup {d \in {e} : d[1] \in g.sets}
          /\ nft'.registered = g.registered /\ nft'.sets = g.sets
          /\ nft'.rules = g.rules /\ nft'.counters = g.counters
      BY <1>3, <2>1, KeyElemFields
    <2>3. nft'.elems = nft.elems \cup {e}
      BY <1>1, <1>2, <1>3, <2>2
    <2>4. ASSUME NEW h \in Keys \ {k}
          PROVE  SameAccount(h)
      <3>1. {d \in nft'.elems : d[1] = h} = {d \in nft.elems : d[1] = h}
        BY <1>1, <2>3
      <3>2. /\ nft'.rules[h] = nft.rules[h] /\ nft'.counters = nft.counters \cup {k}
            /\ nft'.sets = nft.sets \cup {k}
        BY <1>2, <1>3, <2>2
      <3> QED  BY <3>1, <3>2 DEF SameAccount
    <2>5. /\ nft'.registered = nft.registered /\ nft'.rules[k] = nft.rules[k] + 1
          /\ k \in nft'.sets /\ k \in nft'.counters
      BY <1>2, <1>3, <2>2
    <2> QED  BY <1>1, <1>4, <2>3, <2>4, <2>5
  <1>5. CASE task[t].pc = "addIp"
    <2>1. nft' = AddKeyElems(nft, {e})
      BY <1>1, <1>5 DEF SetupAccounting
    <2>2. /\ nft'.elems = nft.elems \cup {d \in {e} : d[1] \in nft.sets}
          /\ nft'.registered = nft.registered /\ nft'.sets = nft.sets
          /\ nft'.rules = nft.rules /\ nft'.counters = nft.counters
      BY <1>1, <2>1, KeyElemFields
    <2> QED  BY <1>1, <1>5, <2>2 DEF SameAccount
  <1> QED  BY <1>4, <1>5 DEF SetupAccounting

LEMMA SetupAccountingSync ==
    ASSUME TypeInv, TypeInv', DbInv, SyncInv, NEW t \in Threads, NEW k, NEW n,
           task[t].key = k, task[t].n = n, SetupAccounting(t)
    PROVE  SyncInv'
  <1>1. /\ task[t].pc \in {"setup", "addIp"} /\ Goto(t, "shapeDevice")
        /\ UNCHANGED <<keyState, reg, pairRows, ipRows, macRows, filters, status,
                       shaped, irregular>>
    BY DEF SetupAccounting, keyVars, rowVars, historyVars
  <1>2. /\ Working(t, k) /\ n \in 1..Len(reg) /\ n # 0
    BY <1>1 DEF Working, TypeInv, TaskType, DevicePcs
  <1>3. /\ status = "up" /\ k \in Keys /\ reg[n].key = k /\ Owns(n)
    BY <1>1, <1>2, WorkerOwns
  <1>4. /\ task'[t].pc = "shapeDevice" /\ task'[t].key = k /\ task'[t].n = n
        /\ \A u \in Threads \ {t} : task'[u] = task[u]
        /\ TaskOK(t)' /\ OwnersOK(t)'
    <2>1. task[t].op # "deregister"
      BY <1>1 DEF SyncInv, TasksInv, TaskOK, RemovalPcs
    <2> QED  BY <1>1, <2>1, GotoTask, GotoOK
  <1>5. /\ nft'.registered = nft.registered
        /\ \A h \in Keys \ {k} : SameAccount(h)
        /\ task[t].pc = "setup" =>
              /\ nft'.rules[k] = nft.rules[k] + 1
              /\ k \in nft'.sets /\ k \in nft'.counters
              /\ nft'.elems = nft.elems \cup KeyElems({n})
        /\ task[t].pc = "addIp" =>
              /\ nft'.rules[k] = nft.rules[k] /\ nft'.sets = nft.sets
              /\ nft'.counters = nft.counters
              /\ k \in nft.sets => nft'.elems = nft.elems \cup KeyElems({n})
    BY <1>2, <1>3, SetupFields
  <1>6. StepOf(t, k, {})
    BY <1>1, <1>2, <1>3, <1>4, <1>5 DEF StepOf, Elem
  <1>7. PassStep(t, k, {}) /\ FilterStep(k, {})
    BY <1>1, <1>5 DEF PassStep, FilterStep, RemovalPcs, Live
  <1>8. KeyInv(k)'
    <2> SUFFICES ASSUME k \notin irregular PROVE KeyInv(k)'
      BY <1>1 DEF KeyInv
    <2>0. Stage(t, k) /\ \A u \in Threads \ {t} : ~Working(u, k)
      BY <1>2, <1>3, Alone
    <2>1. /\ n \in PairsOf(k) /\ Open(k) /\ Passed(PairsOf(k), TRUE)
          /\ Slowed(PairsOf(k) \ {n}, k \in shaped) /\ reg[n].ip \notin filters
          /\ Counts(k, PairsOf(k) \ {n})
          /\ task[t].pc = "setup" <=> PairsOf(k) = {n}
      BY <1>1, <2>0 DEF Stage, RegisterOK, RegisterPcs
    <2>2. /\ KeyElems(PairsOf(k)) = KeyElems(PairsOf(k) \ {n}) \cup KeyElems({n})
          /\ \A e \in KeyElems({n}) : e[1] = k
      <3>1. KeyElems({n}) = {<<k, reg[n].ip>>}
        BY <1>3 DEF KeyElems
      <3>2. KeyElems(PairsOf(k)) = KeyElems(PairsOf(k) \ {n}) \cup {<<k, reg[n].ip>>}
        BY <1>3, <2>1 DEF KeyElems
      <3> QED  BY <3>1, <3>2
    <2>3. Counts(k, PairsOf(k))'
      <3>1. /\ nft'.rules[k] = 1 /\ k \in nft'.sets /\ k \in nft'.counters
            /\ nft'.elems = nft.elems \cup KeyElems({n})
        <4>1. CASE task[t].pc = "setup"
          <5>1. nft.rules[k] = 0
            BY <2>1, <4>1 DEF Counts
          <5> QED  BY <1>5, <4>1, <5>1
        <4>2. CASE task[t].pc = "addIp"
          <5>1. PairsOf(k) \ {n} # {}
            BY <2>1, <4>2
          <5> QED  BY <1>5, <2>1, <4>2, <5>1 DEF Counts
        <4> QED  BY <1>1, <4>1, <4>2
      <3>2. {e \in nft.elems : e[1] = k} = KeyElems(PairsOf(k) \ {n})
        BY <2>1 DEF Counts
      <3>3. {e \in nft'.elems : e[1] = k} = KeyElems(PairsOf(k))
        BY <2>2, <3>1, <3>2
      <3>4. KeyElems(PairsOf(k))' = KeyElems(PairsOf(k)) /\ PairsOf(k)' # {}
        BY <1>1, <2>1 DEF KeyElems, PairsOf
      <3> QED  BY <3>1, <3>3, <3>4 DEF Counts
    <2>4. PairsOf(k)' = PairsOf(k) /\ Open(k)' = Open(k)
      BY <1>1 DEF PairsOf, Open
    <2>5. Passed(PairsOf(k), TRUE)' /\ Slowed(PairsOf(k) \ {n}, k \in shaped)'
      BY <1>1, <1>5, <2>1, <2>4, Carried
    <2>6. RegisterOK(t, k)'
      BY <1>1, <1>4, <2>1, <2>3, <2>4, <2>5 DEF RegisterOK
    <2>7. Stage(t, k)' /\ Working(t, k)'
      BY <1>4, <2>6 DEF Stage, Working, RemovalOK, KeyOK, ShapeOK, RemovalPcs,
         BetweenPcs
    <2> QED  BY <1>1, <1>3, <1>4, <2>0, <2>7, OwnNext
  <1> QED  BY <1>3, <1>4, <1>6, <1>7, <1>8, StepInv

LEMMA ShapeDeviceSync ==
    ASSUME TypeInv, TypeInv', DbInv, SyncInv, NEW t \in Threads, NEW k, NEW n,
           task[t].key = k, task[t].n = n, ShapeDevice(t)
    PROVE  SyncInv'
  <1>1. /\ task[t].pc = "shapeDevice" /\ Finish(t)
        /\ filters' = IF k \in shaped /\ n \in ipRows
                      THEN filters \cup {reg[n].ip} ELSE filters
        /\ UNCHANGED <<keyState, reg, pairRows, ipRows, macRows, nft, status,
                       shaped, irregular>>
    BY DEF ShapeDevice, OnShapedList, keyVars, rowVars, historyVars
  <1>2. /\ Working(t, k) /\ n \in 1..Len(reg) /\ n # 0
    BY <1>1 DEF Working, TypeInv, TaskType, DevicePcs
  <1>3. /\ status = "up" /\ k \in Keys /\ reg[n].key = k /\ Owns(n)
    BY <1>1, <1>2, WorkerOwns
  <1>4. /\ task'[t].pc = "idle" /\ TaskOK(t)' /\ OwnersOK(t)'
        /\ \A u \in Threads \ {t} : task'[u] = task[u]
    BY <1>1, FinishTask, FinishOK
  <1>5. \A h \in Keys : SameAccount(h)
    BY <1>1 DEF SameAccount
  <1>6. Owns(n)'
    BY <1>1, <1>3, OwnsKept
  <1>7. StepOf(t, k, {n})
    BY <1>1, <1>2, <1>3, <1>4, <1>5, <1>6 DEF StepOf, Elem
  <1>8. k \notin irregular =>
           /\ \A u \in Threads \ {t} : ~Working(u, k)
           /\ n \in PairsOf(k) /\ Open(k) /\ Passed(PairsOf(k), TRUE)
           /\ Slowed(PairsOf(k) \ {n}, k \in shaped) /\ reg[n].ip \notin filters
           /\ Counts(k, PairsOf(k))
    BY <1>1, <1>2, <1>3, Alone DEF Stage, RegisterOK, RegisterPcs
  <1>9. PassStep(t, k, {n}) /\ FilterStep(k, {n})
    BY <1>1, <1>3, <1>8 DEF PassStep, FilterStep, RemovalPcs, Live, PairsOf, Open
  <1>10. KeyInv(k)'
    <2> SUFFICES ASSUME k \notin irregular PROVE KeyInv(k)'
      BY <1>1 DEF KeyInv
    <2>1. PairsOf(k)' = PairsOf(k) /\ Open(k)' = Open(k) /\ Slow(k)' = Slow(k)
      BY <1>1 DEF PairsOf, Open, Slow
    <2>2. Slowed(PairsOf(k), Slow(k))'
      <3>1. \A p \in PairsOf(k) : p # n => reg[p].ip # reg[n].ip
        BY <1>3, OwnApart
      <3>2. n \in ipRows
        BY <1>8 DEF DbInv, PairsBacked, PairsOf
      <3>3. filters' = IF Slow(k) THEN filters \cup {reg[n].ip} ELSE filters
        BY <1>1, <1>8, <3>2 DEF Slow
      <3>4. \A p \in PairsOf(k) \ {n} : reg[p].ip \in filters <=> Slow(k)
        BY <1>8 DEF Slowed, Slow
      <3>5. \A p \in PairsOf(k) : reg[p].ip \in filters' <=> Slow(k)
        BY <1>8, <3>1, <3>3, <3>4
      <3> QED  BY <1>1, <2>1, <3>5 DEF Slowed
    <2>3. Passed(PairsOf(k), Open(k))' /\ Counts(k, Due(k, PairsOf(k)))'
      <3>1. Due(k, PairsOf(k))' = PairsOf(k)
        BY <1>8, <2>1 DEF Due
      <3> QED  BY <1>1, <1>3, <1>5, <1>8, <2>1, <3>1, Carried
    <2> QED  BY <1>1, <1>3, <1>4, <1>8, <2>2, <2>3, OwnNext DEF Rest, Working
  <1> QED  BY <1>3, <1>4, <1>7, <1>9, <1>10, StepInv

-----------------------------------------------------------------------------
(* Removal of a device *)

LEMMA DeletePairSync ==
    ASSUME TypeInv, TypeInv', DbInv, SyncInv, NEW t \in Threads, NEW k, NEW n,
           task[t].key = k, task[t].n = n, DeletePair(t)
    PROVE  SyncInv'
  <1>1. /\ task[t].pc = "delPair" /\ Goto(t, "delIp") /\ pairRows' = pairRows \ {n}
        /\ UNCHANGED <<keyState, reg, ipRows, macRows, nft, filters, status,
                       shaped, irregular>>
    BY DEF DeletePair, keyVars, kernelVars, historyVars
  <1>2. /\ status = "up" /\ k \in Keys /\ n \in 1..Len(reg) /\ reg[n].key = k
        /\ k \notin irregular => Stage(t, k) /\ \A u \in Threads \ {t} : ~Working(u, k)
    BY <1>1, Worker DEF DevicePcs
  <1>3. /\ task'[t].pc = "delIp" /\ task'[t].key = k /\ task'[t].n = n
        /\ \A u \in Threads \ {t} : task'[u] = task[u]
        /\ TaskOK(t)' /\ OwnersOK(t)'
    BY <1>1, GotoTask, GotoOK DEF RemovalPcs
  <1>4. StepOf(t, k, {})
    BY <1>1, <1>2, <1>3 DEF StepOf, SameAccount
  <1>5. k \notin irregular =>
           /\ Passed(PairsOf(k), Open(k)) /\ Exists(k)
           /\ Counts(k, Due(k, PairsOf(k)))
           /\ n \in PairsOf(k) /\ reg[n].ip \notin filters
           /\ Slowed(PairsOf(k) \ {n}, Slow(k))
    BY <1>1, <1>2 DEF Stage, RemovalOK
  <1>6. PassStep(t, k, {}) /\ FilterStep(k, {})
    BY <1>1, <1>3, <1>5 DEF PassStep, FilterStep, RemovalPcs, Live
  <1>7. ASSUME k \notin irregular PROVE Working(t, k)' /\ Stage(t, k)'
    <2>1. /\ PairsOf(k)' = PairsOf(k) \ {n} /\ Open(k)' = Open(k)
          /\ Slow(k)' = Slow(k) /\ Exists(k)' = Exists(k)
      BY <1>1 DEF PairsOf, Open, Slow, Exists
    <2>2. /\ Passed(PairsOf(k) \ {n}, Open(k))' /\ Slowed(PairsOf(k), Slow(k))'
      BY <1>1, <1>5, <1>7, <2>1 DEF Passed, Slowed, Elem
    <2>3. Counts(k, Due(k, PairsOf(k) \cup {n}))'
      <3>1. Due(k, PairsOf(k) \cup {n})' = Due(k, PairsOf(k))
        BY <1>5, <1>7, <2>1 DEF Due
      <3> QED  BY <1>1, <1>5, <1>7, <3>1, Carried DEF SameAccount
    <2>4. n \in ipRows /\ n \in macRows
      BY <1>5, <1>7 DEF DbInv, PairsBacked, PairsOf
    <2>5. RemovalOK(t, k)'
      BY <1>1, <1>3, <1>5, <1>7, <2>1, <2>2, <2>3, <2>4
         DEF RemovalOK, RemovalPcs, BetweenPcs
    <2> QED  BY <1>3, <2>5 DEF Stage, Working, RegisterOK, KeyOK, ShapeOK, RegisterPcs
  <1> QED  BY <1>1, <1>2, <1>3, <1>4, <1>6, <1>7, WorkerStep

\* The other two rows: with a regular key they are still there.
LEMMA DeleteRowSync ==
    ASSUME TypeInv, TypeInv', DbInv, SyncInv, NEW t \in Threads, NEW k, NEW n,
           task[t].key = k, task[t].n = n, DeleteIp(t) \/ DeleteMac(t)
    PROVE  SyncInv'
  <1>1. /\ UNCHANGED <<keyState, reg, pairRows, nft, filters, status, shaped,
                       irregular>>
        /\ \/ /\ task[t].pc = "delIp" /\ ipRows' = ipRows \ {n} /\ macRows' = macRows
              /\ Goto(t, IF n \in ipRows THEN "delMac" ELSE "relock")
           \/ /\ task[t].pc = "delMac" /\ macRows' = macRows \ {n} /\ ipRows' = ipRows
              /\ Goto(t, IF n \in macRows THEN "unaccount" ELSE "relock")
    BY DEF DeleteIp, DeleteMac, keyVars, kernelVars, historyVars
  <1>2. /\ status = "up" /\ k \in Keys /\ n \in 1..Len(reg) /\ reg[n].key = k
        /\ k \notin irregular => Stage(t, k) /\ \A u \in Threads \ {t} : ~Working(u, k)
    BY <1>1, Worker DEF DevicePcs
  <1>3. /\ \/ /\ task[t].pc = "delIp"
              /\ task'[t].pc = IF n \in ipRows THEN "delMac" ELSE "relock"
           \/ /\ task[t].pc = "delMac"
              /\ task'[t].pc = IF n \in macRows THEN "unaccount" ELSE "relock"
        /\ task'[t].key = k /\ task'[t].n = n
        /\ \A u \in Threads \ {t} : task'[u] = task[u]
        /\ TaskOK(t)' /\ OwnersOK(t)'
    <2>1. PICK pc \in {"delMac", "unaccount", "relock"} : Goto(t, pc)
      BY <1>1
    <2>2. /\ task'[t].key = k /\ task'[t].n = n
          /\ \A u \in Threads \ {t} : task'[u] = task[u]
          /\ TaskOK(t)' /\ OwnersOK(t)'
      BY <1>1, <2>1, GotoTask, GotoOK DEF RemovalPcs
    <2> QED  BY <1>1, <2>2, GotoTask
  <1>4. StepOf(t, k, {})
    BY <1>1, <1>2, <1>3 DEF StepOf, SameAccount
  <1>5. k \notin irregular =>
           /\ Passed(PairsOf(k), Open(k)) /\ Exists(k) /\ Slowed(PairsOf(k), Slow(k))
           /\ Counts(k, Due(k, PairsOf(k) \cup {n})) /\ n \notin PairsOf(k)
           /\ task[t].pc = "delIp" => n \in ipRows
           /\ n \in macRows
    BY <1>1, <1>2 DEF Stage, RemovalOK, RemovalPcs
  <1>6. PassStep(t, k, {}) /\ FilterStep(k, {})
    BY <1>1, <1>3 DEF PassStep, FilterStep, RemovalPcs, Live
  <1>7. ASSUME k \notin irregular PROVE Working(t, k)' /\ Stage(t, k)'
    <2>1. /\ PairsOf(k)' = PairsOf(k) /\ Open(k)' = Open(k)
          /\ Slow(k)' = Slow(k) /\ Exists(k)' = Exists(k)
          /\ Due(k, PairsOf(k) \cup {n})' = Due(k, PairsOf(k) \cup {n})
      BY <1>1 DEF PairsOf, Open, Slow, Exists, Due
    <2>2. /\ Passed(PairsOf(k), Open(k))' /\ Slowed(PairsOf(k), Slow(k))'
          /\ Counts(k, Due(k, PairsOf(k) \cup {n}))'
      BY <1>1, <1>5, <1>7, <2>1, Carried DEF SameAccount
    <2>3. /\ task'[t].pc \in {"delMac", "unaccount"}
          /\ task'[t].pc = "delMac" => n \in macRows'
      BY <1>1, <1>3, <1>5, <1>7
    <2>4. RemovalOK(t, k)'
      BY <1>3, <1>5, <1>7, <2>1, <2>2, <2>3 DEF RemovalOK, RemovalPcs, BetweenPcs
    <2> QED  BY <1>3, <2>3, <2>4 DEF Stage, Working, RegisterOK, KeyOK, ShapeOK, RegisterPcs
  <1> QED  BY <1>1, <1>2, <1>3, <1>4, <1>6, <1>7, WorkerStep

\* The address of the device leaves its key's set; no other device of the key
\* has the same address.
LEMMA UnaccountSync ==
    ASSUME TypeInv, TypeInv', DbInv, SyncInv, NEW t \in Threads, NEW k, NEW n,
           task[t].key = k, task[t].n = n, Unaccount(t)
    PROVE  SyncInv'
  <1>1. /\ UNCHANGED <<keyState, reg, pairRows, ipRows, macRows, filters, status,
                       shaped, irregular>>
        /\ task[t].pc = "unaccount"
        /\ \/ ~Exists(k) /\ Goto(t, "relock") /\ nft' = nft
           \/ /\ Exists(k) /\ nft' = DeleteKeyElems(nft, KeyElems({n}))
              /\ Goto(t, IF PairsOf(k) = {} THEN "teardown" ELSE "relock")
    BY DEF Unaccount, keyVars, rowVars, historyVars
  <1>2. /\ status = "up" /\ k \in Keys /\ n \in 1..Len(reg) /\ reg[n].key = k /\ Owns(n)
        /\ k \notin irregular => Stage(t, k) /\ \A u \in Threads \ {t} : ~Working(u, k)
    BY <1>1, Worker DEF DevicePcs
  <1>3. /\ task'[t].pc = IF Exists(k) /\ PairsOf(k) = {} THEN "teardown" ELSE "relock"
        /\ task'[t].key = k /\ task'[t].n = n
        /\ \A u \in Threads \ {t} : task'[u] = task[u]
        /\ TaskOK(t)' /\ OwnersOK(t)'
    <2>1. PICK pc \in {"teardown", "relock"} :
             pc = IF Exists(k) /\ PairsOf(k) = {} THEN "teardown" ELSE "relock"
      OBVIOUS
    <2>2. Goto(t, pc)
      BY <1>1, <2>1
    <2> QED  BY <1>1, <2>1, <2>2, GotoTask, GotoOK DEF RemovalPcs
  <1>4. /\ nft'.registered = nft.registered
        /\ nft'.rules = nft.rules /\ nft'.sets = nft.sets /\ nft'.counters = nft.counters
        /\ Exists(k) => nft'.elems = nft.elems \ {<<k, reg[n].ip>>}
        /\ \A h \in Keys \ {k} : SameAccount(h)
    <2>1. KeyElems({n}) = {<<k, reg[n].ip>>} /\ nft \in Table
      BY <1>2 DEF KeyElems, TypeInv, KernelType
    <2>2. CASE Exists(k)
      <3>1. nft' = DeleteKeyElems(nft, {<<k, reg[n].ip>>})
        BY <1>1, <2>1, <2>2
      <3> QED  BY <2>1, <3>1, KeyElemFields DEF SameAccount
    <2>3. CASE ~Exists(k)
      <3>1. nft' = nft
        BY <1>1, <2>3
      <3> QED  BY <2>3, <3>1 DEF SameAccount
    <2> QED  BY <2>2, <2>3
  <1>5. StepOf(t, k, {})
    BY <1>1, <1>2, <1>3, <1>4 DEF StepOf
  <1>6. k \notin irregular =>
           /\ Passed(PairsOf(k), Open(k)) /\ Exists(k) /\ Slowed(PairsOf(k), Slow(k))
           /\ Counts(k, Due(k, PairsOf(k) \cup {n})) /\ n \notin PairsOf(k)
    BY <1>1, <1>2 DEF Stage, RemovalOK, RemovalPcs
  <1>7. PassStep(t, k, {}) /\ FilterStep(k, {})
    BY <1>1, <1>3, <1>4 DEF PassStep, FilterStep, RemovalPcs, Live
  <1>8. ASSUME k \notin irregular PROVE Working(t, k)' /\ Stage(t, k)'
    <2>1. /\ PairsOf(k)' = PairsOf(k) /\ Open(k)' = Open(k)
          /\ Slow(k)' = Slow(k) /\ Exists(k)' = Exists(k)
          /\ \A S : KeyElems(S)' = KeyElems(S)
      BY <1>1 DEF PairsOf, Open, Slow, Exists, KeyElems
    <2>2. /\ Passed(PairsOf(k), Open(k))' /\ Slowed(PairsOf(k), Slow(k))'
      BY <1>1, <1>4, <1>6, <1>8, <2>1, Carried
    <2>3. {e \in nft'.elems : e[1] = k} = KeyElems(Due(k, PairsOf(k)))
      <3>1. {e \in nft'.elems : e[1] = k} =
               {e \in nft.elems : e[1] = k} \ {<<k, reg[n].ip>>}
        BY <1>4, <1>6, <1>8
      <3>2. {e \in nft.elems : e[1] = k} = KeyElems(Due(k, PairsOf(k) \cup {n}))
        BY <1>6, <1>8 DEF Counts
      <3>3. \A p \in PairsOf(k) : <<reg[p].key, reg[p].ip>> # <<k, reg[n].ip>>
        BY <1>2, <1>6, <1>8, OwnApart
      <3>4. KeyElems(PairsOf(k) \cup {n}) = KeyElems(PairsOf(k)) \cup {<<k, reg[n].ip>>}
        BY <1>2 DEF KeyElems
      <3>5. <<k, reg[n].ip>> \notin KeyElems(PairsOf(k))
        BY <3>3 DEF KeyElems
      <3>6. KeyElems({}) = {}
        BY DEF KeyElems
      <3> QED  BY <3>1, <3>2, <3>4, <3>5, <3>6 DEF Due
    <2>4. CASE PairsOf(k) = {}
      <3>1. KeyElems(Due(k, PairsOf(k))) = {}
        BY <2>4 DEF KeyElems, Due
      <3>2. RemovalOK(t, k)'
        BY <1>3, <1>6, <1>8, <2>1, <2>2, <2>3, <2>4, <3>1
           DEF RemovalOK, RemovalPcs, BetweenPcs
      <3> QED  BY <1>3, <3>2 DEF Stage, Working, RegisterOK, KeyOK, ShapeOK, RegisterPcs
    <2>5. CASE PairsOf(k) # {}
      <3>1. Due(k, PairsOf(k) \cup {n}) = {} <=> Due(k, PairsOf(k)) = {}
        BY <2>5 DEF Due
      <3>2. Due(k, PairsOf(k))' = Due(k, PairsOf(k))
        BY <2>1 DEF Due
      <3>3. Counts(k, Due(k, PairsOf(k)))'
        BY <1>4, <1>6, <1>8, <2>1, <2>3, <3>1, <3>2 DEF Counts
      <3>4. RemovalOK(t, k)'
        BY <1>3, <1>6, <1>8, <2>1, <2>2, <2>5, <3>3 DEF RemovalOK, RemovalPcs, BetweenPcs
      <3> QED  BY <1>3, <2>5, <3>4 DEF Stage, Working, RegisterOK, KeyOK, ShapeOK, RegisterPcs
    <2> QED  BY <2>4, <2>5
  <1> QED  BY <1>1, <1>2, <1>3, <1>5, <1>7, <1>8, WorkerStep

LEMMA TeardownSync ==
    ASSUME TypeInv, TypeInv', DbInv, SyncInv, NEW t \in Threads, NEW k, NEW n,
           task[t].key = k, task[t].n = n, Teardown(t)
    PROVE  SyncInv'
  <1>1. /\ UNCHANGED <<keyState, reg, pairRows, ipRows, macRows, filters, status,
                       shaped, irregular>>
        /\ task[t].pc = "teardown" /\ Goto(t, "relock")
        /\ nft' = DeleteAccounting(nft, k)
    BY DEF Teardown, keyVars, rowVars, historyVars
  <1>2. /\ status = "up" /\ k \in Keys /\ n \in 1..Len(reg) /\ reg[n].key = k
        /\ k \notin irregular => Stage(t, k) /\ \A u \in Threads \ {t} : ~Working(u, k)
    BY <1>1, Worker DEF DevicePcs
  <1>3. /\ task'[t].pc = "relock" /\ task'[t].key = k /\ task'[t].n = n
        /\ \A u \in Threads \ {t} : task'[u] = task[u]
        /\ TaskOK(t)' /\ OwnersOK(t)'
    BY <1>1, GotoTask, GotoOK DEF RemovalPcs
  <1>4. /\ nft'.registered = nft.registered
        /\ \A h \in Keys \ {k} : SameAccount(h)
        /\ nft'.rules[k] = 0 /\ k \notin nft'.sets /\ k \notin nft'.counters
        /\ {e \in nft'.elems : e[1] = k} = {}
    BY <1>1, <1>2, TornDown
  <1>5. StepOf(t, k, {})
    BY <1>1, <1>2, <1>3, <1>4 DEF StepOf
  <1>6. k \notin irregular =>
           /\ Passed(PairsOf(k), Open(k)) /\ Exists(k) /\ Slowed(PairsOf(k), Slow(k))
           /\ PairsOf(k) = {}
    BY <1>1, <1>2 DEF Stage, RemovalOK, RemovalPcs
  <1>7. PassStep(t, k, {}) /\ FilterStep(k, {})
    BY <1>1, <1>3, <1>4 DEF PassStep, FilterStep, RemovalPcs, Live
  <1>8. ASSUME k \notin irregular PROVE Working(t, k)' /\ Stage(t, k)'
    <2>1. /\ PairsOf(k)' = PairsOf(k) /\ Open(k)' = Open(k)
          /\ Slow(k)' = Slow(k) /\ Exists(k)' = Exists(k)
      BY <1>1 DEF PairsOf, Open, Slow, Exists
    <2>2. /\ Passed(PairsOf(k), Open(k))' /\ Slowed(PairsOf(k), Slow(k))'
      BY <1>1, <1>4, <1>6, <1>8, <2>1, Carried
    <2>3. Counts(k, Due(k, PairsOf(k)))'
      <3>1. Due(k, PairsOf(k))' = {} /\ KeyElems({})' = {}
        BY <1>6, <1>8, <2>1 DEF Due, KeyElems
      <3> QED  BY <1>4, <3>1 DEF Counts
    <2>4. RemovalOK(t, k)'
      BY <1>3, <1>6, <1>8, <2>1, <2>2, <2>3 DEF RemovalOK, RemovalPcs, BetweenPcs
    <2> QED  BY <1>3, <2>4 DEF Stage, Working, RegisterOK, KeyOK, ShapeOK, RegisterPcs
  <1> QED  BY <1>1, <1>2, <1>3, <1>5, <1>7, <1>8, WorkerStep

LEMMA RelockSync ==
    ASSUME TypeInv, TypeInv', DbInv, SyncInv, NEW t \in Threads, NEW k, NEW n,
           task[t].key = k, task[t].n = n, Relock(t)
    PROVE  SyncInv'
  <1>1. /\ UNCHANGED <<keyState, reg, pairRows, ipRows, macRows, filters, status,
                       shaped, irregular>>
        /\ task[t].pc = "relock"
        /\ nft' = DeleteAllocations(nft, {Elem(n)})
        /\ \/ task[t].op # "deregister" /\ Goto(t, "delTraffic")
           \/ task[t].op # "deregister" /\ Goto(t, "next")
           \/ Finish(t)
    BY DEF Relock, keyVars, rowVars, historyVars
  <1>2. /\ status = "up" /\ k \in Keys /\ n \in 1..Len(reg) /\ reg[n].key = k /\ Owns(n)
        /\ k \notin irregular => Stage(t, k) /\ \A u \in Threads \ {t} : ~Working(u, k)
    BY <1>1, Worker DEF DevicePcs
  <1>3. /\ \/ task'[t].pc \in {"delTraffic", "next"} /\ task'[t].key = k
           \/ task'[t].pc = "idle"
        /\ \A u \in Threads \ {t} : task'[u] = task[u]
        /\ TaskOK(t)' /\ OwnersOK(t)'
    <2>1. CASE Finish(t)
      BY <2>1, FinishTask, FinishOK
    <2>2. ASSUME NEW pc \in {"delTraffic", "next"}, Goto(t, pc), task[t].op # "deregister"
          PROVE  /\ task'[t].pc = pc /\ task'[t].key = k
                 /\ \A u \in Threads \ {t} : task'[u] = task[u]
                 /\ TaskOK(t)' /\ OwnersOK(t)'
      BY <1>1, <2>2, GotoTask, GotoOK
    <2> QED  BY <1>1, <2>1, <2>2
  <1>4. /\ nft'.registered = nft.registered \ {Elem(n)}
        /\ \A h \in Keys : SameAccount(h)
    <2>1. nft \in Table
      BY DEF TypeInv, KernelType
    <2> QED  BY <1>1, <2>1, AllocationFields DEF SameAccount
  <1>5. StepOf(t, k, {n})
    <2>1. Owns(n)'
      BY <1>1, <1>2, OwnsKept
    <2> QED  BY <1>1, <1>2, <1>3, <1>4, <2>1 DEF StepOf, Elem
  <1>6. k \notin irregular =>
           /\ Passed(PairsOf(k), Open(k)) /\ Exists(k) /\ Slowed(PairsOf(k), Slow(k))
           /\ Counts(k, Due(k, PairsOf(k)))
           /\ n \in PairsOf(k) => ~Open(k)
    BY <1>1, <1>2 DEF Stage, RemovalOK, RemovalPcs
  <1>7. PassStep(t, k, {n}) /\ FilterStep(k, {n})
    BY <1>1, <1>3, <1>4 DEF PassStep, FilterStep, RemovalPcs, Live
  <1>8. ASSUME k \notin irregular
        PROVE  \/ Working(t, k)' /\ Stage(t, k)'
               \/ ~Working(t, k)' /\ Rest(k)'
    <2>1. /\ PairsOf(k)' = PairsOf(k) /\ Open(k)' = Open(k)
          /\ Slow(k)' = Slow(k) /\ Exists(k)' = Exists(k)
          /\ Due(k, PairsOf(k))' = Due(k, PairsOf(k))
      BY <1>1 DEF PairsOf, Open, Slow, Exists, Due
    <2>2. Slowed(PairsOf(k), Slow(k))' /\ Counts(k, Due(k, PairsOf(k)))'
      BY <1>1, <1>2, <1>4, <1>6, <1>8, <2>1, Carried
    <2>3. Passed(PairsOf(k), Open(k))'
      <3>1. \A p \in PairsOf(k) : p # n => Elem(p) # Elem(n)
        BY <1>2, <1>8, OwnApart
      <3>2. \A p \in PairsOf(k) : Elem(p) \in nft'.registered <=> Open(k)
        BY <1>4, <1>6, <1>8, <3>1 DEF Passed
      <3> QED  BY <1>1, <2>1, <3>2 DEF Passed, Elem
    <2>4. CASE task'[t].pc = "idle"
      BY <2>2, <2>3, <2>4 DEF Rest, Working
    <2>5. CASE task'[t].pc \in {"delTraffic", "next"} /\ task'[t].key = k
      <3>1. RemovalOK(t, k)'
        BY <1>6, <1>8, <2>1, <2>2, <2>3, <2>5 DEF RemovalOK, RemovalPcs, BetweenPcs
      <3> QED  BY <2>5, <3>1 DEF Stage, Working, RegisterOK, KeyOK, ShapeOK, RegisterPcs
    <2> QED  BY <1>3, <2>4, <2>5
  <1> QED  BY <1>1, <1>2, <1>3, <1>5, <1>7, <1>8, WorkerStep

-----------------------------------------------------------------------------
(* Handlers that begin *)

\* A handler that overlaps with another one marks its key.
LEMMA NoOverlap ==
    ASSUME NEW t \in Threads, NEW k, NEW ips,
           Overlap(t, k, ips) \subseteq irregular', k \notin irregular'
    PROVE  \A u \in Threads \ {t} : ~Touches(u, k, ips) /\ ~Working(u, k)
  <1>1. SUFFICES ASSUME NEW u \in Threads \ {t}, Touches(u, k, ips) \/ Working(u, k)
                 PROVE  k \in Overlap(t, k, ips)
    OBVIOUS
  <1>2. Touches(u, k, ips)
    BY <1>1 DEF Touches, Working
  <1> QED  BY <1>2 DEF Overlap

\* So a handler that begins for a regular key finds it at rest.
LEMMA AtRest ==
    ASSUME SyncInv, status = "up", NEW k \in Keys, k \notin irregular,
           \A u \in Threads : ~Working(u, k)
    PROVE  Rest(k)
  BY DEF SyncInv, KeysInv, KeyInv

LEMMA LoadDeviceSync ==
    ASSUME TypeInv, TypeInv', DbInv, SyncInv, NEW t \in Threads, NEW k \in Keys, NEW op,
           NEW n \in pairRows, NEW todo, NEW marked, reg[n].key = k,
           LoadDevice(t, op, n, todo, marked),
           UNCHANGED <<keyVars, rowVars, nft, status, shaped, stops, torn>>,
           status = "up", task[t].pc = "idle" \/ task[t].key = k,
           task[t].pc \notin RemovalPcs,
           \A m \in todo : m \in 1..Len(reg) /\ reg[m].key = k /\ Owns(m),
           k \notin irregular' =>
              Rest(k) /\ \A u \in Threads \ {t} : ~Working(u, k)
    PROVE  SyncInv'
  <1>1. /\ UNCHANGED <<keyState, reg, pairRows, ipRows, macRows, nft, status, shaped>>
        /\ irregular' = irregular \cup marked
        /\ filters' = IF k \in shaped THEN filters \ {reg[n].ip} ELSE filters
        /\ \/ /\ k \in shaped /\ reg[n].ip \notin filters
              /\ Begin(t, "relock", op, k, n, todo)
           \/ /\ k \in shaped => reg[n].ip \in filters
              /\ Begin(t, "delPair", op, k, n, todo)
    BY DEF LoadDevice, Mark, OnShapedList, Unfiltered, keyVars, rowVars
  <1>2. n \in 1..Len(reg) /\ Owns(n) /\ n \in PairsOf(k) /\ Len(reg) \in Nat
    BY PresentOwns DEF TypeInv, RowsType, PairsOf
  <1>3. /\ task'[t].pc \in {"relock", "delPair"}
        /\ task'[t].pc = "relock" => k \in shaped /\ reg[n].ip \notin filters
        /\ task'[t].pc = "delPair" /\ k \in shaped => reg[n].ip \in filters
        /\ task'[t].key = k /\ task'[t].n = n /\ task'[t].todo = todo
        /\ \A u \in Threads \ {t} : task'[u] = task[u]
    BY <1>1, BeginTask
  <1>4. TaskOK(t)'
    <2>1. keyState[k] # "none"
      BY <1>2 DEF SyncInv, LifeInv
    <2> QED  BY <1>1, <1>3, <2>1 DEF TaskOK, RemovalPcs
  <1>5. OwnersOK(t)' /\ Owns(n)'
    <2>1. \A m : Owns(m) => Owns(m)'
      BY <1>1 DEF Owns
    <2> QED  BY <1>2, <1>3, <2>1 DEF OwnersOK
  <1>6. StepOf(t, k, {n})
    BY <1>1, <1>2, <1>3, <1>5 DEF StepOf, SameAccount, Elem
  <1>7. PassStep(t, k, {n}) /\ FilterStep(k, {n})
    BY <1>1 DEF PassStep, FilterStep, Live
  <1>8. ASSUME k \notin irregular' PROVE Working(t, k)' /\ Stage(t, k)'
    <2>1. /\ PairsOf(k)' = PairsOf(k) /\ Open(k)' = Open(k)
          /\ Slow(k)' = Slow(k) /\ Exists(k)' = Exists(k)
          /\ Due(k, PairsOf(k))' = Due(k, PairsOf(k))
      BY <1>1 DEF PairsOf, Open, Slow, Exists, Due
    <2>2. Exists(k)
      BY DEF DbInv, PairsBacked
    <2>3. Passed(PairsOf(k), Open(k))' /\ Counts(k, Due(k, PairsOf(k)))'
      BY <1>1, <1>8, <2>1, Carried DEF Rest, SameAccount
    <2>4. \A p \in PairsOf(k) : reg[p].ip \in filters <=> Slow(k)
      BY <1>8 DEF Rest, Slowed
    <2>5. \A p \in PairsOf(k) : p # n => reg[p].ip # reg[n].ip
      BY <1>1, <1>2, <1>8, OwnApart
    <2>6. \A p \in PairsOf(k) \ {n} : reg[p].ip \in filters' <=> Slow(k)
      BY <1>1, <2>4, <2>5
    <2>7. CASE task'[t].pc = "relock"
      <3>1. ~Slow(k) /\ ~Open(k)
        BY <1>2, <1>3, <2>4, <2>7 DEF Slow
      <3>2. \A p \in PairsOf(k) : reg[p].ip \in filters' <=> Slow(k)
        BY <1>1, <1>3, <2>4, <2>7
      <3>3. Slowed(PairsOf(k), Slow(k))'
        BY <1>1, <2>1, <3>2 DEF Slowed
      <3>4. RemovalOK(t, k)'
        BY <1>3, <2>1, <2>2, <2>3, <2>7, <3>1, <3>3
           DEF RemovalOK, RemovalPcs, BetweenPcs
      <3> QED  BY <1>3, <2>7, <3>4 DEF Stage, Working, RegisterOK, KeyOK, ShapeOK, RegisterPcs
    <2>8. CASE task'[t].pc = "delPair"
      <3>1. reg[n].ip \notin filters'
        BY <1>1, <1>2, <2>4 DEF Slow
      <3>2. Slowed(PairsOf(k) \ {n}, Slow(k))'
        BY <1>1, <2>1, <2>6 DEF Slowed
      <3>3. RemovalOK(t, k)'
        BY <1>1, <1>2, <1>3, <2>1, <2>2, <2>3, <2>8, <3>1, <3>2
           DEF RemovalOK, RemovalPcs, BetweenPcs
      <3> QED  BY <1>3, <2>8, <3>3 DEF Stage, Working, RegisterOK, KeyOK, ShapeOK, RegisterPcs
    <2> QED  BY <1>3, <2>7, <2>8
  <1>9. k \notin irregular' => \A u \in Threads \ {t} : ~Working(u, k)
    OBVIOUS
  <1> QED  BY <1>4, <1>5, <1>6, <1>7, <1>8, <1>9, WorkerStep

LEMMA BeginDeregisterSync ==
    ASSUME TypeInv, TypeInv', DbInv, SyncInv, NEW n \in pairRows, BeginDeregister(n)
    PROVE  SyncInv'
  <1>1. PICK k \in Keys : k = reg[n].key
    BY RegistrationType DEF TypeInv, RowsType
  <1>2. /\ status = "up" /\ task["rpc"].pc = "idle" /\ "rpc" \in Threads
        /\ LoadDevice("rpc", "deregister", n, {}, Overlap("rpc", k, {reg[n].ip}))
        /\ UNCHANGED <<keyVars, rowVars, nft, status, shaped, stops, torn>>
        /\ irregular' = irregular \cup Overlap("rpc", k, {reg[n].ip})
    BY <1>1 DEF BeginDeregister, IsIdle, LoadDevice, Mark, Threads
  <1>3. ASSUME k \notin irregular'
        PROVE  Rest(k) /\ \A u \in Threads \ {"rpc"} : ~Working(u, k)
    <2>1. \A u \in Threads \ {"rpc"} : ~Working(u, k)
      BY <1>2, <1>3, NoOverlap
    <2>2. \A u \in Threads : ~Working(u, k)
      BY <1>2, <2>1 DEF Working
    <2> QED  BY <1>2, <1>3, <2>1, <2>2, AtRest
  <1>4. task["rpc"].pc \notin RemovalPcs /\ reg[n].key = k
    BY <1>1, <1>2 DEF RemovalPcs
  <1> DEFINE t == "rpc"
             op == "deregister"
             none == {}
             marked == Overlap("rpc", k, {reg[n].ip})
  <1>5. \A m \in none : m \in 1..Len(reg) /\ reg[m].key = k /\ Owns(m)
    OBVIOUS
  <1>6. /\ t \in Threads /\ LoadDevice(t, op, n, none, marked)
        /\ task[t].pc = "idle" /\ task[t].pc \notin RemovalPcs
        /\ k \notin irregular' =>
              Rest(k) /\ \A u \in Threads \ {t} : ~Working(u, k)
    BY <1>2, <1>3, <1>4
  <1> HIDE DEF t, op, none, marked
  <1> QED  BY <1>2, <1>4, <1>5, <1>6, LoadDeviceSync

LEMMA BeginRemovalSync ==
    ASSUME TypeInv, TypeInv', DbInv, SyncInv, NEW t \in Threads, NEW op, NEW k \in Keys,
           status = "up", IsIdle(t), BeginRemoval(t, op, k),
           UNCHANGED <<keyVars, rowVars, nft, status, shaped, stops, torn>>
    PROVE  SyncInv'
  <1>1. PICK n \in PairsOf(k) :
           LoadDevice(t, op, n, PairsOf(k) \ {n}, Overlap(t, k, IpsOf(PairsOf(k))))
    BY DEF BeginRemoval
  <1>2. /\ n \in pairRows /\ reg[n].key = k /\ task[t].pc = "idle"
        /\ irregular' = irregular \cup Overlap(t, k, IpsOf(PairsOf(k)))
    BY <1>1 DEF PairsOf, IsIdle, LoadDevice, Mark
  <1>3. \A m \in PairsOf(k) \ {n} : m \in 1..Len(reg) /\ reg[m].key = k /\ Owns(m)
    BY PairsType, PresentOwns DEF TypeInv, PairsOf
  <1>4. ASSUME k \notin irregular'
        PROVE  Rest(k) /\ \A u \in Threads \ {t} : ~Working(u, k)
    <2>1. \A u \in Threads \ {t} : ~Working(u, k)
      BY <1>2, <1>4, NoOverlap
    <2>2. \A u \in Threads : ~Working(u, k)
      BY <1>2, <2>1 DEF Working
    <2> QED  BY <1>2, <1>4, <2>1, <2>2, AtRest
  <1> QED  BY <1>1, <1>2, <1>3, <1>4, LoadDeviceSync DEF RemovalPcs

LEMMA NextDeviceSync ==
    ASSUME TypeInv, TypeInv', DbInv, SyncInv, NEW t \in Threads, NEW k, NEW j,
           task[t].key = k, task[t].n = j, NextDevice(t)
    PROVE  SyncInv'
  <1>1. /\ task[t].pc = "next"
        /\ UNCHANGED <<keyVars, rowVars, nft, status, shaped, stops, torn>>
        /\ \E n \in task[t].todo :
              \/ n \in pairRows /\ LoadDevice(t, task[t].op, n, task[t].todo \ {n}, {})
              \/ Finish(t) /\ UNCHANGED <<filters, irregular>>
    BY DEF NextDevice
  <1>2. /\ status = "up" /\ k \in Keys
        /\ \A m \in task[t].todo : m \in 1..Len(reg) /\ reg[m].key = k /\ Owns(m)
        /\ k \notin irregular => Stage(t, k) /\ \A u \in Threads \ {t} : ~Working(u, k)
    BY <1>1, Worker
  <1>3. k \notin irregular => Rest(k)
    BY <1>1, <1>2 DEF Stage, RemovalOK, BetweenPcs, Rest
  <1>4. ASSUME NEW n \in task[t].todo, n \in pairRows,
               LoadDevice(t, task[t].op, n, task[t].todo \ {n}, {})
        PROVE  SyncInv'
    <2>1. irregular' = irregular
      BY <1>4 DEF LoadDevice, Mark
    <2>2. reg[n].key = k
      BY <1>2
    <2>3. \A m \in task[t].todo \ {n} : m \in 1..Len(reg) /\ reg[m].key = k /\ Owns(m)
      BY <1>2
    <2> QED  BY <1>1, <1>2, <1>3, <1>4, <2>1, <2>2, <2>3, LoadDeviceSync DEF RemovalPcs
  <1>5. ASSUME Finish(t), UNCHANGED <<filters, irregular>>
        PROVE  SyncInv'
    <2>1. UNCHANGED <<keyState, reg, pairRows, ipRows, macRows, nft, filters, status,
                      shaped, irregular>>
      BY <1>1, <1>5 DEF keyVars, rowVars
    <2>2. /\ task'[t].pc = "idle" /\ TaskOK(t)' /\ OwnersOK(t)'
          /\ \A u \in Threads \ {t} : task'[u] = task[u]
      BY <1>5, FinishTask, FinishOK
    <2>3. StepOf(t, k, {})
      BY <1>2, <2>1, <2>2 DEF StepOf, SameAccount
    <2>4. PassStep(t, k, {}) /\ FilterStep(k, {})
      BY <1>1, <2>1 DEF PassStep, FilterStep, RemovalPcs, Live
    <2>5. Rest(k) => Rest(k)' /\ ~Working(t, k)'
      BY <2>1, <2>2, StillAtRest DEF Working
    <2> QED  BY <1>2, <1>3, <2>1, <2>2, <2>3, <2>4, <2>5, WorkerStep
  <1> QED  BY <1>1, <1>4, <1>5

-----------------------------------------------------------------------------
(* Deletion of a key *)

LEMMA BeginDeleteSync ==
    ASSUME TypeInv, TypeInv', DbInv, SyncInv, NEW t \in Threads, NEW k \in Keys,
           BeginDelete(t, k)
    PROVE  SyncInv'
  <1>1. /\ status = "up" /\ IsIdle(t) /\ Exists(k)
        /\ UNCHANGED <<keyVars, rowVars, nft, status, shaped, stops, torn>>
    BY DEF BeginDelete
  <1>2. CASE BeginRemoval(t, "delete", k)
    BY <1>1, <1>2, BeginRemovalSync
  <1>3. ASSUME PairsOf(k) = {}, Begin(t, "delTraffic", "delete", k, 0, {}),
               Mark(Overlap(t, k, {})), filters' = filters
        PROVE  SyncInv'
    <2>1. /\ UNCHANGED <<keyState, reg, pairRows, ipRows, macRows, nft, filters, status,
                         shaped>>
          /\ irregular' = irregular \cup Overlap(t, k, {}) /\ task[t].pc = "idle"
      BY <1>1, <1>3 DEF keyVars, rowVars, Mark, IsIdle
    <2>2. /\ task'[t].pc = "delTraffic" /\ task'[t].op = "delete" /\ task'[t].key = k
          /\ task'[t].n = 0 /\ task'[t].todo = {}
          /\ \A u \in Threads \ {t} : task'[u] = task[u]
      BY <1>3, BeginTask
    <2>3. TaskOK(t)' /\ OwnersOK(t)'
      BY <1>1, <2>1, <2>2 DEF TaskOK, OwnersOK, Exists
    <2>4. StepOf(t, k, {})
      BY <1>1, <2>1, <2>2 DEF StepOf, SameAccount
    <2>5. PassStep(t, k, {}) /\ FilterStep(k, {})
      BY <2>1 DEF PassStep, FilterStep, RemovalPcs, Live
    <2>6. ASSUME k \notin irregular'
          PROVE  /\ \A u \in Threads \ {t} : ~Working(u, k)
                 /\ Working(t, k)' /\ Stage(t, k)'
      <3>1. \A u \in Threads \ {t} : ~Working(u, k)
        BY <2>1, <2>6, NoOverlap
      <3>2. Rest(k)
        <4>1. \A u \in Threads : ~Working(u, k)
          BY <2>1, <3>1 DEF Working
        <4> QED  BY <1>1, <2>1, <2>6, <4>1, AtRest
      <3>3. Rest(k)' /\ Exists(k)'
        BY <1>1, <2>1, <3>2, StillAtRest DEF Exists
      <3>4. RemovalOK(t, k)'
        BY <2>2, <3>3 DEF RemovalOK, RemovalPcs, BetweenPcs, Rest
      <3> QED  BY <2>2, <3>1, <3>4
               DEF Stage, Working, RegisterOK, KeyOK, ShapeOK, RegisterPcs
    <2> QED  BY <2>3, <2>4, <2>5, <2>6, WorkerStep
  <1> QED  BY <1>2, <1>3 DEF BeginDelete

LEMMA DeleteTrafficSync ==
    ASSUME TypeInv, TypeInv', DbInv, SyncInv, NEW t \in Threads, NEW k, NEW n,
           task[t].key = k, task[t].n = n, DeleteTraffic(t)
    PROVE  SyncInv'
  <1>1. /\ UNCHANGED <<keyState, reg, pairRows, ipRows, macRows, nft, filters, status,
                       shaped, irregular>>
        /\ task[t].pc = "delTraffic" /\ Goto(t, "delKey")
    BY DEF DeleteTraffic, rowVars, kernelVars, historyVars
  <1>2. /\ status = "up" /\ k \in Keys
        /\ k \notin irregular => Stage(t, k) /\ \A u \in Threads \ {t} : ~Working(u, k)
    BY <1>1, Worker
  <1>3. /\ task'[t].pc = "delKey" /\ task'[t].key = k
        /\ \A u \in Threads \ {t} : task'[u] = task[u]
        /\ TaskOK(t)' /\ OwnersOK(t)'
    <2>1. task[t].op # "deregister"
      BY <1>1 DEF SyncInv, TasksInv, TaskOK, RemovalPcs
    <2> QED  BY <1>1, <2>1, GotoTask, GotoOK
  <1>4. StepOf(t, k, {})
    BY <1>1, <1>2, <1>3 DEF StepOf, SameAccount
  <1>5. PassStep(t, k, {}) /\ FilterStep(k, {})
    BY <1>1 DEF PassStep, FilterStep, RemovalPcs, Live
  <1>6. ASSUME k \notin irregular PROVE Working(t, k)' /\ Stage(t, k)'
    <2>1. Rest(k) /\ Exists(k)
      BY <1>1, <1>2, <1>6 DEF Stage, RemovalOK, BetweenPcs, Rest
    <2>2. Rest(k)' /\ Exists(k)'
      BY <1>1, <2>1, StillAtRest DEF Exists
    <2>3. RemovalOK(t, k)'
      BY <1>3, <2>2 DEF RemovalOK, RemovalPcs, BetweenPcs, Rest
    <2> QED  BY <1>3, <2>3 DEF Stage, Working, RegisterOK, KeyOK, ShapeOK, RegisterPcs
  <1> QED  BY <1>1, <1>2, <1>3, <1>4, <1>5, <1>6, WorkerStep

\* The row of a key goes only when it has no devices left; nothing of it is in
\* the kernel then.
LEMMA DeleteKeyRowSync ==
    ASSUME TypeInv, TypeInv', DbInv, SyncInv, NEW t \in Threads, NEW k, NEW n,
           task[t].key = k, task[t].n = n, DeleteKeyRow(t)
    PROVE  SyncInv'
  <1>1. /\ UNCHANGED <<reg, pairRows, ipRows, macRows, nft, filters, status,
                       shaped, irregular>>
        /\ task[t].pc = "delKey" /\ Finish(t)
        /\ \/ keyState' = keyState
           \/ PairsOf(k) = {} /\ keyState' = [keyState EXCEPT ![k] = "deleted"]
    BY DEF DeleteKeyRow, Unreferenced, rowVars, kernelVars, historyVars
  <1>2. /\ status = "up" /\ k \in Keys
        /\ k \notin irregular => Stage(t, k) /\ \A u \in Threads \ {t} : ~Working(u, k)
    BY <1>1, Worker
  <1>3. /\ task'[t].pc = "idle" /\ TaskOK(t)' /\ OwnersOK(t)'
        /\ \A u \in Threads \ {t} : task'[u] = task[u]
    BY <1>1, FinishTask, FinishOK
  <1>4. /\ \A h \in Keys \ {k} : keyState'[h] = keyState[h]
        /\ \/ keyState' = keyState
           \/ PairsOf(k) = {} /\ keyState'[k] = "deleted"
    BY <1>1, <1>2 DEF TypeInv, KeysType
  <1>5. StepOf(t, k, {})
    BY <1>1, <1>2, <1>3, <1>4 DEF StepOf, SameAccount
  <1>6. PassStep(t, k, {}) /\ FilterStep(k, {})
    BY <1>1, <1>4 DEF PassStep, FilterStep, RemovalPcs, Live
  <1>7. k \notin irregular => Rest(k)
    BY <1>1, <1>2 DEF Stage, RemovalOK, BetweenPcs, Rest
  <1>8. ASSUME k \notin irregular PROVE Rest(k)' /\ ~Working(t, k)'
    <2>1. CASE keyState' = keyState
      BY <1>1, <1>3, <1>7, <1>8, <2>1, StillAtRest DEF Working
    <2>2. CASE PairsOf(k) = {} /\ keyState'[k] = "deleted"
      <3>1. PairsOf(k)' = {} /\ Due(k, PairsOf(k)) = {} /\ Due(k, PairsOf(k))' = {}
        BY <1>1, <2>2 DEF PairsOf, Due
      <3>2. Counts(k, Due(k, PairsOf(k)))'
        <4>1. Counts(k, {})
          BY <1>7, <1>8, <3>1 DEF Rest
        <4> QED  BY <1>1, <3>1, <4>1, Carried DEF SameAccount
      <3>3. Passed(PairsOf(k), Open(k))' /\ Slowed(PairsOf(k), Slow(k))'
        BY <3>1 DEF Passed, Slowed
      <3> QED  BY <1>3, <3>2, <3>3 DEF Rest, Working
    <2> QED  BY <1>4, <2>1, <2>2
  <1> QED  BY <1>1, <1>2, <1>3, <1>5, <1>6, <1>8, WorkerStep

-----------------------------------------------------------------------------
(* Activation and deactivation of a key *)

LEMMA BeginActivateSync ==
    ASSUME TypeInv, TypeInv', DbInv, SyncInv, NEW k \in Keys, BeginActivate(k)
    PROVE  SyncInv'
  <1> DEFINE t == "rpc"
             marked == Overlap(t, k, IpsOf(PairsOf(k)))
  <1>1. /\ UNCHANGED <<reg, pairRows, ipRows, macRows, nft, filters, status, shaped>>
        /\ t \in Threads /\ status = "up" /\ task[t].pc = "idle" /\ Exists(k)
        /\ keyState' = [keyState EXCEPT ![k] = "active"]
        /\ irregular \subseteq irregular' /\ marked \subseteq irregular'
        /\ k \notin irregular' => keyState[k] # "active" \/ PairsOf(k) = {}
        /\ Begin(t, "setupKey", "activate", k, 0, {})
    BY DEF BeginActivate, rowVars, kernelVars, IsIdle, Mark, Threads
  <1> HIDE DEF t
  <1>2. /\ task'[t].pc = "setupKey" /\ task'[t].op = "activate" /\ task'[t].key = k
        /\ task'[t].n = 0 /\ task'[t].todo = {}
        /\ \A u \in Threads \ {t} : task'[u] = task[u]
    BY <1>1, BeginTask
  <1>3. keyState'[k] = "active" /\ \A h \in Keys \ {k} : keyState'[h] = keyState[h]
    BY <1>1 DEF TypeInv, KeysType
  <1>4. TaskOK(t)' /\ OwnersOK(t)'
    BY <1>2, <1>3 DEF TaskOK, OwnersOK
  <1>5. StepOf(t, k, {})
    BY <1>1, <1>2, <1>3 DEF StepOf, SameAccount
  <1>6. PassStep(t, k, {}) /\ FilterStep(k, {})
    BY <1>1, <1>3 DEF PassStep, FilterStep, RemovalPcs, Live, PairsOf
  <1>7. ASSUME k \notin irregular'
        PROVE  /\ \A u \in Threads \ {t} : ~Working(u, k)
               /\ Working(t, k)' /\ Stage(t, k)'
    <2>1. \A u \in Threads \ {t} : ~Working(u, k)
      BY <1>1, <1>7, NoOverlap
    <2>2. Rest(k)
      <3>1. \A u \in Threads : ~Working(u, k)
        BY <1>1, <2>1 DEF Working
      <3> QED  BY <1>1, <1>7, <3>1, AtRest
    <2>3. Slowed(PairsOf(k), FALSE) /\ Counts(k, {})
      BY <1>1, <1>7, <2>2 DEF Rest, Due, Open, Slow, Slowed
    <2>4. Slowed(PairsOf(k), FALSE)' /\ Counts(k, {})' /\ Open(k)'
      BY <1>1, <1>3, <2>3, Carried DEF SameAccount, Open
    <2>5. KeyOK(t, k)'
      BY <1>2, <2>4 DEF KeyOK
    <2> QED  BY <1>2, <2>1, <2>5 DEF Stage, Working, RegisterOK, RemovalOK, ShapeOK,
             RegisterPcs, RemovalPcs, BetweenPcs
  <1> QED  BY <1>1, <1>4, <1>5, <1>6, <1>7, WorkerStep

\* The commands that let the devices of P through and count them, for the keys
\* ks of these devices.
LEMMA SetupAllFields ==
    ASSUME TypeInv, NEW P, P \subseteq 1..Len(reg), NEW ks, ks \subseteq Keys,
           \A p \in P : reg[p].key \in ks,
           NEW f \in Table,
           f = AddKeySets(AddAllocations(nft, Elems(P)), ks)
              \/ f = AddAllocations(AddKeySets(nft, ks), Elems(P)),
           nft' = AddMatchingRules(AddKeyElems(f, KeyElems(P)), ks)
    PROVE  /\ nft'.registered = nft.registered \cup Elems(P)
           /\ nft'.sets = nft.sets \cup ks /\ nft'.counters = nft.counters \cup ks
           /\ nft'.elems = nft.elems \cup KeyElems(P)
           /\ \A h \in Keys : nft'.rules[h] = IF h \in ks THEN nft.rules[h] + 1
                                              ELSE nft.rules[h]
           /\ \A h \in Keys \ ks : SameAccount(h)
  <1>1. /\ nft \in Table /\ Elems(P) \subseteq Macs \X Ips
        /\ KeyElems(P) \subseteq Keys \X Ips
    BY SetsOfRows DEF TypeInv, KernelType
  <1>2. AddAllocations(nft, Elems(P)) \in Table /\ AddKeySets(nft, ks) \in Table
    BY <1>1, AllocationsType, KeySetsType
  <1>3. /\ f.registered = nft.registered \cup Elems(P) /\ f.sets = nft.sets \cup ks
        /\ f.elems = nft.elems /\ f.rules = nft.rules /\ f.counters = nft.counters
    <2>1. CASE f = AddKeySets(AddAllocations(nft, Elems(P)), ks)
      <3> DEFINE a == AddAllocations(nft, Elems(P))
      <3>1. /\ a.registered = nft.registered \cup Elems(P)
            /\ a.sets = nft.sets /\ a.elems = nft.elems
            /\ a.rules = nft.rules /\ a.counters = nft.counters
        BY <1>1, AllocationFields
      <3>2. a \in Table /\ f = AddKeySets(a, ks)
        BY <1>2, <2>1
      <3> HIDE DEF a
      <3> QED  BY <3>1, <3>2, KeySetFields
    <2>2. CASE f = AddAllocations(AddKeySets(nft, ks), Elems(P))
      <3> DEFINE a == AddKeySets(nft, ks)
      <3>1. /\ a.sets = nft.sets \cup ks /\ a.registered = nft.registered
            /\ a.elems = nft.elems /\ a.rules = nft.rules /\ a.counters = nft.counters
        BY <1>1, KeySetFields
      <3>2. a \in Table /\ f = AddAllocations(a, Elems(P))
        BY <1>2, <2>2
      <3> HIDE DEF a
      <3> QED  BY <3>1, <3>2, AllocationFields
    <2> QED  BY <2>1, <2>2
  <1> DEFINE g == AddKeyElems(f, KeyElems(P))
  <1>4. /\ g \in Table /\ g.elems = f.elems \cup {e \in KeyElems(P) : e[1] \in f.sets}
        /\ g.registered = f.registered /\ g.sets = f.sets
        /\ g.rules = f.rules /\ g.counters = f.counters
    BY <1>1, KeyElemFields, KeyElemsType
  <1>5. nft' = AddMatchingRules(g, ks)
    OBVIOUS
  <1> HIDE DEF g
  <1>6. /\ \A h \in Keys : nft'.rules[h] =
              IF h \in ks /\ h \in g.sets THEN g.rules[h] + 1 ELSE g.rules[h]
        /\ nft'.counters = g.counters \cup ks /\ nft'.registered = g.registered
        /\ nft'.sets = g.sets /\ nft'.elems = g.elems
    BY <1>4, <1>5, MatchingRuleFields
  <1>7. \A e \in KeyElems(P) : e[1] \in ks
    <2> SUFFICES ASSUME NEW p \in P PROVE <<reg[p].key, reg[p].ip>>[1] \in ks
      BY DEF KeyElems
    <2> QED  OBVIOUS
  <1>8. nft'.elems = nft.elems \cup KeyElems(P)
    BY <1>3, <1>4, <1>6, <1>7
  <1>9. /\ nft'.sets = nft.sets \cup ks /\ nft'.counters = nft.counters \cup ks
        /\ nft'.registered = nft.registered \cup Elems(P)
        /\ \A h \in Keys : nft'.rules[h] = IF h \in ks THEN nft.rules[h] + 1
                                           ELSE nft.rules[h]
    BY <1>3, <1>4, <1>6
  <1>10. ASSUME NEW h \in Keys \ ks PROVE SameAccount(h)
    <2>1. {e \in nft'.elems : e[1] = h} = {e \in nft.elems : e[1] = h}
      BY <1>7, <1>8
    <2> QED  BY <1>9, <2>1 DEF SameAccount
  <1> QED  BY <1>8, <1>9, <1>10

LEMMA SetupKeySync ==
    ASSUME TypeInv, TypeInv', DbInv, SyncInv, NEW t \in Threads, NEW k, NEW n,
           task[t].key = k, task[t].n = n, SetupKey(t)
    PROVE  SyncInv'
  <1>1. /\ UNCHANGED <<keyState, reg, pairRows, ipRows, macRows, status, shaped>>
        /\ task[t].pc = "setupKey" /\ Finish(t)
        /\ nft' = IF PairsOf(k) = {} THEN nft ELSE
                  AddMatchingRules(
                      AddKeyElems(
                          AddAllocations(AddKeySets(nft, {k}), Elems(PairsOf(k))),
                          KeyElems(PairsOf(k))),
                      {k})
        /\ filters' = IF k \in over THEN filters \cup IpsOf(PairsOf(k)) ELSE filters
        /\ irregular \subseteq irregular'
        /\ k \notin irregular' => PairsOf(k) = {} \/ (k \in over <=> k \in shaped)
    BY DEF SetupKey, Mark, keyVars, rowVars
  <1>2. /\ status = "up" /\ k \in Keys
        /\ k \notin irregular => Stage(t, k) /\ \A u \in Threads \ {t} : ~Working(u, k)
    BY <1>1, Worker
  <1>3. /\ task'[t].pc = "idle" /\ TaskOK(t)' /\ OwnersOK(t)'
        /\ \A u \in Threads \ {t} : task'[u] = task[u]
    BY <1>1, FinishTask, FinishOK
  <1>4. /\ PairsOf(k) \subseteq 1..Len(reg)
        /\ \A p \in PairsOf(k) : p \in pairRows /\ reg[p].key = k
    BY PairsType DEF TypeInv, PairsOf
  <1>5. PairsOf(k) # {} =>
           /\ nft'.registered = nft.registered \cup Elems(PairsOf(k))
           /\ nft'.elems = nft.elems \cup KeyElems(PairsOf(k))
           /\ nft'.rules[k] = nft.rules[k] + 1 /\ k \in nft'.sets /\ k \in nft'.counters
           /\ \A h \in Keys \ {k} : SameAccount(h)
    <2>1. SUFFICES ASSUME PairsOf(k) # {}
                   PROVE  /\ nft'.registered = nft.registered \cup Elems(PairsOf(k))
                          /\ nft'.elems = nft.elems \cup KeyElems(PairsOf(k))
                          /\ nft'.rules[k] = nft.rules[k] + 1
                          /\ k \in nft'.sets /\ k \in nft'.counters
                          /\ \A h \in Keys \ {k} : SameAccount(h)
      OBVIOUS
    <2> DEFINE P == PairsOf(k)
               ks == {k}
               f == AddAllocations(AddKeySets(nft, ks), Elems(P))
    <2>2. f \in Table
      BY <1>2, <1>4, KeySetsType, AllocationsType, SetsOfRows DEF TypeInv, KernelType
    <2>3. /\ P \subseteq 1..Len(reg) /\ ks \subseteq Keys /\ \A p \in P : reg[p].key \in ks
          /\ nft' = AddMatchingRules(AddKeyElems(f, KeyElems(P)), ks)
      BY <1>1, <1>2, <1>4, <2>1
    <2>4. f = AddAllocations(AddKeySets(nft, ks), Elems(P)) /\ k \in ks
      OBVIOUS
    <2>5. /\ nft'.registered = nft.registered \cup Elems(P)
          /\ nft'.sets = nft.sets \cup ks /\ nft'.counters = nft.counters \cup ks
          /\ nft'.elems = nft.elems \cup KeyElems(P)
          /\ \A h \in Keys : nft'.rules[h] = IF h \in ks THEN nft.rules[h] + 1
                                             ELSE nft.rules[h]
          /\ \A h \in Keys \ ks : SameAccount(h)
      <3> HIDE DEF P, ks, f
      <3> QED  BY <2>2, <2>3, <2>4, SetupAllFields
    <2> QED  BY <1>2, <2>5
  <1>6. PairsOf(k) = {} => /\ nft' = nft /\ filters' = filters
                           /\ \A h \in Keys : SameAccount(h)
    <2>1. PairsOf(k) = {} => nft' = nft /\ filters' = filters
      BY <1>1 DEF IpsOf
    <2> QED  BY <2>1 DEF SameAccount
  <1>7. StepOf(t, k, PairsOf(k))
    <2>1. \A p \in PairsOf(k) : Owns(p)'
      <3> SUFFICES ASSUME NEW p \in PairsOf(k) PROVE Owns(p)'
        OBVIOUS
      <3>1. Owns(p)
        BY <1>4, PresentOwns
      <3> QED  BY <1>1, <3>1, OwnsKept
    <2>2. ASSUME NEW p \in 1..Len(reg), \A m \in PairsOf(k) : reg[m].ip # reg[p].ip
          PROVE  /\ Elem(p) \in nft'.registered <=> Elem(p) \in nft.registered
                 /\ reg[p].ip \in filters' <=> reg[p].ip \in filters
      <3>1. Elem(p) \notin Elems(PairsOf(k)) /\ reg[p].ip \notin IpsOf(PairsOf(k))
        BY <2>2 DEF Elems, Elem, IpsOf
      <3> QED  BY <1>1, <1>5, <1>6, <3>1
    <2>3. \A h \in Keys \ {k} : SameAccount(h)
      BY <1>5, <1>6
    <2> QED  BY <1>1, <1>2, <1>3, <1>4, <2>1, <2>2, <2>3 DEF StepOf
  <1>8. k \notin irregular => Open(k) /\ Slowed(PairsOf(k), FALSE) /\ Counts(k, {})
    BY <1>1, <1>2 DEF Stage, KeyOK
  <1>9. PassStep(t, k, PairsOf(k)) /\ FilterStep(k, PairsOf(k))
    <2>1. \A p \in PairsOf(k) : k \notin irregular' => Live(p)'
      BY <1>1, <1>4, <1>8 DEF Live, Open
    <2>2. PassStep(t, k, PairsOf(k))
      <3>1. \A e \in nft'.registered \ nft.registered : \E p \in PairsOf(k) : Elem(p) = e
        BY <1>5, <1>6 DEF Elems
      <3> QED  BY <1>1, <2>1, <3>1 DEF PassStep, RemovalPcs
    <2>3. FilterStep(k, PairsOf(k))
      <3>1. \A i \in filters' \ filters : k \in over /\ \E p \in PairsOf(k) : reg[p].ip = i
        BY <1>1 DEF IpsOf
      <3>2. \A i \in filters' \ filters : k \in irregular' \/ k \in shaped'
        BY <1>1, <3>1
      <3> QED  BY <1>1, <2>1, <3>1, <3>2 DEF FilterStep
    <2> QED  BY <2>2, <2>3
  <1>10. ASSUME k \notin irregular' PROVE ~Working(t, k)' /\ Rest(k)'
    <2>0. k \notin irregular /\ Open(k) /\ Slowed(PairsOf(k), FALSE) /\ Counts(k, {})
      BY <1>1, <1>8, <1>10
    <2>1. /\ PairsOf(k)' = PairsOf(k) /\ Open(k)' = TRUE
          /\ Slow(k)' = (k \in shaped) /\ Due(k, PairsOf(k))' = PairsOf(k)
          /\ KeyElems(PairsOf(k))' = KeyElems(PairsOf(k))
      BY <1>1, <2>0 DEF PairsOf, Open, Slow, Due, KeyElems
    <2>2. Passed(PairsOf(k), Open(k))'
      <3>1. \A p \in PairsOf(k) : Elem(p) \in nft'.registered
        BY <1>5 DEF Elems
      <3> QED  BY <1>1, <2>1, <3>1 DEF Passed, Elem
    <2>3. Slowed(PairsOf(k), Slow(k))'
      <3>1. \A p \in PairsOf(k) : reg[p].ip \in filters' <=> k \in shaped
        BY <1>1, <1>10, <2>0 DEF Slowed, IpsOf
      <3> QED  BY <1>1, <2>1, <3>1 DEF Slowed
    <2>4. Counts(k, Due(k, PairsOf(k)))'
      <3>1. CASE PairsOf(k) = {}
        BY <1>1, <1>6, <2>0, <2>1, <3>1, Carried DEF SameAccount
      <3>2. CASE PairsOf(k) # {}
        <4>1. nft.rules[k] = 0 /\ {e \in nft.elems : e[1] = k} = {}
          BY <2>0 DEF Counts, KeyElems
        <4>2. \A e \in KeyElems(PairsOf(k)) : e[1] = k
          BY <1>4 DEF KeyElems
        <4>3. {e \in nft'.elems : e[1] = k} = KeyElems(PairsOf(k))
          BY <1>5, <3>2, <4>1, <4>2
        <4> QED  BY <1>5, <2>1, <3>2, <4>1, <4>3 DEF Counts
      <3> QED  BY <3>1, <3>2
    <2> QED  BY <1>3, <2>2, <2>3, <2>4 DEF Rest, Working
  <1> QED  BY <1>1, <1>2, <1>3, <1>7, <1>9, <1>10, WorkerStep

LEMMA BeginDeactivateSync ==
    ASSUME TypeInv, TypeInv', DbInv, SyncInv, NEW k \in Keys, BeginDeactivate(k)
    PROVE  SyncInv'
  <1> DEFINE t == "rpc"
             P == PairsOf(k)
             marked == Overlap(t, k, IpsOf(P))
  <1>1. /\ UNCHANGED <<keyState, reg, pairRows, ipRows, macRows, filters, status, shaped>>
        /\ t \in Threads /\ status = "up" /\ task[t].pc = "idle" /\ Exists(k)
        /\ nft' = IF P = {} THEN nft ELSE DeleteAccounting(nft, k)
        /\ irregular' = irregular \cup marked
        /\ Begin(t, "relockAll", "deactivate", k, 0, P)
    BY DEF BeginDeactivate, keyVars, rowVars, IsIdle, Mark, Threads
  <1> HIDE DEF t
  <1>2. /\ task'[t].pc = "relockAll" /\ task'[t].op = "deactivate" /\ task'[t].key = k
        /\ task'[t].n = 0 /\ task'[t].todo = P
        /\ \A u \in Threads \ {t} : task'[u] = task[u]
    BY <1>1, BeginTask
  <1>3. /\ P \subseteq pairRows /\ P \subseteq 1..Len(reg)
        /\ \A p \in P : reg[p].key = k /\ Owns(p)
    BY PairsType, PresentOwns DEF TypeInv, PairsOf
  <1>4. /\ nft'.registered = nft.registered
        /\ \A h \in Keys \ {k} : SameAccount(h)
        /\ P # {} => /\ nft'.rules[k] = 0 /\ k \notin nft'.sets /\ k \notin nft'.counters
                     /\ {e \in nft'.elems : e[1] = k} = {}
        /\ P = {} => SameAccount(k)
    <2>1. CASE P = {}
      <3>1. nft' = nft
        BY <1>1, <2>1
      <3> QED  BY <2>1, <3>1 DEF SameAccount
    <2>2. CASE P # {}
      <3>1. nft' = DeleteAccounting(nft, k)
        BY <1>1, <2>2
      <3> QED  BY <2>2, <3>1, TornDown
    <2> QED  BY <2>1, <2>2
  <1>5. TaskOK(t)' /\ OwnersOK(t)'
    <2>1. \A m : Owns(m) => Owns(m)'
      BY <1>1 DEF Owns
    <2> QED  BY <1>1, <1>2, <1>3, <2>1 DEF TaskOK, OwnersOK, Exists
  <1>6. StepOf(t, k, {})
    BY <1>1, <1>2, <1>4 DEF StepOf
  <1>7. PassStep(t, k, {}) /\ FilterStep(k, {})
    BY <1>1, <1>4 DEF PassStep, FilterStep, RemovalPcs, Live
  <1>8. ASSUME k \notin irregular'
        PROVE  /\ \A u \in Threads \ {t} : ~Working(u, k)
               /\ Working(t, k)' /\ Stage(t, k)'
    <2>1. \A u \in Threads \ {t} : ~Working(u, k)
      BY <1>1, <1>8, NoOverlap
    <2>2. Rest(k)
      <3>1. \A u \in Threads : ~Working(u, k)
        BY <1>1, <2>1 DEF Working
      <3> QED  BY <1>1, <1>8, <3>1, AtRest
    <2>3. /\ PairsOf(k)' = P /\ Open(k)' = Open(k) /\ Slow(k)' = Slow(k)
          /\ KeyElems({})' = {}
      BY <1>1 DEF PairsOf, Open, Slow, KeyElems
    <2>4. Passed(PairsOf(k), Open(k))' /\ Slowed(PairsOf(k), Slow(k))'
      BY <1>1, <1>4, <2>2, <2>3, Carried DEF Rest
    <2>5. Counts(k, {})'
      <3>1. CASE P = {}
        <4>1. Counts(k, {})
          BY <2>2, <3>1 DEF Rest, Due
        <4> QED  BY <1>1, <1>4, <3>1, <4>1, Carried
      <3>2. CASE P # {}
        BY <1>4, <2>3, <3>2 DEF Counts
      <3> QED  BY <3>1, <3>2
    <2>6. KeyOK(t, k)'
      BY <1>2, <2>3, <2>4, <2>5 DEF KeyOK
    <2> QED  BY <1>2, <2>1, <2>6 DEF Stage, Working, RegisterOK, RemovalOK, ShapeOK,
             RegisterPcs, RemovalPcs, BetweenPcs
  <1> QED  BY <1>1, <1>5, <1>6, <1>7, <1>8, WorkerStep

\* A loop over S that stops at no address handles all of S.
LEMMA AllHandled ==
    ASSUME NEW S
    PROVE  Handled(S, {}) = S /\ \A bad : Handled(S, bad) \subseteq S
  BY DEF Handled

LEMMA RelockAllSync ==
    ASSUME TypeInv, TypeInv', DbInv, SyncInv, NEW t \in Threads, NEW k, NEW n, NEW P,
           task[t].key = k, task[t].n = n, task[t].todo = P, RelockAll(t)
    PROVE  SyncInv'
  <1> DEFINE bad == IF k \in over THEN Unfiltered(P) ELSE {}
             done == Handled(P, bad)
  <1>1. /\ UNCHANGED <<keyState, reg, pairRows, ipRows, macRows, status, shaped>>
        /\ task[t].pc = "relockAll"
        /\ filters' = IF k \in over THEN filters \ IpsOf(done) ELSE filters
        /\ nft' = DeleteAllocations(nft, Elems(done))
        /\ \/ bad # {} /\ Finish(t)
           \/ bad = {} /\ Goto(t, "commitInactive")
        /\ irregular \subseteq irregular'
        /\ k \notin irregular' => P = {} \/ (k \in over <=> k \in shaped)
    BY DEF RelockAll, keyVars, rowVars, Mark
  <1>2. /\ status = "up" /\ k \in Keys
        /\ \A p \in P : p \in 1..Len(reg) /\ reg[p].key = k /\ Owns(p)
        /\ k \notin irregular => Stage(t, k) /\ \A u \in Threads \ {t} : ~Working(u, k)
    BY <1>1, Worker
  <1>3. done \subseteq P /\ (bad = {} => done = P)
    BY AllHandled
  <1>4. /\ \/ bad # {} /\ task'[t].pc = "idle"
           \/ bad = {} /\ task'[t].pc = "commitInactive" /\ task'[t].key = k
        /\ \A u \in Threads \ {t} : task'[u] = task[u]
        /\ TaskOK(t)' /\ OwnersOK(t)'
    <2>1. task[t].op # "deregister"
      BY <1>1 DEF SyncInv, TasksInv, TaskOK, RemovalPcs
    <2>2. CASE bad # {} /\ Finish(t)
      BY <2>2, FinishTask, FinishOK
    <2>3. CASE bad = {} /\ Goto(t, "commitInactive")
      BY <1>1, <2>1, <2>3, GotoTask, GotoOK
    <2> QED  BY <1>1, <2>2, <2>3
  <1>5. /\ nft'.registered = nft.registered \ Elems(done)
        /\ \A h \in Keys : SameAccount(h)
    <2>1. nft \in Table
      BY DEF TypeInv, KernelType
    <2> QED  BY <1>1, <2>1, AllocationFields DEF SameAccount
  <1>6. k \notin irregular =>
           /\ P = PairsOf(k) /\ Passed(P, Open(k)) /\ Slowed(P, Slow(k))
           /\ Counts(k, {})
    BY <1>1, <1>2 DEF Stage, KeyOK
  <1> HIDE DEF done
  <1>7. StepOf(t, k, P)
    <2>1. \A p \in P : Owns(p)'
      <3> SUFFICES ASSUME NEW p \in P PROVE Owns(p)'
        OBVIOUS
      <3>1. Owns(p)
        BY <1>2
      <3> QED  BY <1>1, <3>1, OwnsKept
    <2>2. ASSUME NEW p \in 1..Len(reg), \A m \in P : reg[m].ip # reg[p].ip
          PROVE  /\ Elem(p) \in nft'.registered <=> Elem(p) \in nft.registered
                 /\ reg[p].ip \in filters' <=> reg[p].ip \in filters
      <3>1. Elem(p) \notin Elems(done) /\ reg[p].ip \notin IpsOf(done)
        BY <1>3, <2>2 DEF Elems, Elem, IpsOf
      <3> QED  BY <1>1, <1>5, <3>1
    <2>3. P \subseteq 1..Len(reg) /\ \A p \in P : reg[p].key = k
      BY <1>2
    <2>4. \A h \in Keys \ {k} : SameAccount(h)
      BY <1>5
    <2> QED  BY <1>1, <1>2, <1>4, <2>1, <2>2, <2>3, <2>4 DEF StepOf
  <1>8. PassStep(t, k, P) /\ FilterStep(k, P)
    BY <1>1, <1>5 DEF PassStep, FilterStep, RemovalPcs, Live
  <1>9. ASSUME k \notin irregular'
        PROVE  \/ Working(t, k)' /\ Stage(t, k)'
               \/ ~Working(t, k)' /\ Rest(k)'
    <2>1. /\ P = PairsOf(k) /\ Passed(P, Open(k)) /\ Slowed(P, Slow(k)) /\ Counts(k, {})
          /\ k \notin irregular
      BY <1>1, <1>6, <1>9
    <2>2. /\ PairsOf(k)' = P /\ Open(k)' = Open(k) /\ Slow(k)' = Slow(k)
          /\ Due(k, PairsOf(k))' = Due(k, P)
      BY <1>1, <2>1 DEF PairsOf, Open, Slow, Due
    <2>3. Counts(k, {})'
      BY <1>1, <1>2, <1>5, <2>1, Carried
    <2>4. CASE bad # {}
      <3>1. PICK p \in P : reg[p].ip \notin filters /\ k \in over
        BY <2>4 DEF Unfiltered
      <3>2. ~Slow(k) /\ k \in shaped /\ ~Open(k)
        BY <1>1, <1>9, <2>1, <3>1 DEF Slowed, Slow
      <3>3. Passed(PairsOf(k), Open(k))'
        BY <1>1, <1>5, <2>1, <2>2, <3>2 DEF Passed, Elem
      <3>4. Slowed(PairsOf(k), Slow(k))'
        BY <1>1, <2>1, <2>2, <3>2 DEF Slowed
      <3>5. Counts(k, Due(k, PairsOf(k)))'
        BY <2>2, <2>3, <3>2 DEF Due
      <3> QED  BY <1>4, <2>4, <3>3, <3>4, <3>5 DEF Rest, Working
    <2>5. CASE bad = {}
      <3>1. done = P
        BY <1>3, <2>5
      <3>2. Passed(PairsOf(k), FALSE)'
        BY <1>1, <1>5, <2>2, <3>1 DEF Passed, Elem, Elems
      <3>3. Slowed(PairsOf(k), FALSE)'
        <4>1. \A p \in P : reg[p].ip \notin filters'
          BY <1>1, <1>9, <2>1, <3>1 DEF IpsOf, Slowed, Slow
        <4> QED  BY <1>1, <2>2, <4>1 DEF Slowed
      <3>4. KeyOK(t, k)'
        BY <1>4, <2>3, <2>5, <3>2, <3>3 DEF KeyOK, Bare
      <3> QED  BY <1>4, <2>5, <3>4 DEF Stage, Working, RegisterOK, RemovalOK, ShapeOK,
               RegisterPcs, RemovalPcs, BetweenPcs
    <2> QED  BY <2>4, <2>5
  <1> QED  BY <1>1, <1>2, <1>4, <1>7, <1>8, <1>9, WorkerStep

LEMMA CommitInactiveSync ==
    ASSUME TypeInv, TypeInv', DbInv, SyncInv, NEW t \in Threads, NEW k, NEW n,
           task[t].key = k, task[t].n = n, CommitInactive(t)
    PROVE  SyncInv'
  <1>1. /\ UNCHANGED <<reg, pairRows, ipRows, macRows, nft, filters, status,
                       shaped, irregular>>
        /\ task[t].pc = "commitInactive" /\ Finish(t)
        /\ keyState' = IF Exists(k) THEN [keyState EXCEPT ![k] = "inactive"]
                       ELSE keyState
    BY DEF CommitInactive, rowVars, kernelVars, historyVars
  <1>2. /\ status = "up" /\ k \in Keys
        /\ k \notin irregular => Stage(t, k) /\ \A u \in Threads \ {t} : ~Working(u, k)
    BY <1>1, Worker
  <1>3. /\ task'[t].pc = "idle" /\ TaskOK(t)' /\ OwnersOK(t)'
        /\ \A u \in Threads \ {t} : task'[u] = task[u]
    BY <1>1, FinishTask, FinishOK
  <1>4. /\ \A h \in Keys \ {k} : keyState'[h] = keyState[h]
        /\ keyState'[k] # "active"
        /\ keyState'[k] # keyState[k] => keyState'[k] # "none"
    BY <1>1, <1>2 DEF TypeInv, KeysType, Exists
  <1>5. StepOf(t, k, {})
    BY <1>1, <1>2, <1>3, <1>4 DEF StepOf, SameAccount
  <1>6. k \notin irregular => Bare(k)
    BY <1>1, <1>2 DEF Stage, KeyOK
  <1>7. PassStep(t, k, {}) /\ FilterStep(k, {})
    BY <1>1, <1>6 DEF PassStep, FilterStep, RemovalPcs, Bare, Passed, Slowed
  <1>8. ASSUME k \notin irregular PROVE ~Working(t, k)' /\ Rest(k)'
    <2>1. /\ PairsOf(k)' = PairsOf(k) /\ Open(k)' = FALSE /\ Slow(k)' = FALSE
          /\ Due(k, PairsOf(k))' = {}
      BY <1>1, <1>4 DEF PairsOf, Open, Slow, Due
    <2>2. Passed(PairsOf(k), FALSE)' /\ Slowed(PairsOf(k), FALSE)' /\ Counts(k, {})'
      BY <1>1, <1>6, <1>8, <2>1, Carried DEF Bare, SameAccount
    <2> QED  BY <1>3, <2>1, <2>2 DEF Rest, Working
  <1> QED  BY <1>1, <1>2, <1>3, <1>5, <1>7, <1>8, WorkerStep

-----------------------------------------------------------------------------
(* The accounting pass *)

\* A read changes nothing, and nobody is kept from a key by it.
LEMMA ReadSync ==
    ASSUME TypeInv, TypeInv', DbInv, SyncInv, NEW k \in Keys,
           ReadToShape(k) \/ ReadToUnshape(k)
    PROVE  SyncInv'
  <1> DEFINE t == "acct"
  <1>1. /\ UNCHANGED <<keyState, reg, pairRows, ipRows, macRows, nft, filters, status,
                       shaped, irregular>>
        /\ t \in Threads /\ status = "up" /\ task[t].pc = "idle" /\ keyState[k] = "active"
        /\ \/ k \notin shaped /\ Begin(t, "beginShape", "shape", k, 0, {})
           \/ k \in shaped /\ Begin(t, "beginUnshape", "unshape", k, 0, PairsOf(k))
    BY DEF ReadToShape, ReadToUnshape, Counted, IsIdle, Threads, keyVars, rowVars,
           kernelVars, historyVars
  <1>2. /\ \/ k \notin shaped /\ task'[t].pc = "beginShape" /\ task'[t].todo = {}
           \/ k \in shaped /\ task'[t].pc = "beginUnshape" /\ task'[t].todo = PairsOf(k)
        /\ task'[t].n = 0 /\ task'[t].key = k
        /\ task'[t].op \in {"shape", "unshape"}
        /\ \A u \in Threads \ {t} : task'[u] = task[u]
    <2>1. CASE k \notin shaped /\ Begin(t, "beginShape", "shape", k, 0, {})
      BY <1>1, <2>1, BeginTask
    <2>2. CASE k \in shaped /\ Begin(t, "beginUnshape", "unshape", k, 0, PairsOf(k))
      BY <1>1, <2>2, BeginTask
    <2> QED  BY <1>1, <2>1, <2>2
  <1>3. TaskOK(t)' /\ OwnersOK(t)'
    BY <1>1, <1>2 DEF TaskOK, OwnersOK, PairsOf
  <1>4. StepOf(t, k, {})
    BY <1>1, <1>2 DEF StepOf, SameAccount
  <1>5. PassStep(t, k, {}) /\ FilterStep(k, {})
    BY <1>1 DEF PassStep, FilterStep, RemovalPcs, Live
  <1>6. KeyInv(k)'
    <2>1. ~Working(t, k) /\ ~Working(t, k)'
      BY <1>1, <1>2 DEF Working
    <2>2. Undisturbed(k)
      BY <1>1, <1>2, <2>1 DEF Undisturbed, SameAccount, PairsOf
    <2> QED  BY <1>1, <2>2, UndisturbedInv DEF SyncInv, KeysInv
  <1> QED  BY <1>1, <1>3, <1>4, <1>5, <1>6, StepInv

LEMMA BeginShapeSync ==
    ASSUME TypeInv, TypeInv', DbInv, SyncInv, NEW t \in Threads, NEW k,
           task[t].key = k, BeginShape(t)
    PROVE  SyncInv'
  <1> DEFINE P == PairsOf(k)
             marked == Overlap(t, k, IpsOf(P))
  <1>1. /\ UNCHANGED <<keyState, reg, pairRows, ipRows, macRows, nft, filters, status,
                       shaped>>
        /\ task[t].pc = "beginShape"
        /\ \/ Exists(k) /\ Begin(t, "finishShape", "shape", k, 0, P)
           \/ ~Exists(k) /\ Finish(t)
        /\ irregular \subseteq irregular' /\ marked \subseteq irregular'
        /\ k \notin irregular' => keyState[k] = "active"
    BY DEF BeginShape, rowVars, kernelVars, Mark
  <1>2. k \in Keys /\ status = "up" /\ k \notin shaped /\ t = "acct"
    <2>1. k \in Keys /\ status \in {"up", "down"}
      BY <1>1 DEF TypeInv, TaskType, KeysType
    <2> QED  BY <1>1, <2>1 DEF SyncInv, LifeInv, TasksInv, TaskOK, IsIdle
  <1>3. /\ \/ /\ Exists(k) /\ task'[t].pc = "finishShape" /\ task'[t].op = "shape"
              /\ task'[t].key = k /\ task'[t].n = 0 /\ task'[t].todo = P
           \/ ~Exists(k) /\ Finish(t) /\ task'[t].pc = "idle"
        /\ \A u \in Threads \ {t} : task'[u] = task[u]
    BY <1>1, BeginTask, FinishTask
  <1>4. TaskOK(t)' /\ OwnersOK(t)'
    <2>1. CASE Finish(t)
      BY <2>1, FinishOK
    <2>2. CASE /\ Exists(k) /\ task'[t].pc = "finishShape" /\ task'[t].op = "shape"
               /\ task'[t].key = k /\ task'[t].n = 0 /\ task'[t].todo = P
      <3>1. \A p \in P : reg[p].key = k /\ Owns(p)
        BY PresentOwns DEF PairsOf
      <3>2. \A m : Owns(m) => Owns(m)'
        BY <1>1 DEF Owns
      <3> QED  BY <1>1, <2>2, <3>1, <3>2 DEF TaskOK, OwnersOK, Exists
    <2> QED  BY <1>3, <2>1, <2>2
  <1>5. StepOf(t, k, {})
    BY <1>1, <1>2, <1>3 DEF StepOf, SameAccount
  <1>6. PassStep(t, k, {}) /\ FilterStep(k, {})
    BY <1>1 DEF PassStep, FilterStep, RemovalPcs, Live
  <1>7. ASSUME k \notin irregular'
        PROVE  /\ \A u \in Threads \ {t} : ~Working(u, k)
               /\ Working(t, k)' /\ Stage(t, k)'
    <2>1. \A u \in Threads \ {t} : ~Working(u, k)
      BY <1>1, <1>7, NoOverlap
    <2>2. Rest(k) /\ Open(k)
      <3>1. \A u \in Threads : ~Working(u, k)
        BY <1>1, <2>1 DEF Working
      <3> QED  BY <1>1, <1>2, <1>7, <3>1, AtRest DEF Open
    <2>3. /\ PairsOf(k)' = P /\ Open(k)'
          /\ Passed(PairsOf(k), TRUE) /\ Slowed(PairsOf(k), FALSE)
          /\ Counts(k, PairsOf(k))
      BY <1>1, <1>2, <2>2 DEF PairsOf, Open, Rest, Slow, Due, Passed, Slowed
    <2>4. Passed(PairsOf(k), TRUE)' /\ Slowed(PairsOf(k), FALSE)' /\ Counts(k, PairsOf(k))'
      BY <1>1, <1>2, <2>3, Carried DEF SameAccount
    <2>5. /\ task'[t].pc = "finishShape" /\ task'[t].key = k /\ task'[t].todo = P
      BY <1>3, <2>2 DEF Open, Exists
    <2>6. ShapeOK(t, k)'
      BY <1>1, <1>2, <2>3, <2>4, <2>5 DEF ShapeOK
    <2> QED  BY <2>1, <2>5, <2>6 DEF Stage, Working, RegisterOK, RemovalOK, KeyOK,
             RegisterPcs, RemovalPcs, BetweenPcs
  <1> QED  BY <1>2, <1>4, <1>5, <1>6, <1>7, WorkerStep

LEMMA FinishShapeSync ==
    ASSUME TypeInv, TypeInv', DbInv, SyncInv, NEW t \in Threads, t = "acct", NEW k,
           NEW n, NEW P, task[t].key = k, task[t].n = n, task[t].todo = P, FinishShape(t)
    PROVE  SyncInv'
  <1>1. /\ UNCHANGED <<keyState, reg, pairRows, ipRows, macRows, nft, status, irregular>>
        /\ task[t].pc = "finishShape" /\ Finish(t)
        /\ shaped' = shaped \cup {k}
        /\ filters' = filters \cup IpsOf(P)
    BY DEF FinishShape, keyVars, rowVars, historyVars
  <1>2. /\ status = "up" /\ k \in Keys
        /\ \A p \in P : p \in 1..Len(reg) /\ reg[p].key = k /\ Owns(p)
        /\ k \notin irregular => Stage(t, k) /\ \A u \in Threads \ {t} : ~Working(u, k)
    BY <1>1, Worker
  <1>3. /\ task'[t].pc = "idle" /\ TaskOK(t)' /\ OwnersOK(t)'
        /\ \A u \in Threads \ {t} : task'[u] = task[u]
    BY <1>1, FinishTask, FinishOK
  <1>4. StepOf(t, k, P)
    <2>1. \A p \in P : Owns(p)'
      <3> SUFFICES ASSUME NEW p \in P PROVE Owns(p)'
        OBVIOUS
      <3>1. Owns(p)
        BY <1>2
      <3> QED  BY <1>1, <3>1, OwnsKept
    <2>2. ASSUME NEW p \in 1..Len(reg), \A m \in P : reg[m].ip # reg[p].ip
          PROVE  reg[p].ip \in filters' <=> reg[p].ip \in filters
      BY <1>1, <2>2 DEF IpsOf
    <2> QED  BY <1>1, <1>2, <1>3, <2>1, <2>2 DEF StepOf, SameAccount
  <1>5. k \notin irregular =>
           /\ P = PairsOf(k) /\ Open(k) /\ Passed(PairsOf(k), TRUE)
           /\ Slowed(PairsOf(k), FALSE) /\ Counts(k, PairsOf(k))
    BY <1>1, <1>2 DEF Stage, ShapeOK
  <1>6. PassStep(t, k, P) /\ FilterStep(k, P)
    <2>1. PassStep(t, k, P)
      BY <1>1 DEF PassStep, RemovalPcs, Live
    <2>2. \A p \in P : k \notin irregular => Live(p)'
      BY <1>1, <1>2, <1>5 DEF Live, Open, PairsOf
    <2>3. \A i \in filters' \ filters : \E p \in P : reg[p].ip = i
      BY <1>1 DEF IpsOf
    <2>4. FilterStep(k, P)
      BY <1>1, <2>2, <2>3 DEF FilterStep, Live
    <2> QED  BY <2>1, <2>4
  <1>7. ASSUME k \notin irregular PROVE ~Working(t, k)' /\ Rest(k)'
    <2>1. /\ PairsOf(k)' = P /\ Open(k)' = TRUE /\ Slow(k)' = TRUE
          /\ Due(k, PairsOf(k))' = P
      BY <1>1, <1>5, <1>7 DEF PairsOf, Open, Slow, Due
    <2>2. Passed(PairsOf(k), TRUE)' /\ Counts(k, P)'
      BY <1>1, <1>5, <1>7, <2>1, Carried DEF SameAccount
    <2>3. Slowed(PairsOf(k), TRUE)'
      BY <1>1, <2>1 DEF Slowed, IpsOf
    <2> QED  BY <1>3, <2>1, <2>2, <2>3 DEF Rest, Working
  <1> QED  BY <1>1, <1>2, <1>3, <1>4, <1>6, <1>7, WorkerStep

\* The pass ends the shaping of the devices it has read.  Who has one of their
\* addresses now is marked, so that the pass owns them.
LEMMA BeginUnshapeSync ==
    ASSUME TypeInv, TypeInv', DbInv, SyncInv, NEW t \in Threads, NEW k, NEW P,
           task[t].key = k, task[t].todo = P, BeginUnshape(t)
    PROVE  SyncInv'
  <1> DEFINE bad == Unfiltered(P)
             done == Handled(P, bad)
             marked == Overlap(t, k, IpsOf(P))
  <1>1. /\ UNCHANGED <<keyState, reg, pairRows, ipRows, macRows, nft, status, shaped>>
        /\ task[t].pc = "beginUnshape"
        /\ filters' = filters \ IpsOf(done)
        /\ \/ bad # {} /\ Finish(t)
           \/ bad = {} /\ Goto(t, "removeShaped")
        /\ irregular \subseteq irregular' /\ marked \subseteq irregular'
        /\ MovedTo(P) \subseteq irregular'
        /\ k \notin irregular' => PairsOf(k) = P /\ keyState[k] = "active"
    BY DEF BeginUnshape, keyVars, rowVars, Mark
  <1>2. /\ k \in Keys /\ status = "up" /\ k \in shaped /\ t = "acct"
        /\ keyState[k] # "none" /\ task[t].op # "deregister"
        /\ P \subseteq 1..Len(reg) /\ \A p \in P : reg[p].key = k
    <2>1. k \in Keys /\ status \in {"up", "down"} /\ P \subseteq 1..Len(reg) /\ 0 \notin P
      BY <1>1 DEF TypeInv, TaskType, KeysType
    <2> QED  BY <1>1, <2>1
             DEF SyncInv, LifeInv, TasksInv, TaskOK, IsIdle, RemovalPcs
  <1>3. done \subseteq P /\ (bad = {} => done = P)
    BY AllHandled
  <1>4. \A m \in P : Owns(m)'
    <2> SUFFICES ASSUME NEW m \in P, NEW p \in pairRows, p # m, reg[p].ip = reg[m].ip
                 PROVE  reg[p].key \in irregular'
      BY <1>1 DEF Owns
    <2>1. CASE p \notin P
      BY <1>1, <2>1 DEF MovedTo, IpsOf
    <2>2. CASE p \in P
      <3>1. SUFFICES ASSUME k \notin irregular' PROVE FALSE
        BY <1>2, <2>2
      <3>2. m \in pairRows
        BY <1>1, <3>1 DEF PairsOf
      <3> QED  BY <3>2 DEF DbInv, UniqueAddresses, PairsBacked
    <2> QED  BY <2>1, <2>2
  <1>5. /\ \/ bad # {} /\ task'[t].pc = "idle"
           \/ bad = {} /\ task'[t].pc = "removeShaped" /\ task'[t].key = k
        /\ task'[t].pc # "idle" => task'[t].todo = P
        /\ \A u \in Threads \ {t} : task'[u] = task[u]
        /\ TaskOK(t)' /\ OwnersOK(t)'
    <2>1. CASE bad # {} /\ Finish(t)
      BY <2>1, FinishTask, FinishOK
    <2>2. CASE bad = {} /\ Goto(t, "removeShaped")
      <3>1. /\ task'[t].pc = "removeShaped" /\ task'[t].op = task[t].op
            /\ task'[t].key = k /\ task'[t].n = task[t].n /\ task'[t].todo = P
            /\ \A u \in Threads \ {t} : task'[u] = task[u]
        BY <2>2, GotoTask
      <3>2. TaskOK(t)
        BY DEF SyncInv, TasksInv
      <3>3. TaskOK(t)'
        BY <1>1, <1>2, <3>1, <3>2 DEF TaskOK
      <3>4. task[t].n = 0
        BY <1>1 DEF SyncInv, TasksInv, TaskOK
      <3>5. OwnersOK(t)'
        BY <1>4, <3>1, <3>4 DEF OwnersOK
      <3> QED  BY <2>2, <3>1, <3>3, <3>5
    <2> QED  BY <1>1, <2>1, <2>2
  <1>6. StepOf(t, k, P)
    <2>1. ASSUME NEW p \in 1..Len(reg), \A m \in P : reg[m].ip # reg[p].ip
          PROVE  reg[p].ip \in filters' <=> reg[p].ip \in filters
      <3>1. reg[p].ip \notin IpsOf(done)
        BY <1>3, <2>1 DEF IpsOf
      <3> QED  BY <1>1, <3>1
    <2> QED  BY <1>1, <1>2, <1>4, <1>5, <2>1 DEF StepOf, SameAccount
  <1>7. PassStep(t, k, P) /\ FilterStep(k, P)
    BY <1>1 DEF PassStep, FilterStep, RemovalPcs, Live
  <1>8. ASSUME k \notin irregular'
        PROVE  /\ \A u \in Threads \ {t} : ~Working(u, k)
               /\ Working(t, k)' /\ Stage(t, k)'
    <2>1. \A u \in Threads \ {t} : ~Working(u, k)
      BY <1>1, <1>8, NoOverlap
    <2>2. Rest(k) /\ Slow(k)
      <3>1. \A u \in Threads : ~Working(u, k)
        BY <1>1, <2>1 DEF Working
      <3> QED  BY <1>1, <1>2, <1>8, <3>1, AtRest DEF Open, Slow
    <2>3. /\ PairsOf(k)' = P /\ Open(k)' /\ PairsOf(k) = P
          /\ Passed(P, TRUE) /\ Counts(k, P) /\ \A p \in P : reg[p].ip \in filters
      BY <1>1, <1>8, <2>2 DEF PairsOf, Open, Rest, Slow, Due, Passed, Slowed
    <2>4. bad = {} /\ done = P
      BY <1>3, <2>3 DEF Unfiltered
    <2>5. Passed(PairsOf(k), TRUE)' /\ Counts(k, PairsOf(k))'
      BY <1>1, <1>2, <2>3, Carried DEF SameAccount
    <2>6. Slowed(PairsOf(k), FALSE)'
      BY <1>1, <2>3, <2>4 DEF Slowed, IpsOf
    <2>7. task'[t].pc = "removeShaped" /\ task'[t].key = k /\ task'[t].todo = P
      BY <1>5, <2>4
    <2>8. ShapeOK(t, k)'
      BY <1>1, <1>2, <2>3, <2>5, <2>6, <2>7 DEF ShapeOK
    <2> QED  BY <2>1, <2>7, <2>8 DEF Stage, Working, RegisterOK, RemovalOK, KeyOK,
             RegisterPcs, RemovalPcs, BetweenPcs
  <1> QED  BY <1>2, <1>5, <1>6, <1>7, <1>8, WorkerStep

LEMMA RemoveShapedSync ==
    ASSUME TypeInv, TypeInv', DbInv, SyncInv, NEW t \in Threads, t = "acct", NEW k,
           NEW n, task[t].key = k, task[t].n = n, RemoveShaped(t)
    PROVE  SyncInv'
  <1>1. /\ UNCHANGED <<keyState, reg, pairRows, ipRows, macRows, nft, filters, status,
                       irregular>>
        /\ task[t].pc = "removeShaped" /\ Finish(t)
        /\ shaped' = IF Exists(k) THEN shaped \ {k} ELSE shaped
    BY DEF RemoveShaped, keyVars, rowVars, kernelVars, historyVars
  <1>2. /\ status = "up" /\ k \in Keys
        /\ k \notin irregular => Stage(t, k) /\ \A u \in Threads \ {t} : ~Working(u, k)
    BY <1>1, Worker
  <1>3. /\ task'[t].pc = "idle" /\ TaskOK(t)' /\ OwnersOK(t)'
        /\ \A u \in Threads \ {t} : task'[u] = task[u]
    BY <1>1, FinishTask, FinishOK
  <1>4. StepOf(t, k, {})
    BY <1>1, <1>2, <1>3 DEF StepOf, SameAccount
  <1>5. k \notin irregular =>
           /\ Open(k) /\ Passed(PairsOf(k), TRUE)
           /\ Slowed(PairsOf(k), FALSE) /\ Counts(k, PairsOf(k))
    BY <1>1, <1>2 DEF Stage, ShapeOK
  <1>6. PassStep(t, k, {}) /\ FilterStep(k, {})
    BY <1>1, <1>5 DEF PassStep, FilterStep, RemovalPcs, Live, Slowed
  <1>7. ASSUME k \notin irregular PROVE ~Working(t, k)' /\ Rest(k)'
    <2>1. /\ PairsOf(k)' = PairsOf(k) /\ Open(k)' = TRUE /\ Slow(k)' = FALSE
          /\ Due(k, PairsOf(k))' = PairsOf(k)
      BY <1>1, <1>5, <1>7 DEF PairsOf, Open, Slow, Due, Exists
    <2>2. /\ Passed(PairsOf(k), TRUE)' /\ Counts(k, PairsOf(k))'
          /\ Slowed(PairsOf(k), FALSE)'
      BY <1>1, <1>5, <1>7, <2>1, Carried DEF SameAccount
    <2> QED  BY <1>3, <2>1, <2>2 DEF Rest, Working
  <1> QED  BY <1>1, <1>2, <1>3, <1>4, <1>6, <1>7, WorkerStep

-----------------------------------------------------------------------------
(* A device is registered *)

LEMMA RegisterCommitSync ==
    ASSUME TypeInv, TypeInv', DbInv, SyncInv, NEW k \in Keys, NEW m \in Macs, NEW i \in Ips,
           RegisterCommit(k, m, i)
    PROVE  SyncInv'
  <1>0. PICK n : n = Len(reg) + 1
    OBVIOUS
  <1> DEFINE t == "rpc"
             ips == {i}
             marked == Overlap(t, k, ips)
  <1>1. /\ UNCHANGED <<keyState, nft, filters, status, shaped>>
        /\ t \in Threads /\ status = "up" /\ task[t].pc = "idle" /\ Exists(k)
        /\ pairRows' = pairRows \cup {n}
        /\ ipRows'   = ipRows \cup {n}
        /\ macRows'  = macRows \cup {n}
        /\ \A a \in ipRows : reg[a].ip # i
        /\ irregular \subseteq irregular' /\ marked \subseteq irregular'
        /\ UsedByIrregular(i) \/ ~Open(k) => k \in irregular'
        /\ Begin(t, "unlock", "register", k, n, {})
    BY <1>0 DEF RegisterCommit, Unused, Open, IsIdle, Threads, Mark, keyVars, kernelVars
  <1>2. /\ Len(reg) \in Nat /\ reg \in Seq(Registration)
        /\ pairRows \subseteq 1..Len(reg) /\ n \notin 1..Len(reg) /\ n # 0
        /\ pairRows \subseteq ipRows
    BY <1>0 DEF TypeInv, RowsType, DbInv, PairsBacked
  <1>3. /\ Len(reg') = n /\ reg'[n].key = k /\ reg'[n].ip = i
        /\ \A a \in 1..Len(reg) : reg'[a] = reg[a] /\ a \in 1..n
    <2>1. reg' = Append(reg, [key |-> k, mac |-> m, ip |-> i])
      BY <1>0 DEF RegisterCommit
    <2> QED  BY <1>0, <1>2, <2>1
  <1> HIDE DEF t, ips
  <1>4. /\ task'[t].pc = "unlock" /\ task'[t].op = "register" /\ task'[t].key = k
        /\ task'[t].n = n /\ task'[t].todo = {}
        /\ \A u \in Threads \ {t} : task'[u] = task[u]
    BY <1>1, BeginTask
  <1>5. \A u \in Threads :
           /\ task[u].n \in 0..Len(reg)
           /\ \A a \in task[u].todo \cup {task[u].n} : a # 0 => a \in 1..Len(reg)
    BY <1>2 DEF TypeInv, TaskType, Task
  <1>6. ~Working(t, k) /\ Working(t, k)'
    BY <1>1, <1>4 DEF Working
  <1>7. \A a \in 1..Len(reg) : Live(a) => Live(a)'
    BY <1>1, <1>3 DEF Live
  <1>8. TasksInv'
    <2>1. TaskOK(t)'
      BY <1>1, <1>3, <1>4 DEF TaskOK, Exists
    <2>2. ASSUME NEW u \in Threads \ {t} PROVE TaskOK(u)'
      <3>1. TaskOK(u) /\ task'[u] = task[u]
        BY <1>4 DEF SyncInv, TasksInv
      <3>2. \A a \in task[u].todo \cup {task[u].n} : a # 0 => reg'[a].key = task[u].key
        BY <1>3, <1>5, <3>1 DEF TaskOK
      <3> QED  BY <1>1, <3>1, <3>2 DEF TaskOK
    <2> QED  BY <2>1, <2>2 DEF TasksInv
  <1>9. OwnersInv'
    <2>1. OwnersOK(t)'
      <3>1. \A p \in pairRows : reg'[p].ip # i
        BY <1>1, <1>2, <1>3
      <3>2. Owns(n)'
        BY <1>1, <1>3, <3>1 DEF Owns
      <3> QED  BY <1>4, <3>2 DEF OwnersOK
    <2>2. ASSUME NEW u \in Threads \ {t} PROVE OwnersOK(u)'
      <3>1. OwnersOK(u) /\ task'[u] = task[u]
        BY <1>4 DEF SyncInv, OwnersInv
      <3>2. SUFFICES ASSUME task[u].pc \notin {"idle", "beginShape", "beginUnshape"},
                            NEW a \in task[u].todo \cup {task[u].n}, a # 0,
                            NEW p \in pairRows', p # a, reg'[p].ip = reg'[a].ip
                     PROVE  reg'[p].key \in irregular'
        BY <3>1 DEF OwnersOK, Owns
      <3>3. a \in 1..Len(reg) /\ reg'[a] = reg[a] /\ Owns(a)
        BY <1>3, <1>5, <3>1, <3>2 DEF OwnersOK
      <3>4. CASE p \in pairRows
        BY <1>1, <1>2, <1>3, <3>2, <3>3, <3>4 DEF Owns
      <3>5. CASE p = n
        <4>1. reg[a].ip \in ips
          BY <1>3, <3>2, <3>3, <3>5 DEF ips
        <4>2. Touches(u, k, ips)
          BY <3>2, <3>3, <4>1 DEF Touches
        <4>3. k \in marked
          BY <4>2 DEF Overlap
        <4> QED  BY <1>1, <1>3, <3>5, <4>3
      <3> QED  BY <1>1, <3>4, <3>5
    <2> QED  BY <2>1, <2>2 DEF OwnersInv
  <1>10. ASSUME NEW h \in Keys \ {k}, h \notin irregular' PROVE KeyInv(h)'
    <2>1. PairsOf(h)' = PairsOf(h) /\ PairsOf(h) \subseteq 1..Len(reg)
      BY <1>1, <1>2, <1>3 DEF PairsOf
    <2>2. \A u \in Threads : Working(u, h) \/ Working(u, h)' => task'[u] = task[u]
      BY <1>1, <1>4 DEF Working
    <2>3. Undisturbed(h)
      BY <1>1, <1>3, <2>1, <2>2 DEF Undisturbed, SameAccount
    <2> QED  BY <1>1, <1>10, <2>3, UndisturbedInv DEF SyncInv, KeysInv
  <1>11. ASSUME k \notin irregular' PROVE KeyInv(k)'
    <2>0. Open(k)
      BY <1>1, <1>11
    <2>1. /\ \A u \in Threads \ {t} : ~Working(u, k) /\ ~Working(u, k)'
          /\ Rest(k)
      <3>1. \A u \in Threads \ {t} : ~Working(u, k)
        BY <1>1, <1>11, NoOverlap
      <3>2. \A u \in Threads : ~Working(u, k)
        BY <1>6, <3>1
      <3> QED  BY <1>1, <1>4, <1>11, <3>1, <3>2, AtRest DEF Working
    <2>2. i \notin filters
      <3>1. SUFFICES ASSUME i \in filters PROVE FALSE
        OBVIOUS
      <3>2. PICK q \in 1..Len(reg) : reg[q].ip = i /\ FilterWitness(q)
        BY <3>1 DEF SyncInv, FilterInv
      <3>3. reg[q].key \notin irregular
        BY <1>1, <1>11, <3>2 DEF UsedByIrregular
      <3>4. q \in ipRows
        BY <1>2, <3>2, <3>3 DEF FilterWitness, Live
      <3> QED  BY <1>1, <3>2, <3>4
    <2>3. /\ PairsOf(k)' = PairsOf(k) \cup {n} /\ n \notin PairsOf(k)
          /\ PairsOf(k) \subseteq 1..Len(reg)
      BY <1>1, <1>2, <1>3 DEF PairsOf
    <2>4. \A p \in PairsOf(k) : reg'[p] = reg[p]
      BY <1>3, <2>3
    <2>5. Passed(PairsOf(k) \ {n}, TRUE)'
      BY <1>1, <2>0, <2>1, <2>3, <2>4 DEF Rest, Passed, Elem
    <2>6. Slowed(PairsOf(k) \ {n}, k \in shaped)'
      BY <1>1, <2>0, <2>1, <2>3, <2>4 DEF Rest, Slowed, Slow
    <2>7. Counts(k, PairsOf(k) \ {n})'
      <3>1. Counts(k, PairsOf(k))
        BY <1>1, <2>0, <2>1 DEF Rest, Due
      <3>2. KeyElems(PairsOf(k) \ {n})' = KeyElems(PairsOf(k))
        BY <2>3, <2>4 DEF KeyElems
      <3> QED  BY <1>1, <2>3, <3>1, <3>2 DEF Counts
    <2>8. RegisterOK(t, k)'
      BY <1>1, <1>3, <1>4, <2>0, <2>2, <2>3, <2>5, <2>6, <2>7 DEF RegisterOK, Open
    <2>9. Stage(t, k)'
      BY <1>4, <2>8 DEF Stage, RemovalOK, KeyOK, ShapeOK, RemovalPcs, BetweenPcs
    <2> QED  BY <1>1, <1>6, <2>1, <2>9 DEF KeyInv
  <1>12. PassInv'
    <2> SUFFICES ASSUME NEW e \in nft.registered
                 PROVE  \E p \in 1..Len(reg') : Elem(p)' = e /\ PassWitness(p)'
      BY <1>1 DEF PassInv
    <2>1. PICK p \in 1..Len(reg) : Elem(p) = e /\ PassWitness(p)
      BY DEF SyncInv, PassInv
    <2>2. Elem(p)' = e /\ reg'[p] = reg[p] /\ p \in 1..Len(reg')
      BY <1>3, <2>1 DEF Elem
    <2>3. \A u \in Threads : task[u].pc \in RemovalPcs => task'[u] = task[u]
      BY <1>1, <1>4 DEF RemovalPcs
    <2>4. PassWitness(p)'
      BY <1>1, <1>7, <2>1, <2>2, <2>3 DEF PassWitness
    <2> QED  BY <2>2, <2>4
  <1>13. FilterInv'
    <2> SUFFICES ASSUME NEW a \in filters
                 PROVE  \E p \in 1..Len(reg') : reg'[p].ip = a /\ FilterWitness(p)'
      BY <1>1 DEF FilterInv
    <2>1. PICK p \in 1..Len(reg) : reg[p].ip = a /\ FilterWitness(p)
      BY DEF SyncInv, FilterInv
    <2>2. reg'[p] = reg[p] /\ p \in 1..Len(reg')
      BY <1>3, <2>1
    <2>3. FilterWitness(p)'
      BY <1>1, <1>7, <2>1, <2>2 DEF FilterWitness
    <2> QED  BY <2>1, <2>2, <2>3
  <1>14. LifeInv'
    <2>1. \A a \in 1..Len(reg') : a \in 1..Len(reg) \/ a = n
      BY <1>0, <1>2, <1>3
    <2>2. \A a \in 1..Len(reg) : keyState[reg[a].key] # "none"
      BY DEF SyncInv, LifeInv
    <2>3. \A a \in 1..Len(reg') : keyState'[reg'[a].key] # "none"
      BY <1>1, <1>3, <2>1, <2>2 DEF Exists
    <2> QED  BY <1>1, <2>3 DEF LifeInv
  <1>15. KeysInv'
    <2>1. \A h \in Keys : h \in irregular' => KeyInv(h)'
      BY DEF KeyInv
    <2> QED  BY <1>10, <1>11, <2>1 DEF KeysInv
  <1> QED  BY <1>8, <1>9, <1>12, <1>13, <1>14, <1>15 DEF SyncInv

-----------------------------------------------------------------------------
(* Requests that only write columns, and the date *)

LEMMA AddKeySync ==
    ASSUME TypeInv, TypeInv', DbInv, SyncInv, NEW k \in Keys, AddKey(k)
    PROVE  SyncInv'
  <1> DEFINE t == "rpc"
  <1>1. /\ UNCHANGED <<reg, pairRows, ipRows, macRows, nft, filters, status, shaped,
                       task, irregular>>
        /\ t \in Threads /\ status = "up" /\ task[t].pc = "idle" /\ keyState[k] = "none"
        /\ keyState' = [keyState EXCEPT ![k] = "active"]
    BY DEF AddKey, rowVars, kernelVars, historyVars, IsIdle, Threads
  <1> HIDE DEF t
  <1>2. keyState'[k] = "active" /\ \A h \in Keys \ {k} : keyState'[h] = keyState[h]
    BY <1>1 DEF TypeInv, KeysType
  <1>3. PairsOf(k) = {} /\ \A u \in Threads : ~Working(u, k)
    <2>1. \A n \in 1..Len(reg) : reg[n].key # k
      BY <1>1 DEF SyncInv, LifeInv
    <2>2. \A u \in Threads : TaskOK(u)
      BY DEF SyncInv, TasksInv
    <2> QED  BY <1>1, <2>1, <2>2 DEF TypeInv, RowsType, PairsOf, Working, TaskOK
  <1>4. StepOf(t, k, {})
    BY <1>1, <1>2 DEF StepOf, SameAccount
  <1>5. PassStep(t, k, {}) /\ FilterStep(k, {})
    BY <1>1, <1>3 DEF PassStep, FilterStep, RemovalPcs
  <1>6. TaskOK(t)' /\ OwnersOK(t)'
    <2>1. TaskOK(t)
      BY <1>1 DEF SyncInv, TasksInv
    <2> QED  BY <1>1, <2>1 DEF TaskOK, OwnersOK
  <1>7. ASSUME k \notin irregular' PROVE ~Working(t, k)' /\ Rest(k)'
    <2>1. Counts(k, {})
      <3>1. Rest(k)
        BY <1>1, <1>3, <1>7, AtRest
      <3> QED  BY <1>3, <3>1 DEF Rest, Due
    <2>2. PairsOf(k)' = {} /\ Due(k, PairsOf(k))' = {}
      BY <1>1, <1>3 DEF PairsOf, Due
    <2>3. Passed(PairsOf(k), Open(k))' /\ Slowed(PairsOf(k), Slow(k))'
      BY <2>2 DEF Passed, Slowed
    <2>4. Counts(k, {})'
      BY <1>1, <2>1, Carried DEF SameAccount
    <2> QED  BY <1>1, <2>2, <2>3, <2>4 DEF Rest, Working
  <1> QED  BY <1>1, <1>3, <1>4, <1>5, <1>6, <1>7, WorkerStep

\* Steps that change nothing the invariant speaks of.
LEMMA QuietSync ==
    ASSUME TypeInv, SyncInv,
           UNCHANGED <<keyState, reg, pairRows, ipRows, macRows, nft, filters, status,
                       shaped, task, irregular>>
    PROVE  SyncInv'
  <1>1. ASSUME NEW k \in Keys PROVE KeyInv(k)'
    <2>1. Undisturbed(k)
      BY DEF Undisturbed, SameAccount, PairsOf, Working
    <2> QED  BY <2>1, UndisturbedInv DEF SyncInv, KeysInv
  <1>2. KeysInv'
    BY <1>1 DEF KeysInv
  <1>3. TasksInv'
    BY DEF SyncInv, TasksInv, TaskOK
  <1>4. OwnersInv'
    BY DEF SyncInv, OwnersInv, OwnersOK, Owns
  <1>5. PassInv'
    BY DEF SyncInv, PassInv, PassWitness, Elem, Live
  <1>6. FilterInv'
    BY DEF SyncInv, FilterInv, FilterWitness, Live
  <1>7. LifeInv'
    BY DEF SyncInv, LifeInv, IsIdle
  <1> QED  BY <1>2, <1>3, <1>4, <1>5, <1>6, <1>7 DEF SyncInv

LEMMA ColumnsSync ==
    ASSUME TypeInv, SyncInv,
           \/ UNCHANGED vars \/ Midnight
           \/ \E k \in Keys : NewTrafficRow(k) \/ SetCustomCredit(k)
    PROVE  SyncInv'
  <1>1. UNCHANGED <<keyState, reg, pairRows, ipRows, macRows, nft, filters, status,
                    shaped, task, irregular>>
    BY DEF vars, keyVars, rowVars, kernelVars, historyVars, Midnight, NewTrafficRow,
           SetCustomCredit
  <1> QED  BY <1>1, QuietSync

-----------------------------------------------------------------------------
(* Start and stop of the process *)

\* The start lets the devices of the active keys through and counts them; of a
\* regular key nothing is in the kernel before.
LEMMA BootSync ==
    ASSUME TypeInv, TypeInv', DbInv, SyncInv, Boot
    PROVE  SyncInv'
  <1>0. PICK P, ks : P = ActiveRows /\ ks = {reg[n].key : n \in P}
    OBVIOUS
  <1>1. /\ UNCHANGED <<keyState, reg, pairRows, ipRows, macRows, filters, shaped, task,
                       irregular>>
        /\ status = "down" /\ status' = "up"
        /\ nft' = AddMatchingRules(
                      AddKeyElems(
                          AddKeySets(AddAllocations(nft, Elems(P)), ks),
                          KeyElems(P)),
                      ks)
    BY <1>0 DEF Boot, keyVars, rowVars, historyVars
  <1>2. /\ shaped = {} /\ \A t \in Threads : task[t].pc = "idle"
    BY <1>1 DEF SyncInv, LifeInv, IsIdle
  <1>3. /\ P \subseteq pairRows /\ P \subseteq 1..Len(reg) /\ ks \subseteq Keys
        /\ \A n \in P : reg[n].key \in ks /\ Live(n)
        /\ \A k : (k \in ks /\ PairsOf(k) # {} /\ Open(k)) \/
                  (k \notin ks /\ (PairsOf(k) = {} \/ ~Open(k)))
    <2>1. P \subseteq pairRows /\ pairRows \subseteq 1..Len(reg)
      BY <1>0 DEF ActiveRows, TypeInv, RowsType
    <2>2. ks \subseteq Keys
      BY <1>0, <2>1, RegistrationType DEF TypeInv
    <2>3. \A k : k \in ks <=> PairsOf(k) # {} /\ Open(k)
      BY <1>0 DEF ActiveRows, PairsOf, Open
    <2> QED  BY <1>0, <2>1, <2>2, <2>3 DEF ActiveRows, Live
  <1>4. /\ nft'.registered = nft.registered \cup Elems(P)
        /\ nft'.sets = nft.sets \cup ks /\ nft'.counters = nft.counters \cup ks
        /\ nft'.elems = nft.elems \cup KeyElems(P)
        /\ \A h \in Keys : nft'.rules[h] = IF h \in ks THEN nft.rules[h] + 1
                                           ELSE nft.rules[h]
        /\ \A h \in Keys \ ks : SameAccount(h)
    <2>1. PICK f : f = AddKeySets(AddAllocations(nft, Elems(P)), ks)
      OBVIOUS
    <2>2. f \in Table
      BY <1>3, <2>1, KeySetsType, AllocationsType, SetsOfRows DEF TypeInv, KernelType
    <2>3. nft' = AddMatchingRules(AddKeyElems(f, KeyElems(P)), ks)
      BY <1>1, <2>1
    <2>4. P \subseteq 1..Len(reg) /\ ks \subseteq Keys /\ \A p \in P : reg[p].key \in ks
      BY <1>3
    <2>5. f = AddKeySets(AddAllocations(nft, Elems(P)), ks)
             \/ f = AddAllocations(AddKeySets(nft, ks), Elems(P))
      BY <2>1
    <2>6. /\ P \subseteq 1..Len(reg) /\ ks \subseteq Keys
          /\ \A p \in P : reg[p].key \in ks
      BY <1>3
    <2> QED  BY ONLY TypeInv, <2>2, <2>3, <2>5, <2>6, SetupAllFields
  <1>5. KeysInv'
    <2> SUFFICES ASSUME NEW k \in Keys, k \notin irregular
                 PROVE  Rest(k)'
      BY <1>1, <1>2 DEF KeysInv, KeyInv, Working
    <2>1. Bare(k)
      <3>1. KeyInv(k) /\ \A t \in Threads : ~Working(t, k)
        BY <1>2 DEF SyncInv, KeysInv, Working
      <3> QED  BY <1>1, <3>1 DEF KeyInv
    <2>2. /\ PairsOf(k)' = PairsOf(k) /\ Open(k)' = Open(k) /\ Slow(k)' = FALSE
          /\ Due(k, PairsOf(k))' = Due(k, PairsOf(k))
          /\ \A S : KeyElems(S)' = KeyElems(S)
      BY <1>1, <1>2 DEF PairsOf, Open, Slow, Due, KeyElems
    <2>3. PairsOf(k) \subseteq pairRows /\ \A p \in PairsOf(k) : reg[p].key = k
      BY DEF PairsOf
    <2>4. \A p \in PairsOf(k) : Elem(p) \in Elems(P) <=> Open(k)
      <3>1. ASSUME NEW p \in PairsOf(k), Open(k) PROVE Elem(p) \in Elems(P)
        BY <1>0, <2>3, <3>1 DEF ActiveRows, Open, Elems
      <3>2. ASSUME NEW p \in PairsOf(k), Elem(p) \in Elems(P) PROVE Open(k)
        <4>1. PICK q \in P : Elem(q) = Elem(p)
          BY <3>2 DEF Elems
        <4>2. q \in pairRows /\ reg[q].ip = reg[p].ip
          BY <1>3, <4>1 DEF Elem
        <4>3. q = p
          BY <2>3, <4>2 DEF DbInv, UniqueAddresses, PairsBacked
        <4> QED  BY <1>3, <2>3, <4>3 DEF Live, Open
      <3> QED  BY <3>1, <3>2
    <2>5. Passed(PairsOf(k), Open(k))'
      <3>1. \A p \in PairsOf(k) : Elem(p) \in nft'.registered <=> Open(k)
        BY <1>4, <2>1, <2>4 DEF Bare, Passed
      <3> QED  BY <1>1, <2>2, <3>1 DEF Passed, Elem
    <2>6. Slowed(PairsOf(k), Slow(k))'
      BY <1>1, <2>1, <2>2 DEF Bare, Slowed
    <2>7. Counts(k, Due(k, PairsOf(k)))'
      <3>1. CASE k \notin ks
        <4>1. Due(k, PairsOf(k)) = {}
          BY <1>3, <3>1 DEF Due
        <4> QED  BY <1>1, <1>4, <2>1, <2>2, <3>1, <4>1, Carried DEF Bare
      <3>2. CASE k \in ks
        <4>1. PairsOf(k) # {} /\ Due(k, PairsOf(k)) = PairsOf(k) /\ Open(k)
          BY <1>3, <3>2 DEF Due
        <4>2. nft.rules[k] = 0 /\ {e \in nft.elems : e[1] = k} = {}
          BY <2>1 DEF Bare, Counts, KeyElems
        <4>3. {e \in KeyElems(P) : e[1] = k} = KeyElems(PairsOf(k))
          <5>1. {n \in P : reg[n].key = k} = PairsOf(k)
            BY <1>0, <4>1 DEF ActiveRows, PairsOf, Open
          <5> QED  BY <5>1 DEF KeyElems
        <4>4. {e \in nft'.elems : e[1] = k} = KeyElems(PairsOf(k))
          BY <1>4, <4>2, <4>3
        <4> QED  BY <1>4, <2>2, <3>2, <4>1, <4>2, <4>4 DEF Counts
      <3> QED  BY <3>1, <3>2
    <2> QED  BY <2>5, <2>6, <2>7 DEF Rest
  <1>6. PassInv'
    <2> SUFFICES ASSUME NEW e \in nft'.registered
                 PROVE  \E n \in 1..Len(reg) : Elem(n)' = e /\ PassWitness(n)'
      BY <1>1 DEF PassInv
    <2>1. \A n : Elem(n)' = Elem(n) /\ (Live(n)' <=> Live(n))
      BY <1>1 DEF Elem, Live
    <2>2. CASE e \in Elems(P)
      BY <1>3, <2>1, <2>2 DEF Elems, PassWitness
    <2>3. CASE e \in nft.registered
      BY <1>1, <2>1, <2>3 DEF SyncInv, PassInv, PassWitness
    <2> QED  BY <1>4, <2>2, <2>3
  <1>7. /\ TasksInv' /\ OwnersInv' /\ FilterInv' /\ LifeInv'
    <2>1. TasksInv'
      BY <1>1 DEF SyncInv, TasksInv, TaskOK
    <2>2. OwnersInv'
      BY <1>2, <1>1 DEF OwnersInv, OwnersOK
    <2>3. FilterInv'
      BY <1>1 DEF SyncInv, FilterInv, FilterWitness, Live
    <2>4. LifeInv'
      BY <1>1 DEF SyncInv, LifeInv
    <2> QED  BY <2>1, <2>2, <2>3, <2>4
  <1> QED  BY <1>5, <1>6, <1>7 DEF SyncInv

LEMMA StopParts ==
    ASSUME Stop
    PROVE  /\ UNCHANGED <<keyState, reg, pairRows>> /\ status' = "down" /\ shaped' = {}
           /\ \A t \in Threads : task'[t] = Idle
           /\ \A k : \A t \in Threads : ~Working(t, k)'
           /\ TasksInv' /\ OwnersInv'
           /\ (\A n \in 1..Len(reg) : keyState[reg[n].key] # "none") => LifeInv'
  <1>1. /\ UNCHANGED <<keyState, reg, pairRows>> /\ status' = "down" /\ shaped' = {}
        /\ \A t \in Threads : task'[t] = Idle
    BY DEF Stop, keyVars, rowVars
  <1>2. /\ Idle.pc = "idle" /\ Idle.op = "none" /\ Idle.n = 0 /\ Idle.todo = {}
    BY DEF Idle
  <1>3. TasksInv'
    BY <1>1, <1>2 DEF TasksInv, TaskOK
  <1>4. OwnersInv'
    BY <1>1, <1>2 DEF OwnersInv, OwnersOK
  <1>5. (\A n \in 1..Len(reg) : keyState[reg[n].key] # "none") => LifeInv'
    BY <1>1, <1>2 DEF LifeInv, IsIdle
  <1> QED  BY <1>1, <1>2, <1>3, <1>4, <1>5 DEF Working

\* With the kernel's tables cleared nothing is left of any key.
LEMMA ClearedSync ==
    ASSUME TypeInv, SyncInv, Stop, ClearKernel
    PROVE  SyncInv'
  <1>1. /\ nft' = EmptyTable /\ filters' = {} /\ irregular' = {}
    BY DEF ClearKernel
  <1>2. /\ EmptyTable.registered = {} /\ EmptyTable.sets = {} /\ EmptyTable.elems = {}
        /\ EmptyTable.counters = {} /\ \A k \in Keys : EmptyTable.rules[k] = 0
    BY DEF EmptyTable
  <1>3. /\ status' = "down" /\ \A k : \A t \in Threads : ~Working(t, k)'
        /\ TasksInv' /\ OwnersInv' /\ LifeInv'
    BY StopParts DEF SyncInv, LifeInv
  <1>4. KeysInv'
    <2> SUFFICES ASSUME NEW k \in Keys PROVE Bare(k)'
      BY <1>3 DEF KeysInv, KeyInv
    <2>1. Counts(k, {})'
      BY <1>1, <1>2 DEF Counts, KeyElems
    <2> QED  BY <1>1, <1>2, <2>1 DEF Bare, Passed, Slowed
  <1>5. PassInv' /\ FilterInv'
    BY <1>1, <1>2 DEF PassInv, FilterInv
  <1> QED  BY <1>3, <1>4, <1>5 DEF SyncInv

\* With the kernel's tables left behind every key that has been there becomes
\* irregular; of the others there is nothing in them.
LEMMA KillSync ==
    ASSUME TypeInv, SyncInv, Kill
    PROVE  SyncInv'
  <1>1. /\ Stop /\ status = "up" /\ nft' = nft /\ filters' = filters
        /\ irregular' = irregular \cup {k \in Keys : keyState[k] # "none"}
    BY DEF Kill, Stop, kernelVars, Mark
  <1>2. /\ UNCHANGED <<keyState, reg, pairRows>>
        /\ status' = "down" /\ \A k : \A t \in Threads : ~Working(t, k)'
        /\ TasksInv' /\ OwnersInv' /\ LifeInv'
    BY <1>1, StopParts DEF SyncInv, LifeInv
  <1>3. \A n \in 1..Len(reg) : reg'[n].key \in irregular' /\ Elem(n)' = Elem(n)
    BY <1>1, <1>2, RegistrationType DEF SyncInv, LifeInv, TypeInv, Elem
  <1>4. KeysInv'
    <2> SUFFICES ASSUME NEW k \in Keys, k \notin irregular' PROVE Bare(k)'
      BY <1>2 DEF KeysInv, KeyInv
    <2>1. keyState[k] = "none" /\ k \notin irregular
      BY <1>1
    <2>2. PairsOf(k) = {} /\ \A u \in Threads : ~Working(u, k)
      <3>1. \A n \in 1..Len(reg) : reg[n].key # k
        BY <2>1 DEF SyncInv, LifeInv
      <3>2. \A u \in Threads : TaskOK(u)
        BY DEF SyncInv, TasksInv
      <3> QED  BY <2>1, <3>1, <3>2 DEF TypeInv, RowsType, PairsOf, Working, TaskOK
    <2>3. Counts(k, {})
      <3>1. Rest(k)
        BY <1>1, <2>1, <2>2, AtRest
      <3> QED  BY <2>2, <3>1 DEF Rest, Due
    <2>4. Counts(k, {})' /\ PairsOf(k)' = {}
      BY <1>1, <1>2, <2>2, <2>3, Carried DEF SameAccount, PairsOf
    <2> QED  BY <2>4 DEF Bare, Passed, Slowed
  <1>5. PassInv'
    <2>1. \A e \in nft.registered : \E n \in 1..Len(reg) : Elem(n) = e
      BY DEF SyncInv, PassInv
    <2> QED  BY <1>1, <1>2, <1>3, <2>1 DEF PassInv, PassWitness
  <1>6. FilterInv'
    <2>1. \A i \in filters : \E n \in 1..Len(reg) : reg[n].ip = i
      BY DEF SyncInv, FilterInv
    <2> QED  BY <1>1, <1>2, <1>3, <2>1 DEF FilterInv, FilterWitness
  <1> QED  BY <1>2, <1>4, <1>5, <1>6 DEF SyncInv

-----------------------------------------------------------------------------
(* The invariant holds *)

LEMMA InitSync == Init => SyncInv
  <1> SUFFICES ASSUME Init PROVE SyncInv
    OBVIOUS
  <1>1. /\ keyState = [k \in Keys |-> "none"] /\ reg = <<>> /\ pairRows = {}
        /\ filters = {} /\ shaped = {} /\ status = "down"
        /\ \A t \in Threads : task[t] = Idle
        /\ nft = EmptyTable
    BY DEF Init
  <1>2. /\ nft.registered = {} /\ nft.sets = {} /\ nft.elems = {}
        /\ nft.counters = {} /\ \A k \in Keys : nft.rules[k] = 0
    BY <1>1 DEF EmptyTable
  <1>3. /\ 1..Len(reg) = {}
        /\ Idle.pc = "idle" /\ Idle.op = "none" /\ Idle.n = 0 /\ Idle.todo = {}
    BY <1>1 DEF Idle
  <1>4. KeysInv
    <2> SUFFICES ASSUME NEW k \in Keys PROVE KeyInv(k)
      BY DEF KeysInv
    <2>1. \A t \in Threads : ~Working(t, k)
      BY <1>1, <1>3 DEF Working
    <2>2. Passed(PairsOf(k), FALSE) /\ Slowed(PairsOf(k), FALSE)
      BY <1>1 DEF Passed, Slowed, PairsOf
    <2>3. Counts(k, {})
      BY <1>2 DEF Counts, KeyElems
    <2> QED  BY <1>1, <2>1, <2>2, <2>3 DEF KeyInv, Bare
  <1>5. TasksInv /\ OwnersInv
    BY <1>1, <1>3 DEF TasksInv, TaskOK, OwnersInv, OwnersOK
  <1>6. PassInv /\ FilterInv
    BY <1>1, <1>2 DEF PassInv, FilterInv
  <1>7. LifeInv
    BY <1>1, <1>3 DEF LifeInv, IsIdle
  <1> QED  BY <1>4, <1>5, <1>6, <1>7 DEF SyncInv

\* A step of the thread whose handler works on key k.
LEMMA HandlerSync ==
    ASSUME TypeInv, TypeInv', DbInv, SyncInv, NEW t \in Threads,
           \/ Unlock(t) \/ CountDevices(t) \/ SetupAccounting(t) \/ ShapeDevice(t)
           \/ SetupKey(t) \/ RelockAll(t) \/ CommitInactive(t)
           \/ Removal(t) \/ BeginShape(t) \/ BeginUnshape(t)
           \/ t = "acct" /\ (FinishShape(t) \/ RemoveShaped(t))
    PROVE  SyncInv'
  <1>1. PICK k, n, P : task[t].key = k /\ task[t].n = n /\ task[t].todo = P
    OBVIOUS
  <1>2. CASE Unlock(t)
    BY <1>1, <1>2, UnlockSync
  <1>3. CASE CountDevices(t)
    BY <1>1, <1>3, CountDevicesSync
  <1>4. CASE SetupAccounting(t)
    BY <1>1, <1>4, SetupAccountingSync
  <1>5. CASE ShapeDevice(t)
    BY <1>1, <1>5, ShapeDeviceSync
  <1>6. CASE SetupKey(t)
    BY <1>1, <1>6, SetupKeySync
  <1>7. CASE RelockAll(t)
    BY <1>1, <1>7, RelockAllSync
  <1>8. CASE CommitInactive(t)
    BY <1>1, <1>8, CommitInactiveSync
  <1>9. CASE Removal(t)
    <2>1. CASE DeletePair(t)
      BY <1>1, <2>1, DeletePairSync
    <2>2. CASE DeleteIp(t) \/ DeleteMac(t)
      BY <1>1, <2>2, DeleteRowSync
    <2>3. CASE Unaccount(t)
      BY <1>1, <2>3, UnaccountSync
    <2>4. CASE Teardown(t)
      BY <1>1, <2>4, TeardownSync
    <2>5. CASE Relock(t)
      BY <1>1, <2>5, RelockSync
    <2>6. CASE NextDevice(t)
      BY <1>1, <2>6, NextDeviceSync
    <2>7. CASE DeleteTraffic(t)
      BY <1>1, <2>7, DeleteTrafficSync
    <2>8. CASE DeleteKeyRow(t)
      BY <1>1, <2>8, DeleteKeyRowSync
    <2> QED  BY <1>9, <2>1, <2>2, <2>3, <2>4, <2>5, <2>6, <2>7, <2>8 DEF Removal
  <1>10. CASE BeginShape(t)
    BY <1>1, <1>10, BeginShapeSync
  <1>11. CASE BeginUnshape(t)
    BY <1>1, <1>11, BeginUnshapeSync
  <1>12. CASE t = "acct" /\ FinishShape(t)
    BY <1>1, <1>12, FinishShapeSync
  <1>13. CASE t = "acct" /\ RemoveShaped(t)
    BY <1>1, <1>13, RemoveShapedSync
  <1> QED  BY <1>2, <1>3, <1>4, <1>5, <1>6, <1>7, <1>8, <1>9, <1>10, <1>11, <1>12,
              <1>13

\* The first step of a handler, in the thread that was idle.
LEMMA BeginningSync ==
    ASSUME TypeInv, TypeInv', DbInv, SyncInv, NEW k \in Keys,
           \/ BeginDeregisterAll(k) \/ BeginMove(k)
           \/ BeginDelete("rpc", k) \/ BeginDelete("hk", k)
           \/ BeginActivate(k) \/ BeginDeactivate(k)
           \/ ReadToShape(k) \/ ReadToUnshape(k)
    PROVE  SyncInv'
  <1>0. PICK t, u, all, move :
           t = "rpc" /\ u = "hk" /\ all = "deregisterAll" /\ move = "move"
    OBVIOUS
  <1>1. t \in Threads /\ u \in Threads
    BY <1>0 DEF Threads
  <1>2. CASE BeginDeregisterAll(k)
    <2>1. /\ status = "up" /\ IsIdle(t) /\ BeginRemoval(t, all, k)
          /\ UNCHANGED <<keyVars, rowVars, nft, status, shaped, stops, torn>>
      BY <1>0, <1>2 DEF BeginDeregisterAll
    <2> QED  BY <1>1, <2>1, BeginRemovalSync
  <1>3. CASE BeginMove(k)
    <2>1. /\ status = "up" /\ IsIdle(u) /\ BeginRemoval(u, move, k)
          /\ UNCHANGED <<keyVars, rowVars, nft, status, shaped, stops, torn>>
      BY <1>0, <1>3 DEF BeginMove
    <2> QED  BY <1>1, <2>1, BeginRemovalSync
  <1>4. CASE BeginDelete("rpc", k) \/ BeginDelete("hk", k)
    <2>1. BeginDelete(t, k) \/ BeginDelete(u, k)
      BY <1>0, <1>4
    <2> QED  BY <1>1, <2>1, BeginDeleteSync
  <1>5. CASE BeginActivate(k)
    BY <1>5, BeginActivateSync
  <1>6. CASE BeginDeactivate(k)
    BY <1>6, BeginDeactivateSync
  <1>7. CASE ReadToShape(k) \/ ReadToUnshape(k)
    BY <1>7, ReadSync
  <1> QED  BY <1>2, <1>3, <1>4, <1>5, <1>6, <1>7

LEMMA SyncInvariant == Spec => [](TypeInv /\ DbInv /\ SyncInv)
  <1>1. TypeInv /\ TypeInv' /\ DbInv /\ SyncInv /\ [Next]_vars => SyncInv'
    <2> SUFFICES ASSUME TypeInv, TypeInv', DbInv, SyncInv, [Next]_vars
                 PROVE  SyncInv'
      OBVIOUS
    <2>0. {"rpc", "hk", "acct"} \subseteq Threads
      BY DEF Threads
    <2>1. CASE Rpc
      <3>1. ASSUME NEW k \in Keys, NEW m \in Macs, NEW i \in Ips,
                   RegisterCommit(k, m, i)
            PROVE  SyncInv'
        BY <3>1, RegisterCommitSync
      <3>2. ASSUME NEW k \in Keys,
                   \/ BeginDeregisterAll(k) \/ BeginDelete("rpc", k)
                   \/ BeginActivate(k) \/ BeginDeactivate(k)
            PROVE  SyncInv'
        BY <3>2, BeginningSync
      <3>3. ASSUME NEW k \in Keys, AddKey(k)
            PROVE  SyncInv'
        BY <3>3, AddKeySync
      <3>4. ASSUME NEW k \in Keys, SetCustomCredit(k)
            PROVE  SyncInv'
        BY <3>4, ColumnsSync
      <3>5. ASSUME NEW n \in pairRows, BeginDeregister(n)
            PROVE  SyncInv'
        BY <3>5, BeginDeregisterSync
      <3>6. ASSUME \/ Unlock("rpc") \/ CountDevices("rpc")
                   \/ SetupAccounting("rpc") \/ ShapeDevice("rpc")
                   \/ SetupKey("rpc") \/ RelockAll("rpc") \/ CommitInactive("rpc")
            PROVE  SyncInv'
        BY <2>0, <3>6, HandlerSync
      <3> QED  BY <2>1, <3>1, <3>2, <3>3, <3>4, <3>5, <3>6 DEF Rpc
    <2>2. CASE Housekeeping
      BY <2>2, BeginningSync DEF Housekeeping
    <2>3. ASSUME NEW t \in {"rpc", "hk"}, Removal(t)
          PROVE  SyncInv'
      BY <2>0, <2>3, HandlerSync
    <2>4. CASE Accounting
      <3>1. ASSUME NEW k \in Keys, NewTrafficRow(k)
            PROVE  SyncInv'
        BY <3>1, ColumnsSync
      <3>2. ASSUME NEW k \in Keys, ReadToShape(k) \/ ReadToUnshape(k)
            PROVE  SyncInv'
        BY <3>2, BeginningSync
      <3>3. ASSUME \/ BeginShape("acct") \/ FinishShape("acct")
                   \/ BeginUnshape("acct") \/ RemoveShaped("acct")
            PROVE  SyncInv'
        BY <2>0, <3>3, HandlerSync
      <3> QED  BY <2>4, <3>1, <3>2, <3>3 DEF Accounting
    <2>5. CASE Midnight \/ UNCHANGED vars
      BY <2>5, ColumnsSync
    <2>6. CASE Process
      BY <2>6, BootSync, ClearedSync, KillSync DEF Process, Shutdown, PowerLoss
    <2> QED  BY <2>1, <2>2, <2>3, <2>4, <2>5, <2>6 DEF Next
  <1>2. Spec => []DbInv
    BY DatabaseIntegrity, PTL DEF DbInv
  <1> QED  BY <1>1, <1>2, InitSync, TypeInvariant, PTL DEF Spec

-----------------------------------------------------------------------------
(* What the invariant says of a settled key *)

LEMMA SettledRest ==
    ASSUME SyncInv, status = "up", NEW k \in Keys, Settled(k)
    PROVE  Rest(k) /\ k \notin irregular
  BY AtRest DEF Settled, Working

LEMMA LiveDevices ==
    ASSUME NEW k
    PROVE  {n \in PairsOf(k) : Live(n)} = Due(k, PairsOf(k))
  BY DEF PairsOf, Live, Due, Open

LEMMA FirewallStep ==
    ASSUME TypeInv, SyncInv
    PROVE  FirewallInSync
  <1> SUFFICES ASSUME status = "up"
               PROVE  FirewallInSync
    BY DEF FirewallInSync
  <1>1. ASSUME NEW n \in pairRows, Settled(reg[n].key)
        PROVE  Elem(n) \in nft.registered <=> keyState[reg[n].key] = "active"
    <2>1. reg[n].key \in Keys /\ n \in PairsOf(reg[n].key)
      BY RegistrationType DEF TypeInv, RowsType, PairsOf
    <2> QED  BY <1>1, <2>1, SettledRest DEF Rest, Passed, Open
  <1>2. ASSUME NEW e \in nft.registered
        PROVE  \E n \in 1..Len(reg) : Elem(n) = e /\ (Live(n) \/ ~Settled(reg[n].key))
    <2>1. PICK n \in 1..Len(reg) : Elem(n) = e /\ PassWitness(n)
      BY DEF SyncInv, PassInv
    <2>2. ASSUME NEW t \in Threads, task[t].n = n
          PROVE  ~Settled(reg[n].key)
      BY <2>2 DEF SyncInv, TasksInv, TaskOK, Settled
    <2> QED  BY <2>1, <2>2 DEF PassWitness, Settled
  <1> QED  BY <1>1, <1>2 DEF FirewallInSync

LEMMA AccountingStep ==
    ASSUME SyncInv
    PROVE  AccountingInSync
  <1> SUFFICES ASSUME status = "up", NEW k \in Keys, Settled(k)
               PROVE  Counts(k, {n \in PairsOf(k) : Live(n)})
    BY DEF AccountingInSync, Counts
  <1>1. Counts(k, Due(k, PairsOf(k)))
    BY SettledRest DEF Rest
  <1> QED  BY <1>1, LiveDevices

LEMMA ShapingStep ==
    ASSUME TypeInv, SyncInv
    PROVE  ShapingInSync
  <1> SUFFICES ASSUME status = "up"
               PROVE  ShapingInSync
    BY DEF ShapingInSync
  <1>1. ASSUME NEW n \in pairRows, Settled(reg[n].key), Live(n)
        PROVE  reg[n].ip \in filters <=> reg[n].key \in shaped
    <2>1. reg[n].key \in Keys /\ n \in PairsOf(reg[n].key)
      BY RegistrationType DEF TypeInv, RowsType, PairsOf
    <2> QED  BY <1>1, <2>1, SettledRest DEF Rest, Slowed, Slow, Open, Live
  <1>2. ASSUME NEW i \in filters
        PROVE  \E n \in 1..Len(reg) :
                  /\ reg[n].ip = i
                  /\ (Live(n) /\ reg[n].key \in shaped) \/ ~Settled(reg[n].key)
    BY DEF SyncInv, FilterInv, FilterWitness, Settled
  <1> QED  BY <1>1, <1>2 DEF ShapingInSync

-----------------------------------------------------------------------------
(* How the removal of one device ends *)

\* A handler step that moves one thread leaves the tasks of the others alone.
LEMMA OthersStay ==
    ASSUME TypeInv, NEW t, NEW u, u # t, u \in Threads,
           \/ Finish(t)
           \/ \E pc : Goto(t, pc)
           \/ \E pc, op, k, n, todo : Begin(t, pc, op, k, n, todo)
    PROVE  task'[u] = task[u]
  BY DEF TypeInv, TaskType, Finish, Goto, Begin

\* The only step that ends it while the process runs is the one that locks the
\* firewall again.
LEMMA DeregisterEnds ==
    ASSUME TypeInv, [Next]_vars, task["rpc"].pc \in {"delPair"} \cup RemovalPcs,
           status' = "up", task'["rpc"].pc = "idle"
    PROVE  Relock("rpc")
  <1>0. /\ task \in [Threads -> Task] /\ {"rpc", "hk", "acct"} \subseteq Threads
        /\ task["rpc"].pc \notin {"idle", "unlock", "count", "setup", "addIp",
              "shapeDevice", "setupKey", "relockAll", "commitInactive", "next",
              "delTraffic", "delKey"}
    BY DEF TypeInv, TaskType, Threads, RemovalPcs
  <1>1. task'["rpc"] # task["rpc"]
    BY <1>0
  <1>2. ~Rpc
    BY <1>0, <1>1 DEF Rpc, RegisterCommit, BeginDeregisterAll, BeginDelete,
          BeginActivate, BeginDeactivate, AddKey, SetCustomCredit, BeginDeregister,
          Unlock, CountDevices, SetupAccounting, ShapeDevice, SetupKey, RelockAll,
          CommitInactive, IsIdle
  <1>3. ~Housekeeping
    <2>1. ASSUME NEW k \in Keys, BeginMove(k) \/ BeginDelete("hk", k)
          PROVE  \E pc, op, j, n, todo : Begin("hk", pc, op, j, n, todo)
      BY <2>1 DEF BeginMove, BeginDelete, BeginRemoval, LoadDevice
    <2> QED  BY <1>0, <1>1, <2>1, OthersStay DEF Housekeeping
  <1>4. ASSUME Removal("hk") PROVE FALSE
    <2>1. \/ Finish("hk")
          \/ \E pc : Goto("hk", pc)
          \/ \E pc, op, k, n, todo : Begin("hk", pc, op, k, n, todo)
      BY <1>4 DEF Removal, DeletePair, DeleteIp, DeleteMac, Unaccount, Teardown, Relock,
            NextDevice, DeleteTraffic, DeleteKeyRow, LoadDevice
    <2> QED  BY <1>0, <1>1, <2>1, OthersStay
  <1>5. ~Accounting
    <2>1. ASSUME Accounting
          PROVE  \/ task' = task
                 \/ Finish("acct")
                 \/ \E pc : Goto("acct", pc)
                 \/ \E pc, op, k, n, todo : Begin("acct", pc, op, k, n, todo)
      BY <2>1 DEF Accounting, NewTrafficRow, ReadToShape, ReadToUnshape, BeginShape,
            FinishShape, BeginUnshape, RemoveShaped
    <2> QED  BY <1>0, <1>1, <2>1, OthersStay
  <1>6. ~Midnight /\ ~Process /\ ~(UNCHANGED vars)
    BY <1>1 DEF Midnight, Process, Boot, Shutdown, PowerLoss, Kill, Stop, vars,
          historyVars
  <1>7. Removal("rpc")
    BY <1>2, <1>3, <1>4, <1>5, <1>6 DEF Next
  <1>8. ASSUME NEW pc, Goto("rpc", pc), pc # "idle" PROVE FALSE
    <2>1. task'["rpc"].pc = pc
      BY <1>0, <1>8 DEF Goto, Task
    <2> QED  BY <1>8, <2>1
  <1>9. ~DeletePair("rpc")
    BY <1>8 DEF DeletePair
  <1>10. ~DeleteIp("rpc") /\ ~DeleteMac("rpc")
    BY <1>8 DEF DeleteIp, DeleteMac
  <1>11. ~Unaccount("rpc") /\ ~Teardown("rpc")
    BY <1>8 DEF Unaccount, Teardown
  <1>12. ~NextDevice("rpc") /\ ~DeleteTraffic("rpc") /\ ~DeleteKeyRow("rpc")
    BY <1>0 DEF NextDevice, DeleteTraffic, DeleteKeyRow
  <1> QED  BY <1>7, <1>9, <1>10, <1>11, <1>12 DEF Removal

LEMMA RemovalEnds ==
    ASSUME TypeInv, SyncInv, [Next]_vars,
           task["rpc"].op = "deregister", status' = "up", task'["rpc"].pc = "idle",
           task["rpc"].key \notin irregular', keyState[task["rpc"].key] = "active"
    PROVE  task["rpc"].n \notin pairRows'
  <1>1. "rpc" \in Threads /\ task["rpc"].pc \in {"delPair"} \cup RemovalPcs
    BY DEF SyncInv, TasksInv, TaskOK, Threads
  <1>2. Relock("rpc") /\ irregular' = irregular /\ pairRows' = pairRows
    BY <1>1, DeregisterEnds DEF Relock, rowVars, historyVars
  <1> DEFINE n == task["rpc"].n
             k == task["rpc"].key
  <1>3. n \in 1..Len(reg) /\ k \in Keys
    BY <1>1 DEF TypeInv, TaskType, RemovalPcs, DevicePcs
  <1>4. reg[n].key = k
    BY <1>1, <1>3 DEF SyncInv, TasksInv, TaskOK
  <1>5. RemovalOK("rpc", k)
    <2>1. Working("rpc", k)
      BY <1>2 DEF Relock, Working
    <2> QED  BY <1>1, <1>2, <1>3, <2>1 DEF SyncInv, KeysInv, KeyInv, Stage
  <1>6. n \notin PairsOf(k)
    BY <1>2, <1>5 DEF RemovalOK, Relock, RemovalPcs, Open
  <1> QED  BY <1>2, <1>4, <1>6 DEF PairsOf

-----------------------------------------------------------------------------
\* No two registrations in the database share an address or a hardware
\* address, after every step of every thread and every stop (the unique columns
\* that register_device fills, and the order in which deregister_device empties
\* them).
THEOREM AddressesUnique == Spec => []UniqueAddresses
  BY DatabaseIntegrity, PTL

\* A pair always has its address, its hardware address and its key: whatever
\* deregister_device and delete_registration_key delete, in whatever order the
\* threads and the stops of the process come (the foreign keys of address_pair).
THEOREM PairsHaveRows == Spec => []PairsBacked
  BY DatabaseIntegrity, PTL

\* While the process is up the captive portal lets exactly the devices of the
\* active keys through, for every key that no handler works on and that is not
\* irregular (unlock_registered_device, relock_registered_device and their
\* callers in server.py and accounting_manager.py).
THEOREM FirewallFollows == Spec => []FirewallInSync
  BY SyncInvariant, FirewallStep, PTL

\* While the process is up the traffic of exactly the devices of an active key is
\* counted, and only once, for every key that is settled (setup_accounting,
\* disable_accounting and the addresses of the key's set).
THEOREM AccountingFollows == Spec => []AccountingInSync
  BY SyncInvariant, AccountingStep, PTL

\* While the process is up exactly the devices of the shaped keys have shaping
\* filters, for every key that is settled (enable_shaping_for_ip,
\* disable_shaping_for_ip and the list of shaped keys).
THEOREM ShapingFollows == Spec => []ShapingInSync
  BY SyncInvariant, ShapingStep, PTL

\* When deregister_device ends while the process runs, the device of a regular
\* active key is gone from the database.
THEOREM DeregistrationRemoves == Spec => RemovalRemoves
  <1>1. TypeInv /\ DbInv /\ SyncInv /\ [Next]_vars =>
           [ /\ task["rpc"].op = "deregister" /\ status' = "up"
             /\ task'["rpc"].pc = "idle"
             /\ task["rpc"].key \notin irregular'
             /\ keyState[task["rpc"].key] = "active"
             => task["rpc"].n \notin pairRows']_vars
    BY RemovalEnds
  <1> QED  BY <1>1, SyncInvariant, PTL DEF Spec, RemovalRemoves
=============================================================================
