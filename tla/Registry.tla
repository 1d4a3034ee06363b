------------------------------ MODULE Registry ------------------------------
(***************************************************************************)
(* Registration keys and the devices registered on them, in traffy-server. *)
(*                                                                         *)
(* A device is a row of ip_address, a row of mac_address and a row of      *)
(* address_pair; the packet filter and the traffic shaper hold a second    *)
(* copy of the same facts.  Nothing ties the two together: a handler       *)
(* commits to the database and runs nft and tc between its commits.  Three *)
(* threads run such handlers at the same time, each with its own database  *)
(* session and without a lock: the RPC thread (requests of the web front   *)
(* end, one at a time), the housekeeping thread (moves and deletions that  *)
(* are due) and the accounting thread (shapes keys whose volume is used    *)
(* up).  The process can stop between any two steps.                       *)
(*                                                                         *)
(* A step here is the longest part of a handler with at most one commit or *)
(* one group of kernel commands, read and written by no other thread in    *)
(* between.                                                                *)
(***************************************************************************)
EXTENDS Nftables, Sequences, FiniteSets

CONSTANTS NoKey,     \* "no key" in an idle thread's task
          MaxRegs,   \* bound: registrations ever committed
          MaxRules,  \* bound: an activation is not started above this
          MaxStops   \* bound: stops of the process

ASSUME RegistryAssumption ==
    /\ NoKey \notin Keys
    /\ MaxRegs \in Nat /\ MaxRules \in Nat /\ MaxStops \in Nat

VARIABLES
    \* database
    keyState,   \* per key: "none", "active", "inactive" or "deleted"
    reg,        \* every registration committed so far, in order
    pairRows,   \* registrations whose address_pair row is there
    ipRows,     \* registrations whose ip_address row is there
    macRows,    \* registrations whose mac_address row is there
    traffic,    \* keys with a row in traffic
    over,       \* keys whose row of today has no volume left
    \* kernel
    nft,        \* the table of module Nftables
    filters,    \* addresses with traffic-shaping filters
    \* process
    status,     \* "up" or "down"
    shaped,     \* AccountingService.shaped_reg_keys
    task,       \* per thread: what it is doing
    \* history, read by no action of the program
    stops,      \* stops so far
    torn,       \* registrations whose removal a stop cut short
    irregular   \* keys whose kernel state may be out of step, see Mark

keyVars     == <<keyState, traffic, over>>
rowVars     == <<reg, pairRows, ipRows, macRows>>
kernelVars  == <<nft, filters>>
historyVars == <<stops, torn, irregular>>
vars == <<keyVars, rowVars, kernelVars, status, shaped, task, historyVars>>

-----------------------------------------------------------------------------
(* Threads and what they do *)

Threads == {"rpc", "hk", "acct"}

Ops == {"none", "register", "deregister", "deregisterAll", "activate",
        "deactivate", "delete", "move", "shape", "unshape"}

\* Where a handler stands: the step it takes next.
DevicePcs == {"unlock", "count", "setup", "addIp", "shapeDevice",
              "delPair", "delIp", "delMac", "unaccount", "teardown", "relock"}
KeyPcs == {"next", "delTraffic", "delKey", "setupKey",
           "relockAll", "commitInactive", "beginShape", "finishShape",
           "beginUnshape", "removeShaped"}
Pcs == {"idle"} \cup DevicePcs \cup KeyPcs

Task == [pc : Pcs, op : Ops, key : Keys \cup {NoKey},
         n : 0..MaxRegs, todo : SUBSET (1..MaxRegs)]

Idle == [pc |-> "idle", op |-> "none", key |-> NoKey, n |-> 0, todo |-> {}]

IsIdle(t) == task[t].pc = "idle"

Goto(t, pc) == task' = [task EXCEPT ![t].pc = pc]

Finish(t) == task' = [task EXCEPT ![t] = Idle]

Begin(t, pc, op, k, n, todo) ==
    task' = [task EXCEPT ![t] = [pc |-> pc, op |-> op, key |-> k,
                                 n |-> n, todo |-> todo]]

-----------------------------------------------------------------------------
(* The database and the kernel as the handlers see them *)

\* Bug: a key that has been deleted is taken for one that is there.
ExistedOnce(k) == keyState[k] # "none"

Exists(k) == keyState[k] \in {"active", "inactive"}

PairsOf(k) == {n \in pairRows : reg[n].key = k}

Elem(n) == <<reg[n].mac, reg[n].ip>>

Elems(S) == {Elem(n) : n \in S}

IpsOf(S) == {reg[n].ip : n \in S}

KeyElems(S) == {<<reg[n].key, reg[n].ip>> : n \in S}

Earliest(n, S) == n \in S /\ \A m \in S : n <= m

\* Bug: the traffic row of today is asked instead of the list.
OverToday(k) == k \in over

OnShapedList(k) == k \in shaped

\* disable_shaping_for_ip raises for an address without filters; a loop over
\* S stops at the first such address.
Unfiltered(S) == {n \in S : reg[n].ip \notin filters}
Handled(S, bad) == {n \in S : \A b \in bad : n < b}

-----------------------------------------------------------------------------
(* History.  A key is irregular once its kernel state need not agree with  *)
(* the database any more: two handlers worked on it at the same time, it   *)
(* was activated again while active, a device was registered on it, and    *)
(* let through, while it was inactive, its shaping was decided from the    *)
(* database while the list of shaped keys said otherwise, the process came *)
(* up on a kernel table of an earlier life, the accounting pass acted on a *)
(* view in which it was active or had other devices, or unshaped its       *)
(* address because the view has it as another device's, or it was given    *)
(* the address of an irregular key.  A start with a cleared kernel makes   *)
(* every key regular again.                                                *)

Mark(ks) == irregular' = irregular \cup ks

Touches(t, k, ips) ==
    /\ task[t].pc \notin {"idle", "beginShape", "beginUnshape"}
    /\ \/ task[t].key = k
       \/ \E n \in (task[t].todo \cup {task[t].n}) \cap (1..Len(reg)) :
             reg[n].ip \in ips

Overlap(t, k, ips) ==
    LET others == {u \in Threads \ {t} : Touches(u, k, ips)}
    IN  {task[u].key : u \in others} \cup (IF others = {} THEN {} ELSE {k})

UsedByIrregular(i) ==
    \E m \in 1..Len(reg) : reg[m].ip = i /\ reg[m].key \in irregular

\* The keys of the devices that have the addresses of S now.
MovedTo(S) ==
    {reg[n].key : n \in {m \in pairRows \ S : reg[m].ip \in IpsOf(S)}}

-----------------------------------------------------------------------------
(* ServerAPI.register_device *)

\* Bug: only the addresses of complete devices count as taken.
Unpaired(m, i) == \A n \in pairRows : reg[n].ip # i /\ reg[n].mac # m

\* The unique columns of ip_address and mac_address.
Unused(m, i) ==
    /\ \A n \in ipRows : reg[n].ip # i
    /\ \A n \in macRows : reg[n].mac # m

\* Bug: the device that is being registered is not counted yet.
NoDevice(k) == PairsOf(k) = {}

FirstDevice(k) == Cardinality(PairsOf(k)) <= 1

\* The key must be there; whether it is active is not asked: the web front end
\* did so in a call before, and the key can have been deactivated since.  The
\* lease file gives the mac of the address.  One transaction adds the three
\* rows; an address or a mac that already has a row makes it roll back, and
\* nothing has changed.
RegisterCommit(k, m, i) ==
    /\ status = "up" /\ IsIdle("rpc")
    /\ Exists(k)
    /\ Unused(m, i)
    /\ Len(reg) < MaxRegs
    /\ LET n == Len(reg) + 1 IN
       /\ reg' = Append(reg, [key |-> k, mac |-> m, ip |-> i])
       /\ pairRows' = pairRows \cup {n}
       /\ ipRows'   = ipRows \cup {n}
       /\ macRows'  = macRows \cup {n}
       /\ Begin("rpc", "unlock", "register", k, n, {})
    /\ Mark(Overlap("rpc", k, {i})
            \cup IF UsedByIrregular(i) \/ keyState[k] # "active" THEN {k} ELSE {})
    /\ UNCHANGED <<keyVars, kernelVars, status, shaped, stops, torn>>

Unlock(t) ==
    /\ task[t].pc = "unlock"
    /\ nft' = AddAllocations(nft, {Elem(task[t].n)})
    /\ Goto(t, "count")
    /\ UNCHANGED <<keyVars, rowVars, filters, status, shaped, historyVars>>

\* The first device of a key brings the key's rules with it.  The key is
\* read again here: if it is gone the handler ends.
CountDevices(t) ==
    /\ task[t].pc = "count"
    /\ IF ~Exists(task[t].key)
       THEN Finish(t)
       ELSE Goto(t, IF FirstDevice(task[t].key) THEN "setup" ELSE "addIp")
    /\ UNCHANGED <<keyVars, rowVars, kernelVars, status, shaped, historyVars>>

SetupAccounting(t) ==
    LET k == task[t].key
        f == IF task[t].pc = "setup"
             THEN AddMatchingRules(AddKeySets(nft, {k}), {k}) ELSE nft
    IN  /\ task[t].pc \in {"setup", "addIp"}
        /\ nft' = AddKeyElems(f, KeyElems({task[t].n}))
        /\ Goto(t, "shapeDevice")
        /\ UNCHANGED <<keyVars, rowVars, filters, status, shaped, historyVars>>

\* The address row is read again for its id: if it is gone the handler ends.
ShapeDevice(t) ==
    /\ task[t].pc = "shapeDevice"
    /\ filters' = IF OnShapedList(task[t].key) /\ task[t].n \in ipRows
                  THEN filters \cup {reg[task[t].n].ip} ELSE filters
    /\ Finish(t)
    /\ UNCHANGED <<keyVars, rowVars, nft, status, shaped, historyVars>>

-----------------------------------------------------------------------------
(* ServerAPI.deregister_device, on its own or inside another handler *)

\* The device's rows are read and its shaping ended.  A shaped key's device
\* without filters makes the latter raise: the handler goes on to relock the
\* firewall, and the rows stay.
LoadDevice(t, op, n, todo, marked) ==
    LET k == reg[n].key
        raises == OnShapedList(k) /\ n \in Unfiltered({n})
    IN  /\ filters' = IF OnShapedList(k) THEN filters \ {reg[n].ip} ELSE filters
        /\ Begin(t, IF raises THEN "relock" ELSE "delPair", op, k, n, todo)
        /\ Mark(marked)

\* An address without a complete device makes the call raise before it has
\* changed anything.
BeginDeregister(n) ==
    /\ status = "up" /\ IsIdle("rpc")
    /\ n \in pairRows
    /\ LoadDevice("rpc", "deregister", n, {},
                  Overlap("rpc", reg[n].key, {reg[n].ip}))
    /\ UNCHANGED <<keyVars, rowVars, nft, status, shaped, stops, torn>>

\* Deleting a row another thread has deleted is no error at the first of the
\* three, which was read in the same transaction.
DeletePair(t) ==
    /\ task[t].pc = "delPair"
    /\ pairRows' = pairRows \ {task[t].n}
    /\ Goto(t, "delIp")
    /\ UNCHANGED <<keyVars, reg, ipRows, macRows, kernelVars, status, shaped,
                   historyVars>>

\* Bug: the handler looks at the key again before the last row, and ends if
\* another thread has deleted the key.
DeleteIpOfKey(t) ==
    /\ task[t].pc = "delIp"
    /\ ipRows' = ipRows \ {task[t].n}
    /\ Goto(t, IF Exists(task[t].key) THEN "delMac" ELSE "relock")
    /\ UNCHANGED <<keyVars, reg, pairRows, macRows, kernelVars, status, shaped,
                   historyVars>>

\* The commit before made the session forget the other rows: deleting one
\* that is gone raises.
DeleteIp(t) ==
    /\ task[t].pc = "delIp"
    /\ ipRows' = ipRows \ {task[t].n}
    /\ Goto(t, IF task[t].n \in ipRows THEN "delMac" ELSE "relock")
    /\ UNCHANGED <<keyVars, reg, pairRows, macRows, kernelVars, status, shaped,
                   historyVars>>

DeleteMac(t) ==
    /\ task[t].pc = "delMac"
    /\ macRows' = macRows \ {task[t].n}
    /\ Goto(t, IF task[t].n \in macRows THEN "unaccount" ELSE "relock")
    /\ UNCHANGED <<keyVars, reg, pairRows, ipRows, kernelVars, status, shaped,
                   historyVars>>

\* Reading the key's id again raises if the key is gone.
Unaccount(t) ==
    LET k == task[t].key IN
    /\ task[t].pc = "unaccount"
    /\ IF ~Exists(k)
       THEN /\ Goto(t, "relock")
            /\ nft' = nft
       ELSE /\ nft' = DeleteKeyElems(nft, KeyElems({task[t].n}))
            /\ Goto(t, IF PairsOf(k) = {} THEN "teardown" ELSE "relock")
    /\ UNCHANGED <<keyVars, rowVars, filters, status, shaped, historyVars>>

Teardown(t) ==
    LET k == task[t].key IN
    /\ task[t].pc = "teardown"
    /\ nft' = DeleteAccounting(nft, k)
    /\ Goto(t, "relock")
    /\ UNCHANGED <<keyVars, rowVars, filters, status, shaped, historyVars>>

\* After the try block, whatever happened in it.  A move ends here: the
\* nested call has closed the housekeeping thread's own session.
Relock(t) ==
    /\ task[t].pc = "relock"
    /\ nft' = DeleteAllocations(nft, {Elem(task[t].n)})
    /\ \/ /\ task[t].op = "delete" /\ task[t].todo = {}
          /\ Goto(t, "delTraffic")
       \/ /\ task[t].op \in {"delete", "deregisterAll"} /\ task[t].todo # {}
          /\ Goto(t, "next")
       \/ /\ task[t].op # "delete"
          /\ task[t].op = "deregisterAll" => task[t].todo = {}
          /\ Finish(t)
    /\ UNCHANGED <<keyVars, rowVars, filters, status, shaped, historyVars>>

\* The next device of a handler that removes all of a key's devices.  The
\* pair is read again: if it is gone the whole handler ends.
NextDevice(t) ==
    /\ task[t].pc = "next"
    /\ \E n \in task[t].todo :
          /\ Earliest(n, task[t].todo)
          /\ IF n \in pairRows
             THEN LoadDevice(t, task[t].op, n, task[t].todo \ {n}, {})
             ELSE Finish(t) /\ UNCHANGED <<filters, irregular>>
    /\ UNCHANGED <<keyVars, rowVars, nft, status, shaped, stops, torn>>

\* The list of devices and the rows of the first one are read in the same
\* transaction.
BeginRemoval(t, op, k) ==
    \E n \in PairsOf(k) :
       /\ Earliest(n, PairsOf(k))
       /\ LoadDevice(t, op, n, PairsOf(k) \ {n},
                     Overlap(t, k, IpsOf(PairsOf(k))))

BeginDeregisterAll(k) ==
    /\ status = "up" /\ IsIdle("rpc")
    /\ BeginRemoval("rpc", "deregisterAll", k)
    /\ UNCHANGED <<keyVars, rowVars, nft, status, shaped, stops, torn>>

-----------------------------------------------------------------------------
(* ServerAPI.delete_registration_key, from an administrator's request or    *)
(* from housekeeping when the deletion date has come                        *)

BeginDelete(t, k) ==
    /\ status = "up" /\ IsIdle(t)
    /\ Exists(k)
    /\ \/ /\ PairsOf(k) = {}
          /\ Begin(t, "delTraffic", "delete", k, 0, {})
          /\ Mark(Overlap(t, k, {}))
          /\ filters' = filters
       \/ BeginRemoval(t, "delete", k)
    /\ UNCHANGED <<keyVars, rowVars, nft, status, shaped, stops, torn>>

DeleteTraffic(t) ==
    /\ task[t].pc = "delTraffic"
    /\ traffic' = traffic \ {task[t].key}
    /\ over'    = over \ {task[t].key}
    /\ Goto(t, "delKey")
    /\ UNCHANGED <<keyState, rowVars, kernelVars, status,
                   shaped, historyVars>>

\* Bug: address_pair has no foreign key to registration_key.
Uncounted(k) == k \notin traffic

Unreferenced(k) == PairsOf(k) = {} /\ k \notin traffic

\* Foreign keys: a pair that was kept, or a traffic row that accounting has
\* written since, makes the database refuse.  The handler ends with an error,
\* the traffic history is gone.
DeleteKeyRow(t) ==
    LET k == task[t].key IN
    /\ task[t].pc = "delKey"
    /\ IF Exists(k) /\ Unreferenced(k)
       THEN keyState' = [keyState EXCEPT ![k] = "deleted"]
       ELSE keyState' = keyState
    /\ Finish(t)
    /\ UNCHANGED <<traffic, over, rowVars, kernelVars, status, shaped,
                   historyVars>>

-----------------------------------------------------------------------------
(* HousekeepingThread: a move that is due.  Its devices go first, one per   *)
(* pass; the pass that finds none left completes the move.                  *)

BeginMove(k) ==
    /\ status = "up" /\ IsIdle("hk")
    /\ BeginRemoval("hk", "move", k)
    /\ UNCHANGED <<keyVars, rowVars, nft, status, shaped, stops, torn>>

-----------------------------------------------------------------------------
(* AccountingService: activation and deactivation of a key (RPC thread)     *)

BeginActivate(k) ==
    LET P == PairsOf(k) IN
    /\ status = "up" /\ IsIdle("rpc")
    /\ Exists(k)
    /\ nft.rules[k] < MaxRules
    /\ keyState' = [keyState EXCEPT ![k] = "active"]
    /\ Begin("rpc", "setupKey", "activate", k, 0, {})
    /\ Mark(Overlap("rpc", k, IpsOf(P))
            \cup IF keyState[k] = "active" /\ P # {} THEN {k} ELSE {})
    /\ UNCHANGED <<traffic, over, rowVars, kernelVars,
                   status, shaped, stops, torn>>

SetupKey(t) ==
    LET k == task[t].key
        P == PairsOf(k)
    IN  /\ task[t].pc = "setupKey"
        /\ nft' = IF P = {} THEN nft ELSE
                  AddMatchingRules(
                      AddKeyElems(
                          AddAllocations(AddKeySets(nft, {k}), Elems(P)),
                          KeyElems(P)),
                      {k})
        /\ filters' = IF k \in over THEN filters \cup IpsOf(P) ELSE filters
        /\ Mark(IF P # {} /\ (k \in over) # (k \in shaped) THEN {k} ELSE {})
        /\ Finish(t)
        /\ UNCHANGED <<keyVars, rowVars, status, shaped, stops, torn>>

BeginDeactivate(k) ==
    LET P == PairsOf(k) IN
    /\ status = "up" /\ IsIdle("rpc")
    /\ Exists(k)
    /\ nft' = IF P = {} THEN nft
              ELSE DeleteAccounting(nft, k)
    /\ Begin("rpc", "relockAll", "deactivate", k, 0, P)
    /\ Mark(Overlap("rpc", k, IpsOf(P)))
    /\ UNCHANGED <<keyVars, rowVars, filters, status, shaped, stops, torn>>

\* Shaping is ended when today's traffic row says there was any; a device
\* without filters then ends the loop and the handler, and the key stays
\* active with its accounting gone.
RelockAll(t) ==
    LET k    == task[t].key
        P    == task[t].todo
        bad  == IF k \in over THEN Unfiltered(P) ELSE {}
        done == Handled(P, bad)
    IN  /\ task[t].pc = "relockAll"
        /\ filters' = IF k \in over THEN filters \ IpsOf(done) ELSE filters
        /\ nft' = DeleteAllocations(nft, Elems(done))
        /\ IF bad # {} THEN Finish(t) ELSE Goto(t, "commitInactive")
        /\ Mark(IF P # {} /\ (k \in over) # (k \in shaped) THEN {k} ELSE {})
        /\ UNCHANGED <<keyVars, rowVars, status, shaped, stops, torn>>

CommitInactive(t) ==
    LET k == task[t].key IN
    /\ task[t].pc = "commitInactive"
    /\ keyState' = IF Exists(k) THEN [keyState EXCEPT ![k] = "inactive"]
                   ELSE keyState
    /\ Finish(t)
    /\ UNCHANGED <<traffic, over, rowVars, kernelVars,
                   status, shaped, historyVars>>

-----------------------------------------------------------------------------
(* AccountingThread: what a pass over the counters does to one key.  A pass  *)
(* sees the database as it was when its transaction began, and begins a new *)
(* one after each commit: the first step of shaping, or of ending it, is    *)
(* that beginning.  A key that keeps within its volume, or is shaped and    *)
(* stays so, is charged without an effect on what is modelled here.         *)

\* No row of today yet: one is written, with what was carried over.  The
\* shaping of the key is not looked at.  A key that is gone gets none.
NewTrafficRow(k) ==
    /\ status = "up" /\ IsIdle("acct")
    /\ Exists(k) /\ k \notin over
    /\ traffic' = traffic \cup {k}
    /\ over' \in {over, over \cup {k}}
    /\ UNCHANGED <<keyState, rowVars, kernelVars, status,
                   shaped, task, historyVars>>

\* The counters are listed after the key has been read.  A key with devices
\* but without counters makes the pass raise before it has touched the key.
Counted(k) ==
    /\ status = "up" /\ IsIdle("acct")
    /\ keyState[k] = "active"
    /\ PairsOf(k) # {} /\ k \in nft.counters
    /\ k \in traffic

ReadToShape(k) ==
    /\ Counted(k)
    /\ k \notin shaped
    /\ Begin("acct", "beginShape", "shape", k, 0, {})
    /\ UNCHANGED <<keyVars, rowVars, kernelVars, status, shaped, historyVars>>

\* The volume is used up and the key not yet shaped.  In a time range without
\* limits the row does not record it.  The commit begins a new transaction, in
\* which the key is read again (the pass raises if it is gone) and then its
\* devices, before the key is on the list.
BeginShape(t) ==
    LET k == task[t].key
        P == PairsOf(k)
    IN  /\ task[t].pc = "beginShape"
        /\ over' \in {over, over \cup ({k} \cap traffic)}
        /\ IF Exists(k) THEN Begin(t, "finishShape", "shape", k, 0, P)
                        ELSE Finish(t)
        /\ Mark(Overlap(t, k, IpsOf(P))
                \cup IF keyState[k] # "active" THEN {k} ELSE {})
        /\ UNCHANGED <<keyState, traffic, rowVars, kernelVars,
                       status, shaped, stops, torn>>

FinishShape(t) ==
    /\ task[t].pc = "finishShape"
    /\ shaped'  = shaped \cup {task[t].key}
    /\ filters' = filters \cup IpsOf(task[t].todo)
    /\ Finish(t)
    /\ UNCHANGED <<keyVars, rowVars, nft, status, historyVars>>

ReadToUnshape(k) ==
    /\ Counted(k)
    /\ k \in shaped /\ k \notin over
    /\ Begin("acct", "beginUnshape", "unshape", k, 0, PairsOf(k))
    /\ UNCHANGED <<keyVars, rowVars, kernelVars, status, shaped, historyVars>>

\* There is volume again: the devices' filters go, then the key leaves the
\* list.  A device without filters makes the pass raise in between.  The devices
\* are those of the pass's transaction.
BeginUnshape(t) ==
    LET k    == task[t].key
        P    == task[t].todo
        bad  == Unfiltered(P)
        done == Handled(P, bad)
    IN  /\ task[t].pc = "beginUnshape"
        /\ filters' = filters \ IpsOf(done)
        /\ IF bad # {} THEN Finish(t)
           ELSE Goto(t, "removeShaped")
        /\ Mark(Overlap(t, k, IpsOf(P))
                \cup MovedTo(P)
                \cup IF PairsOf(k) # P \/ keyState[k] # "active"
                     THEN {k} ELSE {})
        /\ UNCHANGED <<keyVars, rowVars, nft, status, shaped, stops, torn>>

\* The commit in between made the session forget the key.
RemoveShaped(t) ==
    LET k == task[t].key IN
    /\ task[t].pc = "removeShaped"
    /\ shaped' = IF Exists(k) THEN shaped \ {k} ELSE shaped
    /\ Finish(t)
    /\ UNCHANGED <<keyVars, rowVars, kernelVars, status, historyVars>>

-----------------------------------------------------------------------------
(* Requests that only write columns, and the date *)

AddKey(k) ==
    /\ status = "up" /\ IsIdle("rpc")
    /\ keyState[k] = "none"
    /\ keyState' = [keyState EXCEPT ![k] = "active"]
    /\ traffic'  = traffic \cup {k}
    /\ UNCHANGED <<over, rowVars, kernelVars, status, shaped,
                   task, historyVars>>

SetCustomCredit(k) ==
    /\ status = "up" /\ IsIdle("rpc")
    /\ k \in over
    /\ over' = over \ {k}
    /\ UNCHANGED <<keyState, traffic, rowVars, kernelVars,
                   status, shaped, task, historyVars>>

\* After midnight no key has a row of today.
Midnight ==
    /\ over # {}
    /\ over' = {}
    /\ UNCHANGED <<keyState, traffic, rowVars, kernelVars,
                   status, shaped, task, historyVars>>

-----------------------------------------------------------------------------
(* Start and stop of the process *)

\* unlock_registered_devices raises for an address without a pair.
Bootable == ipRows \subseteq pairRows

\* Bug: the devices of deactivated keys are let through again.
AllRows == pairRows

ActiveRows == {n \in pairRows : keyState[reg[n].key] = "active"}

\* What is in the kernel already stays there.
Boot ==
    LET P  == ActiveRows
        ks == {reg[n].key : n \in P}
    IN  /\ status = "down"
        /\ Bootable
        /\ nft' = AddMatchingRules(
                      AddKeyElems(
                          AddKeySets(AddAllocations(nft, Elems(P)), ks),
                          KeyElems(P)),
                      ks)
        /\ status' = "up"
        /\ UNCHANGED <<keyVars, rowVars, filters, shaped, task, historyVars>>

\* Every thread is gone, and the list of shaped keys with them.
Stop ==
    /\ status = "up" /\ stops < MaxStops
    /\ status' = "down"
    /\ shaped' = {}
    /\ task' = [t \in Threads |-> Idle]
    /\ torn' = torn \cup {task[t].n : t \in
                   {u \in Threads : task[u].pc \in {"delIp", "delMac"}}}
    /\ stops' = stops + 1
    /\ UNCHANGED <<keyVars, rowVars>>

\* Bug: shaping is left in place.
KeepShaping == nft' = EmptyTable /\ filters' = filters /\ irregular' = {}

ClearKernel == nft' = EmptyTable /\ filters' = {} /\ irregular' = {}

\* SIGTERM: the RPC server ends its request first, then the kernel's tables
\* are deleted.  The other two threads are daemons and die where they stand.
Shutdown == IsIdle("rpc") /\ Stop /\ ClearKernel

\* The machine goes down, and the kernel's tables with it.
PowerLoss == Stop /\ ClearKernel

\* The process alone dies: the kernel's tables survive it.
Kill ==
    /\ Stop
    /\ Mark({k \in Keys : keyState[k] # "none"})
    /\ UNCHANGED kernelVars

-----------------------------------------------------------------------------

Init ==
    /\ keyState = [k \in Keys |-> "none"]
    /\ reg = <<>>
    /\ pairRows = {} /\ ipRows = {} /\ macRows = {}
    /\ traffic = {} /\ over = {}
    /\ nft = EmptyTable /\ filters = {}
    /\ status = "down" /\ shaped = {}
    /\ task = [t \in Threads |-> Idle]
    /\ stops = 0 /\ torn = {} /\ irregular = {}

Rpc ==
    \/ \E k \in Keys :
          \/ \E m \in Macs, i \in Ips : RegisterCommit(k, m, i)
          \/ BeginDeregisterAll(k)
          \/ BeginDelete("rpc", k)
          \/ BeginActivate(k)
          \/ BeginDeactivate(k)
          \/ AddKey(k)
          \/ SetCustomCredit(k)
    \/ \E n \in pairRows : BeginDeregister(n)
    \/ Unlock("rpc") \/ CountDevices("rpc") \/ SetupAccounting("rpc")
    \/ ShapeDevice("rpc")
    \/ SetupKey("rpc") \/ RelockAll("rpc") \/ CommitInactive("rpc")

Housekeeping ==
    \E k \in Keys : BeginMove(k) \/ BeginDelete("hk", k)

\* The steps of a removal, in the thread that runs it.
Removal(t) ==
    \/ DeletePair(t) \/ DeleteIp(t) \/ DeleteMac(t)
    \/ Unaccount(t) \/ Teardown(t) \/ Relock(t) \/ NextDevice(t)
    \/ DeleteTraffic(t) \/ DeleteKeyRow(t)

Accounting ==
    \/ \E k \in Keys : NewTrafficRow(k) \/ ReadToShape(k) \/ ReadToUnshape(k)
    \/ BeginShape("acct") \/ FinishShape("acct")
    \/ BeginUnshape("acct") \/ RemoveShaped("acct")

Process == Boot \/ Shutdown \/ PowerLoss \/ Kill

Next ==
    \/ Rpc
    \/ Housekeeping
    \/ \E t \in {"rpc", "hk"} : Removal(t)
    \/ Accounting
    \/ Midnight
    \/ Process

Spec == Init /\ [][Next]_vars

-----------------------------------------------------------------------------
(* Properties *)

\* Every variable has its type, and a handler that works on a device or a key
\* knows which.
TypeOK ==
    /\ keyState \in [Keys -> {"none", "active", "inactive", "deleted"}]
    /\ reg \in Seq([key : Keys, mac : Macs, ip : Ips])
    /\ Len(reg) <= MaxRegs
    /\ pairRows \subseteq 1..Len(reg)
    /\ ipRows \subseteq 1..Len(reg)
    /\ macRows \subseteq 1..Len(reg)
    /\ traffic \subseteq Keys /\ over \subseteq Keys
    /\ nft \in Table
    /\ filters \subseteq Ips
    /\ status \in {"up", "down"}
    /\ shaped \subseteq Keys
    /\ task \in [Threads -> Task]
    /\ \A t \in Threads :
          /\ task[t].pc # "idle" => task[t].key \in Keys
          /\ task[t].pc \in DevicePcs => task[t].n \in 1..Len(reg)
          /\ task[t].n <= Len(reg)
          /\ task[t].todo \subseteq 1..Len(reg)
    /\ stops \in 0..MaxStops
    /\ torn \subseteq 1..Len(reg)
    /\ irregular \subseteq Keys

\* Registrations that own the same address or the same hardware address are
\* never in the database together (register_device, deregister_device).
UniqueAddresses ==
    /\ \A a, b \in ipRows  : reg[a].ip = reg[b].ip => a = b
    /\ \A a, b \in macRows : reg[a].mac = reg[b].mac => a = b

\* A pair always has its address, its hardware address and its key, whichever
\* handlers interleave and wherever the process stops (the foreign keys of
\* address_pair, which the order of the deletions must respect).
PairsBacked ==
    /\ pairRows \subseteq ipRows \cap macRows
    /\ \A n \in pairRows : Exists(reg[n].key)
    /\ \A t \in Threads :
          task[t].pc \in {"delIp", "delMac"} => task[t].n \notin pairRows

\* An address without its pair, or a hardware address without its address,
\* belongs to a removal that is about to delete it, or that a stop of the
\* process cut short: no interleaving of handlers alone leaves one behind.
Removing(n, pc) == \E t \in Threads : task[t].pc = pc /\ task[t].n = n

OrphansExplained ==
    /\ \A n \in ipRows \ pairRows : n \in torn \/ Removing(n, "delIp")
    /\ \A n \in macRows \ ipRows  : n \in torn \/ Removing(n, "delMac")

\* No handler is working on the key and nothing irregular has happened to it.
Settled(k) ==
    /\ k \notin irregular
    /\ \A t \in Threads : task[t].key # k

Live(n) == n \in pairRows /\ keyState[reg[n].key] = "active"

\* The captive portal lets a settled key's devices through exactly while the
\* key is active, and nobody else: an element of the set belongs to a live
\* device or to a key that is not settled.
FirewallInSync ==
    status = "up" =>
      /\ \A n \in pairRows :
            Settled(reg[n].key) =>
               (Elem(n) \in nft.registered <=> keyState[reg[n].key] = "active")
      /\ \A e \in nft.registered : \E n \in 1..Len(reg) :
            Elem(n) = e /\ (Live(n) \/ ~Settled(reg[n].key))

\* A settled key's traffic is counted, once, for exactly its devices while it
\* is active and has any; otherwise nothing of it is left in the kernel.
AccountingInSync ==
    status = "up" =>
      \A k \in Keys : Settled(k) =>
        LET P == {n \in PairsOf(k) : Live(n)} IN
        /\ nft.rules[k] = IF P = {} THEN 0 ELSE 1
        /\ k \in nft.sets <=> P # {}
        /\ k \in nft.counters <=> P # {}
        /\ {e \in nft.elems : e[1] = k} = KeyElems(P)

\* A settled active key's devices are shaped exactly while the key is on the
\* list of shaped keys, and no address keeps filters that outlive its device.
ShapingInSync ==
    status = "up" =>
      /\ \A n \in pairRows :
            (Settled(reg[n].key) /\ Live(n)) =>
               (reg[n].ip \in filters <=> reg[n].key \in shaped)
      /\ \A i \in filters : \E n \in 1..Len(reg) :
            /\ reg[n].ip = i
            /\ (Live(n) /\ reg[n].key \in shaped) \/ ~Settled(reg[n].key)

\* The rows the administrator's pages show follow the abstract registry: every
\* step of every thread, and every stop, is one of its steps or none.
Abstract == INSTANCE DeviceRegistry
                WITH devices <- {reg[n] : n \in pairRows}
ImplementsDeviceRegistry == Abstract!Spec

\* After a stop the service can come up again: the systemd unit of the README
\* restarts it always.
RestartPossible == status = "down" => Bootable

\* When a request to remove one device ends, the device is gone, as the
\* administrator is told ("Device unregistered"), if its key is active and
\* regular.  (disable_shaping_for_ip raises when the address of a key on the
\* list has no filters, and the rows stay: a key that was deactivated while
\* shaped, or that the accounting pass is just working on.)
RemovalRemoves ==
    [][ /\ task["rpc"].op = "deregister" /\ status' = "up"
        /\ task'["rpc"].pc = "idle"
        /\ task["rpc"].key \notin irregular'
        /\ keyState[task["rpc"].key] = "active"
        => task["rpc"].n \notin pairRows']_vars
=============================================================================
