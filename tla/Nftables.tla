------------------------------ MODULE Nftables ------------------------------
(***************************************************************************)
(* The kernel's packet-filter table "traffy" and the commands of           *)
(* app/util/nftables_manager.py that change it.  Every command is one run  *)
(* of nft whose exit status and messages are thrown away, so a command the *)
(* kernel refuses leaves the table as it is and the caller never learns.   *)
(* The table is a record:                                                  *)
(*   registered  the (mac, ip) elements of the set the captive portal      *)
(*               lets through                                              *)
(*   sets        the keys that have a set "key-<id>"                       *)
(*   elems       the (key, ip) elements of these sets                      *)
(*   rules       per key, how many times its four counting rules are in    *)
(*               the accounting chains                                     *)
(*   counters    the keys that have their four named counters              *)
(***************************************************************************)
EXTENDS Integers

CONSTANTS Keys,   \* registration keys (rows of registration_key)
          Macs,   \* hardware addresses
          Ips     \* addresses of the network's lease pool

Table == [registered : SUBSET (Macs \X Ips),
          sets       : SUBSET Keys,
          elems      : SUBSET (Keys \X Ips),
          rules      : [Keys -> Nat],
          counters   : SUBSET Keys]

\* The table after "delete table ip traffy", and the chains set up again.
EmptyTable == [registered |-> {}, sets |-> {}, elems |-> {},
               rules |-> [k \in Keys |-> 0], counters |-> {}]

-----------------------------------------------------------------------------
(* The set of devices the captive portal lets through *)

AddAllocations(f, allocations) ==
    [f EXCEPT !.registered = @ \cup allocations]

\* Bug: the element is written the other way round and the kernel refuses it.
KeepAllocations(f, allocations) == f

DeleteAllocations(f, allocations) ==
    [f EXCEPT !.registered = @ \ allocations]

-----------------------------------------------------------------------------
(* Accounting: a set of addresses per key, counters, and the rules *)

\* "add set" is idempotent.
AddKeySets(f, ks) == [f EXCEPT !.sets = @ \cup ks]

\* "add element" needs the set and is idempotent.
AddKeyElems(f, es) ==
    [f EXCEPT !.elems = @ \cup {e \in es : e[1] \in f.sets}]

DeleteKeyElems(f, es) == [f EXCEPT !.elems = @ \ es]

\* "delete set" is refused while a rule still refers to the set.
DeleteKeySet(f, k) ==
    IF f.rules[k] > 0
    THEN f
    ELSE [f EXCEPT !.sets  = @ \ {k},
                   !.elems = {e \in @ : e[1] # k}]

\* "add counter" is idempotent; "add rule" is not: each call appends the
\* four rules once more.  A rule that names a set that is not there is
\* refused.
AddMatchingRules(f, ks) ==
    [f EXCEPT !.counters = @ \cup ks,
              !.rules = [k \in Keys |-> IF k \in ks /\ k \in f.sets
                                        THEN @[k] + 1 ELSE @[k]]]

\* Bug: only the first rules found go.
DeleteRulesOnce(f, k) ==
    [f EXCEPT !.rules[k] = @ - 1, !.counters = @ \ {k}]

\* Every rule of the listing that names the key's set goes, however many
\* there are; then nothing refers to the counters and they go too.
DeleteMatchingRules(f, k) ==
    [f EXCEPT !.rules[k] = 0, !.counters = @ \ {k}]

\* Bug: the set is still referred to when it should go.
DeleteAccountingSwapped(f, k) == DeleteMatchingRules(DeleteKeySet(f, k), k)

DeleteAccounting(f, k) == DeleteKeySet(DeleteMatchingRules(f, k), k)
=============================================================================
