---------------------------- MODULE MCErpUpdates ----------------------------
(* Module ErpUpdates for TLC: two customers and two identities, without moves *)
(* and devices, which the program does not look at.                           *)
EXTENDS ErpUpdates, TLC

CONSTANTS c1, c2, d1, r1, a1

\* No row, one, or two that contradict each other.
Answers == {{}, {"relevant"}, {"elsewhere"}, {"blocked", "elsewhere"}}

VARIABLE budget \* what people, the ERP and its program may still begin

MaxChanges == 3

Swap == Permutations({c1, c2})

Tenant(c) == [customer |-> c, dorm |-> d1, room |-> r1, newDorm |-> None,
              newRoom |-> None, move |-> "none"]

MCInit ==
    /\ identity \in [Ids -> {None, Tenant(c1), Tenant(c2)}]
    /\ Exists(2) => Exists(1)
    /\ key = [i \in Ids |-> IF identity[i] = None THEN "none" ELSE "kept"]
    /\ devices = [i \in Ids |-> 0]
    /\ form = [a \in Admins |-> Away]
    /\ deleting = [t \in Threads |-> 0] /\ hk = Rest /\ stuck = {}
    /\ asked = [i \in Ids |-> [dorm |-> d1, room |-> r1]]
    /\ crossed = {} /\ alone = FALSE
    /\ ErpInit /\ erp \in [Customers -> Answers]
    /\ budget = MaxChanges

Begins ==
    \/ erp' # erp \/ left'.open \/ \E i \in Ids : key'[i] # key[i]
    \/ \E a \in Admins : form'[a].at = "choice"
    \/ service.at = "off" /\ service'.at # "off"
    \/ page = NoPage /\ page' # NoPage
    \/ missed' \ missed # {}

MCNext ==
    /\ ErpNext
    /\ UNCHANGED <<hk, devices, alone, stuck>>
    /\ \A i \in Ids : key'[i] \in {"kept", "none"}
    /\ \A a \in Admins : form'[a].at = "sending" => form'[a].move = "none"
    /\ \A c \in Customers : erp'[c] \in Answers
    /\ budget' = IF Begins THEN budget - 1 ELSE budget
    /\ budget' >= 0

MCSpec == MCInit /\ [][MCNext]_<<tenants, erpVars, budget>>
=============================================================================
