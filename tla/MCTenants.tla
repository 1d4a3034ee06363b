------------------------------ MODULE MCTenants ------------------------------
(* Module Tenants for TLC. *)
EXTENDS Tenants

CONSTANTS c1, d1, r1, r2, a1

\* Three cases: one identity and everything that can happen to it; two, some
\* with a planned move, which no form changes; and two whose moves are planned
\* anew, without devices and deletions.
VARIABLE scope

mc == <<tenants, scope>>

Planned(m) == [customer |-> c1, dorm |-> d1, room |-> r1,
               newDorm |-> IF m = "none" THEN None ELSE d1,
               newRoom |-> IF m = "none" THEN None ELSE r1, move |-> m]

InitTwo ==
    /\ identity \in [Ids -> {Planned("none"), Planned("ahead")}]
    /\ key = [i \in Ids |-> "kept"]
    /\ devices \in [Ids -> {0, MaxDevices}]
    /\ form = [a \in Admins |-> Away]
    /\ deleting = [t \in Threads |-> 0] /\ hk = Rest /\ stuck = {}
    /\ asked = [i \in Ids |-> [dorm |-> d1, room |-> r1]]
    /\ crossed = {} /\ alone = FALSE

MCInit ==
    \/ scope = "one" /\ Init
    \/ scope = "two" /\ InitTwo
    \/ scope = "forms" /\ InitTwo /\ \A i \in Ids : devices[i] = 0

MCNext ==
    /\ TenantsNext
    /\ scope = "one" => \A i \in Ids \ {1} : identity'[i] = None
    /\ scope = "two" => form' = form
    /\ scope = "forms" => /\ UNCHANGED <<devices, key, stuck>>
                          /\ \A a \in Admins : form'[a].at = "sending" =>
                                form'[a].chosen /\ form'[a].move # "none"
    /\ UNCHANGED scope

MCSpec ==
    /\ MCInit /\ [][MCNext]_mc
    /\ WF_mc(Pass /\ MCNext)
    /\ WF_mc(DeleteIdentity("rpc") /\ MCNext)
=============================================================================
