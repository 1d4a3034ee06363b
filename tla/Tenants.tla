------------------------------- MODULE Tenants -------------------------------
(***************************************************************************)
(* The people in traffy's database: identities and their registration      *)
(* keys, as administrators edit them (admin/views.py, ServerAPI), with the *)
(* dates on which someone moves or a key is deleted, and the housekeeping  *)
(* thread that acts when a date has come.  A key belongs to one identity   *)
(* and has its number.  What the removal of a device does is in module     *)
(* Registry: here the device is gone.                                      *)
(***************************************************************************)
EXTENDS Integers, FiniteSets

CONSTANTS Ids,        \* row numbers of identities
          Customers,  \* customer numbers (person ids)
          Dorms, Rooms,
          Admins,     \* browsers in which an identity's form can be open
          MaxDevices, \* MAX_MAC_ADDRESSES_PER_REG_KEY
          None        \* NULL

ASSUME TenantsAssumption ==
    /\ Ids \subseteq Nat \ {0} /\ MaxDevices \in Nat \ {0}
    /\ Dorms # {} /\ Rooms # {}

VARIABLES
    identity, \* rows of identity, None where there is none
    key,      \* per identity: "none", or its key's deletion date
    devices,  \* number of devices of the key
    form,     \* per administrator: the form, or the call it is about to make
    deleting, \* per thread: the identity whose key it has just deleted
    hk,       \* where the housekeeping pass is
    stuck,    \* identities whose key or devices cannot be removed as things are:
              \* a device is shaped and has no filters, or traffic is counted
    asked,    \* history: the home that the last form with a choice asked for
    crossed,  \* history: identities written from a row read before another
              \* change to it
    alone     \* nobody uses or stops the server any more: what liveness is
              \* stated for

tenants == <<identity, key, devices, form, deleting, hk, stuck, asked, crossed, alone>>

Threads == {"rpc", "hk"}
Days    == {"none", "ahead", "due"}
Home    == [dorm : Dorms, room : Rooms]

Identity == [customer : Customers, dorm : Dorms, room : Rooms,
             newDorm : Dorms \cup {None}, newRoom : Rooms \cup {None},
             move : Days]

ASSUME NoneAssumption == None \notin Dorms \cup Rooms \cup Identity

Exists(i) == identity[i] # None
HasKey(i) == key[i] # "none"
Moving(i) == Exists(i) /\ identity[i].move = "due"

\* No move is planned, as the form tells it.
Settled(p) == p.newRoom = None /\ p.newDorm = None

Away == [at |-> "away"]
Rest == [at |-> "rest"]

\* Every variable has its type, and the three columns of a planned move are
\* written together: edit_reg_key_identity and __remove_orphaned_devices.
TypeOK ==
    /\ identity \in [Ids -> Identity \cup {None}]
    /\ key \in [Ids -> Days \cup {"kept"}]
    /\ devices \in [Ids -> 0..MaxDevices]
    /\ \A a \in Admins :
          form[a] \in {Away} \cup [at : {"choice", "planned"}, id : Ids]
                      \cup [at : {"sending"}, id : Ids, chosen : BOOLEAN,
                            seen : Rooms \cup {None}, customer : Customers, dorm : Dorms,
                            room : Rooms \cup {None}, move : Days]
    /\ deleting \in [Threads -> Ids \cup {0}]
    /\ hk \in {Rest} \cup [at : {"look", "keys"}, todo : SUBSET Ids]
              \cup [at : {"act"}, id : Ids, seen : Identity,
                    left : 0..MaxDevices, todo : SUBSET Ids]
    /\ asked \in [Ids -> Home] /\ crossed \subseteq Ids
    /\ alone \in BOOLEAN /\ stuck \subseteq Ids
    /\ \A i \in Ids : Exists(i) =>
          (Settled(identity[i]) <=> identity[i].move = "none")

Init ==
    /\ identity = [i \in Ids |-> None]
    /\ key = [i \in Ids |-> "none"]
    /\ devices = [i \in Ids |-> 0]
    /\ form = [a \in Admins |-> Away]
    /\ deleting = [t \in Threads |-> 0]
    /\ hk = Rest /\ stuck = {}
    /\ asked \in [Ids -> {CHOOSE h \in Home : TRUE}]
    /\ crossed = {} /\ alone = FALSE

-----------------------------------------------------------------------------
(* Keys and devices (RPC thread, which runs one call at a time)             *)

Ready == deleting["rpc"] = 0

SetKey(i, state) == key' = [key EXCEPT ![i] = state]

\* ServerAPI.add_registration_code: the identity is committed before the key;
\* when the second commit fails, it stays without one.
AddKey(i, c, h) ==
    /\ Ready /\ ~Exists(i) /\ key[i] = "none"
    /\ identity' = [identity EXCEPT ![i] =
                       [customer |-> c, dorm |-> h.dorm, room |-> h.room,
                        newDorm |-> None, newRoom |-> None, move |-> "none"]]
    /\ \E state \in {"kept", "none"} : SetKey(i, state)
    /\ asked' = [asked EXCEPT ![i] = h]
    /\ crossed' = crossed \ {i}
    /\ UNCHANGED <<devices, form, deleting, hk>>

\* ServerAPI.register_device.
AddDevice(i) ==
    /\ Ready /\ HasKey(i) /\ devices[i] < MaxDevices
    /\ devices' = [devices EXCEPT ![i] = @ + 1]
    /\ UNCHANGED <<identity, key, form, deleting, hk, asked, crossed>>

\* A loop over a key's devices passes over those whose removal fails.
RemoveAll(i) ==
    \E n \in 0..devices[i] :
       /\ n = 0 \/ i \in stuck
       /\ devices' = [devices EXCEPT ![i] = n]

\* ServerAPI.deregister_all_devices, after a change of the home.
DeregisterAll(i) ==
    /\ Ready /\ HasKey(i) /\ devices[i] # 0
    /\ RemoveAll(i)
    /\ UNCHANGED <<identity, key, form, deleting, hk, asked, crossed>>

\* delete_registration_key with a date, and cancel_delete_registration_key.
SetDeletion(i, state) ==
    /\ Ready /\ HasKey(i)
    /\ SetKey(i, state)
    /\ UNCHANGED <<identity, devices, form, deleting, hk, asked, crossed>>

\* delete_registration_key without a date: devices, traffic and key first (a row
\* that is left of the key makes it fail) ...
DeleteKey(t, i) ==
    /\ deleting[t] = 0 /\ HasKey(i)
    /\ RemoveAll(i)
    /\ IF i \in stuck THEN UNCHANGED <<key, deleting>>
       ELSE /\ SetKey(i, "none")
            /\ deleting' = [deleting EXCEPT ![t] = i]
    /\ UNCHANGED <<identity, form, asked, crossed>>

\* ... then, in a transaction of its own, the identity.
DeleteIdentity(t) ==
    /\ deleting[t] # 0
    /\ identity' = [identity EXCEPT ![deleting[t]] = None]
    /\ deleting' = [deleting EXCEPT ![t] = 0]
    /\ UNCHANGED <<key, devices, form, hk, asked, crossed>>

-----------------------------------------------------------------------------
(* The page that edits an identity, /admin/regcodes/<reg_key>/identity/edit *)

Show(a, f) ==
    /\ form' = [form EXCEPT ![a] = f]
    /\ UNCHANGED <<identity, key, devices, deleting, hk, asked, crossed>>

Reads(i) == Ready /\ HasKey(i) /\ Exists(i)

\* The choice of a home and of a date is offered unless a move is planned.
OpenForm(a, i) ==
    /\ form[a] = Away /\ Reads(i)
    /\ Show(a, [at |-> IF Settled(identity[i]) THEN "choice" ELSE "planned",
                id |-> i])

\* "Cancel Move" shows the form again with the choice; nothing is written.
CancelMove(a) ==
    /\ form[a].at = "planned" /\ Reads(form[a].id)
    /\ Show(a, [form[a] EXCEPT !.at = "choice"])

LeaveForm(a) ==
    /\ form[a].at \in {"choice", "planned"}
    /\ Show(a, Away)

\* Save: the identity is read by one call, and written by the next.  seen, for
\* the history alone, is the planned room that was read.
SaveChoice(a, c, h, date) ==
    LET p == identity[form[a].id] IN
    /\ form[a].at = "choice" /\ Reads(form[a].id)
    /\ ~(date # "none" /\ p.room = h.room /\ p.dorm = h.dorm)
    /\ Show(a, [at |-> "sending", id |-> form[a].id, chosen |-> TRUE,
                seen |-> None, customer |-> c, dorm |-> h.dorm, room |-> h.room,
                move |-> date])

\* Bug: the room of today is sent.
TodaysRoom(p) == p.room

\* What a form without the choice sends for the room: the planned one.
PlannedRoom(p) == p.newRoom

SavePlanned(a, c) ==
    LET p == identity[form[a].id] IN
    /\ form[a].at = "planned" /\ Reads(form[a].id)
    /\ Show(a, [at |-> "sending", id |-> form[a].id, chosen |-> FALSE,
                seen |-> p.newRoom, customer |-> c, dorm |-> p.dorm, room |-> PlannedRoom(p),
                move |-> p.move])

\* The columns that edit_reg_key_identity writes.  A room cannot be NULL.
Edited(p, f) ==
    IF f.move # "none"
    THEN [p EXCEPT !.customer = f.customer, !.move = f.move,
                   !.newDorm = f.dorm, !.newRoom = f.room]
    ELSE [customer |-> f.customer, move |-> "none", dorm |-> f.dorm,
          newDorm |-> None, room |-> f.room, newRoom |-> None]

Writes(f) == HasKey(f.id) /\ Exists(f.id) /\ f.room # None

EditIdentity(a) ==
    LET f == form[a] IN
    /\ f.at = "sending" /\ Ready
    /\ form' = [form EXCEPT ![a] = Away]
    /\ IF Writes(f)
       THEN /\ identity' = [identity EXCEPT ![f.id] = Edited(@, f)]
            /\ asked' = IF f.chosen
                        THEN [asked EXCEPT ![f.id] = [dorm |-> f.dorm,
                                                      room |-> f.room]]
                        ELSE asked
            /\ crossed' = IF f.chosen THEN crossed \ {f.id}
                          ELSE IF identity[f.id].newRoom # f.seen
                          THEN crossed \cup {f.id}
                          ELSE crossed
       ELSE UNCHANGED <<identity, asked, crossed>>
    /\ UNCHANGED <<key, devices, deleting, hk>>

-----------------------------------------------------------------------------
(* HousekeepingThread.do_housekeeping                                       *)

Least(S) == CHOOSE i \in S : \A j \in S : i <= j

EndPass == hk' = Rest

\* A due row of the list: its key and the key's devices are read.  Without a
\* key the pass ends with an error.
Read(todo) ==
    LET i == Least(todo) IN
    hk' = IF HasKey(i)
          THEN [at |-> "act", id |-> i, seen |-> identity[i],
                left |-> devices[i], todo |-> todo \ {i}]
          ELSE Rest

Due == {i \in Ids : Moving(i)}

HkBegin ==
    /\ hk = Rest /\ deleting["hk"] = 0
    /\ IF Due = {} THEN hk' = [at |-> "keys", todo |-> {}]
       ELSE Read(Due)
    /\ UNCHANGED <<identity, key, devices, form, deleting, asked, crossed>>

\* The next row of the list, refreshed after a commit.  A date that is gone
\* cannot be compared: the pass ends with an error.
HkLook ==
    /\ hk.at = "look"
    /\ IF hk.todo = {} THEN hk' = [hk EXCEPT !.at = "keys"]
       ELSE LET i == Least(hk.todo) IN
            IF Exists(i) /\ identity[i].move # "none"
            THEN IF Moving(i) THEN Read(hk.todo)
                 ELSE hk' = [hk EXCEPT !.todo = @ \ {i}]
            ELSE EndPass
    /\ UNCHANGED <<identity, key, devices, form, deleting, asked, crossed>>

\* Bug: the date stays.
StillDated(p, s) == [p EXCEPT !.newDorm = None, !.newRoom = None,
                              !.room = s.newRoom]

\* The end of a move, from the row as it was read: a column is written when
\* its value changes.  The dormitory is not copied.
Moved(p, s) ==
    [p EXCEPT !.room = IF s.newRoom = s.room THEN @ ELSE s.newRoom,
              !.newRoom = None, !.newDorm = None, !.move = "none"]

\* One device is removed, or its removal fails, and the session is closed under
\* the pass, which ends with an error; without devices the move ends here.
HkMove ==
    /\ hk.at = "act"
    /\ IF hk.left # 0
       THEN /\ \/ devices' = [devices EXCEPT ![hk.id] = IF @ = 0 THEN 0 ELSE @ - 1]
               \/ hk.id \in stuck /\ UNCHANGED devices
            /\ EndPass
            /\ UNCHANGED <<identity, crossed>>
       ELSE /\ IF Exists(hk.id)
               THEN /\ identity' = [identity EXCEPT ![hk.id] = Moved(@, hk.seen)]
                    /\ crossed' = IF identity[hk.id] # hk.seen
                                  THEN crossed \cup {hk.id} ELSE crossed
                    /\ hk' = [at |-> "look", todo |-> hk.todo]
               ELSE EndPass /\ UNCHANGED <<identity, crossed>>
            /\ UNCHANGED devices
    /\ UNCHANGED <<key, form, deleting, asked>>

\* Bug: keys of people who still use the network wait.
EmptyDueKeys == {i \in Ids : key[i] = "due" /\ devices[i] = 0}

DueKeys == {i \in Ids : key[i] = "due"}

\* The first key whose date has come is deleted, which closes the session
\* under the pass: the others wait for the next one.
HkKeys ==
    /\ hk.at = "keys"
    /\ EndPass
    /\ IF DueKeys = {}
       THEN UNCHANGED <<identity, key, devices, form, deleting, asked, crossed>>
       ELSE DeleteKey("hk", Least(DueKeys))

Pass == HkBegin \/ HkLook \/ HkMove \/ HkKeys \/ DeleteIdentity("hk")

-----------------------------------------------------------------------------
(* Time and failure *)

\* A date comes.
MoveDay(i) ==
    /\ Exists(i) /\ identity[i].move = "ahead"
    /\ identity' = [identity EXCEPT ![i].move = "due"]
    /\ UNCHANGED <<key, devices, form, deleting, hk, asked, crossed>>

DeletionDay(i) ==
    /\ key[i] = "ahead"
    /\ SetKey(i, "due")
    /\ UNCHANGED <<identity, devices, form, deleting, hk, asked, crossed>>

\* The accounting thread shapes keys and counts traffic, and tc commands fail:
\* what cannot be removed changes.
Jam ==
    /\ stuck' \in SUBSET {i \in Ids : HasKey(i)}
    /\ UNCHANGED <<identity, key, devices, form, deleting, hk, asked, crossed, alone>>

\* The server stops and starts again: a deletion can be left half done.
Restart ==
    /\ hk' = Rest
    /\ deleting' = [t \in Threads |-> 0]
    /\ UNCHANGED <<identity, key, devices, form, asked, crossed>>

-----------------------------------------------------------------------------

\* What people do to the identities and keys.
People ==
    \/ \E i \in Ids :
          \/ \E c \in Customers, h \in Home : AddKey(i, c, h)
          \/ AddDevice(i)
          \/ DeregisterAll(i)
          \/ \E state \in {"kept", "ahead", "due"} : SetDeletion(i, state)
          \/ DeleteKey("rpc", i) /\ UNCHANGED hk
    \/ \E a \in Admins : EditIdentity(a)

Pages ==
    \E a \in Admins :
       \/ \E i \in Ids : OpenForm(a, i)
       \/ CancelMove(a) \/ LeaveForm(a)
       \/ \E c \in Customers :
             \/ \E h \in Home, date \in {"none", "ahead"} :
                   SaveChoice(a, c, h, date)
             \/ SavePlanned(a, c)

Time == \E i \in Ids : MoveDay(i) \/ DeletionDay(i)

Maintenance == Time \/ Pass \/ DeleteIdentity("rpc")

TenantsNext ==
    \/ Maintenance /\ UNCHANGED <<alone, stuck>>
    \/ /\ ~alone /\ (People \/ Pages \/ Restart)
       /\ alone' \in BOOLEAN /\ UNCHANGED stuck
    \/ Jam

TenantsFairness ==
    WF_tenants(Pass) /\ WF_tenants(DeleteIdentity("rpc"))

TenantsSpec == Init /\ [][TenantsNext]_tenants /\ TenantsFairness

-----------------------------------------------------------------------------
(* Properties *)

\* Whatever is saved while a move is planned, and whenever housekeeping looks,
\* a person lives in the room that the last form with a choice asked for, or
\* will when the planned move ends: the form without a choice sends the room
\* again (edit_identity), and the end of a move copies it.  Excepted are
\* rows written from what was read before another change to them.
RoomAsAsked ==
    \A i \in Ids : Exists(i) /\ i \notin crossed =>
       asked[i].room = IF identity[i].move = "none" THEN identity[i].room
                       ELSE identity[i].newRoom

\* The same of the dormitory, which the page promises beside the room:
\* "There is a planned room move for this user on ... (dormitory ...)".
DormitoryAsAsked ==
    \A i \in Ids : Exists(i) /\ i \notin crossed =>
       asked[i].dorm = IF identity[i].move = "none" THEN identity[i].dorm
                       ELSE identity[i].newDorm

\* An identity without a key whose move is planned, left by a stop in the
\* middle of its deletion: on its day it ends every pass with an error.
Orphaned == \E i \in Ids : /\ Exists(i) /\ ~HasKey(i)
                           /\ identity[i].move # "none"
                           /\ \A t \in Threads : deleting[t] # i

\* Once people and the power leave the server alone, and if they leave no
\* orphaned move and every removal succeeds from some time on, every move and
\* every deletion whose day has come is carried out: one device or one key goes
\* per pass (do_housekeeping), and none is passed over for ever.
DueIsDone ==
    <>[](stuck = {}) =>
       \A i \in Ids :
          /\ (alone /\ ~Orphaned /\ Moving(i)) ~> ~Moving(i)
          /\ (alone /\ ~Orphaned /\ key[i] = "due") ~> (key[i] # "due")
=============================================================================
