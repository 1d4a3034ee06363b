---------------------------- MODULE TenantsProofs ----------------------------
(***************************************************************************)
(* Proofs about Tenants, for any number of people, rooms, dormitories and  *)
(* administrators: its types, and that everybody lives in the room that    *)
(* was asked for, or will when a planned move ends.                        *)
(***************************************************************************)
EXTENDS Tenants, WellFoundedInduction, TLAPS

-----------------------------------------------------------------------------
(* What is planned                                                          *)

\* A planned move has its room and its dormitory, in the table and in the row
\* the housekeeping pass has read; and a form without the choice sends the
\* room it has read.
Whole(p) == p.move # "none" => p.newRoom # None /\ p.newDorm # None

PlanInv ==
    /\ \A i \in Ids : Exists(i) => Whole(identity[i])
    /\ hk.at = "act" => hk.seen.move = "due" /\ Whole(hk.seen)
    /\ \A a \in Admins : (form[a].at = "sending" /\ ~form[a].chosen) =>
                            form[a].room = form[a].seen

TypeInv == TypeOK /\ PlanInv

\* The parts of TypeInv, for steps that change one of them.
IdentityInv ==
    /\ identity \in [Ids -> Identity \cup {None}]
    /\ \A i \in Ids : Exists(i) =>
          /\ Settled(identity[i]) <=> identity[i].move = "none"
          /\ Whole(identity[i])

FormOK(f) ==
    /\ f \in {Away} \cup [at : {"choice", "planned"}, id : Ids]
             \cup [at : {"sending"}, id : Ids, chosen : BOOLEAN,
                   seen : Rooms \cup {None}, customer : Customers, dorm : Dorms,
                   room : Rooms \cup {None}, move : Days]
    /\ (f.at = "sending" /\ ~f.chosen) => f.room = f.seen

FormInv == \A a \in Admins : FormOK(form[a])

HkInv ==
    /\ hk \in {Rest} \cup [at : {"look", "keys"}, todo : SUBSET Ids]
              \cup [at : {"act"}, id : Ids, seen : Identity,
                    left : 0..MaxDevices, todo : SUBSET Ids]
    /\ hk.at = "act" => hk.seen.move = "due" /\ Whole(hk.seen)

KeyInv ==
    /\ key \in [Ids -> Days \cup {"kept"}]
    /\ devices \in [Ids -> 0..MaxDevices]
    /\ deleting \in [Threads -> Ids \cup {0}]

HistoryInv == asked \in [Ids -> Home] /\ crossed \subseteq Ids

ServerInv == alone \in BOOLEAN /\ stuck \subseteq Ids

LEMMA TypeParts ==
    TypeInv <=> IdentityInv /\ FormInv /\ HkInv /\ KeyInv /\ HistoryInv
                /\ ServerInv
  BY DEF TypeInv, TypeOK, PlanInv, IdentityInv, FormInv, FormOK, HkInv, KeyInv,
         HistoryInv, ServerInv

\* The least of some rows is one of them.
LEMMA LeastIn ==
    ASSUME NEW S, S \subseteq Ids, S # {}
    PROVE  Least(S) \in S
  <1>1. S \subseteq Nat
    BY TenantsAssumption
  <1>2. PICK x \in S : \A y \in S : ~ (<<y, x>> \in OpToRel(<, Nat))
    BY <1>1, WFMin, NatLessThanWellFounded
  <1>3. ASSUME NEW y \in S PROVE x <= y
    <2>1. <<y, x>> \in Nat \X Nat
      BY <1>1
    <2>2. ~ (<<y, x>>[1] < <<y, x>>[2])
      BY <1>2, <2>1, Zenon DEF OpToRel
    <2> QED  BY <1>1, <2>2
  <1> QED  BY <1>3 DEF Least

LEMMA TypeInit == Init => TypeInv
  <1> SUFFICES ASSUME Init PROVE TypeInv
    OBVIOUS
  <1>1. IdentityInv
    BY DEF Init, IdentityInv, Exists
  <1>2. FormInv
    BY DEF Init, FormInv, FormOK, Away
  <1>3. HkInv
    BY DEF Init, HkInv, Rest
  <1>4. KeyInv
    BY TenantsAssumption DEF Init, KeyInv, Days
  <1>5. HistoryInv /\ ServerInv
    <2>1. PICK d \in Dorms, r \in Rooms : TRUE
      BY TenantsAssumption
    <2>2. [dorm |-> d, room |-> r] \in Home
      BY DEF Home
    <2> QED  BY <2>2 DEF Init, HistoryInv, ServerInv
  <1> QED  BY <1>1, <1>2, <1>3, <1>4, <1>5, TypeParts DEF Init

-----------------------------------------------------------------------------
(* Types: the steps                                                         *)

LEMMA TypePartsNext ==
    ASSUME IdentityInv', FormInv', HkInv', KeyInv', HistoryInv', ServerInv'
    PROVE  TypeInv'
  BY DEF TypeInv, TypeOK, PlanInv, IdentityInv, FormInv, FormOK, HkInv, KeyInv,
         HistoryInv, ServerInv

\* A variable that does not change keeps its type.
LEMMA TypeUnchanged ==
    ASSUME TypeInv
    PROVE  /\ UNCHANGED identity => IdentityInv'
           /\ UNCHANGED form => FormInv'
           /\ UNCHANGED hk => HkInv'
           /\ UNCHANGED <<key, devices, deleting>> => KeyInv'
           /\ UNCHANGED <<asked, crossed>> => HistoryInv'
  BY TypeParts DEF IdentityInv, FormInv, HkInv, KeyInv, HistoryInv, Exists

\* Removing a key's devices leaves no more of them than there were.
LEMMA RemoveAllType ==
    ASSUME TypeInv, NEW i \in Ids, RemoveAll(i)
    PROVE  devices' \in [Ids -> 0..MaxDevices]
  <1>1. devices \in [Ids -> 0..MaxDevices] /\ devices[i] \in 0..MaxDevices
    BY TypeParts DEF KeyInv
  <1>2. PICK n \in 0..devices[i] : devices' = [devices EXCEPT ![i] = n]
    BY DEF RemoveAll
  <1>3. n \in 0..MaxDevices
    BY <1>1, TenantsAssumption
  <1> QED  BY <1>1, <1>2, <1>3

LEMMA KeysType ==
    ASSUME TypeInv, ServerInv', NEW i \in Ids,
           \/ AddDevice(i) \/ DeregisterAll(i)
           \/ \E state \in {"kept", "ahead", "due"} : SetDeletion(i, state)
           \/ DeletionDay(i)
    PROVE  TypeInv'
  <1>1. KeyInv'
    <2>1. CASE DeregisterAll(i)
      BY <2>1, TypeParts, RemoveAllType DEF KeyInv, DeregisterAll
    <2>2. CASE ~DeregisterAll(i)
      BY <2>2, TypeParts, TenantsAssumption
         DEF KeyInv, AddDevice, SetDeletion, DeletionDay, SetKey, Days
    <2> QED  BY <2>1, <2>2
  <1>2. UNCHANGED <<identity, form, hk, asked, crossed>>
    BY DEF AddDevice, DeregisterAll, SetDeletion, DeletionDay
  <1> QED  BY <1>1, <1>2, TypeUnchanged, TypePartsNext

LEMMA DeleteKeyType ==
    ASSUME TypeInv, NEW t \in Threads, NEW i \in Ids, DeleteKey(t, i)
    PROVE  IdentityInv' /\ FormInv' /\ KeyInv' /\ HistoryInv'
  <1>1. KeyInv'
    BY TypeParts, RemoveAllType DEF KeyInv, DeleteKey, SetKey, Days
  <1>2. UNCHANGED <<identity, form, asked, crossed>>
    BY DEF DeleteKey
  <1> QED  BY <1>1, <1>2, TypeUnchanged

LEMMA DeleteIdentityType ==
    ASSUME TypeInv, ServerInv', NEW t \in Threads, DeleteIdentity(t)
    PROVE  TypeInv'
  <1>1. KeyInv'
    BY TypeParts DEF KeyInv, DeleteIdentity
  <1>2. IdentityInv'
    BY TypeParts DEF IdentityInv, DeleteIdentity, Exists
  <1>3. UNCHANGED <<form, hk, asked, crossed>>
    BY DEF DeleteIdentity
  <1> QED  BY <1>1, <1>2, <1>3, TypeUnchanged, TypePartsNext

LEMMA AddKeyType ==
    ASSUME TypeInv, ServerInv', NEW i \in Ids, NEW c \in Customers,
           NEW h \in Home, AddKey(i, c, h)
    PROVE  TypeInv'
  <1> DEFINE new == [customer |-> c, dorm |-> h.dorm, room |-> h.room,
                     newDorm |-> None, newRoom |-> None, move |-> "none"]
  <1>1. new \in Identity
    BY DEF Identity, Home, Days
  <1>2. identity' = [identity EXCEPT ![i] = new]
    BY DEF AddKey
  <1>3. IdentityInv'
    BY <1>1, <1>2, TypeParts DEF IdentityInv, Exists, Settled, Whole
  <1>4. KeyInv'
    BY TypeParts DEF KeyInv, AddKey, SetKey, Days
  <1>5. HistoryInv'
    BY TypeParts DEF HistoryInv, AddKey
  <1>6. UNCHANGED <<form, hk>>
    BY DEF AddKey
  <1> QED  BY <1>3, <1>4, <1>5, <1>6, TypeUnchanged, TypePartsNext

LEMMA MoveDayType ==
    ASSUME TypeInv, ServerInv', NEW i \in Ids, MoveDay(i)
    PROVE  TypeInv'
  <1>1. identity' = [identity EXCEPT ![i] = [identity[i] EXCEPT !.move = "due"]]
    BY DEF MoveDay
  <1>2. identity[i] \in Identity /\ identity[i].move = "ahead"
    BY TypeParts DEF MoveDay, IdentityInv, Exists
  <1>3. IdentityInv'
    BY <1>1, <1>2, TypeParts
       DEF MoveDay, IdentityInv, Exists, Settled, Whole, Identity, Days
  <1>4. UNCHANGED <<key, devices, form, deleting, hk, asked, crossed>>
    BY DEF MoveDay
  <1> QED  BY <1>3, <1>4, TypeUnchanged, TypePartsNext

LEMMA RestartType ==
    ASSUME TypeInv, ServerInv', Restart
    PROVE  TypeInv'
  <1>1. KeyInv'
    BY TypeParts DEF KeyInv, Restart
  <1>2. HkInv'
    BY DEF HkInv, Restart, Rest
  <1>3. UNCHANGED <<identity, form, asked, crossed>>
    BY DEF Restart
  <1> QED  BY <1>1, <1>2, <1>3, TypeUnchanged, TypePartsNext

LEMMA ShowType ==
    ASSUME TypeInv, ServerInv', NEW a \in Admins, NEW f, FormOK(f),
           Show(a, f)
    PROVE  TypeInv'
  <1>1. FormInv'
    <2>1. ASSUME NEW b \in Admins PROVE form'[b] \in {f, form[b]}
      BY DEF Show
    <2> QED  BY <2>1, TypeParts DEF FormInv
  <1>2. UNCHANGED <<identity, key, devices, deleting, hk, asked, crossed>>
    BY DEF Show
  <1> QED  BY <1>1, <1>2, TypeUnchanged, TypePartsNext

LEMMA OpenFormType ==
    ASSUME TypeInv, ServerInv', NEW a \in Admins, NEW i \in Ids,
           OpenForm(a, i)
    PROVE  TypeInv'
  <1>1. FormOK([at |-> IF Settled(identity[i]) THEN "choice" ELSE "planned",
                id |-> i])
    BY DEF FormOK
  <1> QED  BY <1>1, ShowType DEF OpenForm

LEMMA ChangeFormType ==
    ASSUME TypeInv, ServerInv', NEW a \in Admins,
           CancelMove(a) \/ LeaveForm(a)
    PROVE  TypeInv'
  <1>1. FormOK(Away)
    BY DEF FormOK, Away
  <1>2. CASE CancelMove(a)
    <2>1. FormOK([form[a] EXCEPT !.at = "choice"])
      BY <1>2, TypeParts DEF CancelMove, FormInv, FormOK, Away
    <2> QED  BY <1>2, <2>1, ShowType DEF CancelMove
  <1>3. CASE LeaveForm(a)
    BY <1>1, <1>3, ShowType DEF LeaveForm
  <1> QED  BY <1>2, <1>3

\* The identity that a call reads is there.
LEMMA ReadIdentity ==
    ASSUME TypeInv, NEW a \in Admins, form[a].at \in {"choice", "planned"},
           Reads(form[a].id)
    PROVE  form[a].id \in Ids /\ identity[form[a].id] \in Identity
  BY TypeParts DEF FormInv, FormOK, Away, Reads, Exists, IdentityInv

LEMMA SaveChoiceType ==
    ASSUME TypeInv, ServerInv', NEW a \in Admins, NEW c \in Customers,
           NEW h \in Home, NEW date \in {"none", "ahead"},
           SaveChoice(a, c, h, date)
    PROVE  TypeInv'
  <1> DEFINE f == [at |-> "sending", id |-> form[a].id, chosen |-> TRUE,
                   seen |-> None, customer |-> c, dorm |-> h.dorm,
                   room |-> h.room, move |-> date]
  <1>1. form[a].id \in Ids
    BY ReadIdentity DEF SaveChoice
  <1>2. FormOK(f)
    BY <1>1 DEF FormOK, Home, Days
  <1> QED  BY <1>2, ShowType DEF SaveChoice

LEMMA SavePlannedType ==
    ASSUME TypeInv, ServerInv', NEW a \in Admins, NEW c \in Customers,
           SavePlanned(a, c)
    PROVE  TypeInv'
  <1> DEFINE p == identity[form[a].id]
             f == [at |-> "sending", id |-> form[a].id, chosen |-> FALSE,
                   seen |-> p.newRoom, customer |-> c, dorm |-> p.dorm,
                   room |-> PlannedRoom(p), move |-> p.move]
  <1>1. form[a].id \in Ids /\ p \in Identity
    BY ReadIdentity DEF SavePlanned
  <1>2. FormOK(f)
    BY <1>1 DEF FormOK, PlannedRoom, Identity
  <1> QED  BY <1>2, ShowType DEF SavePlanned

\* What the call writes is an identity again, with a whole move or none.
LEMMA EditedType ==
    ASSUME NEW p \in Identity, NEW f, FormOK(f), f.at = "sending", f.room # None
    PROVE  /\ Edited(p, f) \in Identity
           /\ Settled(Edited(p, f)) <=> Edited(p, f).move = "none"
           /\ Whole(Edited(p, f))
  <1>1. /\ f.customer \in Customers /\ f.dorm \in Dorms /\ f.room \in Rooms
        /\ f.move \in Days
    BY DEF FormOK, Away
  <1>2. CASE f.move # "none"
    <2>1. Edited(p, f) = [p EXCEPT !.customer = f.customer, !.move = f.move,
                                   !.newDorm = f.dorm, !.newRoom = f.room]
      BY <1>2 DEF Edited
    <2>2. Edited(p, f) \in Identity
      BY <1>1, <2>1 DEF Identity
    <2>3. /\ Edited(p, f).move # "none" /\ Edited(p, f).newDorm \in Dorms
          /\ Edited(p, f).newRoom \in Rooms
      BY <1>1, <1>2, <2>1 DEF Identity
    <2> QED  BY <2>2, <2>3, NoneAssumption DEF Settled, Whole
  <1>3. CASE f.move = "none"
    BY <1>1, <1>3 DEF Edited, Identity, Settled, Whole, Days
  <1> QED  BY <1>2, <1>3

LEMMA EditIdentityType ==
    ASSUME TypeInv, ServerInv', NEW a \in Admins, EditIdentity(a)
    PROVE  TypeInv'
  <1> DEFINE f == form[a]
  <1>0. FormOK(f) /\ f.at = "sending" /\ f.id \in Ids
    BY TypeParts DEF EditIdentity, FormInv, FormOK, Away
  <1>1. FormInv'
    BY TypeParts DEF EditIdentity, FormInv, FormOK, Away
  <1>2. UNCHANGED <<key, devices, deleting, hk>>
    BY DEF EditIdentity
  <1>3. CASE Writes(f)
    <2> DEFINE new == Edited(identity[f.id], f)
    <2>1. identity' = [identity EXCEPT ![f.id] = new]
      BY <1>3 DEF EditIdentity
    <2>2. identity[f.id] \in Identity /\ f.room # None
      BY <1>0, <1>3, TypeParts DEF Writes, Exists, IdentityInv
    <2>3. /\ new \in Identity
          /\ Settled(new) <=> new.move = "none"
          /\ Whole(new)
      BY <1>0, <2>2, EditedType
    <2>4. IdentityInv'
      <3> HIDE DEF new
      <3> QED  BY <1>0, <2>1, <2>3, TypeParts DEF IdentityInv, Exists
    <2>5. asked' \in [Ids -> Home]
      <3>1. f.dorm \in Dorms /\ f.room \in Rooms
        BY <1>0, <2>2 DEF FormOK, Away
      <3>2. [dorm |-> f.dorm, room |-> f.room] \in Home
        BY <3>1 DEF Home
      <3> QED  BY <1>0, <1>3, <3>2, TypeParts DEF EditIdentity, HistoryInv
    <2>6. crossed' \subseteq Ids
      BY <1>0, <1>3, TypeParts DEF EditIdentity, HistoryInv
    <2> QED  BY <1>1, <1>2, <2>4, <2>5, <2>6, TypeUnchanged, TypePartsNext
             DEF HistoryInv
  <1>4. CASE ~Writes(f)
    <2>1. UNCHANGED <<identity, asked, crossed>>
      BY <1>4 DEF EditIdentity
    <2> QED  BY <1>1, <1>2, <2>1, TypeUnchanged, TypePartsNext
  <1> QED  BY <1>3, <1>4

LEMMA ReadType ==
    ASSUME TypeInv, NEW todo, todo \subseteq Ids, todo # {},
           Moving(Least(todo)), Read(todo)
    PROVE  HkInv'
  <1> DEFINE i == Least(todo)
  <1>1. i \in Ids
    BY LeastIn
  <1>2. CASE HasKey(i)
    <2>1. hk' = [at |-> "act", id |-> i, seen |-> identity[i],
                 left |-> devices[i], todo |-> todo \ {i}]
      BY <1>2 DEF Read
    <2>2. /\ identity[i] \in Identity /\ identity[i].move = "due"
          /\ Whole(identity[i]) /\ devices[i] \in 0..MaxDevices
      BY <1>1, TypeParts DEF Moving, Exists, IdentityInv, KeyInv
    <2> HIDE DEF i
    <2> QED  BY <1>1, <2>1, <2>2 DEF HkInv
  <1>3. CASE ~HasKey(i)
    BY <1>3 DEF Read, HkInv, Rest
  <1> QED  BY <1>2, <1>3

LEMMA HkBeginType ==
    ASSUME TypeInv, ServerInv', HkBegin
    PROVE  TypeInv'
  <1>1. HkInv'
    <2>1. CASE Due = {}
      BY <2>1 DEF HkBegin, HkInv
    <2>2. CASE Due # {}
      <3>1. Due \subseteq Ids /\ Moving(Least(Due))
        BY <2>2, LeastIn DEF Due
      <3> QED  BY <2>2, <3>1, ReadType DEF HkBegin
    <2> QED  BY <2>1, <2>2
  <1>2. UNCHANGED <<identity, key, devices, form, deleting, asked, crossed>>
    BY DEF HkBegin
  <1> QED  BY <1>1, <1>2, TypeUnchanged, TypePartsNext

LEMMA HkLookType ==
    ASSUME TypeInv, ServerInv', HkLook
    PROVE  TypeInv'
  <1>0. hk \in [at : {"look", "keys"}, todo : SUBSET Ids]
    BY TypeParts DEF HkLook, HkInv, Rest
  <1>1. HkInv'
    <2> DEFINE i == Least(hk.todo)
    <2>1. CASE hk.todo = {}
      BY <1>0, <2>1 DEF HkLook, HkInv
    <2>2. CASE hk.todo # {} /\ Moving(i) /\ Read(hk.todo)
      BY <1>0, <2>2, ReadType
    <2>3. CASE hk' = [hk EXCEPT !.todo = @ \ {i}]
      BY <1>0, <2>3 DEF HkLook, HkInv
    <2>4. CASE EndPass
      BY <2>4 DEF EndPass, HkInv, Rest
    <2> QED  BY <2>1, <2>2, <2>3, <2>4 DEF HkLook
  <1>2. UNCHANGED <<identity, key, devices, form, deleting, asked, crossed>>
    BY DEF HkLook
  <1> QED  BY <1>1, <1>2, TypeUnchanged, TypePartsNext

\* The row at the end of a move.
LEMMA MovedType ==
    ASSUME NEW p \in Identity, NEW s \in Identity, s.move = "due", Whole(s)
    PROVE  /\ Moved(p, s) \in Identity
           /\ Settled(Moved(p, s)) /\ Moved(p, s).move = "none"
           /\ Whole(Moved(p, s))
  <1>1. s.newRoom \in Rooms
    BY DEF Whole, Identity
  <1> QED  BY <1>1 DEF Moved, Identity, Settled, Whole, Days

LEMMA HkMoveType ==
    ASSUME TypeInv, ServerInv', HkMove
    PROVE  TypeInv'
  <1>0. /\ hk.id \in Ids /\ hk.seen \in Identity /\ hk.seen.move = "due"
        /\ Whole(hk.seen) /\ hk.todo \subseteq Ids
    BY TypeParts DEF HkMove, HkInv, Rest
  <1>1. UNCHANGED <<key, form, deleting, asked>>
    BY DEF HkMove
  <1>2. CASE hk.left # 0
    <2>1. /\ \/ devices' = [devices EXCEPT ![hk.id] = IF @ = 0 THEN 0 ELSE @ - 1]
             \/ UNCHANGED devices
          /\ EndPass /\ UNCHANGED <<identity, crossed>>
      BY <1>2 DEF HkMove
    <2> DEFINE n == devices[hk.id]
               rest == IF n = 0 THEN 0 ELSE n - 1
    <2>a. rest \in 0..MaxDevices
      <3>1. n \in 0..MaxDevices
        BY <1>0, TypeParts DEF KeyInv
      <3> QED  BY <3>1, TenantsAssumption
    <2>b. devices' = [devices EXCEPT ![hk.id] = rest] \/ devices' = devices
      BY <2>1
    <2>2. KeyInv'
      <3> HIDE DEF rest
      <3> QED  BY <1>1, <2>a, <2>b, TypeParts DEF KeyInv
    <2>3. HkInv'
      BY <2>1 DEF EndPass, HkInv, Rest
    <2> QED  BY <1>1, <2>1, <2>2, <2>3, TypeUnchanged, TypePartsNext
  <1>3. CASE hk.left = 0 /\ Exists(hk.id)
    <2> DEFINE new == Moved(identity[hk.id], hk.seen)
    <2>1. /\ identity' = [identity EXCEPT ![hk.id] = new]
          /\ crossed' = IF identity[hk.id] # hk.seen
                        THEN crossed \cup {hk.id} ELSE crossed
          /\ hk' = [at |-> "look", todo |-> hk.todo]
          /\ UNCHANGED devices
      BY <1>3 DEF HkMove
    <2>2. /\ new \in Identity /\ Settled(new) /\ new.move = "none"
          /\ Whole(new)
      BY <1>0, <1>3, MovedType, TypeParts DEF Exists, IdentityInv
    <2>3. IdentityInv'
      <3> HIDE DEF new
      <3> QED  BY <1>0, <2>1, <2>2, TypeParts DEF IdentityInv, Exists
    <2>4. HkInv'
      BY <1>0, <2>1 DEF HkInv
    <2>5. HistoryInv'
      BY <1>0, <1>1, <2>1, TypeParts DEF HistoryInv
    <2> QED  BY <1>1, <2>1, <2>3, <2>4, <2>5, TypeUnchanged, TypePartsNext
  <1>4. CASE hk.left = 0 /\ ~Exists(hk.id)
    <2>1. EndPass /\ UNCHANGED <<identity, crossed, devices>>
      BY <1>4 DEF HkMove
    <2>2. HkInv'
      BY <2>1 DEF EndPass, HkInv, Rest
    <2> QED  BY <1>1, <2>1, <2>2, TypeUnchanged, TypePartsNext
  <1> QED  BY <1>2, <1>3, <1>4

LEMMA HkKeysType ==
    ASSUME TypeInv, ServerInv', HkKeys
    PROVE  TypeInv'
  <1>1. HkInv'
    BY DEF HkKeys, EndPass, HkInv, Rest
  <1>2. CASE UNCHANGED <<identity, key, devices, form, deleting, asked, crossed>>
    BY <1>1, <1>2, TypeUnchanged, TypePartsNext
  <1>3. CASE DueKeys # {} /\ DeleteKey("hk", Least(DueKeys))
    <2>1. Least(DueKeys) \in Ids /\ "hk" \in Threads
      BY <1>3, LeastIn DEF DueKeys, Threads
    <2> QED  BY <1>1, <1>3, <2>1, DeleteKeyType, TypePartsNext
  <1> QED  BY <1>2, <1>3 DEF HkKeys

LEMMA DeleteByCallType ==
    ASSUME TypeInv, ServerInv', NEW i \in Ids,
           DeleteKey("rpc", i) /\ UNCHANGED hk
    PROVE  TypeInv'
  BY DeleteKeyType, TypeUnchanged, TypePartsNext DEF Threads

\* Every step, by the groups of the next-state relation.
LEMMA MaintenanceType ==
    ASSUME TypeInv, ServerInv', Maintenance
    PROVE  TypeInv'
  BY KeysType, MoveDayType, HkBeginType, HkLookType, HkMoveType, HkKeysType,
     DeleteIdentityType DEF Maintenance, Time, Pass, Threads

LEMMA PeopleType ==
    ASSUME TypeInv, ServerInv', People
    PROVE  TypeInv'
  BY AddKeyType, KeysType, DeleteByCallType, EditIdentityType DEF People

LEMMA PagesType ==
    ASSUME TypeInv, ServerInv', Pages
    PROVE  TypeInv'
  BY OpenFormType, ChangeFormType, SaveChoiceType, SavePlannedType DEF Pages

LEMMA JamType ==
    ASSUME TypeInv, Jam
    PROVE  TypeInv'
  <1>1. ServerInv'
    BY TypeParts DEF Jam, ServerInv
  <1> QED  BY <1>1, TypeUnchanged, TypePartsNext DEF Jam

LEMMA StutterType ==
    ASSUME TypeInv, UNCHANGED tenants
    PROVE  TypeInv'
  BY TypeParts, TypeUnchanged, TypePartsNext DEF tenants, ServerInv

LEMMA TypeStep ==
    ASSUME TypeInv, [TenantsNext]_tenants
    PROVE  TypeInv'
  <1>0. UNCHANGED <<alone, stuck>> => ServerInv'
    BY TypeParts DEF ServerInv
  <1>1. CASE Maintenance /\ UNCHANGED <<alone, stuck>>
    BY <1>0, <1>1, MaintenanceType
  <1>2. CASE ~alone /\ (People \/ Pages \/ Restart) /\ alone' \in BOOLEAN /\ UNCHANGED stuck
    <2>1. ServerInv'
      BY <1>2, TypeParts DEF ServerInv
    <2> QED  BY <1>2, <2>1, PeopleType, PagesType, RestartType
  <1>3. CASE UNCHANGED tenants
    BY <1>3, StutterType
  <1>4. CASE Jam
    BY <1>4, JamType
  <1> QED  BY <1>1, <1>2, <1>3, <1>4 DEF TenantsNext

LEMMA TypeInvariant == TenantsSpec => []TypeInv
  <1>1. Init => TypeInv
    BY TypeInit
  <1>2. TypeInv /\ [TenantsNext]_tenants => TypeInv'
    BY TypeStep
  <1> QED  BY <1>1, <1>2, PTL DEF TenantsSpec

\* Type correctness, and that the columns of a planned move belong together.
THEOREM TypeCorrect == TenantsSpec => []TypeOK
  <1>1. TypeInv => TypeOK
    BY DEF TypeInv
  <1> QED  BY <1>1, TypeInvariant, PTL

-----------------------------------------------------------------------------
(* The room                                                                 *)

\* The room that the last form with a choice asked for is the one the row has,
\* or will have.
Promised(p, h) == h.room = IF p.move = "none" THEN p.room ELSE p.newRoom

LEMMA RoomByRow ==
    RoomAsAsked <=> \A i \in Ids : Exists(i) /\ i \notin crossed =>
                       Promised(identity[i], asked[i])
  BY DEF RoomAsAsked, Promised

\* Steps that write no identity and no history keep every promise.
LEMMA RoomQuiet ==
    ASSUME RoomAsAsked, UNCHANGED <<identity, asked, crossed>>
    PROVE  RoomAsAsked'
  BY DEF RoomAsAsked, Exists

LEMMA EditIdentityRoom ==
    ASSUME TypeInv, RoomAsAsked, NEW a \in Admins, EditIdentity(a)
    PROVE  RoomAsAsked'
  <1> DEFINE f == form[a]
  <1>0. FormOK(f) /\ f.at = "sending" /\ f.id \in Ids
    BY TypeParts DEF EditIdentity, FormInv, FormOK, Away
  <1>1. CASE ~Writes(f)
    BY <1>1, RoomQuiet DEF EditIdentity
  <1>2. CASE Writes(f)
    <2> DEFINE p == identity[f.id]
    <2>1. /\ identity' = [identity EXCEPT ![f.id] = Edited(p, f)]
          /\ asked' = IF f.chosen
                      THEN [asked EXCEPT ![f.id] = [dorm |-> f.dorm,
                                                    room |-> f.room]]
                      ELSE asked
          /\ crossed' = IF f.chosen THEN crossed \ {f.id}
                        ELSE IF p.newRoom # f.seen THEN crossed \cup {f.id}
                        ELSE crossed
      BY <1>2 DEF EditIdentity
    <2>2. /\ p \in Identity /\ p # None /\ f.room # None
          /\ Settled(p) <=> p.move = "none"
      BY <1>0, <1>2, TypeParts DEF Writes, Exists, IdentityInv
    <2>3. IF Edited(p, f).move = "none" THEN Edited(p, f).room = f.room
          ELSE Edited(p, f).newRoom = f.room
      BY <2>2 DEF Edited, Identity
    <2>4. ASSUME f.id \notin crossed'
          PROVE  asked'[f.id].room = f.room
      <3>1. CASE f.chosen
        BY <1>0, <2>1, <3>1, TypeParts DEF HistoryInv
      <3>2. CASE ~f.chosen
        <4>1. f.id \notin crossed /\ p.newRoom = f.seen /\ f.room = f.seen
          BY <1>0, <2>1, <2>4, <3>2 DEF FormOK
        <4>2. p.move # "none"
          BY <2>2, <4>1 DEF Settled
        <4>3. asked[f.id].room = p.newRoom
          BY <1>0, <2>2, <4>1, <4>2 DEF RoomAsAsked, Exists
        <4> QED  BY <2>1, <3>2, <4>1, <4>3
      <3> QED  BY <3>1, <3>2
    <2>5. ASSUME NEW i \in Ids, i # f.id
          PROVE  /\ identity'[i] = identity[i] /\ asked'[i] = asked[i]
                 /\ i \in crossed' <=> i \in crossed
      BY <2>1, <2>5, TypeParts DEF IdentityInv, HistoryInv
    <2>6. identity'[f.id] = Edited(p, f)
      BY <1>0, <2>1, TypeParts DEF IdentityInv
    <2>7. ASSUME NEW i \in Ids, identity'[i] # None, i \notin crossed'
          PROVE  Promised(identity'[i], asked'[i])
      <3>1. CASE i = f.id
        BY <2>3, <2>4, <2>6, <2>7, <3>1 DEF Promised
      <3>2. CASE i # f.id
        BY <2>5, <2>7, <3>2, RoomByRow DEF Exists
      <3> QED  BY <3>1, <3>2
    <2> QED  BY <2>7 DEF RoomAsAsked, Promised, Exists
  <1> QED  BY <1>1, <1>2

LEMMA HkMoveRoom ==
    ASSUME TypeInv, RoomAsAsked, HkMove
    PROVE  RoomAsAsked'
  <1>0. hk.id \in Ids /\ hk.seen \in Identity /\ hk.seen.move = "due"
    BY TypeParts DEF HkMove, HkInv, Rest
  <1>1. CASE UNCHANGED <<identity, crossed>>
    BY <1>1, RoomQuiet DEF HkMove
  <1>2. CASE Exists(hk.id) /\ ~UNCHANGED <<identity, crossed>>
    <2> DEFINE p == identity[hk.id]
    <2>1. /\ identity' = [identity EXCEPT ![hk.id] = Moved(p, hk.seen)]
          /\ crossed' = IF p # hk.seen THEN crossed \cup {hk.id} ELSE crossed
          /\ asked' = asked
      BY <1>2 DEF HkMove
    <2>2. ASSUME hk.id \notin crossed'
          PROVE  /\ Moved(p, hk.seen).move = "none"
                 /\ Moved(p, hk.seen).room = asked[hk.id].room
      <3>1. p = hk.seen /\ hk.id \notin crossed
        BY <2>1, <2>2
      <3>2. asked[hk.id].room = hk.seen.newRoom
        BY <1>0, <1>2, <3>1 DEF RoomAsAsked
      <3> QED  BY <1>0, <3>1, <3>2 DEF Moved, Identity
    <2>3. ASSUME NEW i \in Ids, identity'[i] # None, i \notin crossed'
          PROVE  Promised(identity'[i], asked'[i])
      <3>1. CASE i = hk.id
        BY <1>0, <2>1, <2>2, <2>3, <3>1, TypeParts DEF Promised, IdentityInv
      <3>2. CASE i # hk.id
        BY <2>1, <2>3, <3>2, RoomByRow, TypeParts DEF Exists, IdentityInv
      <3> QED  BY <3>1, <3>2
    <2> QED  BY <2>3 DEF RoomAsAsked, Promised, Exists
  <1> QED  BY <1>1, <1>2 DEF HkMove

LEMMA AddKeyRoom ==
    ASSUME TypeInv, RoomAsAsked, NEW i \in Ids, NEW c \in Customers,
           NEW h \in Home, AddKey(i, c, h)
    PROVE  RoomAsAsked'
  BY TypeParts DEF AddKey, RoomAsAsked, Exists, IdentityInv, HistoryInv

LEMMA MoveDayRoom ==
    ASSUME TypeInv, RoomAsAsked, NEW i \in Ids, MoveDay(i)
    PROVE  RoomAsAsked'
  BY TypeParts DEF MoveDay, RoomAsAsked, Exists, IdentityInv, Identity

LEMMA DeleteIdentityRoom ==
    ASSUME TypeInv, RoomAsAsked, NEW t \in Threads, DeleteIdentity(t)
    PROVE  RoomAsAsked'
  BY TypeParts DEF DeleteIdentity, RoomAsAsked, Exists, IdentityInv

\* Every step, by the groups of the next-state relation.
LEMMA MaintenanceRoom ==
    ASSUME TypeInv, RoomAsAsked, Maintenance
    PROVE  RoomAsAsked'
  <1>1. ASSUME NEW i \in Ids, DeletionDay(i) PROVE RoomAsAsked'
    BY <1>1, RoomQuiet DEF DeletionDay
  <1>2. CASE HkBegin \/ HkLook
    BY <1>2, RoomQuiet DEF HkBegin, HkLook
  <1>3. CASE HkKeys
    BY <1>3, RoomQuiet DEF HkKeys, DeleteKey
  <1> QED  BY <1>1, <1>2, <1>3, MoveDayRoom, HkMoveRoom, DeleteIdentityRoom
           DEF Maintenance, Time, Pass, Threads

LEMMA PeopleRoom ==
    ASSUME TypeInv, RoomAsAsked, People
    PROVE  RoomAsAsked'
  <1>1. ASSUME NEW i \in Ids,
               \/ AddDevice(i) \/ DeregisterAll(i)
               \/ \E state \in {"kept", "ahead", "due"} : SetDeletion(i, state)
               \/ DeleteKey("rpc", i)
        PROVE  RoomAsAsked'
    BY <1>1, RoomQuiet DEF AddDevice, DeregisterAll, SetDeletion, DeleteKey
  <1> QED  BY <1>1, AddKeyRoom, EditIdentityRoom DEF People

LEMMA PagesRoom ==
    ASSUME RoomAsAsked, Pages
    PROVE  RoomAsAsked'
  <1>1. ASSUME NEW a, NEW f, Show(a, f) PROVE RoomAsAsked'
    BY <1>1, RoomQuiet DEF Show
  <1> QED  BY <1>1 DEF Pages, OpenForm, CancelMove, LeaveForm, SaveChoice,
                       SavePlanned

LEMMA RoomStep ==
    ASSUME TypeInv, RoomAsAsked, [TenantsNext]_tenants
    PROVE  RoomAsAsked'
  <1>1. CASE Restart \/ Jam
    BY <1>1, RoomQuiet DEF Restart, Jam
  <1>2. CASE UNCHANGED tenants
    BY <1>2, RoomQuiet DEF tenants
  <1> QED  BY <1>1, <1>2, MaintenanceRoom, PeopleRoom, PagesRoom DEF TenantsNext

\* A person lives in the room that was asked for, or will when the planned
\* move ends: saving the form without a choice and the end of a move by
\* housekeeping (__remove_orphaned_devices) keep the promise.
THEOREM RoomKept == TenantsSpec => []RoomAsAsked
  <1>1. Init => RoomAsAsked
    BY DEF Init, RoomAsAsked, Exists
  <1>2. TypeInv /\ RoomAsAsked /\ [TenantsNext]_tenants => RoomAsAsked'
    BY RoomStep
  <1> QED  BY <1>1, <1>2, TypeInvariant, PTL DEF TenantsSpec
=============================================================================
