------------------------------ MODULE ErpProofs ------------------------------
(***************************************************************************)
(* Proofs about ErpUpdates, for any number of customers and identities:    *)
(* the rows that the program leaves in the table can be told apart, say    *)
(* what is to be done, and the page shows nobody twice.                    *)
(***************************************************************************)
EXTENDS ErpUpdates, TenantsProofs

-----------------------------------------------------------------------------
(* The inductive invariant *)

ServiceType ==
    /\ service \in [at : {"off"}]
                   \cup [at : {"rows"}, erp : [Customers -> SUBSET Row],
                         todo : SUBSET (Customers \X Row)]
                   \cup [at : {"identities"}, erp : [Customers -> SUBSET Row],
                         todo : SUBSET Ids]
    /\ service.at = "rows" =>
          \A c \in Customers, row \in Row :
             <<c, row>> \in service.todo => row \in service.erp[c]

PageType ==
    page \in {NoPage}
             \cup [at : {"first"}, creatable : SUBSET Customers, torn : BOOLEAN]
             \cup [at : {"second"}, creatable : SUBSET Customers,
                   updatable : SUBSET Ids, torn : BOOLEAN]
             \cup [at : {"shown"}, creatable : SUBSET Customers,
                   updatable : SUBSET Ids, deletable : SUBSET Ids, torn : BOOLEAN]

ErpType == RowsOK /\ ServiceType /\ PageType

\* The identities that the program may still find gone from the ERP.
Unseen == CASE service.at = "off" -> {}
            [] service.at = "identities" -> service.todo
            [] OTHER -> Ids

Waits(c, row) == service.at = "rows" /\ <<c, row>> \in service.todo

RowsAbout(c) == {u \in updates : u.new = c \/ u.old = c}

\* What the rows and identities of a customer that are done, and of whom
\* nothing has changed, leave in the table if no insert fails.
Expected(c) ==
    IF erp[c] = {} THEN {AsDeletable(i, c) : i \in Identities(c) \ Unseen}
    ELSE UNION {Marks(c, row) : row \in {r \in erp[c] : ~Waits(c, r)}}

CustomerInv(c) ==
    /\ service.at # "off" => service.erp[c] = erp[c]
    /\ RowsAbout(c) \subseteq Expected(c)
    /\ c \notin missed => Expected(c) \subseteq RowsAbout(c)
    /\ \A u \in updates : u.id \in Identities(c) => u.old = c

MatchInv == \A c \in Customers \ touched : CustomerInv(c)

\* A page that nothing has torn shows what the table says now.
PageInv ==
    page # NoPage /\ ~page.torn =>
       /\ service.at = "off" /\ page.creatable = Creatable
       /\ page.at \in {"second", "shown"} => page.updatable = Updatable
       /\ page.at = "shown" => page.deletable = Deletable

ErpInv == TypeInv /\ ErpType /\ MatchInv /\ PageInv

-----------------------------------------------------------------------------
(* Identities and rows *)

LEMMA IdentitiesIn ==
    ASSUME TypeInv
    PROVE  /\ \A c : Identities(c) \subseteq Ids
           /\ \A c, d : \A i \in Identities(c) : i \in Identities(d) => c = d
           /\ \A i \in Ids : Exists(i) => /\ identity[i].customer \in Customers
                                          /\ i \in Identities(identity[i].customer)
  <1>1. \A i \in Ids : Exists(i) => identity[i] \in Identity
    BY TypeParts DEF IdentityInv, Exists
  <1> QED  BY <1>1 DEF Identities, Identity

RowOK(u) ==
    IF u.id = None THEN u.new # None /\ u.old = None
    ELSE u.old # None /\ u.new \in {None, u.old}

LEMMA RowParts ==
    ASSUME RowsOK, NEW u \in updates
    PROVE  /\ u \in Update /\ RowOK(u)
           /\ u.id \in Ids \cup {None} /\ u.new \in Customers \cup {None}
           /\ u.old \in Customers \cup {None}
  BY DEF RowsOK, RowOK, Update

\* A row about customer c, and only about c.
About(u, c) ==
    /\ u \in Update /\ RowOK(u)
    /\ u.new = c \/ u.old = c
    /\ u.new \in {c, None} /\ u.old \in {c, None}
    /\ u.id # None => u.id \in Identities(c) /\ u.old = c

\* The three kinds of rows.
LEMMA RowKinds ==
    ASSUME TypeInv, NEW c \in Customers, NEW i \in Identities(c)
    PROVE  /\ About(AsUpdatable(i, c), c) /\ About(AsDeletable(i, c), c)
           /\ About(AsCreatable(c), c)
  <1>1. i \in Ids /\ i # None /\ c # None
    BY IdentitiesIn, ErpAssumption
  <1> QED  BY <1>1 DEF About, AsUpdatable, AsDeletable, AsCreatable, Update, RowOK

LEMMA CreatableKind ==
    ASSUME NEW c \in Customers
    PROVE  About(AsCreatable(c), c)
  <1>1. c # None
    BY ErpAssumption
  <1> QED  BY <1>1 DEF About, AsCreatable, Update, RowOK

LEMMA MarksAbout ==
    ASSUME TypeInv, NEW c \in Customers, NEW row
    PROVE  \A u \in Marks(c, row) : About(u, c)
  BY RowKinds, CreatableKind DEF Marks

\* Rows about one customer change nothing for the others.
LEMMA TableGrows ==
    ASSUME TypeInv, RowsOK, NEW c \in Customers, NEW M, \A u \in M : About(u, c),
           Insert(M, c), identity' = identity
    PROVE  /\ updates' \subseteq Update /\ \A u \in updates' : RowOK(u)
           /\ missed' \subseteq Customers /\ missed \subseteq missed'
           /\ RowsAbout(c)' \subseteq RowsAbout(c) \cup M
           /\ c \notin missed' => RowsAbout(c)' = RowsAbout(c) \cup M
           /\ \A d \in Customers \ {c} : /\ RowsAbout(d)' = RowsAbout(d)
                                         /\ d \in missed' => d \in missed
           /\ \A d : \A u \in updates' \ updates : u.id \in Identities(d) => u.old = d
  <1>0. PICK W \in SUBSET M : /\ updates' = updates \cup W
                              /\ missed' = IF W = M THEN missed ELSE missed \cup {c}
    BY DEF Insert
  <1>1. updates' \subseteq Update /\ \A u \in updates' : RowOK(u)
    BY <1>0, RowParts DEF About
  <1>2. missed' \subseteq Customers /\ missed \subseteq missed'
        /\ \A d \in Customers \ {c} : d \in missed' => d \in missed
    BY <1>0 DEF RowsOK
  <1>3. RowsAbout(c)' = RowsAbout(c) \cup W
    BY <1>0 DEF RowsAbout, About
  <1>4. c \notin missed' => W = M
    BY <1>0
  <1>5. \A d \in Customers \ {c} : RowsAbout(d)' = RowsAbout(d)
    BY <1>0, ErpAssumption DEF RowsAbout, About
  <1>6. ASSUME NEW d, NEW u \in W, u.id \in Identities(d) PROVE u.old = d
    <2>1. u.id \in Ids /\ u.id # None
      BY <1>6, IdentitiesIn, ErpAssumption
    <2> QED  BY <1>0, <1>6, <2>1, IdentitiesIn DEF About
  <1> QED  BY <1>0, <1>1, <1>2, <1>3, <1>4, <1>5, <1>6

LEMMA SameIdentities ==
    ASSUME identity' = identity
    PROVE  \A c : Identities(c)' = Identities(c)
  BY DEF Identities, Exists

LEMMA ListsType ==
    ASSUME TypeInv, RowsOK
    PROVE  Creatable \subseteq Customers /\ Updatable \subseteq Ids /\ Deletable \subseteq Ids
  <1>1. Creatable \subseteq Customers
    BY RowParts DEF Creatable
  <1>2. Updatable \subseteq Ids
    <2>1. ASSUME NEW u \in updates, Identities(u.old) # {}
          PROVE  Least(Identities(u.old)) \in Ids
      <3>1. PICK S : S = Identities(u.old)
        OBVIOUS
      <3>2. S \subseteq Ids /\ S # {}
        BY <2>1, <3>1, IdentitiesIn
      <3> QED  BY <3>1, <3>2, LeastIn
    <2> QED  BY <2>1 DEF Updatable
  <1>3. Deletable \subseteq Ids
    BY RowParts DEF Deletable, RowOK
  <1> QED  BY <1>1, <1>2, <1>3

-----------------------------------------------------------------------------
(* The parts of the invariant, for steps that leave them alone *)

LEMMA CustomerSame ==
    ASSUME NEW c \in Customers, CustomerInv(c), UNCHANGED <<updates, service, missed>>,
           erp'[c] = erp[c], Identities(c)' = Identities(c)
    PROVE  CustomerInv(c)'
  <1>1. RowsAbout(c)' = RowsAbout(c)
    BY DEF RowsAbout
  <1>2. \A row : Marks(c, row)' = Marks(c, row) /\ (Waits(c, row)' <=> Waits(c, row))
    BY DEF Marks, Waits
  <1>3. Expected(c)' = Expected(c)
    BY <1>2 DEF Expected, Unseen
  <1> QED  BY <1>1, <1>3 DEF CustomerInv

LEMMA MatchSame ==
    ASSUME MatchInv, UNCHANGED <<identity, erp, updates, service, touched, missed>>
    PROVE  MatchInv'
  BY SameIdentities, CustomerSame DEF MatchInv

\* The lists depend on the table and on whose an identity is.
LEMMA ListsSame ==
    ASSUME TypeInv, TypeInv', RowsOK, UNCHANGED updates, Changed = {}
    PROVE  /\ Creatable' = Creatable /\ Updatable' = Updatable
           /\ Deletable' = Deletable
  <1>1. \A c \in Customers : Identities(c)' = Identities(c)
    BY DEF Changed
  <1>2. Creatable' = Creatable
    BY DEF Creatable
  <1>3. Updatable' = Updatable
    <2>1. ASSUME NEW u \in updates, u.old # None
          PROVE  Identities(u.old)' = Identities(u.old)
      <3>1. u.old \in Customers
        BY <2>1, RowParts
      <3> QED  BY <1>1, <3>1
    <2> DEFINE Both == {v \in updates : v.new # None /\ v.old # None /\ v.id # None}
    <2>2. {u \in Both : Identities(u.old) # {}}' = {u \in Both : Identities(u.old) # {}}
      BY <2>1
    <2>3. \A u \in Both : Least(Identities(u.old))' = Least(Identities(u.old))
      BY <2>1 DEF Least
    <2>4. Updatable = {Least(Identities(u.old)) : u \in {v \in Both : Identities(v.old) # {}}}
      BY DEF Updatable
    <2>5. Updatable' = {Least(Identities(u.old)) : u \in {v \in Both : Identities(v.old) # {}}}'
      BY DEF Updatable
    <2> QED  BY <2>2, <2>3, <2>4, <2>5
  <1>4. \A i \in Ids : Exists(i)' <=> Exists(i)
    <2>1. ASSUME NEW i \in Ids, Exists(i) PROVE Exists(i)'
      <3>1. PICK c \in Customers : i \in Identities(c)
        BY <2>1, IdentitiesIn
      <3> QED  BY <1>1, <3>1 DEF Identities
    <2>2. ASSUME NEW i \in Ids, Exists(i)' PROVE Exists(i)
      <3>1. identity'[i] \in Identity
        BY <2>2, TypeParts DEF TypeInv, TypeOK, Exists
      <3>2. PICK c \in Customers : i \in Identities(c)'
        BY <2>2, <3>1 DEF Identities, Identity
      <3> QED  BY <1>1, <3>2 DEF Identities
    <2> QED  BY <2>1, <2>2
  <1>5. Deletable' = Deletable
    <2>1. \A u \in updates : u.new = None => u.id \in Ids
      BY RowParts DEF RowOK
    <2> QED  BY <1>4, <2>1 DEF Deletable
  <1> QED  BY <1>2, <1>3, <1>5

LEMMA PageSame ==
    ASSUME TypeInv, RowsOK, PageInv, UNCHANGED <<tenants, updates, service, page>>
    PROVE  PageInv'
  <1>1. TypeInv'
    BY StutterType
  <1>2. Changed = {}
    BY SameIdentities DEF Changed, tenants
  <1> QED  BY <1>1, <1>2, ListsSame DEF PageInv, Creatable

\* While the program runs, a page that is being read is torn.
LEMMA PageRunning ==
    ASSUME PageInv, Running, UNCHANGED page
    PROVE  PageInv'
  BY DEF PageInv, Running

\* The type of the table, from its rows.
LEMMA TypeOfRows ==
    ASSUME RowsOK, updates' \subseteq Update, \A u \in updates' : RowOK(u),
           UNCHANGED <<erp, left, page>>,
           touched' \subseteq Customers, missed' \subseteq Customers,
           service'.at \in {"off", "rows", "identities", "rest"}
    PROVE  RowsOK'
  BY DEF RowsOK, RowOK

LEMMA ErpInitInv ==
    ASSUME Init, ErpInit
    PROVE  ErpInv
  <1>1. TypeInv
    BY TypeInit
  <1>2. RowsOK
    BY DEF ErpInit, RowsOK, NoPage
  <1>3. ServiceType /\ PageType
    BY DEF ErpInit, ServiceType, PageType, NoPage
  <1>4. MatchInv
    BY DEF ErpInit, MatchInv
  <1>5. PageInv
    BY DEF ErpInit, PageInv
  <1> QED  BY <1>1, <1>2, <1>3, <1>4, <1>5 DEF ErpInv, ErpType

-----------------------------------------------------------------------------
(* The program *)

LEMMA StartInv ==
    ASSUME ErpInv, Start, UNCHANGED tenants
    PROVE  ErpInv'
  <1>0. TypeInv /\ RowsOK /\ ServiceType /\ PageType /\ PageInv
    BY DEF ErpInv, ErpType
  <1>1. TypeInv' /\ identity' = identity
    BY <1>0, StutterType DEF tenants
  <1>2. /\ missed' = {} /\ UNCHANGED <<erp, left>>
        /\ service' = [at |-> "rows", erp |-> erp,
                       todo |-> {cr \in Customers \X Row : cr[2] \in erp[cr[1]]}]
        /\ (page' = page /\ page = NoPage) \/ page' = [page EXCEPT !.torn = TRUE]
        /\ \/ updates' = {} /\ touched' = {}
           \/ updates' = updates /\ touched' = InTable
    BY DEF Start, ClearedTable
  <1>3. ServiceType'
    BY <1>0, <1>2 DEF ServiceType, RowsOK
  <1>4. PageType' /\ (page' # NoPage => page'.torn) /\ page'.at = page.at
    <2>1. CASE page' = page /\ page = NoPage
      BY <2>1 DEF PageType, NoPage
    <2>2. CASE page # NoPage /\ page' = [page EXCEPT !.torn = TRUE]
      BY <1>0, <2>2 DEF PageType, NoPage
    <2> QED  BY <1>2, <2>1, <2>2 DEF Start
  <1>5. RowsOK'
    <2>1. touched' \subseteq Customers
      BY <1>2 DEF InTable
    <2>2. updates' \subseteq updates /\ service'.at = "rows"
      BY <1>2
    <2> QED  BY <1>0, <1>2, <1>4, <2>1, <2>2 DEF RowsOK
  <1>6. ASSUME NEW c \in Customers, c \notin touched' PROVE CustomerInv(c)'
    <2>1. Identities(c)' = Identities(c) /\ Identities(c) \subseteq Ids
      BY <1>0, <1>1, IdentitiesIn, SameIdentities
    <2>2. service'.at = "rows" /\ service'.erp = erp'
      BY <1>2
    <2>3. Unseen' = Ids
      BY <2>2 DEF Unseen
    <2>4. \A row \in erp'[c] : Waits(c, row)'
      BY <1>0, <1>2 DEF Waits, RowsOK
    <2>5. Expected(c)' = {}
      BY <2>1, <2>3, <2>4 DEF Expected
    <2>6. RowsAbout(c)' = {} /\ \A u \in updates' : u.id \notin Identities(c)
      BY <1>2, <1>6 DEF RowsAbout, InTable
    <2> QED  BY <2>1, <2>2, <2>5, <2>6 DEF CustomerInv
  <1>7. MatchInv'
    BY <1>6 DEF MatchInv
  <1>8. PageInv'
    BY <1>4 DEF PageInv
  <1> QED  BY <1>1, <1>3, <1>4, <1>5, <1>7, <1>8 DEF ErpInv, ErpType

LEMMA CompareRowInv ==
    ASSUME ErpInv, NEW c \in Customers, NEW row \in Row, CompareRow(c, row),
           UNCHANGED tenants
    PROVE  ErpInv'
  <1> DEFINE M == Marks(c, row)
  <1>0. TypeInv /\ RowsOK /\ ServiceType /\ PageType /\ PageInv /\ MatchInv
    BY DEF ErpInv, ErpType
  <1>1. TypeInv' /\ identity' = identity
    BY <1>0, StutterType DEF tenants
  <1>2. /\ Insert(M, c) /\ UNCHANGED <<erp, page, left, touched>>
        /\ service.at = "rows" /\ <<c, row>> \in service.todo
        /\ service' = [service EXCEPT !.todo = @ \ {<<c, row>>}]
    BY DEF CompareRow
  <1>3. /\ service' = [at |-> "rows", erp |-> service.erp,
                       todo |-> service.todo \ {<<c, row>>}]
        /\ service.erp \in [Customers -> SUBSET Row]
        /\ service.todo \subseteq Customers \X Row
    BY <1>0, <1>2 DEF ServiceType
  <1>4. ServiceType'
    <2>1. \A c1 \in Customers, r1 \in Row :
             <<c1, r1>> \in service.todo => r1 \in service.erp[c1]
      BY <1>0, <1>2 DEF ServiceType
    <2>2. service' \in [at : {"rows"}, erp : [Customers -> SUBSET Row],
                        todo : SUBSET (Customers \X Row)]
      BY <1>3
    <2>3. /\ service'.erp = service.erp
          /\ service'.todo = service.todo \ {<<c, row>>}
      BY <1>3
    <2> QED
      BY <2>1, <2>2, <2>3 DEF ServiceType
  <1>5. /\ updates' \subseteq Update /\ \A u \in updates' : RowOK(u)
        /\ missed' \subseteq Customers /\ missed \subseteq missed'
        /\ RowsAbout(c)' \subseteq RowsAbout(c) \cup M
        /\ c \notin missed' => RowsAbout(c)' = RowsAbout(c) \cup M
        /\ \A d \in Customers \ {c} : /\ RowsAbout(d)' = RowsAbout(d)
                                      /\ d \in missed' => d \in missed
        /\ \A d : \A u \in updates' \ updates : u.id \in Identities(d) => u.old = d
    <2>1. \A u \in M : About(u, c)
      BY <1>0, MarksAbout
    <2> HIDE DEF M
    <2> QED  BY <1>0, <1>1, <1>2, <2>1, TableGrows
  <1>6. RowsOK'
    <2>1. touched' \subseteq Customers /\ service'.at = "rows"
      BY <1>0, <1>2, <1>3 DEF RowsOK
    <2> HIDE DEF M
    <2> QED  BY <1>0, <1>2, <1>5, <2>1, TypeOfRows
  <1>7. PageType'
    BY <1>0, <1>2 DEF PageType
  <1>8. ASSUME NEW d \in Customers, d \notin touched PROVE CustomerInv(d)'
    <2>1. CustomerInv(d) /\ service.erp[d] = erp[d]
      BY <1>0, <1>2, <1>8 DEF MatchInv, CustomerInv
    <2>2. service'.erp[d] = erp'[d]
      BY <1>2, <1>3, <2>1
    <2>3. \A u \in updates' : u.id \in Identities(d)' => u.old = d
      <3>1. Identities(d)' = Identities(d)
        BY <1>1, SameIdentities
      <3> HIDE DEF M
      <3> QED  BY <1>5, <2>1, <3>1 DEF CustomerInv
    <2>4. /\ RowsAbout(d)' \subseteq Expected(d)'
          /\ d \notin missed' => Expected(d)' \subseteq RowsAbout(d)'
      <3>0. \A r : Marks(d, r)' = Marks(d, r)
        BY <1>1, SameIdentities DEF Marks
      <3>1. CASE d = c
        <4>1. row \in erp[c] /\ erp'[c] = erp[c] /\ Waits(c, row)
          BY <1>0, <1>2, <2>1, <3>1 DEF Waits, ServiceType
        <4>2. \A r : Waits(c, r)' <=> (Waits(c, r) /\ r # row)
          BY <1>2, <1>3 DEF Waits
        <4>3. Expected(c) = UNION {Marks(c, r) : r \in {q \in erp[c] : ~Waits(c, q)}}
          BY <4>1 DEF Expected
        <4>4. Expected(c)' = UNION {Marks(c, r) : r \in {q \in erp[c] : ~Waits(c, q)'}}
          BY <3>0, <3>1, <4>1 DEF Expected
        <4>5. {q \in erp[c] : ~Waits(c, q)'} = {q \in erp[c] : ~Waits(c, q)} \cup {row}
          BY <4>1, <4>2
        <4>6. Expected(c)' = Expected(c) \cup M
          BY <4>3, <4>4, <4>5
        <4> HIDE DEF M
        <4> QED  BY <1>5, <2>1, <3>1, <4>6 DEF CustomerInv
      <3>2. CASE d # c
        <4>1. RowsAbout(d)' = RowsAbout(d) /\ (d \in missed' => d \in missed)
              /\ missed \subseteq missed'
          BY <1>5, <3>2
        <4>2. \A r : Waits(d, r)' <=> Waits(d, r)
          BY <1>2, <1>3, <3>2 DEF Waits
        <4>3. Unseen' = Unseen
          BY <1>2, <1>3 DEF Unseen
        <4>4. Expected(d)' = Expected(d)
          BY <1>1, <1>2, <3>0, <4>2, <4>3, SameIdentities DEF Expected
        <4> QED  BY <2>1, <4>1, <4>4 DEF CustomerInv
      <3> QED  BY <3>1, <3>2
    <2> QED  BY <2>2, <2>3, <2>4 DEF CustomerInv
  <1>9. MatchInv'
    BY <1>2, <1>8 DEF MatchInv
  <1>10. PageInv'
    BY <1>0, <1>2, PageRunning DEF Running
  <1> QED  BY <1>1, <1>4, <1>6, <1>7, <1>9, <1>10 DEF ErpInv, ErpType

LEMMA ListIdentitiesInv ==
    ASSUME ErpInv, ListIdentities, UNCHANGED tenants
    PROVE  ErpInv'
  <1>0. TypeInv /\ RowsOK /\ ServiceType /\ PageType /\ PageInv /\ MatchInv
    BY DEF ErpInv, ErpType
  <1>1. TypeInv' /\ identity' = identity
    BY <1>0, StutterType DEF tenants
  <1>2. /\ UNCHANGED <<erp, updates, page, left, touched, missed>>
        /\ service.at = "rows" /\ service.todo = {}
        /\ service' = [at |-> "identities", erp |-> service.erp,
                       todo |-> {i \in Ids : Exists(i)}]
    BY DEF ListIdentities
  <1>3. ServiceType'
    BY <1>0, <1>2 DEF ServiceType
  <1>4. RowsOK'
    BY <1>0, <1>2 DEF RowsOK
  <1>5. PageType'
    BY <1>0, <1>2 DEF PageType
  <1>6. ASSUME NEW c \in Customers, c \notin touched PROVE CustomerInv(c)'
    <2>1. CustomerInv(c)
      BY <1>0, <1>6 DEF MatchInv
    <2>2. Identities(c)' = Identities(c)
      BY <1>1, SameIdentities
    <2>3. Identities(c) \ Unseen = {}
      <3>1. Unseen = Ids
        BY <1>2 DEF Unseen
      <3> QED  BY <1>0, <3>1, IdentitiesIn
    <2>4. Identities(c) \ Unseen' = {}
      <3>1. Unseen' = {i \in Ids : Exists(i)}
        BY <1>2 DEF Unseen
      <3> QED  BY <3>1 DEF Identities
    <2>5. \A row : ~Waits(c, row) /\ ~Waits(c, row)'
      BY <1>2 DEF Waits
    <2>6. \A row : Marks(c, row)' = Marks(c, row)
      BY <2>2 DEF Marks
    <2>7. Expected(c)' = Expected(c)
      BY <1>2, <2>2, <2>3, <2>4, <2>5, <2>6 DEF Expected
    <2> QED  BY <1>2, <2>1, <2>2, <2>7 DEF CustomerInv, RowsAbout
  <1>7. MatchInv'
    BY <1>2, <1>6 DEF MatchInv
  <1>8. PageInv'
    BY <1>0, <1>2, PageRunning DEF Running
  <1> QED  BY <1>1, <1>3, <1>4, <1>5, <1>7, <1>8 DEF ErpInv, ErpType

LEMMA CompareIdentityInv ==
    ASSUME ErpInv, NEW i \in Ids, CompareIdentity(i), UNCHANGED tenants
    PROVE  ErpInv'
  <1>0. TypeInv /\ RowsOK /\ ServiceType /\ PageType /\ PageInv /\ MatchInv
    BY DEF ErpInv, ErpType
  <1>1. TypeInv' /\ identity' = identity
    BY <1>0, StutterType DEF tenants
  <1>2. /\ UNCHANGED <<erp, page, left, touched>>
        /\ service.at = "identities" /\ i \in service.todo
        /\ service' = [service EXCEPT !.todo = @ \ {i}]
        /\ IF Exists(i) /\ Gone(identity[i].customer)
           THEN Insert({AsDeletable(i, identity[i].customer)}, identity[i].customer)
           ELSE UNCHANGED <<updates, missed>>
    BY DEF CompareIdentity
  <1>3. /\ service' = [at |-> "identities", erp |-> service.erp,
                       todo |-> service.todo \ {i}]
        /\ service.erp \in [Customers -> SUBSET Row] /\ service.todo \subseteq Ids
    BY <1>0, <1>2 DEF ServiceType
  <1>4. ServiceType'
    BY <1>0, <1>3 DEF ServiceType
  <1>5. ASSUME ~(Exists(i) /\ Gone(identity[i].customer)) PROVE RowsOK' /\ MatchInv'
    <2>1. updates' = updates /\ missed' = missed
      BY <1>2, <1>5
    <2>2. RowsOK'
      BY <1>0, <1>2, <1>3, <2>1 DEF RowsOK
    <2>3. ASSUME NEW c \in Customers, c \notin touched PROVE CustomerInv(c)'
      <3>1. CustomerInv(c) /\ service.erp[c] = erp[c]
        BY <1>0, <1>2, <2>3 DEF MatchInv, CustomerInv
      <3>2. Identities(c)' = Identities(c)
        BY <1>1, SameIdentities
      <3>3. erp[c] = {} => i \notin Identities(c)
        BY <1>5, <3>1 DEF Gone, Identities
      <3>4. Unseen = service.todo /\ Unseen' = service.todo \ {i}
        BY <1>2, <1>3 DEF Unseen
      <3>5. erp[c] = {} => Identities(c) \ Unseen' = Identities(c) \ Unseen
        BY <3>3, <3>4
      <3>6. \A row : ~Waits(c, row) /\ ~Waits(c, row)'
        BY <1>2, <1>3 DEF Waits
      <3>7. \A row : Marks(c, row)' = Marks(c, row)
        BY <3>2 DEF Marks
      <3>8. Expected(c)' = Expected(c)
        BY <1>2, <3>2, <3>5, <3>6, <3>7 DEF Expected
      <3>9. service'.erp[c] = erp'[c]
        BY <1>2, <1>3, <3>1
      <3> QED  BY <2>1, <3>1, <3>2, <3>8, <3>9 DEF CustomerInv, RowsAbout
    <2> QED  BY <1>2, <2>2, <2>3 DEF MatchInv
  <1>6. ASSUME Exists(i), Gone(identity[i].customer) PROVE RowsOK' /\ MatchInv'
    <2>1. PICK d \in Customers : d = identity[i].customer /\ i \in Identities(d)
      BY <1>0, <1>6, IdentitiesIn
    <2> DEFINE M == {AsDeletable(i, d)}
    <2>1a. Insert(M, d) /\ Gone(d)
      BY <1>2, <1>6, <2>1
    <2>2. /\ updates' \subseteq Update /\ \A u \in updates' : RowOK(u)
          /\ missed' \subseteq Customers /\ missed \subseteq missed'
          /\ RowsAbout(d)' \subseteq RowsAbout(d) \cup M
          /\ d \notin missed' => RowsAbout(d)' = RowsAbout(d) \cup M
          /\ \A c \in Customers \ {d} : /\ RowsAbout(c)' = RowsAbout(c)
                                        /\ c \in missed' => c \in missed
          /\ \A c : \A u \in updates' \ updates : u.id \in Identities(c) => u.old = c
      <3>1. \A u \in M : About(u, d)
        BY <1>0, <2>1, RowKinds
      <3> HIDE DEF M
      <3> QED  BY <1>0, <1>1, <2>1a, <3>1, TableGrows
    <2>3. RowsOK'
      <3>1. touched' \subseteq Customers /\ service'.at = "identities"
        BY <1>0, <1>2, <1>3 DEF RowsOK
      <3> HIDE DEF M
      <3> QED  BY <1>0, <1>2, <2>2, <3>1, TypeOfRows
    <2>4. ASSUME NEW c \in Customers, c \notin touched PROVE CustomerInv(c)'
      <3>1. CustomerInv(c) /\ service.erp[c] = erp[c]
        BY <1>0, <1>2, <2>4 DEF MatchInv, CustomerInv
      <3>2. Identities(c)' = Identities(c)
        BY <1>1, SameIdentities
      <3>3. Unseen = service.todo /\ Unseen' = service.todo \ {i}
        BY <1>2, <1>3 DEF Unseen
      <3>4. \A row : ~Waits(c, row) /\ ~Waits(c, row)'
        BY <1>2, <1>3 DEF Waits
      <3>5. \A u \in updates' : u.id \in Identities(c)' => u.old = c
        <4> HIDE DEF M
        <4> QED  BY <2>2, <3>1, <3>2 DEF CustomerInv
      <3>6. /\ RowsAbout(c)' \subseteq Expected(c)'
            /\ c \notin missed' => Expected(c)' \subseteq RowsAbout(c)'
        <4>1. CASE c = d
          <5>1. erp[c] = {} /\ erp' = erp
            BY <1>2, <2>1a, <3>1, <4>1 DEF Gone
          <5>2. Expected(c) = {AsDeletable(j, c) : j \in Identities(c) \ service.todo}
            BY <3>3, <5>1 DEF Expected
          <5>3. Expected(c)' = {AsDeletable(j, c) : j \in Identities(c) \ (service.todo \ {i})}
            BY <3>2, <3>3, <5>1 DEF Expected, AsDeletable
          <5>4. Expected(c)' = Expected(c) \cup M
            BY <1>2, <2>1, <4>1, <5>2, <5>3
          <5> HIDE DEF M
          <5> QED  BY <2>2, <3>1, <4>1, <5>4 DEF CustomerInv
        <4>2. CASE c # d
          <5>1. RowsAbout(c)' = RowsAbout(c) /\ (c \in missed' => c \in missed)
                /\ missed \subseteq missed'
            BY <2>2, <4>2
          <5>2. i \notin Identities(c)
            BY <1>0, <2>1, <4>2, IdentitiesIn
          <5>3. Identities(c) \ Unseen' = Identities(c) \ Unseen
            BY <3>3, <5>2
          <5>4. \A row : Marks(c, row)' = Marks(c, row)
            BY <3>2 DEF Marks
          <5>5. Expected(c)' = Expected(c)
            BY <1>2, <3>2, <3>4, <5>3, <5>4 DEF Expected
          <5> QED  BY <3>1, <5>1, <5>5 DEF CustomerInv
        <4> QED  BY <4>1, <4>2
      <3>7. service'.erp[c] = erp'[c]
        BY <1>2, <1>3, <3>1
      <3> QED  BY <3>5, <3>6, <3>7 DEF CustomerInv
    <2> QED  BY <1>2, <2>3, <2>4 DEF MatchInv
  <1>7. PageType'
    BY <1>0, <1>2 DEF PageType
  <1>8. PageInv'
    BY <1>0, <1>2, PageRunning DEF Running
  <1>9. RowsOK' /\ MatchInv'
    BY <1>5, <1>6
  <1> QED  BY <1>1, <1>4, <1>7, <1>8, <1>9 DEF ErpInv, ErpType

LEMMA FinishInv ==
    ASSUME ErpInv, Finish, UNCHANGED tenants
    PROVE  ErpInv'
  <1>0. TypeInv /\ RowsOK /\ ServiceType /\ PageType /\ PageInv /\ MatchInv
    BY DEF ErpInv, ErpType
  <1>1. TypeInv' /\ identity' = identity
    BY <1>0, StutterType DEF tenants
  <1>2. /\ UNCHANGED <<erp, updates, page, left, missed>> /\ service' = [at |-> "off"]
        /\ service.at # "off"
        /\ touched' = IF service.at = "identities" /\ service.todo = {}
                      THEN touched ELSE Customers
    BY DEF Finish
  <1>3. ServiceType' /\ PageType'
    BY <1>0, <1>2 DEF ServiceType, PageType
  <1>4. RowsOK'
    BY <1>0, <1>2 DEF RowsOK
  <1>5. ASSUME NEW c \in Customers, c \notin touched' PROVE CustomerInv(c)'
    <2>1. service.at = "identities" /\ service.todo = {} /\ c \notin touched
      BY <1>2, <1>5
    <2>2. CustomerInv(c)
      BY <1>0, <2>1 DEF MatchInv
    <2>3. Unseen = {} /\ Unseen' = {}
      BY <1>2, <2>1 DEF Unseen
    <2>4. \A row : ~Waits(c, row) /\ ~Waits(c, row)' /\ Marks(c, row)' = Marks(c, row)
      BY <1>1, <1>2, <2>1, SameIdentities DEF Waits, Marks
    <2>5. Identities(c)' = Identities(c)
      BY <1>1, SameIdentities
    <2>6. Expected(c)' = Expected(c)
      BY <1>2, <2>3, <2>4, <2>5 DEF Expected
    <2> QED  BY <1>2, <2>2, <2>5, <2>6 DEF CustomerInv, RowsAbout
  <1>6. MatchInv'
    BY <1>5 DEF MatchInv
  <1>7. PageInv'
    BY <1>0, <1>2, PageRunning DEF Running
  <1> QED  BY <1>1, <1>3, <1>4, <1>6, <1>7 DEF ErpInv, ErpType

LEMMA ServiceInv ==
    ASSUME ErpInv, Service, UNCHANGED tenants
    PROVE  ErpInv'
  BY StartInv, CompareRowInv, ListIdentitiesInv, CompareIdentityInv, FinishInv
     DEF Service

-----------------------------------------------------------------------------
(* The page, the ERP, and the operations of Tenants *)

\* A call of the page changes the page and the session that was left open.
LEMMA CallInv ==
    ASSUME ErpInv, UNCHANGED <<tenants, erp, updates, service, touched, missed>>,
           PageType', PageInv',
           left' \in {Closed} \cup [open : {TRUE}, creatable : SUBSET Customers]
    PROVE  ErpInv'
  <1>0. TypeInv /\ RowsOK /\ ServiceType /\ MatchInv
    BY DEF ErpInv, ErpType
  <1>1. TypeInv' /\ identity' = identity
    BY <1>0, StutterType DEF tenants
  <1>2. ServiceType'
    BY <1>0 DEF ServiceType
  <1>3. page'.at \in {"away", "first", "second", "shown"}
    BY DEF PageType, NoPage
  <1>4. RowsOK'
    BY <1>0, <1>3 DEF RowsOK
  <1>5. MatchInv'
    BY <1>0, <1>1, MatchSame
  <1> QED  BY <1>1, <1>2, <1>4, <1>5 DEF ErpInv, ErpType

LEMMA SameLists ==
    ASSUME TypeInv, RowsOK, UNCHANGED <<tenants, updates>>
    PROVE  /\ Creatable' = Creatable /\ Updatable' = Updatable
           /\ Deletable' = Deletable
  <1>1. TypeInv'
    BY StutterType
  <1>2. Changed = {}
    BY SameIdentities DEF Changed, tenants
  <1> QED  BY <1>1, <1>2, ListsSame

LEMMA PagesInv ==
    ASSUME ErpInv, Page, UNCHANGED tenants
    PROVE  ErpInv'
  <1>0. TypeInv /\ RowsOK /\ PageType /\ PageInv
    BY DEF ErpInv, ErpType
  <1>1. Creatable \subseteq Customers /\ Updatable \subseteq Ids /\ Deletable \subseteq Ids
    BY <1>0, ListsType
  <1>2. CASE Dashboard
    <2>1. left' = [open |-> TRUE, creatable |-> Creatable]
          /\ UNCHANGED <<erp, updates, service, page, touched, missed>>
      BY <1>2 DEF Dashboard
    <2>2. PageType'
      BY <1>0, <2>1 DEF PageType
    <2>3. PageInv'
      BY <1>0, <2>1, PageSame
    <2> QED  BY <1>1, <2>1, <2>2, <2>3, CallInv
  <1>3. CASE ReadCreatable
    <2> DEFINE seen == IF left.open THEN left.creatable ELSE Creatable
    <2>1. /\ page' = [at |-> "first", creatable |-> seen,
                      torn |-> Running \/ seen # Creatable]
          /\ left' = Closed /\ UNCHANGED <<erp, updates, service, touched, missed>>
      BY <1>3 DEF ReadCreatable
    <2>2. seen \subseteq Customers
      <3>1. left \in {Closed} \cup [open : {TRUE}, creatable : SUBSET Customers]
        BY <1>0 DEF RowsOK
      <3>2. CASE left = Closed
        BY <1>1, <3>2 DEF Closed
      <3>3. CASE left \in [open : {TRUE}, creatable : SUBSET Customers]
        BY <1>1, <3>3
      <3> QED  BY <3>1, <3>2, <3>3
    <2>3. Creatable' = Creatable
      BY <1>0, <2>1, SameLists
    <2> HIDE DEF seen
    <2>4. PageType'
      BY <2>1, <2>2 DEF PageType
    <2>5. PageInv'
      BY <2>1, <2>3 DEF PageInv, Running
    <2> QED  BY <2>1, <2>4, <2>5, CallInv
  <1>4. CASE ReadUpdatable
    <2>1. /\ page' = [at |-> "second", creatable |-> page.creatable,
                      updatable |-> Updatable, torn |-> page.torn]
          /\ left' = Closed /\ UNCHANGED <<erp, updates, service, touched, missed>>
          /\ page.at = "first"
      BY <1>4 DEF ReadUpdatable
    <2>2. page.creatable \subseteq Customers /\ page.torn \in BOOLEAN /\ page # NoPage
      BY <1>0, <2>1 DEF PageType, NoPage
    <2>3. Creatable' = Creatable /\ Updatable' = Updatable
      BY <1>0, <2>1, SameLists
    <2>4. PageType'
      BY <1>1, <2>1, <2>2 DEF PageType
    <2>5. PageInv'
      BY <1>0, <2>1, <2>2, <2>3 DEF PageInv
    <2> QED  BY <2>1, <2>4, <2>5, CallInv
  <1>5. CASE ReadDeletable
    <2>1. /\ page' = [at |-> "shown", creatable |-> page.creatable,
                      updatable |-> page.updatable, deletable |-> Deletable,
                      torn |-> page.torn]
          /\ left' = Closed /\ UNCHANGED <<erp, updates, service, touched, missed>>
          /\ page.at = "second"
      BY <1>5 DEF ReadDeletable
    <2>2. /\ page.creatable \subseteq Customers /\ page.updatable \subseteq Ids
          /\ page.torn \in BOOLEAN /\ page # NoPage
      BY <1>0, <2>1 DEF PageType, NoPage
    <2>3. Creatable' = Creatable /\ Updatable' = Updatable /\ Deletable' = Deletable
      BY <1>0, <2>1, SameLists
    <2>4. PageType'
      BY <1>1, <2>1, <2>2 DEF PageType
    <2>5. PageInv'
      BY <1>0, <2>1, <2>2, <2>3 DEF PageInv
    <2> QED  BY <2>1, <2>4, <2>5, CallInv
  <1>6. CASE LeavePage
    <2>1. page' = NoPage /\ UNCHANGED <<erp, updates, service, left, touched, missed>>
      BY <1>6 DEF LeavePage
    <2>2. PageType' /\ PageInv'
      BY <2>1 DEF PageType, PageInv
    <2> QED  BY <1>0, <2>1, <2>2, CallInv DEF RowsOK
  <1> QED  BY <1>2, <1>3, <1>4, <1>5, <1>6 DEF Page

LEMMA ErpChangeInv ==
    ASSUME ErpInv, NEW c \in Customers, ErpChange(c), UNCHANGED tenants
    PROVE  ErpInv'
  <1>0. TypeInv /\ RowsOK /\ ServiceType /\ PageType /\ PageInv /\ MatchInv
    BY DEF ErpInv, ErpType
  <1>1. TypeInv' /\ identity' = identity
    BY <1>0, StutterType DEF tenants
  <1>2. /\ touched' = touched \cup {c}
        /\ UNCHANGED <<updates, service, page, left, missed>>
        /\ \E rows \in SUBSET Row : erp' = [erp EXCEPT ![c] = rows]
    BY DEF ErpChange
  <1>3. erp' \in [Customers -> SUBSET Row] /\ \A d \in Customers \ {c} : erp'[d] = erp[d]
    BY <1>0, <1>2 DEF RowsOK
  <1>4. RowsOK'
    BY <1>0, <1>2, <1>3 DEF RowsOK
  <1>5. ServiceType' /\ PageType'
    BY <1>0, <1>2 DEF ServiceType, PageType
  <1>6. MatchInv'
    <2>1. ASSUME NEW d \in Customers \ touched' PROVE CustomerInv(d)'
      <3>1. d \in Customers \ touched /\ d # c
        BY <1>2, <2>1
      <3> QED  BY <1>0, <1>1, <1>2, <1>3, <3>1, SameIdentities, CustomerSame
               DEF MatchInv
    <2> QED  BY <2>1 DEF MatchInv
  <1>7. PageInv'
    BY <1>0, <1>2, PageSame
  <1> QED  BY <1>1, <1>4, <1>5, <1>6, <1>7 DEF ErpInv, ErpType

LEMMA TenantsStepInv ==
    ASSUME ErpInv, TenantsStep
    PROVE  ErpInv'
  <1>0. TypeInv /\ RowsOK /\ ServiceType /\ PageType /\ PageInv /\ MatchInv
    BY DEF ErpInv, ErpType
  <1>1. TypeInv'
    <2>1. UNCHANGED <<alone, stuck>> => ServerInv'
      BY <1>0, TypeParts DEF ServerInv
    <2> QED  BY <1>0, <2>1, MaintenanceType, PeopleType, PagesType, RestartType, JamType
             DEF TenantsStep
  <1>2. /\ touched' = touched \cup Changed /\ UNCHANGED <<erp, updates, service, missed>>
        /\ left' = left \/ left' = Closed
        /\ page' = IF Changed = {} \/ page = NoPage THEN page
                   ELSE [page EXCEPT !.torn = TRUE]
    BY DEF TenantsStep
  <1>3. PageType' /\ page'.at = page.at
    <2>1. CASE Changed = {} \/ page = NoPage
      BY <1>0, <1>2, <2>1 DEF PageType
    <2>2. CASE ~(Changed = {} \/ page = NoPage)
      <3>1. page' = [page EXCEPT !.torn = TRUE] /\ page # NoPage
        BY <1>2, <2>2
      <3> QED  BY <1>0, <3>1 DEF PageType, NoPage
    <2> QED  BY <2>1, <2>2
  <1>4. ServiceType'
    BY <1>0, <1>2 DEF ServiceType
  <1>5. RowsOK'
    <2>1. Changed \subseteq Customers
      BY DEF Changed
    <2> QED  BY <1>0, <1>2, <1>3, <2>1 DEF RowsOK
  <1>6. MatchInv'
    <2>1. ASSUME NEW c \in Customers \ touched' PROVE CustomerInv(c)'
      <3>1. c \in Customers \ touched /\ Identities(c)' = Identities(c)
        BY <1>2, <2>1 DEF Changed
      <3> QED  BY <1>0, <1>2, <3>1, CustomerSame DEF MatchInv
    <2> QED  BY <2>1 DEF MatchInv
  <1>7. PageInv'
    <2>1. CASE page = NoPage
      BY <1>2, <2>1 DEF PageInv
    <2>2. CASE Changed = {}
      <3>1. page' = page
        BY <1>2, <2>2
      <3> QED  BY <1>0, <1>1, <1>2, <2>2, <3>1, ListsSame DEF PageInv
    <2>3. CASE Changed # {} /\ page # NoPage
      <3>1. page' = [page EXCEPT !.torn = TRUE]
        BY <1>2, <2>3
      <3>2. page'.torn
        BY <1>0, <2>3, <3>1 DEF PageType
      <3> QED  BY <3>2 DEF PageInv
    <2> QED  BY <2>1, <2>2, <2>3
  <1> QED  BY <1>1, <1>3, <1>4, <1>5, <1>6, <1>7 DEF ErpInv, ErpType

LEMMA ErpStutterInv ==
    ASSUME ErpInv, UNCHANGED <<tenants, erpVars>>
    PROVE  ErpInv'
  <1>0. TypeInv /\ RowsOK /\ PageType /\ PageInv
    BY DEF ErpInv, ErpType
  <1>1. UNCHANGED <<erp, updates, service, page, left, touched, missed>>
    BY DEF erpVars
  <1>2. PageType' /\ PageInv'
    BY <1>0, <1>1, PageSame DEF PageType
  <1> QED  BY <1>0, <1>1, <1>2, CallInv DEF RowsOK

LEMMA ErpInvariant == ErpSpec => []ErpInv
  <1>1. Init /\ ErpInit => ErpInv
    BY ErpInitInv
  <1>2. ErpInv /\ [ErpNext]_<<tenants, erpVars>> => ErpInv'
    BY TenantsStepInv, ServiceInv, PagesInv, ErpChangeInv, ErpStutterInv DEF ErpNext
  <1> QED  BY <1>1, <1>2, PTL DEF ErpSpec

-----------------------------------------------------------------------------
(* The theorems *)

\* The readers of the table can tell what each of its rows is: someone new, or
\* an identity that stays or goes (integration_service.py and the three calls).
THEOREM RowsTold == ErpSpec => []RowsOK
  <1>1. ErpInv => RowsOK
    BY DEF ErpInv, ErpType
  <1> QED  BY <1>1, ErpInvariant, PTL

\* When the program does not run: what the ERP's rows leave in the table if no
\* insert fails, and what they ask for.
LEMMA ExpectedRows ==
    ASSUME ErpInv, service.at = "off", NEW c \in Customers
    PROVE  /\ \A u \in Expected(c) : About(u, c)
           /\ AsCreatable(c) \in Expected(c) <=> ToCreate(c) = {c}
           /\ \A i \in Identities(c) :
                 /\ AsUpdatable(i, c) \in Expected(c) <=> i \in ToUpdate(c)
                 /\ AsDeletable(i, c) \in Expected(c) <=> i \in ToDelete(c)
  <1>0. TypeInv /\ erp[c] \in SUBSET Row /\ c # None
    BY ErpAssumption DEF ErpInv, ErpType, RowsOK
  <1>1. \A i \in Identities(c) : i \in Ids /\ i # None
    BY <1>0, IdentitiesIn, ErpAssumption
  <1>2. \A i, j : /\ AsUpdatable(i, c) = AsUpdatable(j, c) => i = j
                  /\ AsDeletable(i, c) = AsDeletable(j, c) => i = j
                  /\ AsUpdatable(i, c) # AsDeletable(j, c)
                  /\ i # None => /\ AsUpdatable(i, c) # AsCreatable(c)
                                 /\ AsDeletable(i, c) # AsCreatable(c)
    BY <1>0 DEF AsUpdatable, AsDeletable, AsCreatable
  <1>3. CASE erp[c] = {}
    <2>1. Expected(c) = {AsDeletable(i, c) : i \in Identities(c)}
      BY <1>3 DEF Expected, Unseen
    <2>2. \A u \in Expected(c) : About(u, c)
      BY <1>0, <2>1, RowKinds
    <2>3. ToCreate(c) = {} /\ ToUpdate(c) = {} /\ ToDelete(c) = Identities(c)
      BY <1>3 DEF ToCreate, ToUpdate, ToDelete
    <2> QED  BY <1>1, <1>2, <2>1, <2>2, <2>3
  <1>4. CASE erp[c] # {}
    <2>1. Expected(c) = UNION {Marks(c, row) : row \in erp[c]}
      BY <1>4 DEF Expected, Waits
    <2>2. \A u \in Expected(c) : About(u, c)
      BY <1>0, <2>1, MarksAbout
    <2>3. CASE Identities(c) = {}
      <3>1. \A row \in erp[c] : Marks(c, row) = IF row = "relevant" THEN {AsCreatable(c)} ELSE {}
        BY <2>3 DEF Marks
      <3>2. AsCreatable(c) \in Expected(c) <=> "relevant" \in erp[c]
        BY <2>1, <3>1
      <3>3. ToCreate(c) = {c} <=> "relevant" \in erp[c]
        BY <2>3 DEF ToCreate
      <3> QED  BY <2>2, <2>3, <3>2, <3>3
    <2>4. CASE Identities(c) # {}
      <3>1. \A row \in erp[c] :
               Marks(c, row) = {IF row = "elsewhere" THEN AsDeletable(i, c)
                                ELSE AsUpdatable(i, c) : i \in Identities(c)}
        BY <2>4 DEF Marks
      <3>2. AsCreatable(c) \notin Expected(c)
        BY <1>1, <1>2, <2>1, <3>1
      <3>3. ToCreate(c) = {}
        BY <2>4 DEF ToCreate
      <3>4. ASSUME NEW i \in Identities(c)
            PROVE  /\ AsDeletable(i, c) \in Expected(c) <=> "elsewhere" \in erp[c]
                   /\ AsUpdatable(i, c) \in Expected(c) <=> erp[c] \ {"elsewhere"} # {}
        <4>1. \A row \in erp[c] : AsDeletable(i, c) \in Marks(c, row) <=> row = "elsewhere"
          BY <1>2, <3>1
        <4>2. \A row \in erp[c] : AsUpdatable(i, c) \in Marks(c, row) <=> row # "elsewhere"
          BY <1>2, <3>1
        <4> QED  BY <2>1, <4>1, <4>2
      <3>5. /\ ToDelete(c) = IF "elsewhere" \in erp[c] THEN Identities(c) ELSE {}
            /\ ToUpdate(c) = IF erp[c] \ {"elsewhere"} # {} THEN Identities(c) ELSE {}
        BY <1>0, <1>4 DEF ToDelete, ToUpdate, Row
      <3> QED  BY <2>2, <3>2, <3>3, <3>4, <3>5
    <2> QED  BY <2>3, <2>4
  <1> QED  BY <1>3, <1>4

\* A row about a customer is one of the three kinds.
LEMMA KindOfRow ==
    ASSUME NEW c \in Customers, NEW u, About(u, c)
    PROVE  /\ u.id = None => u = AsCreatable(c)
           /\ u.id # None /\ u.new = None => u = AsDeletable(u.id, c)
           /\ u.id # None /\ u.new # None => u = AsUpdatable(u.id, c)
  <1>1. u \in [id : Ids \cup {None}, new : Customers \cup {None},
               old : Customers \cup {None}]
    BY DEF About, Update
  <1>2. c # None
    BY ErpAssumption
  <1> QED  BY <1>1, <1>2 DEF About, RowOK, AsCreatable, AsDeletable, AsUpdatable

\* The readers' lists, from the rows about a customer.
LEMMA ListsOfRows ==
    ASSUME ErpInv, service.at = "off", NEW c \in Customers \ touched
    PROVE  /\ c \in Creatable <=> AsCreatable(c) \in RowsAbout(c)
           /\ Updated(c) = {i \in Identities(c) : AsUpdatable(i, c) \in RowsAbout(c)}
           /\ \A i \in Identities(c) :
                 i \in Deletable <=> AsDeletable(i, c) \in RowsAbout(c)
  <1>0. TypeInv /\ RowsOK /\ CustomerInv(c) /\ c # None
    BY ErpAssumption DEF ErpInv, ErpType, MatchInv
  <1>1. \A u \in RowsAbout(c) : u \in updates /\ About(u, c)
    BY <1>0, ExpectedRows DEF RowsAbout, CustomerInv
  <1>2. \A u \in updates : u.new = c \/ u.id \in Identities(c) => u \in RowsAbout(c)
    BY <1>0 DEF RowsAbout, CustomerInv
  <1>3. c \in Creatable <=> AsCreatable(c) \in RowsAbout(c)
    <2>1. ASSUME c \in Creatable PROVE AsCreatable(c) \in RowsAbout(c)
      <3>1. PICK u \in updates : u.new = c /\ u.id = None
        BY <2>1 DEF Creatable
      <3> QED  BY <1>1, <1>2, <3>1, KindOfRow
    <2>2. ASSUME AsCreatable(c) \in RowsAbout(c) PROVE c \in Creatable
      BY <1>0, <1>1, <2>2 DEF Creatable, AsCreatable
    <2> QED  BY <2>1, <2>2
  <1>4. \A i \in Identities(c) : i \in Ids /\ i # None /\ Exists(i)
    BY <1>0, IdentitiesIn, ErpAssumption DEF Identities
  <1>5. ASSUME NEW i PROVE i \in Updated(c) <=>
                              (i \in Identities(c) /\ AsUpdatable(i, c) \in RowsAbout(c))
    <2>1. ASSUME i \in Updated(c)
          PROVE  i \in Identities(c) /\ AsUpdatable(i, c) \in RowsAbout(c)
      <3>1. PICK u \in updates : u.new = c /\ u.id # None /\ i = u.id
        BY <2>1 DEF Updated
      <3>2. u \in RowsAbout(c) /\ About(u, c) /\ u.new # None
        BY <1>0, <1>1, <1>2, <3>1
      <3> QED  BY <3>1, <3>2, KindOfRow DEF About
    <2>2. ASSUME i \in Identities(c), AsUpdatable(i, c) \in RowsAbout(c)
          PROVE  i \in Updated(c)
      <3>1. AsUpdatable(i, c).new = c /\ AsUpdatable(i, c).id = i
        BY DEF AsUpdatable
      <3> QED  BY <1>1, <1>4, <2>2, <3>1 DEF Updated
    <2> QED  BY <2>1, <2>2
  <1>6. ASSUME NEW i \in Identities(c)
        PROVE  i \in Deletable <=> AsDeletable(i, c) \in RowsAbout(c)
    <2>1. ASSUME i \in Deletable PROVE AsDeletable(i, c) \in RowsAbout(c)
      <3>1. PICK u \in updates : u.new = None /\ u.id = i
        BY <2>1 DEF Deletable
      <3> QED  BY <1>1, <1>2, <1>4, <3>1, KindOfRow
    <2>2. ASSUME AsDeletable(i, c) \in RowsAbout(c) PROVE i \in Deletable
      <3>1. AsDeletable(i, c).new = None /\ AsDeletable(i, c).id = i
        BY DEF AsDeletable
      <3> QED  BY <1>1, <1>4, <2>2, <3>1 DEF Deletable
    <2> QED  BY <2>1, <2>2
  <1> QED  BY <1>3, <1>5, <1>6

\* When the program has ended by itself, the table says nothing wrong of a
\* customer of whom nothing has changed and whom the rows of a failed clearing
\* are not about, and all of it if no insert of theirs failed: the two passes,
\* over the ERP's rows and over the identities, overlook nobody.
THEOREM TableMatchesErp == ErpSpec => []UpdatesMatchErp
  <1>1. ErpInv => UpdatesMatchErp
    <2> SUFFICES ASSUME ErpInv, service.at = "off", NEW c \in Customers \ touched
                 PROVE  /\ {c} \cap Creatable \subseteq ToCreate(c)
                        /\ Updated(c) \subseteq ToUpdate(c)
                        /\ Identities(c) \cap Deletable \subseteq ToDelete(c)
                        /\ c \notin missed => /\ ToCreate(c) \subseteq Creatable
                                              /\ ToUpdate(c) \subseteq Updated(c)
                                              /\ ToDelete(c) \subseteq Deletable
      BY DEF UpdatesMatchErp
    <2>1. /\ RowsAbout(c) \subseteq Expected(c)
          /\ c \notin missed => Expected(c) \subseteq RowsAbout(c)
      BY DEF ErpInv, MatchInv, CustomerInv
    <2>2. /\ ToCreate(c) \in {{}, {c}}
          /\ ToUpdate(c) \subseteq Identities(c) /\ ToDelete(c) \subseteq Identities(c)
      BY DEF ToCreate, ToUpdate, ToDelete
    <2> QED  BY <2>1, <2>2, ExpectedRows, ListsOfRows
  <1> QED  BY <1>1, ErpInvariant, PTL

\* The page of the administrator, read by three calls, shows nobody both as new
\* and as known, and nobody in two lists of which the ERP asks for one, even
\* when inserts of the program have failed.
THEOREM NobodyTwice == ErpSpec => []ShownOnce
  <1>1. ErpInv => ShownOnce
    <2> SUFFICES ASSUME ErpInv, page.at = "shown", ~page.torn,
                        NEW c \in Customers \ touched
                 PROVE  /\ c \in page.creatable =>
                              Identities(c) \cap (page.updatable \cup page.deletable) = {}
                        /\ \/ Contradicts(erp[c])
                           \/ Identities(c) \cap page.updatable \cap page.deletable = {}
      BY DEF ShownOnce
    <2>0. TypeInv /\ RowsOK /\ CustomerInv(c)
      BY DEF ErpInv, ErpType, MatchInv
    <2>1. /\ page.creatable = Creatable /\ page.updatable = Updatable
          /\ page.deletable = Deletable /\ service.at = "off"
      BY DEF ErpInv, PageInv, NoPage
    <2>2. c \in Creatable => Identities(c) = {}
      <3>1. c \in Creatable => ToCreate(c) = {c}
        BY <2>0, <2>1, ExpectedRows, ListsOfRows DEF CustomerInv
      <3> QED  BY <3>1 DEF ToCreate
    <2>3. ASSUME NEW i \in Identities(c), i \in Updatable, i \in Deletable
          PROVE  Contradicts(erp[c])
      <3>1. PICK u \in updates : /\ u.new # None /\ u.old # None /\ u.id # None
                                 /\ Identities(u.old) # {}
                                 /\ i = Least(Identities(u.old))
        BY <2>3 DEF Updatable
      <3>2. PICK S : S = Identities(u.old)
        OBVIOUS
      <3>3. i \in Identities(u.old)
        <4>1. S \subseteq Ids /\ S # {}
          BY <2>0, <3>1, <3>2, IdentitiesIn
        <4> QED  BY <3>1, <3>2, <4>1, LeastIn
      <3>4. u.old = c /\ u.new = c
        BY <2>0, <3>1, <3>3, IdentitiesIn, RowParts DEF RowOK
      <3>5. u.id \in Updated(c)
        BY <3>1, <3>4 DEF Updated
      <3>6. PICK j \in Identities(c) : AsUpdatable(j, c) \in Expected(c)
        BY <2>0, <2>1, <3>5, ListsOfRows DEF CustomerInv
      <3>7. AsDeletable(i, c) \in Expected(c)
        BY <2>0, <2>1, <2>3, ListsOfRows DEF CustomerInv
      <3>8. j \in ToUpdate(c) /\ i \in ToDelete(c)
        BY <2>1, <3>6, <3>7, ExpectedRows
      <3> QED  BY <3>8 DEF ToUpdate, ToDelete, Contradicts
    <2> QED  BY <2>1, <2>2, <2>3
  <1> QED  BY <1>1, ErpInvariant, PTL
=============================================================================
