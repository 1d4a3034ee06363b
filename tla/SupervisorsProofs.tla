-------------------------- MODULE SupervisorsProofs --------------------------
(***************************************************************************)
(* Proofs about Supervisors, for any number of names, browsers and         *)
(* accounts: its types, and that the application keeps an account and an   *)
(* administrator as long as no two deletions overlap.                      *)
(***************************************************************************)
EXTENDS Supervisors, FiniteSetTheorems, TLAPS

-----------------------------------------------------------------------------
(* Types *)

\* A new row keeps numbers and names unique: its number is a new one.
LEMMA InsertType ==
    ASSUME TypeOK, created < MaxAccounts,
           NEW name \in Names, NEW role \in Roles, Insert(name, role)
    PROVE  /\ accounts' \subseteq Account
           /\ \A a, b \in accounts' : a.id = b.id \/ a.name = b.name => a = b
           /\ created' \in 0..MaxAccounts
           /\ \A a \in accounts' : a.id <= created'
  <1>1. CASE UNCHANGED <<accounts, created>>
    BY <1>1 DEF TypeOK
  <1>2. CASE /\ \A a \in accounts : a.name # name
             /\ Duplicate(name, role)
    <2> DEFINE new == [id |-> created + 1, name |-> name, role |-> role]
    <2>1. accounts' = accounts \cup {new} /\ created' = created + 1
      BY <1>2 DEF Duplicate
    <2>2. created + 1 \in 1..MaxAccounts
      BY SupervisorAssumption DEF TypeOK
    <2>3. new \in Account
      BY <2>2 DEF Account
    <2>4. \A a \in accounts : a.id \in Int /\ a.id # new.id /\ a.name # new.name
      BY <1>2 DEF TypeOK, Account
    <2>5. \A a \in accounts : a.id <= created + 1
      BY DEF TypeOK, Account
    <2> QED  BY <2>1, <2>2, <2>3, <2>4, <2>5 DEF TypeOK
  <1> QED  BY <1>1, <1>2 DEF Insert

\* Type correctness of the accounts, the sessions and the requests.
THEOREM TypeCorrect == Spec => []TypeOK
  <1>1. Init => TypeOK
    <2>1. 0 \in 0..MaxAccounts
      BY SupervisorAssumption
    <2>2. NoRequest \in Request
      BY DEF NoRequest, Request
    <2> QED  BY <2>1, <2>2 DEF Init, TypeOK
  <1>2. TypeOK /\ [Next]_vars => TypeOK'
    <2> SUFFICES ASSUME TypeOK, [Next]_vars PROVE TypeOK'
      OBVIOUS
    <2>0. NoRequest \in Request
      BY DEF NoRequest, Request
    <2>1. CASE Startup
      <3>1. CASE accounts = {} /\ created < MaxAccounts /\ Insert(InitialName, "Admin")
        <4>1. InitialName \in Names /\ "Admin" \in Roles
          BY SupervisorAssumption DEF Roles
        <4> QED  BY <2>1, <3>1, <4>1, InsertType DEF Startup, TypeOK
      <3>2. CASE UNCHANGED <<accounts, created>>
        BY <2>1, <3>2 DEF Startup, TypeOK
      <3> QED  BY <2>1, <3>1, <3>2 DEF Startup
    <2>2. CASE Stop
      BY <2>0, <2>2 DEF Stop, TypeOK
    <2>3. ASSUME NEW b \in Browsers, NEW a \in accounts, Login(b, a)
          PROVE  TypeOK'
      BY <2>3 DEF Login, TypeOK, Account
    <2>4. ASSUME NEW b \in Browsers, NEW a \in accounts, AskDelete(b, a)
          PROVE  TypeOK'
      <3>1. [op |-> "delete", id |-> a.id] \in Request
        BY DEF TypeOK, Account, Request
      <3> QED  BY <2>4, <3>1 DEF AskDelete, TypeOK
    <2>5. ASSUME NEW b \in Browsers, Logout(b)
          PROVE  TypeOK'
      BY <2>5, SupervisorAssumption DEF Logout, TypeOK
    <2>6. ASSUME NEW b \in Browsers, NEW name \in Names, NEW role \in Roles,
                 AskCreate(b, name, role)
          PROVE  TypeOK'
      <3>1. [op |-> "create", name |-> name, role |-> role] \in Request
        BY DEF Request
      <3> QED  BY <2>6, <3>1 DEF AskCreate, TypeOK
    <2>7. ASSUME NEW b \in Browsers, Create(b)
          PROVE  TypeOK'
      <3>1. request[b].name \in Names /\ request[b].role \in Roles
        BY <2>7 DEF Create, TypeOK, Request
      <3> QED  BY <2>0, <2>7, <3>1, InsertType DEF Create, TypeOK
    <2>8. ASSUME NEW b \in Browsers, Delete(b)
          PROVE  TypeOK'
      BY <2>0, <2>8 DEF Delete, TypeOK
    <2>9. CASE UNCHANGED vars
      BY <2>9 DEF vars, TypeOK
    <2> QED  BY <2>1, <2>2, <2>3, <2>4, <2>5, <2>6, <2>7, <2>8, <2>9 DEF Next
  <1> QED  BY <1>1, <1>2, PTL DEF Spec

-----------------------------------------------------------------------------
(* Accounts and administrators *)

\* As long as no deletion was asked for while another was under way, there is
\* at most one; it spares an account, and the one who asked for it is still an
\* administrator.
Guarded ==
    ~raced =>
      /\ up => accounts # {}
      /\ \A b, c \in Browsers : Deleting(b) /\ Deleting(c) => b = c
      /\ \A b \in Browsers : Deleting(b) =>
            /\ \E a \in accounts : a.id # request[b].id
            /\ \E a \in Admins : a.id = user[b]

GuardInv == TypeOK /\ IsFiniteSet(accounts) /\ Guarded

\* Inserting takes nothing away, and leaves an account.
LEMMA InsertGrows ==
    ASSUME IsFiniteSet(accounts), NEW name, NEW role, Insert(name, role)
    PROVE  /\ IsFiniteSet(accounts')
           /\ accounts \subseteq accounts' /\ accounts' # {}
           /\ Admins \subseteq Admins'
  BY FS_AddElement DEF Insert, Duplicate, Admins

\* More than one account is what the page asks for before it deletes one.
LEMMA AnotherAccount ==
    ASSUME TypeOK, IsFiniteSet(accounts), NEW a \in accounts, Spare
    PROVE  \E x \in accounts : x.id # a.id
  <1>1. accounts # {a}
    BY FS_Singleton DEF Spare
  <1>2. PICK x \in accounts : x # a
    BY <1>1
  <1> QED  BY <1>2 DEF TypeOK

LEMMA GuardStep ==
    ASSUME GuardInv, Next
    PROVE  IsFiniteSet(accounts') /\ Guarded'
  <1> USE DEF GuardInv
  <1>1. CASE Startup
    <2>1. CASE Insert(InitialName, "Admin")
      BY <1>1, <2>1, InsertGrows DEF Startup, Guarded, Deleting
    <2>2. CASE accounts # {} /\ UNCHANGED <<accounts, created>>
      BY <1>1, <2>2 DEF Startup, Guarded, Deleting, Admins
    <2> QED  BY <1>1, <2>1, <2>2 DEF Startup
  <1>2. CASE Stop
    <2>1. \A b \in Browsers : ~Deleting(b)'
      BY <1>2 DEF Stop, Deleting, NoRequest
    <2> QED  BY <1>2, <2>1 DEF Stop, Guarded
  <1>3. ASSUME NEW b \in Browsers, NEW a \in accounts, Login(b, a)
        PROVE  IsFiniteSet(accounts') /\ Guarded'
    <2>1. \A c \in Browsers : /\ Deleting(c)' = Deleting(c)
                              /\ request'[c] = request[c]
                              /\ Deleting(c) => user'[c] = user[c]
      BY <1>3 DEF Login, Ready, Deleting, NoRequest, TypeOK
    <2> QED  BY <1>3, <2>1 DEF Login, Guarded, Admins
  <1>4. ASSUME NEW b \in Browsers, Logout(b)
        PROVE  IsFiniteSet(accounts') /\ Guarded'
    <2>1. \A c \in Browsers : /\ Deleting(c)' = Deleting(c)
                              /\ request'[c] = request[c]
                              /\ Deleting(c) => user'[c] = user[c]
      BY <1>4 DEF Logout, Ready, Deleting, NoRequest, TypeOK
    <2> QED  BY <1>4, <2>1 DEF Logout, Guarded, Admins
  <1>5. ASSUME NEW b \in Browsers, NEW a \in accounts, AskDelete(b, a)
        PROVE  IsFiniteSet(accounts') /\ Guarded'
    <2>1. /\ UNCHANGED <<accounts, up, user>>
          /\ raced' = \E c \in Browsers : Deleting(c)
          /\ request' = [request EXCEPT ![b] = [op |-> "delete", id |-> a.id]]
      BY <1>5 DEF AskDelete
    <2>2. Admins' = Admins
      BY <2>1 DEF Admins
    <2>3. ASSUME ~raced'
          PROVE  \A c \in Browsers : Deleting(c)' => c = b
      BY <2>1, <2>3 DEF Deleting, TypeOK
    <2>4. request'[b].id = a.id
      BY <2>1 DEF TypeOK
    <2>5. \E x \in accounts : x.id # a.id
      BY <1>5, AnotherAccount DEF AskDelete
    <2>6. \E x \in Admins : x.id = user[b]
      BY <1>5 DEF AskDelete, IsAdmin, Admins
    <2> QED  BY <2>1, <2>2, <2>3, <2>4, <2>5, <2>6 DEF Guarded
  <1>6. ASSUME NEW b \in Browsers, NEW name \in Names, NEW role \in Roles,
               AskCreate(b, name, role)
        PROVE  IsFiniteSet(accounts') /\ Guarded'
    <2>1. \A c \in Browsers : /\ Deleting(c)' => Deleting(c)
                              /\ Deleting(c) => request'[c] = request[c]
      BY <1>6 DEF AskCreate, Ready, Deleting, NoRequest, TypeOK
    <2> QED  BY <1>6, <2>1 DEF AskCreate, Guarded, Admins
  <1>7. ASSUME NEW b \in Browsers, Create(b)
        PROVE  IsFiniteSet(accounts') /\ Guarded'
    <2>1. \A c \in Browsers : /\ Deleting(c)' => Deleting(c)
                              /\ Deleting(c) => request'[c] = request[c]
      BY <1>7 DEF Create, Deleting, NoRequest, TypeOK
    <2> QED  BY <1>7, <2>1, InsertGrows DEF Create, Guarded
  <1>8. ASSUME NEW b \in Browsers, Delete(b)
        PROVE  IsFiniteSet(accounts') /\ Guarded'
    <2>1. IsFiniteSet(accounts')
      BY <1>8, FS_Subset DEF Delete
    <2>2. ASSUME ~raced'
          PROVE  accounts' # {} /\ \A c \in Browsers : ~Deleting(c)'
      BY <1>8, <2>2 DEF Delete, Guarded, Deleting, NoRequest, TypeOK
    <2> QED  BY <2>1, <2>2 DEF Guarded
  <1> QED  BY <1>1, <1>2, <1>3, <1>4, <1>5, <1>6, <1>7, <1>8 DEF Next

LEMMA GuardInvariant == Spec => []GuardInv
  <1>1. Init /\ TypeOK => GuardInv
    BY FS_EmptySet DEF GuardInv, Init, Guarded, Deleting, NoRequest
  <1>2. GuardInv /\ [Next]_vars /\ TypeOK' => GuardInv'
    <2>1. CASE UNCHANGED vars
      BY <2>1 DEF vars, GuardInv, Guarded, Deleting, Admins
    <2> QED  BY <2>1, GuardStep DEF GuardInv
  <1>3. Spec => []TypeOK
    BY TypeCorrect
  <1> QED  BY <1>1, <1>2, <1>3, PTL DEF Spec

\* The application that runs is not without an account, unless two deletions
\* have overlapped.
THEOREM SomeoneIsLeft == Spec => []SomeoneLeft
  <1>1. GuardInv => SomeoneLeft
    BY DEF GuardInv, Guarded, SomeoneLeft
  <1> QED  BY <1>1, GuardInvariant, PTL

\* The last administrator goes only by deleting the own account, unless two
\* deletions have overlapped.
THEOREM LastAdmin == Spec => LastAdminGoesAlone
  <1> DEFINE Alone ==
        Admins # {} /\ Admins' = {} =>
          \/ raced
          \/ \E b \in Browsers : Deleting(b) /\ request[b].id = user[b]
  <1>1. GuardInv /\ [Next]_vars => [Alone]_vars
    <2> SUFFICES ASSUME GuardInv, Next, Admins # {}, Admins' = {}, ~raced
                 PROVE  \E b \in Browsers : Deleting(b) /\ request[b].id = user[b]
      OBVIOUS
    <2>1. accounts' # accounts
      BY DEF Admins
    <2>2. ~ \E name \in Names, role \in Roles : Insert(name, role)
      BY InsertGrows DEF GuardInv
    <2>3. ASSUME NEW b \in Browsers, Create(b)
          PROVE  FALSE
      <3>1. request[b].name \in Names /\ request[b].role \in Roles
        BY <2>3 DEF Create, GuardInv, TypeOK, Request
      <3> QED  BY <2>2, <2>3, <3>1 DEF Create
    <2>4. ~Startup
      BY <2>1, <2>2, SupervisorAssumption DEF Startup, Roles
    <2>5. PICK b \in Browsers : Delete(b)
      BY <2>1, <2>3, <2>4
         DEF Next, Stop, Login, AskDelete, Logout, AskCreate
    <2>6. Deleting(b)
      BY <2>5 DEF Delete
    <2>7. PICK a \in Admins : a.id = user[b]
      BY <2>6 DEF GuardInv, Guarded
    <2>8. a \notin accounts'
      BY <2>7 DEF Admins
    <2>9. a.id = request[b].id
      BY <2>5, <2>7, <2>8 DEF Delete, Admins
    <2> QED  BY <2>6, <2>7, <2>9
  <1> QED  BY <1>1, GuardInvariant, PTL DEF Spec, LastAdminGoesAlone
=============================================================================
