---------------------------- MODULE Supervisors ----------------------------
(***************************************************************************)
(* Supervisor accounts of traffy-web (admin/views.py,                      *)
(* supervisor_functions.py, web.py).  Requests are served by several       *)
(* worker processes: a request checks who sends it and what it is about,   *)
(* and commits later, while others do the same.  A browser keeps the id of *)
(* the account it has logged in to, and the account may be gone.           *)
(***************************************************************************)
EXTENDS Integers, FiniteSets

CONSTANTS Names,       \* user names, the initial one among them
          InitialName, \* "admin"
          Browsers,    \* browsers of supervisors
          MaxAccounts  \* bound: accounts ever created

ASSUME SupervisorAssumption ==
    InitialName \in Names /\ MaxAccounts \in Nat \ {0}

VARIABLES
    accounts,   \* rows of supervisor_account: id, username, role
    created,    \* accounts created so far; ids are never used again
    up,         \* whether the web application runs
    user,       \* per browser: the id in its session, 0 if logged out
    request,    \* per browser: what its request is about to commit
    raced       \* history: another deletion was under way when the last one
                \* was asked for

vars == <<accounts, created, up, user, request, raced>>

Roles == {"Admin", "Helpdesk", "Clerk"}

Account == [id : 1..MaxAccounts, name : Names, role : Roles]

Request == {[op |-> "none"]}
           \cup [op : {"create"}, name : Names, role : Roles]
           \cup [op : {"delete"}, id : 1..MaxAccounts]

NoRequest == [op |-> "none"]

TypeOK ==
    /\ accounts \subseteq Account
    /\ \A a, b \in accounts : a.id = b.id \/ a.name = b.name => a = b
    /\ created \in 0..MaxAccounts
    /\ \A a \in accounts : a.id <= created
    /\ up \in BOOLEAN /\ raced \in BOOLEAN
    /\ user \in [Browsers -> 0..MaxAccounts]
    /\ request \in [Browsers -> Request]

Init ==
    /\ accounts = {} /\ created = 0
    /\ up = FALSE
    /\ user = [b \in Browsers |-> 0]
    /\ request = [b \in Browsers |-> NoRequest]
    /\ raced = FALSE

-----------------------------------------------------------------------------
(* The process *)

\* Bug: a name that exists is inserted once more.
Duplicate(name, role) ==
    /\ accounts' = accounts \cup {[id |-> created + 1, name |-> name, role |-> role]}
    /\ created' = created + 1

\* A new row; the name is unique, so that a second one is rolled back.
Insert(name, role) ==
    IF \E a \in accounts : a.name = name
    THEN UNCHANGED <<accounts, created>>
    ELSE Duplicate(name, role)

\* __create_initial_db_entries: an administrator if there is no account.
Startup ==
    /\ ~up
    /\ up' = TRUE
    /\ \/ /\ accounts = {} /\ created < MaxAccounts
          /\ Insert(InitialName, "Admin")
       \/ /\ accounts # {}
          /\ UNCHANGED <<accounts, created>>
    /\ UNCHANGED <<user, request, raced>>

\* The process ends; requests under way are lost, cookies are not.
Stop ==
    /\ up
    /\ up' = FALSE
    /\ request' = [b \in Browsers |-> NoRequest]
    /\ UNCHANGED <<accounts, created, user, raced>>

-----------------------------------------------------------------------------
(* Who sends a request *)

\* Bug: any account that is logged in will do.
LoggedIn(b) == \E a \in accounts : a.id = user[b]

\* current_user.is_authenticated: load_user finds the row.
Authenticated(b) == \E a \in accounts : a.id = user[b]

IsAdmin(b) == \E a \in accounts : a.id = user[b] /\ a.role = "Admin"

Ready(b) == up /\ request[b] = NoRequest

Admins == {a \in accounts : a.role = "Admin"}

Login(b, a) ==
    /\ Ready(b)
    /\ ~Authenticated(b)
    /\ a \in accounts
    /\ user' = [user EXCEPT ![b] = a.id]
    /\ UNCHANGED <<accounts, created, up, request, raced>>

Logout(b) ==
    /\ Ready(b)
    /\ Authenticated(b)
    /\ user' = [user EXCEPT ![b] = 0]
    /\ UNCHANGED <<accounts, created, up, request, raced>>

-----------------------------------------------------------------------------
(* Pages of administrators *)

\* /admin/add-account, and create_account up to its commit.
AskCreate(b, name, role) ==
    /\ Ready(b) /\ IsAdmin(b)
    /\ request' = [request EXCEPT ![b] = [op |-> "create", name |-> name,
                                          role |-> role]]
    /\ UNCHANGED <<accounts, created, up, user, raced>>

Create(b) ==
    /\ request[b].op = "create"
    /\ created < MaxAccounts
    /\ Insert(request[b].name, request[b].role)
    /\ request' = [request EXCEPT ![b] = NoRequest]
    /\ UNCHANGED <<up, user, raced>>

\* Bug: the number of accounts is not asked for.
Removable == TRUE

\* Another account has to be left.
Spare == Cardinality(accounts) # 1

Deleting(b) == request[b].op = "delete"

\* /admin/accounts/<username>, up to the commit of delete_account.
AskDelete(b, a) ==
    /\ Ready(b) /\ IsAdmin(b)
    /\ a \in accounts
    /\ Spare
    /\ request' = [request EXCEPT ![b] = [op |-> "delete", id |-> a.id]]
    /\ raced' = \E c \in Browsers : Deleting(c)
    /\ UNCHANGED <<accounts, created, up, user>>

Delete(b) ==
    /\ Deleting(b)
    /\ accounts' = {a \in accounts : a.id # request[b].id}
    /\ request' = [request EXCEPT ![b] = NoRequest]
    /\ UNCHANGED <<created, up, user, raced>>

Next ==
    \/ Startup
    \/ Stop
    \/ \E b \in Browsers :
          \/ \E a \in accounts : Login(b, a) \/ AskDelete(b, a)
          \/ Logout(b)
          \/ \E name \in Names, role \in Roles : AskCreate(b, name, role)
          \/ Create(b) \/ Delete(b)

Spec == Init /\ [][Next]_vars

-----------------------------------------------------------------------------
(* Properties *)

\* The running application is never without an account, unless two deletions
\* overlapped: the page counts the accounts in one step and deletes in another.
SomeoneLeft == up /\ accounts = {} => raced

\* The last Admin goes only by deleting the own account, or by an overlap.
\* (views.py:640 asks for another account, of whatever role.)
LastAdminGoesAlone ==
    [][Admins # {} /\ Admins' = {} =>
          \/ raced
          \/ \E b \in Browsers : Deleting(b) /\ request[b].id = user[b]]_vars
=============================================================================
