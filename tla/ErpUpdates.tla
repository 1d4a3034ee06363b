------------------------------ MODULE ErpUpdates ------------------------------
(***************************************************************************)
(* The ERP integration (integration_service.py): a program that is started *)
(* from time to time, compares the tenants in the ERP's database with the  *)
(* identities of module Tenants, and leaves the differences in the table   *)
(* identity_update, row by row.  /admin/master-updates shows them in three *)
(* lists, each read by a call of its own; the administrator acts on them   *)
(* with the operations of Tenants.                                         *)
(***************************************************************************)
EXTENDS Tenants

VARIABLES
    erp,     \* external: per customer number, what the ERP's rows say
    updates, \* rows of identity_update
    service, \* where the program is, and the ERP rows it has read
    page,    \* /admin/master-updates: the lists read so far
    left,    \* what a call that did not close its session has read
    touched, \* history: customers whose ERP rows or identity have changed since
             \* the program began, of whom it could not clear the table of
             \* the last run, and all of them when it has failed
    missed   \* history: customers of whom the program could not write a row

erpVars == <<erp, updates, service, page, left, touched, missed>>

\* NULL is no row number and no customer number.
ASSUME ErpAssumption == None \notin Ids \cup Customers

\* A row of the ERP: of a dormitory in RELEVANT_DORMITORY_IDS; of another; or
\* one whose name marks a room that is closed for building.  A customer has any
\* number of them, or none: the ERP's table does not keep the number unique.
Row == {"relevant", "elsewhere", "blocked"}

Update == [id : Ids \cup {None}, new : Customers \cup {None},
           old : Customers \cup {None}]

Identities(c) == {i \in Ids : Exists(i) /\ identity[i].customer = c}

\* Bug: every row with a new number.
AnyNew == {u.new : u \in {v \in updates : v.new # None}}

\* The three lists of the page.  A row with two numbers stands for the first
\* identity that has the old one.
Creatable == {u.new : u \in {v \in updates : /\ v.new # None /\ v.old = None
                                             /\ v.id = None}}

Updatable == {Least(Identities(u.old)) :
                u \in {v \in updates : /\ v.new # None /\ v.old # None
                                       /\ v.id # None
                                       /\ Identities(v.old) # {}}}

Deletable == {u.id : u \in {v \in updates : v.new = None /\ Exists(v.id)}}

NoPage == [at |-> "away"]
Closed == [open |-> FALSE]

\* Every variable has its type, and the readers of the table can tell each of
\* its rows: someone new, or an identity that stays or goes.
RowsOK ==
    /\ erp \in [Customers -> SUBSET Row]
    /\ updates \subseteq Update
    /\ \A u \in updates : IF u.id = None THEN u.new # None /\ u.old = None
                          ELSE u.old # None /\ u.new \in {None, u.old}
    /\ service.at \in {"off", "rows", "identities", "rest"}
    /\ page.at \in {"away", "first", "second", "shown"}
    /\ left \in {Closed} \cup [open : {TRUE}, creatable : SUBSET Customers]
    /\ touched \subseteq Customers /\ missed \subseteq Customers

ErpInit ==
    /\ erp \in [Customers -> SUBSET Row]
    /\ updates = {}
    /\ service = [at |-> "off"]
    /\ page = NoPage
    /\ left = Closed
    /\ touched = Customers /\ missed = {}

-----------------------------------------------------------------------------
(* IntegrationService.run_service                                           *)

\* Bug: what the last run has left stays in the table.
KeptTable == updates

\* __clear_identity_updates_table.
ClearedTable == {}

\* Customers a row of the table is about, or about an identity of theirs.
InTable == {c \in Customers : \E u \in updates :
               c \in {u.new, u.old} \/ u.id \in Identities(c)}

\* The table is cleared, or that fails and is passed over.  Then all rows of
\* the ERP are read: its session sees them as they are now until the program
\* ends.
Start ==
    /\ service.at = "off"
    /\ page' = IF page = NoPage THEN page ELSE [page EXCEPT !.torn = TRUE]
    /\ \/ updates' = ClearedTable /\ touched' = {}
       \/ UNCHANGED updates /\ touched' = InTable
    /\ missed' = {}
    /\ service' = [at |-> "rows", erp |-> erp,
                   todo |-> {cr \in Customers \X Row : cr[2] \in erp[cr[1]]}]
    /\ UNCHANGED <<erp, left>>

\* Bug: the new number is also the old one.
AsRenumbered(c) == [id |-> None, new |-> c, old |-> c]

AsUpdatable(i, c) == [id |-> i, new |-> c, old |-> c]
AsCreatable(c) == [id |-> None, new |-> c, old |-> None]
AsDeletable(i, c) == [id |-> i, new |-> None, old |-> c]

\* What a row of the ERP leaves in the table.  The dormitory is compared with
\* the row of another table and never equal: each identity has changed.
Marks(c, row) ==
    IF Identities(c) # {}
    THEN {IF row = "elsewhere" THEN AsDeletable(i, c) ELSE AsUpdatable(i, c) :
            i \in Identities(c)}
    ELSE IF row = "relevant" THEN {AsCreatable(c)}
    ELSE {}

\* The inserts of an ERP row or an identity.  One that fails is passed over.
Insert(rows, c) ==
    \E written \in SUBSET rows :
       /\ updates' = updates \cup written
       /\ missed' = IF written = rows THEN missed ELSE missed \cup {c}

CompareRow(c, row) ==
    /\ service.at = "rows" /\ <<c, row>> \in service.todo
    /\ Insert(Marks(c, row), c)
    /\ service' = [service EXCEPT !.todo = @ \ {<<c, row>>}]
    /\ UNCHANGED <<erp, page, left, touched>>

\* The identities are listed when the rows are done.
ListIdentities ==
    /\ service.at = "rows" /\ service.todo = {}
    /\ service' = [at |-> "identities", erp |-> service.erp,
                   todo |-> {i \in Ids : Exists(i)}]
    /\ UNCHANGED <<erp, updates, page, left, touched, missed>>

Gone(c) == service.erp[c] = {}

\* An identity of the list that the ERP does not know.  When it has been
\* deleted since, either it cannot be read again and the program fails
\* (Finish), or what it leaves in the table is passed over by the readers.
CompareIdentity(i) ==
    /\ service.at = "identities" /\ i \in service.todo
    /\ IF Exists(i) /\ Gone(identity[i].customer)
       THEN Insert({AsDeletable(i, identity[i].customer)}, identity[i].customer)
       ELSE UNCHANGED <<updates, missed>>
    /\ service' = [service EXCEPT !.todo = @ \ {i}]
    /\ UNCHANGED <<erp, page, left, touched>>

\* The program ends: when it is done, or by an error or a stop anywhere.
Finish ==
    /\ service.at # "off"
    /\ touched' = IF service.at = "identities" /\ service.todo = {}
                  THEN touched ELSE Customers
    /\ service' = [at |-> "off"]
    /\ UNCHANGED <<erp, updates, page, left, missed>>

Service ==
    \/ Start \/ ListIdentities \/ Finish
    \/ \E c \in Customers, row \in Row : CompareRow(c, row)
    \/ \E i \in Ids : CompareIdentity(i)

-----------------------------------------------------------------------------
(* /admin/master-updates, and the ERP                                       *)

\* ServerAPI.is_master_updates_available, for the dashboard, returns before
\* it closes its session: the next call reads what this one has seen.
Dashboard ==
    /\ Ready /\ left = Closed
    /\ left' = [open |-> TRUE, creatable |-> Creatable]
    /\ UNCHANGED <<erp, updates, service, page, touched, missed>>

Running == service.at # "off"

\* The three calls.  torn: the lists can come from different states of the
\* table.
ReadCreatable ==
    LET seen == IF left.open THEN left.creatable ELSE Creatable IN
    /\ Ready /\ page = NoPage
    /\ page' = [at |-> "first", creatable |-> seen,
                torn |-> Running \/ seen # Creatable]
    /\ left' = Closed
    /\ UNCHANGED <<erp, updates, service, touched, missed>>

ReadUpdatable ==
    /\ Ready /\ page.at = "first"
    /\ page' = [at |-> "second", creatable |-> page.creatable,
                updatable |-> Updatable, torn |-> page.torn]
    /\ left' = Closed
    /\ UNCHANGED <<erp, updates, service, touched, missed>>

ReadDeletable ==
    /\ Ready /\ page.at = "second"
    /\ page' = [at |-> "shown", creatable |-> page.creatable,
                updatable |-> page.updatable, deletable |-> Deletable,
                torn |-> page.torn]
    /\ left' = Closed
    /\ UNCHANGED <<erp, updates, service, touched, missed>>

LeavePage ==
    /\ page.at = "shown"
    /\ page' = NoPage
    /\ UNCHANGED <<erp, updates, service, left, touched, missed>>

Page ==
    Dashboard \/ ReadCreatable \/ ReadUpdatable \/ ReadDeletable \/ LeavePage

ErpChange(c) ==
    /\ erp' \in {[erp EXCEPT ![c] = rows] : rows \in (SUBSET Row) \ {erp[c]}}
    /\ touched' = touched \cup {c}
    /\ UNCHANGED <<updates, service, page, left, missed>>

\* An operation of Tenants, and whose customers it changes.
Changed == {c \in Customers : Identities(c) # Identities(c)'}

\* It tears a page that is being read, and a call of the web application
\* closes the session that was left open.
TenantsStep ==
    /\ \/ Maintenance /\ UNCHANGED <<alone, stuck, left>>
       \/ (People \/ Pages \/ Restart) /\ UNCHANGED <<alone, stuck>> /\ left' = Closed
       \/ Jam /\ UNCHANGED left
    /\ touched' = touched \cup Changed
    /\ page' = IF Changed = {} \/ page = NoPage THEN page
               ELSE [page EXCEPT !.torn = TRUE]
    /\ UNCHANGED <<erp, updates, service, missed>>

ErpNext ==
    \/ TenantsStep
    \/ /\ Service \/ Page \/ \E c \in Customers : ErpChange(c)
       /\ UNCHANGED tenants

ErpSpec == Init /\ ErpInit /\ [][ErpNext]_<<tenants, erpVars>>

-----------------------------------------------------------------------------
(* Properties *)

\* What the ERP's rows ask for, row by row.
ToCreate(c) == IF "relevant" \in erp[c] /\ Identities(c) = {} THEN {c} ELSE {}
ToUpdate(c) == IF erp[c] \cap {"relevant", "blocked"} # {} THEN Identities(c) ELSE {}
ToDelete(c) == IF erp[c] = {} \/ "elsewhere" \in erp[c] THEN Identities(c) ELSE {}

Updated(c) == {u.id : u \in {v \in updates : v.new = c /\ v.id # None}}

\* When the program has ended by itself, the table says nothing wrong of a
\* customer of whom neither an ERP row nor an identity has changed since it
\* began: a new identity is told only if the ERP has a row of a relevant
\* dormitory and there is none, an identity to update or delete only if a row
\* (or their absence) asks for it; and it says all of it unless an insert of
\* theirs failed.  When the clearing of the table failed, this is so of the
\* customers that the old rows are not about.
UpdatesMatchErp ==
    service.at = "off" =>
       \A c \in Customers \ touched :
          /\ {c} \cap Creatable \subseteq ToCreate(c)
          /\ Updated(c) \subseteq ToUpdate(c)
          /\ Identities(c) \cap Deletable \subseteq ToDelete(c)
          /\ c \notin missed => /\ ToCreate(c) \subseteq Creatable
                                /\ ToUpdate(c) \subseteq Updated(c)
                                /\ ToDelete(c) \subseteq Deletable

\* Rows of the ERP that cannot both be followed.
Contradicts(rows) == "elsewhere" \in rows /\ rows # {"elsewhere"}

\* The page, whose lists come from three calls, shows nobody both as new and as
\* someone who is there, and nobody both to be updated and to be deleted if the
\* ERP does not say both, whatever inserts failed; unless the program ran or
\* someone changed a customer number while the page was read, the clearing of
\* the table failed, or the first call saw what the dashboard had seen.
ShownOnce ==
    (page.at = "shown" /\ ~page.torn) =>
       \A c \in Customers \ touched :
          /\ c \in page.creatable =>
                Identities(c) \cap (page.updatable \cup page.deletable) = {}
          /\ Contradicts(erp[c]) \/ Identities(c) \cap page.updatable \cap page.deletable = {}
=============================================================================
