# A TLA+ verification of traffy

traffy lets the residents of dormitories use a network through a captive
portal, counts their traffic against a daily volume, and slows down who has
used it up. This directory holds TLA+ models of its core, TLC configurations
that check them on small instances, and proofs that TLAPS checks for every
value of the constants. Paths below are relative to the repository.

## 1. The system

Four programs share one MySQL database:

- `traffy-server` keeps the devices, drives the kernel (nftables and tc) and
  counts traffic;
- `traffy-web` is the captive portal and the administrators' front end, and
  calls the server by XML-RPC;
- `traffy-erp-integration` copies tenants' data from an ERP system into a table
  of pending identity updates;
- `traffy-dhcp-watchdog` releases leases of devices that no longer answer.

### Components

| Component | State | Operations | Modelled in |
|---|---|---|---|
| Device registry (`app/api/server.py`, `app/accounting_manager.py`) | rows of `registration_key`, `address_pair`, `ip_address`, `mac_address` | register, deregister one or all devices, add, delete, activate, deactivate a key | `Registry`, `DeviceRegistry` |
| Packet filter (`app/util/nftables_manager.py`) | kernel table `traffy`: the set of registered devices, and per key a set of addresses, four counters, four rules | add and delete each of them | `Nftables` |
| Traffic shaper (`app/util/tc_manager.py`) | kernel filters and classes per address | enable, disable for an address | `Registry` (`filters`) |
| Traffic accounting (`app/accounting_manager.py`) | `traffic` rows (one per key and day), the list `shaped_reg_keys` in memory, kernel counters | a pass every `ACCOUNTING_INTERVAL` seconds; credits, custom volumes; start, restart | `Accounting`, `DailyCredit`; against single devices: `Registry` |
| Housekeeping (`app/housekeeping_service.py`) | dates in `registration_key` and `identity` | every 20 s: moves that are due, keys to delete | the pass: `Tenants`; the steps of its removals: `Registry` |
| Process life cycle (`server.py`, `app/socket_manager.py`) | threads, whether the kernel is set up | start from the database, shutdown, crash | `Registry` |
| Database access (`app/database_manager.py`, `app/models.py`) | one scoped session per thread | commit, roll back, unique columns, foreign keys | the steps of `Registry` and `ErpUpdates` that meet them |
| Access check (`access_check` in `app/api/server.py`) | none | tells the portal what an address may do | `Portal` (`AccessMode`) |
| Identities and their keys (`app/api/server.py`) | rows of `identity`, deletion dates of keys | add, edit, plan a move, delete | `Tenants` |
| Statistics, vouchers, dormitories (`app/api/server.py`) | single rows and columns | queries; writes of one column | no |
| Portal pages (`traffy-web/app/user/views.py`) | the browser's session | register, conditions, privacy policy, dashboard, deregister | `Portal` |
| Administration pages (`traffy-web/app/admin`) | supervisor accounts, what a form shows | log-in, accounts; requests to the server | `Supervisors`; the form of an identity: `Tenants`; pending updates: `ErpUpdates`; other requests: the RPC thread of `Registry` |
| ERP integration (`traffy-erp-integration`) | table `identity_update` | clear, fill row by row | `ErpUpdates` |
| DHCP watchdog (`traffy-dhcp-watchdog`) | leases of dnsmasq | probe, release | `DhcpWatchdog` |
| Web set-up, templates, translations | none | layout, plumbing | the first account: `Supervisors` |

### How they interact

`traffy-server` runs three threads beside the main one, without a lock:

- the **RPC thread** serves one request at a time (`SimpleXMLRPCServer`);
- the **accounting thread** wakes every `ACCOUNTING_INTERVAL` seconds, reads
  and resets the kernel counters, charges each active key and shapes or
  unshapes it;
- the **housekeeping thread** wakes every 20 seconds and removes the devices of
  identities that move and the keys whose date of deletion has come, with the
  same functions the RPC thread calls.

They share the database (one session per thread, REPEATABLE READ), the kernel
(commands whose exit status and output are thrown away) and, in memory, the
list `shaped_reg_keys`. The same fact is kept up to four times: a device is in
three tables, in the set of registered devices, in its key's set, and, if its
key is shaped, in the shaper. No transaction spans these copies, and a handler
commits several times.

### What is hard, and what makes each component correct

- *Registry*: handlers of two threads work on one key in any order of commits;
  the process can stop between two commits. Correct if no address belongs to
  two devices, no partial device is left behind, and the kernel agrees with the
  database whenever no handler is at work.
- *Packet filter and shaper*: some commands are idempotent (`add element`),
  some are not (`add rule`), some are refused in some states (`delete set`
  while a rule names it). Correct if the handlers' order never leaves a rule
  twice, an address unlocked, or a set behind.
- *Accounting*: it reads, then resets, counters; it reads a snapshot of the
  database and acts on the kernel later; one key's error ends the pass. Correct
  if traffic is charged once, keys are shaped exactly while their volume is
  used up, and volume returns the next day.
- *Housekeeping*: a removal it starts closes its own database session, so each
  pass removes one device and then fails. Correct if moves and deletions end.
- *Life cycle*: the kernel outlives the process. Correct if every start finds
  a database it can start from, and rebuilds the kernel's copy.
- *Identities*: a form is shown from one reading, saved from another, and
  written by a third call; housekeeping acts on rows it has read before.
  Correct if a person ends in the room that was asked for, and every date that
  comes is acted on.
- *Portal*: the checks (limit of devices, key active) are made in requests
  before the one that registers, the address is the session's, and the forms can
  be sent in any order. Correct if nobody registers or removes another's device,
  or registers with a closed key.
- *Accounts*: requests of several workers check and commit at different times.
  Correct if somebody can always log in and administrate.
- *ERP integration*: the table is cleared and refilled while it is read, a
  statement that fails is passed over, and the page reads the table in three
  calls. Correct if it says nothing wrong, and says it once.
- *Watchdog*: it acts on the answer to an old probe, takes a silent device for
  one that is gone, and looks ports up by a substring. Correct if a device that
  is there keeps its lease otherwise.

`PROJECT.json` lists each of these hazards at its line, with the properties
that cover it, or a note why none does. Several notes say that the case *does* go
wrong: the property that would fail leaves it out by a history variable, which
names it, and holds otherwise.

## 2. The modules

| Module | What it is |
|---|---|
| `Nftables` | The kernel table as a record, and one operator per command of `nftables_manager.py`, refusals included. No state of its own. |
| `Registry` | The device registry: database, kernel, list of shaped keys, and what each thread is doing. EXTENDS `Nftables`. |
| `DeviceRegistry` | The abstract promise: devices appear and disappear one at a time, none shares an address, each belongs to a key that is there, and only an empty key goes. |
| `MCRegistry` | `Registry` for TLC, with its symmetries. |
| `DailyCredit` | Pure: what volume a key starts a day with, from its rows of earlier days. |
| `Accounting` | Counters, passes of one or two accounting threads, daily rows, the list of shaped keys, and the requests that meet them. EXTENDS `DailyCredit`. |
| `MCAccounting` | `Accounting` for TLC, for all keys at the start or one that is added. |
| `Tenants`, `MCTenants` | Identities, planned moves and deletions, the form that edits an identity, the housekeeping pass. |
| `ErpUpdates`, `MCErpUpdates` | The ERP integration and the page of pending updates, on the identities of `Tenants`, which it EXTENDS. |
| `DhcpWatchdog` | Devices on the network, leases, and the watchdog in its three modes. |
| `Portal`, `MCPortal` | The portal's pages and the calls they end in, on the network of `DhcpWatchdog`, which it EXTENDS. |
| `Supervisors`, `MCSupervisors` | Supervisor accounts, sessions, roles, over restarts of the web application. |
| `RegistryProofs` | Type correctness and the integrity of the database, proved. |
| `RegistryRefinement` | That `Registry` implements `DeviceRegistry`, proved. |
| `RegistrySyncProofs` | The three `InSync` invariants and `RemovalRemoves`, proved. |
| `AccountingProofs` | Type correctness, `TrafficConserved`, `OneRowPerDay` and `ListedOnce`, proved. |
| `PortalProofs` | All properties of `Portal` and of the watchdog on its network, proved. |
| `TenantsProofs` | Type correctness and `RoomAsAsked`, proved. |
| `ErpProofs` | `RowsOK`, `UpdatesMatchErp` and `ShownOnce`, proved. |
| `SupervisorsProofs` | Type correctness, `SomeoneLeft` and `LastAdminGoesAlone`, proved. |

### Registry and the code

| Variable | Code |
|---|---|
| `keyState` | `registration_key` rows and their `active` column; a key's id is never used again |
| `reg` | every registration ever committed, numbered; number `n` stands for the ids of its three rows |
| `pairRows`, `ipRows`, `macRows` | which of the three rows of a registration are there |
| `traffic`, `over` | keys with a row in `traffic`; keys whose row of today has no volume left |
| `nft`, `filters` | the kernel's table; addresses with tc filters |
| `status` | whether the process runs |
| `shaped` | `AccountingService.shaped_reg_keys`, as a set |
| `task` | per thread: the step it takes next (`pc`), in which handler (`op`), for which key and registration, and the devices a loop has left (`todo`) |
| `stops`, `torn`, `irregular` | history, see below |

One action is the longest part of a handler with at most one commit, or one
group of kernel commands, that no other thread can see in the middle:

- `register_device`: `RegisterCommit`, `Unlock`, `CountDevices`,
  `SetupAccounting`, `ShapeDevice`. A duplicate address rolls everything back.
  The key must be there; whether it is active is not asked, since the web front
  end did so in an earlier call.
- `deregister_device`: `LoadDevice` (which ends the shaping, and may raise),
  `DeletePair`, `DeleteIp`, `DeleteMac` (one commit each), `Unaccount`,
  `Teardown` (the last device takes its key's rules with it), `Relock`. An
  exception on the way goes straight to `Relock`, as in the code. The same
  steps serve `deregister_all_devices` and `delete_registration_key`
  (`NextDevice` is their loop) and a move in the housekeeping thread.
- `delete_registration_key`: `BeginDelete`, the loop, `DeleteTraffic`,
  `DeleteKeyRow` (which the foreign keys may refuse).
- activation: `BeginActivate`, `SetupKey`; deactivation: `BeginDeactivate`,
  `RelockAll`, `CommitInactive`.
- the accounting pass, one key at a time: `NewTrafficRow`, `ReadToShape` /
  `BeginShape` / `FinishShape`, `ReadToUnshape` / `BeginUnshape` /
  `RemoveShaped`. The `ReadTo...` step is the view of the pass's transaction,
  the next one acts on it, possibly after other threads' commits.
- the process: `Boot` (from the database, on whatever the kernel holds),
  `Shutdown` (SIGTERM: the running request ends first), `PowerLoss`,
  `Kill` (the kernel's tables survive).

The environment is as free as it can be: any administrator's request at any
time, volumes that run out when they like (`BeginShape`, `NewTrafficRow`
choose), midnight at any time.

**History variables.** No action's guard reads them. `torn` collects
registrations whose removal a stop cut between two commits. `irregular`
collects the keys whose kernel state *need not* agree with the database, because
of what the code does without locks:

1. two handlers worked on the key, or on one of its addresses, at once;
2. the key was activated while it was active (its rules are appended again);
3. activation or deactivation asked today's traffic row whether the key is
   shaped while the list said something else;
4. the process died alone and came up on the old kernel table;
5. the accounting pass acted on a view in which the key was active, or had
   other devices, than when it acts; or it ended the shaping at the key's address
   because its view has that address as another key's;
6. the key was given an address of an irregular key;
7. a device was registered on it while it was inactive (deactivated between the
   web front end's question and its call): the device is let through, counted
   and shaped all the same.

The three `...InSync` invariants are stated for keys that are `Settled`: not
irregular, and with no handler at work. They say that the seven causes above are
the *only* ones: any sequence of requests, passes, moves, deletions, shutdowns
and power failures that avoids them leaves the kernel exactly as the database
says. Each exception is needed: without it, TLC finds a run in which the kernel
stays wrong (a key's rules doubled, a firewall element left behind, an address
shaped for ever). They are the code's own behaviour, listed as hazards.

**Not in `Registry`**: columns that nothing in the registry decides on (user
agent, vendor, dates, acceptance of the conditions), the numbers of the tc
classes, the list of excepted addresses, the STATELESS mode (in which the
kernel is not managed), the temporary objects of a start that fails half way
(`Boot` is one step, since nothing else runs yet).

### Accounting and the code

| Variable | Code |
|---|---|
| `known`, `active`, `exempt`, `paired` | `registration_key` rows, the columns `active` and `enable_accounting`, keys with an `address_pair` |
| `rows` | per key its `traffic` rows by id: day, credit, `used` (`ingress + egress`), `free` (the columns for shaped traffic and for the time ranges without limits) |
| `counted`, `counter` | keys with kernel counters, and what they hold since the last reset |
| `filtered` | keys whose devices have tc filters |
| `shaped` | `AccountingService.shaped_reg_keys`, as the sequence it is |
| `rpc` | what a request that takes several steps still owes |
| `pass` | per accounting thread: the next step, whether it may go on (`run`), the transaction's view of the database, the listing of the counters, the keys still to come |
| `today` | the date |
| `sent`, `edits`, `leaky`, `overlapped` | history and bounds |

A pass is `Wake` (sleep over; the first query begins a transaction),
`ListCounters`, `ResetCounters`, and then one turn per key, in the order of ids.
A turn sees the *view*: the database as it was when the current transaction
began. A commit ends the transaction; `Load`, or a later query in the same turn
(`Shape`, `Unlist`), begins the next. A turn is one of `SkipKey`, `FirstOfDay`
(the row of the day is written, with `NewCredit`), `WithoutDevices`,
`NoCounters` (the pass raises: `Abort`), `WithinVolume`, `StaysShaped`,
`UsesUp` then `Shape`, `Recovers` (which may raise) then `Unlist`. Requests are
`SetCredit`, `DisableAccounting`, `EnableAccounting`, `Register`, `Deregister`,
`Activate`, `Deactivate` and `AddKey`; those that change the kernel after a
commit, or commit after a change of the kernel, end in `SetUp`, `TearDown` or
`EndDeactivate`. `AddKey` also restarts the accounting thread: the old one is
told to stop, and does so after the pass it is in or sleeps before.

`leaky` names the ways in which traffic is lost, all of them in the code: it
passed between listing and reset; an exception ended the pass before the key's
turn; the key was not charged at its turn (inactive, exempt, without devices);
its counters were deleted; the process stopped. `TrafficConserved` says there is
no other. `overlapped` is set once two threads are in a pass at the same time.

**Simplified in `Accounting`**: a key has devices or none and either all or none
of them have filters (single devices are the matter of `Registry`); `Register`
is a key's first device and `Deregister` its last; an administrator activates
only an inactive key; keys are not deleted; a key's turn sees one date; reading
a row and writing a credit into it are one step; a key's own daily and maximum
volumes are left out; ingress and egress are one number, and the
counters of excepted addresses, which limit nothing, are left out; volumes are
whole units, where the code rounds the two volumes whose quotient is the window
to a tenth of a GiB. `Restart` clears the kernel; the death of the process alone
is in `Registry`. `add_extra_credit` is called by nothing.

### Tenants and the code

| Variable | Code |
|---|---|
| `identity` | rows of `identity`: customer number, home, planned home (`new_room`, `new_dormitory_id`) and whether `move_date` is unset, ahead, or due |
| `key` | the identity's `registration_key`: not there, `"kept"`, or with a `deletion_date` ahead or due |
| `devices` | how many pairs the key has |
| `form` | per administrator: the page `identity/edit` shows the choice of a home (`"choice"`) or the planned move (`"planned"`), or a request has read the identity and is about to write it (`"sending"`) |
| `deleting` | per thread: the identity whose key was deleted, and which goes in the next transaction |
| `hk` | the housekeeping pass: resting, at the next row of its list, with a row read (`"act"`), or at the keys |
| `asked`, `crossed` | history: the home the last form with a choice asked for; identities written from a row that had changed since it was read |
| `stuck` | identities whose devices or key cannot be removed as things are: a device of a shaped key has no filters (`tc_manager.py:64` raises), or a traffic row is in the way of the key's deletion |
| `alone` | nobody uses or stops the server any more |

`AddKey` is `add_registration_code`, whose second commit may fail;
`DeleteKey` and `DeleteIdentity` are the two transactions of
`delete_registration_key`; `EditIdentity` is `edit_reg_key_identity`, the call at
the end of `SaveChoice` or `SavePlanned`. A form without the choice sends the
planned room back as it read it. `HkBegin`, `HkLook`, `HkMove`, `HkKeys` are
`do_housekeeping`: a pass removes one device, or ends moves until a row raises
(no key; a date that is gone), or deletes one key, since the nested call closes
its session. `RemoveAll` is the loop over a key's devices, which passes over
those whose removal fails; `HkMove` may fail to remove the device, `DeleteKey` to
delete the key, for an identity that is `stuck`, in one pass after the other; `Jam`
lets what is stuck change. `MoveDay` and `DeletionDay` let a date come. A key has
the number of its identity.

**Simplified in `Tenants`**: the removal of a device is one step (its steps are
in `Registry`), and so is reading the due keys and deleting the first; a number
may be used again after its identity is gone; a row's list is in the order of the
primary key; names and mail addresses are left out; a planned date that is sent
again is taken as it is, although it may come on the same day.

### ErpUpdates and the code

`erp` is the ERP's table (external): per customer the rows there are, each of a
relevant dormitory, of another one, or of a room that is blocked; the ERP's table
does not keep the customer number unique. `updates` is `identity_update`.
`service` is where `run_service` is, with the ERP rows its session sees. `Start`
clears the table, or fails to and goes on; `CompareRow` treats one row of the ERP,
`ListIdentities` and `CompareIdentity` the identities that the ERP does not know;
`Insert` writes their rows, of which any can fail and be passed over. `Finish` is
the end, an error, or a stop. `page` is `/admin/master-updates`: `ReadCreatable`,
`ReadUpdatable` and `ReadDeletable` are its three calls. `left` is the view of the
session that `is_master_updates_available` leaves open. Everything the
administrator does next is an operation of `Tenants` (`TenantsStep`).
`touched` and `missed` are history: customers that have changed since the program
began, or of whom a failed clearing left rows; and customers of whom a row could
not be written.

**Simplified**: a customer's ERP rows of one kind are one, and rows without a
customer number are left out; so are two rows of the table that say the same;
names and mail addresses are not compared, since the comparison of dormitories
marks every identity anyway; the old view of a session matters for the first list
only.

### DhcpWatchdog, Portal and the code

`at` and `lease` are the network and dnsmasq's lease file (external: `PlugIn`,
`Renew`, `Unplug`, `Expire`; dnsmasq pings an address before it offers it).
`probe` is the watchdog's: an address is `"asked"` after `Scan` has read the
lease file, `"silent"` after `Arping`, `QueryStatus`, or a trap (`Report`, in
`Unplug`, which a switch may fail to report, and `UplinkDown`), and `Release` is
`DeleteDhcpLease`. `Arping` may find no answer from a device that is there. `Found`
says which line of the allocation file a port's tag is found in, for ports with a
line of their own and without: the search is for a substring, and ends at the first
line. `raced` and `misled` are history: silent addresses whose device came back, and
those that were in use when they were found silent.

In `Portal`, `keyState` and `pairs` are the server's rows, and `browser` holds
`reg_key` and `ip_address` of a browser's session and the call its request is about
to make. `Visit`, `SendKey`, `AcceptPolicy` and `AskDeregister` are requests up to
their last call, guarded by `__route_manager` (`Admitted`) and the checks of their
view, and by nothing else: a handler takes its form whatever page was shown before,
so several tabs need no action of their own. `RegisterDevice` and
`DeregisterDevice` are the calls. Administrators are `Activate`, `Deactivate`,
`DeleteKey`, `RemoveDevice`. `late`, `overrun`, `strayed` and `closed` are history
and name the situations the properties except.

**Simplified**: a registration inside the server is one step here (its steps are
in `Registry`); a browser is the device it runs on and has one request under way
at a time; `/conditions` records the acceptance in a column (`eula_accepted`) that
nothing reads, and passes over a failure to do so, so that it changes nothing here;
vouchers, notifications and the pages that only show are left out.

### Supervisors and the code

`accounts` are the rows of `supervisor_account`, `user` the id in each browser's
cookie, which survives the account and the process, and `request` what a worker
has checked and is about to commit. `Startup` creates the first account
(`__create_initial_db_entries`), `Stop` loses requests. `AskCreate`/`Create` and
`AskDelete`/`Delete` are a request before and at its commit. Passwords, mail
addresses and the pages that only show are left out.

## 3. The runs

| Run | Question | Bounds | Checked |
|---|---|---|---|
| `Registry_small` | Three threads, one key, two devices, all interleavings | 2 addresses, 2 hardware addresses, 2 registrations, no second activation while the rules are there (`MaxRules = 1`), no stop | `TypeOK`, `UniqueAddresses`, `PairsBacked`, `OrphansExplained`, the three `InSync`, `ImplementsDeviceRegistry` |
| `Registry_handover` | A device that comes back under new rows: with one key and two stops of any kind at any step, or on another key | 2 keys, 1 address, 2 registrations, 2 rules; while two keys are in use no stop, handlers in at most two threads at a time, one copy of the rules (`TwoKeys`) | `UniqueAddresses`, `OrphansExplained`, the three `InSync`, `RemovalRemoves` |
| `Registry_boot` | Can the service always start again? No | 1 key, 1 address, 2 stops | `RestartPossible` violated |
| `Accounting_passes` | Requests of every kind, midnight and restarts between the steps of a pass; or a key is added, and a second thread started | 2 keys, any of them with devices, and 2 requests; or 1 key, 1 request and one more key; days 0 to 2; 2 units per key, 1 if both keys are there at the start; up to the first overlap of two passes (`Bounds`) | `TypeOK`, `TrafficConserved`, `OneRowPerDay`, `ListedOnce` |
| `Accounting_live` | Is a key slowed when it has used up its volume, and only then, and does it get its daily row? | 2 keys, one with devices, 2 requests (register, deregister, credit), 1 unit per key | `UsedUpIsSlowed`, `VolumeIsSpeed`, `DailyRow` |
| `Accounting_exempt` | Does switching off a key's accounting lift its limit? No | 1 key, 2 requests | `ExemptIsUnlimited` violated |
| `Accounting_saved` | Is no more saved than the maximum? No | 1 key, days 0 to 3 | `NoMoreThanSaved` violated |
| `Portal_two` | Two browsers in the portal, administrators, the network and the watchdog | 2 devices, 2 addresses, 1 uplink port, whose tag and that of one port begin the other port's; limit 1; either 1 key and 3 arrivals at the network in mode `arp`, 2 in the others (`arrivals`), or 2 keys, 2 arrivals and mode `trap` | `TypeOK`, `DeviceLimit`, `OwnDevice`, `ClosedKeyGetsNone`, `OwnRemoval`, `LiveLeaseKept` |
| `Supervisors_two` | Two supervisors create and delete accounts in different workers | 2 names, 2 browsers, 4 accounts ever | `TypeOK`, `SomeoneLeft`, `LastAdminGoesAlone` |
| `Tenants_two` | Forms, moves, deletions and the pass that may fail at each row and each removal | 2 rooms, 2 devices per key; one identity with everything; two with devices and without forms; two with forms that plan moves and without devices | `TypeOK`, `RoomAsAsked`, `DueIsDone` |
| `Tenants_moved` | Does a move end in the planned dormitory? No | 1 identity, 2 dormitories | `DormitoryAsAsked` violated |
| `Erp_two` | The ERP, its program, the identities and the page at once | 2 customers, 2 identities, 3 beginnings (`MaxChanges`) of a change, a run of the program, a failed insert, a form or a page; no ERP row, one, or two that contradict each other (`Answers`) | `RowsOK`, `UpdatesMatchErp`, `ShownOnce` |

What the properties say:

- `UniqueAddresses`: the rows of two registrations never share an address, even
  while one is being removed in another thread.
- `PairsBacked`: a pair never loses its address, its hardware address or its
  key. It rests on the order of the three deletions and on the foreign keys.
- `OrphansExplained`: no interleaving of handlers leaves a partial device; only
  a stop of the process does. This is why the repair the code lacks would be
  needed only at a start.
- `FirewallInSync`, `AccountingInSync`, `ShapingInSync`: see above.
- `ImplementsDeviceRegistry`: whatever is visible through the pairs follows
  `DeviceRegistry`, one change at a time.
- `TrafficConserved`: no unit is charged twice, and none disappears but in the
  ways `leaky` names. It relates the kernel's counters, the listings of the
  passes and all rows of a key. Of all threads, at most one has anything left
  to charge.
- `OneRowPerDay`: rows of one key have increasing days, although the table has no
  unique index and the check is made in an older view than the insertion.
- `ListedOnce`: the list of shaped keys, a list and not a set, has no key twice;
  `remove` takes away one occurrence only.
- `UsedUpIsSlowed`, `VolumeIsSpeed`, `DailyRow`: what the passes bring about
  sooner or later.
- `RemovalRemoves`: when a request to remove a device ends, the device is gone, as
  the administrator is told, if its key is active and not `irregular`. It
  depends on the list of shaped keys and the filters agreeing at that moment.
- `DeviceLimit`: a key has too many devices only if one was registered on an
  answer that another registration had made old (the limit is asked in the first
  of three requests).
- `OwnDevice`: nobody registers another's device, unless the own device has left
  the address that the session names.
- `ClosedKeyGetsNone`: a key that was inactive before the last request began gets
  no device: the check is made in that request, and once more is not needed.
- `OwnRemoval`: a user who deregisters removes the own device and no other, unless
  the own device has left the address that the session names: the server is asked
  about the address of the request, and told to remove whoever is at the session's.
- `LiveLeaseKept`: the watchdog takes the lease of a device that is there only if
  it came back after its address was found silent, if it was there and did not
  answer, or if another port was taken for its own. In the modes that ask switches
  the second does not exist, in mode `arp` the third does not.
- `SomeoneLeft`, `LastAdminGoesAlone`: an application that runs has an account,
  and the last administrator goes only by the own hand, unless two deletions
  overlap. (The page asks whether another *account* is left, of any role.)
- `RoomAsAsked`: through forms, planned moves and housekeeping, a person lives in
  the room that was last asked for, or will when the move ends. `crossed` names
  what breaks it: a row written from an older reading.
- `DueIsDone`: once people and stops leave the server alone, every date that has
  come is acted on, although each pass may end at any row and any removal may fail
  many times, if every removal succeeds from some time on (`stuck`), and unless a
  stop has left an identity without a key whose move is planned (`Orphaned`), at
  which every pass ends. A removal that fails in every pass is the one thing the
  pass cannot get over: that move is never ended, and nothing after it is done.
- `UpdatesMatchErp`: after a run that ended by itself, the table says nothing
  wrong of a customer: it names somebody as new, to be updated or to be deleted only
  if the ERP's rows ask for it; and it says all of it unless an insert failed.
  Excepted are customers who changed meanwhile, and those whom the old rows are
  about when the clearing failed (`touched`).
- `ShownOnce`: the page shows nobody both as new and as known, and nobody both to
  be updated and to be deleted unless the ERP's rows say both, whatever inserts
  failed; unless the program ran, or numbers changed, between its calls, or the
  clearing failed.

`TrafficConserved`, `OneRowPerDay` and `ListedOnce` are stated up to the first
overlap of two passes. Without that condition each of them fails in
`Accounting_passes`: two threads that list the counters before either resets them
charge the traffic twice, and two that find no row of today both write one. The
code prevents neither (`restart` does not wait for the old thread); it is listed
as a hazard. Nothing but an overlap breaks them.

`MaxRegs` bounds registrations ever committed: two are enough for a device that
comes back under new row ids, for two devices of one key, and for an address
that changes hands. `MaxRules` bounds repeated activation (a third set of rules
differs from a second in nothing any handler asks); a second activation is in
`Registry_handover` with one key. `TwoKeys` leaves out states in which all three
threads are inside a handler; those are in `Registry_small`, and a hand-over has
two sides; and stops, which are in the same run with one key. `MaxStops = 2` gives
a stop, a start, and a stop of what was started. Two keys and two devices at once
in one run are out of reach in a few minutes; the handlers couple two keys only
through an address, which is what `Registry_handover` has.

`CHECK_DEADLOCK FALSE` is there where a run may stop. In the `Registry` runs, when
all registrations and stops are used and all keys are deleted, nothing is left to
do; and after a stop that left an orphaned address the program really cannot
start. In the other runs the bounds on arrivals, accounts or changes end a
behaviour, or, in `Tenants`, everybody has left and nothing is due.
`Registry` states safety only and assumes no fairness.

Two devices, two addresses and a limit of one are what it takes for one device to
be late, for two to exchange addresses, and for a lease to pass from one to the
other; a third arrival is for a device that comes back while its address is probed;
the second key is for the session that changes it. Three accounts that exist at
a time differ from two in nothing the pages ask; the fourth is a replacement.
Two identities give a pass a row that fails and a row after it; with more, the
rows in between behave as one of these. In `Erp_two` two customers that exchange
identities, and three beginnings, give for instance a change of the ERP during a
run and a page that is read during the next, a run whose clearing fails, or one that
misses a row and the page that shows the rest.

In `Accounting`, two keys are what it takes for one key's exception to harm the
next; two days after the one before the start give a first row, a carried-over
row and a day on which nothing was sent; two units can pass before and after the
listing of the counters, one unit is what another key's exception can lose. Two
requests give, for instance, deactivate and activate, or register and add a key. The
liveness runs use one unit and a volume of one. Deadlock is checked in all of
them: one accounting thread always goes on.

**Fairness.** `FairSpec` adds weak fairness of each accounting thread's next step
(`PassStep`) and of the rest of a request that has begun (`RequestStep`). The
thread sleeps a fixed time and its loop never ends while `run` holds; its
exceptions are caught inside the loop. The RPC thread finishes a request it has
begun. Nothing is assumed about requests, traffic or the date.
`TenantsSpec` adds weak fairness of the housekeeping pass and of the second half
of a deletion, for the same reasons. `DueIsDone` is stated for the time after
people and stops have left the server `alone`: while administrators keep planning
a move anew, no pass can be expected to end it. That removals succeed from some time
on is not fairness but a premise of the property: nothing in the code brings it about.

### Findings

- **`Registry_boot`**: `deregister_device` commits the deletion of the pair
  before that of the address. If the process stops in between, every later
  start fails at `server.py:66`, which reads a column of the missing pair, and
  the unit of the README restarts it for ever.
- **`Accounting_exempt`**: the administrators' page recommends "Disable
  Accounting" to grant unlimited traffic, but the pass then skips the key
  altogether: a key that is shaped at that moment stays shaped.
- **`Accounting_saved`**: the tenants' instructions promise to save "a total amount
  of" `MAX_SAVED_VOLUME`. After a day without a row (the server was off, the key
  inactive or its accounting switched off) a key starts with the credit of an
  older row and one daily volume: the maximum is not asked for, and what was used
  of that credit comes back.
- **`Tenants_moved`**: the end of a planned move copies the room and sets the
  planned dormitory to NULL without having copied it
  (`housekeeping_service.py:108`), although the page promises both.

Two more errors are reached in the models and stand as hazards in
`PROJECT.json`. Removing a device of a key that is on the list of shaped keys but has
no tc filters raises in `tc_manager.py:64`, the rows stay, and the administrator
reads "Device unregistered"; `RemovalRemoves` is stated for regular keys. And
`deactivate_registration_key` deletes counters before it ends the shaping, which
can raise: the key stays active without counters, its row of the next day cannot
be written, and passes end at it. `DailyRow` is therefore checked without
deactivations; with them TLC finds it violated.

Every property of a passing run has a mutant in `PROJECT.json`: a plausible bug
in one definition (marked `Bug:` in the modules) that TLC must see violate it.

## 4. The proofs

Every invariant and every action property that a passing run checks is also a
theorem, for every value of the constants: sets of keys, addresses, devices,
people, threads and days of any size, and any bound on what is counted.
`PROJECT.json` lists the theorems. Each rests on an inductive invariant; TLC was
asked about that invariant before it was proved. Below is what each invariant
adds to the properties, and why they are not inductive without it.

### Registry

- `RegistryProofs`. `TypeCorrect`: `TypeOK` is inductive; beyond the types it
  says that a handler at work knows its key and its registration.
  `DatabaseIntegrity`:
  `Spec => [](UniqueAddresses /\ PairsBacked /\ OrphansExplained)`. The three are
  inductive only together: two rows of one address would let a deletion orphan
  a pair; that a pair outlives neither row needs that a thread between its
  deletions has already removed the pair; and that a deletion which finds its row
  gone leaves no orphan behind needs the account of who removes what. The proof
  separates the few steps that write rows from the *quiet* ones, which leave rows
  alone and start no thread between two deletions (lemmas `Quiet...`), and then
  treats registration, the three deletions, the key's deletion and a stop.
- `RegistryRefinement`: `Spec => ImplementsDeviceRegistry`, under the mapping
  `devices <- {reg[n] : n \in pairRows}`. It needs `UniqueAddresses`: two
  registrations that map to the same device could otherwise hide a deletion. The
  abstract registry gives a device to any key that is there: to an inactive one
  too, as `register_device` does.
- `RegistrySyncProofs`: `FirewallFollows`, `AccountingFollows`, `ShapingFollows`,
  `DeregistrationRemoves` (and the parts of `DatabaseIntegrity` under their own
  names). The `InSync` invariants speak of keys at rest and say nothing of the
  middle of a handler. `SyncInv` does:
  - `KeyInv`: of a regular key, either no thread works on it and the kernel holds
    all of it (nothing, when the process is down), or exactly one does, and the kernel
    holds what is due at that step (`Stage`): `RegisterOK` for the steps of a
    registration, `RemovalOK` for those of a removal, `KeyOK` for activation and
    deactivation, `ShapeOK` for a pass;
  - `OwnersInv`: whoever else has the address of a registration that a handler
    works on is irregular, so that the handler disturbs no regular key;
  - `PassInv`, `FilterInv`: each element and each filter in the kernel has a
    registration that explains it;
  - `TasksInv`, `LifeInv`: a handler's registrations are its key's; when the process
    is down, its memory is empty.

  The steps of the kernel's tables are proved as lemmas on the commands of
  `Nftables` (what each does to each part of the table), the steps of a handler as
  one lemma per action: what it does to its own key, and that it leaves the others
  alone (`Undisturbed...`, `StepInv`). `RemovalRemoves` then follows from `RemovalOK`: a
  removal of a regular, active key reaches `relock` only with the pair gone.

  This proof failed at first, at `BeginUnshape`: the pass ends the shaping at the
  addresses its transaction has read, and one of them may by then belong to
  another key, which is shaped and now no longer is. It takes three registrations,
  the last of them between two steps of the pass, which is beyond the bounds of
  `Registry_handover`; with `MaxRegs = 3` TLC finds the run, 40 steps long. The
  history `irregular` now marks that key (`MovedTo`), and the case is a hazard of
  its own (`accounting_manager.py:433`).

### Accounting

`AccountingProofs`: `TypeCorrect`, `OneRow`, `OnceListed`, `TrafficKept`. The types
(`TypeInv`) already relate the database to the older view that each pass
holds: what a pass still has to do concerns keys that are there and that its
transaction has seen, and counters belong to keys with devices but for one whose
last device is just going. The rest, `PassInv`, is stated up to the
first overlap, and says of the thread that is in its pass, or may be next (`Only`):

- `ViewInv`: until it has acted on it, its view has the days and the traffic
  that the rows have now; no other pass has added one since, so the check for a
  row of today is still right when the row is written (`OneRowPerDay`, with
  `DaysInv`);
- `ListInv`: a key whose turn is to put it on the list is not on it (`ListedOnce`);
- `Balance`: rows, counter and what the pass has listed and not yet charged
  make up at most what was sent, and exactly that unless the key is `leaky`
  (`TrafficConserved`). Between the listing and the reset, what was listed is in
  the counter too, and at most that.

The sum over a key's rows is a recursive function (`Total`). The lemmas `TotalIs`,
`TotalSame`, `TotalCharged`, `TotalAppended` say how it changes when one row is
charged or appended; they are proved by descent from a least counterexample.
`TrafficConserved` names the one thread that has something pending, and so needs no
sum over a set of threads.

### Portal and watchdog

`PortalProofs`: `TypeCorrect`, `LimitKept`, `OwnDeviceOnly`, `ClosedKeysStay`,
`OwnDeviceRemoved`, `LiveLeases`. For the network, `NetInv`: no two devices use
one address, the lease of an address in use is its user's or gone, and nobody is
at an address that was found silent unless it came back since or the finding was
wrong (`SilentGone`). For the pages, `PortalInv`: what was true when a request was
answered and may be relied on in a later one, since only the events that the
history names can change it: the address of the session (`SessionInv`), room for
one more device (`LimitInv`, which counts the registrations let through late), the
key's activity (`ClosedInv`), and that whoever is registered at the session's
address of a device that is about to be removed is that device (`TargetInv`).

### Identities and the ERP

- `TenantsProofs`: `TypeCorrect` (`TenantsSpec => []TypeOK`), which needs that a
  planned move has its room, its dormitory and its date together in the table, in
  the row a pass has read, and in what a form is about to write (`PlanInv`); and
  `RoomKept` (`TenantsSpec => []RoomAsAsked`), by one lemma per step that writes
  identities: the form without a choice sends the planned room it has read, which
  is the room that was asked for; and the end of a move copies the planned room of
  a row that is still the one that was read.
- `ErpProofs`: `RowsTold`, `TableMatchesErp`, `NobodyTwice`. `UpdatesMatchErp` speaks of
  the end of a run; `MatchInv` says at each step of it which rows about an
  untouched customer may be there, and are there if no insert of theirs has failed
  (`Expected`): those of `Marks` for each of the ERP's rows that is done (`Waits`), and,
  of a customer without a row, one for each identity the second pass has come to
  (`Unseen`). A failed clearing leaves customers untouched only if no row is about them
  or about an identity of theirs. `ExpectedRows` says what those rows are worth to the
  readers, `ListsOfRows` what the three lists are. `PageInv` says that a page nothing has
  torn shows what the table says now, by which `ShownOnce` follows from `MatchInv`.

### Accounts

`SupervisorsProofs`: `TypeCorrect`, `SomeoneIsLeft` (`Spec => []SomeoneLeft`) and
`LastAdmin` (`Spec => LastAdminGoesAlone`). Neither is inductive: that an account
is left after a deletion follows from what was true when it was asked for. The
strengthening (`Guarded`) says that, while no two deletions have overlapped, at
most one is under way, it spares an account, and whoever asked for it is still
an administrator; and that a running application has an account. Its preservation
by `Delete` is the point at which an overlap would break it.

### Assumptions

Those of the modules, and TLC evaluates each of them in the runs:
`RegistryAssumption` (`NoKey` is not a key and the bounds are natural numbers),
`AccountingAssumption` and `VolumeAssumption` (there are a thread, and a day after
the first; volumes are not 0, and the window is divided by the daily one),
`NetworkAssumption` and the portal's (what is no device, address or key is none of them),
`SupervisorAssumption` (the initial name is a name, and there is room for an
account), `TenantsAssumption` (numbers of rows are positive, and there are a
dormitory and a room), `NoneAssumption` and `ErpAssumption` (NULL is none of the
values of a column).

### Only model-checked

Liveness under fairness, which is out of the prover's reach: `DueIsDone`, and
`UsedUpIsSlowed`, `VolumeIsSpeed` and `DailyRow` of `Accounting_live`. The four
violation runs, whose properties are false. Of `DailyCredit` it is proved that
the credit is a number, not what it is worth.

## 5. Not modelled

- Statistics, reports and lists: queries that change no state.
- Vouchers, dormitories, notifications, passwords: single rows without a second
  copy, written in one commit.
- Class ids and queueing disciplines of tc; the STATELESS mode, in which the kernel
  is not managed; counters of excepted addresses, which limit nothing.
- A key's own daily and maximum volume: `NewCredit` takes them as parameters, but
  the pass is modelled with those of the configuration.
- Layout, translations, plumbing of Flask and XML-RPC.

## 6. Plan

Done: the registry with its abstract promise, accounting, identities and
housekeeping, the portal on the network the watchdog works on, accounts, the
ERP integration, and a proof of each safety property the runs check. Next:

1. An abstract specification of `Accounting`: an account that is charged what was
   used, once, refined by the pass while no two overlap, with its proof.
2. Lemmas about `DailyCredit`: a credit that follows a row of yesterday is at most
   the maximum, and never shrinks below the day's volume without use.
3. That the overlap is needed: an abstract specification of the daily rows for any
   number of passes, and what it still promises.
