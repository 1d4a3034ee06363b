----------------------------- MODULE Accounting -----------------------------
(***************************************************************************)
(* The accounting of traffy-server: the kernel counts each key's traffic,  *)
(* and every few seconds a pass of the accounting thread reads the         *)
(* counters, resets them, charges the traffic to the key's row of the day, *)
(* and puts a key that has used up its volume on the list of shaped keys,  *)
(* or takes it off.                                                        *)
(*                                                                         *)
(* A pass sees the database as it was when its transaction began; the      *)
(* transaction begins with the first query of the pass and again after     *)
(* each commit.  An exception ends the pass: the keys after it are not     *)
(* charged, though their counters have been reset.  Adding a key starts a  *)
(* new thread and tells the old one to stop, which it does after one more  *)
(* pass: passes of two threads can overlap.                                *)
(*                                                                         *)
(* Devices and their order of commits are the matter of module Registry;   *)
(* here a key has devices or none, and all or none of them have filters.   *)
(***************************************************************************)
EXTENDS DailyCredit, FiniteSets, SequencesExt

CONSTANTS NKeys,      \* bound: keys ever added
          InitKeys,   \* how many keys may be there to begin with
          NThreads,   \* bound: accounting threads alive at a time
          LastDay,    \* bound: days
          MaxSent,    \* bound: units of traffic a key ever sends
          Requests,   \* the administrators' requests there are
          MaxEdits    \* bound: requests ever made

ASSUME AccountingAssumption ==
    /\ NKeys \in Nat /\ InitKeys \subseteq 0..NKeys
    /\ NThreads \in Nat \ {0} /\ LastDay \in Nat \ {0}
    /\ MaxSent \in Nat /\ MaxEdits \in Nat
    /\ Requests \subseteq {"register", "deregister", "activate", "deactivate",
                           "credit", "exempt", "include", "restart"}

VARIABLES
    \* database
    known,      \* keys added so far: 1..known
    active,     \* keys that are active
    exempt,     \* keys with enable_accounting = False
    paired,     \* keys with devices
    rows,       \* per key, its rows of traffic
    \* kernel
    counted,    \* keys with counters
    counter,    \* per key: traffic since the counters were last reset
    filtered,   \* keys whose devices have filters
    \* process
    shaped,     \* AccountingService.shaped_reg_keys
    rpc,        \* the request that is half done
    pass,       \* per accounting thread: where it is
    \* environment and history
    today,      \* the date
    sent,       \* per key: traffic sent while there were counters
    edits,      \* requests so far
    leaky,      \* keys that lost traffic in a way named in Lose
    overlapped  \* two passes were under way at the same time

dbVars      == <<known, active, exempt, paired, rows>>
kernelVars  == <<counted, counter, filtered>>
historyVars == <<sent, edits, leaky, overlapped>>
vars == <<dbVars, kernelVars, shaped, rpc, pass, today, historyVars>>

Keys == 1..NKeys

Threads == 1..NThreads

None == -1   \* a counter that is missing from the listing

-----------------------------------------------------------------------------
(* Threads *)

NoView == [active |-> {}, exempt |-> {}, paired |-> {}, rows |-> <<>>]

\* What a transaction that begins now sees.
Snapshot == [active |-> active, exempt |-> exempt, paired |-> paired,
             rows |-> rows]

Pass(pc, run, view, snap, todo, key) ==
    [pc |-> pc, run |-> run, view |-> view, snap |-> snap, todo |-> todo,
     key |-> key]

NoSnap == [k \in Keys |-> None]

Off    == Pass("off", FALSE, NoView, NoSnap, {}, 0)
Asleep == Pass("sleep", TRUE, NoView, NoSnap, {}, 0)

\* A thread that has been told to stop ends with its pass.
Rest(t) == IF pass[t].run THEN Asleep ELSE Off

Working(t) == pass[t].pc \notin {"off", "sleep"}

Set(t, p) == pass' = [pass EXCEPT ![t] = p]

\* The key's turn is over; a commit has ended the transaction.
AfterCommit(t, k) ==
    LET left == pass[t].todo \ {k} IN
    Set(t, IF left = {} THEN Rest(t)
           ELSE [pass[t] EXCEPT !.pc = "load", !.todo = left, !.key = 0,
                                !.view = NoView])

\* The key's turn is over without a commit.
Skip(t, k) ==
    LET left == pass[t].todo \ {k} IN
    Set(t, IF left = {} THEN Rest(t) ELSE [pass[t] EXCEPT !.todo = left])

Turn(t, k) ==
    /\ pass[t].pc = "charge"
    /\ k \in pass[t].todo /\ \A j \in pass[t].todo : k <= j

\* Traffic is lost, on purpose or not: it passed between the listing and the
\* reset of the counters; the pass raised before the key's turn; the key is
\* not charged at its turn (inactive, exempt, without devices, or a new row
\* that could not be written); its counters were deleted; or the process
\* stopped.
Lose(ks) == leaky' = leaky \cup ks

Snapped(t, ks) == {k \in ks : pass[t].snap[k] > 0}

-----------------------------------------------------------------------------
(* A pass: AccountingThread.query_active_boxes *)

Wake(t) ==
    /\ pass[t].pc = "sleep"
    /\ Set(t, [pass[t] EXCEPT !.pc = "list", !.view = Snapshot])
    /\ overlapped' = (overlapped \/ \E u \in Threads : Working(u))
    /\ UNCHANGED <<dbVars, kernelVars, shaped, rpc, today, sent, edits, leaky>>

ListCounters(t) ==
    /\ pass[t].pc = "list"
    /\ Set(t, [pass[t] EXCEPT !.pc = "reset",
                  !.snap = [k \in Keys |-> IF k \in counted THEN counter[k]
                                           ELSE None]])
    /\ UNCHANGED <<dbVars, kernelVars, shaped, rpc, today, historyVars>>

\* Bug: the counters are not reset.
KeepCounters(t) ==
    /\ pass[t].pc = "reset"
    /\ Lose({})
    /\ Set(t, [pass[t] EXCEPT !.pc = "charge",
                  !.todo = DOMAIN pass[t].view.rows])
    /\ UNCHANGED <<dbVars, kernelVars, shaped, rpc, today, sent, edits,
                   overlapped>>

ResetCounters(t) ==
    LET keys == DOMAIN pass[t].view.rows
        late == {k \in counted : counter[k] > 0 /\ counter[k] # pass[t].snap[k]}
    IN  /\ pass[t].pc = "reset"
        /\ counter' = [k \in Keys |-> 0]
        /\ Lose(late \cup Snapped(t, Keys \ keys))
        /\ Set(t, IF keys = {} THEN Rest(t)
                  ELSE [pass[t] EXCEPT !.pc = "charge", !.todo = keys])
        /\ UNCHANGED <<dbVars, counted, filtered, shaped, rpc, today, sent,
                       edits, overlapped>>

Load(t) ==
    /\ pass[t].pc = "load"
    /\ Set(t, [pass[t] EXCEPT !.pc = "charge", !.view = Snapshot])
    /\ UNCHANGED <<dbVars, kernelVars, shaped, rpc, today, historyVars>>

\* An exception: every key whose turn has not come loses what was counted.
Abort(t) ==
    /\ Lose(Snapped(t, pass[t].todo))
    /\ Set(t, Rest(t))
    /\ UNCHANGED <<dbVars, kernelVars, shaped>>

-----------------------------------------------------------------------------
(* A key's turn: AccountingThread.update_interval_used_traffic *)

\* Bug: a row with a missing value is accepted.
AnyValue(s) == TRUE

\* Bug: zero is taken for a missing value.
Truthy(s) == s \notin {None, 0}

\* The columns are NOT NULL: a row without a value is rolled back.
Written(s) == s # None

\* Bug: a volume that is used up to the last unit is not used up.
Exceeded(row, s) == row.used + s > row.credit \/ row.credit <= 0

\* Bug: the traffic of shaped devices counts as well.
OverWithFree(row, s) ==
    row.used + row.free + s >= row.credit \/ row.credit <= 0

Over(row, s) == row.used + s >= row.credit \/ row.credit <= 0

\* Bug: the shaper is asked instead of the list.
HasFilters(k) == k \in filtered

Listed(k) == k \in ToSet(shaped)

\* The traffic goes to ingress and egress, or to the columns that do not count.
Charge(row, s, free) ==
    IF free THEN [row EXCEPT !.free = @ + s] ELSE [row EXCEPT !.used = @ + s]

NewRow(credit, s, free) ==
    Charge([day |-> today, credit |-> credit, used |-> 0, free |-> 0], s, free)

\* The key is not accounted: not active, or accounting is switched off.
SkipKey(t, k) ==
    LET v == pass[t].view IN
    /\ Turn(t, k)
    /\ k \notin v.active \/ k \in v.exempt
    /\ Lose(Snapped(t, {k}))
    /\ Skip(t, k)
    /\ UNCHANGED <<dbVars, kernelVars, shaped, rpc, today, sent, edits,
                   overlapped>>

Charging(t, k) == Turn(t, k) /\ k \in pass[t].view.active \ pass[t].view.exempt

\* What is charged: nothing if the key has no devices.
Traffic(t, k) == IF k \in pass[t].view.paired THEN pass[t].snap[k] ELSE 0

\* The first pass of the day: a row with the volume carried over.  The volumes
\* are those of the configuration, not a key's own.
FirstOfDay(t, k) ==
    LET rs     == pass[t].view.rows[k]
        credit == NewCredit(rs, today, TopUp, MaxSaved)
        s      == Traffic(t, k)
    IN \E free \in BOOLEAN :
       /\ Charging(t, k)
       /\ ~HasRow(rs, today)
       /\ rows' = IF Written(s)
                  THEN [rows EXCEPT ![k] = Append(@, NewRow(credit, s, free))]
                  ELSE rows
       /\ Lose(IF k \in pass[t].view.paired THEN {} ELSE Snapped(t, {k}))
       /\ AfterCommit(t, k)
       /\ UNCHANGED <<known, active, exempt, paired, kernelVars, shaped, rpc,
                      today, sent, edits, overlapped>>

\* Later in the day nothing is written for a key without devices.
WithoutDevices(t, k) ==
    /\ Charging(t, k)
    /\ k \notin pass[t].view.paired
    /\ HasRow(pass[t].view.rows[k], today)
    /\ Lose(Snapped(t, {k}))
    /\ Skip(t, k)
    /\ UNCHANGED <<dbVars, kernelVars, shaped, rpc, today, sent, edits,
                   overlapped>>

\* A key with devices whose counters were not in the listing: None is added to
\* a number, and the pass raises.
NoCounters(t, k) ==
    /\ Charging(t, k) /\ Traffic(t, k) = None
    /\ HasRow(pass[t].view.rows[k], today)
    /\ Abort(t)
    /\ UNCHANGED <<rpc, today, sent, edits, overlapped>>

\* The column that changes is written: what the transaction saw there, and the
\* traffic.  The commit ends the transaction.
Update(t, k, free) ==
    LET rs == pass[t].view.rows[k]
        i  == FirstRow(rs, today)
        r  == Charge(rs[i], Traffic(t, k), free)
    IN  rows' = CASE Traffic(t, k) = 0 -> rows
                  [] Traffic(t, k) # 0 /\ free ->
                        [rows EXCEPT ![k][i].free = r.free]
                  [] OTHER -> [rows EXCEPT ![k][i].used = r.used]

OnRow(t, k, over) ==
    LET rs == pass[t].view.rows[k] IN
    /\ Charging(t, k)
    /\ k \in pass[t].view.paired /\ Traffic(t, k) # None
    /\ HasRow(rs, today)
    /\ over = Over(rs[FirstRow(rs, today)], Traffic(t, k))

\* Volume left and not shaped: in a time range without limits the traffic does
\* not count.
WithinVolume(t, k) ==
    \E free \in BOOLEAN :
       /\ OnRow(t, k, FALSE) /\ ~Listed(k)
       /\ Update(t, k, free)
       /\ AfterCommit(t, k)
       /\ UNCHANGED <<known, active, exempt, paired, kernelVars, shaped, rpc,
                      today, historyVars>>

\* No volume left and shaped already.
StaysShaped(t, k) ==
    /\ OnRow(t, k, TRUE) /\ Listed(k)
    /\ Update(t, k, TRUE)
    /\ AfterCommit(t, k)
    /\ UNCHANGED <<known, active, exempt, paired, kernelVars, shaped, rpc,
                   today, historyVars>>

\* The key's turn goes on after the commit.
GoOn(t, k, pc) ==
    Set(t, [pass[t] EXCEPT !.pc = pc, !.key = k, !.view = NoView,
                           !.todo = @ \ {k}])

\* The transaction that began with this step is also that of the next key.
EndTurn(t) ==
    Set(t, IF pass[t].todo = {} THEN Rest(t)
           ELSE [pass[t] EXCEPT !.pc = "charge", !.key = 0, !.view = Snapshot])

\* No volume left: the key is charged, then listed, then its devices shaped.
UsesUp(t, k) ==
    \E free \in BOOLEAN :
       /\ OnRow(t, k, TRUE) /\ ~Listed(k)
       /\ Update(t, k, free)
       /\ GoOn(t, k, "shape")
       /\ UNCHANGED <<known, active, exempt, paired, kernelVars, shaped, rpc,
                      today, historyVars>>

Shape(t) ==
    LET k == pass[t].key IN
    /\ pass[t].pc = "shape"
    /\ shaped'   = Append(shaped, k)
    /\ filtered' = filtered \cup ({k} \cap paired)
    /\ EndTurn(t)
    /\ UNCHANGED <<dbVars, counted, counter, rpc, today, historyVars>>

\* There is volume again: the filters go (which raises if there are none),
\* the key is charged, then taken off the list.
Recovers(t, k) ==
    /\ OnRow(t, k, FALSE) /\ Listed(k)
    /\ \/ /\ k \notin filtered
          /\ Abort(t)
       \/ /\ k \in filtered
          /\ filtered' = filtered \ {k}
          /\ Update(t, k, TRUE)
          /\ GoOn(t, k, "unlist")
          /\ UNCHANGED <<known, active, exempt, paired, counted, counter,
                         shaped, leaky>>
    /\ UNCHANGED <<rpc, today, sent, edits, overlapped>>

Unlist(t) ==
    /\ pass[t].pc = "unlist"
    /\ shaped' = RemoveFirst(shaped, pass[t].key)
    /\ EndTurn(t)
    /\ UNCHANGED <<dbVars, kernelVars, rpc, today, historyVars>>

-----------------------------------------------------------------------------
(* Requests.  One at a time; those that take more than one commit or command *)
(* leave what is owed in rpc.                                                *)

NoRpc == [op |-> "none", key |-> 0]

Ask(request) ==
    /\ request \in Requests
    /\ rpc = NoRpc
    /\ edits < MaxEdits
    /\ edits' = edits + 1

\* The row of today, or else of yesterday: __verify_todays_traffic_query.
LatestDay(k) == IF HasRow(rows[k], today) THEN today ELSE today - 1

\* set_custom_credit: so much volume is left from now on.  Without a row of
\* these days the request fails.
SetCredit(k, amount) ==
    LET i == FirstRow(rows[k], LatestDay(k)) IN
    /\ Ask("credit")
    /\ HasRow(rows[k], LatestDay(k))
    /\ rows' = [rows EXCEPT ![k][i].credit = amount + rows[k][i].used]
    /\ UNCHANGED <<known, active, exempt, paired, kernelVars, shaped, rpc, pass,
                   today, sent, leaky, overlapped>>

DisableAccounting(k) ==
    /\ Ask("exempt")
    /\ exempt' = exempt \cup {k}
    /\ UNCHANGED <<known, active, paired, rows, kernelVars, shaped, rpc, pass,
                   today, sent, leaky, overlapped>>

EnableAccounting(k) ==
    /\ Ask("include")
    /\ exempt' = exempt \ {k}
    /\ UNCHANGED <<known, active, paired, rows, kernelVars, shaped, rpc, pass,
                   today, sent, leaky, overlapped>>

\* is_reg_key_shaped: today's row, not the list.
OverToday(k) ==
    /\ HasRow(rows[k], today)
    /\ LET row == rows[k][FirstRow(rows[k], today)]
       IN  row.used >= row.credit \/ row.credit <= 0

\* The first device of a key.
Register(k) ==
    /\ Ask("register")
    /\ k \in active \ paired
    /\ paired' = paired \cup {k}
    /\ rpc' = [op |-> "register", key |-> k]
    /\ UNCHANGED <<known, active, exempt, rows, kernelVars, shaped, pass, today,
                   sent, leaky, overlapped>>

Activate(k) ==
    /\ Ask("activate")
    /\ k \notin active
    /\ active' = active \cup {k}
    /\ rpc' = [op |-> "activate", key |-> k]
    /\ UNCHANGED <<known, exempt, paired, rows, kernelVars, shaped, pass, today,
                   sent, leaky, overlapped>>

\* Counters and filters of the devices that are there now.
SetUp ==
    LET k    == rpc.key
        slow == IF rpc.op = "register" THEN Listed(k) ELSE OverToday(k)
    IN  /\ rpc.op \in {"register", "activate"}
        /\ counted'  = counted \cup ({k} \cap paired)
        /\ filtered' = IF slow THEN filtered \cup ({k} \cap paired) ELSE filtered
        /\ rpc' = NoRpc
        /\ UNCHANGED <<dbVars, counter, shaped, pass, today, historyVars>>

\* The last device of a key.  A listed key without filters makes the request
\* raise before it has deleted anything.
Deregister(k) ==
    /\ Ask("deregister")
    /\ k \in paired
    /\ \/ /\ Listed(k) /\ k \notin filtered
          /\ UNCHANGED <<paired, filtered, rpc>>
       \/ /\ Listed(k) => k \in filtered
          /\ paired'   = paired \ {k}
          /\ filtered' = IF Listed(k) THEN filtered \ {k} ELSE filtered
          /\ rpc' = [op |-> "deregister", key |-> k]
    /\ UNCHANGED <<known, active, exempt, rows, counted, counter, shaped, pass,
                   today, sent, leaky, overlapped>>

DropCounters(k) ==
    /\ counted' = counted \ {k}
    /\ counter' = [counter EXCEPT ![k] = 0]
    /\ Lose(IF counter[k] > 0 THEN {k} ELSE {})

TearDown ==
    /\ rpc.op = "deregister"
    /\ DropCounters(rpc.key)
    /\ rpc' = NoRpc
    /\ UNCHANGED <<dbVars, filtered, shaped, pass, today, sent, edits,
                   overlapped>>

Deactivate(k) ==
    /\ Ask("deactivate")
    /\ k \in active
    /\ DropCounters(k)
    /\ rpc' = [op |-> "deactivate", key |-> k]
    /\ UNCHANGED <<dbVars, filtered, shaped, pass, today, sent, overlapped>>

\* Ending the shaping of a key without filters raises: the key stays active,
\* without counters.
EndDeactivate ==
    LET k     == rpc.key
        slow  == OverToday(k) /\ k \in paired
        fails == slow /\ k \notin filtered
    IN  /\ rpc.op = "deactivate"
        /\ active'   = IF fails THEN active ELSE active \ {k}
        /\ filtered' = IF slow THEN filtered \ {k} ELSE filtered
        /\ rpc' = NoRpc
        /\ UNCHANGED <<known, exempt, paired, rows, counted, counter, shaped,
                       pass, today, historyVars>>

\* add_registration_code: the key, its first row, and a new accounting thread;
\* the one before ends with the pass it sleeps before or is in.
AddKey ==
    \E t \in Threads :
       /\ rpc = NoRpc
       /\ known < NKeys /\ edits < MaxEdits
       /\ edits' = edits + 1
       /\ pass[t].pc = "off" /\ \A u \in 1..(t - 1) : pass[u].pc # "off"
       /\ known'  = known + 1
       /\ active' = active \cup {known + 1}
       /\ rows'   = Append(rows, <<NewRow(Initial, 0, FALSE)>>)
       /\ pass'   = [u \in Threads |-> IF u = t THEN Asleep
                                       ELSE [pass[u] EXCEPT !.run = FALSE]]
       /\ UNCHANGED <<exempt, paired, kernelVars, shaped, rpc, today,
                      sent, leaky, overlapped>>

-----------------------------------------------------------------------------
(* The environment *)

Send(k) ==
    /\ k \in counted
    /\ sent[k] < MaxSent
    /\ counter' = [counter EXCEPT ![k] = @ + 1]
    /\ sent'    = [sent EXCEPT ![k] = @ + 1]
    /\ UNCHANGED <<dbVars, counted, filtered, shaped, rpc, pass, today, edits,
                   leaky, overlapped>>

Midnight ==
    /\ today < LastDay
    /\ today' = today + 1
    /\ UNCHANGED <<dbVars, kernelVars, shaped, rpc, pass, historyVars>>

Pending(t, k) ==
    IF pass[t].pc \in {"charge", "load", "shape", "unlist"}
       /\ k \in pass[t].todo /\ pass[t].snap[k] > 0
    THEN pass[t].snap[k] ELSE 0

\* The process stops, orderly or with the machine, and starts again: the
\* kernel's tables are set up from the database.
Restart ==
    /\ "restart" \in Requests /\ edits < MaxEdits
    /\ edits' = edits + 1
    /\ rpc' = NoRpc
    /\ counted' = active \cap paired
    /\ counter' = [k \in Keys |-> 0]
    /\ filtered' = {} /\ shaped' = <<>>
    /\ pass' = [t \in Threads |-> IF t = 1 THEN Asleep ELSE Off]
    /\ Lose({k \in Keys : counter[k] > 0 \/ \E t \in Threads : Pending(t, k) > 0})
    /\ UNCHANGED <<dbVars, today, sent, overlapped>>

-----------------------------------------------------------------------------

\* The process has just started.  The keys that are there have been added on an
\* earlier day; counters are set up for those with devices.
Init ==
    /\ known \in InitKeys /\ active = 1..known
    /\ exempt = {} /\ paired \in SUBSET (1..known)
    /\ today = 1
    /\ rows = [k \in 1..known |->
                 <<[day |-> 0, credit |-> Initial, used |-> 0, free |-> 0]>>]
    /\ counted = paired /\ counter = [k \in Keys |-> 0]
    /\ filtered = {} /\ shaped = <<>>
    /\ rpc = NoRpc
    /\ pass = [t \in Threads |-> IF t = 1 THEN Asleep ELSE Off]
    /\ sent = [k \in Keys |-> 0]
    /\ edits = 0 /\ leaky = {} /\ overlapped = FALSE

PassStep(t) ==
    \/ Wake(t) \/ ListCounters(t) \/ ResetCounters(t) \/ Load(t)
    \/ \E k \in 1..known :
          \/ SkipKey(t, k) \/ FirstOfDay(t, k) \/ WithoutDevices(t, k)
          \/ NoCounters(t, k) \/ WithinVolume(t, k) \/ StaysShaped(t, k)
          \/ UsesUp(t, k) \/ Recovers(t, k)
    \/ Shape(t) \/ Unlist(t)

Request ==
    \/ \E k \in 1..known :
          \/ \E amount \in 1..TopUp : SetCredit(k, amount)
          \/ DisableAccounting(k) \/ EnableAccounting(k)
          \/ Register(k) \/ Deregister(k) \/ Activate(k) \/ Deactivate(k)
    \/ AddKey
    \/ Restart

RequestStep == SetUp \/ TearDown \/ EndDeactivate

Next ==
    \/ \E t \in Threads : PassStep(t)
    \/ Request
    \/ RequestStep
    \/ \E k \in 1..known : Send(k)
    \/ Midnight

Spec == Init /\ [][Next]_vars

\* A thread that sleeps wakes up, a pass goes on, and a request that has begun
\* ends; nobody is obliged to ask or to send anything.
Fairness ==
    /\ \A t \in Threads : WF_vars(PassStep(t))
    /\ WF_vars(RequestStep)

FairSpec == Spec /\ Fairness

-----------------------------------------------------------------------------
(* Properties *)

Row == [day : 0..LastDay, credit : Int, used : Nat, free : Nat]

\* Every variable has its type.
TypeOK ==
    /\ known \in 0..NKeys
    /\ active \subseteq 1..known /\ exempt \subseteq 1..known
    /\ paired \subseteq 1..known /\ counted \subseteq paired \cup {rpc.key}
    /\ Len(rows) = known /\ \A k \in 1..known : rows[k] \in Seq(Row)
    /\ counter \in [Keys -> Nat] /\ filtered \subseteq 1..known
    /\ shaped \in Seq(1..known)
    /\ rpc \in [op : {"none", "register", "activate", "deregister",
                      "deactivate"}, key : 0..known]
    /\ \A t \in Threads :
          /\ pass[t].pc \in {"off", "sleep", "list", "reset", "load", "charge",
                             "shape", "unlist"}
          /\ pass[t].todo \subseteq 1..known /\ pass[t].key \in 0..known
          /\ pass[t].pc = "charge" => pass[t].todo # {}
    /\ today \in 0..LastDay
    /\ leaky \subseteq Keys /\ overlapped \in BOOLEAN

\* All traffic in the rows of a key.
Total(rs) ==
    LET total[n \in 0..Len(rs)] ==
           IF n = 0 THEN 0 ELSE total[n - 1] + rs[n].used + rs[n].free
    IN  total[Len(rs)]

Recorded(k) == IF k > known THEN 0 ELSE Total(rows[k])

Seen(t, k) == Recorded(k) + counter[k] + Pending(t, k)

\* While passes do not overlap, at most one of them has traffic to charge, no
\* unit of traffic is charged twice, whatever happens between the listing, the
\* reset and the key's turn; and none is lost but in the ways Lose names.
TrafficConserved ==
    ~overlapped =>
      \A k \in Keys : \E t \in Threads :
        /\ \A u \in Threads \ {t} : Pending(u, k) = 0
        /\ Seen(t, k) <= sent[k]
        /\ k \notin leaky => Seen(t, k) = sent[k]

\* While passes do not overlap, a key has one row per day, in the order of the
\* days, although no unique index says so.
OneRowPerDay ==
    ~overlapped =>
      \A k \in 1..known : \A i, j \in 1..Len(rows[k]) :
         i < j => rows[k][i].day < rows[k][j].day

\* While passes do not overlap, no key is twice on the list of shaped keys: it
\* would be shaped for ever.
ListedOnce == ~overlapped => IsInjective(shaped)

Accounted(k) ==
    /\ k \in 1..known
    /\ k \in active \cap paired \cap counted
    /\ k \notin exempt

\* A key that has used up today's volume is slowed down.
UsedUpIsSlowed ==
    \A k \in Keys :
       (Accounted(k) /\ OverToday(k)) ~>
          (k \in filtered \/ ~(Accounted(k) /\ OverToday(k)))

WithVolume(k) == Accounted(k) /\ HasRow(rows[k], today) /\ ~OverToday(k)

\* A key that has volume today, after midnight or after an administrator gave
\* it some, gets its speed back.
VolumeIsSpeed ==
    \A k \in Keys : WithVolume(k) ~> (k \notin filtered \/ ~WithVolume(k))

\* Every active key gets its row of the day, devices or not.
DailyRow ==
    \A k \in Keys :
       (k \in active \ exempt) ~>
          (HasRow(rows[k], today) \/ k \notin active \ exempt)

\* The instructions a tenant gets say: "your remaining data volume will be
\* transferred to the following day. This allows you to save a total amount of"
\* MAX_SAVED_VOLUME.  (Nobody sets a credit by hand.)
NoMoreThanSaved ==
    \A k \in 1..known : \A i \in 1..Len(rows[k]) :
       rows[k][i].credit <= MaxSaved

\* The administrator's page says of switching off the accounting of a user:
\* "Use this to grant unlimited traffic to this user."
ExemptIsUnlimited ==
    \A k \in Keys : (k \in exempt) ~> (k \notin filtered \/ k \notin exempt)
=============================================================================
