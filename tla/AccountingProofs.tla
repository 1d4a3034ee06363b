--------------------------- MODULE AccountingProofs ---------------------------
(***************************************************************************)
(* Proofs about Accounting: its types, that a key gets one row a day, that *)
(* no key is listed twice, and that no traffic is charged twice nor lost   *)
(* unnoticed, as long as passes do not overlap.                            *)
(***************************************************************************)
EXTENDS Accounting, SequenceTheorems, WellFoundedInduction, TLAPS

-----------------------------------------------------------------------------
(* Types *)

PassPcs == {"off", "sleep", "list", "reset", "load", "charge", "shape", "unlist"}

View == [active : SUBSET Keys, exempt : SUBSET Keys, paired : SUBSET Keys,
         rows : Seq(Seq(Row))]

PassRecord == [pc : PassPcs, run : BOOLEAN, view : View,
               snap : [Keys -> Nat \cup {None}], todo : SUBSET Keys,
               key : Keys \cup {0}]

\* What a pass still has to do concerns keys that are there, and that its
\* transaction has seen.
PassOK(p, m) ==
    /\ p.todo \subseteq 1..m /\ p.key \in 0..m
    /\ Len(p.view.rows) <= m
    /\ p.pc \in {"charge", "load"} => p.todo # {}
    /\ p.pc = "charge" => p.todo \subseteq 1..Len(p.view.rows)
    /\ p.pc \in {"shape", "unlist"} => p.key \in 1..m

RowsType ==
    /\ known \in 0..NKeys
    /\ active \subseteq 1..known /\ exempt \subseteq 1..known
    /\ paired \subseteq 1..known
    /\ rows \in Seq(Seq(Row)) /\ Len(rows) = known

\* Counters belong to keys with devices, but for the one whose last device is
\* just going.
CountersType ==
    /\ counter \in [Keys -> Nat]
    /\ counted \subseteq 1..known /\ filtered \subseteq 1..known
    /\ counted \subseteq paired \cup {rpc.key}
    /\ rpc.op # "deregister" => counted \subseteq paired

ProcessType ==
    /\ shaped \in Seq(1..known)
    /\ rpc \in [op : {"none", "register", "activate", "deregister", "deactivate"},
                key : 0..known]
    /\ rpc.op # "none" => rpc.key \in 1..known

PassType == pass \in [Threads -> PassRecord] /\ \A t \in Threads : PassOK(pass[t], known)

HistoryType ==
    /\ sent \in [Keys -> Nat] /\ leaky \subseteq Keys /\ overlapped \in BOOLEAN
    /\ today \in 0..LastDay

TypeInv == RowsType /\ CountersType /\ ProcessType /\ PassType /\ HistoryType

LEMMA Bounds == NKeys \in Nat /\ LastDay \in Nat /\ Initial \in Nat /\ TopUp \in Nat \ {0}
                /\ MaxSaved \in Nat /\ NThreads \in Nat \ {0}
  BY AccountingAssumption, VolumeAssumption

LEMMA KnownKeys == ASSUME RowsType PROVE 1..known \subseteq Keys /\ 0..known \subseteq Keys \cup {0}
  BY Bounds DEF RowsType, Keys

-----------------------------------------------------------------------------
(* Rows of a day *)

LEMMA LeastNatural ==
    ASSUME NEW S, S \subseteq Nat, S # {}
    PROVE  \E x \in S : \A y \in S : x <= y
  <1>1. PICK x \in S : \A y \in S : ~ (<<y, x>> \in OpToRel(<, Nat))
    BY WFMin, NatLessThanWellFounded
  <1>2. ASSUME NEW y \in S PROVE x <= y
    <2>1. <<y, x>> \in Nat \X Nat
      OBVIOUS
    <2>2. ~ (<<y, x>>[1] < <<y, x>>[2])
      BY <1>1, <2>1, Zenon DEF OpToRel
    <2> QED  BY <2>2
  <1> QED  BY <1>2

\* The row that is found for a day is the first of that day.
LEMMA FirstRowFound ==
    ASSUME NEW rs \in Seq(Row), NEW day, HasRow(rs, day)
    PROVE  /\ FirstRow(rs, day) \in 1..Len(rs) /\ rs[FirstRow(rs, day)].day = day
           /\ rs[FirstRow(rs, day)] \in Row
           /\ \A j \in 1..Len(rs) : rs[j].day = day => FirstRow(rs, day) <= j
  <1>1. RowsOf(rs, day) \subseteq Nat /\ RowsOf(rs, day) # {}
    BY DEF RowsOf, HasRow
  <1>2. \E i \in RowsOf(rs, day) : \A j \in RowsOf(rs, day) : i <= j
    BY <1>1, LeastNatural
  <1>3. /\ FirstRow(rs, day) \in RowsOf(rs, day)
        /\ \A j \in RowsOf(rs, day) : FirstRow(rs, day) <= j
    BY <1>2 DEF FirstRow
  <1> QED  BY <1>3 DEF RowsOf

\* The volume of a new row is a number.
LEMMA NewCreditType ==
    ASSUME NEW rs \in Seq(Row), NEW day \in Int
    PROVE  NewCredit(rs, day, TopUp, MaxSaved) \in Int
  <1>1. CASE HasRow(rs, day - 1)
    <2>1. rs[FirstRow(rs, day - 1)] \in Row
      BY <1>1, FirstRowFound
    <2> DEFINE r == rs[FirstRow(rs, day - 1)]
    <2>2. r.credit \in Int /\ r.used \in Int
      BY <2>1 DEF Row
    <2> HIDE DEF r
    <2>3. CarryOver(r, TopUp, MaxSaved) \in Int
      BY <2>2, Bounds DEF CarryOver, AtMost
    <2> QED  BY <1>1, <2>3 DEF NewCredit, r
  <1>2. CASE ~HasRow(rs, day - 1) /\ rs # <<>>
    <2>1. LookBack(rs, day) \in Int
      <3>1. CASE Recent(rs, day) = {}
        BY <3>1 DEF LookBack
      <3>2. CASE Recent(rs, day) # {}
        <4> DEFINE ago == {day - d : d \in Recent(rs, day)}
        <4>0. \A d \in Recent(rs, day) : d \in Int /\ day - d \in Nat
          BY Bounds DEF Recent, Window
        <4>1. ago \subseteq Nat /\ ago # {}
          BY <3>2, <4>0
        <4>2. PICK x \in ago : \A y \in ago : x <= y
          BY <4>1, LeastNatural
        <4>3. \E d \in Recent(rs, day) : \A e \in Recent(rs, day) : e <= d
          <5>1. PICK d \in Recent(rs, day) : x = day - d
            OBVIOUS
          <5>2. ASSUME NEW e \in Recent(rs, day) PROVE e <= d
            <6>1. x <= day - e
              BY <4>2
            <6> QED  BY <4>0, <5>1, <6>1
          <5> QED  BY <5>2
        <4> DEFINE last == CHOOSE d \in Recent(rs, day) :
                              \A e \in Recent(rs, day) : e <= d
        <4>4. last \in Recent(rs, day)
          BY <4>3
        <4>5. rs[FirstRow(rs, last)] \in Row
          BY <4>4, FirstRowFound DEF Recent
        <4>6. LookBack(rs, day) = rs[FirstRow(rs, last)].credit + TopUp
          BY <3>2 DEF LookBack
        <4> HIDE DEF last
        <4> QED  BY <4>5, <4>6, Bounds DEF Row
      <3> QED  BY <3>1, <3>2
    <2> QED  BY <1>2, <2>1 DEF NewCredit
  <1>3. CASE ~HasRow(rs, day - 1) /\ rs = <<>>
    BY <1>3, Bounds DEF NewCredit
  <1> QED  BY <1>1, <1>2, <1>3

LEMMA ChargeType ==
    ASSUME NEW r \in Row, NEW s \in Nat, NEW free
    PROVE  Charge(r, s, free) \in Row
  BY DEF Charge, Row

LEMMA NewRowType ==
    ASSUME TypeInv, NEW credit \in Int, NEW s \in Nat, NEW free
    PROVE  /\ NewRow(credit, s, free) \in Row
           /\ NewRow(credit, s, free).day = today
  <1>1. [day |-> today, credit |-> credit, used |-> 0, free |-> 0] \in Row
    BY DEF TypeInv, HistoryType, Row
  <1> QED  BY <1>1, ChargeType DEF NewRow, Charge, Row

-----------------------------------------------------------------------------
(* The steps of a pass *)

LEMMA SnapshotType ==
    ASSUME TypeInv
    PROVE  /\ Snapshot \in View /\ Len(Snapshot.rows) = known
           /\ NoView \in View /\ Len(NoView.rows) = 0
  BY KnownKeys DEF TypeInv, RowsType, Snapshot, NoView, View

LEMMA RestType ==
    ASSUME TypeInv, NEW t
    PROVE  /\ Rest(t) \in PassRecord /\ \A m \in Nat : PassOK(Rest(t), m)
           /\ Asleep \in PassRecord /\ \A m \in Nat : PassOK(Asleep, m)
           /\ Off \in PassRecord /\ \A m \in Nat : PassOK(Off, m)
           /\ Rest(t).pc \in {"off", "sleep"} /\ Asleep.pc = "sleep" /\ Off.pc = "off"
  <1>1. NoView \in View /\ Len(NoView.rows) = 0 /\ NoSnap \in [Keys -> Nat \cup {None}]
    BY SnapshotType DEF NoSnap
  <1>2. /\ Asleep \in PassRecord /\ \A m \in Nat : PassOK(Asleep, m)
        /\ Asleep.pc = "sleep"
    BY <1>1 DEF Asleep, Pass, PassRecord, PassPcs, PassOK
  <1>3. /\ Off \in PassRecord /\ \A m \in Nat : PassOK(Off, m)
        /\ Off.pc = "off"
    BY <1>1 DEF Off, Pass, PassRecord, PassPcs, PassOK
  <1> QED  BY <1>2, <1>3 DEF Rest

LEMMA SetType ==
    ASSUME TypeInv, NEW t \in Threads, NEW p \in PassRecord, PassOK(p, known),
           known' = known, Set(t, p)
    PROVE  PassType' /\ \A u \in Threads : pass'[u] = IF u = t THEN p ELSE pass[u]
  BY DEF TypeInv, PassType, Set

\* The pass as it is, with some fields changed.
LEMMA PassFields ==
    ASSUME TypeInv, NEW t \in Threads
    PROVE  /\ pass[t] \in PassRecord /\ PassOK(pass[t], known)
           /\ pass[t].view.rows \in Seq(Seq(Row))
           /\ \A k \in Keys : pass[t].snap[k] \in Nat \cup {None}
  BY DEF TypeInv, PassType, PassRecord, View

LEMMA AfterCommitType ==
    ASSUME TypeInv, NEW t \in Threads, NEW k, AfterCommit(t, k), known' = known
    PROVE  PassType'
  <1> DEFINE left == pass[t].todo \ {k}
             p == IF left = {} THEN Rest(t)
                  ELSE [pass[t] EXCEPT !.pc = "load", !.todo = left, !.key = 0,
                                       !.view = NoView]
  <1>1. p \in PassRecord /\ PassOK(p, known)
    <2>1. known \in Nat /\ left \subseteq 1..known /\ left \subseteq Keys
      BY PassFields, KnownKeys DEF TypeInv, RowsType, PassOK
    <2>2. CASE left = {}
      BY <2>1, <2>2, RestType
    <2>3. CASE left # {}
      <3>1. pass[t] \in PassRecord /\ NoView \in View /\ Len(NoView.rows) = 0
        BY PassFields, SnapshotType
      <3> HIDE DEF left
      <3> DEFINE q == [pass[t] EXCEPT !.pc = "load", !.todo = left, !.key = 0,
                                      !.view = NoView]
      <3>2. q \in PassRecord /\ q.pc = "load" /\ q.todo = left /\ q.key = 0
            /\ q.view = NoView
        BY <2>1, <3>1 DEF PassRecord, PassPcs
      <3> HIDE DEF q
      <3>3. PassOK(q, known)
        BY <2>1, <2>3, <3>1, <3>2 DEF PassOK
      <3> QED  BY <2>3, <3>2, <3>3 DEF q
    <2> QED  BY <2>2, <2>3
  <1>2. Set(t, p)
    BY DEF AfterCommit
  <1> HIDE DEF p
  <1> QED  BY <1>1, <1>2, SetType

LEMMA SkipType ==
    ASSUME TypeInv, NEW t \in Threads, NEW k, pass[t].pc = "charge", Skip(t, k),
           known' = known
    PROVE  PassType'
  <1> DEFINE left == pass[t].todo \ {k}
             p == IF left = {} THEN Rest(t) ELSE [pass[t] EXCEPT !.todo = left]
  <1>1. p \in PassRecord /\ PassOK(p, known)
    <2>1. /\ known \in Nat /\ left \subseteq 1..known /\ left \subseteq Keys
          /\ left \subseteq 1..Len(pass[t].view.rows)
      BY PassFields, KnownKeys DEF TypeInv, RowsType, PassOK
    <2>2. CASE left = {}
      BY <2>1, <2>2, RestType
    <2>3. CASE left # {}
      <3>1. pass[t] \in PassRecord /\ PassOK(pass[t], known)
        BY PassFields
      <3> QED  BY <2>1, <2>3, <3>1 DEF PassRecord, PassOK
    <2> QED  BY <2>2, <2>3
  <1>2. Set(t, p)
    BY DEF Skip
  <1> HIDE DEF p
  <1> QED  BY <1>1, <1>2, SetType

LEMMA GoOnType ==
    ASSUME TypeInv, NEW t \in Threads, NEW k \in 1..known, NEW pc \in PassPcs,
           pc \notin {"charge", "load"}, GoOn(t, k, pc), known' = known
    PROVE  PassType'
  <1> DEFINE p == [pass[t] EXCEPT !.pc = pc, !.key = k, !.view = NoView,
                                  !.todo = @ \ {k}]
  <1>1. /\ pass[t] \in PassRecord /\ PassOK(pass[t], known) /\ k \in Keys
        /\ NoView \in View /\ Len(NoView.rows) = 0 /\ known \in Nat
    BY PassFields, SnapshotType, KnownKeys DEF TypeInv, RowsType
  <1>2. p \in PassRecord
    BY <1>1 DEF PassRecord
  <1>3. PassOK(p, known)
    BY <1>1 DEF PassOK, PassRecord
  <1>4. Set(t, p)
    BY DEF GoOn
  <1> HIDE DEF p
  <1> QED  BY <1>2, <1>3, <1>4, SetType

LEMMA EndTurnType ==
    ASSUME TypeInv, NEW t \in Threads, EndTurn(t), known' = known
    PROVE  PassType'
  <1> DEFINE p == IF pass[t].todo = {} THEN Rest(t)
                  ELSE [pass[t] EXCEPT !.pc = "charge", !.key = 0, !.view = Snapshot]
  <1>1. p \in PassRecord /\ PassOK(p, known)
    <2>1. CASE pass[t].todo = {}
      BY <2>1, RestType DEF TypeInv, RowsType
    <2>2. CASE pass[t].todo # {}
      <3>1. /\ pass[t] \in PassRecord /\ PassOK(pass[t], known) /\ known \in Nat
            /\ Snapshot \in View /\ Len(Snapshot.rows) = known
        BY PassFields, SnapshotType DEF TypeInv, RowsType
      <3> DEFINE q == [pass[t] EXCEPT !.pc = "charge", !.key = 0, !.view = Snapshot]
      <3>2. q \in PassRecord /\ q.pc = "charge" /\ q.todo = pass[t].todo /\ q.key = 0
            /\ q.view = Snapshot
        BY <3>1 DEF PassRecord, PassPcs
      <3> HIDE DEF q
      <3>3. PassOK(q, known)
        BY <2>2, <3>1, <3>2 DEF PassOK
      <3> QED  BY <2>2, <3>2, <3>3 DEF q
    <2> QED  BY <2>1, <2>2
  <1>2. Set(t, p)
    BY DEF EndTurn
  <1> HIDE DEF p
  <1> QED  BY <1>1, <1>2, SetType

-----------------------------------------------------------------------------
(* Changes of a row *)

LEMMA ElementUpdate ==
    ASSUME NEW S, NEW s \in Seq(S), NEW i, NEW x, i \in 1..Len(s) => x \in S
    PROVE  /\ [s EXCEPT ![i] = x] \in Seq(S) /\ Len([s EXCEPT ![i] = x]) = Len(s)
           /\ \A j \in 1..Len(s) : [s EXCEPT ![i] = x][j] = IF j = i THEN x ELSE s[j]
  <1> DEFINE u == [s EXCEPT ![i] = x]
  <1>1. u = [j \in 1..Len(s) |-> IF j = i THEN x ELSE s[j]]
    OBVIOUS
  <1>2. \A j \in 1..Len(s) : (IF j = i THEN x ELSE s[j]) \in S
    OBVIOUS
  <1> HIDE DEF u
  <1>3. u \in Seq(S) /\ Len(u) = Len(s)
    BY <1>1, <1>2
  <1> QED  BY <1>1, <1>3 DEF u

\* Row i of key k becomes r.
Becomes(k, i, r) == rows' = [rows EXCEPT ![k] = [rows[k] EXCEPT ![i] = r]]

LEMMA BecomesType ==
    ASSUME RowsType, NEW k \in 1..known, NEW i, NEW r, i \in 1..Len(rows[k]) => r \in Row,
           Becomes(k, i, r)
    PROVE  /\ rows' \in Seq(Seq(Row)) /\ Len(rows') = known
           /\ \A j \in 1..known \ {k} : rows'[j] = rows[j]
           /\ Len(rows'[k]) = Len(rows[k])
           /\ \A j \in 1..Len(rows[k]) : rows'[k][j] = IF j = i THEN r ELSE rows[k][j]
  <1>1. rows[k] \in Seq(Row) /\ rows \in Seq(Seq(Row)) /\ Len(rows) = known
    BY DEF RowsType
  <1>2. PICK u : u = [rows[k] EXCEPT ![i] = r]
    OBVIOUS
  <1>3. /\ u \in Seq(Row) /\ Len(u) = Len(rows[k])
        /\ \A j \in 1..Len(rows[k]) : u[j] = IF j = i THEN r ELSE rows[k][j]
    BY <1>1, <1>2, ElementUpdate
  <1>4. rows' = [rows EXCEPT ![k] = u]
    BY <1>2 DEF Becomes
  <1>5. /\ rows' \in Seq(Seq(Row)) /\ Len(rows') = Len(rows)
        /\ \A j \in 1..Len(rows) : rows'[j] = IF j = k THEN u ELSE rows[j]
    BY <1>1, <1>3, <1>4, ElementUpdate
  <1> QED  BY <1>1, <1>3, <1>5

\* What a turn finds of its key.
LEMMA ChargingFacts ==
    ASSUME TypeInv, NEW t \in Threads, NEW k \in 1..known, Charging(t, k)
    PROVE  /\ pass[t].pc = "charge" /\ k \in pass[t].todo /\ k \in Keys
           /\ k \in 1..Len(pass[t].view.rows) /\ pass[t].view.rows[k] \in Seq(Row)
           /\ Traffic(t, k) \in Nat \cup {None}
  <1>1. /\ pass[t].pc = "charge" /\ k \in pass[t].todo /\ k \in Keys
        /\ k \in 1..Len(pass[t].view.rows)
    BY PassFields, KnownKeys DEF TypeInv, Charging, Turn, PassOK
  <1>2. pass[t].view.rows \in Seq(Seq(Row))
    BY PassFields
  <1>3. Traffic(t, k) \in Nat \cup {None}
    BY <1>1, PassFields DEF Traffic
  <1> QED  BY <1>1, <1>2, <1>3

\* What is written is the row as the transaction saw it, and the traffic.
LEMMA UpdateBecomes ==
    ASSUME TypeInv, NEW t \in Threads, NEW k \in 1..known, NEW over, NEW free \in BOOLEAN,
           OnRow(t, k, over), Update(t, k, free)
    PROVE  LET rs == pass[t].view.rows[k]
               i  == FirstRow(rs, today)
               s  == Traffic(t, k)
           IN  \/ s = 0 /\ rows' = rows
               \/ s \in Nat /\ free /\ Becomes(k, i, [rows[k][i] EXCEPT !.free = rs[i].free + s])
               \/ s \in Nat /\ ~free /\ Becomes(k, i, [rows[k][i] EXCEPT !.used = rs[i].used + s])
  <1> DEFINE rs == pass[t].view.rows[k]
             i  == FirstRow(rs, today)
             s  == Traffic(t, k)
  <1>1. s \in Nat /\ rs \in Seq(Row) /\ HasRow(rs, today)
    BY ChargingFacts DEF OnRow
  <1>2. rs[i] \in Row
    BY <1>1, FirstRowFound
  <1>3. CASE s = 0
    BY <1>3 DEF Update
  <1>4. CASE s # 0 /\ free
    <2>1. rows' = [rows EXCEPT ![k][i].free = Charge(rs[i], s, free).free]
      BY <1>4 DEF Update
    <2>2. Charge(rs[i], s, free).free = rs[i].free + s
      BY <1>2, <1>4 DEF Charge, Row
    <2> QED  BY <1>1, <1>4, <2>1, <2>2 DEF Becomes
  <1>5. CASE s # 0 /\ ~free
    <2>1. rows' = [rows EXCEPT ![k][i].used = Charge(rs[i], s, free).used]
      BY <1>5 DEF Update
    <2>2. Charge(rs[i], s, free).used = rs[i].used + s
      BY <1>2, <1>5 DEF Charge, Row
    <2> QED  BY <1>1, <1>5, <2>1, <2>2 DEF Becomes
  <1> QED  BY <1>3, <1>4, <1>5

LEMMA UpdateType ==
    ASSUME TypeInv, NEW t \in Threads, NEW k \in 1..known, NEW over, NEW free \in BOOLEAN,
           OnRow(t, k, over), Update(t, k, free)
    PROVE  rows' \in Seq(Seq(Row)) /\ Len(rows') = known
  <1> DEFINE rs == pass[t].view.rows[k]
             i  == FirstRow(rs, today)
             s  == Traffic(t, k)
  <1>1. rs \in Seq(Row) /\ HasRow(rs, today)
    BY ChargingFacts DEF OnRow
  <1>2. PICK old : old = rs[i]
    OBVIOUS
  <1>3. old \in Row
    BY <1>1, <1>2, FirstRowFound
  <1>4. rows[k] \in Seq(Row) /\ RowsType
    BY DEF TypeInv, RowsType
  <1>5. PICK j : j = i
    OBVIOUS
  <1>6. \/ rows' = rows
        \/ s \in Nat /\ Becomes(k, j, [rows[k][j] EXCEPT !.free = old.free + s])
        \/ s \in Nat /\ Becomes(k, j, [rows[k][j] EXCEPT !.used = old.used + s])
    BY <1>2, <1>5, UpdateBecomes
  <1>7. s \in Nat /\ j \in 1..Len(rows[k]) =>
           /\ [rows[k][j] EXCEPT !.free = old.free + s] \in Row
           /\ [rows[k][j] EXCEPT !.used = old.used + s] \in Row
    <2> HIDE DEF s
    <2> SUFFICES ASSUME s \in Nat, NEW r \in Row
                 PROVE  /\ [r EXCEPT !.free = old.free + s] \in Row
                        /\ [r EXCEPT !.used = old.used + s] \in Row
      BY <1>4
    <2> QED  BY <1>3 DEF Row
  <1> HIDE DEF s, i, rs
  <1> QED  BY <1>4, <1>6, <1>7, BecomesType DEF RowsType

-----------------------------------------------------------------------------
(* Every step keeps the types *)

LEMMA SnappedType ==
    ASSUME TypeInv, NEW t, NEW ks, ks \subseteq Keys
    PROVE  Snapped(t, ks) \subseteq Keys
  BY DEF Snapped

\* Steps that change nothing but the pass and what the history records of lost
\* traffic.
LEMMA PassOnlyType ==
    ASSUME TypeInv, PassType', UNCHANGED <<dbVars, kernelVars, shaped, rpc, today, sent>>,
           leaky' \subseteq Keys, overlapped' \in BOOLEAN
    PROVE  TypeInv'
  BY DEF TypeInv, RowsType, CountersType, ProcessType, HistoryType, dbVars, kernelVars

\* Steps that change the rows and the pass.
LEMMA RowsAndPassType ==
    ASSUME TypeInv, PassType', rows' \in Seq(Seq(Row)), Len(rows') = known,
           UNCHANGED <<known, active, exempt, paired, kernelVars, shaped, rpc, today,
                       sent, overlapped>>,
           leaky' \subseteq Keys
    PROVE  TypeInv'
  BY DEF TypeInv, RowsType, CountersType, ProcessType, HistoryType, kernelVars

LEMMA PassBeginType ==
    ASSUME TypeInv, NEW t \in Threads, Wake(t) \/ ListCounters(t) \/ Load(t)
    PROVE  TypeInv'
  <1>0. /\ pass[t] \in PassRecord /\ PassOK(pass[t], known) /\ known \in Nat
        /\ Snapshot \in View /\ Len(Snapshot.rows) = known
    BY PassFields, SnapshotType DEF TypeInv, RowsType
  <1>1. /\ UNCHANGED <<dbVars, kernelVars, shaped, rpc, today, sent>> /\ known' = known
        /\ leaky' \subseteq Keys /\ overlapped' \in BOOLEAN
    BY DEF Wake, ListCounters, Load, historyVars, TypeInv, HistoryType, dbVars
  <1>2. CASE Wake(t)
    <2> DEFINE p == [pass[t] EXCEPT !.pc = "list", !.view = Snapshot]
    <2>1. p \in PassRecord /\ p.pc = "list" /\ p.view = Snapshot
          /\ p.todo = pass[t].todo /\ p.key = pass[t].key
      BY <1>0 DEF PassRecord, PassPcs
    <2>2. Set(t, p)
      BY <1>2 DEF Wake
    <2> HIDE DEF p
    <2>3. PassOK(p, known)
      BY <1>0, <2>1 DEF PassOK
    <2> QED  BY <1>1, <2>1, <2>2, <2>3, SetType, PassOnlyType
  <1>3. CASE ListCounters(t)
    <2> DEFINE snap == [k \in Keys |-> IF k \in counted THEN counter[k] ELSE None]
               p == [pass[t] EXCEPT !.pc = "reset", !.snap = snap]
    <2>1. snap \in [Keys -> Nat \cup {None}]
      BY DEF TypeInv, CountersType
    <2> HIDE DEF snap
    <2>2. p \in PassRecord
      BY <1>0, <2>1 DEF PassRecord, PassPcs
    <2>3. Set(t, p)
      BY <1>3 DEF ListCounters, snap
    <2>4. p.pc = "reset" /\ p.view = pass[t].view /\ p.todo = pass[t].todo
          /\ p.key = pass[t].key
      BY <1>0 DEF PassRecord
    <2> HIDE DEF p
    <2>5. PassOK(p, known)
      BY <1>0, <2>4 DEF PassOK
    <2> QED  BY <1>1, <2>2, <2>3, <2>5, SetType, PassOnlyType
  <1>4. CASE Load(t)
    <2> DEFINE p == [pass[t] EXCEPT !.pc = "charge", !.view = Snapshot]
    <2>0. pass[t].todo # {} /\ pass[t].todo \subseteq 1..known
      BY <1>0, <1>4 DEF Load, PassOK
    <2>1. p \in PassRecord /\ p.pc = "charge" /\ p.view = Snapshot
          /\ p.todo = pass[t].todo /\ p.key = pass[t].key
      BY <1>0 DEF PassRecord, PassPcs
    <2>2. Set(t, p)
      BY <1>4 DEF Load
    <2> HIDE DEF p
    <2>3. PassOK(p, known)
      BY <1>0, <2>0, <2>1 DEF PassOK
    <2> QED  BY <1>1, <2>1, <2>2, <2>3, SetType, PassOnlyType
  <1> QED  BY <1>2, <1>3, <1>4

LEMMA ResetType ==
    ASSUME TypeInv, NEW t \in Threads, ResetCounters(t)
    PROVE  TypeInv'
  <1> DEFINE keys == DOMAIN pass[t].view.rows
             p == IF keys = {} THEN Rest(t)
                  ELSE [pass[t] EXCEPT !.pc = "charge", !.todo = keys]
  <1>0. /\ pass[t] \in PassRecord /\ PassOK(pass[t], known) /\ known \in Nat
    BY PassFields DEF TypeInv, RowsType
  <1>1. keys = 1..Len(pass[t].view.rows) /\ keys \subseteq 1..known /\ keys \subseteq Keys
    <2>1. pass[t].view.rows \in Seq(Seq(Row)) /\ Len(pass[t].view.rows) <= known
      BY <1>0, PassFields DEF PassOK
    <2>2. keys = 1..Len(pass[t].view.rows) /\ keys \subseteq 1..known
      BY <1>0, <2>1
    <2> QED  BY <2>2, KnownKeys DEF TypeInv
  <1>2. p \in PassRecord /\ PassOK(p, known)
    <2>1. CASE keys = {}
      BY <1>0, <2>1, RestType
    <2>2. CASE keys # {}
      <3> HIDE DEF keys
      <3> DEFINE q == [pass[t] EXCEPT !.pc = "charge", !.todo = keys]
      <3>1. q \in PassRecord /\ q.pc = "charge" /\ q.view = pass[t].view
            /\ q.todo = keys /\ q.key = pass[t].key
        BY <1>0, <1>1 DEF PassRecord, PassPcs
      <3> HIDE DEF q
      <3>2. PassOK(q, known)
        BY <1>0, <1>1, <2>2, <3>1 DEF PassOK
      <3> QED  BY <2>2, <3>1, <3>2 DEF q
    <2> QED  BY <2>1, <2>2
  <1>3. /\ Set(t, p) /\ UNCHANGED <<dbVars, counted, filtered, shaped, rpc, today, sent>>
        /\ counter' = [k \in Keys |-> 0] /\ overlapped' = overlapped
        /\ leaky' = leaky \cup ({k \in counted : counter[k] > 0
                                                 /\ counter[k] # pass[t].snap[k]}
                                \cup Snapped(t, Keys \ keys))
    BY DEF ResetCounters, Lose
  <1>4. PassType'
    <2> HIDE DEF p
    <2> QED  BY <1>2, <1>3, SetType DEF dbVars
  <1>5. leaky' \subseteq Keys
    BY <1>3, SnappedType, KnownKeys DEF TypeInv, HistoryType, CountersType
  <1> HIDE DEF p, keys
  <1> QED  BY <1>3, <1>4, <1>5
           DEF TypeInv, RowsType, CountersType, ProcessType, HistoryType, dbVars

LEMMA SkipStepsType ==
    ASSUME TypeInv, NEW t \in Threads, NEW k \in 1..known,
           SkipKey(t, k) \/ WithoutDevices(t, k) \/ NoCounters(t, k)
    PROVE  TypeInv'
  <1>0. {k} \subseteq Keys /\ pass[t].todo \subseteq Keys
    BY KnownKeys, PassFields DEF TypeInv, PassOK
  <1>1. /\ UNCHANGED <<dbVars, kernelVars, shaped, rpc, today, sent, overlapped>>
        /\ known' = known
        /\ leaky' = leaky \cup Snapped(t, {k}) \/ leaky' = leaky \cup Snapped(t, pass[t].todo)
        /\ Skip(t, k) \/ Set(t, Rest(t))
        /\ pass[t].pc = "charge"
    BY DEF SkipKey, WithoutDevices, NoCounters, Abort, Lose, dbVars, Charging, Turn
  <1>2. leaky' \subseteq Keys /\ overlapped' \in BOOLEAN
    BY <1>0, <1>1, SnappedType DEF TypeInv, HistoryType
  <1>3. PassType'
    <2>1. known \in Nat
      BY DEF TypeInv, RowsType
    <2> QED  BY <1>1, <2>1, SkipType, SetType, RestType
  <1> QED  BY <1>1, <1>2, <1>3, PassOnlyType

LEMMA FirstOfDayType ==
    ASSUME TypeInv, NEW t \in Threads, NEW k \in 1..known, FirstOfDay(t, k)
    PROVE  TypeInv'
  <1> DEFINE rs     == pass[t].view.rows[k]
             credit == NewCredit(rs, today, TopUp, MaxSaved)
             s      == Traffic(t, k)
  <1>1. PICK free \in BOOLEAN :
           /\ Charging(t, k)
           /\ rows' = IF Written(s)
                      THEN [rows EXCEPT ![k] = Append(@, NewRow(credit, s, free))]
                      ELSE rows
           /\ leaky' = leaky \cup (IF k \in pass[t].view.paired THEN {} ELSE Snapped(t, {k}))
           /\ AfterCommit(t, k)
           /\ UNCHANGED <<known, active, exempt, paired, kernelVars, shaped, rpc,
                          today, sent, overlapped>>
    BY DEF FirstOfDay, Lose
  <1>2. rs \in Seq(Row) /\ s \in Nat \cup {None} /\ k \in Keys
    BY <1>1, ChargingFacts
  <1>3. credit \in Int
    <2>1. today \in Int
      BY DEF TypeInv, HistoryType
    <2> HIDE DEF rs
    <2> QED  BY <1>2, <2>1, NewCreditType
  <1>4. PassType'
    BY <1>1, AfterCommitType
  <1>5. leaky' \subseteq Keys
    BY <1>1, <1>2, SnappedType DEF TypeInv, HistoryType
  <1>6. rows' \in Seq(Seq(Row)) /\ Len(rows') = known
    <2>1. rows \in Seq(Seq(Row)) /\ Len(rows) = known /\ rows[k] \in Seq(Row)
      BY DEF TypeInv, RowsType
    <2>2. CASE Written(s)
      <3> HIDE DEF credit, s
      <3>1. PICK r : r = NewRow(credit, s, free)
        OBVIOUS
      <3>2. r \in Row
        BY <1>2, <1>3, <2>2, <3>1, NewRowType DEF Written
      <3>3. PICK u : u = Append(rows[k], r)
        OBVIOUS
      <3>4. u \in Seq(Row)
        BY <2>1, <3>2, <3>3
      <3>5. rows' = [rows EXCEPT ![k] = u]
        BY <1>1, <2>2, <3>1, <3>3
      <3> QED  BY <2>1, <3>4, <3>5, ElementUpdate
    <2>3. CASE ~Written(s)
      BY <1>1, <2>1, <2>3
    <2> QED  BY <2>2, <2>3
  <1> QED  BY <1>1, <1>4, <1>5, <1>6, RowsAndPassType

LEMMA OnRowType ==
    ASSUME TypeInv, NEW t \in Threads, NEW k \in 1..known,
           WithinVolume(t, k) \/ StaysShaped(t, k) \/ UsesUp(t, k)
    PROVE  TypeInv'
  <1>1. PICK over, free \in BOOLEAN :
           /\ OnRow(t, k, over) /\ Update(t, k, free)
           /\ AfterCommit(t, k) \/ GoOn(t, k, "shape")
           /\ UNCHANGED <<known, active, exempt, paired, kernelVars, shaped, rpc,
                          today, historyVars>>
    BY DEF WithinVolume, StaysShaped, UsesUp
  <1>2. PassType'
    <2>1. "shape" \in PassPcs
      BY DEF PassPcs
    <2> QED  BY <1>1, <2>1, AfterCommitType, GoOnType
  <1>3. rows' \in Seq(Seq(Row)) /\ Len(rows') = known
    BY <1>1, UpdateType
  <1> QED  BY <1>1, <1>2, <1>3, RowsAndPassType DEF historyVars, TypeInv, HistoryType

LEMMA RecoversType ==
    ASSUME TypeInv, NEW t \in Threads, NEW k \in 1..known, Recovers(t, k)
    PROVE  TypeInv'
  <1>1. CASE Abort(t) /\ UNCHANGED <<rpc, today, sent, edits, overlapped>>
    <2>1. /\ UNCHANGED <<dbVars, kernelVars, shaped, rpc, today, sent, overlapped>>
          /\ known' = known /\ leaky' = leaky \cup Snapped(t, pass[t].todo)
          /\ Set(t, Rest(t)) /\ known \in Nat /\ pass[t].todo \subseteq Keys
      BY <1>1, KnownKeys, PassFields DEF Abort, Lose, dbVars, TypeInv, RowsType, PassOK
    <2>2. PassType'
      BY <2>1, SetType, RestType
    <2> QED  BY <2>1, <2>2, SnappedType, PassOnlyType DEF TypeInv, HistoryType
  <1>2. CASE /\ OnRow(t, k, FALSE) /\ filtered' = filtered \ {k}
             /\ Update(t, k, TRUE) /\ GoOn(t, k, "unlist")
             /\ UNCHANGED <<known, active, exempt, paired, counted, counter, shaped,
                            leaky, rpc, today, sent, overlapped>>
    <2>1. PassType'
      <3>1. "unlist" \in PassPcs
        BY DEF PassPcs
      <3> QED  BY <1>2, <3>1, GoOnType
    <2>2. rows' \in Seq(Seq(Row)) /\ Len(rows') = known
      BY <1>2, UpdateType
    <2> QED  BY <1>2, <2>1, <2>2
             DEF TypeInv, RowsType, CountersType, ProcessType, HistoryType
  <1> QED  BY <1>1, <1>2 DEF Recovers

\* list.remove: the first element that is e is taken out of the list.
LEMMA RemoveFirstFields ==
    ASSUME NEW S, NEW s \in Seq(S), NEW e
    PROVE  /\ RemoveFirst(s, e) \in Seq(S)
           /\ \/ RemoveFirst(s, e) = s
              \/ \E i \in 1..Len(s) :
                    /\ Len(RemoveFirst(s, e)) = Len(s) - 1
                    /\ \A j \in 1..Len(s) - 1 :
                          RemoveFirst(s, e)[j] = IF j < i THEN s[j] ELSE s[j + 1]
  <1>1. CASE ~\E i \in 1..Len(s) : s[i] = e
    BY <1>1 DEF RemoveFirst
  <1>2. CASE \E i \in 1..Len(s) : s[i] = e
    <2> DEFINE I == {i \in 1..Len(s) : s[i] = e}
    <2>1. I \subseteq Nat /\ I # {}
      BY <1>2
    <2>2. \E x \in I : \A y \in I : x <= y
      BY <2>1, LeastNatural
    <2>3. Min(I) \in I
      BY <2>2 DEF Min
    <2>4. RemoveFirst(s, e) = RemoveAt(s, SelectInSeq(s, LAMBDA v : v = e))
      BY <1>2 DEF RemoveFirst
    <2>5. SelectInSeq(s, LAMBDA v : v = e) = Min(I)
      BY <2>1 DEF SelectInSeq
    <2>6. PICK i \in 1..Len(s) : i = Min(I)
      BY <2>3
    <2>7. RemoveFirst(s, e) = SubSeq(s, 1, i - 1) \o SubSeq(s, i + 1, Len(s))
      BY <2>4, <2>5, <2>6 DEF RemoveAt
    <2> DEFINE a == SubSeq(s, 1, i - 1)
               b == SubSeq(s, i + 1, Len(s))
    <2>8. /\ a \in Seq(S) /\ Len(a) = i - 1 /\ \A j \in 1..i - 1 : a[j] = s[j]
          /\ b \in Seq(S) /\ Len(b) = Len(s) - i
          /\ \A j \in 1..Len(s) - i : b[j] = s[i + j]
      OBVIOUS
    <2>9. RemoveFirst(s, e) = a \o b
      BY <2>7
    <2> HIDE DEF a, b, I
    <2>10. /\ a \o b \in Seq(S) /\ Len(a \o b) = Len(s) - 1
           /\ \A j \in 1..Len(s) - 1 :
                 (a \o b)[j] = IF j < i THEN s[j] ELSE s[j + 1]
      <3>0. /\ a \o b \in Seq(S) /\ Len(a \o b) = Len(a) + Len(b)
            /\ \A j \in 1..Len(a) + Len(b) :
                  (a \o b)[j] = IF j <= Len(a) THEN a[j] ELSE b[j - Len(a)]
        BY <2>8, ConcatProperties
      <3>1. a \o b \in Seq(S) /\ Len(a \o b) = Len(s) - 1
        BY <2>8, <3>0
      <3>2. ASSUME NEW j \in 1..Len(s) - 1
            PROVE  (a \o b)[j] = IF j < i THEN s[j] ELSE s[j + 1]
        <4>1. (a \o b)[j] = IF j <= Len(a) THEN a[j] ELSE b[j - Len(a)]
          BY <2>8, <3>0
        <4>2. CASE j < i
          BY <2>8, <4>1, <4>2
        <4>3. CASE ~(j < i)
          <5>1. j - Len(a) \in 1..Len(s) - i /\ i + (j - Len(a)) = j + 1
            BY <2>8, <4>3
          <5> QED  BY <2>8, <4>1, <4>3, <5>1
        <4> QED  BY <4>2, <4>3
      <3> QED  BY <3>1, <3>2
    <2> QED  BY <2>9, <2>10
  <1> QED  BY <1>1, <1>2

LEMMA AppendType ==
    ASSUME NEW S, NEW s \in Seq(S), NEW e \in S
    PROVE  /\ Append(s, e) \in Seq(S) /\ Len(Append(s, e)) = Len(s) + 1
           /\ \A i \in 1..Len(s) : Append(s, e)[i] = s[i]
           /\ Append(s, e)[Len(s) + 1] = e
  OBVIOUS

LEMMA ListStepsType ==
    ASSUME TypeInv, NEW t \in Threads, Shape(t) \/ Unlist(t)
    PROVE  TypeInv'
  <1>1. /\ EndTurn(t) /\ UNCHANGED <<dbVars, counted, counter, rpc, today, historyVars>>
        /\ known' = known /\ pass[t].pc \in {"shape", "unlist"}
    BY DEF Shape, Unlist, dbVars, kernelVars
  <1>2. PassType'
    BY <1>1, EndTurnType
  <1>3. shaped' \in Seq(1..known)
    <2>1. shaped \in Seq(1..known) /\ pass[t].key \in 1..known
      BY <1>1, PassFields DEF TypeInv, ProcessType, PassOK
    <2>2. CASE Shape(t)
      BY <2>1, <2>2, AppendType DEF Shape
    <2>3. CASE Unlist(t)
      BY <2>1, <2>3, RemoveFirstFields DEF Unlist
    <2> QED  BY <2>2, <2>3
  <1>4. filtered' \subseteq 1..known
    BY DEF Shape, Unlist, kernelVars, TypeInv, RowsType, CountersType
  <1> QED  BY <1>1, <1>2, <1>3, <1>4
           DEF TypeInv, RowsType, CountersType, ProcessType, HistoryType, dbVars,
               historyVars

LEMMA CreditType ==
    ASSUME TypeInv, NEW k \in 1..known, NEW amount \in 1..TopUp, SetCredit(k, amount)
    PROVE  TypeInv'
  <1> DEFINE i == FirstRow(rows[k], LatestDay(k))
             r == [rows[k][i] EXCEPT !.credit = amount + rows[k][i].used]
  <1>1. /\ HasRow(rows[k], LatestDay(k)) /\ Becomes(k, i, r)
        /\ UNCHANGED <<known, active, exempt, paired, kernelVars, shaped, rpc, pass,
                       today, sent, leaky, overlapped>>
    BY DEF SetCredit, Becomes
  <1>2. RowsType /\ rows[k] \in Seq(Row)
    BY DEF TypeInv, RowsType
  <1>3. rows[k][i] \in Row
    BY <1>1, <1>2, FirstRowFound
  <1>4. r \in Row
    BY <1>3, Bounds DEF Row
  <1> HIDE DEF r, i
  <1>5. rows' \in Seq(Seq(Row)) /\ Len(rows') = known
    BY <1>1, <1>2, <1>4, BecomesType
  <1> QED  BY <1>1, <1>5
           DEF TypeInv, RowsType, CountersType, ProcessType, HistoryType, PassType,
               kernelVars

LEMMA ColumnsType ==
    ASSUME TypeInv, NEW k \in 1..known,
           DisableAccounting(k) \/ EnableAccounting(k) \/ Register(k) \/ Activate(k)
    PROVE  TypeInv'
  <1>1. /\ UNCHANGED <<known, rows, kernelVars, shaped, pass, today, sent, leaky, overlapped>>
        /\ active' \subseteq 1..known /\ exempt' \subseteq 1..known
        /\ paired' \subseteq 1..known /\ paired \subseteq paired'
        /\ \/ rpc' = rpc
           \/ /\ rpc.op # "deregister"
              /\ \E op \in {"register", "activate"} : rpc' = [op |-> op, key |-> k]
    <2>1. NoRpc.op = "none"
      BY DEF NoRpc
    <2>2. CASE DisableAccounting(k) \/ EnableAccounting(k)
      BY <2>2 DEF DisableAccounting, EnableAccounting, TypeInv, RowsType
    <2>3. CASE Register(k)
      BY <2>1, <2>3 DEF Register, Ask, TypeInv, RowsType
    <2>4. CASE Activate(k)
      BY <2>1, <2>4 DEF Activate, Ask, TypeInv, RowsType
    <2> QED  BY <2>2, <2>3, <2>4
  <1>2. ProcessType'
    <2>1. k \in 0..known /\ shaped' \in Seq(1..known') /\ known' = known
      BY <1>1 DEF TypeInv, RowsType, ProcessType
    <2>2. CASE rpc' = rpc
      BY <2>1, <2>2 DEF TypeInv, ProcessType
    <2>3. ASSUME NEW op \in {"register", "activate"}, rpc' = [op |-> op, key |-> k]
          PROVE  ProcessType'
      BY <2>1, <2>3 DEF ProcessType
    <2> QED  BY <1>1, <2>2, <2>3
  <1>3. CountersType'
    BY <1>1 DEF TypeInv, CountersType, kernelVars
  <1>4. RowsType' /\ PassType' /\ HistoryType'
    BY <1>1 DEF TypeInv, RowsType, HistoryType, PassType
  <1> QED  BY <1>2, <1>3, <1>4 DEF TypeInv

LEMMA DropType ==
    ASSUME TypeInv, NEW k \in 1..known, DropCounters(k)
    PROVE  /\ counted' = counted \ {k} /\ counter' \in [Keys -> Nat]
           /\ leaky' \subseteq Keys
  <1>1. leaky' \subseteq leaky \cup {k}
    BY DEF DropCounters, Lose
  <1> QED  BY <1>1, KnownKeys DEF DropCounters, TypeInv, CountersType, HistoryType

LEMMA DeregisterType ==
    ASSUME TypeInv, NEW k \in 1..known, Deregister(k)
    PROVE  TypeInv'
  <1>1. /\ UNCHANGED <<known, active, exempt, rows, counted, counter, shaped, pass,
                       today, sent, leaky, overlapped>>
        /\ filtered' \subseteq 1..known
        /\ \/ paired' = paired /\ rpc' = rpc
           \/ /\ paired' = paired \ {k} /\ rpc' = [op |-> "deregister", key |-> k]
              /\ rpc.op = "none"
    BY DEF Deregister, Ask, NoRpc, TypeInv, CountersType
  <1>2. /\ counted' \subseteq paired' \cup {rpc'.key}
        /\ rpc'.op # "deregister" => counted' \subseteq paired'
    BY <1>1 DEF TypeInv, CountersType
  <1>3. ProcessType'
    <2>1. k \in 0..known /\ shaped' \in Seq(1..known') /\ known' = known
      BY <1>1 DEF TypeInv, RowsType, ProcessType
    <2> QED  BY <1>1, <2>1 DEF TypeInv, ProcessType
  <1>4. CountersType'
    BY <1>1, <1>2 DEF TypeInv, CountersType
  <1>5. RowsType' /\ PassType' /\ HistoryType'
    BY <1>1 DEF TypeInv, RowsType, HistoryType, PassType
  <1> QED  BY <1>3, <1>4, <1>5 DEF TypeInv

LEMMA DeactivateType ==
    ASSUME TypeInv, NEW k \in 1..known, Deactivate(k)
    PROVE  TypeInv'
  <1>1. /\ UNCHANGED <<dbVars, filtered, shaped, pass, today, sent, overlapped>>
        /\ DropCounters(k) /\ rpc' = [op |-> "deactivate", key |-> k]
        /\ rpc.op = "none"
    BY DEF Deactivate, Ask, NoRpc
  <1>2. counted' = counted \ {k} /\ counter' \in [Keys -> Nat] /\ leaky' \subseteq Keys
    BY <1>1, DropType
  <1>3. ProcessType'
    <2>1. k \in 0..known /\ shaped' \in Seq(1..known') /\ known' = known
      BY <1>1 DEF TypeInv, RowsType, ProcessType, dbVars
    <2> QED  BY <1>1, <2>1 DEF ProcessType
  <1>4. CountersType'
    BY <1>1, <1>2 DEF TypeInv, CountersType, dbVars
  <1>5. RowsType' /\ PassType' /\ HistoryType'
    BY <1>1, <1>2 DEF TypeInv, RowsType, HistoryType, PassType, dbVars
  <1> QED  BY <1>3, <1>4, <1>5 DEF TypeInv

LEMMA RequestStepsType ==
    ASSUME TypeInv, RequestStep
    PROVE  TypeInv'
  <1>1. /\ UNCHANGED <<known, exempt, paired, rows, shaped, pass, today, sent, overlapped>>
        /\ rpc' = NoRpc /\ rpc.op # "none" /\ rpc.key \in 1..known
        /\ NoRpc.op = "none" /\ NoRpc.key = 0
    BY DEF RequestStep, SetUp, TearDown, EndDeactivate, dbVars, historyVars, NoRpc,
           TypeInv, ProcessType
  <1>2. ProcessType'
    <2>1. NoRpc \in [op : {"none", "register", "activate", "deregister", "deactivate"},
                     key : 0..known]
      BY DEF NoRpc, TypeInv, RowsType
    <2> QED  BY <1>1, <2>1 DEF TypeInv, ProcessType
  <1>3. /\ active' \subseteq active /\ leaky' \subseteq Keys
        /\ counter' \in [Keys -> Nat] /\ filtered' \subseteq 1..known
        /\ counted' \subseteq paired
    <2>1. CASE SetUp
      BY <2>1 DEF SetUp, TypeInv, RowsType, CountersType, HistoryType, dbVars, historyVars
    <2>2. CASE TearDown
      <3>1. counted' = counted \ {rpc.key} /\ counter' \in [Keys -> Nat]
            /\ leaky' \subseteq Keys
        BY <1>1, <2>2, DropType DEF TearDown
      <3> QED  BY <2>2, <3>1 DEF TearDown, TypeInv, CountersType, dbVars
    <2>3. CASE EndDeactivate
      BY <2>3 DEF EndDeactivate, TypeInv, CountersType, HistoryType, historyVars
    <2> QED  BY <2>1, <2>2, <2>3 DEF RequestStep
  <1>4. CountersType'
    BY <1>1, <1>3 DEF TypeInv, RowsType, CountersType
  <1>5. RowsType' /\ PassType' /\ HistoryType'
    BY <1>1, <1>3 DEF TypeInv, RowsType, HistoryType, PassType
  <1> QED  BY <1>2, <1>4, <1>5 DEF TypeInv

\* Adding a key makes nothing ill-typed that was about fewer keys.
LEMMA AddKeyType ==
    ASSUME TypeInv, AddKey
    PROVE  TypeInv'
  <1>1. PICK t \in Threads :
           /\ known < NKeys /\ known' = known + 1
           /\ active' = active \cup {known + 1}
           /\ rows' = Append(rows, <<NewRow(Initial, 0, FALSE)>>)
           /\ pass' = [u \in Threads |-> IF u = t THEN Asleep
                                         ELSE [pass[u] EXCEPT !.run = FALSE]]
           /\ UNCHANGED <<exempt, paired, kernelVars, shaped, rpc, today, sent, leaky,
                          overlapped>>
    BY DEF AddKey
  <1>2. known \in Nat /\ known' \in 0..NKeys /\ 1..known \subseteq 1..known'
        /\ 0..known \subseteq 0..known'
    BY <1>1, Bounds DEF TypeInv, RowsType
  <1>3. rows' \in Seq(Seq(Row)) /\ Len(rows') = known'
    <2>1. PICK r, free : free = FALSE /\ r = NewRow(Initial, 0, free)
      OBVIOUS
    <2>2. r \in Row
      <3>1. Initial \in Int /\ 0 \in Nat
        BY Bounds
      <3> QED  BY <2>1, <3>1, NewRowType
    <2>3. <<r>> \in Seq(Row)
      BY <2>2
    <2>4. rows \in Seq(Seq(Row)) /\ Len(rows) = known
      BY DEF TypeInv, RowsType
    <2>5. PICK u : u = <<r>>
      OBVIOUS
    <2>6. rows' = Append(rows, u) /\ u \in Seq(Row)
      BY <1>1, <2>1, <2>3, <2>5
    <2>7. PICK S : S = Seq(Row)
      OBVIOUS
    <2>8. rows \in Seq(S) /\ u \in S
      BY <2>4, <2>6, <2>7
    <2>9. rows' \in Seq(S) /\ Len(rows') = known + 1
      BY <2>4, <2>6, <2>8, AppendType
    <2> QED  BY <1>1, <2>7, <2>9
  <1>4. RowsType'
    <2>1. known + 1 \in 1..known'
      BY <1>1, <1>2
    <2> QED  BY <1>1, <1>2, <1>3, <2>1 DEF TypeInv, RowsType
  <1>5. PassType'
    <2>1. ASSUME NEW u \in Threads PROVE pass'[u] \in PassRecord /\ PassOK(pass'[u], known')
      <3>1. CASE u = t
        <4>1. pass'[u] = Asleep
          BY <1>1, <3>1
        <4>2. known' \in Nat
          BY <1>1, <1>2
        <4>3. Asleep \in PassRecord /\ PassOK(Asleep, known')
          BY <4>2, RestType
        <4> QED  BY <4>1, <4>3
      <3>2. CASE u # t
        <4>1. pass[u] \in PassRecord /\ PassOK(pass[u], known)
          BY PassFields
        <4>2. pass'[u] = [pass[u] EXCEPT !.run = FALSE]
          BY <1>1, <3>2
        <4>3. /\ pass'[u] \in PassRecord /\ pass'[u].pc = pass[u].pc
              /\ pass'[u].view = pass[u].view /\ pass'[u].todo = pass[u].todo
              /\ pass'[u].key = pass[u].key
          BY <4>1, <4>2 DEF PassRecord
        <4>4. PassOK(pass'[u], known')
          <5>1. Len(pass[u].view.rows) \in Nat
            BY PassFields
          <5> QED  BY <1>1, <1>2, <4>1, <4>3, <5>1 DEF PassOK
        <4> QED  BY <4>3, <4>4
      <3> QED  BY <3>1, <3>2
    <2>2. pass' \in [Threads -> PassRecord]
      <3>1. pass' = [u \in Threads |-> pass'[u]]
        BY <1>1
      <3> QED  BY <2>1, <3>1
    <2> QED  BY <2>1, <2>2 DEF PassType
  <1>6. ProcessType'
    <2>1. shaped' \in Seq(1..known')
      <3>1. shaped \in Seq(1..known) /\ shaped' = shaped
        BY <1>1 DEF TypeInv, ProcessType
      <3>2. PICK n : n = known'
        OBVIOUS
      <3>3. shaped \in Seq(1..n)
        <4>1. 1..known \subseteq 1..n
          BY <1>2, <3>2
        <4> QED  BY <3>1, <4>1, SeqMonotonic
      <3> QED  BY <3>1, <3>2, <3>3
    <2>2. rpc' = rpc /\ rpc.key \in 0..known /\ (rpc.op # "none" => rpc.key \in 1..known)
      BY <1>1 DEF TypeInv, ProcessType
    <2>3. rpc' \in [op : {"none", "register", "activate", "deregister", "deactivate"},
                    key : 0..known']
      BY <1>2, <2>2 DEF TypeInv, ProcessType
    <2> QED  BY <1>2, <2>1, <2>2, <2>3 DEF ProcessType
  <1>7. CountersType'
    BY <1>1, <1>2 DEF TypeInv, CountersType, kernelVars
  <1>8. HistoryType'
    BY <1>1 DEF TypeInv, HistoryType
  <1> QED  BY <1>4, <1>5, <1>6, <1>7, <1>8 DEF TypeInv

LEMMA EnvironmentType ==
    ASSUME TypeInv, Midnight \/ (\E k \in 1..known : Send(k)) \/ UNCHANGED vars
    PROVE  TypeInv'
  <1>1. CASE Midnight
    <2>1. today' \in 0..LastDay
      <3>1. today \in 0..LastDay /\ today < LastDay /\ today' = today + 1 /\ LastDay \in Nat
        BY <1>1, Bounds DEF Midnight, TypeInv, HistoryType
      <3> QED  BY <3>1
    <2> QED  BY <1>1, <2>1 DEF Midnight, TypeInv, RowsType, CountersType, ProcessType,
                  PassType, HistoryType, dbVars, kernelVars, historyVars
  <1>2. ASSUME NEW k \in 1..known, Send(k) PROVE TypeInv'
    <2>1. counter' \in [Keys -> Nat] /\ sent' \in [Keys -> Nat]
      <3>1. /\ counter' = [counter EXCEPT ![k] = counter[k] + 1]
            /\ sent' = [sent EXCEPT ![k] = sent[k] + 1]
        BY <1>2 DEF Send
      <3>2. counter \in [Keys -> Nat] /\ sent \in [Keys -> Nat] /\ k \in Keys
        BY KnownKeys DEF TypeInv, CountersType, HistoryType
      <3> QED  BY <3>1, <3>2
    <2> QED  BY <1>2, <2>1 DEF Send, TypeInv, RowsType, CountersType, ProcessType,
                  PassType, HistoryType, dbVars
  <1>3. CASE UNCHANGED vars
    BY <1>3 DEF vars, TypeInv, RowsType, CountersType, ProcessType, PassType,
          HistoryType, dbVars, kernelVars, historyVars
  <1> QED  BY <1>1, <1>2, <1>3

LEMMA FreshType ==
    ASSUME TypeInv \/ Init
    PROVE  /\ [t \in Threads |-> IF t = 1 THEN Asleep ELSE Off] \in [Threads -> PassRecord]
           /\ \A t \in Threads : \A m \in Nat :
                 PassOK([u \in Threads |-> IF u = 1 THEN Asleep ELSE Off][t], m)
  <1>1. NoView \in View /\ Len(NoView.rows) = 0 /\ NoSnap \in [Keys -> Nat \cup {None}]
    BY DEF NoView, View, NoSnap
  <1>2. Asleep \in PassRecord /\ \A m \in Nat : PassOK(Asleep, m)
    BY <1>1 DEF Asleep, Pass, PassRecord, PassPcs, PassOK
  <1>3. Off \in PassRecord /\ \A m \in Nat : PassOK(Off, m)
    BY <1>1 DEF Off, Pass, PassRecord, PassPcs, PassOK
  <1> QED  BY <1>2, <1>3

LEMMA RestartType ==
    ASSUME TypeInv, Restart
    PROVE  TypeInv'
  <1>1. /\ UNCHANGED <<dbVars, today, sent, overlapped>> /\ rpc' = NoRpc
        /\ counted' = active \cap paired /\ counter' = [k \in Keys |-> 0]
        /\ filtered' = {} /\ shaped' = <<>>
        /\ pass' = [t \in Threads |-> IF t = 1 THEN Asleep ELSE Off]
        /\ leaky' \subseteq leaky \cup Keys
    BY DEF Restart, Lose
  <1>2. known \in Nat /\ known' = known
    BY <1>1 DEF dbVars, TypeInv, RowsType
  <1>3. PassType'
    <2>1. PICK f : f = [t \in Threads |-> IF t = 1 THEN Asleep ELSE Off]
      OBVIOUS
    <2>2. f \in [Threads -> PassRecord] /\ \A t \in Threads : PassOK(f[t], known)
      BY <1>2, <2>1, FreshType
    <2> QED  BY <1>1, <1>2, <2>1, <2>2 DEF PassType
  <1>4. ProcessType'
    BY <1>1, <1>2 DEF ProcessType, NoRpc
  <1>5. RowsType' /\ HistoryType'
    BY <1>1 DEF TypeInv, RowsType, HistoryType, dbVars
  <1>6. CountersType'
    BY <1>1 DEF TypeInv, RowsType, CountersType, dbVars
  <1> QED  BY <1>3, <1>4, <1>5, <1>6 DEF TypeInv

LEMMA InitType == Init => TypeInv
  <1> SUFFICES ASSUME Init PROVE TypeInv
    OBVIOUS
  <1>1. /\ known \in InitKeys /\ active = 1..known /\ exempt = {}
        /\ paired \subseteq 1..known /\ today = 1
        /\ rows = [k \in 1..known |->
                     <<[day |-> 0, credit |-> Initial, used |-> 0, free |-> 0]>>]
        /\ counted = paired /\ counter = [k \in Keys |-> 0]
        /\ filtered = {} /\ shaped = <<>> /\ rpc = NoRpc
        /\ pass = [t \in Threads |-> IF t = 1 THEN Asleep ELSE Off]
        /\ sent = [k \in Keys |-> 0] /\ leaky = {} /\ overlapped = FALSE
    BY DEF Init
  <1>2. known \in 0..NKeys /\ known \in Nat /\ NoRpc.op = "none" /\ NoRpc.key = 0
    BY <1>1, AccountingAssumption DEF NoRpc
  <1>3. rows \in Seq(Seq(Row)) /\ Len(rows) = known
    <2> DEFINE r == [day |-> 0, credit |-> Initial, used |-> 0, free |-> 0]
    <2>1. r \in Row
      BY Bounds DEF Row
    <2> HIDE DEF r
    <2>2. PICK u : u = <<r>>
      OBVIOUS
    <2>3. u \in Seq(Row)
      BY <2>1, <2>2
    <2>4. rows = [k \in 1..known |-> u]
      BY <1>1, <2>2 DEF r
    <2> QED  BY <1>2, <2>3, <2>4
  <1>4. RowsType
    BY <1>1, <1>2, <1>3 DEF RowsType
  <1>5. PassType
    <2>1. PICK f : f = [t \in Threads |-> IF t = 1 THEN Asleep ELSE Off]
      OBVIOUS
    <2>2. f \in [Threads -> PassRecord] /\ \A t \in Threads : PassOK(f[t], known)
      BY <1>2, <2>1, FreshType
    <2> QED  BY <1>1, <2>1, <2>2 DEF PassType
  <1>6. ProcessType
    BY <1>1, <1>2 DEF ProcessType, NoRpc
  <1>7. CountersType
    BY <1>1, <1>2 DEF CountersType
  <1>8. HistoryType
    <2>1. 1 \in 0..LastDay /\ today = 1
      BY <1>1, AccountingAssumption
    <2> QED  BY <1>1, <2>1 DEF HistoryType
  <1> QED  BY <1>4, <1>5, <1>6, <1>7, <1>8 DEF TypeInv

LEMMA NextType ==
    ASSUME TypeInv, [Next]_vars
    PROVE  TypeInv'
  <1>1. ASSUME NEW t \in Threads, PassStep(t) PROVE TypeInv'
    <2>1. ASSUME NEW k \in 1..known,
                 \/ SkipKey(t, k) \/ FirstOfDay(t, k) \/ WithoutDevices(t, k)
                 \/ NoCounters(t, k) \/ WithinVolume(t, k) \/ StaysShaped(t, k)
                 \/ UsesUp(t, k) \/ Recovers(t, k)
          PROVE  TypeInv'
      BY <2>1, SkipStepsType, FirstOfDayType, OnRowType, RecoversType
    <2> QED  BY <1>1, <2>1, PassBeginType, ResetType, ListStepsType DEF PassStep
  <1>2. CASE Request
    BY <1>2, CreditType, ColumnsType, DeregisterType, DeactivateType, AddKeyType,
       RestartType DEF Request
  <1>3. CASE RequestStep
    BY <1>3, RequestStepsType
  <1>4. CASE Midnight \/ (\E k \in 1..known : Send(k)) \/ UNCHANGED vars
    BY <1>4, EnvironmentType
  <1> QED  BY <1>1, <1>2, <1>3, <1>4 DEF Next

LEMMA TypeInvariant == Spec => []TypeInv
  <1>1. TypeInv /\ [Next]_vars => TypeInv'
    BY NextType
  <1> QED  BY <1>1, InitType, PTL DEF Spec

\* Every variable keeps its type in every reachable state, and what a pass has
\* still to do concerns keys that are there (the whole of Accounting).
THEOREM TypeCorrect == Spec => []TypeOK
  <1>1. TypeInv => TypeOK
    <2> SUFFICES ASSUME TypeInv PROVE TypeOK
      OBVIOUS
    <2>1. \A k \in 1..known : rows[k] \in Seq(Row)
      BY DEF TypeInv, RowsType
    <2>2. \A t \in Threads :
             /\ pass[t].pc \in PassPcs /\ pass[t].todo \subseteq 1..known
             /\ pass[t].key \in 0..known
             /\ pass[t].pc = "charge" => pass[t].todo # {}
      BY PassFields DEF PassRecord, PassOK
    <2> QED  BY <2>1, <2>2 DEF TypeInv, RowsType, CountersType, ProcessType,
                HistoryType, TypeOK, PassPcs
  <1> QED  BY <1>1, TypeInvariant, PTL

-----------------------------------------------------------------------------
(* The traffic in the rows of a key *)

LEMMA UpTo ==
    ASSUME NEW S, NEW m \in Nat, 0 \in S, \A n \in 0..m : n \in S /\ n < m => n + 1 \in S
    PROVE  0..m \subseteq S
  <1> DEFINE bad == {n \in 0..m : n \notin S}
  <1>1. CASE bad # {}
    <2>0. bad \subseteq Nat
      OBVIOUS
    <2>1. PICK x \in bad : \A y \in bad : x <= y
      BY <1>1, <2>0, LeastNatural
    <2>2. x - 1 \in 0..m /\ x - 1 \in S /\ x - 1 < m
      BY <2>1
    <2> QED  BY <2>1, <2>2
  <1> QED  BY <1>1

Traffics(row) == row.used + row.free

IsTotal(f, rs) ==
    /\ f \in [0..Len(rs) -> Nat] /\ f[0] = 0
    /\ \A n \in 1..Len(rs) : f[n] = f[n - 1] + Traffics(rs[n])

LEMMA TrafficsType == ASSUME NEW r \in Row PROVE Traffics(r) \in Nat
  BY DEF Row, Traffics

LEMMA TotalExists ==
    ASSUME NEW rs \in Seq(Row)
    PROVE  \E f : IsTotal(f, rs)
  <1> DEFINE Up(m, f) == /\ f \in [0..m -> Nat] /\ f[0] = 0
                         /\ \A n \in 1..m : f[n] = f[n - 1] + Traffics(rs[n])
             S == {m \in 0..Len(rs) : \E f : Up(m, f)}
  <1>1. 0 \in S
    <2>1. Up(0, [n \in 0..0 |-> 0]) /\ 0 \in 0..Len(rs)
      OBVIOUS
    <2>2. \E f : Up(0, f)
      BY <2>1
    <2> HIDE DEF Up
    <2> QED  BY <2>1, <2>2
  <1>2. ASSUME NEW m \in 0..Len(rs), m \in S, m < Len(rs)
        PROVE  m + 1 \in S
    <2>1. PICK f : Up(m, f)
      BY <1>2
    <2>2. PICK s \in Nat : s = Traffics(rs[m + 1])
      BY <1>2, TrafficsType
    <2> DEFINE g == [n \in 0..m + 1 |-> IF n = m + 1 THEN f[m] + s ELSE f[n]]
    <2>3. g \in [0..m + 1 -> Nat] /\ g[0] = 0 /\ g[m + 1] = f[m] + s
          /\ \A n \in 0..m : g[n] = f[n]
      BY <2>1
    <2> HIDE DEF g
    <2>4. \A n \in 1..m + 1 : g[n] = g[n - 1] + Traffics(rs[n])
      <3>1. ASSUME NEW n \in 1..m PROVE g[n] = g[n - 1] + Traffics(rs[n])
        <4>1. n \in 0..m /\ n - 1 \in 0..m
          OBVIOUS
        <4> QED  BY <2>1, <2>3, <4>1
      <3>2. g[m + 1] = g[m + 1 - 1] + Traffics(rs[m + 1])
        BY <2>2, <2>3
      <3> QED  BY <3>1, <3>2
    <2>5. Up(m + 1, g) /\ m + 1 \in 0..Len(rs)
      BY <1>2, <2>3, <2>4
    <2> HIDE DEF Up
    <2> QED  BY <2>5
  <1> HIDE DEF S
  <1>3. 0..Len(rs) \subseteq S
    BY <1>1, <1>2, UpTo
  <1>4. Len(rs) \in 0..Len(rs)
    OBVIOUS
  <1> QED  BY <1>3, <1>4 DEF S, IsTotal

\* Total is the last of the sums of the first rows.
LEMMA TotalIs ==
    ASSUME NEW rs \in Seq(Row)
    PROVE  \E f : IsTotal(f, rs) /\ Total(rs) = f[Len(rs)]
  <1> DEFINE body(f) == [n \in 0..Len(rs) |->
                           IF n = 0 THEN 0 ELSE f[n - 1] + rs[n].used + rs[n].free]
             total == CHOOSE f : f = body(f)
  <1>1. Total(rs) = total[Len(rs)]
    BY DEF Total
  <1>2. \E f : f = body(f)
    <2>1. PICK f : IsTotal(f, rs)
      BY TotalExists
    <2>2. ASSUME NEW n \in 0..Len(rs)
          PROVE  f[n] = IF n = 0 THEN 0 ELSE f[n - 1] + rs[n].used + rs[n].free
      <3>1. CASE n # 0
        <4>1. f[n] = f[n - 1] + Traffics(rs[n]) /\ f[n - 1] \in Nat /\ rs[n] \in Row
          BY <2>1, <3>1 DEF IsTotal
        <4>2. /\ rs[n].used \in Nat /\ rs[n].free \in Nat
              /\ Traffics(rs[n]) = rs[n].used + rs[n].free
          BY <4>1 DEF Traffics, Row
        <4> QED  BY <3>1, <4>1, <4>2
      <3> QED  BY <2>1, <3>1 DEF IsTotal
    <2>3. f = [n \in 0..Len(rs) |-> f[n]]
      BY <2>1 DEF IsTotal
    <2> QED  BY <2>2, <2>3
  <1>3. total = body(total)
    BY <1>2
  <1> HIDE DEF total
  <1>4. /\ total = [n \in 0..Len(rs) |-> total[n]] /\ total[0] = 0
        /\ \A n \in 1..Len(rs) : total[n] = total[n - 1] + rs[n].used + rs[n].free
    BY <1>3
  <1>5. \A n \in 0..Len(rs) : total[n] \in Nat
    <2> DEFINE S == {n \in 0..Len(rs) : total[n] \in Nat}
    <2>1. 0 \in S
      BY <1>4
    <2>2. ASSUME NEW n \in 0..Len(rs), n \in S, n < Len(rs) PROVE n + 1 \in S
      <3>1. total[n + 1] = total[n] + rs[n + 1].used + rs[n + 1].free
        BY <1>4, <2>2
      <3>2. rs[n + 1] \in Row
        BY <2>2
      <3> QED  BY <2>2, <3>1, <3>2 DEF Row
    <2> HIDE DEF S
    <2>3. 0..Len(rs) \subseteq S
      BY <2>1, <2>2, UpTo
    <2> QED  BY <2>3 DEF S
  <1>6. \A n \in 1..Len(rs) : total[n] = total[n - 1] + Traffics(rs[n])
    <2> SUFFICES ASSUME NEW n \in 1..Len(rs)
                 PROVE  total[n] = total[n - 1] + Traffics(rs[n])
      OBVIOUS
    <2>1. rs[n] \in Row /\ n - 1 \in 0..Len(rs)
      OBVIOUS
    <2>2. total[n] = total[n - 1] + rs[n].used + rs[n].free /\ total[n - 1] \in Nat
      BY <1>4, <1>5, <2>1
    <2>3. /\ rs[n].used \in Nat /\ rs[n].free \in Nat
          /\ Traffics(rs[n]) = rs[n].used + rs[n].free
      BY <2>1 DEF Traffics, Row
    <2> QED  BY <2>2, <2>3
  <1>7. IsTotal(total, rs)
    BY <1>4, <1>5, <1>6 DEF IsTotal
  <1> QED  BY <1>1, <1>7

\* Of the first m rows, row i counts d more in us than in rs.
Raised(rs, us, m, i, d) ==
    \A n \in 1..m : Traffics(us[n]) = Traffics(rs[n]) + (IF n = i THEN d ELSE 0)

\* The sums of two lists of rows differ by d from row i on.
LEMMA TotalDiffers ==
    ASSUME NEW rs \in Seq(Row), NEW us \in Seq(Row), NEW m \in Nat, m <= Len(rs),
           m <= Len(us), NEW f, IsTotal(f, rs), NEW g, IsTotal(g, us),
           NEW i \in Nat \ {0}, NEW d \in Nat, Raised(rs, us, m, i, d)
    PROVE  g[m] = f[m] + (IF i <= m THEN d ELSE 0)
  <1> DEFINE S == {n \in 0..m : g[n] = f[n] + (IF i <= n THEN d ELSE 0)}
  <1>1. 0 \in S
    BY DEF IsTotal
  <1>2. ASSUME NEW n \in 0..m, n \in S, n < m PROVE n + 1 \in S
    <2>1. /\ n + 1 \in 1..m /\ n + 1 \in 1..Len(rs) /\ n + 1 \in 1..Len(us)
          /\ n + 1 - 1 = n /\ n \in 0..Len(rs) /\ n \in 0..Len(us)
      BY <1>2
    <2>2. g[n + 1] = g[n] + Traffics(us[n + 1]) /\ f[n + 1] = f[n] + Traffics(rs[n + 1])
      BY <2>1 DEF IsTotal
    <2>3. /\ Traffics(us[n + 1]) = Traffics(rs[n + 1]) + (IF n + 1 = i THEN d ELSE 0)
          /\ Traffics(rs[n + 1]) \in Nat /\ f[n] \in Nat
          /\ g[n] = f[n] + (IF i <= n THEN d ELSE 0)
      <3>1. rs[n + 1] \in Row
        BY <2>1
      <3>2. f[n] \in Nat
        BY <2>1 DEF IsTotal
      <3> QED  BY <1>2, <2>1, <3>1, <3>2, TrafficsType DEF Raised
    <2>4. g[n + 1] = f[n + 1] + (IF i <= n + 1 THEN d ELSE 0)
      BY <2>2, <2>3
    <2> QED  BY <2>1, <2>4
  <1> HIDE DEF S
  <1>3. 0..m \subseteq S
    BY <1>1, <1>2, UpTo
  <1>4. m \in 0..m
    OBVIOUS
  <1> QED  BY <1>3, <1>4 DEF S

LEMMA TotalType == ASSUME NEW rs \in Seq(Row) PROVE Total(rs) \in Nat
  BY TotalIs DEF IsTotal

\* Rows that count the same traffic.
LEMMA TotalSame ==
    ASSUME NEW rs \in Seq(Row), NEW us \in Seq(Row), Len(us) = Len(rs),
           \A n \in 1..Len(rs) : Traffics(us[n]) = Traffics(rs[n])
    PROVE  Total(us) = Total(rs)
  <1>1. PICK f, g : /\ IsTotal(f, rs) /\ Total(rs) = f[Len(rs)]
                    /\ IsTotal(g, us) /\ Total(us) = g[Len(us)]
    BY TotalIs
  <1>2. PICK i, d, m : i = 1 /\ d = 0 /\ m = Len(rs)
    OBVIOUS
  <1>3. /\ m \in Nat /\ m <= Len(rs) /\ m <= Len(us) /\ i \in Nat \ {0} /\ d \in Nat
        /\ Raised(rs, us, m, i, d)
    BY <1>2, TrafficsType DEF Raised
  <1>4. g[m] = f[m] + (IF i <= m THEN d ELSE 0)
    BY <1>1, <1>3, TotalDiffers
  <1>5. f[m] \in Nat
    BY <1>1, <1>2 DEF IsTotal
  <1> QED  BY <1>1, <1>2, <1>4, <1>5

\* A row counts d more.
LEMMA TotalCharged ==
    ASSUME NEW rs \in Seq(Row), NEW us \in Seq(Row), Len(us) = Len(rs),
           NEW i \in 1..Len(rs), NEW d \in Nat,
           \A n \in 1..Len(rs) : Traffics(us[n]) = Traffics(rs[n]) + (IF n = i THEN d ELSE 0)
    PROVE  Total(us) = Total(rs) + d
  <1>1. PICK f, g : /\ IsTotal(f, rs) /\ Total(rs) = f[Len(rs)]
                    /\ IsTotal(g, us) /\ Total(us) = g[Len(us)]
    BY TotalIs
  <1>2. PICK m : m = Len(rs)
    OBVIOUS
  <1>3. /\ m \in Nat /\ m <= Len(rs) /\ m <= Len(us) /\ i \in Nat \ {0} /\ i <= m
        /\ Raised(rs, us, m, i, d)
    BY <1>2 DEF Raised
  <1>4. g[m] = f[m] + (IF i <= m THEN d ELSE 0)
    BY <1>1, <1>3, TotalDiffers
  <1> QED  BY <1>1, <1>2, <1>3, <1>4

\* A row is added.
LEMMA TotalAppended ==
    ASSUME NEW rs \in Seq(Row), NEW r \in Row
    PROVE  Total(Append(rs, r)) = Total(rs) + Traffics(r)
  <1> DEFINE us == Append(rs, r)
             m == Len(rs)
  <1>0. /\ us \in Seq(Row) /\ Len(us) = m + 1 /\ us[m + 1] = r /\ m \in Nat
        /\ \A n \in 1..m : us[n] = rs[n]
    BY AppendType
  <1> HIDE DEF us
  <1>1. PICK f, g : /\ IsTotal(f, rs) /\ Total(rs) = f[m]
                    /\ IsTotal(g, us) /\ Total(us) = g[m + 1]
    BY <1>0, TotalIs
  <1>2. PICK i, d : i = 1 /\ d = 0
    OBVIOUS
  <1>3. /\ m <= Len(rs) /\ m <= Len(us) /\ i \in Nat \ {0} /\ d \in Nat
        /\ Raised(rs, us, m, i, d)
    BY <1>0, <1>2, TrafficsType DEF Raised
  <1>4. g[m] = f[m] + (IF i <= m THEN d ELSE 0)
    BY <1>0, <1>1, <1>3, TotalDiffers
  <1>5. g[m + 1] = g[m] + Traffics(r) /\ f[m] \in Nat
    BY <1>0, <1>1 DEF IsTotal
  <1> QED  BY <1>1, <1>2, <1>4, <1>5 DEF us

-----------------------------------------------------------------------------
(* What holds while passes do not overlap *)

\* At most one thread is in a pass.
Alone == \A t, u \in Threads : Working(t) /\ Working(u) => t = u

Only(t) == \A u \in Threads \ {t} : ~Working(u)

SameRow(r, u) == r.day = u.day /\ r.used = u.used /\ r.free = u.free

SameRows(rs, us) == Len(rs) = Len(us) /\ \A i \in 1..Len(us) : SameRow(rs[i], us[i])

\* The traffic that the transaction saw is still in the database.
AsSeen(view) == \A k \in 1..Len(view.rows) : SameRows(view.rows[k], rows[k])

ViewInv(t) == pass[t].pc \in {"list", "reset", "charge"} => AsSeen(pass[t].view)

Ordered(rs) ==
    /\ \A i, j \in 1..Len(rs) : i < j => rs[i].day < rs[j].day
    /\ \A i \in 1..Len(rs) : rs[i].day <= today

DaysInv == \A k \in 1..known : Ordered(rows[k])

\* A key that a pass is about to list is not listed.
ListInv(t) == pass[t].pc = "shape" => pass[t].key \notin ToSet(shaped)

\* Only what the kernel lists has counted anything.
CountedInv == \A k \in Keys : counter[k] > 0 => k \in counted

\* What has been sent is recorded, counted or pending; after the listing, until
\* the counters are reset, what was listed is not recorded yet.
Balance(t, k) ==
    /\ Seen(t, k) <= sent[k]
    /\ k \notin leaky => Seen(t, k) = sent[k]
    /\ pass[t].pc = "reset" /\ pass[t].snap[k] > 0 =>
          /\ Recorded(k) + pass[t].snap[k] <= sent[k]
          /\ k \notin leaky => pass[t].snap[k] <= counter[k]

ThreadInv(t) == ViewInv(t) /\ ListInv(t) /\ \A k \in Keys : Balance(t, k)

CommonInv == DaysInv /\ IsInjective(shaped) /\ CountedInv

Core == Alone /\ CommonInv /\ \A t \in Threads : Only(t) => ThreadInv(t)

PassInv == ~overlapped => Core

LEMMA RecordedType == ASSUME TypeInv, NEW k \in Keys PROVE Recorded(k) \in Nat
  <1>1. k <= known => rows[k] \in Seq(Row)
    BY DEF TypeInv, RowsType, Keys
  <1>2. known \in Nat /\ k \in Nat
    BY DEF TypeInv, RowsType, Keys
  <1> QED  BY <1>1, <1>2, TotalType DEF Recorded

LEMMA PendingType ==
    ASSUME TypeInv, NEW t \in Threads, NEW k \in Keys
    PROVE  /\ Pending(t, k) \in Nat
           /\ Pending(t, k) > 0 => /\ Pending(t, k) = pass[t].snap[k]
                                   /\ k \in pass[t].todo
           /\ ~Working(t) \/ pass[t].pc \in {"list", "reset"} => Pending(t, k) = 0
  <1>1. pass[t].snap[k] \in Nat \cup {None}
    BY PassFields
  <1> QED  BY <1>1 DEF Pending, Working, None

\* The thread that is in a pass, or any if none is, speaks for all.
LEMMA OneForAll ==
    ASSUME TypeInv', NEW t \in Threads, CommonInv', Only(t)', ThreadInv(t)'
    PROVE  Core'
  <1>1. Alone'
    BY DEF Only, Alone
  <1>2. ASSUME NEW u \in Threads, Only(u)', u # t PROVE ThreadInv(u)'
    <2>1. ~Working(u)' /\ ~Working(t)'
      BY <1>2 DEF Only
    <2>2. ViewInv(u)' /\ ListInv(u)' /\ pass'[u].pc # "reset"
      BY <2>1 DEF Working, ViewInv, ListInv
    <2>3. ASSUME NEW k \in Keys PROVE Balance(u, k)'
      <3>1. Pending(u, k)' = 0 /\ Pending(t, k)' = 0
        BY <2>1 DEF Working, Pending
      <3>2. Seen(u, k)' = Seen(t, k)'
        BY <3>1 DEF Seen
      <3>3. Balance(t, k)'
        BY DEF ThreadInv
      <3> QED  BY <2>2, <3>2, <3>3 DEF Balance
    <2> QED  BY <2>2, <2>3 DEF ThreadInv
  <1> QED  BY <1>1, <1>2 DEF Core

\* Some thread is the only one that may be in a pass.
LEMMA SomeThread ==
    ASSUME Alone
    PROVE  \E t \in Threads : Only(t)
  <1>1. 1 \in Threads
    BY Bounds DEF Threads
  <1>2. CASE \E t \in Threads : Working(t)
    BY <1>2 DEF Alone, Only
  <1> QED  BY <1>1, <1>2 DEF Only

-----------------------------------------------------------------------------
(* The steps of a pass that no other pass overlaps *)

LEMMA PendingTypeNext ==
    ASSUME TypeInv', NEW t \in Threads, NEW k \in Keys
    PROVE  Pending(t, k)' \in Nat /\ Recorded(k)' \in Nat
  <1>1. pass'[t].snap[k] \in Nat \cup {None}
    BY DEF TypeInv, PassType, PassRecord
  <1>2. Pending(t, k)' \in Nat
    BY <1>1 DEF Pending, None
  <1>3. known' \in Nat /\ k \in Nat /\ (k <= known' => rows'[k] \in Seq(Row))
    BY DEF TypeInv, RowsType, Keys
  <1> QED  BY <1>2, <1>3, TotalType DEF Recorded

\* The key's turn is over: nothing of it is pending.
LEMMA TurnOver ==
    ASSUME TypeInv, NEW t \in Threads, NEW k, pass[t].pc = "charge",
           \/ AfterCommit(t, k) \/ Skip(t, k)
           \/ \E pc \in {"shape", "unlist"} : GoOn(t, k, pc)
    PROVE  /\ \A j \in Keys : Pending(t, j)' = IF j = k THEN 0 ELSE Pending(t, j)
           /\ pass'[t].pc # "reset"
           /\ \A u \in Threads \ {t} : pass'[u] = pass[u]
  <1>1. PICK p : Set(t, p)
    BY DEF AfterCommit, Skip, GoOn
  <1>2. pass[t] \in PassRecord /\ pass \in [Threads -> PassRecord]
    BY PassFields DEF TypeInv, PassType
  <1>3. pass'[t] = p /\ \A u \in Threads \ {t} : pass'[u] = pass[u]
    BY <1>1, <1>2 DEF Set
  <1>4. \/ pass'[t] = Rest(t) /\ pass[t].todo \subseteq {k}
        \/ /\ pass'[t].pc \in {"charge", "load", "shape", "unlist"}
           /\ pass'[t].todo = pass[t].todo \ {k} /\ pass'[t].snap = pass[t].snap
    <2>1. CASE AfterCommit(t, k)
      BY <1>2, <2>1 DEF AfterCommit, Set, PassRecord
    <2>2. CASE Skip(t, k)
      BY <1>2, <2>2 DEF Skip, Set, PassRecord
    <2>3. ASSUME NEW pc \in {"shape", "unlist"}, GoOn(t, k, pc)
          PROVE  /\ pass'[t].pc = pc /\ pass'[t].todo = pass[t].todo \ {k}
                 /\ pass'[t].snap = pass[t].snap
      BY <1>2, <2>3 DEF GoOn, Set, PassRecord
    <2> QED  BY <2>1, <2>2, <2>3
  <1>5. Rest(t).pc \in {"off", "sleep"}
    BY RestType
  <1> QED  BY <1>3, <1>4, <1>5 DEF Pending

\* Where the pass is after a turn.
LEMMA AfterTurn ==
    ASSUME TypeInv, NEW t \in Threads, NEW k, pass[t].pc = "charge"
    PROVE  /\ AfterCommit(t, k) => pass'[t].pc \in {"load", "off", "sleep"}
           /\ Skip(t, k) => \/ pass'[t].pc \in {"off", "sleep"}
                            \/ pass'[t].pc = "charge" /\ pass'[t].view = pass[t].view
           /\ GoOn(t, k, "shape") => pass'[t].pc = "shape" /\ pass'[t].key = k
           /\ GoOn(t, k, "unlist") => pass'[t].pc = "unlist"
  <1>1. /\ pass[t] \in PassRecord /\ pass \in [Threads -> PassRecord]
        /\ Rest(t).pc \in {"off", "sleep"}
    BY PassFields, RestType DEF TypeInv, PassType
  <1>2. AfterCommit(t, k) => pass'[t].pc \in {"load", "off", "sleep"}
    BY <1>1 DEF AfterCommit, Set, PassRecord
  <1>3. Skip(t, k) => \/ pass'[t].pc \in {"off", "sleep"}
                      \/ pass'[t].pc = "charge" /\ pass'[t].view = pass[t].view
    BY <1>1 DEF Skip, Set, PassRecord
  <1>4. GoOn(t, k, "shape") => pass'[t].pc = "shape" /\ pass'[t].key = k
    BY <1>1 DEF GoOn, Set, PassRecord
  <1>5. GoOn(t, k, "unlist") => pass'[t].pc = "unlist"
    BY <1>1 DEF GoOn, Set, PassRecord
  <1> QED  BY <1>2, <1>3, <1>4, <1>5

\* An exception: the thread sleeps, or has ended.
LEMMA AbortPasses ==
    ASSUME TypeInv, NEW t \in Threads, Set(t, Rest(t))
    PROVE  pass'[t].pc \in {"off", "sleep"} /\ \A j \in Keys : Pending(t, j)' = 0
  BY RestType DEF Set, Pending, TypeInv, PassType

\* What is pending or recorded stays so, but for what is lost and said to be.
LEMMA BalanceKept ==
    ASSUME TypeInv, TypeInv', NEW t \in Threads, NEW k \in Keys, Balance(t, k),
           pass'[t].pc # "reset", sent'[k] = sent[k], counter'[k] = counter[k],
           leaky \subseteq leaky',
           Recorded(k)' + Pending(t, k)' <= Recorded(k) + Pending(t, k),
           k \in leaky' \/ Recorded(k)' + Pending(t, k)' = Recorded(k) + Pending(t, k)
    PROVE  Balance(t, k)'
  <1>1. /\ Recorded(k) \in Nat /\ Pending(t, k) \in Nat
        /\ Recorded(k)' \in Nat /\ Pending(t, k)' \in Nat
    BY RecordedType, PendingType, PendingTypeNext
  <1>2. counter[k] \in Nat /\ sent[k] \in Nat
    BY DEF TypeInv, CountersType, HistoryType
  <1>3. Seen(t, k)' = Recorded(k)' + counter[k] + Pending(t, k)'
    BY DEF Seen
  <1>4. /\ Seen(t, k)' <= sent'[k]
        /\ k \notin leaky' => Seen(t, k)' = sent'[k]
    BY <1>1, <1>2, <1>3 DEF Balance, Seen
  <1> QED  BY <1>4 DEF Balance

LEMMA SameRecorded ==
    ASSUME rows' = rows, known' = known
    PROVE  (\A k \in Keys : Recorded(k)' = Recorded(k)) /\ (DaysInv /\ today' = today => DaysInv')
  BY DEF Recorded, DaysInv, Ordered

\* A key's turn in which it is not charged, or the pass raises.
LEMMA TrafficLost ==
    ASSUME TypeInv, TypeInv', NEW t \in Threads, NEW k \in 1..known, CommonInv,
           ThreadInv(t), SkipKey(t, k) \/ WithoutDevices(t, k) \/ NoCounters(t, k)
    PROVE  CommonInv' /\ ThreadInv(t)'
  <1>1. /\ UNCHANGED <<dbVars, kernelVars, shaped, today, sent>>
        /\ known' = known /\ rows' = rows /\ counter' = counter /\ counted' = counted
        /\ \/ Skip(t, k) /\ leaky' = leaky \cup Snapped(t, {k})
           \/ Set(t, Rest(t)) /\ leaky' = leaky \cup Snapped(t, pass[t].todo)
        /\ pass[t].pc = "charge"
    BY DEF SkipKey, WithoutDevices, NoCounters, Abort, Lose, dbVars, kernelVars, Charging,
           Turn
  <1>2. /\ pass'[t].pc # "reset"
        /\ \A j \in Keys : \/ Pending(t, j)' = Pending(t, j)
                           \/ Pending(t, j)' = 0 /\ j = k
                           \/ Pending(t, j)' = 0 /\ Set(t, Rest(t))
    BY <1>1, TurnOver, AbortPasses
  <1>3. ASSUME NEW j \in Keys PROVE Balance(t, j)'
    <2>1. /\ Pending(t, j) \in Nat
          /\ Pending(t, j) > 0 => pass[t].snap[j] > 0 /\ j \in pass[t].todo
      BY PendingType
    <2>2. /\ Pending(t, j)' <= Pending(t, j)
          /\ j \in leaky' \/ Pending(t, j)' = Pending(t, j)
      <3>1. CASE Skip(t, k) /\ leaky' = leaky \cup Snapped(t, {k})
        BY <1>1, <2>1, <3>1, TurnOver DEF Snapped
      <3>2. CASE Set(t, Rest(t)) /\ leaky' = leaky \cup Snapped(t, pass[t].todo)
        BY <2>1, <3>2, AbortPasses DEF Snapped
      <3> QED  BY <1>1, <3>1, <3>2
    <2>3. Recorded(j)' = Recorded(j) /\ Recorded(j) \in Nat /\ Pending(t, j)' \in Nat
      BY <1>1, SameRecorded, RecordedType, PendingTypeNext
    <2>4. Balance(t, j) /\ leaky \subseteq leaky' /\ sent'[j] = sent[j]
          /\ counter'[j] = counter[j]
      BY <1>1 DEF ThreadInv
    <2> QED  BY <1>2, <2>1, <2>2, <2>3, <2>4, BalanceKept
  <1>4. ViewInv(t)' /\ ListInv(t)'
    <2>1. \/ pass'[t].pc \in {"off", "sleep"}
          \/ pass'[t].pc = "charge" /\ pass'[t].view = pass[t].view
      BY <1>1, AfterTurn, AbortPasses
    <2>2. ViewInv(t)
      BY DEF ThreadInv
    <2> QED  BY <1>1, <2>1, <2>2 DEF ViewInv, ListInv, AsSeen
  <1>5. CommonInv'
    BY <1>1, SameRecorded DEF CommonInv, CountedInv
  <1> QED  BY <1>3, <1>4, <1>5 DEF ThreadInv

\* A transaction that begins sees what is there.
LEMMA SeenAsItIs ==
    ASSUME TypeInv, NEW v, v = Snapshot, rows' = rows
    PROVE  AsSeen(v)'
  <1>1. v.rows = rows
    BY DEF Snapshot
  <1> QED  BY <1>1 DEF AsSeen, SameRows, SameRow

LEMMA PassBegins ==
    ASSUME TypeInv, TypeInv', NEW t \in Threads, CommonInv, ThreadInv(t),
           Wake(t) \/ ListCounters(t) \/ Load(t)
    PROVE  CommonInv' /\ ThreadInv(t)'
  <1>1. /\ rows' = rows /\ known' = known /\ counter' = counter /\ counted' = counted
        /\ shaped' = shaped /\ today' = today /\ sent' = sent /\ leaky' = leaky
    BY DEF Wake, ListCounters, Load, dbVars, kernelVars, historyVars
  <1>2. pass[t] \in PassRecord /\ pass \in [Threads -> PassRecord]
    BY PassFields DEF TypeInv, PassType
  <1>3. /\ pass'[t].todo = pass[t].todo
        /\ \/ /\ pass[t].pc = "sleep" /\ pass'[t].pc = "list"
              /\ pass'[t].view = Snapshot /\ pass'[t].snap = pass[t].snap
           \/ /\ pass[t].pc = "load" /\ pass'[t].pc = "charge"
              /\ pass'[t].view = Snapshot /\ pass'[t].snap = pass[t].snap
           \/ /\ pass[t].pc = "list" /\ pass'[t].pc = "reset"
              /\ pass'[t].view = pass[t].view
              /\ pass'[t].snap = [k \in Keys |-> IF k \in counted THEN counter[k] ELSE None]
    <2>1. CASE Wake(t)
      BY <1>2, <2>1 DEF Wake, Set, PassRecord
    <2>2. CASE ListCounters(t)
      BY <1>2, <2>2 DEF ListCounters, Set, PassRecord
    <2>3. CASE Load(t)
      BY <1>2, <2>3 DEF Load, Set, PassRecord
    <2> QED  BY <2>1, <2>2, <2>3
  <1>4. ViewInv(t)' /\ ListInv(t)'
    <2>1. CASE pass'[t].view = Snapshot /\ pass'[t].pc \in {"list", "charge"}
      <3>1. PICK v : v = pass'[t].view
        OBVIOUS
      <3>2. AsSeen(v)'
        BY <1>1, <2>1, <3>1, SeenAsItIs
      <3> QED  BY <2>1, <3>1, <3>2 DEF ViewInv, ListInv, AsSeen
    <2>2. CASE pass[t].pc = "list" /\ pass'[t].pc = "reset" /\ pass'[t].view = pass[t].view
      BY <1>1, <2>2 DEF ThreadInv, ViewInv, ListInv, AsSeen
    <2> QED  BY <1>3, <2>1, <2>2
  <1>5. ASSUME NEW k \in Keys PROVE Balance(t, k)'
    <2>1. Recorded(k)' = Recorded(k)
      BY <1>1, SameRecorded
    <2>2. Balance(t, k)
      BY DEF ThreadInv
    <2>3. /\ Pending(t, k)' = Pending(t, k)
          /\ pass'[t].pc = "reset" => Pending(t, k) = 0
      BY <1>3 DEF Pending
    <2>4. Seen(t, k)' = Seen(t, k)
      BY <1>1, <2>1, <2>3 DEF Seen
    <2>5. CASE pass'[t].pc = "reset" /\ pass'[t].snap[k] > 0
      <3>1. pass'[t].snap[k] = counter[k] /\ Recorded(k) \in Nat /\ counter[k] \in Nat
        BY <1>3, <2>5, RecordedType DEF None, TypeInv, CountersType
      <3>2. Seen(t, k) = Recorded(k) + counter[k]
        BY <2>3, <2>5, <3>1 DEF Seen
      <3> QED  BY <1>1, <2>1, <2>2, <2>4, <3>1, <3>2 DEF Balance
    <2>6. CASE ~(pass'[t].pc = "reset" /\ pass'[t].snap[k] > 0)
      BY <1>1, <2>2, <2>4, <2>6 DEF Balance
    <2> QED  BY <2>5, <2>6
  <1>6. CommonInv'
    BY <1>1, SameRecorded DEF CommonInv, CountedInv
  <1> QED  BY <1>4, <1>5, <1>6 DEF ThreadInv

\* What was listed is pending from now on, and what was not listed is lost.
LEMMA CountersReset ==
    ASSUME TypeInv, TypeInv', NEW t \in Threads, CommonInv, ThreadInv(t),
           ResetCounters(t)
    PROVE  CommonInv' /\ ThreadInv(t)'
  <1> DEFINE keys == DOMAIN pass[t].view.rows
             late == {k \in counted : counter[k] > 0 /\ counter[k] # pass[t].snap[k]}
  <1>1. /\ rows' = rows /\ known' = known /\ counted' = counted /\ shaped' = shaped
        /\ today' = today /\ sent' = sent /\ counter' = [k \in Keys |-> 0]
        /\ leaky' = leaky \cup (late \cup Snapped(t, Keys \ keys))
        /\ pass[t].pc = "reset"
    BY DEF ResetCounters, Lose, dbVars
  <1>2. /\ pass[t] \in PassRecord /\ pass \in [Threads -> PassRecord]
        /\ Rest(t).pc \in {"off", "sleep"}
    BY PassFields, RestType DEF TypeInv, PassType
  <1>3. \/ keys = {} /\ pass'[t].pc \in {"off", "sleep"}
        \/ /\ pass'[t].pc = "charge" /\ pass'[t].view = pass[t].view
           /\ pass'[t].todo = keys /\ pass'[t].snap = pass[t].snap
    <2>1. Set(t, IF keys = {} THEN Rest(t)
                 ELSE [pass[t] EXCEPT !.pc = "charge", !.todo = keys])
      BY DEF ResetCounters
    <2> HIDE DEF keys
    <2> QED  BY <1>2, <2>1 DEF Set, PassRecord
  <1>4. ViewInv(t)' /\ ListInv(t)'
    BY <1>1, <1>3 DEF ThreadInv, ViewInv, ListInv, AsSeen
  <1>5. ASSUME NEW k \in Keys PROVE Balance(t, k)'
    <2> DEFINE s == pass[t].snap[k]
    <2>1. /\ Recorded(k)' = Recorded(k) /\ Recorded(k) \in Nat /\ counter'[k] = 0
          /\ counter[k] \in Nat /\ s \in Nat \cup {None} /\ sent[k] \in Nat
      BY <1>1, SameRecorded, RecordedType, PassFields DEF TypeInv, CountersType, HistoryType
    <2>2. Balance(t, k) /\ (counter[k] > 0 => k \in counted)
      BY DEF ThreadInv, CommonInv, CountedInv
    <2>3. Seen(t, k) = Recorded(k) + counter[k]
      BY <1>1, <2>1 DEF Seen, Pending
    <2>4. Pending(t, k)' = IF k \in keys /\ s > 0 THEN s ELSE 0
      BY <1>3 DEF Pending
    <2> HIDE DEF keys
    <2>5. Seen(t, k)' = Recorded(k) + (IF k \in keys /\ s > 0 THEN s ELSE 0)
      BY <2>1, <2>4 DEF Seen, None
    <2>6. Seen(t, k)' <= sent[k]
      BY <1>1, <2>1, <2>2, <2>3, <2>5 DEF Balance, None
    <2>7. k \notin leaky' => Seen(t, k)' = sent[k]
      <3>1. SUFFICES ASSUME k \notin leaky' PROVE Seen(t, k)' = sent[k]
        OBVIOUS
      <3>2. k \notin leaky /\ (counter[k] > 0 => counter[k] = s) /\ (s > 0 => k \in keys)
        BY <1>1, <2>2, <3>1 DEF Snapped
      <3>3. Recorded(k) + counter[k] = sent[k] /\ (s > 0 => s <= counter[k])
        BY <1>1, <2>2, <2>3, <3>2 DEF Balance
      <3> QED  BY <2>1, <2>5, <3>2, <3>3 DEF None
    <2>8. pass'[t].pc # "reset"
      BY <1>3
    <2> QED  BY <1>1, <2>6, <2>7, <2>8 DEF Balance
  <1>6. CommonInv'
    BY <1>1, SameRecorded DEF CommonInv, CountedInv
  <1> QED  BY <1>4, <1>5, <1>6 DEF ThreadInv

\* The key is listed, or taken off; it is charged already.
LEMMA ListChanged ==
    ASSUME TypeInv, TypeInv', NEW t \in Threads, CommonInv, ThreadInv(t),
           Shape(t) \/ Unlist(t)
    PROVE  CommonInv' /\ ThreadInv(t)'
  <1>1. /\ rows' = rows /\ known' = known /\ counter' = counter /\ counted' = counted
        /\ today' = today /\ sent' = sent /\ leaky' = leaky
        /\ EndTurn(t) /\ pass[t].pc \in {"shape", "unlist"}
    BY DEF Shape, Unlist, dbVars, kernelVars, historyVars
  <1>2. /\ pass[t] \in PassRecord /\ pass \in [Threads -> PassRecord]
        /\ Rest(t).pc \in {"off", "sleep"}
    BY PassFields, RestType DEF TypeInv, PassType
  <1>3. \/ pass[t].todo = {} /\ pass'[t].pc \in {"off", "sleep"}
        \/ /\ pass'[t].pc = "charge" /\ pass'[t].view = Snapshot
           /\ pass'[t].todo = pass[t].todo /\ pass'[t].snap = pass[t].snap
    BY <1>1, <1>2 DEF EndTurn, Set, PassRecord
  <1>4. ViewInv(t)' /\ ListInv(t)'
    <2>1. PICK v : v = pass'[t].view
      OBVIOUS
    <2>2. v = Snapshot => AsSeen(v)'
      BY <1>1, SeenAsItIs
    <2> QED  BY <1>3, <2>1, <2>2 DEF ViewInv, ListInv, AsSeen
  <1>5. ASSUME NEW k \in Keys PROVE Balance(t, k)'
    <2>1. Pending(t, k)' = Pending(t, k) /\ pass'[t].pc # "reset"
      BY <1>1, <1>3 DEF Pending
    <2>2. Recorded(k)' = Recorded(k) /\ Balance(t, k)
      BY <1>1, SameRecorded DEF ThreadInv
    <2>3. Seen(t, k)' = Seen(t, k)
      BY <1>1, <2>1, <2>2 DEF Seen
    <2> QED  BY <1>1, <2>1, <2>2, <2>3 DEF Balance
  <1>6. IsInjective(shaped')
    <2>0. shaped \in Seq(1..known) /\ IsInjective(shaped) /\ pass[t].key \in 1..known
      BY <1>1, PassFields DEF CommonInv, TypeInv, ProcessType, PassOK
    <2>1. CASE Shape(t)
      <3>1. shaped' = Append(shaped, pass[t].key) /\ pass[t].key \notin ToSet(shaped)
        BY <2>1 DEF Shape, ThreadInv, ListInv
      <3>2. PICK e : e = pass[t].key
        OBVIOUS
      <3>3. \A i \in 1..Len(shaped) : shaped[i] # e
        BY <2>0, <3>1, <3>2 DEF ToSet
      <3>4. \A i, j \in 1..Len(shaped) : shaped[i] = shaped[j] => i = j
        BY <2>0 DEF IsInjective
      <3> QED  BY <2>0, <3>1, <3>2, <3>3, <3>4 DEF IsInjective
    <2>2. CASE Unlist(t)
      <3>1. \A i, j \in 1..Len(shaped) : shaped[i] = shaped[j] => i = j
        BY <2>0 DEF IsInjective
      <3>2. PICK e : e = pass[t].key
        OBVIOUS
      <3>3. shaped' = RemoveFirst(shaped, e)
        BY <2>2, <3>2 DEF Unlist
      <3>4. CASE shaped' = shaped
        BY <2>0, <3>4
      <3>5. ASSUME NEW i \in 1..Len(shaped), Len(shaped') = Len(shaped) - 1,
                   \A j \in 1..Len(shaped) - 1 :
                      shaped'[j] = IF j < i THEN shaped[j] ELSE shaped[j + 1]
            PROVE  IsInjective(shaped')
        <4>1. shaped' \in Seq(1..known) /\ DOMAIN shaped' = 1..Len(shaped) - 1
          BY <2>0, <3>3, <3>5, RemoveFirstFields
        <4>2. ASSUME NEW a \in 1..Len(shaped) - 1, NEW b \in 1..Len(shaped) - 1,
                     shaped'[a] = shaped'[b]
              PROVE  a = b
          BY <3>1, <3>5, <4>2
        <4> QED  BY <4>1, <4>2 DEF IsInjective
      <3> QED  BY <2>0, <3>3, <3>4, <3>5, RemoveFirstFields
    <2> QED  BY <2>1, <2>2
  <1>7. CommonInv'
    BY <1>1, <1>6, SameRecorded DEF CommonInv, CountedInv
  <1> QED  BY <1>4, <1>5, <1>7 DEF ThreadInv

\* What the transaction saw of the key is what the database has.
LEMMA TurnSees ==
    ASSUME TypeInv, NEW t \in Threads, NEW k \in 1..known, Charging(t, k), ThreadInv(t)
    PROVE  SameRows(pass[t].view.rows[k], rows[k])
  <1>1. pass[t].pc = "charge" /\ k \in 1..Len(pass[t].view.rows)
    BY ChargingFacts
  <1> QED  BY <1>1 DEF ThreadInv, ViewInv, AsSeen

\* What is charged is what was pending, unless the key has no devices.
LEMMA PendingCharged ==
    ASSUME TypeInv, NEW t \in Threads, NEW k \in 1..known, Charging(t, k)
    PROVE  /\ k \in pass[t].view.paired =>
                 Pending(t, k) = IF Traffic(t, k) = None THEN 0 ELSE Traffic(t, k)
           /\ k \notin pass[t].view.paired => Traffic(t, k) = 0
           /\ Pending(t, k) > 0 => k \in Snapped(t, {k})
  <1>1. /\ pass[t].pc = "charge" /\ k \in pass[t].todo /\ k \in Keys
        /\ pass[t].snap[k] \in Nat \cup {None}
    BY ChargingFacts, PassFields
  <1> QED  BY <1>1 DEF Traffic, Pending, Snapped, None

\* The row of the day is the newest.
LEMMA OrderedAppended ==
    ASSUME NEW rs \in Seq(Row), NEW r \in Row, today \in Int, Ordered(rs), r.day = today,
           ~HasRow(rs, today)
    PROVE  /\ \A i, j \in 1..Len(Append(rs, r)) :
                 i < j => Append(rs, r)[i].day < Append(rs, r)[j].day
           /\ \A i \in 1..Len(Append(rs, r)) : Append(rs, r)[i].day <= today
  <1> DEFINE us == Append(rs, r)
             m == Len(rs)
  <1>1. /\ us \in Seq(Row) /\ Len(us) = m + 1 /\ us[m + 1] = r /\ m \in Nat
        /\ \A n \in 1..m : us[n] = rs[n]
    BY AppendType
  <1>2. \A i \in 1..m : rs[i].day \in Int /\ rs[i].day < today
    <2> SUFFICES ASSUME NEW i \in 1..m PROVE rs[i].day \in Int /\ rs[i].day < today
      OBVIOUS
    <2>1. rs[i] \in Row
      OBVIOUS
    <2>2. rs[i].day \in Int
      <3>1. rs[i].day \in 0..LastDay /\ LastDay \in Nat
        BY <2>1, Bounds DEF Row
      <3> QED  BY <3>1
    <2>3. rs[i].day <= today
      BY DEF Ordered
    <2>4. rs[i].day # today
      BY DEF HasRow, RowsOf
    <2> QED  BY <2>2, <2>3, <2>4
  <1>3. \A i, j \in 1..m : i < j => rs[i].day < rs[j].day
    BY DEF Ordered
  <1> HIDE DEF us, m
  <1>4. ASSUME NEW i \in 1..m + 1, NEW j \in 1..m + 1, i < j
        PROVE  us[i].day < us[j].day
    <2>1. i \in 1..m /\ us[i] = rs[i]
      BY <1>1, <1>4
    <2>2. CASE j = m + 1
      BY <1>1, <1>2, <2>1, <2>2
    <2>3. CASE j # m + 1
      <3>1. j \in 1..m /\ us[j] = rs[j]
        BY <1>1, <2>3
      <3> QED  BY <1>3, <1>4, <2>1, <3>1
    <2> QED  BY <2>2, <2>3
  <1>5. \A i \in 1..m + 1 : us[i].day <= today
    BY <1>1, <1>2
  <1> QED  BY <1>1, <1>4, <1>5 DEF us

LEMMA ChargeTraffic ==
    ASSUME TypeInv, NEW credit \in Int, NEW s \in Nat, NEW free
    PROVE  Traffics(NewRow(credit, s, free)) = s
  BY DEF NewRow, Charge, Traffics

LEMMA DayBegun ==
    ASSUME TypeInv, TypeInv', NEW t \in Threads, NEW k \in 1..known, CommonInv,
           ThreadInv(t), FirstOfDay(t, k)
    PROVE  CommonInv' /\ ThreadInv(t)'
  <1> DEFINE rs     == pass[t].view.rows[k]
             credit == NewCredit(rs, today, TopUp, MaxSaved)
             s      == Traffic(t, k)
  <1>1. PICK free \in BOOLEAN :
           /\ Charging(t, k) /\ ~HasRow(rs, today)
           /\ rows' = IF Written(s)
                      THEN [rows EXCEPT ![k] = Append(rows[k], NewRow(credit, s, free))]
                      ELSE rows
           /\ leaky' = leaky \cup (IF k \in pass[t].view.paired THEN {} ELSE Snapped(t, {k}))
           /\ AfterCommit(t, k)
           /\ known' = known /\ counter' = counter /\ counted' = counted
           /\ shaped' = shaped /\ today' = today /\ sent' = sent
    BY DEF FirstOfDay, Lose, kernelVars
  <1>2. /\ rs \in Seq(Row) /\ s \in Nat \cup {None} /\ k \in Keys /\ pass[t].pc = "charge"
        /\ rows[k] \in Seq(Row) /\ today \in Int
    BY <1>1, ChargingFacts DEF TypeInv, RowsType, HistoryType
  <1>3. PICK r : r = NewRow(credit, s, free)
    OBVIOUS
  <1>4. s # None => r \in Row /\ r.day = today /\ Traffics(r) = s
    <2>1. credit \in Int
      <3> HIDE DEF rs
      <3> QED  BY <1>2, NewCreditType
    <2> HIDE DEF credit, s
    <2> QED  BY <1>2, <1>3, <2>1, NewRowType, ChargeTraffic
  <1>5. ~HasRow(rows[k], today)
    BY <1>1, TurnSees DEF SameRows, SameRow, HasRow, RowsOf
  <1>6. /\ \A j \in 1..known \ {k} : rows'[j] = rows[j]
        /\ s = None => rows'[k] = rows[k]
        /\ s # None => rows'[k] = Append(rows[k], r)
    BY <1>1, <1>3 DEF Written, TypeInv, RowsType
  <1>7. DaysInv'
    <2>1. ASSUME NEW j \in 1..known PROVE Ordered(rows[j])'
      <3>1. Ordered(rows[j])
        BY DEF CommonInv, DaysInv
      <3>2. CASE rows'[j] = rows[j]
        BY <1>1, <3>1, <3>2 DEF Ordered
      <3>3. CASE j = k /\ s # None
        BY <1>1, <1>2, <1>4, <1>5, <1>6, <3>1, <3>3, OrderedAppended DEF Ordered
      <3> QED  BY <1>6, <3>2, <3>3
    <2> QED  BY <1>1, <2>1 DEF DaysInv
  <1>8. \A j \in Keys \ {k} : Recorded(j)' = Recorded(j)
    BY <1>1, <1>6 DEF Recorded, Keys
  <1>9. Recorded(k)' = Recorded(k) + (IF s = None THEN 0 ELSE s)
    <2>1. known \in Nat /\ k <= known /\ Total(rows[k]) \in Nat
      BY <1>2, TotalType DEF TypeInv, RowsType
    <2>2. CASE s = None
      BY <1>1, <1>6, <2>1, <2>2 DEF Recorded
    <2>3. CASE s # None
      <3>1. Total(rows'[k]) = Total(rows[k]) + s
        BY <1>2, <1>4, <1>6, <2>3, TotalAppended
      <3> QED  BY <1>1, <2>1, <2>3, <3>1 DEF Recorded
    <2> QED  BY <2>2, <2>3
  <1>10. ASSUME NEW j \in Keys PROVE Balance(t, j)'
    <2>1. /\ pass'[t].pc # "reset"
          /\ Pending(t, j)' = IF j = k THEN 0 ELSE Pending(t, j)
      BY <1>1, <1>2, TurnOver
    <2>2. Recorded(j) \in Nat /\ Pending(t, j) \in Nat
      BY RecordedType, PendingType
    <2>3. /\ Recorded(j)' + Pending(t, j)' <= Recorded(j) + Pending(t, j)
          /\ j \in leaky' \/ Recorded(j)' + Pending(t, j)' = Recorded(j) + Pending(t, j)
      <3>1. CASE j = k
        <4>1. /\ k \in pass[t].view.paired => Pending(t, k) = IF s = None THEN 0 ELSE s
              /\ k \notin pass[t].view.paired => s = 0
              /\ Pending(t, k) > 0 => k \in Snapped(t, {k})
          BY <1>1, PendingCharged
        <4> HIDE DEF s
        <4>2. CASE k \in pass[t].view.paired
          BY <1>2, <1>9, <2>1, <2>2, <3>1, <4>1, <4>2
        <4>3. CASE k \notin pass[t].view.paired
          BY <1>1, <1>9, <2>1, <2>2, <3>1, <4>1, <4>3 DEF None
        <4> QED  BY <4>2, <4>3
      <3>2. CASE j # k
        BY <1>8, <2>1, <2>2, <3>2
      <3> QED  BY <3>1, <3>2
    <2>4. Balance(t, j) /\ leaky \subseteq leaky' /\ sent'[j] = sent[j]
          /\ counter'[j] = counter[j]
      BY <1>1 DEF ThreadInv
    <2> QED  BY <2>1, <2>3, <2>4, BalanceKept
  <1>11. ViewInv(t)' /\ ListInv(t)'
    BY <1>1, <1>2, AfterTurn DEF ViewInv, ListInv
  <1>12. CommonInv'
    BY <1>1, <1>7 DEF CommonInv, CountedInv
  <1> QED  BY <1>10, <1>11, <1>12 DEF ThreadInv

LEMMA RowRaised ==
    ASSUME NEW old \in Row, NEW s \in Nat, NEW r,
           \/ r = [old EXCEPT !.free = old.free + s]
           \/ r = [old EXCEPT !.used = old.used + s]
    PROVE  r \in Row /\ r.day = old.day /\ Traffics(r) = Traffics(old) + s
  <1>1. old.used \in Nat /\ old.free \in Nat /\ Traffics(old) = old.used + old.free
    BY DEF Row, Traffics
  <1>2. /\ r \in Row /\ r.day = old.day
        /\ \/ r.free = old.free + s /\ r.used = old.used
           \/ r.free = old.free /\ r.used = old.used + s
    BY DEF Row
  <1>3. Traffics(r) = r.used + r.free
    BY DEF Traffics
  <1>4. r.used + r.free = old.used + old.free + s
    BY <1>1, <1>2
  <1> QED  BY <1>1, <1>2, <1>3, <1>4

\* The traffic of the turn is added to the row, and nothing else.
LEMMA RowCharged ==
    ASSUME TypeInv, TypeInv', NEW t \in Threads, NEW k \in 1..known, NEW over,
           NEW free \in BOOLEAN, OnRow(t, k, over), Update(t, k, free), ThreadInv(t),
           CommonInv, today' = today, known' = known
    PROVE  /\ DaysInv'
           /\ \A j \in Keys : Recorded(j)' = Recorded(j) + (IF j = k THEN Traffic(t, k) ELSE 0)
  <1> DEFINE rs == pass[t].view.rows[k]
  <1>1. PICK i, s : i = FirstRow(rs, today) /\ s = Traffic(t, k)
    OBVIOUS
  <1>2. /\ rs \in Seq(Row) /\ s \in Nat /\ k \in Keys /\ rows[k] \in Seq(Row)
        /\ HasRow(rs, today) /\ Charging(t, k) /\ rows \in Seq(Seq(Row))
        /\ Len(rows) = known /\ known \in Nat
    BY <1>1, ChargingFacts DEF OnRow, TypeInv, RowsType
  <1>3. /\ Len(rs) = Len(rows[k]) /\ i \in 1..Len(rows[k])
        /\ rs[i].free = rows[k][i].free /\ rs[i].used = rows[k][i].used
    <2>1. SameRows(rs, rows[k])
      BY <1>2, TurnSees
    <2>2. i \in 1..Len(rs)
      BY <1>1, <1>2, FirstRowFound
    <2>3. Len(rs) = Len(rows[k]) /\ SameRow(rs[i], rows[k][i])
      BY <2>1, <2>2 DEF SameRows
    <2> QED  BY <2>2, <2>3 DEF SameRow
  <1>4. \/ rows' = rows /\ s = 0
        \/ \E r : /\ Becomes(k, i, r) /\ r \in Row /\ r.day = rows[k][i].day
                  /\ Traffics(r) = Traffics(rows[k][i]) + s
    <2>1. \/ rows' = rows /\ s = 0
          \/ Becomes(k, i, [rows[k][i] EXCEPT !.free = rs[i].free + s])
          \/ Becomes(k, i, [rows[k][i] EXCEPT !.used = rs[i].used + s])
      BY <1>1, UpdateBecomes
    <2>2. PICK old : old = rows[k][i]
      OBVIOUS
    <2>3. old \in Row /\ rs[i].free = old.free /\ rs[i].used = old.used
      BY <1>2, <1>3, <2>2
    <2>4. ASSUME NEW r, \/ r = [old EXCEPT !.free = old.free + s]
                        \/ r = [old EXCEPT !.used = old.used + s]
          PROVE  r \in Row /\ r.day = old.day /\ Traffics(r) = Traffics(old) + s
      <3>1. s \in Nat /\ old \in Row
            /\ \/ r = [old EXCEPT !.free = old.free + s]
               \/ r = [old EXCEPT !.used = old.used + s]
        BY <1>2, <2>3, <2>4
      <3> QED  BY ONLY <3>1, RowRaised
    <2>5. \/ rows' = rows /\ s = 0
          \/ \E r : /\ Becomes(k, i, r)
                    /\ \/ r = [old EXCEPT !.free = old.free + s]
                       \/ r = [old EXCEPT !.used = old.used + s]
      BY <2>1, <2>2, <2>3
    <2> QED  BY <2>2, <2>4, <2>5
  <1>5. CASE rows' = rows /\ s = 0
    <2>1. ASSUME NEW j \in Keys PROVE Recorded(j)' = Recorded(j) + (IF j = k THEN s ELSE 0)
      BY <1>5, SameRecorded, RecordedType
    <2> QED  BY <1>1, <1>5, <2>1, SameRecorded DEF CommonInv
  <1>6. ASSUME NEW r, Becomes(k, i, r), r \in Row, r.day = rows[k][i].day,
               Traffics(r) = Traffics(rows[k][i]) + s
        PROVE  /\ DaysInv'
               /\ \A j \in Keys : Recorded(j)' = Recorded(j) + (IF j = k THEN s ELSE 0)
    <2>1. /\ rows' \in Seq(Seq(Row))
          /\ \A j \in 1..known \ {k} : rows'[j] = rows[j]
          /\ Len(rows'[k]) = Len(rows[k])
          /\ \A n \in 1..Len(rows[k]) : rows'[k][n] = IF n = i THEN r ELSE rows[k][n]
      BY <1>2, <1>6, BecomesType DEF TypeInv
    <2>2. \A n \in 1..Len(rows[k]) : rows'[k][n].day = rows[k][n].day
      BY <1>6, <2>1
    <2>3. ASSUME NEW j \in 1..known PROVE Ordered(rows[j])'
      <3>1. Ordered(rows[j])
        BY DEF CommonInv, DaysInv
      <3>2. CASE j # k
        BY <2>1, <3>1, <3>2 DEF Ordered
      <3>3. CASE j = k
        <4>1. PICK vs : vs = rows'[k]
          OBVIOUS
        <4>2. Len(vs) = Len(rows[k]) /\ \A n \in 1..Len(rows[k]) : vs[n].day = rows[k][n].day
          BY <2>1, <2>2, <4>1
        <4>3. /\ \A a, b \in 1..Len(vs) : a < b => vs[a].day < vs[b].day
              /\ \A a \in 1..Len(vs) : vs[a].day <= today
          BY <3>1, <3>3, <4>2 DEF Ordered
        <4> QED  BY <3>3, <4>1, <4>3 DEF Ordered
      <3> QED  BY <3>2, <3>3
    <2>4. Total(rows'[k]) = Total(rows[k]) + s
      <3>1. \A n \in 1..Len(rows[k]) : Traffics(rows[k][n]) \in Nat
        BY <1>2, TrafficsType
      <3>2. PICK vs : vs = rows'[k]
        OBVIOUS
      <3>3. vs \in Seq(Row) /\ Len(vs) = Len(rows[k])
        BY <1>2, <2>1, <3>2 DEF TypeInv, RowsType
      <3>4. \A n \in 1..Len(rows[k]) :
               Traffics(vs[n]) = Traffics(rows[k][n]) + (IF n = i THEN s ELSE 0)
        <4> SUFFICES ASSUME NEW n \in 1..Len(rows[k])
                     PROVE  Traffics(vs[n]) = Traffics(rows[k][n])
                                              + (IF n = i THEN s ELSE 0)
          OBVIOUS
        <4>1. vs[n] = IF n = i THEN r ELSE rows[k][n]
          BY <2>1, <3>2
        <4>2. Traffics(rows[k][n]) \in Nat
          BY <3>1
        <4>3. CASE n = i
          BY <1>6, <4>1, <4>3
        <4>4. CASE n # i
          BY <4>1, <4>2, <4>4
        <4> QED  BY <4>3, <4>4
      <3> QED  BY <1>2, <1>3, <3>2, <3>3, <3>4, TotalCharged
    <2>5. ASSUME NEW j \in Keys PROVE Recorded(j)' = Recorded(j) + (IF j = k THEN s ELSE 0)
      <3>1. CASE j = k
        BY <1>2, <2>4, <3>1 DEF Recorded
      <3>2. CASE j # k
        <4>1. Recorded(j) \in Nat /\ j \in Nat
          BY RecordedType DEF Keys
        <4>2. j <= known => rows'[j] = rows[j]
          BY <1>2, <2>1, <3>2, <4>1 DEF Keys
        <4>3. Recorded(j)' = Recorded(j)
          BY <1>2, <4>1, <4>2 DEF Recorded
        <4> QED  BY <3>2, <4>1, <4>3
      <3> QED  BY <3>1, <3>2
    <2> QED  BY <2>3, <2>5 DEF DaysInv
  <1> QED  BY <1>1, <1>4, <1>5, <1>6

\* A key that is charged to its row of the day.
LEMMA KeyCharged ==
    ASSUME TypeInv, TypeInv', NEW t \in Threads, NEW k \in 1..known, CommonInv,
           ThreadInv(t),
           WithinVolume(t, k) \/ StaysShaped(t, k) \/ UsesUp(t, k) \/ Recovers(t, k)
    PROVE  CommonInv' /\ ThreadInv(t)'
  <1>1. CASE \E over \in BOOLEAN, free \in BOOLEAN :
                /\ OnRow(t, k, over) /\ Update(t, k, free)
                /\ \/ AfterCommit(t, k) \/ GoOn(t, k, "unlist")
                   \/ GoOn(t, k, "shape") /\ ~Listed(k)
                /\ UNCHANGED <<known, counted, counter, shaped, today, sent, leaky>>
    <2>1. PICK over \in BOOLEAN, free \in BOOLEAN :
             /\ OnRow(t, k, over) /\ Update(t, k, free)
             /\ \/ AfterCommit(t, k) \/ GoOn(t, k, "unlist")
                \/ GoOn(t, k, "shape") /\ ~Listed(k)
             /\ known' = known /\ counter' = counter /\ counted' = counted
             /\ shaped' = shaped /\ today' = today /\ sent' = sent /\ leaky' = leaky
      BY <1>1
    <2>2. PICK s : s = Traffic(t, k)
      OBVIOUS
    <2>3. /\ Charging(t, k) /\ k \in pass[t].view.paired /\ s \in Nat /\ k \in Keys
          /\ pass[t].pc = "charge" /\ s # None
      BY <2>1, <2>2, ChargingFacts DEF OnRow
    <2>4. /\ DaysInv'
          /\ \A j \in Keys : Recorded(j)' = Recorded(j) + (IF j = k THEN s ELSE 0)
      BY <2>1, <2>2, RowCharged
    <2>5. /\ pass'[t].pc # "reset"
          /\ \A j \in Keys : Pending(t, j)' = IF j = k THEN 0 ELSE Pending(t, j)
      BY <2>1, <2>3, TurnOver
    <2>6. Pending(t, k) = s
      BY <2>2, <2>3, PendingCharged
    <2>7. ASSUME NEW j \in Keys PROVE Balance(t, j)'
      <3>1. Recorded(j) \in Nat /\ Pending(t, j) \in Nat
        BY RecordedType, PendingType
      <3>2. Recorded(j)' + Pending(t, j)' = Recorded(j) + Pending(t, j)
        BY <2>3, <2>4, <2>5, <2>6, <3>1
      <3>3. Balance(t, j) /\ leaky \subseteq leaky' /\ sent'[j] = sent[j]
            /\ counter'[j] = counter[j]
        BY <2>1 DEF ThreadInv
      <3> QED  BY <2>5, <3>1, <3>2, <3>3, BalanceKept
    <2>8. ViewInv(t)' /\ ListInv(t)'
      <3>1. \/ pass'[t].pc \in {"load", "off", "sleep", "unlist"}
            \/ pass'[t].pc = "shape" /\ pass'[t].key = k /\ ~Listed(k)
        BY <2>1, <2>3, AfterTurn
      <3> QED  BY <2>1, <3>1 DEF ViewInv, ListInv, Listed
    <2>9. CommonInv'
      BY <2>1, <2>4 DEF CommonInv, CountedInv
    <2> QED  BY <2>7, <2>8, <2>9 DEF ThreadInv
  <1>2. CASE Charging(t, k) /\ Abort(t) /\ UNCHANGED <<today, sent>>
    <2>1. /\ rows' = rows /\ known' = known /\ counter' = counter /\ counted' = counted
          /\ shaped' = shaped /\ today' = today /\ sent' = sent
          /\ leaky' = leaky \cup Snapped(t, pass[t].todo) /\ Set(t, Rest(t))
      BY <1>2 DEF Abort, Lose, dbVars, kernelVars
    <2>2. /\ pass'[t].pc \in {"off", "sleep"}
          /\ \A j \in Keys : Pending(t, j)' = 0
      BY <2>1, AbortPasses
    <2>3. ASSUME NEW j \in Keys PROVE Balance(t, j)'
      <3>1. /\ Recorded(j) \in Nat /\ Pending(t, j) \in Nat
            /\ Pending(t, j) > 0 => pass[t].snap[j] > 0 /\ j \in pass[t].todo
        BY RecordedType, PendingType
      <3>2. Recorded(j)' = Recorded(j) /\ (Pending(t, j) > 0 => j \in leaky')
        BY <2>1, <3>1, SameRecorded DEF Snapped
      <3>3. /\ Recorded(j)' + Pending(t, j)' <= Recorded(j) + Pending(t, j)
            /\ j \in leaky' \/ Recorded(j)' + Pending(t, j)' = Recorded(j) + Pending(t, j)
        BY <2>2, <3>1, <3>2
      <3>4. Balance(t, j) /\ leaky \subseteq leaky' /\ sent'[j] = sent[j]
            /\ counter'[j] = counter[j] /\ pass'[t].pc # "reset"
        BY <2>1, <2>2 DEF ThreadInv
      <3> QED  BY <3>3, <3>4, BalanceKept
    <2>4. CommonInv'
      BY <2>1, SameRecorded DEF CommonInv, CountedInv
    <2> QED  BY <2>2, <2>3, <2>4 DEF ThreadInv, ViewInv, ListInv
  <1>3. WithinVolume(t, k) \/ StaysShaped(t, k) \/ UsesUp(t, k) =>
           \E over \in BOOLEAN, free \in BOOLEAN :
                /\ OnRow(t, k, over) /\ Update(t, k, free)
                /\ \/ AfterCommit(t, k) \/ GoOn(t, k, "unlist")
                   \/ GoOn(t, k, "shape") /\ ~Listed(k)
                /\ UNCHANGED <<known, counted, counter, shaped, today, sent, leaky>>
    BY DEF WithinVolume, StaysShaped, UsesUp, kernelVars, historyVars
  <1>4. ASSUME Recovers(t, k), ~(Charging(t, k) /\ Abort(t) /\ UNCHANGED <<today, sent>>)
        PROVE  /\ OnRow(t, k, FALSE) /\ Update(t, k, TRUE) /\ GoOn(t, k, "unlist")
               /\ UNCHANGED <<known, counted, counter, shaped, today, sent, leaky>>
    BY <1>4 DEF Recovers, OnRow
  <1> QED  BY <1>1, <1>2, <1>3, <1>4

\* A step of a pass leaves the other threads where they are.
LEMMA OthersStay ==
    ASSUME TypeInv, NEW t \in Threads, PassStep(t)
    PROVE  \E p : Set(t, p)
  <1>1. ASSUME NEW k \in 1..known,
               \/ SkipKey(t, k) \/ FirstOfDay(t, k) \/ WithoutDevices(t, k)
               \/ NoCounters(t, k) \/ WithinVolume(t, k) \/ StaysShaped(t, k)
               \/ UsesUp(t, k) \/ Recovers(t, k)
        PROVE  \E p : Set(t, p)
    <2>1. \/ AfterCommit(t, k) \/ Skip(t, k) \/ Set(t, Rest(t))
          \/ GoOn(t, k, "shape") \/ GoOn(t, k, "unlist")
      BY <1>1 DEF SkipKey, FirstOfDay, WithoutDevices, NoCounters, WithinVolume,
                  StaysShaped, UsesUp, Recovers, Abort
    <2> QED  BY <2>1 DEF AfterCommit, Skip, GoOn
  <1>2. CASE Wake(t) \/ ListCounters(t) \/ ResetCounters(t) \/ Load(t)
    BY <1>2 DEF Wake, ListCounters, ResetCounters, Load
  <1>3. CASE Shape(t) \/ Unlist(t)
    BY <1>3 DEF Shape, Unlist, EndTurn
  <1> QED  BY <1>1, <1>2, <1>3 DEF PassStep

\* Only waking up can make passes overlap.
LEMMA NoOverlap ==
    ASSUME TypeInv, NEW t \in Threads, PassStep(t), ~overlapped'
    PROVE  ~overlapped /\ (Alone => Only(t))
  <1>1. CASE Wake(t)
    BY <1>1 DEF Wake, Only, TypeInv, HistoryType
  <1>2. CASE ~Wake(t)
    <2>1. Working(t) /\ overlapped' = overlapped
      <3>1. ASSUME NEW k \in 1..known,
                   \/ SkipKey(t, k) \/ FirstOfDay(t, k) \/ WithoutDevices(t, k)
                   \/ NoCounters(t, k) \/ WithinVolume(t, k) \/ StaysShaped(t, k)
                   \/ UsesUp(t, k) \/ Recovers(t, k)
            PROVE  pass[t].pc = "charge" /\ overlapped' = overlapped
        BY <3>1 DEF SkipKey, FirstOfDay, WithoutDevices, NoCounters, WithinVolume,
                    StaysShaped, UsesUp, Recovers, OnRow, Charging, Turn, historyVars
      <3>2. CASE ListCounters(t) \/ ResetCounters(t) \/ Load(t) \/ Shape(t) \/ Unlist(t)
        BY <3>2 DEF ListCounters, ResetCounters, Load, Shape, Unlist, Working, historyVars
      <3> QED  BY <1>2, <3>1, <3>2 DEF PassStep, Working
    <2> QED  BY <2>1 DEF Alone, Only
  <1> QED  BY <1>1, <1>2

LEMMA PassKeepsCore ==
    ASSUME TypeInv, TypeInv', PassInv, NEW t \in Threads, PassStep(t)
    PROVE  PassInv'
  <1> SUFFICES ASSUME ~overlapped' PROVE Core'
    BY DEF PassInv
  <1>1. ~overlapped /\ (Alone => Only(t))
    BY NoOverlap
  <1>2. Core /\ Only(t) /\ CommonInv /\ ThreadInv(t)
    BY <1>1 DEF PassInv, Core
  <1>3. Only(t)'
    <2>1. PICK p : Set(t, p)
      BY OthersStay
    <2>2. \A u \in Threads \ {t} : pass'[u] = pass[u]
      BY <2>1 DEF Set, TypeInv, PassType
    <2> QED  BY <1>2, <2>2 DEF Only, Working
  <1>4. CommonInv' /\ ThreadInv(t)'
    <2>1. ASSUME NEW k \in 1..known,
                 \/ SkipKey(t, k) \/ FirstOfDay(t, k) \/ WithoutDevices(t, k)
                 \/ NoCounters(t, k) \/ WithinVolume(t, k) \/ StaysShaped(t, k)
                 \/ UsesUp(t, k) \/ Recovers(t, k)
          PROVE  CommonInv' /\ ThreadInv(t)'
      <3>1. CASE SkipKey(t, k) \/ WithoutDevices(t, k) \/ NoCounters(t, k)
        BY <1>2, <3>1, TrafficLost
      <3>2. CASE FirstOfDay(t, k)
        BY <1>2, <3>2, DayBegun
      <3>3. CASE WithinVolume(t, k) \/ StaysShaped(t, k) \/ UsesUp(t, k) \/ Recovers(t, k)
        BY <1>2, <3>3, KeyCharged
      <3> QED  BY <2>1, <3>1, <3>2, <3>3
    <2>2. CASE Wake(t) \/ ListCounters(t) \/ Load(t)
      BY <1>2, <2>2, PassBegins
    <2>3. CASE ResetCounters(t)
      BY <1>2, <2>3, CountersReset
    <2>4. CASE Shape(t) \/ Unlist(t)
      BY <1>2, <2>4, ListChanged
    <2> QED  BY <2>1, <2>2, <2>3, <2>4 DEF PassStep
  <1> QED  BY <1>2, <1>3, <1>4, OneForAll

-----------------------------------------------------------------------------
(* Requests, the environment, and a new process *)

\* Whatever leaves the passes, the list and the traffic in the rows alone, and
\* deletes no counter unnoticed.
LEMMA PassesUndisturbed ==
    ASSUME TypeInv, TypeInv', Core, known' = known, pass' = pass, shaped' = shaped,
           today' >= today, sent' = sent, leaky \subseteq leaky',
           \A k \in 1..known : SameRows(rows'[k], rows[k]),
           \A k \in Keys : \/ counter'[k] = counter[k]
                           \/ counter'[k] = 0 /\ (counter[k] > 0 => k \in leaky'),
           \A k \in Keys : counter'[k] > 0 => k \in counted'
    PROVE  Core'
  <1>1. \A k \in Keys : Recorded(k)' = Recorded(k)
    <2> SUFFICES ASSUME NEW k \in Keys, k \in 1..known PROVE Recorded(k)' = Recorded(k)
      <3>1. ASSUME NEW k \in Keys, k \notin 1..known PROVE Recorded(k)' = Recorded(k)
        <4>1. k > known
          BY <3>1 DEF Keys, TypeInv, RowsType
        <4> QED  BY <4>1 DEF Recorded
      <3> QED  BY <3>1
    <2>0. ~(k > known)
      BY DEF TypeInv, RowsType
    <2>1. PICK us : us = rows'[k]
      OBVIOUS
    <2>2. rows[k] \in Seq(Row) /\ us \in Seq(Row) /\ Len(us) = Len(rows[k])
      BY <2>0, <2>1 DEF TypeInv, RowsType, SameRows
    <2>3. \A n \in 1..Len(rows[k]) : Traffics(us[n]) = Traffics(rows[k][n])
      BY <2>0, <2>1 DEF SameRows, SameRow, Traffics
    <2>4. Total(us) = Total(rows[k])
      BY <2>2, <2>3, TotalSame
    <2> QED  BY <2>0, <2>1, <2>4 DEF Recorded
  <1>2. CommonInv'
    <2>1. ASSUME NEW k \in 1..known PROVE Ordered(rows[k])'
      <3>1. PICK us : us = rows'[k]
        OBVIOUS
      <3>2. Len(us) = Len(rows[k]) /\ \A i \in 1..Len(us) : us[i].day = rows[k][i].day
        BY <3>1 DEF SameRows, SameRow
      <3>3. Ordered(rows[k])
        BY DEF Core, CommonInv, DaysInv
      <3>4. \A i \in 1..Len(us) : us[i].day <= today'
        <4>1. rows[k] \in Seq(Row) /\ LastDay \in Nat /\ today \in Int /\ today' \in Int
          BY Bounds DEF TypeInv, RowsType, HistoryType
        <4> SUFFICES ASSUME NEW i \in 1..Len(us) PROVE us[i].day <= today'
          OBVIOUS
        <4>2. rows[k][i] \in Row
          BY <3>2, <4>1
        <4>3. rows[k][i].day \in Int
          BY <4>2 DEF Row
        <4>4. rows[k][i].day <= today
          BY <3>2, <3>3 DEF Ordered
        <4> QED  BY <3>2, <4>1, <4>3, <4>4
      <3>5. \A i, j \in 1..Len(us) : i < j => us[i].day < us[j].day
        BY <3>2, <3>3 DEF Ordered
      <3> QED  BY <3>1, <3>4, <3>5 DEF Ordered
    <2> QED  BY <2>1 DEF Core, CommonInv, DaysInv, CountedInv
  <1>3. ASSUME NEW t \in Threads, ThreadInv(t) PROVE ThreadInv(t)'
    <2>1. ViewInv(t)'
      <3>1. SUFFICES ASSUME AsSeen(pass[t].view) PROVE AsSeen(pass[t].view)'
        BY <1>3 DEF ThreadInv, ViewInv
      <3>2. Len(pass[t].view.rows) <= known /\ Len(pass[t].view.rows) \in Nat
            /\ known \in Nat
        BY PassFields DEF PassOK, TypeInv, RowsType
      <3>3. ASSUME NEW k \in 1..Len(pass[t].view.rows)
            PROVE  SameRows(pass[t].view.rows[k], rows'[k])
        <4>1. k \in 1..known
          BY <3>2
        <4>2. SameRows(pass[t].view.rows[k], rows[k]) /\ SameRows(rows'[k], rows[k])
          BY <3>1, <4>1 DEF AsSeen
        <4> QED  BY <4>2 DEF SameRows, SameRow
      <3> QED  BY <3>3 DEF AsSeen
    <2>2. ListInv(t)'
      BY <1>3 DEF ThreadInv, ListInv
    <2>3. ASSUME NEW k \in Keys PROVE Balance(t, k)'
      <3>1. /\ Pending(t, k)' = Pending(t, k) /\ Recorded(k)' = Recorded(k)
            /\ Pending(t, k) \in Nat /\ Recorded(k) \in Nat /\ counter[k] \in Nat
            /\ counter'[k] \in Nat /\ sent[k] \in Nat /\ Balance(t, k)
            /\ pass[t].snap[k] \in Nat \cup {None}
        BY <1>1, <1>3, PendingType, RecordedType, PassFields
           DEF Pending, TypeInv, CountersType, HistoryType, ThreadInv
      <3>2. counter'[k] <= counter[k] /\ (k \in leaky' \/ counter'[k] = counter[k])
        BY <3>1
      <3>3. Seen(t, k)' <= Seen(t, k) /\ (k \in leaky' \/ Seen(t, k)' = Seen(t, k))
            /\ Seen(t, k) \in Nat /\ Seen(t, k)' \in Nat
        BY <3>1, <3>2 DEF Seen
      <3> QED  BY <3>1, <3>2, <3>3 DEF Balance
    <2> QED  BY <2>1, <2>2, <2>3 DEF ThreadInv
  <1> QED  BY <1>2, <1>3 DEF Core, Alone, Only, Working

LEMMA SameRowsItself == \A rs : SameRows(rs, rs)
  BY DEF SameRows, SameRow

LEMMA CreditKeepsCore ==
    ASSUME TypeInv, TypeInv', Core, NEW k \in 1..known, NEW amount \in 1..TopUp,
           SetCredit(k, amount)
    PROVE  Core'
  <1> DEFINE i == FirstRow(rows[k], LatestDay(k))
             r == [rows[k][i] EXCEPT !.credit = amount + rows[k][i].used]
  <1>1. /\ HasRow(rows[k], LatestDay(k)) /\ Becomes(k, i, r)
        /\ known' = known /\ pass' = pass /\ shaped' = shaped /\ today' = today
        /\ sent' = sent /\ leaky' = leaky /\ counter' = counter /\ counted' = counted
    BY DEF SetCredit, Becomes, kernelVars
  <1>2. RowsType /\ rows[k] \in Seq(Row) /\ today \in Int
    BY DEF TypeInv, RowsType, HistoryType
  <1>3. rows[k][i] \in Row
    BY <1>1, <1>2, FirstRowFound
  <1>4. r \in Row /\ SameRow(r, rows[k][i])
    BY <1>3, Bounds DEF Row, SameRow
  <1> HIDE DEF r, i
  <1>5. ASSUME NEW j \in 1..known PROVE SameRows(rows'[j], rows[j])
    <2>1. /\ \A n \in 1..known \ {k} : rows'[n] = rows[n]
          /\ Len(rows'[k]) = Len(rows[k])
          /\ \A n \in 1..Len(rows[k]) : rows'[k][n] = IF n = i THEN r ELSE rows[k][n]
      BY <1>1, <1>2, <1>4, BecomesType
    <2>2. CASE j # k
      BY <2>1, <2>2, SameRowsItself
    <2>3. CASE j = k
      BY <1>4, <2>1, <2>3 DEF SameRows, SameRow
    <2> QED  BY <2>2, <2>3
  <1>6. \A j \in Keys : counter[j] > 0 => j \in counted
    BY DEF Core, CommonInv, CountedInv
  <1>7. today' >= today
    BY <1>1, <1>2
  <1> QED  BY <1>1, <1>5, <1>6, <1>7, PassesUndisturbed

LEMMA DropCountersLoses ==
    ASSUME TypeInv, NEW k \in 1..known, DropCounters(k), Core
    PROVE  /\ leaky \subseteq leaky'
           /\ \A j \in Keys : /\ \/ counter'[j] = counter[j]
                                 \/ counter'[j] = 0 /\ (counter[j] > 0 => j \in leaky')
                              /\ counter'[j] > 0 => j \in counted'
  <1>1. /\ counted' = counted \ {k} /\ counter' = [counter EXCEPT ![k] = 0]
        /\ leaky' = leaky \cup (IF counter[k] > 0 THEN {k} ELSE {})
        /\ counter \in [Keys -> Nat]
    BY DEF DropCounters, Lose, TypeInv, CountersType
  <1>2. \A j \in Keys : counter[j] > 0 => j \in counted
    BY DEF Core, CommonInv, CountedInv
  <1>3. \A j \in Keys : counter'[j] = IF j = k THEN 0 ELSE counter[j]
    BY <1>1
  <1> QED  BY <1>1, <1>2, <1>3

\* The requests that touch neither the rows nor the threads.
LEMMA RequestKeepsCore ==
    ASSUME TypeInv, TypeInv', Core,
           \/ \E k \in 1..known : \/ DisableAccounting(k) \/ EnableAccounting(k)
                                  \/ Register(k) \/ Deregister(k) \/ Activate(k)
                                  \/ Deactivate(k)
           \/ RequestStep \/ Midnight \/ UNCHANGED vars
    PROVE  Core'
  <1>1. /\ known' = known /\ rows' = rows /\ pass' = pass /\ shaped' = shaped
        /\ today' >= today /\ sent' = sent
    <2>0. today \in Int
      BY DEF TypeInv, HistoryType
    <2>1. CASE \E k \in 1..known : \/ DisableAccounting(k) \/ EnableAccounting(k)
                                   \/ Register(k) \/ Deregister(k) \/ Activate(k)
                                   \/ Deactivate(k)
      BY <2>0, <2>1 DEF DisableAccounting, EnableAccounting, Register, Deregister,
                        Activate, Deactivate, dbVars
    <2>2. CASE RequestStep
      BY <2>0, <2>2 DEF RequestStep, SetUp, TearDown, EndDeactivate, dbVars, historyVars
    <2>3. CASE Midnight \/ UNCHANGED vars
      BY <2>0, <2>3 DEF Midnight, vars, dbVars, historyVars
    <2> QED  BY <2>1, <2>2, <2>3
  <1>2. \A k \in 1..known : SameRows(rows'[k], rows[k])
    BY <1>1, SameRowsItself
  <1>3. \A j \in Keys : counter[j] > 0 => j \in counted
    BY DEF Core, CommonInv, CountedInv
  <1>4. CASE \E k \in 1..known : DropCounters(k)
    BY <1>1, <1>2, <1>4, DropCountersLoses, PassesUndisturbed
  <1>5. CASE counter' = counter /\ counted \subseteq counted' /\ leaky' = leaky
    BY <1>1, <1>2, <1>3, <1>5, PassesUndisturbed
  <1>6. \/ \E k \in 1..known : DropCounters(k)
        \/ counter' = counter /\ counted \subseteq counted' /\ leaky' = leaky
    <2>1. CASE \E k \in 1..known : \/ DisableAccounting(k) \/ EnableAccounting(k)
                                   \/ Register(k) \/ Deregister(k) \/ Activate(k)
      BY <2>1 DEF DisableAccounting, EnableAccounting, Register, Deregister, Activate,
                  kernelVars
    <2>2. CASE \E k \in 1..known : Deactivate(k)
      BY <2>2 DEF Deactivate
    <2>3. CASE RequestStep
      <3>1. CASE SetUp \/ EndDeactivate
        BY <3>1 DEF SetUp, EndDeactivate, historyVars
      <3>2. CASE TearDown
        BY <3>2 DEF TearDown, TypeInv, ProcessType
      <3> QED  BY <2>3, <3>1, <3>2 DEF RequestStep
    <2>4. CASE Midnight \/ UNCHANGED vars
      BY <2>4 DEF Midnight, vars, kernelVars, historyVars
    <2> QED  BY <2>1, <2>2, <2>3, <2>4
  <1> QED  BY <1>4, <1>5, <1>6

LEMMA SendKeepsCore ==
    ASSUME TypeInv, TypeInv', Core, NEW k \in 1..known, Send(k)
    PROVE  Core'
  <1>1. /\ known' = known /\ rows' = rows /\ pass' = pass /\ shaped' = shaped
        /\ today' = today /\ leaky' = leaky /\ counted' = counted /\ k \in counted
        /\ counter' = [counter EXCEPT ![k] = counter[k] + 1]
        /\ sent' = [sent EXCEPT ![k] = sent[k] + 1]
    BY DEF Send, dbVars
  <1>2. counter \in [Keys -> Nat] /\ sent \in [Keys -> Nat]
    BY DEF TypeInv, CountersType, HistoryType
  <1>3. CommonInv'
    <2>1. \A j \in Keys : counter'[j] > 0 => j \in counted'
      BY <1>1, <1>2 DEF Core, CommonInv, CountedInv
    <2> QED  BY <1>1, <2>1, SameRecorded DEF Core, CommonInv, CountedInv
  <1>4. ASSUME NEW t \in Threads, ThreadInv(t) PROVE ThreadInv(t)'
    <2>1. ViewInv(t)' /\ ListInv(t)'
      BY <1>1, <1>4 DEF ThreadInv, ViewInv, ListInv, AsSeen
    <2>2. ASSUME NEW j \in Keys PROVE Balance(t, j)'
      <3>1. /\ Pending(t, j)' = Pending(t, j) /\ Recorded(j)' = Recorded(j)
            /\ Pending(t, j) \in Nat /\ Recorded(j) \in Nat /\ Balance(t, j)
            /\ pass[t].snap[j] \in Nat \cup {None}
        BY <1>1, <1>4, SameRecorded, PendingType, RecordedType, PassFields
           DEF Pending, ThreadInv
      <3>2. \/ counter'[j] = counter[j] /\ sent'[j] = sent[j]
            \/ counter'[j] = counter[j] + 1 /\ sent'[j] = sent[j] + 1
        BY <1>1, <1>2
      <3>3. counter[j] \in Nat /\ sent[j] \in Nat
        BY <1>2
      <3>4. Seen(t, j) = Recorded(j) + counter[j] + Pending(t, j)
            /\ Seen(t, j)' = Recorded(j) + counter'[j] + Pending(t, j)
        BY <3>1 DEF Seen
      <3>5. /\ Seen(t, j)' <= sent'[j]
            /\ j \notin leaky' => Seen(t, j)' = sent'[j]
        BY <1>1, <3>1, <3>2, <3>3, <3>4 DEF Balance
      <3>6. pass'[t].pc = "reset" /\ pass'[t].snap[j] > 0 =>
               /\ Recorded(j)' + pass'[t].snap[j] <= sent'[j]
               /\ j \notin leaky' => pass'[t].snap[j] <= counter'[j]
        BY <1>1, <3>1, <3>2, <3>3 DEF Balance, None
      <3> QED  BY <3>5, <3>6 DEF Balance
    <2> QED  BY <2>1, <2>2 DEF ThreadInv
  <1> QED  BY <1>1, <1>3, <1>4 DEF Core, Alone, Only, Working

\* The row a key is added with counts no traffic.
LEMMA TotalOfOne ==
    ASSUME NEW r \in Row
    PROVE  Total(<<r>>) = Traffics(r)
  <1>1. PICK rs, S : rs = <<>> /\ S = Row
    OBVIOUS
  <1>2. rs \in Seq(Row) /\ Len(rs) = 0 /\ Append(rs, r) = <<r>>
    BY <1>1
  <1>3. Total(rs) = 0
    <2>1. PICK f : IsTotal(f, rs) /\ Total(rs) = f[Len(rs)]
      BY <1>2, TotalIs
    <2> QED  BY <1>2, <2>1 DEF IsTotal
  <1>4. Total(Append(rs, r)) = Total(rs) + Traffics(r)
    BY <1>2, TotalAppended
  <1>5. Traffics(r) \in Nat
    BY TrafficsType
  <1> QED  BY <1>2, <1>3, <1>4, <1>5

LEMMA AddKeyKeepsCore ==
    ASSUME TypeInv, TypeInv', Core, AddKey
    PROVE  Core'
  <1>1. PICK t \in Threads :
           /\ known < NKeys /\ known' = known + 1 /\ pass[t].pc = "off"
           /\ rows' = Append(rows, <<NewRow(Initial, 0, FALSE)>>)
           /\ pass' = [u \in Threads |-> IF u = t THEN Asleep
                                         ELSE [pass[u] EXCEPT !.run = FALSE]]
           /\ counter' = counter /\ counted' = counted /\ shaped' = shaped
           /\ today' = today /\ sent' = sent /\ leaky' = leaky
    BY DEF AddKey, kernelVars
  <1>2. PICK zero, free, r : zero = 0 /\ free = FALSE /\ r = NewRow(Initial, zero, free)
    OBVIOUS
  <1>3. r \in Row /\ r.day = today /\ Traffics(r) = 0
    <2>1. Initial \in Int /\ zero \in Nat
      BY <1>2, Bounds
    <2> QED  BY <1>2, <2>1, NewRowType, ChargeTraffic
  <1>4. PICK u : u = <<r>>
    OBVIOUS
  <1>5. /\ u \in Seq(Row) /\ Len(u) = 1 /\ u[1] = r /\ Total(u) = 0
    BY <1>3, <1>4, TotalOfOne
  <1>6. /\ \A k \in 1..known : rows'[k] = rows[k]
        /\ rows'[known + 1] = u /\ known \in Nat /\ known' = known + 1
        /\ today' = today
    <2>1. rows \in Seq(Seq(Row)) /\ Len(rows) = known /\ known \in Nat
      BY DEF TypeInv, RowsType
    <2>2. rows' = Append(rows, u)
      BY <1>1, <1>2, <1>4
    <2>3. PICK S : S = Seq(Row)
      OBVIOUS
    <2>4. rows \in Seq(S) /\ u \in S
      BY <1>5, <2>1, <2>3
    <2>5. (\A k \in 1..known : rows'[k] = rows[k]) /\ rows'[known + 1] = u
      BY <2>1, <2>2, <2>4, AppendType
    <2> QED  BY <1>1, <2>1, <2>5
  <1>7. ASSUME NEW k \in Keys PROVE Recorded(k)' = Recorded(k)
    <2>1. k \in Nat \ {0}
      BY DEF Keys
    <2>2. CASE k <= known
      <3>1. rows'[k] = rows[k] /\ ~(k > known) /\ ~(k > known')
        BY <1>6, <2>1, <2>2
      <3> QED  BY <3>1 DEF Recorded
    <2>3. CASE k = known + 1
      <3>1. rows'[k] = u /\ k > known /\ ~(k > known') /\ Total(u) = 0
        BY <1>5, <1>6, <2>1, <2>3
      <3> QED  BY <3>1 DEF Recorded
    <2>4. CASE k > known + 1
      BY <1>6, <2>1, <2>4 DEF Recorded
    <2> QED  BY <1>6, <2>1, <2>2, <2>3, <2>4
  <1>8. DaysInv'
    <2>1. ASSUME NEW k \in 1..known + 1 PROVE Ordered(rows[k])'
      <3>1. CASE k = known + 1
        <4>1. today \in Int
          BY DEF TypeInv, HistoryType
        <4> QED  BY <1>3, <1>5, <1>6, <3>1, <4>1 DEF Ordered
      <3>2. CASE k # known + 1
        <4>1. k \in 1..known
          BY <1>6, <3>2
        <4> QED  BY <1>6, <4>1 DEF Core, CommonInv, DaysInv, Ordered
      <3> QED  BY <3>1, <3>2
    <2> QED  BY <1>1, <2>1 DEF DaysInv
  <1>9. CommonInv'
    BY <1>1, <1>8 DEF Core, CommonInv, CountedInv
  <1>10. ASSUME NEW v \in Threads
         PROVE  \/ pass[v].pc = "off" /\ pass'[v].pc = "sleep"
                \/ /\ pass'[v].pc = pass[v].pc /\ pass'[v].view = pass[v].view
                   /\ pass'[v].snap = pass[v].snap /\ pass'[v].todo = pass[v].todo
                   /\ pass'[v].key = pass[v].key
    <2>1. CASE v = t
      BY <1>1, <2>1 DEF Asleep, Pass
    <2>2. CASE v # t
      <3>1. pass[v] \in PassRecord /\ pass'[v] = [pass[v] EXCEPT !.run = FALSE]
        BY <1>1, <2>2, PassFields
      <3> QED  BY <3>1 DEF PassRecord
    <2> QED  BY <2>1, <2>2
  <1>11. \A v \in Threads : Working(v)' <=> Working(v)
    BY <1>10 DEF Working
  <1>12. ASSUME NEW v \in Threads, ThreadInv(v) PROVE ThreadInv(v)'
    <2>1. ListInv(v)'
      BY <1>1, <1>10, <1>12 DEF ThreadInv, ListInv
    <2>2. ViewInv(v)'
      <3>1. Len(pass[v].view.rows) <= known /\ Len(pass[v].view.rows) \in Nat
        BY PassFields DEF PassOK
      <3>2. \A k \in 1..Len(pass[v].view.rows) : rows'[k] = rows[k]
        BY <1>6, <3>1
      <3> QED  BY <1>10, <1>12, <3>2 DEF ThreadInv, ViewInv, AsSeen
    <2>3. ASSUME NEW k \in Keys PROVE Balance(v, k)'
      <3>1. Pending(v, k)' = Pending(v, k)
        BY <1>10 DEF Pending
      <3>2. Seen(v, k)' = Seen(v, k) /\ Recorded(k)' = Recorded(k)
        BY <1>1, <1>7, <3>1 DEF Seen
      <3> QED  BY <1>1, <1>10, <1>12, <3>2 DEF ThreadInv, Balance
    <2> QED  BY <2>1, <2>2, <2>3 DEF ThreadInv
  <1> QED  BY <1>9, <1>11, <1>12 DEF Core, Alone, Only

\* A new process: nobody is in a pass, nothing is listed or counted.
LEMMA FreshCore ==
    ASSUME pass = [t \in Threads |-> IF t = 1 THEN Asleep ELSE Off], shaped = <<>>,
           counter = [k \in Keys |-> 0], DaysInv,
           \A k \in Keys : /\ Recorded(k) \in Nat /\ sent[k] \in Nat
                           /\ Recorded(k) <= sent[k]
                           /\ k \in leaky \/ Recorded(k) = sent[k]
    PROVE  Core
  <1>1. \A t \in Threads : pass[t].pc \in {"off", "sleep"}
    BY DEF Asleep, Off, Pass
  <1>2. CommonInv
    BY DEF CommonInv, CountedInv, IsInjective
  <1>3. ASSUME NEW t \in Threads PROVE ThreadInv(t)
    <2>1. ViewInv(t) /\ ListInv(t)
      BY <1>1 DEF ViewInv, ListInv
    <2>2. ASSUME NEW k \in Keys PROVE Balance(t, k)
      <3>1. Pending(t, k) = 0 /\ counter[k] = 0 /\ pass[t].pc # "reset"
        BY <1>1 DEF Pending
      <3> QED  BY <3>1 DEF Balance, Seen
    <2> QED  BY <2>1, <2>2 DEF ThreadInv
  <1> QED  BY <1>1, <1>2, <1>3 DEF Core, Alone, Working

LEMMA RestartKeepsCore ==
    ASSUME TypeInv, TypeInv', Core, Restart
    PROVE  Core'
  <1>1. /\ known' = known /\ rows' = rows /\ today' = today /\ sent' = sent
        /\ counter' = [k \in Keys |-> 0] /\ shaped' = <<>>
        /\ pass' = [t \in Threads |-> IF t = 1 THEN Asleep ELSE Off]
        /\ leaky' = leaky \cup {k \in Keys : counter[k] > 0
                                             \/ \E t \in Threads : Pending(t, k) > 0}
    BY DEF Restart, Lose, dbVars
  <1>2. PICK t \in Threads : ThreadInv(t)
    BY SomeThread DEF Core
  <1>3. ASSUME NEW k \in Keys
        PROVE  /\ Recorded(k)' \in Nat /\ sent'[k] \in Nat
               /\ Recorded(k)' <= sent'[k]
               /\ k \in leaky' \/ Recorded(k)' = sent'[k]
    <2>1. /\ Recorded(k) \in Nat /\ Pending(t, k) \in Nat /\ counter[k] \in Nat
          /\ sent[k] \in Nat /\ Balance(t, k)
      BY <1>2, RecordedType, PendingType DEF TypeInv, CountersType, HistoryType, ThreadInv
    <2>2. Recorded(k)' = Recorded(k) /\ sent'[k] = sent[k]
      BY <1>1, SameRecorded
    <2>3. k \in leaky' \/ (counter[k] = 0 /\ Pending(t, k) = 0 /\ k \notin leaky)
      BY <1>1, <2>1
    <2> QED  BY <2>1, <2>2, <2>3 DEF Balance, Seen
  <1>4. DaysInv'
    BY <1>1, SameRecorded DEF Core, CommonInv
  <1>5. \A u \in Threads : pass'[u].pc \in {"off", "sleep"}
    BY <1>1 DEF Asleep, Off, Pass
  <1>6. CommonInv'
    BY <1>1, <1>4 DEF CommonInv, CountedInv, IsInjective
  <1>7. ASSUME NEW u \in Threads PROVE ThreadInv(u)'
    <2>1. ViewInv(u)' /\ ListInv(u)'
      BY <1>5 DEF ViewInv, ListInv
    <2>2. ASSUME NEW k \in Keys PROVE Balance(u, k)'
      <3>1. Pending(u, k)' = 0 /\ counter'[k] = 0 /\ pass'[u].pc # "reset"
        BY <1>1, <1>5 DEF Pending
      <3>2. Seen(u, k)' = Recorded(k)'
        BY <1>3, <3>1 DEF Seen
      <3> QED  BY <1>3, <3>1, <3>2 DEF Balance
    <2> QED  BY <2>1, <2>2 DEF ThreadInv
  <1> QED  BY <1>5, <1>6, <1>7 DEF Core, Alone, Working

LEMMA InitCore == Init => Core
  <1> SUFFICES ASSUME Init PROVE Core
    OBVIOUS
  <1>1. /\ rows = [k \in 1..known |->
                     <<[day |-> 0, credit |-> Initial, used |-> 0, free |-> 0]>>]
        /\ counter = [k \in Keys |-> 0] /\ shaped = <<>> /\ today = 1
        /\ pass = [t \in Threads |-> IF t = 1 THEN Asleep ELSE Off]
        /\ sent = [k \in Keys |-> 0] /\ leaky = {} /\ known \in Nat
    BY AccountingAssumption DEF Init
  <1>2. PICK r : r = [day |-> 0, credit |-> Initial, used |-> 0, free |-> 0]
    OBVIOUS
  <1>3. r \in Row /\ Traffics(r) = 0 /\ r.day = 0
    BY <1>2, Bounds DEF Row, Traffics
  <1>4. PICK u : u = <<r>>
    OBVIOUS
  <1>5. Len(u) = 1 /\ u[1] = r /\ Total(u) = 0 /\ \A k \in 1..known : rows[k] = u
    BY <1>1, <1>2, <1>3, <1>4, TotalOfOne
  <1>6. DaysInv
    <2>1. Ordered(u)
      BY <1>1, <1>3, <1>5 DEF Ordered
    <2> QED  BY <1>5, <2>1 DEF DaysInv
  <1>7. ASSUME NEW k \in Keys PROVE Recorded(k) = 0 /\ sent[k] = 0
    <2>1. sent[k] = 0
      BY <1>1
    <2>2. CASE k \in 1..known
      BY <1>1, <1>5, <2>1, <2>2 DEF Recorded
    <2>3. CASE k > known
      BY <2>1, <2>3 DEF Recorded
    <2>4. k \in Nat \ {0}
      BY DEF Keys
    <2> QED  BY <1>1, <2>2, <2>3, <2>4
  <1>8. ASSUME NEW k \in Keys
        PROVE  /\ Recorded(k) \in Nat /\ sent[k] \in Nat
               /\ Recorded(k) <= sent[k] /\ Recorded(k) = sent[k]
    BY <1>7
  <1> QED  BY <1>1, <1>6, <1>8, FreshCore

-----------------------------------------------------------------------------

\* Passes that have overlapped stay on record.
LEMMA OverlapStays ==
    ASSUME Request \/ RequestStep \/ (\E k \in 1..known : Send(k)) \/ Midnight
           \/ UNCHANGED vars
    PROVE  overlapped' = overlapped
  <1>1. CASE Request
    BY <1>1 DEF Request, SetCredit, DisableAccounting, EnableAccounting, Register,
                Deregister, Activate, Deactivate, AddKey, Restart
  <1>2. CASE RequestStep
    BY <1>2 DEF RequestStep, SetUp, TearDown, EndDeactivate, historyVars
  <1>3. CASE (\E k \in 1..known : Send(k)) \/ Midnight \/ UNCHANGED vars
    BY <1>3 DEF Send, Midnight, vars, historyVars
  <1> QED  BY <1>1, <1>2, <1>3

LEMMA NextKeepsPassInv ==
    ASSUME TypeInv, TypeInv', PassInv, [Next]_vars
    PROVE  PassInv'
  <1>1. CASE \E t \in Threads : PassStep(t)
    BY <1>1, PassKeepsCore
  <1>2. CASE Request \/ RequestStep \/ (\E k \in 1..known : Send(k)) \/ Midnight
             \/ UNCHANGED vars
    <2>1. SUFFICES ASSUME Core PROVE Core'
      BY <1>2, OverlapStays DEF PassInv
    <2>2. CASE Request
      <3>1. CASE \E k \in 1..known : \E amount \in 1..TopUp : SetCredit(k, amount)
        BY <2>1, <3>1, CreditKeepsCore
      <3>2. CASE \E k \in 1..known :
                    \/ DisableAccounting(k) \/ EnableAccounting(k) \/ Register(k)
                    \/ Deregister(k) \/ Activate(k) \/ Deactivate(k)
        BY <2>1, <3>2, RequestKeepsCore
      <3>3. CASE AddKey \/ Restart
        BY <2>1, <3>3, AddKeyKeepsCore, RestartKeepsCore
      <3> QED  BY <2>2, <3>1, <3>2, <3>3 DEF Request
    <2>3. CASE \E k \in 1..known : Send(k)
      BY <2>1, <2>3, SendKeepsCore
    <2>4. CASE RequestStep \/ Midnight \/ UNCHANGED vars
      BY <2>1, <2>4, RequestKeepsCore
    <2> QED  BY <1>2, <2>2, <2>3, <2>4
  <1> QED  BY <1>1, <1>2 DEF Next

\* The inductive invariant of the accounting: what passes that do not overlap
\* keep.
LEMMA PassInvariant == Spec => []PassInv
  <1>1. Init => PassInv
    BY InitCore DEF PassInv
  <1>2. TypeInv /\ TypeInv' /\ PassInv /\ [Next]_vars => PassInv'
    BY NextKeepsPassInv
  <1> QED  BY <1>1, <1>2, TypeInvariant, PTL DEF Spec

\* As long as passes have not overlapped, a key has at most one row a day, in the
\* order of the days, although the table has no unique index
\* (update_interval_used_traffic).
THEOREM OneRow == Spec => []OneRowPerDay
  <1>1. PassInv => OneRowPerDay
    BY DEF PassInv, Core, CommonInv, DaysInv, Ordered, OneRowPerDay
  <1> QED  BY <1>1, PassInvariant, PTL

\* As long as passes have not overlapped, no key is twice on the list of shaped
\* keys, whatever requests and restarts come between the check and the append.
THEOREM OnceListed == Spec => []ListedOnce
  <1>1. PassInv => ListedOnce
    BY DEF PassInv, Core, CommonInv, ListedOnce
  <1> QED  BY <1>1, PassInvariant, PTL

\* As long as passes have not overlapped, no unit of traffic is charged twice, and
\* none is lost but in the ways that are named (query_active_boxes: the listing,
\* the reset of the counters, the turns of the keys).
THEOREM TrafficKept == Spec => []TrafficConserved
  <1>1. TypeInv /\ PassInv => TrafficConserved
    <2> SUFFICES ASSUME TypeInv, Core PROVE TrafficConserved
      BY DEF PassInv, TrafficConserved
    <2>1. PICK t \in Threads : Only(t)
      BY SomeThread DEF Core
    <2>2. \A k \in Keys : Balance(t, k)
      BY <2>1 DEF Core, ThreadInv
    <2>3. \A k \in Keys : \A u \in Threads \ {t} : Pending(u, k) = 0
      BY <2>1, PendingType DEF Only
    <2> QED  BY <2>2, <2>3 DEF Balance, TrafficConserved
  <1> QED  BY <1>1, TypeInvariant, PassInvariant, PTL
=============================================================================
