---------------------------- MODULE DailyCredit ----------------------------
(***************************************************************************)
(* The volume a key starts a day with: what the accounting pass writes as  *)
(* credit into the key's first traffic row of the day.  A row is a record  *)
(*   day     the date                                                      *)
(*   credit  the volume of the day                                         *)
(*   used    ingress + egress: what is counted against the credit          *)
(*   free    traffic counted in the other columns (shaped, unlimited range)*)
(* and a key's rows are a sequence in the order of their ids.  Volumes are *)
(* whole units.                                                            *)
(***************************************************************************)
EXTENDS Integers, Sequences

CONSTANTS Initial,   \* INITIAL_VOLUME
          TopUp,     \* DAILY_TOPUP_VOLUME
          MaxSaved   \* MAX_SAVED_VOLUME

ASSUME VolumeAssumption ==
    /\ Initial \in Nat \ {0} /\ TopUp \in Nat \ {0} /\ MaxSaved \in Nat \ {0}

\* Bug: a row on which nothing was used is taken for none.
SpentRowsOf(rs, day) == {i \in 1..Len(rs) : rs[i].day = day /\ rs[i].used > 0}

\* The rows of a day, as indices.
RowsOf(rs, day) == {i \in 1..Len(rs) : rs[i].day = day}

HasRow(rs, day) == RowsOf(rs, day) # {}

\* query.first(): the row with the smallest id.
FirstRow(rs, day) == CHOOSE i \in RowsOf(rs, day) :
                        \A j \in RowsOf(rs, day) : i <= j

AtMost(v, max) == IF v > max THEN max ELSE v

\* How many days the pass looks back for a row: MAX_SAVED_VOLUME /
\* DAILY_TOPUP_VOLUME, rounded down.
Window == MaxSaved \div TopUp

Recent(rs, day) == {d \in (day - Window)..day : HasRow(rs, d)}

\* The newest row within the window counts with its credit, whatever of it was
\* used; the key's own volumes are not asked.
LookBack(rs, day) ==
    IF Recent(rs, day) = {} THEN 0
    ELSE LET d == CHOOSE d \in Recent(rs, day) :
                     \A e \in Recent(rs, day) : e <= d
         IN  rs[FirstRow(rs, d)].credit + TopUp

\* What is left of yesterday's volume, and one daily volume.
CarryOver(row, topup, max) ==
    IF row.credit <= 0 THEN topup
    ELSE AtMost(row.credit - row.used + topup, max)

NewCredit(rs, day, topup, max) ==
    CASE HasRow(rs, day - 1) ->
            CarryOver(rs[FirstRow(rs, day - 1)], topup, max)
      [] ~HasRow(rs, day - 1) /\ rs = <<>> -> Initial
      [] OTHER -> LookBack(rs, day)
=============================================================================
