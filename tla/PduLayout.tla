----------------------------- MODULE PduLayout -----------------------------
(***************************************************************************)
(* The layout of a PDU as coordinator.py keeps it (PduInfo): a set of      *)
(* outlets, pairs of index and bank, and a set of metering rows, pairs of  *)
(* row and bank id; and which of its rows are metered by which sensors.    *)
(***************************************************************************)
EXTENDS Naturals, FiniteSets

\* load_rows is keyed by bank id: of two rows with one id the last stays.
LoadRows(w) == {r \in w : \A q \in w : q[2] = r[2] => q[1] <= r[1]}

\* A walk of a table reads one row of an index.
IsTable(pairs) == IsFiniteSet(pairs) /\ \A p, q \in pairs : p[1] = q[1] => p = q

\* What a setup makes of two walks: both are tables, there is metering, and a
\* bank has one row.
Sound(layout) ==
    /\ \A table \in {layout.outlets, layout.rows} : IsTable(table)
    /\ layout.rows # {} /\ LoadRows(layout.rows) = layout.rows

Banks(rows) == {r[2] : r \in rows}

\* total_bank_id: the device's own row, or the only one.
TotalBank(rows) ==
    IF 0 \in Banks(rows) THEN {0}
    ELSE IF Cardinality(Banks(rows)) = 1 THEN Banks(rows) ELSE {}

BankIds(rows) == Banks(rows) \ TotalBank(rows)

\* Per-bank sensors exist only on a PDU with more than one bank.
SensorBanks(rows) == IF Cardinality(BankIds(rows)) > 1 THEN BankIds(rows) ELSE {}
=============================================================================
