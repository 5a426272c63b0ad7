---------------------------- MODULE MCJournalTxn ---------------------------
(***************************************************************************)
(* Inputs for model-checking JournalTxn: an entry without totals, one with *)
(* totals and one POSTED; a debit line and a credit line.                  *)
(***************************************************************************)
EXTENDS JournalTxn, TLC

HRow(d, c, s) == [debit |-> d, credit |-> c, status |-> s]
LRow(d, c, a) == [debit |-> d, credit |-> c, active |-> a]

OpenRow == HRow(NULL, NULL, "CREATED")
MCHeaders == {OpenRow, HRow(1, 1, "CREATED"), HRow(1, 1, "POSTED")}
MCLines == {LRow(1, 0, TRUE), LRow(0, 1, TRUE)}

\* For runs with two entries: the header's totals play no part.
PlainHeaders == {OpenRow, HRow(NULL, NULL, "POSTED")}
PlainLines == {LRow(1, 0, TRUE)}

TxSymmetry == Permutations(Tx)
TxLineSymmetry == Permutations(Tx) \cup Permutations(LineNo)
TxEntrySymmetry == Permutations(Tx) \cup Permutations(JE)
=============================================================================
