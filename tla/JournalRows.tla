---------------------------- MODULE JournalRows ----------------------------
(***************************************************************************)
(* What one SQL statement on the ledger engine's tables must satisfy       *)
(* (db/schema.sql:260-459): the CHECK constraints of                       *)
(* journal_entry_header and journal_entry_lines, and the row triggers that *)
(* freeze POSTED entries and compare header totals with line sums.         *)
(*                                                                         *)
(* The operators take the contents of the tables as arguments, so that     *)
(* JournalLedger (one statement at a time) and JournalTxn (concurrent      *)
(* transactions) apply the same rules to the data each of them sees.       *)
(*                                                                         *)
(* A table of headers is a function on JE (the je_id values), a table of   *)
(* lines a function on <<je_id, line_no>> (UNIQUE (je_id, line_no)).       *)
(* NoRow stands for "no such row"; Gone for a header that was deleted, as  *)
(* its uuid is never generated again.                                      *)
(***************************************************************************)
EXTENDS Integers, FiniteSets, Functions

CONSTANTS JE,          \* journal entry ids (je_id)
          LineNo,      \* line numbers
          HeaderRows,  \* the header rows statements supply
          LineRows,    \* the line rows statements supply
          NULL,        \* SQL NULL
          NoRow,       \* no row under this key
          Gone         \* a header row that was deleted

Money == Int \cup {NULL}
LineKey == JE \X LineNo

ASSUME NullAssumption == NULL \notin Int

HeaderRow == [debit : Money, credit : Money, status : STRING]
LineRow == [debit : Money, credit : Money, active : BOOLEAN]
Amounts == [debit : Money, credit : Money]

ASSUME RowsAssumption == HeaderRows \subseteq HeaderRow /\ LineRows \subseteq LineRow

ASSUME MarkerAssumption ==
    /\ NoRow \notin HeaderRows \cup LineRows \cup Amounts
    /\ Gone \notin HeaderRows \cup LineRows
    /\ NoRow # Gone

Known(x) == x # NULL

(***************************************************************************)
(* A CHECK constraint rejects a row only when its expression is FALSE; an  *)
(* unknown (NULL) result is accepted.  The expressions below are built     *)
(* from AND and OR only, so it is enough to let each comparison with NULL  *)
(* pass.                                                                   *)
(***************************************************************************)
May(x, ok(_)) == Known(x) => ok(x)
Zero(x) == x = 0
Positive(x) == x > 0

\* Mutant of HeaderCheck: without chk_journal_totals_balance.
HeaderCheckUnbalanced(r) == May(r.debit, Positive) /\ May(r.credit, Positive)

\* The four chk_journal_* constraints of a header row.
HeaderCheck(r) ==
    /\ Known(r.debit) /\ Known(r.credit) => r.debit = r.credit
    /\ May(r.debit, Positive)
    /\ May(r.credit, Positive)

\* The three chk_line_* constraints of a line row.
LineCheck(r) ==
    \/ May(r.debit, Positive) /\ May(r.credit, Zero)
    \/ May(r.debit, Zero) /\ May(r.credit, Positive)

HasHeader(h, j) == h[j] \notin {NoRow, Gone}
Posted(h, j) == HasHeader(h, j) /\ h[j].status = "POSTED"

LinesOf(l, j) == {k \in {j} \X LineNo : l[k] # NoRow}
ActiveLines(l, j) == {k \in LinesOf(l, j) : l[k].active}

\* COALESCE(SUM(...), 0) over the active lines: SUM skips NULLs.
Debit(r) == IF Known(r.debit) THEN r.debit ELSE 0
Credit(r) == IF Known(r.credit) THEN r.credit ELSE 0
SumDebit(l, j) == SumFunction([k \in ActiveLines(l, j) |-> Debit(l[k])])
SumCredit(l, j) == SumFunction([k \in ActiveLines(l, j) |-> Credit(l[k])])

\* The comparison both validation triggers make; it is skipped unless both
\* totals are set.
BothTotals(r) == Known(r.debit) /\ Known(r.credit)
TotalsAgree(r, l, j) ==
    BothTotals(r) => r.debit = SumDebit(l, j) /\ r.credit = SumCredit(l, j)

\* Mutant of LinesOpen: the trigger is not there.
LinesAlwaysOpen(h, j) == TRUE

\* trg_prevent_je_lines_modification_after_posted, for entry j.
LinesOpen(h, j) == ~Posted(h, j)

\* Mutant of LinesValid: only the debit column is compared.
DebitsValid(h, l, j) ==
    HasHeader(h, j) /\ BothTotals(h[j]) => h[j].debit = SumDebit(l, j)

\* trg_validate_journal_lines_totals, for entry j once the lines are l.
LinesValid(h, l, j) == HasHeader(h, j) => TotalsAgree(h[j], l, j)

\* A batch of new lines for entry j: a function from line numbers to rows.
WithLines(l, j, batch) ==
    [k \in LineKey |->
        IF k[1] = j /\ k[2] \in DOMAIN batch THEN batch[k[2]] ELSE l[k]]

\* INSERT INTO journal_entry_lines: the status trigger, the CHECKs and the
\* UNIQUE key for every row, the foreign key, and the totals once all rows
\* are in (AFTER ROW triggers fire at the end of the statement).
InsertAllowed(h, l, j, batch) ==
    /\ HasHeader(h, j)
    /\ LinesOpen(h, j)
    /\ \A n \in DOMAIN batch : LineCheck(batch[n]) /\ l[<<j, n>>] = NoRow
    /\ LinesValid(h, WithLines(l, j, batch), j)

\* UPDATE of the line at key k, leaving its je_id and line_no alone.
UpdateAllowed(h, l, k, r) ==
    /\ l[k] # NoRow
    /\ LinesOpen(h, k[1])
    /\ LineCheck(r)
    /\ LinesValid(h, [l EXCEPT ![k] = r], k[1])

\* UPDATE that gives the line at key k the key m of another entry.  Both
\* triggers look at COALESCE(NEW.je_id, OLD.je_id): the entry it goes to.
Moved(l, k, m) == [l EXCEPT ![k] = NoRow, ![m] = l[k]]
MoveAllowed(h, l, k, m) ==
    /\ l[k] # NoRow /\ l[m] = NoRow
    /\ k[1] # m[1]
    /\ HasHeader(h, m[1])
    /\ LinesOpen(h, m[1])
    /\ LinesValid(h, Moved(l, k, m), m[1])

\* DELETE of the line at key k.
DeleteAllowed(h, l, k) ==
    /\ l[k] # NoRow
    /\ LinesOpen(h, k[1])
    /\ LinesValid(h, [l EXCEPT ![k] = NoRow], k[1])

\* Mutant of AmendAllowed: the old row's status is not looked at.
AmendAllowedPosted(h, l, j, r) ==
    HasHeader(h, j) /\ TotalsAgree(r, l, j) /\ HeaderCheck(r)

\* UPDATE of header j: trg_prevent_je_modification_after_posted looks at the
\* old row, trg_validate_journal_header_totals at the new one.
AmendAllowed(h, l, j, r) ==
    /\ HasHeader(h, j)
    /\ ~Posted(h, j)
    /\ TotalsAgree(r, l, j)
    /\ HeaderCheck(r)

\* Mutant of WithoutEntry: no cascade.
WithoutCascade(l, j) == l

\* ON DELETE CASCADE.  The header is gone when the triggers of its lines
\* look it up, so none of them objects.
WithoutEntry(l, j) ==
    [k \in LineKey |-> IF k[1] = j THEN NoRow ELSE l[k]]

\* A batch of general ledger rows, each under the line (je_line_id) it copies.
Posting == [je : JE, status : STRING, rows : [LineKey -> Amounts \cup {NoRow}]]
RowsOf(p) == {k \in LineKey : p.rows[k] # NoRow}

\* Mutant of PostingOf: two columns of the SELECT swapped.
PostingSwapped(h, l, j) == [je |-> h[j].status, status |-> j,
                            rows |-> [k \in LineKey |-> NoRow]]

\* The rows PostJournalToGL copies: every line of the entry, active or not.
PostingOf(h, l, j) ==
    [je |-> j,
     status |-> h[j].status,
     rows |-> [k \in LineKey |->
                IF k \in LinesOf(l, j) THEN [debit |-> l[k].debit, credit |-> l[k].credit]
                ELSE NoRow]]
=============================================================================
