--------------------------- MODULE JournalLedger ---------------------------
(***************************************************************************)
(* The ledger engine of db/schema.sql:260-495 when each SQL statement is a *)
(* transaction of its own and statements run one after another.            *)
(*                                                                         *)
(* The statements are the three queries of db/queries/finance.sql          *)
(* (CreateJournalEntry, CreateJournalLine, PostJournalToGL) and the        *)
(* INSERT, UPDATE and DELETE statements the tables' triggers are written   *)
(* for.  A statement that a constraint or a trigger rejects changes        *)
(* nothing, so only accepted statements are steps.                         *)
(***************************************************************************)
EXTENDS JournalRows, Sequences

CONSTANT MaxPostings    \* bound on the postings of a behaviour

ASSUME PostingsAssumption == MaxPostings \in Nat

VARIABLES header,   \* journal_entry_header: je_id -> row
          line,     \* journal_entry_lines: <<je_id, line_no>> -> row
          gl        \* general_ledger: the batches PostJournalToGL inserted

vars == <<header, line, gl>>

TypeOK ==
    /\ header \in [JE -> HeaderRows \cup {NoRow, Gone}]
    /\ line \in [LineKey -> LineRows \cup {NoRow}]
    /\ gl \in Seq(Posting)

Init ==
    /\ header = [j \in JE |-> NoRow]
    /\ line = [k \in LineKey |-> NoRow]
    /\ gl = << >>

-----------------------------------------------------------------------------
(* The queries of db/queries/finance.sql.                                  *)

\* The caller chooses the totals and the status; no trigger looks at an
\* INSERT of a header.
CreateJournalEntry(j, r) ==
    /\ header[j] = NoRow
    /\ HeaderCheck(r)
    /\ header' = [header EXCEPT ![j] = r]
    /\ UNCHANGED <<line, gl>>

InsertLines(j, batch) ==
    /\ InsertAllowed(header, line, j, batch)
    /\ line' = WithLines(line, j, batch)
    /\ UNCHANGED <<header, gl>>

\* One row per statement; is_active takes its default, true.
CreateJournalLine(j, n, r) ==
    /\ r.active
    /\ InsertLines(j, [m \in {n} |-> r])

\* Neither the status of the entry nor earlier postings are looked at, and
\* the header is not updated.
PostJournalToGL(j) ==
    /\ HasHeader(header, j)
    /\ LinesOf(line, j) # {}
    /\ Len(gl) < MaxPostings
    /\ gl' = Append(gl, PostingOf(header, line, j))
    /\ UNCHANGED <<header, line>>

-----------------------------------------------------------------------------
(* The other statements on the two journal tables.                         *)

\* One INSERT with several rows.
InsertManyLines(j, S) ==
    /\ Cardinality(S) > 1
    /\ \E batch \in [S -> LineRows] : InsertLines(j, batch)

UpdateLine(k, r) ==
    /\ UpdateAllowed(header, line, k, r)
    /\ line' = [line EXCEPT ![k] = r]
    /\ UNCHANGED <<header, gl>>

MoveLine(k, m) ==
    /\ MoveAllowed(header, line, k, m)
    /\ line' = Moved(line, k, m)
    /\ UNCHANGED <<header, gl>>

DeleteLine(k) ==
    /\ DeleteAllowed(header, line, k)
    /\ line' = [line EXCEPT ![k] = NoRow]
    /\ UNCHANGED <<header, gl>>

UpdateHeader(j, r) ==
    /\ AmendAllowed(header, line, j, r)
    /\ header' = [header EXCEPT ![j] = r]
    /\ UNCHANGED <<line, gl>>

\* general_ledger has no foreign key: postings outlive the entry.
DeleteHeader(j) ==
    /\ HasHeader(header, j)
    /\ header' = [header EXCEPT ![j] = Gone]
    /\ line' = WithoutEntry(line, j)
    /\ UNCHANGED gl

-----------------------------------------------------------------------------
Queries ==
    \E j \in JE :
        \/ \E r \in HeaderRows : CreateJournalEntry(j, r)
        \/ \E n \in LineNo, r \in LineRows : CreateJournalLine(j, n, r)
        \/ PostJournalToGL(j)

Maintenance ==
    \/ \E j \in JE :
        \/ \E S \in SUBSET LineNo : InsertManyLines(j, S)
        \/ \E r \in HeaderRows : UpdateHeader(j, r)
        \/ DeleteHeader(j)
    \/ \E k \in LineKey :
        \/ \E r \in LineRows : UpdateLine(k, r)
        \/ DeleteLine(k)

Moves == \E k, m \in LineKey : MoveLine(k, m)

\* Every statement that leaves the je_id of a line alone.
InPlace == Queries \/ Maintenance

Next == InPlace \/ Moves

SpecInPlace == Init /\ [][InPlace]_vars
Spec == Init /\ [][Next]_vars

-----------------------------------------------------------------------------
(* Properties.                                                             *)

\* journal_entry_lines.je_id REFERENCES journal_entry_header: no statement,
\* the cascade of a header's deletion included, leaves a line without its
\* header.
LinesHaveHeader ==
    \A k \in LineKey : line[k] # NoRow => HasHeader(header, k[1])

\* An entry that has lines and both totals has totals equal to the sums of
\* its active lines, whatever the order in which lines and totals came.  The
\* header trigger runs only on UPDATE and the line trigger only on lines, so
\* this rests on both and on the fact that an entry created with totals has
\* no lines yet.
TotalsMatchLines ==
    \A j \in JE :
        HasHeader(header, j) /\ LinesOf(line, j) # {}
            => TotalsAgree(header[j], line, j)

\* While the header of an entry is POSTED, neither the header nor its lines
\* change until the entry is deleted as a whole (schema.sql:336 and 353).
FrozenStep ==
    \A j \in JE :
        Posted(header, j) =>
            \/ header'[j] = Gone /\ LinesOf(line', j) = {}
            \/ /\ header'[j] = header[j]
               /\ \A n \in LineNo : line'[<<j, n>>] = line[<<j, n>>]
PostedFrozen == [][FrozenStep]_vars

\* What lands in general_ledger for an entry with both totals and without
\* deactivated lines is balanced: the debits posted are the credits posted.
PostingBalanced ==
    [][gl' # gl =>
        LET p == gl'[Len(gl')] IN
        /\ BothTotals(header[p.je])
        /\ ActiveLines(line, p.je) = LinesOf(line, p.je)
        => SumFunction([k \in RowsOf(p) |-> Debit(p.rows[k])])
            = SumFunction([k \in RowsOf(p) |-> Credit(p.rows[k])])]_vars

\* Even when lines are moved between entries, a POSTED entry gains no line
\* and none of its lines is rewritten: they can only leave.
OnlyLeaveStep ==
    \A j \in JE, n \in LineNo :
        Posted(header, j) => line'[<<j, n>>] \in {line[<<j, n>>], NoRow}
PostedLinesOnlyLeave == [][OnlyLeaveStep]_vars

-----------------------------------------------------------------------------
(* The ledger implements the life of its headers, entry by entry.          *)
Lifecycle == INSTANCE EntryLifecycle WITH entry <- header
HeaderLifecycle == Lifecycle!Spec
=============================================================================
