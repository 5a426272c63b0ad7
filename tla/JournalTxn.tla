----------------------------- MODULE JournalTxn ----------------------------
(***************************************************************************)
(* The ledger engine under concurrent transactions at PostgreSQL's default *)
(* isolation level, READ COMMITTED, which the pools of internal/db/pool.go *)
(* leave in place.                                                         *)
(*                                                                         *)
(* Each transaction keeps its uncommitted writes to itself.  A statement,  *)
(* and every SELECT its triggers make, sees the rows committed by then     *)
(* with the transaction's own writes on top.  Row locks last until the     *)
(* transaction ends:                                                       *)
(*   - a written row is locked against other writers (a deleted header     *)
(*     also against key-share locks);                                      *)
(*   - the foreign key of an inserted or moved line takes a KEY SHARE lock *)
(*     on the header, which an UPDATE of the header does not conflict with *)
(*     and a DELETE does.                                                  *)
(* A statement that must wait for a lock is simply not enabled yet; a      *)
(* failed statement and a detected deadlock are both Rollback.             *)
(***************************************************************************)
EXTENDS JournalRows, Sequences

CONSTANTS Tx,           \* the transactions (one per client connection)
          Same,         \* in a write set: this row is not written
          MaxPostings   \* bound on committed and pending postings

ASSUME SameAssumption == Same \notin HeaderRows \cup LineRows \cup {NoRow, Gone}
ASSUME PostingsAssumption == MaxPostings \in Nat

VARIABLES header, line, gl,   \* the committed tables
          wHeader,            \* Tx -> headers it has written
          wLine,              \* Tx -> lines it has written
          wGL,                \* Tx -> postings it has inserted
          share               \* Tx -> headers it holds KEY SHARE locks on

committed == <<header, line, gl>>
vars == <<header, line, gl, wHeader, wLine, wGL, share>>

TypeOK ==
    /\ header \in [JE -> HeaderRows \cup {NoRow, Gone}]
    /\ line \in [LineKey -> LineRows \cup {NoRow}]
    /\ gl \in Seq(Posting)
    /\ wHeader \in [Tx -> [JE -> HeaderRows \cup {Same, Gone}]]
    /\ wLine \in [Tx -> [LineKey -> LineRows \cup {Same, NoRow}]]
    /\ wGL \in [Tx -> Seq(Posting)]
    /\ share \in [Tx -> SUBSET JE]

Init ==
    /\ header = [j \in JE |-> NoRow]
    /\ line = [k \in LineKey |-> NoRow]
    /\ gl = << >>
    /\ wHeader = [t \in Tx |-> [j \in JE |-> Same]]
    /\ wLine = [t \in Tx |-> [k \in LineKey |-> Same]]
    /\ wGL = [t \in Tx |-> << >>]
    /\ share = [t \in Tx |-> {}]

-----------------------------------------------------------------------------
(* Visibility and locks.                                                   *)

SeenHeader(t) ==
    [j \in JE |-> IF wHeader[t][j] = Same THEN header[j] ELSE wHeader[t][j]]
SeenLine(t) ==
    [k \in LineKey |-> IF wLine[t][k] = Same THEN line[k] ELSE wLine[t][k]]

Others(t) == Tx \ {t}
\* Mutants: a lock that is not taken.
NoLock(t, j) == TRUE
HeaderFree(t, j) == \A u \in Others(t) : wHeader[u][j] = Same
KeyShareFree(t, j) == \A u \in Others(t) : wHeader[u][j] # Gone
LineFree(t, k) == \A u \in Others(t) : wLine[u][k] = Same
NoShare(t, j) == \A u \in Others(t) : j \notin share[u]

-----------------------------------------------------------------------------
(* Statements of a transaction.                                            *)

\* A fresh uuid: no other transaction is creating the same entry.
CreateJournalEntry(t, j, r) ==
    /\ SeenHeader(t)[j] = NoRow
    /\ HeaderFree(t, j)
    /\ HeaderCheck(r)
    /\ wHeader' = [wHeader EXCEPT ![t][j] = r]
    /\ UNCHANGED <<committed, wLine, wGL, share>>

CreateJournalLine(t, j, n, r) ==
    LET batch == [m \in {n} |-> r] IN
    /\ r.active
    /\ LineFree(t, <<j, n>>)
    /\ KeyShareFree(t, j)
    /\ InsertAllowed(SeenHeader(t), SeenLine(t), j, batch)
    /\ wLine' = [wLine EXCEPT ![t][<<j, n>>] = r]
    /\ share' = [share EXCEPT ![t] = @ \cup {j}]
    /\ UNCHANGED <<committed, wHeader, wGL>>

UpdateLine(t, k, r) ==
    /\ LineFree(t, k)
    /\ UpdateAllowed(SeenHeader(t), SeenLine(t), k, r)
    /\ wLine' = [wLine EXCEPT ![t][k] = r]
    /\ UNCHANGED <<committed, wHeader, wGL, share>>

MoveLine(t, k, m) ==
    /\ LineFree(t, k) /\ LineFree(t, m)
    /\ KeyShareFree(t, m[1])
    /\ MoveAllowed(SeenHeader(t), SeenLine(t), k, m)
    /\ wLine' = [wLine EXCEPT ![t][k] = NoRow, ![t][m] = SeenLine(t)[k]]
    /\ share' = [share EXCEPT ![t] = @ \cup {m[1]}]
    /\ UNCHANGED <<committed, wHeader, wGL>>

DeleteLine(t, k) ==
    /\ LineFree(t, k)
    /\ DeleteAllowed(SeenHeader(t), SeenLine(t), k)
    /\ wLine' = [wLine EXCEPT ![t][k] = NoRow]
    /\ UNCHANGED <<committed, wHeader, wGL, share>>

UpdateHeader(t, j, r) ==
    /\ HeaderFree(t, j)
    /\ AmendAllowed(SeenHeader(t), SeenLine(t), j, r)
    /\ wHeader' = [wHeader EXCEPT ![t][j] = r]
    /\ UNCHANGED <<committed, wLine, wGL, share>>

\* The cascade deletes the lines it sees and must wait for every other
\* transaction that has one of them locked.
DeleteHeader(t, j) ==
    /\ HasHeader(SeenHeader(t), j)
    /\ HeaderFree(t, j) /\ NoShare(t, j)
    /\ \A k \in LinesOf(SeenLine(t), j) : LineFree(t, k)
    /\ wHeader' = [wHeader EXCEPT ![t][j] = Gone]
    /\ wLine' = [wLine EXCEPT ![t] =
                    [k \in LineKey |->
                        IF k \in LinesOf(SeenLine(t), j) THEN NoRow ELSE @[k]]]
    /\ UNCHANGED <<committed, wGL, share>>

\* Mutant of PostJournalToGL: run on a connection of its own, its rows
\* outlive the transaction that wrote the entry.
PostOutside(t, j) ==
    /\ HasHeader(SeenHeader(t), j)
    /\ LinesOf(SeenLine(t), j) # {}
    /\ Len(gl) < MaxPostings
    /\ gl' = Append(gl, PostingOf(SeenHeader(t), SeenLine(t), j))
    /\ UNCHANGED <<header, line, wHeader, wLine, wGL, share>>

PostJournalToGL(t, j) ==
    /\ HasHeader(SeenHeader(t), j)
    /\ LinesOf(SeenLine(t), j) # {}
    /\ Len(gl) + Len(wGL[t]) < MaxPostings
    /\ wGL' = [wGL EXCEPT
                   ![t] = Append(@, PostingOf(SeenHeader(t), SeenLine(t), j))]
    /\ UNCHANGED <<committed, wHeader, wLine, share>>

-----------------------------------------------------------------------------
(* The end of a transaction.                                               *)

Forget(t) ==
    /\ wHeader' = [wHeader EXCEPT ![t] = [j \in JE |-> Same]]
    /\ wLine' = [wLine EXCEPT ![t] = [k \in LineKey |-> Same]]
    /\ wGL' = [wGL EXCEPT ![t] = << >>]
    /\ share' = [share EXCEPT ![t] = {}]

Commit(t) ==
    /\ header' = SeenHeader(t)
    /\ line' = SeenLine(t)
    /\ gl' = gl \o wGL[t]
    /\ Forget(t)

Rollback(t) ==
    /\ Forget(t)
    /\ UNCHANGED committed

Statement(t) ==
    \/ \E j \in JE :
        \/ \E r \in HeaderRows : CreateJournalEntry(t, j, r) \/ UpdateHeader(t, j, r)
        \/ \E n \in LineNo, r \in LineRows : CreateJournalLine(t, j, n, r)
        \/ DeleteHeader(t, j)
        \/ PostJournalToGL(t, j)
    \/ \E k \in LineKey :
        \/ \E r \in LineRows : UpdateLine(t, k, r)
        \/ \E m \in LineKey : MoveLine(t, k, m)
        \/ DeleteLine(t, k)

Next == \E t \in Tx : Statement(t) \/ Commit(t) \/ Rollback(t)

Spec == Init /\ [][Next]_vars

-----------------------------------------------------------------------------
(* Properties of the committed tables.                                     *)

\* The foreign key with its cascade survives concurrency: however inserts,
\* updates, moves and deletions of lines interleave with the deletion of the
\* header in another transaction, no committed line is without its header.
LinesHaveHeader ==
    \A k \in LineKey : line[k] # NoRow => HasHeader(header, k[1])

\* A posting reaches general_ledger no earlier than the entry it copies:
\* postings of an entry that was rolled back do not survive.
GLKnowsEntry == \A i \in 1..Len(gl) : header[gl[i].je] # NoRow

\* What trg_validate_journal_header_totals and
\* trg_validate_journal_lines_totals are there for (schema.sql:375 and 413):
\* the totals of an entry with lines are the sums of its active lines.
TotalsMatchLines ==
    \A j \in JE :
        HasHeader(header, j) /\ LinesOf(line, j) # {}
            => TotalsAgree(header[j], line, j)

\* Each commit carries every header forward: the freeze of POSTED headers
\* holds although statements run on a mixture of committed and own rows.
Lifecycle == INSTANCE EntryLifecycle WITH entry <- header
HeaderLifecycle == Lifecycle!Spec
=============================================================================
