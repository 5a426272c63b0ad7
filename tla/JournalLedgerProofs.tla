------------------------ MODULE JournalLedgerProofs ------------------------
(***************************************************************************)
(* Proofs about JournalLedger, for any sets of entries, line numbers and   *)
(* rows.                                                                   *)
(***************************************************************************)
EXTENDS JournalLedger, TLAPS

-----------------------------------------------------------------------------
(* Lemmas about the operators of JournalRows.                              *)

\* Inserting a batch writes the batch's lines of one entry and nothing else.
LEMMA WithLinesEffect ==
    ASSUME NEW l \in [LineKey -> LineRows \cup {NoRow}], NEW j \in JE,
           NEW S \in SUBSET LineNo, NEW batch \in [S -> LineRows]
    PROVE  /\ WithLines(l, j, batch) \in [LineKey -> LineRows \cup {NoRow}]
           /\ \A k \in LineKey : k[1] # j => WithLines(l, j, batch)[k] = l[k]
<1>1. \A k \in LineKey : k[2] \in S => batch[k[2]] \in LineRows
  OBVIOUS
<1> QED BY <1>1 DEF WithLines

\* The cascade empties one entry and leaves the others alone.
LEMMA WithoutEntryEffect ==
    ASSUME NEW l \in [LineKey -> LineRows \cup {NoRow}], NEW j \in JE
    PROVE  /\ WithoutEntry(l, j) \in [LineKey -> LineRows \cup {NoRow}]
           /\ \A k \in LineKey : WithoutEntry(l, j)[k] =
                                    IF k[1] = j THEN NoRow ELSE l[k]
BY DEF WithoutEntry

\* A posting has the type of a posting.
LEMMA PostingType ==
    ASSUME NEW h \in [JE -> HeaderRows \cup {NoRow, Gone}],
           NEW l \in [LineKey -> LineRows \cup {NoRow}],
           NEW j \in JE, HasHeader(h, j)
    PROVE  PostingOf(h, l, j) \in Posting
<1>1. h[j] \in HeaderRows
  BY DEF HasHeader
<1>2. h[j].status \in STRING
  BY <1>1, RowsAssumption DEF HeaderRow
<1>3. \A k \in LinesOf(l, j) : /\ k \in LineKey
                               /\ l[k].debit \in Money
                               /\ l[k].credit \in Money
  <2> SUFFICES ASSUME NEW k \in LinesOf(l, j)
               PROVE  k \in LineKey /\ l[k].debit \in Money /\ l[k].credit \in Money
    OBVIOUS
  <2>1. k \in LineKey /\ l[k] # NoRow
    BY DEF LinesOf, LineKey
  <2>2. l[k] \in LineRows
    BY <2>1
  <2> QED BY <2>1, <2>2, RowsAssumption DEF LineRow
<1> QED BY <1>2, <1>3 DEF PostingOf, Posting, Amounts

-----------------------------------------------------------------------------
(* Type correctness.                                                       *)

\* Every statement keeps the three tables well-typed.
THEOREM TypeCorrect == Spec => []TypeOK
<1>1. Init => TypeOK
  BY DEF Init, TypeOK
<1>2. TypeOK /\ [Next]_vars => TypeOK'
  <2> SUFFICES ASSUME TypeOK, [Next]_vars PROVE TypeOK'
    OBVIOUS
  <2> USE DEF TypeOK
  <2>1. ASSUME NEW j \in JE, NEW r \in HeaderRows, CreateJournalEntry(j, r)
        PROVE TypeOK'
    BY <2>1 DEF CreateJournalEntry
  <2>2. ASSUME NEW j \in JE, NEW S \in SUBSET LineNo,
               NEW batch \in [S -> LineRows], InsertLines(j, batch)
        PROVE TypeOK'
    BY <2>2, WithLinesEffect DEF InsertLines
  <2>3. ASSUME NEW j \in JE, PostJournalToGL(j) PROVE TypeOK'
    BY <2>3, PostingType DEF PostJournalToGL
  <2>4. ASSUME NEW k \in LineKey, NEW r \in LineRows, UpdateLine(k, r)
        PROVE TypeOK'
    BY <2>4 DEF UpdateLine
  <2>5. ASSUME NEW k \in LineKey, NEW m \in LineKey, MoveLine(k, m)
        PROVE TypeOK'
    BY <2>5 DEF MoveLine, Moved
  <2>6. ASSUME NEW k \in LineKey, DeleteLine(k) PROVE TypeOK'
    BY <2>6 DEF DeleteLine
  <2>7. ASSUME NEW j \in JE, NEW r \in HeaderRows, UpdateHeader(j, r)
        PROVE TypeOK'
    BY <2>7 DEF UpdateHeader
  <2>8. ASSUME NEW j \in JE, DeleteHeader(j) PROVE TypeOK'
    BY <2>8, WithoutEntryEffect DEF DeleteHeader
  <2>9. ASSUME NEW j \in JE, NEW n \in LineNo, NEW r \in LineRows,
               CreateJournalLine(j, n, r)
        PROVE TypeOK'
    <3>1. [m \in {n} |-> r] \in [{n} -> LineRows] /\ {n} \in SUBSET LineNo
      OBVIOUS
    <3> QED BY <2>2, <2>9, <3>1 DEF CreateJournalLine
  <2>10. CASE UNCHANGED vars
    BY <2>10 DEF vars
  <2> QED
    BY <2>1, <2>2, <2>3, <2>4, <2>5, <2>6, <2>7, <2>8, <2>9, <2>10
    DEF Next, InPlace, Queries, Maintenance, Moves, InsertManyLines, LineKey
<1> QED BY <1>1, <1>2, PTL DEF Spec

-----------------------------------------------------------------------------
(* The foreign key and the totals.                                         *)

\* What an entry's lines are, and what they sum to, depends on the rows under
\* its own keys only.
LEMMA SumsAreLocal ==
    ASSUME NEW l, NEW m, NEW j,
           \A n \in LineNo : m[<<j, n>>] = l[<<j, n>>]
    PROVE  /\ LinesOf(m, j) = LinesOf(l, j)
           /\ \A r : TotalsAgree(r, m, j) <=> TotalsAgree(r, l, j)
<1>1. \A k \in {j} \X LineNo : m[k] = l[k]
  OBVIOUS
<1>2. LinesOf(m, j) = LinesOf(l, j)
  BY <1>1 DEF LinesOf
<1>3. \A k \in LinesOf(l, j) : m[k] = l[k]
  BY <1>1 DEF LinesOf
<1>4. /\ ActiveLines(m, j) = ActiveLines(l, j)
      /\ \A k \in ActiveLines(l, j) : m[k] = l[k]
  BY <1>2, <1>3 DEF ActiveLines
<1>5. SumDebit(m, j) = SumDebit(l, j)
  <2>1. [k \in ActiveLines(m, j) |-> Debit(m[k])]
            = [k \in ActiveLines(l, j) |-> Debit(l[k])]
    BY <1>4
  <2> QED BY <2>1 DEF SumDebit
<1>6. SumCredit(m, j) = SumCredit(l, j)
  <2>1. [k \in ActiveLines(m, j) |-> Credit(m[k])]
            = [k \in ActiveLines(l, j) |-> Credit(l[k])]
    BY <1>4
  <2> QED BY <2>1 DEF SumCredit
<1> QED BY <1>2, <1>5, <1>6 DEF TotalsAgree

\* A statement on the lines of entry j that the triggers let through keeps
\* both invariants, provided it leaves the lines of the others alone.
LEMMA LineStatement ==
    ASSUME TypeOK, LinesHaveHeader, TotalsMatchLines,
           NEW j \in JE, HasHeader(header, j), header' = header,
           \A k \in LineKey : k[1] # j => line'[k] = line[k],
           LinesValid(header, line', j)
    PROVE  LinesHaveHeader' /\ TotalsMatchLines'
<1>1. LinesHaveHeader'
  BY DEF LinesHaveHeader
<1>2. ASSUME NEW i \in JE, HasHeader(header', i), LinesOf(line', i) # {}
      PROVE  TotalsAgree(header'[i], line', i)
  <2>1. CASE i = j
    BY <1>2, <2>1 DEF LinesValid
  <2>2. CASE i # j
    <3>1. \A n \in LineNo : line'[<<i, n>>] = line[<<i, n>>]
      BY <2>2 DEF LineKey
    <3> QED BY <1>2, <3>1, SumsAreLocal DEF TotalsMatchLines
  <2> QED BY <2>1, <2>2
<1> QED BY <1>1, <1>2 DEF TotalsMatchLines

LedgerInv == TypeOK /\ LinesHaveHeader /\ TotalsMatchLines

\* No statement that leaves the je_id of lines alone breaks the invariant.
LEMMA LedgerInvStep == TypeOK' /\ LedgerInv /\ [InPlace]_vars => LedgerInv'
<1> SUFFICES ASSUME TypeOK', LedgerInv, [InPlace]_vars
             PROVE  LinesHaveHeader' /\ TotalsMatchLines'
  BY DEF LedgerInv
<1> USE DEF LedgerInv
<1>1. ASSUME NEW j \in JE, NEW r \in HeaderRows, CreateJournalEntry(j, r)
      PROVE  LinesHaveHeader' /\ TotalsMatchLines'
  <2>1. /\ header' \in [JE -> HeaderRows \cup {NoRow, Gone}] /\ line' = line
        /\ \A i \in JE : i # j => header'[i] = header[i]
        /\ ~HasHeader(header, j)
    BY <1>1 DEF CreateJournalEntry, TypeOK, HasHeader
  <2>2. LinesOf(line', j) = {}
    BY <2>1 DEF LinesOf, LinesHaveHeader, LineKey
  <2>3. LinesHaveHeader'
    BY <2>1 DEF LinesHaveHeader, HasHeader, LineKey
  <2>4. TotalsMatchLines'
    BY <2>1, <2>2 DEF TotalsMatchLines, HasHeader
  <2> QED BY <2>3, <2>4
<1>2. ASSUME NEW j \in JE, NEW S \in SUBSET LineNo,
             NEW batch \in [S -> LineRows], InsertLines(j, batch)
      PROVE  LinesHaveHeader' /\ TotalsMatchLines'
  <2>1. \A k \in LineKey : k[1] # j => line'[k] = line[k]
    BY <1>2, WithLinesEffect DEF InsertLines, TypeOK
  <2> QED BY <1>2, <2>1, LineStatement DEF InsertLines, InsertAllowed
<1>3. ASSUME NEW j \in JE, NEW n \in LineNo, NEW r \in LineRows,
             CreateJournalLine(j, n, r)
      PROVE  LinesHaveHeader' /\ TotalsMatchLines'
  <2>1. [m \in {n} |-> r] \in [{n} -> LineRows] /\ {n} \in SUBSET LineNo
    OBVIOUS
  <2> QED BY <1>2, <1>3, <2>1 DEF CreateJournalLine
<1>4. ASSUME NEW k \in LineKey, NEW r \in LineRows, UpdateLine(k, r)
      PROVE  LinesHaveHeader' /\ TotalsMatchLines'
  <2>1. k[1] \in JE /\ HasHeader(header, k[1])
    BY <1>4 DEF UpdateLine, UpdateAllowed, LinesHaveHeader, LineKey
  <2>2. \A m \in LineKey : m[1] # k[1] => line'[m] = line[m]
    BY <1>4 DEF UpdateLine, TypeOK
  <2> QED BY <1>4, <2>1, <2>2, LineStatement DEF UpdateLine, UpdateAllowed
<1>5. ASSUME NEW k \in LineKey, DeleteLine(k)
      PROVE  LinesHaveHeader' /\ TotalsMatchLines'
  <2>1. k[1] \in JE /\ HasHeader(header, k[1])
    BY <1>5 DEF DeleteLine, DeleteAllowed, LinesHaveHeader, LineKey
  <2>2. \A m \in LineKey : m[1] # k[1] => line'[m] = line[m]
    BY <1>5 DEF DeleteLine, TypeOK
  <2> QED BY <1>5, <2>1, <2>2, LineStatement DEF DeleteLine, DeleteAllowed
<1>6. ASSUME NEW j \in JE, NEW r \in HeaderRows, UpdateHeader(j, r)
      PROVE  LinesHaveHeader' /\ TotalsMatchLines'
  <2>1. /\ line' = line /\ TotalsAgree(r, line, j)
        /\ header'[j] = r /\ HasHeader(header', j)
        /\ \A i \in JE : i # j => header'[i] = header[i]
    BY <1>6, MarkerAssumption
    DEF UpdateHeader, AmendAllowed, TypeOK, HasHeader
  <2>2. LinesHaveHeader'
    BY <2>1 DEF LinesHaveHeader, HasHeader, LineKey
  <2>3. TotalsMatchLines'
    BY <2>1 DEF TotalsMatchLines, HasHeader
  <2> QED BY <2>2, <2>3
<1>7. ASSUME NEW j \in JE, DeleteHeader(j)
      PROVE  LinesHaveHeader' /\ TotalsMatchLines'
  <2>1. /\ header'[j] = Gone
        /\ \A i \in JE : i # j => header'[i] = header[i]
        /\ \A k \in LineKey : line'[k] = IF k[1] = j THEN NoRow ELSE line[k]
    BY <1>7, WithoutEntryEffect DEF DeleteHeader, TypeOK
  <2>2. LinesHaveHeader'
    BY <2>1 DEF LinesHaveHeader, HasHeader, LineKey
  <2>3. ASSUME NEW i \in JE, HasHeader(header', i), LinesOf(line', i) # {}
        PROVE  TotalsAgree(header'[i], line', i)
    <3>1. i # j
      BY <2>1, <2>3 DEF HasHeader
    <3>2. \A n \in LineNo : line'[<<i, n>>] = line[<<i, n>>]
      BY <2>1, <3>1 DEF LineKey
    <3> QED BY <2>1, <2>3, <3>1, <3>2, SumsAreLocal DEF TotalsMatchLines, HasHeader
  <2> QED BY <2>2, <2>3 DEF TotalsMatchLines
<1>8. ASSUME UNCHANGED <<header, line>>
      PROVE  LinesHaveHeader' /\ TotalsMatchLines'
  BY <1>8 DEF LinesHaveHeader, TotalsMatchLines, HasHeader
<1> QED
  BY <1>1, <1>2, <1>3, <1>4, <1>5, <1>6, <1>7, <1>8
  DEF InPlace, Queries, Maintenance, InsertManyLines, PostJournalToGL, vars, LineKey

\* Types of the restricted specification: its steps are steps of Spec.
THEOREM TypeCorrectInPlace == SpecInPlace => []TypeOK
<1>1. SpecInPlace => Spec
  <2>1. [InPlace]_vars => [Next]_vars
    BY DEF Next
  <2> QED BY <2>1, PTL DEF SpecInPlace, Spec
<1> QED BY <1>1, TypeCorrect, PTL

\* As long as no statement moves a line to another entry, totals and lines
\* of an entry that has both always agree.
THEOREM TotalsSound == SpecInPlace => []TotalsMatchLines
<1>1. Init /\ TypeOK => LedgerInv
  BY DEF Init, LedgerInv, LinesHaveHeader, TotalsMatchLines, HasHeader
<1>2. LedgerInv => TotalsMatchLines
  BY DEF LedgerInv
<1> QED BY <1>1, <1>2, TypeCorrectInPlace, LedgerInvStep, PTL DEF SpecInPlace

-----------------------------------------------------------------------------
(* What is posted.                                                         *)

\* Every header satisfies the CHECKs of its table.
HeadersChecked == \A j \in JE : HasHeader(header, j) => HeaderCheck(header[j])

LEMMA HeadersCheckedStep == TypeOK /\ HeadersChecked /\ [InPlace]_vars => HeadersChecked'
<1> SUFFICES ASSUME TypeOK, HeadersChecked, [InPlace]_vars,
                    NEW i \in JE, HasHeader(header', i)
             PROVE  HeaderCheck(header'[i])
  BY DEF HeadersChecked
<1>1. CASE header'[i] = header[i]
  BY <1>1 DEF HeadersChecked, HasHeader
<1>2. ASSUME NEW j \in JE, NEW r \in HeaderRows,
             CreateJournalEntry(j, r) \/ UpdateHeader(j, r)
      PROVE  HeaderCheck(header'[i])
  <2>1. HeaderCheck(r) /\ header' = [header EXCEPT ![j] = r]
    BY <1>2 DEF CreateJournalEntry, UpdateHeader, AmendAllowed
  <2>2. CASE i = j
    BY <2>1, <2>2 DEF TypeOK
  <2>3. CASE i # j
    BY <1>1, <2>1, <2>3 DEF TypeOK
  <2> QED BY <2>2, <2>3
<1>3. ASSUME NEW j \in JE, DeleteHeader(j) PROVE HeaderCheck(header'[i])
  <2>1. header' = [header EXCEPT ![j] = Gone]
    BY <1>3 DEF DeleteHeader
  <2>2. i # j
    BY <2>1 DEF HasHeader, TypeOK
  <2> QED BY <1>1, <2>1, <2>2 DEF TypeOK
<1> QED
  BY <1>1, <1>2, <1>3
  DEF InPlace, Queries, Maintenance, InsertManyLines, CreateJournalLine, InsertLines,
      PostJournalToGL, UpdateLine, DeleteLine, vars

\* Without moves, what an entry with both totals and no deactivated line puts
\* into general_ledger is balanced: its lines sum to its totals and a CHECK
\* keeps the totals equal.  Nothing is needed about what a sum is.
THEOREM PostingsBalance == SpecInPlace => PostingBalanced
<1> DEFINE Balanced(p) == SumFunction([k \in RowsOf(p) |-> Debit(p.rows[k])])
                            = SumFunction([k \in RowsOf(p) |-> Credit(p.rows[k])])
           PostsBalanced == gl' # gl =>
               LET p == gl'[Len(gl')] IN
               /\ BothTotals(header[p.je])
               /\ ActiveLines(line, p.je) = LinesOf(line, p.je)
               => Balanced(p)
<1>1. Init => HeadersChecked
  BY DEF Init, HeadersChecked, HasHeader
<1>2. LedgerInv /\ HeadersChecked /\ [InPlace]_vars => [PostsBalanced]_vars
  <2> SUFFICES ASSUME LedgerInv, HeadersChecked, InPlace, gl' # gl PROVE PostsBalanced
    BY DEF vars
  <2>1. PICK j \in JE : PostJournalToGL(j)
    BY DEF InPlace, Queries, Maintenance, InsertManyLines, CreateJournalLine, InsertLines,
           CreateJournalEntry, UpdateHeader, DeleteHeader, UpdateLine, DeleteLine
  <2> DEFINE p == PostingOf(header, line, j)
  <2>2. HasHeader(header, j) /\ LinesOf(line, j) # {} /\ gl' = Append(gl, p)
    BY <2>1 DEF PostJournalToGL
  <2>3. gl'[Len(gl')] = p
    BY <2>2 DEF LedgerInv, TypeOK
  <2>4. p.je = j
    BY DEF PostingOf
  <2> SUFFICES ASSUME BothTotals(header[j]), ActiveLines(line, j) = LinesOf(line, j)
               PROVE  Balanced(p)
    BY <2>3, <2>4
  <2>5. ASSUME NEW k \in LineKey
        PROVE  p.rows[k] = IF k \in LinesOf(line, j)
                           THEN [debit |-> line[k].debit, credit |-> line[k].credit]
                           ELSE NoRow
    BY DEF PostingOf
  <2>6. RowsOf(p) = ActiveLines(line, j)
    <3>1. LinesOf(line, j) \subseteq LineKey
      BY DEF LinesOf, LineKey
    <3>2. ASSUME NEW k \in LinesOf(line, j)
          PROVE  [debit |-> line[k].debit, credit |-> line[k].credit] \in Amounts
      <4>1. line[k] \in LineRows
        BY <3>1 DEF LinesOf, LedgerInv, TypeOK
      <4> QED BY <4>1, RowsAssumption DEF LineRow, Amounts
    <3> QED BY <2>5, <3>1, <3>2, MarkerAssumption DEF RowsOf
  <2>7. \A k \in ActiveLines(line, j) :
            Debit(p.rows[k]) = Debit(line[k]) /\ Credit(p.rows[k]) = Credit(line[k])
    <3> SUFFICES ASSUME NEW k \in ActiveLines(line, j)
                 PROVE  Debit(p.rows[k]) = Debit(line[k]) /\ Credit(p.rows[k]) = Credit(line[k])
      OBVIOUS
    <3>1. k \in LineKey /\ k \in LinesOf(line, j)
      BY DEF ActiveLines, LinesOf, LineKey
    <3> HIDE DEF p
    <3>2. p.rows[k] = [debit |-> line[k].debit, credit |-> line[k].credit]
      BY <2>5, <3>1
    <3> QED BY <3>2 DEF Debit, Credit
  <2> HIDE DEF p
  <2>8. SumFunction([k \in RowsOf(p) |-> Debit(p.rows[k])]) = SumDebit(line, j)
    <3>1. [k \in RowsOf(p) |-> Debit(p.rows[k])] = [k \in ActiveLines(line, j) |-> Debit(line[k])]
      BY <2>6, <2>7
    <3> QED BY <3>1 DEF SumDebit
  <2>9. SumFunction([k \in RowsOf(p) |-> Credit(p.rows[k])]) = SumCredit(line, j)
    <3>1. [k \in RowsOf(p) |-> Credit(p.rows[k])] = [k \in ActiveLines(line, j) |-> Credit(line[k])]
      BY <2>6, <2>7
    <3> QED BY <3>1 DEF SumCredit
  <2>10. header[j].debit = SumDebit(line, j) /\ header[j].credit = SumCredit(line, j)
    BY <2>2 DEF LedgerInv, TotalsMatchLines, TotalsAgree
  <2>11. header[j].debit = header[j].credit
    BY <2>2 DEF HeadersChecked, HeaderCheck, BothTotals
  <2> QED BY <2>8, <2>9, <2>10, <2>11
<1>3. SpecInPlace => []LedgerInv
  <2>1. Init /\ TypeOK => LedgerInv
    BY DEF Init, LedgerInv, LinesHaveHeader, TotalsMatchLines, HasHeader
  <2> QED BY <2>1, TypeCorrectInPlace, LedgerInvStep, PTL DEF SpecInPlace
<1>4. LedgerInv => TypeOK
  BY DEF LedgerInv
<1> QED
  BY <1>1, <1>2, <1>3, <1>4, HeadersCheckedStep, PTL DEF SpecInPlace, PostingBalanced

-----------------------------------------------------------------------------
(* What may never happen to a POSTED entry.                                *)

\* Without moves, a POSTED entry stays as it is until it is deleted whole.
THEOREM PostedStaysFrozen == SpecInPlace => PostedFrozen
<1>1. ASSUME TypeOK, InPlace PROVE FrozenStep
  <2> SUFFICES ASSUME NEW j \in JE, Posted(header, j)
               PROVE  \/ header'[j] = Gone /\ LinesOf(line', j) = {}
                      \/ /\ header'[j] = header[j]
                         /\ \A n \in LineNo : line'[<<j, n>>] = line[<<j, n>>]
    BY DEF FrozenStep
  <2>1. HasHeader(header, j)
    BY DEF Posted
  <2>2. ASSUME NEW i \in JE, NEW S \in SUBSET LineNo,
               NEW batch \in [S -> LineRows], InsertLines(i, batch)
        PROVE  /\ header' = header
               /\ \A n \in LineNo : line'[<<j, n>>] = line[<<j, n>>]
    <3>1. i # j
      BY <2>2 DEF InsertLines, InsertAllowed, LinesOpen
    <3>2. \A k \in LineKey : k[1] # i => line'[k] = line[k]
      BY <2>2, <1>1, WithLinesEffect DEF InsertLines, TypeOK
    <3> QED BY <2>2, <3>1, <3>2 DEF InsertLines, LineKey
  <2>3. ASSUME NEW i \in JE, NEW n \in LineNo, NEW r \in LineRows,
               CreateJournalLine(i, n, r)
        PROVE  /\ header' = header
               /\ \A m \in LineNo : line'[<<j, m>>] = line[<<j, m>>]
    <3>1. [m \in {n} |-> r] \in [{n} -> LineRows] /\ {n} \in SUBSET LineNo
      OBVIOUS
    <3> QED BY <2>2, <2>3, <3>1 DEF CreateJournalLine
  <2>4. ASSUME NEW k \in LineKey, NEW r \in LineRows, UpdateLine(k, r)
        PROVE  /\ header' = header
               /\ \A n \in LineNo : line'[<<j, n>>] = line[<<j, n>>]
    <3>1. k[1] # j
      BY <2>4 DEF UpdateLine, UpdateAllowed, LinesOpen
    <3> QED BY <1>1, <2>4, <3>1 DEF UpdateLine, TypeOK, LineKey
  <2>5. ASSUME NEW i \in JE, NEW r \in HeaderRows,
               CreateJournalEntry(i, r) \/ UpdateHeader(i, r)
        PROVE  header'[j] = header[j] /\ line' = line
    <3>1. i # j
      BY <2>1, <2>5
      DEF CreateJournalEntry, UpdateHeader, AmendAllowed, HasHeader
    <3> QED BY <1>1, <2>5, <3>1 DEF CreateJournalEntry, UpdateHeader, TypeOK
  <2>6. ASSUME NEW i \in JE, DeleteHeader(i)
        PROVE  \/ header'[j] = Gone /\ LinesOf(line', j) = {}
               \/ /\ header'[j] = header[j]
                  /\ \A n \in LineNo : line'[<<j, n>>] = line[<<j, n>>]
    <3>1. \A k \in LineKey : line'[k] = IF k[1] = i THEN NoRow ELSE line[k]
      BY <1>1, <2>6, WithoutEntryEffect DEF DeleteHeader, TypeOK
    <3>2. CASE i = j
      BY <1>1, <2>6, <3>1, <3>2 DEF DeleteHeader, TypeOK, LinesOf, LineKey
    <3>3. CASE i # j
      BY <1>1, <2>6, <3>1, <3>3 DEF DeleteHeader, TypeOK, LineKey
    <3> QED BY <3>2, <3>3
  <2>7. ASSUME NEW i \in JE, PostJournalToGL(i)
        PROVE  header' = header /\ line' = line
    BY <2>7 DEF PostJournalToGL
  <2>8. CASE Queries
    BY <2>3, <2>5, <2>7, <2>8 DEF Queries
  <2>9. CASE Maintenance
    <3>1. CASE \E i \in JE, S \in SUBSET LineNo : InsertManyLines(i, S)
      BY <2>2, <3>1 DEF InsertManyLines
    <3>2. CASE \E i \in JE, r \in HeaderRows : UpdateHeader(i, r)
      BY <2>5, <3>2
    <3>3. CASE \E i \in JE : DeleteHeader(i)
      BY <2>6, <3>3
    <3>4. CASE \E k \in LineKey : DeleteLine(k) \/ \E r \in LineRows : UpdateLine(k, r)
      <4>1. PICK k \in LineKey : DeleteLine(k) \/ \E r \in LineRows : UpdateLine(k, r)
        BY <3>4
      <4>2. CASE \E r \in LineRows : UpdateLine(k, r)
        BY <2>4, <4>2
      <4>3. CASE DeleteLine(k)
        BY <1>1, <4>3 DEF DeleteLine, DeleteAllowed, LinesOpen, TypeOK, LineKey
      <4> QED BY <4>1, <4>2, <4>3
    <3> QED BY <2>9, <3>1, <3>2, <3>3, <3>4 DEF Maintenance
  <2> QED BY <1>1, <2>8, <2>9 DEF InPlace
<1>2. TypeOK /\ [InPlace]_vars => [FrozenStep]_vars
  BY <1>1
<1> QED BY <1>2, TypeCorrectInPlace, PTL DEF SpecInPlace, PostedFrozen

\* With moves, lines of a POSTED entry may leave it; nothing else happens to
\* them.
THEOREM PostedLinesOnlyEverLeave == Spec => PostedLinesOnlyLeave
<1>1. ASSUME TypeOK, Next PROVE OnlyLeaveStep
  <2> SUFFICES ASSUME NEW j \in JE, NEW n \in LineNo, Posted(header, j)
               PROVE  line'[<<j, n>>] \in {line[<<j, n>>], NoRow}
    BY DEF OnlyLeaveStep
  <2>0. <<j, n>> \in LineKey
    BY DEF LineKey
  <2>1. ASSUME NEW i \in JE, NEW S \in SUBSET LineNo,
               NEW batch \in [S -> LineRows], InsertLines(i, batch)
        PROVE  line'[<<j, n>>] = line[<<j, n>>]
    <3>1. i # j
      BY <2>1 DEF InsertLines, InsertAllowed, LinesOpen
    <3> QED BY <1>1, <2>0, <2>1, <3>1, WithLinesEffect DEF InsertLines, TypeOK
  <2>2. ASSUME NEW i \in JE, NEW m \in LineNo, NEW r \in LineRows,
               CreateJournalLine(i, m, r)
        PROVE  line'[<<j, n>>] = line[<<j, n>>]
    <3>1. [x \in {m} |-> r] \in [{m} -> LineRows] /\ {m} \in SUBSET LineNo
      OBVIOUS
    <3> QED BY <2>1, <2>2, <3>1 DEF CreateJournalLine
  <2>3. ASSUME NEW k \in LineKey, NEW r \in LineRows, UpdateLine(k, r)
        PROVE  line'[<<j, n>>] = line[<<j, n>>]
    BY <1>1, <2>0, <2>3 DEF UpdateLine, UpdateAllowed, LinesOpen, TypeOK
  <2>4. ASSUME NEW k \in LineKey, DeleteLine(k)
        PROVE  line'[<<j, n>>] = line[<<j, n>>]
    BY <1>1, <2>0, <2>4 DEF DeleteLine, DeleteAllowed, LinesOpen, TypeOK
  <2>5. ASSUME NEW k \in LineKey, NEW m \in LineKey, MoveLine(k, m)
        PROVE  line'[<<j, n>>] \in {line[<<j, n>>], NoRow}
    BY <1>1, <2>0, <2>5 DEF MoveLine, MoveAllowed, Moved, LinesOpen, TypeOK
  <2>6. ASSUME NEW i \in JE, DeleteHeader(i)
        PROVE  line'[<<j, n>>] \in {line[<<j, n>>], NoRow}
    BY <1>1, <2>0, <2>6, WithoutEntryEffect DEF DeleteHeader, TypeOK
  <2>7. ASSUME UNCHANGED line PROVE line'[<<j, n>>] = line[<<j, n>>]
    BY <2>7
  <2> QED
    BY <1>1, <2>1, <2>2, <2>3, <2>4, <2>5, <2>6, <2>7
    DEF Next, InPlace, Queries, Maintenance, Moves, InsertManyLines, LineKey,
        CreateJournalEntry, UpdateHeader, PostJournalToGL
<1>2. TypeOK /\ [Next]_vars => [OnlyLeaveStep]_vars
  BY <1>1
<1> QED BY <1>2, TypeCorrect, PTL DEF Spec, PostedLinesOnlyLeave

-----------------------------------------------------------------------------
(* No line without its header.                                             *)

\* Whatever statements come, moves of lines and the deletion of entries
\* included, every line has its header.
THEOREM NoOrphanLines == Spec => []LinesHaveHeader
<1>1. Init => LinesHaveHeader
  BY DEF Init, LinesHaveHeader
<1>2. ASSUME TypeOK, LinesHaveHeader, Next PROVE LinesHaveHeader'
  <2>1. ASSUME NEW j \in JE, NEW r \in HeaderRows, header[j] # Gone,
               header' = [header EXCEPT ![j] = r], line' = line
        PROVE  LinesHaveHeader'
    BY <1>2, <2>1, MarkerAssumption DEF LinesHaveHeader, HasHeader, TypeOK, LineKey
  <2>2. ASSUME NEW j \in JE, NEW S \in SUBSET LineNo,
               NEW batch \in [S -> LineRows], InsertLines(j, batch)
        PROVE  LinesHaveHeader'
    <3>1. HasHeader(header, j)
      BY <2>2 DEF InsertLines, InsertAllowed
    <3>2. \A k \in LineKey : k[1] # j => line'[k] = line[k]
      BY <1>2, <2>2, WithLinesEffect DEF InsertLines, TypeOK
    <3>3. header' = header
      BY <2>2 DEF InsertLines
    <3> QED BY <1>2, <3>1, <3>2, <3>3 DEF LinesHaveHeader, HasHeader
  <2>3. ASSUME NEW j \in JE, NEW n \in LineNo, NEW r \in LineRows,
               CreateJournalLine(j, n, r)
        PROVE  LinesHaveHeader'
    <3>1. [x \in {n} |-> r] \in [{n} -> LineRows] /\ {n} \in SUBSET LineNo
      OBVIOUS
    <3> QED BY <2>2, <2>3, <3>1 DEF CreateJournalLine
  <2>4. ASSUME NEW k \in LineKey, NEW r \in LineRows, UpdateLine(k, r)
        PROVE  LinesHaveHeader'
    BY <1>2, <2>4 DEF UpdateLine, UpdateAllowed, LinesHaveHeader, HasHeader, TypeOK
  <2>5. ASSUME NEW k \in LineKey, DeleteLine(k) PROVE LinesHaveHeader'
    BY <1>2, <2>5 DEF DeleteLine, LinesHaveHeader, HasHeader, TypeOK
  <2>6. ASSUME NEW k \in LineKey, NEW m \in LineKey, MoveLine(k, m)
        PROVE  LinesHaveHeader'
    BY <1>2, <2>6 DEF MoveLine, MoveAllowed, Moved, LinesHaveHeader, HasHeader, TypeOK
  <2>7. ASSUME NEW j \in JE, DeleteHeader(j) PROVE LinesHaveHeader'
    <3>1. \A k \in LineKey : line'[k] = IF k[1] = j THEN NoRow ELSE line[k]
      BY <1>2, <2>7, WithoutEntryEffect DEF DeleteHeader, TypeOK
    <3>2. \A i \in JE : i # j => header'[i] = header[i]
      BY <1>2, <2>7 DEF DeleteHeader, TypeOK
    <3> QED BY <1>2, <3>1, <3>2 DEF LinesHaveHeader, HasHeader, LineKey
  <2>8. CASE Queries
    <3>1. ASSUME NEW j \in JE, NEW r \in HeaderRows, CreateJournalEntry(j, r)
          PROVE  LinesHaveHeader'
      BY <2>1, <3>1, MarkerAssumption DEF CreateJournalEntry
    <3>2. ASSUME NEW j \in JE, PostJournalToGL(j) PROVE LinesHaveHeader'
      BY <1>2, <3>2 DEF PostJournalToGL, LinesHaveHeader, HasHeader
    <3> QED BY <2>3, <2>8, <3>1, <3>2 DEF Queries
  <2>9. CASE Maintenance
    <3>1. ASSUME NEW j \in JE, NEW r \in HeaderRows, UpdateHeader(j, r)
          PROVE  LinesHaveHeader'
      BY <2>1, <3>1 DEF UpdateHeader, AmendAllowed, HasHeader
    <3>2. ASSUME NEW j \in JE, NEW S \in SUBSET LineNo, InsertManyLines(j, S)
          PROVE  LinesHaveHeader'
      BY <2>2, <3>2 DEF InsertManyLines
    <3> QED BY <2>4, <2>5, <2>7, <2>9, <3>1, <3>2 DEF Maintenance
  <2> QED BY <1>2, <2>6, <2>8, <2>9 DEF Next, InPlace, Moves
<1>3. TypeOK /\ LinesHaveHeader /\ [Next]_vars => LinesHaveHeader'
  BY <1>2 DEF vars, LinesHaveHeader, HasHeader
<1> QED BY <1>1, <1>3, TypeCorrect, PTL DEF Spec

-----------------------------------------------------------------------------
(* Refinement.                                                             *)

\* The header table implements the life of journal entries.
THEOREM LedgerImplementsLifecycle == Spec => HeaderLifecycle
<1>1. Init => Lifecycle!Init
  BY DEF Init, Lifecycle!Init
<1>2. ASSUME TypeOK, TypeOK', [Next]_vars PROVE [Lifecycle!Next]_header
  <2> USE DEF Lifecycle!Next, Lifecycle!Forward, Lifecycle!Open
  <2>1. ASSUME NEW j \in JE, NEW r \in HeaderRows, CreateJournalEntry(j, r)
        PROVE  Lifecycle!Next
    BY <1>2, <2>1 DEF CreateJournalEntry, TypeOK
  <2>2. ASSUME NEW j \in JE, NEW r \in HeaderRows, UpdateHeader(j, r)
        PROVE  Lifecycle!Next
    BY <1>2, <2>2, MarkerAssumption
    DEF UpdateHeader, AmendAllowed, Posted, HasHeader, TypeOK
  <2>3. ASSUME NEW j \in JE, DeleteHeader(j)
        PROVE  Lifecycle!Next
    BY <1>2, <2>3 DEF DeleteHeader, HasHeader, TypeOK
  <2>4. CASE UNCHANGED header
    BY <2>4
  <2> QED
    BY <1>2, <2>1, <2>2, <2>3, <2>4
    DEF Next, InPlace, Queries, Maintenance, Moves, InsertManyLines,
        CreateJournalLine, InsertLines, PostJournalToGL, UpdateLine, MoveLine,
        DeleteLine, vars
<1> QED
  BY <1>1, <1>2, TypeCorrect, PTL DEF Spec, HeaderLifecycle, Lifecycle!Spec
=============================================================================
