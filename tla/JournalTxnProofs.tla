-------------------------- MODULE JournalTxnProofs -------------------------
(***************************************************************************)
(* Proofs about JournalTxn, for any sets of transactions, entries, line    *)
(* numbers and rows.                                                       *)
(***************************************************************************)
EXTENDS JournalTxn, TLAPS

-----------------------------------------------------------------------------
(* What a transaction sees.                                                *)

\* A transaction sees its own write, or else the committed row, and that row
\* has the type of its table.
LEMMA SeenRows ==
    ASSUME TypeOK, NEW t \in Tx
    PROVE  /\ SeenHeader(t) \in [JE -> HeaderRows \cup {NoRow, Gone}]
           /\ SeenLine(t) \in [LineKey -> LineRows \cup {NoRow}]
           /\ \A j \in JE : SeenHeader(t)[j] =
                  IF wHeader[t][j] = Same THEN header[j] ELSE wHeader[t][j]
           /\ \A k \in LineKey : SeenLine(t)[k] =
                  IF wLine[t][k] = Same THEN line[k] ELSE wLine[t][k]
BY DEF TypeOK, SeenHeader, SeenLine

\* Copying an entry to general_ledger gives a posting of that entry.
LEMMA SeenPosting ==
    ASSUME TypeOK, NEW t \in Tx, NEW j \in JE, HasHeader(SeenHeader(t), j)
    PROVE  /\ PostingOf(SeenHeader(t), SeenLine(t), j) \in Posting
           /\ PostingOf(SeenHeader(t), SeenLine(t), j).je = j
<1> DEFINE h == SeenHeader(t)
           l == SeenLine(t)
<1>1. h[j].status \in STRING
  BY SeenRows, RowsAssumption DEF HasHeader, HeaderRow
<1>2. ASSUME NEW k \in LinesOf(l, j)
      PROVE  k \in LineKey /\ l[k].debit \in Money /\ l[k].credit \in Money
  <2>1. k \in LineKey /\ l[k] # NoRow
    BY <1>2 DEF LinesOf, LineKey
  <2>2. l[k] \in LineRows
    BY <2>1, SeenRows
  <2> QED BY <2>1, <2>2, RowsAssumption DEF LineRow
<1> QED BY <1>1, <1>2 DEF PostingOf, Posting, Amounts

-----------------------------------------------------------------------------
(* Type correctness.                                                       *)

\* The end of a transaction empties its write sets and drops its locks.
LEMMA ForgetEffect ==
    ASSUME TypeOK, NEW t \in Tx, Forget(t)
    PROVE  /\ wHeader' \in [Tx -> [JE -> HeaderRows \cup {Same, Gone}]]
           /\ wLine' \in [Tx -> [LineKey -> LineRows \cup {Same, NoRow}]]
           /\ wGL' \in [Tx -> Seq(Posting)]
           /\ share' \in [Tx -> SUBSET JE]
           /\ \A j \in JE : wHeader'[t][j] = Same
           /\ \A k \in LineKey : wLine'[t][k] = Same
           /\ wGL'[t] = << >> /\ share'[t] = {}
           /\ \A u \in Tx \ {t} : /\ wHeader'[u] = wHeader[u]
                                  /\ wLine'[u] = wLine[u]
                                  /\ wGL'[u] = wGL[u]
                                  /\ share'[u] = share[u]
BY DEF TypeOK, Forget

\* Every statement, commit and rollback keeps the tables and the write sets
\* well-typed, whatever the transactions are in the middle of.
LEMMA TypeOKStep == TypeOK /\ [Next]_vars => TypeOK'
<1> SUFFICES ASSUME TypeOK, [Next]_vars PROVE TypeOK'
  OBVIOUS
<1>1. ASSUME NEW t \in Tx, NEW j \in JE, NEW r \in HeaderRows, CreateJournalEntry(t, j, r)
      PROVE  TypeOK'
  BY <1>1 DEF TypeOK, CreateJournalEntry, committed
<1>2. ASSUME NEW t \in Tx, NEW j \in JE, NEW r \in HeaderRows, UpdateHeader(t, j, r)
      PROVE  TypeOK'
  BY <1>2 DEF TypeOK, UpdateHeader, committed
<1>3. ASSUME NEW t \in Tx, NEW j \in JE, NEW n \in LineNo, NEW r \in LineRows,
             CreateJournalLine(t, j, n, r)
      PROVE  TypeOK'
  BY <1>3 DEF TypeOK, CreateJournalLine, committed
<1>4. ASSUME NEW t \in Tx, NEW j \in JE, DeleteHeader(t, j)
      PROVE  TypeOK'
  <2>1. wHeader' \in [Tx -> [JE -> HeaderRows \cup {Same, Gone}]]
    BY <1>4 DEF TypeOK, DeleteHeader
  <2>2. wLine' \in [Tx -> [LineKey -> LineRows \cup {Same, NoRow}]]
    BY <1>4 DEF TypeOK, DeleteHeader
  <2> QED BY <1>4, <2>1, <2>2 DEF TypeOK, DeleteHeader, committed
<1>5. ASSUME NEW t \in Tx, NEW j \in JE, PostJournalToGL(t, j)
      PROVE  TypeOK'
  <2>1. PostingOf(SeenHeader(t), SeenLine(t), j) \in Posting
    BY <1>5, SeenPosting DEF PostJournalToGL
  <2> QED BY <1>5, <2>1 DEF TypeOK, PostJournalToGL, committed
<1>6. ASSUME NEW t \in Tx, NEW k \in LineKey, NEW r \in LineRows, UpdateLine(t, k, r)
      PROVE  TypeOK'
  BY <1>6 DEF TypeOK, UpdateLine, committed
<1>7. ASSUME NEW t \in Tx, NEW k \in LineKey, NEW m \in LineKey, MoveLine(t, k, m)
      PROVE  TypeOK'
  <2>1. SeenLine(t)[k] \in LineRows /\ m[1] \in JE
    BY <1>7, SeenRows DEF MoveLine, MoveAllowed, LineKey
  <2> QED BY <1>7, <2>1 DEF TypeOK, MoveLine, committed
<1>8. ASSUME NEW t \in Tx, NEW k \in LineKey, DeleteLine(t, k)
      PROVE  TypeOK'
  BY <1>8 DEF TypeOK, DeleteLine, committed
<1>9. ASSUME NEW t \in Tx, Commit(t) PROVE TypeOK'
  <2>1. gl' \in Seq(Posting)
    BY <1>9 DEF TypeOK, Commit
  <2> QED BY <1>9, <2>1, ForgetEffect, SeenRows DEF TypeOK, Commit
<1>10. ASSUME NEW t \in Tx, Rollback(t) PROVE TypeOK'
  BY <1>10, ForgetEffect DEF TypeOK, Rollback, committed
<1>11. CASE UNCHANGED vars
  BY <1>11 DEF TypeOK, vars
<1> QED
  BY <1>1, <1>2, <1>3, <1>4, <1>5, <1>6, <1>7, <1>8, <1>9, <1>10, <1>11 DEF Next, Statement

\* Tables and write sets hold rows of their types.
THEOREM TxnTypeCorrect == Spec => []TypeOK
<1>1. Init => TypeOK
  BY DEF Init, TypeOK
<1> QED BY <1>1, TypeOKStep, PTL DEF Spec

-----------------------------------------------------------------------------
(* The invariant behind the foreign key: what row locks keep apart.        *)

\* One transaction at a time has a row in its write set.
OneWriter ==
    /\ \A t, u \in Tx, j \in JE :
        t # u /\ wHeader[t][j] # Same => wHeader[u][j] = Same
    /\ \A t, u \in Tx, k \in LineKey :
        t # u /\ wLine[t][k] # Same => wLine[u][k] = Same

\* A line in a write set is a committed line, or its entry is locked against
\* deletion.
WritesLocked ==
    \A t \in Tx, k \in LineKey :
        wLine[t][k] # Same => k[1] \in share[t] \/ line[k] # NoRow

\* Whoever has deleted a header has deleted every line of it, and nobody else
\* has a lock on the header or one of its lines.
DeletedAlone ==
    \A t \in Tx, j \in JE : wHeader[t][j] = Gone =>
        /\ \A k \in LineKey : k[1] = j => SeenLine(t)[k] = NoRow
        /\ \A u \in Tx \ {t} :
            /\ j \notin share[u]
            /\ \A k \in LineKey : k[1] = j => wLine[u][k] = Same

\* The foreign key in the eyes of each transaction.
ViewsLinked ==
    \A t \in Tx, k \in LineKey :
        SeenLine(t)[k] # NoRow => HasHeader(SeenHeader(t), k[1])

TxnInv == /\ TypeOK
          /\ OneWriter
          /\ WritesLocked
          /\ DeletedAlone
          /\ ViewsLinked
          /\ LinesHaveHeader

\* What a transaction sees after a step, row by row.
LEMMA SeenNext ==
    /\ \A t \in Tx, j \in JE : SeenHeader(t)'[j] =
            IF wHeader'[t][j] = Same THEN header'[j] ELSE wHeader'[t][j]
    /\ \A t \in Tx, k \in LineKey : SeenLine(t)'[k] =
            IF wLine'[t][k] = Same THEN line'[k] ELSE wLine'[t][k]
BY DEF SeenHeader, SeenLine

\* The columns of a line's key.
LEMMA KeyColumns == \A k \in LineKey : k[1] \in JE
BY DEF LineKey

\* A header row written by one transaction, which was there or is new.
LEMMA HeaderWriteKeeps ==
    ASSUME TxnInv, TypeOK', NEW t \in Tx, NEW j \in JE, NEW r \in HeaderRows,
           HeaderFree(t, j), SeenHeader(t)[j] # Gone,
           wHeader' = [wHeader EXCEPT ![t][j] = r],
           UNCHANGED <<header, line, wLine, share>>
    PROVE  TxnInv'
<1> USE SeenRows, SeenNext, KeyColumns, MarkerAssumption, SameAssumption
<1> DEFINE own(u, i) == u = t /\ i = j
<1>1. \A u \in Tx, i \in JE :
          wHeader'[u][i] = IF own(u, i) THEN r ELSE wHeader[u][i]
  BY DEF TxnInv, TypeOK
<1>2. \A u \in Tx, k \in LineKey : SeenLine(u)'[k] = SeenLine(u)[k]
  BY DEF TxnInv
<1>3. \A u \in Tx, i \in JE :
          SeenHeader(u)'[i] = IF own(u, i) THEN r ELSE SeenHeader(u)[i]
  BY <1>1 DEF TxnInv
<1>4. OneWriter'
  BY <1>1 DEF TxnInv, OneWriter, HeaderFree, Others
<1>5. WritesLocked' /\ LinesHaveHeader'
  BY DEF TxnInv, WritesLocked, LinesHaveHeader, HasHeader
<1>6. DeletedAlone'
  BY <1>1, <1>2 DEF TxnInv, DeletedAlone
<1>7. ViewsLinked'
  BY <1>2, <1>3 DEF TxnInv, ViewsLinked, HasHeader
<1> QED BY <1>4, <1>5, <1>6, <1>7 DEF TxnInv

\* Lines written by one transaction, each free, and each seen or in an entry
\* this transaction now has a key-share lock on; rows only where the header is.
LEMMA LineWriteKeeps ==
    ASSUME TxnInv, TypeOK', NEW t \in Tx, NEW K \in SUBSET LineKey,
           UNCHANGED <<header, line, wHeader>>,
           \A u \in Tx \ {t} : wLine'[u] = wLine[u] /\ share'[u] = share[u],
           share[t] \subseteq share'[t],
           \A i \in share'[t] \ share[t] : KeyShareFree(t, i),
           \A k \in LineKey \ K : wLine'[t][k] = wLine[t][k],
           \A k \in K : /\ LineFree(t, k)
                        /\ wLine'[t][k] # Same
                        /\ SeenLine(t)[k] # NoRow \/ (KeyShareFree(t, k[1]) /\ k[1] \in share'[t])
                        /\ wLine'[t][k] # NoRow => HasHeader(SeenHeader(t), k[1])
    PROVE  TxnInv'
<1> USE SeenRows, SeenNext, KeyColumns, MarkerAssumption, SameAssumption
<1>1. \A u \in Tx, k \in LineKey :
          SeenLine(u)'[k] = IF u = t /\ k \in K THEN wLine'[t][k] ELSE SeenLine(u)[k]
  BY DEF TxnInv
<1>2. \A u \in Tx, i \in JE : SeenHeader(u)'[i] = SeenHeader(u)[i]
  BY DEF TxnInv
<1>3. OneWriter'
  BY DEF TxnInv, OneWriter, LineFree, Others
<1>4. WritesLocked'
  BY DEF TxnInv, WritesLocked
<1>5. LinesHaveHeader'
  BY DEF TxnInv, LinesHaveHeader, HasHeader
<1>6. ASSUME NEW u \in Tx, NEW i \in JE, wHeader'[u][i] = Gone
      PROVE  /\ \A k \in LineKey : k[1] = i => SeenLine(u)'[k] = NoRow
             /\ \A v \in Tx \ {u} :
                 /\ i \notin share'[v]
                 /\ \A k \in LineKey : k[1] = i => wLine'[v][k] = Same
  <2>1. wHeader[u][i] = Gone /\ ~HasHeader(SeenHeader(u), i)
    BY <1>6 DEF HasHeader, TxnInv
  <2>2. CASE u = t
    BY <2>1, <2>2, <1>1 DEF TxnInv, DeletedAlone
  <2>3. CASE u # t
    <3>1. ~KeyShareFree(t, i)
      BY <2>1, <2>3 DEF KeyShareFree, Others
    <3>2. \A k \in LineKey : k[1] = i =>
              /\ SeenLine(u)[k] = NoRow /\ wLine[t][k] = Same /\ i \notin share[t]
      BY <2>1, <2>3 DEF TxnInv, DeletedAlone
    <3>3. ASSUME NEW k \in K, k[1] = i PROVE FALSE
      <4>1. SeenLine(t)[k] # NoRow /\ wLine[t][k] = Same
        BY <3>1, <3>2, <3>3
      <4>2. line[k] # NoRow
        BY <4>1 DEF TxnInv
      <4>3. wLine[u][k] = Same
        BY <2>3, <3>3 DEF LineFree, Others
      <4> QED BY <3>2, <3>3, <4>2, <4>3 DEF TxnInv
    <3> QED BY <2>1, <2>3, <3>1, <3>3, <1>1 DEF TxnInv, DeletedAlone
  <2> QED BY <2>2, <2>3
<1>7. DeletedAlone'
  BY <1>6 DEF DeletedAlone
<1>8. ViewsLinked'
  BY <1>1, <1>2 DEF TxnInv, ViewsLinked, HasHeader
<1> QED BY <1>3, <1>4, <1>5, <1>7, <1>8 DEF TxnInv

\* One line that is seen, updated or deleted in place.
LEMMA OneLineKeeps ==
    ASSUME TxnInv, TypeOK', NEW t \in Tx, NEW k \in LineKey,
           UNCHANGED <<header, line, wHeader, share>>,
           \A u \in Tx \ {t} : wLine'[u] = wLine[u],
           \A l \in LineKey \ {k} : wLine'[t][l] = wLine[t][l],
           LineFree(t, k), SeenLine(t)[k] # NoRow, wLine'[t][k] # Same,
           wLine'[t][k] # NoRow => HasHeader(SeenHeader(t), k[1])
    PROVE  TxnInv'
<1> DEFINE K == {k}
<1>1. K \in SUBSET LineKey
  OBVIOUS
<1>2. /\ share[t] \subseteq share'[t]
      /\ \A i \in share'[t] \ share[t] : KeyShareFree(t, i)
      /\ \A u \in Tx \ {t} : wLine'[u] = wLine[u] /\ share'[u] = share[u]
      /\ UNCHANGED <<header, line, wHeader>>
  OBVIOUS
<1>3. \A l \in K : /\ LineFree(t, l)
                   /\ wLine'[t][l] # Same
                   /\ SeenLine(t)[l] # NoRow \/ (KeyShareFree(t, l[1]) /\ l[1] \in share'[t])
                   /\ wLine'[t][l] # NoRow => HasHeader(SeenHeader(t), l[1])
  OBVIOUS
<1>4. \A l \in LineKey \ K : wLine'[t][l] = wLine[t][l]
  OBVIOUS
<1> HIDE DEF K
<1> QED BY <1>1, <1>2, <1>3, <1>4, LineWriteKeeps

\* A deleted header: its NO KEY UPDATE against KEY SHARE conflict and the
\* locks of its lines see to it that nobody is working on the entry.
LEMMA DeleteHeaderKeeps ==
    ASSUME TxnInv, TypeOK', NEW t \in Tx, NEW j \in JE, DeleteHeader(t, j)
    PROVE  TxnInv'
<1> USE SeenRows, SeenNext, KeyColumns, MarkerAssumption, SameAssumption
<1> DEFINE mine(k) == k[1] = j /\ SeenLine(t)[k] # NoRow
<1>1. \A k \in LineKey : k \in LinesOf(SeenLine(t), j) <=> mine(k)
  BY DEF LinesOf, LineKey
<1>2. /\ UNCHANGED <<header, line, share>>
      /\ \A u \in Tx, i \in JE :
          wHeader'[u][i] = IF u = t /\ i = j THEN Gone ELSE wHeader[u][i]
      /\ \A u \in Tx, k \in LineKey :
          wLine'[u][k] = IF u = t /\ mine(k) THEN NoRow ELSE wLine[u][k]
  BY <1>1 DEF DeleteHeader, committed, TxnInv, TypeOK
<1>3. /\ HasHeader(SeenHeader(t), j)
      /\ \A u \in Tx \ {t} : wHeader[u][j] = Same /\ j \notin share[u]
      /\ \A k \in LineKey, u \in Tx \ {t} : mine(k) => wLine[u][k] = Same
  BY <1>1 DEF DeleteHeader, HeaderFree, NoShare, LineFree, Others
<1>4. \A u \in Tx, k \in LineKey :
          SeenLine(u)'[k] = IF u = t /\ mine(k) THEN NoRow ELSE SeenLine(u)[k]
  BY <1>2 DEF TxnInv
<1>5. ASSUME NEW u \in Tx \ {t}, NEW k \in LineKey, k[1] = j
      PROVE  wLine[u][k] = Same
  <2> SUFFICES ASSUME wLine[u][k] # Same PROVE FALSE
    OBVIOUS
  <2>1. line[k] # NoRow /\ wLine[t][k] = Same
    BY <1>3, <1>5 DEF TxnInv, WritesLocked, OneWriter
  <2>2. mine(k)
    BY <1>5, <2>1 DEF TxnInv
  <2> QED BY <1>3, <2>2
<1>6. OneWriter'
  BY <1>2, <1>3 DEF TxnInv, OneWriter
<1>7. WritesLocked'
  <2> SUFFICES ASSUME NEW u \in Tx, NEW k \in LineKey, wLine'[u][k] # Same
               PROVE  k[1] \in share'[u] \/ line'[k] # NoRow
    BY DEF WritesLocked
  <2>1. CASE wLine[u][k] # Same
    BY <1>2, <2>1 DEF TxnInv, WritesLocked
  <2>2. CASE wLine[u][k] = Same
    BY <1>2, <2>2 DEF TxnInv
  <2> QED BY <2>1, <2>2
<1>8. LinesHaveHeader'
  BY <1>2 DEF TxnInv, LinesHaveHeader, HasHeader
<1>9. DeletedAlone'
  <2>1. ASSUME NEW u \in Tx, NEW i \in JE, wHeader'[u][i] = Gone
        PROVE  /\ \A k \in LineKey : k[1] = i => SeenLine(u)'[k] = NoRow
               /\ \A v \in Tx \ {u} :
                   /\ i \notin share'[v]
                   /\ \A k \in LineKey : k[1] = i => wLine'[v][k] = Same
    <3>1. CASE u = t /\ i = j
      BY <1>2, <1>3, <1>4, <1>5, <3>1
    <3>2. CASE ~(u = t /\ i = j)
      <4>1. wHeader[u][i] = Gone
        BY <1>2, <2>1, <3>2
      <4>2. i # j
        BY <4>1, <3>2, <1>3 DEF HasHeader, TxnInv
      <4> QED BY <1>2, <1>4, <4>1, <4>2 DEF TxnInv, DeletedAlone
    <3> QED BY <3>1, <3>2
  <2> QED BY <2>1 DEF DeletedAlone
<1>10. ViewsLinked'
  <2>1. \A u \in Tx, i \in JE : ~(u = t /\ i = j) => SeenHeader(u)'[i] = SeenHeader(u)[i]
    BY <1>2 DEF TxnInv
  <2>2. \A k \in LineKey : k[1] = j => SeenLine(t)'[k] = NoRow
    BY <1>4
  <2> QED BY <1>4, <2>1, <2>2 DEF TxnInv, ViewsLinked, HasHeader
<1> QED BY <1>6, <1>7, <1>8, <1>9, <1>10 DEF TxnInv

\* A commit puts rows in place that every other transaction's locks allow for.
LEMMA CommitKeeps ==
    ASSUME TxnInv, TypeOK', NEW t \in Tx, Commit(t)
    PROVE  TxnInv'
<1> USE SeenRows, SeenNext, KeyColumns, MarkerAssumption, SameAssumption
<1>1. /\ \A j \in JE : header'[j] = SeenHeader(t)[j]
      /\ \A k \in LineKey : line'[k] = SeenLine(t)[k]
  BY DEF Commit
<1>2. /\ \A j \in JE : wHeader'[t][j] = Same
      /\ \A k \in LineKey : wLine'[t][k] = Same
      /\ share'[t] = {}
      /\ \A u \in Tx \ {t} : /\ wHeader'[u] = wHeader[u]
                             /\ wLine'[u] = wLine[u]
                             /\ share'[u] = share[u]
  BY ForgetEffect DEF Commit, TxnInv
<1>3. OneWriter'
  BY <1>2 DEF TxnInv, OneWriter
<1>4. WritesLocked'
  BY <1>1, <1>2 DEF TxnInv, WritesLocked, OneWriter
<1>5. LinesHaveHeader'
  BY <1>1 DEF TxnInv, ViewsLinked, LinesHaveHeader, HasHeader
<1>6. ASSUME NEW u \in Tx \ {t}, NEW k \in LineKey
      PROVE  wLine[u][k] = Same => SeenLine(u)'[k] = SeenLine(t)[k]
  BY <1>1, <1>2
<1>7. ASSUME NEW u \in Tx \ {t}, NEW k \in LineKey, wLine[u][k] # Same
      PROVE  SeenLine(u)'[k] = SeenLine(u)[k]
  BY <1>2, <1>7 DEF TxnInv
<1>8. DeletedAlone'
  <2>1. ASSUME NEW u \in Tx, NEW j \in JE, wHeader'[u][j] = Gone
        PROVE  /\ \A k \in LineKey : k[1] = j => SeenLine(u)'[k] = NoRow
               /\ \A v \in Tx \ {u} :
                   /\ j \notin share'[v]
                   /\ \A k \in LineKey : k[1] = j => wLine'[v][k] = Same
    <3>1. u # t /\ wHeader[u][j] = Gone
      BY <1>2, <2>1
    <3>2. /\ \A k \in LineKey : k[1] = j => SeenLine(u)[k] = NoRow /\ wLine[t][k] = Same
          /\ \A v \in Tx \ {u} :
              /\ j \notin share[v]
              /\ \A k \in LineKey : k[1] = j => wLine[v][k] = Same
      BY <3>1 DEF TxnInv, DeletedAlone
    <3>3. \A k \in LineKey : k[1] = j => SeenLine(u)'[k] = NoRow
      BY <3>1, <3>2, <1>1, <1>2 DEF TxnInv
    <3> QED BY <3>2, <3>3, <1>2
  <2> QED BY <2>1 DEF DeletedAlone
<1>9. ViewsLinked'
  <2> SUFFICES ASSUME NEW u \in Tx, NEW k \in LineKey, SeenLine(u)'[k] # NoRow
               PROVE  HasHeader(SeenHeader(u), k[1])'
    BY DEF ViewsLinked
  <2>1. CASE u = t
    <3>1. /\ SeenLine(t)'[k] = SeenLine(t)[k]
          /\ SeenHeader(t)'[k[1]] = SeenHeader(t)[k[1]]
      BY <1>1, <1>2
    <3> QED BY <2>1, <3>1 DEF TxnInv, ViewsLinked, HasHeader
  <2>2. CASE u # t /\ wLine[u][k] # Same
    <3>1. HasHeader(SeenHeader(u), k[1]) /\ wLine[t][k] = Same
      BY <1>7, <2>2 DEF TxnInv, ViewsLinked, OneWriter
    <3>2. wHeader[t][k[1]] # Gone
      BY <2>2 DEF TxnInv, DeletedAlone
    <3>3. SeenHeader(t)[k[1]] = header[k[1]] \/ SeenHeader(t)[k[1]] \in HeaderRows
      BY <3>2 DEF TxnInv, TypeOK
    <3>4. SeenHeader(u)'[k[1]] = IF wHeader[u][k[1]] = Same THEN SeenHeader(t)[k[1]]
                                ELSE SeenHeader(u)[k[1]]
      BY <1>1, <1>2, <2>2 DEF TxnInv
    <3>5. wHeader[u][k[1]] = Same => SeenHeader(u)[k[1]] = header[k[1]]
      BY DEF TxnInv
    <3> QED BY <3>1, <3>3, <3>4, <3>5 DEF HasHeader
  <2>3. CASE u # t /\ wLine[u][k] = Same
    <3>1. HasHeader(SeenHeader(t), k[1]) /\ SeenLine(t)[k] # NoRow
      BY <1>6, <2>3 DEF TxnInv, ViewsLinked
    <3>2. wHeader[u][k[1]] # Gone
      BY <2>3, <3>1 DEF TxnInv, DeletedAlone
    <3> QED BY <1>1, <1>2, <2>3, <3>1, <3>2 DEF TxnInv, HasHeader, TypeOK
  <2> QED BY <2>1, <2>2, <2>3
<1> QED BY <1>3, <1>4, <1>5, <1>8, <1>9 DEF TxnInv

\* A rollback leaves the committed rows, which satisfy the foreign key.
LEMMA RollbackKeeps ==
    ASSUME TxnInv, TypeOK', NEW t \in Tx, Rollback(t)
    PROVE  TxnInv'
<1> USE SeenRows, SeenNext, KeyColumns
<1>1. /\ UNCHANGED <<header, line>>
      /\ \A j \in JE : wHeader'[t][j] = Same
      /\ \A k \in LineKey : wLine'[t][k] = Same
      /\ share'[t] = {}
      /\ \A u \in Tx \ {t} : /\ wHeader'[u] = wHeader[u]
                             /\ wLine'[u] = wLine[u]
                             /\ share'[u] = share[u]
  BY ForgetEffect DEF Rollback, TxnInv, committed
<1>2. OneWriter' /\ WritesLocked' /\ LinesHaveHeader'
  BY <1>1 DEF TxnInv, OneWriter, WritesLocked, LinesHaveHeader, HasHeader
<1>3. \A k \in LineKey : SeenLine(t)'[k] = line[k]
  BY <1>1
<1>4. \A u \in Tx \ {t}, k \in LineKey : SeenLine(u)'[k] = SeenLine(u)[k]
  BY <1>1 DEF TxnInv
<1>5. DeletedAlone'
  BY <1>1, <1>4, SameAssumption DEF TxnInv, DeletedAlone
<1>6. ViewsLinked'
  <2>1. \A j \in JE : SeenHeader(t)'[j] = header[j]
    BY <1>1
  <2>2. \A u \in Tx \ {t}, j \in JE : SeenHeader(u)'[j] = SeenHeader(u)[j]
    BY <1>1 DEF TxnInv
  <2> QED BY <1>3, <1>4, <2>1, <2>2 DEF TxnInv, ViewsLinked, LinesHaveHeader, HasHeader
<1> QED BY <1>2, <1>5, <1>6 DEF TxnInv

\* The same three, one action at a time.
LEMMA TxnInvStep == TypeOK' /\ TxnInv /\ [Next]_vars => TxnInv'
<1> SUFFICES ASSUME TypeOK', TxnInv, [Next]_vars PROVE TxnInv'
  OBVIOUS
<1> USE SeenRows, KeyColumns, MarkerAssumption, SameAssumption
<1>1. ASSUME NEW t \in Tx, NEW j \in JE, NEW r \in HeaderRows,
             CreateJournalEntry(t, j, r) \/ UpdateHeader(t, j, r)
      PROVE  TxnInv'
  BY <1>1, HeaderWriteKeeps
  DEF CreateJournalEntry, UpdateHeader, AmendAllowed, HasHeader, committed
<1>2. ASSUME NEW t \in Tx, NEW j \in JE, NEW n \in LineNo, NEW r \in LineRows,
             CreateJournalLine(t, j, n, r)
      PROVE  TxnInv'
  <2>1. /\ UNCHANGED <<header, line, wHeader>>
        /\ LineFree(t, <<j, n>>) /\ KeyShareFree(t, j)
        /\ HasHeader(SeenHeader(t), j)
    BY <1>2 DEF CreateJournalLine, InsertAllowed, committed
  <2>2. /\ <<j, n>> \in LineKey
        /\ \A u \in Tx \ {t} : wLine'[u] = wLine[u] /\ share'[u] = share[u]
        /\ share'[t] = share[t] \cup {j}
        /\ wLine'[t][<<j, n>>] = r
        /\ \A k \in LineKey \ {<<j, n>>} : wLine'[t][k] = wLine[t][k]
    BY <1>2 DEF CreateJournalLine, TxnInv, TypeOK, LineKey
  <2> DEFINE K == {<<j, n>>}
  <2>3. \A k \in K : /\ LineFree(t, k)
                     /\ wLine'[t][k] # Same
                     /\ KeyShareFree(t, k[1]) /\ k[1] \in share'[t]
                     /\ HasHeader(SeenHeader(t), k[1])
    BY <2>1, <2>2
  <2>4. K \in SUBSET LineKey
    BY <2>2
  <2>5. share[t] \subseteq share'[t] /\ \A i \in share'[t] \ share[t] : KeyShareFree(t, i)
    BY <2>1, <2>2
  <2> HIDE DEF K
  <2>6. \A k \in LineKey \ K : wLine'[t][k] = wLine[t][k]
    BY <2>2 DEF K
  <2> QED BY <2>1, <2>2, <2>3, <2>4, <2>5, <2>6, LineWriteKeeps
<1>3. ASSUME NEW t \in Tx, NEW k \in LineKey, NEW r \in LineRows, UpdateLine(t, k, r)
      PROVE  TxnInv'
  <2>1. /\ UNCHANGED <<header, line, wHeader, share>>
        /\ LineFree(t, k) /\ SeenLine(t)[k] # NoRow
    BY <1>3 DEF UpdateLine, UpdateAllowed, committed
  <2>2. /\ \A u \in Tx \ {t} : wLine'[u] = wLine[u]
        /\ wLine'[t][k] = r
        /\ \A l \in LineKey \ {k} : wLine'[t][l] = wLine[t][l]
    BY <1>3 DEF UpdateLine, TxnInv, TypeOK
  <2>3. HasHeader(SeenHeader(t), k[1])
    BY <2>1 DEF TxnInv, ViewsLinked
  <2> QED BY <2>1, <2>2, <2>3, OneLineKeeps
<1>4. ASSUME NEW t \in Tx, NEW k \in LineKey, DeleteLine(t, k)
      PROVE  TxnInv'
  <2>1. /\ UNCHANGED <<header, line, wHeader, share>>
        /\ LineFree(t, k) /\ SeenLine(t)[k] # NoRow
    BY <1>4 DEF DeleteLine, DeleteAllowed, committed
  <2>2. /\ \A u \in Tx \ {t} : wLine'[u] = wLine[u]
        /\ wLine'[t][k] = NoRow
        /\ \A l \in LineKey \ {k} : wLine'[t][l] = wLine[t][l]
    BY <1>4 DEF DeleteLine, TxnInv, TypeOK
  <2> QED BY <2>1, <2>2, OneLineKeeps
<1>5. ASSUME NEW t \in Tx, NEW k \in LineKey, NEW m \in LineKey, MoveLine(t, k, m)
      PROVE  TxnInv'
  <2>1. /\ UNCHANGED <<header, line, wHeader>>
        /\ LineFree(t, k) /\ LineFree(t, m) /\ KeyShareFree(t, m[1])
        /\ SeenLine(t)[k] # NoRow /\ k # m
        /\ HasHeader(SeenHeader(t), m[1])
    BY <1>5 DEF MoveLine, MoveAllowed, committed
  <2>2. /\ \A u \in Tx \ {t} : wLine'[u] = wLine[u] /\ share'[u] = share[u]
        /\ share'[t] = share[t] \cup {m[1]}
        /\ wLine'[t][k] = NoRow
        /\ wLine'[t][m] = SeenLine(t)[k]
        /\ \A l \in LineKey \ {k, m} : wLine'[t][l] = wLine[t][l]
    BY <1>5, <2>1 DEF MoveLine, TxnInv, TypeOK
  <2>3. SeenLine(t)[k] # Same
    BY <2>1 DEF TxnInv
  <2> DEFINE K == {k, m}
  <2>4. K \in SUBSET LineKey
    OBVIOUS
  <2>5. \A l \in K : /\ LineFree(t, l)
                     /\ wLine'[t][l] # Same
                     /\ SeenLine(t)[l] # NoRow \/ (KeyShareFree(t, l[1]) /\ l[1] \in share'[t])
                     /\ wLine'[t][l] # NoRow => HasHeader(SeenHeader(t), l[1])
    BY <2>1, <2>2, <2>3
  <2>6. share[t] \subseteq share'[t] /\ \A i \in share'[t] \ share[t] : KeyShareFree(t, i)
    BY <2>1, <2>2
  <2>7. \A l \in LineKey \ K : wLine'[t][l] = wLine[t][l]
    BY <2>2
  <2> HIDE DEF K
  <2> QED BY <2>1, <2>2, <2>4, <2>5, <2>6, <2>7, LineWriteKeeps
<1>6. ASSUME NEW t \in Tx, NEW j \in JE, PostJournalToGL(t, j)
      PROVE  TxnInv'
  <2>1. UNCHANGED <<header, line, wHeader, wLine, share>>
    BY <1>6 DEF PostJournalToGL, committed
  <2> QED BY <2>1 DEF TxnInv, OneWriter, WritesLocked, DeletedAlone, ViewsLinked,
                      LinesHaveHeader, HasHeader, SeenHeader, SeenLine
<1>7. CASE UNCHANGED vars
  BY <1>7 DEF TxnInv, OneWriter, WritesLocked, DeletedAlone, ViewsLinked,
              LinesHaveHeader, HasHeader, SeenHeader, SeenLine, vars
<1> QED
  BY <1>1, <1>2, <1>3, <1>4, <1>5, <1>6, <1>7, DeleteHeaderKeeps, CommitKeeps, RollbackKeeps
  DEF Next, Statement

LEMMA TxnInvHolds == Spec => []TxnInv
<1>1. Init => TxnInv
  <2> SUFFICES ASSUME Init PROVE TxnInv
    OBVIOUS
  <2>1. TypeOK
    BY DEF Init, TypeOK
  <2>2. /\ \A t \in Tx, k \in LineKey : SeenLine(t)[k] = NoRow
        /\ \A k \in LineKey : line[k] = NoRow
        /\ \A t \in Tx, k \in LineKey : wLine[t][k] = Same
        /\ \A t \in Tx, j \in JE : wHeader[t][j] = Same
    BY DEF Init, SeenLine
  <2> QED BY <2>1, <2>2, SameAssumption
          DEF TxnInv, OneWriter, WritesLocked, DeletedAlone, ViewsLinked, LinesHaveHeader
<1> QED BY <1>1, TxnInvStep, TxnTypeCorrect, PTL DEF Spec

\* However the statements of concurrent transactions interleave, no committed
\* line is without its header: the key-share lock of the foreign key
\* (journal_entry_lines, ON DELETE CASCADE) and the row locks are enough.
THEOREM ForeignKeyHolds == Spec => []LinesHaveHeader
<1>1. TxnInv => LinesHaveHeader
  BY DEF TxnInv
<1> QED BY <1>1, TxnInvHolds, PTL

-----------------------------------------------------------------------------
(* Postings.                                                               *)

\* A posting, pending or committed, is of an entry its transaction has seen.
PostingsKnown ==
    /\ GLKnowsEntry
    /\ \A t \in Tx : \A i \in 1 .. Len(wGL[t]) : SeenHeader(t)[wGL[t][i].je] # NoRow

\* A statement of one transaction on the headers: never back to no row.
LEMMA StatementKeepsSeen ==
    ASSUME TypeOK, NEW t \in Tx, Statement(t)
    PROVE  /\ UNCHANGED <<header, gl>>
           /\ \A u \in Tx \ {t} : wHeader'[u] = wHeader[u] /\ wGL'[u] = wGL[u]
           /\ \A j \in JE : wHeader'[t][j] # wHeader[t][j] =>
                  wHeader'[t][j] \in HeaderRows \cup {Gone}
           /\ \/ wGL' = wGL
              \/ \E j \in JE : /\ wHeader' = wHeader /\ SeenHeader(t)[j] # NoRow
                               /\ \E p \in Posting : p.je = j /\ wGL'[t] = Append(wGL[t], p)
<1> USE DEF committed
<1>1. ASSUME NEW j \in JE, NEW r \in HeaderRows,
             CreateJournalEntry(t, j, r) \/ UpdateHeader(t, j, r)
      PROVE  /\ UNCHANGED <<header, gl, wGL>>
             /\ \A u \in Tx \ {t} : wHeader'[u] = wHeader[u]
             /\ \A i \in JE : wHeader'[t][i] # wHeader[t][i] => wHeader'[t][i] \in HeaderRows
  BY <1>1 DEF CreateJournalEntry, UpdateHeader, TypeOK
<1>2. ASSUME NEW j \in JE, DeleteHeader(t, j)
      PROVE  /\ UNCHANGED <<header, gl, wGL>>
             /\ \A u \in Tx \ {t} : wHeader'[u] = wHeader[u]
             /\ \A i \in JE : wHeader'[t][i] # wHeader[t][i] => wHeader'[t][i] = Gone
  BY <1>2 DEF DeleteHeader, TypeOK
<1>3. ASSUME NEW j \in JE, PostJournalToGL(t, j)
      PROVE  /\ UNCHANGED <<header, gl, wHeader>>
             /\ \A u \in Tx \ {t} : wGL'[u] = wGL[u]
             /\ SeenHeader(t)[j] # NoRow
             /\ \E p \in Posting : p.je = j /\ wGL'[t] = Append(wGL[t], p)
  BY <1>3, SeenPosting DEF PostJournalToGL, HasHeader, TypeOK
<1>4. ASSUME NEW j \in JE, NEW n \in LineNo, NEW r \in LineRows, CreateJournalLine(t, j, n, r)
      PROVE  UNCHANGED <<header, gl, wHeader, wGL>>
  BY <1>4 DEF CreateJournalLine
<1>5. ASSUME NEW k \in LineKey,
             \/ \E r \in LineRows : UpdateLine(t, k, r)
             \/ \E m \in LineKey : MoveLine(t, k, m)
             \/ DeleteLine(t, k)
      PROVE  UNCHANGED <<header, gl, wHeader, wGL>>
  BY <1>5 DEF UpdateLine, MoveLine, DeleteLine
<1> QED BY <1>1, <1>2, <1>3, <1>4, <1>5 DEF Statement

\* No step but a rollback takes a header away from who sees it.
LEMMA SeenStays ==
    ASSUME TypeOK, [Next]_vars
    PROVE  /\ \A j \in JE : header[j] # NoRow => header'[j] # NoRow
           /\ \A u \in Tx, j \in JE :
                  SeenHeader(u)[j] # NoRow => SeenHeader(u)'[j] # NoRow \/ wGL'[u] = << >>
<1> USE SeenRows, SeenNext, MarkerAssumption, SameAssumption
<1>1. ASSUME NEW t \in Tx, Statement(t)
      PROVE  /\ \A j \in JE : header'[j] = header[j]
             /\ \A u \in Tx, j \in JE :
                    SeenHeader(u)[j] # NoRow => SeenHeader(u)'[j] # NoRow
  BY <1>1, StatementKeepsSeen
<1>2. ASSUME NEW t \in Tx, Commit(t)
      PROVE  /\ \A j \in JE : header[j] # NoRow => header'[j] # NoRow
             /\ \A u \in Tx, j \in JE :
                    SeenHeader(u)[j] # NoRow => SeenHeader(u)'[j] # NoRow
  <2>1. /\ \A j \in JE : header'[j] = SeenHeader(t)[j]
        /\ \A j \in JE : wHeader'[t][j] = Same
        /\ \A u \in Tx \ {t} : wHeader'[u] = wHeader[u]
    BY <1>2, ForgetEffect DEF Commit
  <2>2. \A u \in Tx, j \in JE : wHeader[u][j] # NoRow
    BY DEF TypeOK
  <2>3. \A j \in JE : header[j] # NoRow => header'[j] # NoRow
    BY <2>1, <2>2
  <2>4. \A j \in JE : SeenHeader(t)'[j] = SeenHeader(t)[j]
    BY <2>1
  <2> QED BY <2>1, <2>2, <2>3, <2>4
<1>3. ASSUME NEW t \in Tx, Rollback(t)
      PROVE  /\ header' = header /\ wGL'[t] = << >>
             /\ \A u \in Tx \ {t}, j \in JE : SeenHeader(u)'[j] = SeenHeader(u)[j]
  BY <1>3, ForgetEffect DEF Rollback, committed
<1>4. CASE UNCHANGED vars
  BY <1>4 DEF vars, SeenHeader
<1> QED BY <1>1, <1>2, <1>3, <1>4 DEF Next

LEMMA PostingsStep == TypeOK /\ TypeOK' /\ PostingsKnown /\ [Next]_vars => PostingsKnown'
<1> SUFFICES ASSUME TypeOK, TypeOK', PostingsKnown, [Next]_vars PROVE PostingsKnown'
  OBVIOUS
<1> DEFINE Pending(t) == \A i \in 1 .. Len(wGL[t]) : SeenHeader(t)[wGL[t][i].je] # NoRow
<1>1. /\ gl \in Seq(Posting) /\ gl' \in Seq(Posting)
      /\ \A t \in Tx : wGL[t] \in Seq(Posting) /\ wGL'[t] \in Seq(Posting)
      /\ \A p \in Posting : p.je \in JE
  BY DEF TypeOK, Posting
<1>2. ASSUME NEW t \in Tx, wGL'[t] = wGL[t] PROVE Pending(t)'
  BY <1>1, <1>2, SeenStays DEF PostingsKnown
<1>3. ASSUME gl' = gl PROVE GLKnowsEntry'
  BY <1>1, <1>3, SeenStays DEF PostingsKnown, GLKnowsEntry
<1>4. ASSUME NEW t \in Tx, wGL'[t] = << >> PROVE Pending(t)'
  BY <1>4
<1>5. ASSUME NEW t \in Tx, Statement(t) PROVE PostingsKnown'
  <2>1. gl' = gl /\ \A u \in Tx \ {t} : wGL'[u] = wGL[u]
    BY <1>5, StatementKeepsSeen
  <2>2. CASE wGL' = wGL
    BY <1>2, <1>3, <2>1, <2>2 DEF PostingsKnown
  <2>3. ASSUME NEW j \in JE, NEW p \in Posting, wHeader' = wHeader, header' = header,
               SeenHeader(t)[j] # NoRow, p.je = j, wGL'[t] = Append(wGL[t], p)
        PROVE  Pending(t)'
    <3>1. \A i \in JE : SeenHeader(t)'[i] = SeenHeader(t)[i]
      BY <2>3 DEF SeenHeader
    <3>2. \A i \in 1 .. Len(wGL'[t]) :
              wGL'[t][i] = p \/ (i \in 1 .. Len(wGL[t]) /\ wGL'[t][i] = wGL[t][i])
      BY <1>1, <2>3
    <3> QED BY <1>1, <2>3, <3>1, <3>2 DEF PostingsKnown
  <2> QED BY <1>2, <1>3, <1>5, <2>1, <2>2, <2>3, StatementKeepsSeen DEF PostingsKnown
<1>6. ASSUME NEW t \in Tx, Commit(t) PROVE PostingsKnown'
  <2>1. /\ \A j \in JE : header'[j] = SeenHeader(t)[j]
        /\ gl' = gl \o wGL[t] /\ wGL'[t] = << >>
        /\ \A u \in Tx \ {t} : wGL'[u] = wGL[u]
    BY <1>6, SeenRows, ForgetEffect DEF Commit
  <2>2. \A i \in 1 .. Len(gl') :
            \/ i \in 1 .. Len(gl) /\ gl'[i] = gl[i]
            \/ \E k \in 1 .. Len(wGL[t]) : gl'[i] = wGL[t][k]
    <3>1. ASSUME NEW i \in 1 .. Len(gl'), ~(i \in 1 .. Len(gl))
          PROVE  i - Len(gl) \in 1 .. Len(wGL[t]) /\ gl'[i] = wGL[t][i - Len(gl)]
      BY <1>1, <2>1, <3>1
    <3>2. ASSUME NEW i \in 1 .. Len(gl) PROVE gl'[i] = gl[i]
      BY <1>1, <2>1, <3>2
    <3> QED BY <3>1, <3>2
  <2>3. GLKnowsEntry'
    <3> SUFFICES ASSUME NEW i \in 1 .. Len(gl') PROVE header'[gl'[i].je] # NoRow
      BY DEF GLKnowsEntry
    <3>1. CASE i \in 1 .. Len(gl) /\ gl'[i] = gl[i]
      <4>1. gl[i].je \in JE /\ header[gl[i].je] # NoRow
        BY <1>1, <3>1 DEF PostingsKnown, GLKnowsEntry
      <4> QED BY <3>1, <4>1, SeenStays
    <3>2. ASSUME NEW k \in 1 .. Len(wGL[t]), gl'[i] = wGL[t][k]
          PROVE  header'[gl'[i].je] # NoRow
      <4>1. wGL[t][k].je \in JE /\ SeenHeader(t)[wGL[t][k].je] # NoRow
        BY <1>1 DEF PostingsKnown
      <4> QED BY <2>1, <3>2, <4>1
    <3> QED BY <2>2, <3>1, <3>2
  <2> QED BY <1>2, <1>4, <2>1, <2>3 DEF PostingsKnown
<1>7. ASSUME NEW t \in Tx, Rollback(t) PROVE PostingsKnown'
  <2>1. gl' = gl /\ wGL'[t] = << >> /\ \A u \in Tx \ {t} : wGL'[u] = wGL[u]
    BY <1>7, ForgetEffect DEF Rollback, committed
  <2> QED BY <1>2, <1>3, <1>4, <2>1 DEF PostingsKnown
<1>8. CASE UNCHANGED vars
  BY <1>2, <1>3, <1>8 DEF vars, PostingsKnown
<1> QED BY <1>5, <1>6, <1>7, <1>8 DEF Next

\* A posting reaches general_ledger no earlier than the entry it copies,
\* whichever transactions roll back around it.
THEOREM PostingsFollowEntries == Spec => []GLKnowsEntry
<1>1. Init => PostingsKnown
  BY DEF Init, PostingsKnown, GLKnowsEntry
<1>2. PostingsKnown => GLKnowsEntry
  BY DEF PostingsKnown
<1> QED BY <1>1, <1>2, PostingsStep, TxnTypeCorrect, PTL DEF Spec

-----------------------------------------------------------------------------
(* Refinement.                                                             *)

\* Each written header is a way forward from the committed one.
WritesForward ==
    \A t \in Tx, j \in JE :
        wHeader[t][j] # Same => Lifecycle!Forward(header[j], wHeader[t][j])

LEMMA WritesForwardStep == TypeOK' /\ TxnInv /\ WritesForward /\ [Next]_vars => WritesForward'
<1> SUFFICES ASSUME TypeOK', TxnInv, WritesForward, [Next]_vars PROVE WritesForward'
  OBVIOUS
<1> USE SeenRows, MarkerAssumption, SameAssumption
<1>1. ASSUME NEW t \in Tx, NEW j \in JE, NEW x \in HeaderRows \cup {Gone},
             wHeader' = [wHeader EXCEPT ![t][j] = x], header' = header,
             Lifecycle!Forward(header[j], x)
      PROVE  WritesForward'
  BY <1>1 DEF TxnInv, TypeOK, WritesForward
<1>2. ASSUME UNCHANGED <<header, wHeader>> PROVE WritesForward'
  BY <1>2 DEF WritesForward
<1>3. ASSUME NEW t \in Tx, NEW j \in JE, NEW r \in HeaderRows, CreateJournalEntry(t, j, r)
      PROVE  WritesForward'
  <2>1. header[j] = NoRow
    BY <1>3 DEF CreateJournalEntry, TxnInv, TypeOK
  <2> QED BY <1>1, <1>3, <2>1 DEF CreateJournalEntry, committed, Lifecycle!Forward
<1>4. ASSUME NEW t \in Tx, NEW j \in JE, NEW r \in HeaderRows, UpdateHeader(t, j, r)
      PROVE  WritesForward'
  <2>1. SeenHeader(t)[j] \in HeaderRows /\ SeenHeader(t)[j].status # "POSTED"
    BY <1>4 DEF UpdateHeader, AmendAllowed, Posted, HasHeader, TxnInv
  <2>2. Lifecycle!Forward(header[j], r)
    <3>1. CASE wHeader[t][j] = Same
      BY <2>1, <3>1 DEF TxnInv, Lifecycle!Forward, Lifecycle!Open
    <3>2. CASE wHeader[t][j] # Same
      <4>1. Lifecycle!Forward(header[j], SeenHeader(t)[j])
        BY <3>2 DEF WritesForward, TxnInv
      <4> QED BY <2>1, <4>1 DEF Lifecycle!Forward, Lifecycle!Open
    <3> QED BY <3>1, <3>2
  <2> QED BY <1>1, <1>4, <2>2 DEF UpdateHeader, committed
<1>5. ASSUME NEW t \in Tx, NEW j \in JE, DeleteHeader(t, j)
      PROVE  WritesForward'
  <2>1. SeenHeader(t)[j] \in HeaderRows
    BY <1>5 DEF DeleteHeader, HasHeader, TxnInv
  <2>2. Lifecycle!Forward(header[j], Gone)
    <3>1. CASE wHeader[t][j] = Same
      BY <2>1, <3>1 DEF TxnInv, Lifecycle!Forward
    <3>2. CASE wHeader[t][j] # Same
      <4>1. Lifecycle!Forward(header[j], SeenHeader(t)[j])
        BY <3>2 DEF WritesForward, TxnInv
      <4> QED BY <2>1, <4>1 DEF Lifecycle!Forward, Lifecycle!Open
    <3> QED BY <3>1, <3>2
  <2> QED BY <1>1, <1>5, <2>2 DEF DeleteHeader, committed
<1>6. ASSUME NEW t \in Tx, Commit(t) PROVE WritesForward'
  <2>1. /\ \A j \in JE : header'[j] = SeenHeader(t)[j] /\ wHeader'[t][j] = Same
        /\ \A u \in Tx \ {t} : wHeader'[u] = wHeader[u]
    BY <1>6, ForgetEffect DEF Commit, TxnInv
  <2> QED BY <2>1 DEF WritesForward, TxnInv, OneWriter
<1>7. ASSUME NEW t \in Tx, Rollback(t) PROVE WritesForward'
  <2>1. /\ header' = header
        /\ \A j \in JE : wHeader'[t][j] = Same
        /\ \A u \in Tx \ {t} : wHeader'[u] = wHeader[u]
    BY <1>7, ForgetEffect DEF Rollback, TxnInv, committed
  <2> QED BY <2>1 DEF WritesForward
<1>8. CASE UNCHANGED vars
  BY <1>2, <1>8 DEF vars
<1>9. ASSUME NEW t \in Tx, NEW j \in JE,
             \/ \E n \in LineNo, r \in LineRows : CreateJournalLine(t, j, n, r)
             \/ PostJournalToGL(t, j)
      PROVE  WritesForward'
  BY <1>2, <1>9 DEF CreateJournalLine, PostJournalToGL, committed
<1>10. ASSUME NEW t \in Tx, NEW k \in LineKey,
              \/ \E r \in LineRows : UpdateLine(t, k, r)
              \/ \E m \in LineKey : MoveLine(t, k, m)
              \/ DeleteLine(t, k)
       PROVE  WritesForward'
  BY <1>2, <1>10 DEF UpdateLine, MoveLine, DeleteLine, committed
<1>11. ASSUME NEW t \in Tx, Statement(t) PROVE WritesForward'
  BY <1>3, <1>4, <1>5, <1>9, <1>10, <1>11 DEF Statement
<1> QED BY <1>6, <1>7, <1>8, <1>11 DEF Next

\* The committed headers implement the life of journal entries: each commit
\* carries every header forward, POSTED ones unchanged until they are deleted.
THEOREM TxnImplementsLifecycle == Spec => HeaderLifecycle
<1>1. Init => WritesForward
  BY DEF Init, WritesForward
<1>2. Init => Lifecycle!Init
  BY DEF Init, Lifecycle!Init
<1>3. TypeOK' /\ TxnInv /\ WritesForward /\ [Next]_vars => [Lifecycle!Next]_header
  <2> SUFFICES ASSUME TypeOK', TxnInv, WritesForward, [Next]_vars
               PROVE  [Lifecycle!Next]_header
    OBVIOUS
  <2>1. ASSUME NEW t \in Tx, Commit(t) PROVE Lifecycle!Next
    <3>1. \A j \in JE : header'[j] = IF wHeader[t][j] = Same THEN header[j] ELSE wHeader[t][j]
      BY <2>1, SeenRows DEF Commit, TxnInv
    <3>2. \A j \in JE : Lifecycle!Forward(header[j], header'[j])
      BY <3>1 DEF WritesForward, Lifecycle!Forward
    <3> QED BY <3>2 DEF TypeOK, Lifecycle!Next
  <2>2. ASSUME NEW t \in Tx, Statement(t) PROVE header' = header
    BY <2>2, StatementKeepsSeen DEF TxnInv
  <2> QED BY <2>1, <2>2 DEF Next, Rollback, committed, vars
<1> QED
  BY <1>1, <1>2, <1>3, WritesForwardStep, TxnInvHolds, TxnTypeCorrect, PTL
  DEF Spec, HeaderLifecycle, Lifecycle!Spec
=============================================================================
