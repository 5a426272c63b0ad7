-------------------------- MODULE ApprovalAuditProofs --------------------------
(***************************************************************************)
(* Proofs about ApprovalAudit, for any documents, users, transactions and  *)
(* codes.  The trail of a document is linked because at every moment the   *)
(* rows a transaction holds back lead from the committed status of the     *)
(* document to the status the transaction sees, and because only one       *)
(* transaction at a time holds back rows of a document.                    *)
(***************************************************************************)
EXTENDS ApprovalAudit, SequenceTheorems, TLAPS

\* The lock of a document has one holder.
OneWriter ==
    \A t, u \in Tx, d \in Doc : t # u => wDoc[t][d] = Same \/ wDoc[u][d] = Same

\* The committed trail of a document.
Linked(d) ==
    /\ Chained(history, d)
    /\ Exists(doc[d]) => EndsIn(history, d, doc[d].status)
    /\ doc[d] = NoRow => TrailOf(history, d) = {}

\* The rows of d that t holds back.
Pending(t, d) ==
    /\ wDoc[t][d] = Same => TrailOf(wHistory[t], d) = {}
    /\ wDoc[t][d] # Same => doc[d] # Gone
    /\ Chained(wHistory[t], d)
    /\ Exists(doc[d]) => StartsIn(wHistory[t], d, doc[d].status)
    /\ Exists(Seen(t, d)) => EndsIn(wHistory[t], d, Seen(t, d).status)
    /\ Exists(doc[d]) /\ Exists(Seen(t, d)) /\ TrailOf(wHistory[t], d) = {}
           => Seen(t, d).status = doc[d].status

AuditInv ==
    /\ TypeOK
    /\ OneWriter
    /\ \A d \in Doc : Linked(d)
    /\ \A t \in Tx, d \in Doc : Pending(t, d)

-----------------------------------------------------------------------------
(* Trails.                                                                 *)

LEMMA TrailPositions ==
    ASSUME NEW S, NEW rows \in Seq(S), NEW d, NEW i \in TrailOf(rows, d)
    PROVE  i \in 1 .. Len(rows)
BY DEF TrailOf

\* What is appended without rows of d changes no trail of d.
LEMMA JoinNothing ==
    ASSUME NEW S, NEW rows \in Seq(S), NEW more \in Seq(S), NEW d,
           TrailOf(more, d) = {}
    PROVE  /\ TrailOf(rows \o more, d) = TrailOf(rows, d)
           /\ Chained(rows, d) => Chained(rows \o more, d)
           /\ \A c : StartsIn(rows, d, c) => StartsIn(rows \o more, d, c)
           /\ \A c : EndsIn(rows, d, c) => EndsIn(rows \o more, d, c)
<1>1. TrailOf(rows \o more, d) = TrailOf(rows, d)
  BY DEF TrailOf
<1>2. \A i \in TrailOf(rows, d) : (rows \o more)[i] = rows[i]
  BY DEF TrailOf
<1> QED
  BY <1>1, <1>2 DEF Chained, StartsIn, EndsIn

\* Two chains make one if the second starts where the first, if there is one,
\* ends.
LEMMA JoinChains ==
    ASSUME NEW S, NEW rows \in Seq(S), NEW more \in Seq(S), NEW d, NEW code,
           Chained(rows, d), Chained(more, d),
           TrailOf(rows, d) # {} => EndsIn(rows, d, code) /\ StartsIn(more, d, code)
    PROVE  Chained(rows \o more, d)
<1> DEFINE joined == rows \o more
           Before == TrailOf(rows, d)
           After == TrailOf(more, d)
           n == Len(rows)
<1> SUFFICES ASSUME NEW i \in TrailOf(joined, d), NEW j \in TrailOf(joined, d), i < j,
                    \A k \in TrailOf(joined, d) : k <= i \/ j <= k
             PROVE  joined[i].to = joined[j].from
  BY DEF Chained
<1>1. /\ Before \subseteq 1 .. n /\ After \subseteq 1 .. Len(more)
      /\ n \in Nat /\ Len(more) \in Nat
  BY TrailPositions
<1>2. /\ \A k \in Before : k \in TrailOf(joined, d) /\ joined[k] = rows[k]
      /\ \A k \in After : k + n \in TrailOf(joined, d) /\ joined[k + n] = more[k]
  BY DEF TrailOf
<1>3. /\ i \in Before \/ i - n \in After
      /\ j \in Before \/ j - n \in After
  BY DEF TrailOf
<1>4. i \in Int /\ j \in Int
  BY DEF TrailOf
<1> HIDE DEF joined, Before, After, n
<1>5. CASE i \in Before /\ j \in Before
  <2>1. \A k \in Before : k <= i \/ j <= k
    BY <1>2
  <2> QED
    BY <1>2, <1>5, <2>1 DEF Chained, Before
<1>6. CASE i - n \in After /\ j - n \in After
  <2>1. /\ i = (i - n) + n /\ j = (j - n) + n
        /\ i - n < j - n
    BY <1>1, <1>4
  <2>2. \A k \in After : k <= i - n \/ j - n <= k
    BY <1>1, <1>2, <1>4
  <2>3. more[i - n].to = more[j - n].from
    BY <1>6, <2>1, <2>2 DEF Chained, After
  <2> QED
    BY <1>2, <1>6, <2>1, <2>3
<1>7. CASE i \in Before /\ j - n \in After
  <2>1. j = (j - n) + n
    BY <1>1, <1>4
  <2>2. \A k \in Before : k <= i
    BY <1>1, <1>2, <1>4, <1>7
  <2>3. \A k \in After : j - n <= k
    BY <1>1, <1>2, <1>4, <1>7
  <2>4. rows[i].to = code /\ more[j - n].from = code
    BY <1>7, <2>2, <2>3 DEF EndsIn, StartsIn, Before, After
  <2> QED
    BY <1>2, <1>7, <2>1, <2>4
<1>8. CASE i - n \in After /\ j \in Before
  BY <1>1, <1>4, <1>8
<1> QED
  BY <1>3, <1>5, <1>6, <1>7, <1>8

\* The joined trail starts where the first part starts and ends where the
\* second part ends, if they have rows of d.
LEMMA JoinEnds ==
    ASSUME NEW S, NEW rows \in Seq(S), NEW more \in Seq(S), NEW d, NEW code
    PROVE  /\ TrailOf(rows, d) # {} /\ StartsIn(rows, d, code)
                  => StartsIn(rows \o more, d, code)
           /\ TrailOf(rows, d) = {} /\ StartsIn(more, d, code)
                  => StartsIn(rows \o more, d, code)
           /\ TrailOf(more, d) # {} /\ EndsIn(more, d, code)
                  => EndsIn(rows \o more, d, code)
<1> DEFINE joined == rows \o more
           Before == TrailOf(rows, d)
           After == TrailOf(more, d)
           n == Len(rows)
<1>1. /\ Before \subseteq 1 .. n /\ After \subseteq 1 .. Len(more)
      /\ n \in Nat /\ Len(more) \in Nat
  BY TrailPositions
<1>2. /\ \A k \in Before : k \in TrailOf(joined, d) /\ joined[k] = rows[k]
      /\ \A k \in After : k + n \in TrailOf(joined, d) /\ joined[k + n] = more[k]
      /\ \A k \in TrailOf(joined, d) : k \in Int /\ (k \in Before \/ k - n \in After)
  BY DEF TrailOf
<1> HIDE DEF joined, Before, After, n
<1>3. ASSUME Before # {}, StartsIn(rows, d, code) PROVE StartsIn(joined, d, code)
  <2> SUFFICES ASSUME NEW i \in TrailOf(joined, d),
                      \A k \in TrailOf(joined, d) : i <= k
               PROVE  joined[i].from = code
    BY DEF StartsIn
  <2>1. i \in Before
    BY <1>1, <1>2, <1>3
  <2>2. \A k \in Before : i <= k
    BY <1>2
  <2> QED
    BY <1>2, <1>3, <2>1, <2>2 DEF StartsIn, Before
<1>4. ASSUME Before = {}, StartsIn(more, d, code) PROVE StartsIn(joined, d, code)
  <2> SUFFICES ASSUME NEW i \in TrailOf(joined, d),
                      \A k \in TrailOf(joined, d) : i <= k
               PROVE  joined[i].from = code
    BY DEF StartsIn
  <2>1. i - n \in After /\ i - n \in Int
    BY <1>1, <1>2, <1>4
  <2>2. i = (i - n) + n /\ \A k \in After : i - n <= k
    BY <1>1, <1>2, <2>1
  <2> QED
    BY <1>2, <1>4, <2>1, <2>2 DEF StartsIn, After
<1>5. ASSUME After # {}, EndsIn(more, d, code) PROVE EndsIn(joined, d, code)
  <2> SUFFICES ASSUME NEW i \in TrailOf(joined, d),
                      \A k \in TrailOf(joined, d) : k <= i
               PROVE  joined[i].to = code
    BY DEF EndsIn
  <2>1. i - n \in After /\ i - n \in Int
    <3>1. PICK k \in After : TRUE
      BY <1>5
    <3>2. k \in 1 .. Len(more) /\ k + n \in TrailOf(joined, d)
      BY <1>1, <1>2
    <3>3. k + n <= i
      BY <3>2
    <3>4. i \in Int /\ i \notin 1 .. n
      BY <1>1, <1>2, <3>2, <3>3
    <3> QED
      BY <1>1, <1>2, <3>4
  <2>2. i = (i - n) + n /\ \A k \in After : k <= i - n
    BY <1>1, <1>2, <2>1
  <2> QED
    BY <1>2, <1>5, <2>1, <2>2 DEF EndsIn, After
<1> QED
  BY <1>3, <1>4, <1>5 DEF joined, Before, After

-----------------------------------------------------------------------------
(* What the trigger inserts.                                               *)

LEMMA AuditRow ==
    ASSUME NEW d \in Doc, NEW old \in Row, NEW new \in Row
    PROVE  Audit(d, old, new) \in Seq(Entry)
<1> DEFINE row == [doc |-> d, from |-> old.status, to |-> new.status,
                   action |-> ActionFor(new.status), by |-> ActorOf(new)]
<1>1. ActorOf(new) \in User \cup {NULL}
  BY DEF ActorOf, Coalesce, Row
<1>2. ActionFor(new.status) \in Action
  BY DEF ActionFor, Action
<1>3. old.status \in Code \cup {NULL} /\ new.status \in Code \cup {NULL}
  BY DEF Row
<1>4. row \in Entry
  BY <1>1, <1>2, <1>3 DEF Entry
<1> HIDE DEF row
<1>5. <<row>> \in Seq(Entry) /\ << >> \in Seq(Entry)
  BY <1>4
<1> QED
  BY <1>5 DEF Audit, row

\* The row leads from the old status to the new one.
LEMMA AuditLeads ==
    ASSUME NEW d \in Doc, NEW old \in Row, NEW new \in Row
    PROVE  LET rows == Audit(d, old, new) IN
           /\ Chained(rows, d)
           /\ StartsIn(rows, d, old.status)
           /\ EndsIn(rows, d, new.status)
           /\ TrailOf(rows, d) = {} => new.status = old.status
           /\ \A e \in Doc \ {d} : TrailOf(rows, e) = {}
BY DEF Audit, Chained, StartsIn, EndsIn, TrailOf

-----------------------------------------------------------------------------
(* The steps.                                                              *)

\* A statement on d of t leaves what it does not write as it was.
LEMMA OtherPending ==
    ASSUME NEW t \in Tx, NEW d \in Doc, Pending(t, d), UNCHANGED doc,
           wDoc'[t][d] = wDoc[t][d], Chained(wHistory[t], d)
               => Chained(wHistory'[t], d),
           TrailOf(wHistory'[t], d) = TrailOf(wHistory[t], d),
           \A c : StartsIn(wHistory[t], d, c) => StartsIn(wHistory'[t], d, c),
           \A c : EndsIn(wHistory[t], d, c) => EndsIn(wHistory'[t], d, c)
    PROVE  Pending(t, d)'
BY DEF Pending, Seen

\* The new state of a locked document keeps the lock.
LEMMA StaysLocked ==
    ASSUME AuditInv, NEW t \in Tx, NEW d \in Doc, Unlocked(t, d),
           NEW new, wDoc' = [wDoc EXCEPT ![t][d] = new]
    PROVE  OneWriter'
<1>1. \A u \in Tx, e \in Doc : wDoc'[u][e] = IF u = t /\ e = d THEN new ELSE wDoc[u][e]
  BY DEF AuditInv, TypeOK
<1> QED
  BY <1>1 DEF AuditInv, OneWriter, Unlocked

LEMMA CreateAudited ==
    ASSUME AuditInv, NEW t \in Tx, NEW d \in Doc, NEW s \in Code \cup {NULL},
           NEW u \in User, Create(t, d, s, u)
    PROVE  AuditInv'
<1> DEFINE new == [status |-> s, createdBy |-> u, updatedBy |-> NULL, approvedBy |-> NULL]
<1> UNCHANGED <<doc, history, wHistory>>
  BY DEF Create
<1>1. new \in Row
  BY DEF Row
<1> HIDE DEF new
<1>2. /\ Unlocked(t, d) /\ Seen(t, d) = NoRow
      /\ wDoc' = [wDoc EXCEPT ![t][d] = new]
  BY DEF Create, new
<1>3. TypeOK'
  BY <1>1, <1>2 DEF AuditInv, TypeOK
<1>4. /\ wDoc[t][d] = Same /\ doc[d] = NoRow
      /\ \A v \in Tx, e \in Doc : wDoc'[v][e] = IF v = t /\ e = d THEN new ELSE wDoc[v][e]
  BY <1>2, MarkerAssumption DEF AuditInv, TypeOK, Seen
<1>5. ASSUME NEW v \in Tx, NEW e \in Doc PROVE Pending(v, e)'
  <2>1. CASE v = t /\ e = d
    <3>1. TrailOf(wHistory[t], d) = {}
      BY <1>4 DEF AuditInv, Pending
    <3>2. ~Exists(doc[d]) /\ doc[d] # Gone
      BY <1>4, MarkerAssumption DEF Exists
    <3>3. wDoc'[t][d] # Same
      BY <1>1, <1>4, MarkerAssumption
    <3> QED
      BY <2>1, <3>1, <3>2, <3>3 DEF Pending, Chained, StartsIn, EndsIn
  <2>2. CASE ~(v = t /\ e = d)
    BY <1>4, <2>2, OtherPending DEF AuditInv
  <2> QED
    BY <2>1, <2>2
<1>6. \A e \in Doc : Linked(e)'
  BY DEF AuditInv, Linked
<1> QED
  BY <1>2, <1>3, <1>5, <1>6, StaysLocked DEF AuditInv

LEMMA DeleteAudited ==
    ASSUME AuditInv, NEW t \in Tx, NEW d \in Doc, Delete(t, d)
    PROVE  AuditInv'
<1> UNCHANGED <<doc, history, wHistory>>
  BY DEF Delete
<1>1. /\ Unlocked(t, d) /\ Exists(Seen(t, d))
      /\ wDoc' = [wDoc EXCEPT ![t][d] = Gone]
  BY DEF Delete
<1>2. TypeOK'
  BY <1>1 DEF AuditInv, TypeOK
<1>3. \A v \in Tx, e \in Doc : wDoc'[v][e] = IF v = t /\ e = d THEN Gone ELSE wDoc[v][e]
  BY <1>1 DEF AuditInv, TypeOK
<1>4. ASSUME NEW v \in Tx, NEW e \in Doc PROVE Pending(v, e)'
  <2>1. CASE v = t /\ e = d
    <3>1. Pending(t, d)
      BY DEF AuditInv
    <3>2. wDoc'[t][d] = Gone /\ Gone # Same
      BY <1>3, MarkerAssumption
    <3>3. doc[d] # Gone
      BY <1>1, <3>1 DEF Pending, Seen, Exists
    <3> QED
      BY <2>1, <3>1, <3>2, <3>3 DEF Pending, Seen, Exists
  <2>2. CASE ~(v = t /\ e = d)
    BY <1>3, <2>2, OtherPending DEF AuditInv
  <2> QED
    BY <2>1, <2>2
<1>5. \A e \in Doc : Linked(e)'
  BY DEF AuditInv, Linked
<1> QED
  BY <1>1, <1>2, <1>4, <1>5, StaysLocked DEF AuditInv

\* The row of the trigger starts where the rows held back so far end, or where
\* the committed status is if there are none.
LEMMA WriteAudited ==
    ASSUME AuditInv, NEW t \in Tx, NEW d \in Doc, NEW new \in Row, Write(t, d, new)
    PROVE  AuditInv'
<1> DEFINE old == Seen(t, d)
           held == wHistory[t]
           rows == Audit(d, old, new)
<1> UNCHANGED <<doc, history>>
  BY DEF Write
<1>1. /\ Unlocked(t, d) /\ Exists(old)
      /\ wDoc' = [wDoc EXCEPT ![t][d] = new]
      /\ wHistory' = [wHistory EXCEPT ![t] = held \o rows]
  BY DEF Write
<1>2. old \in Row
  BY <1>1 DEF AuditInv, TypeOK, Seen, Exists
<1>3. held \in Seq(Entry) /\ rows \in Seq(Entry)
  BY <1>2, AuditRow DEF AuditInv, TypeOK
<1>4. /\ Chained(rows, d)
      /\ StartsIn(rows, d, old.status)
      /\ EndsIn(rows, d, new.status)
      /\ TrailOf(rows, d) = {} => new.status = old.status
      /\ \A e \in Doc \ {d} : TrailOf(rows, e) = {}
  BY <1>2, AuditLeads
<1> HIDE DEF rows
<1>5. TypeOK'
  <2>1. held \o rows \in Seq(Entry)
    BY <1>3
  <2> QED
    BY <1>1, <2>1 DEF AuditInv, TypeOK
<1>6. /\ \A v \in Tx, e \in Doc : wDoc'[v][e] = IF v = t /\ e = d THEN new ELSE wDoc[v][e]
      /\ \A v \in Tx : wHistory'[v] = IF v = t THEN held \o rows ELSE wHistory[v]
  BY <1>1 DEF AuditInv, TypeOK
<1>7. Pending(t, d)'
  <2>1. Pending(t, d)
    BY DEF AuditInv
  <2>2. new # Same /\ Exists(new) /\ Seen(t, d)' = new
    BY <1>6, MarkerAssumption DEF Seen, Exists
  <2>3. Chained(held \o rows, d)
    BY <1>1, <1>3, <1>4, <2>1, JoinChains DEF Pending
  <2>4. Exists(doc[d]) => StartsIn(held \o rows, d, doc[d].status)
    <3> SUFFICES ASSUME Exists(doc[d]) PROVE StartsIn(held \o rows, d, doc[d].status)
      OBVIOUS
    <3>1. CASE TrailOf(held, d) = {}
      <4>1. StartsIn(rows, d, doc[d].status)
        BY <1>1, <1>4, <2>1, <3>1 DEF Pending
      <4> QED
        BY <1>3, <3>1, <4>1, JoinEnds
    <3>2. CASE TrailOf(held, d) # {}
      BY <1>3, <2>1, <3>2, JoinEnds DEF Pending
    <3> QED
      BY <3>1, <3>2
  <2>5. EndsIn(held \o rows, d, new.status)
    <3>1. CASE TrailOf(rows, d) = {}
      BY <1>1, <1>3, <1>4, <2>1, <3>1, JoinNothing DEF Pending
    <3>2. CASE TrailOf(rows, d) # {}
      BY <1>3, <1>4, <3>2, JoinEnds
    <3> QED
      BY <3>1, <3>2
  <2>6. Exists(doc[d]) /\ TrailOf(held \o rows, d) = {} => new.status = doc[d].status
    <3> SUFFICES ASSUME Exists(doc[d]), TrailOf(held \o rows, d) = {}
                 PROVE  new.status = doc[d].status
      OBVIOUS
    <3>1. /\ \A i \in TrailOf(held, d) : i \in TrailOf(held \o rows, d)
          /\ \A i \in TrailOf(rows, d) : i + Len(held) \in TrailOf(held \o rows, d)
      BY <1>3 DEF TrailOf
    <3> QED
      BY <1>1, <1>4, <2>1, <3>1 DEF Pending
  <2>7. doc[d] # Gone
    BY <1>1, <2>1 DEF Pending, Seen, Exists
  <2> QED
    BY <1>6, <2>2, <2>3, <2>4, <2>5, <2>6, <2>7 DEF Pending
<1>8. ASSUME NEW v \in Tx, NEW e \in Doc, ~(v = t /\ e = d) PROVE Pending(v, e)'
  <2>1. Pending(v, e) /\ wDoc'[v][e] = wDoc[v][e]
    BY <1>6, <1>8 DEF AuditInv
  <2>2. CASE v = t
    BY <1>3, <1>4, <1>6, <1>8, <2>1, <2>2, JoinNothing, OtherPending
  <2>3. CASE v # t
    BY <1>6, <2>1, <2>3, OtherPending
  <2> QED
    BY <2>2, <2>3
<1>9. \A e \in Doc : Linked(e)'
  BY DEF AuditInv, Linked
<1> QED
  BY <1>1, <1>5, <1>7, <1>8, <1>9, StaysLocked DEF AuditInv

\* The rows of the transaction that commits continue the committed trails;
\* every other transaction holds back rows of other documents only.
LEMMA CommitAudited ==
    ASSUME AuditInv, NEW t \in Tx, Commit(t)
    PROVE  AuditInv'
<1> DEFINE held == wHistory[t]
<1>1. /\ doc' = [d \in Doc |-> Seen(t, d)]
      /\ history' = history \o held
      /\ wDoc' = [wDoc EXCEPT ![t] = [d \in Doc |-> Same]]
      /\ wHistory' = [wHistory EXCEPT ![t] = << >>]
  BY DEF Commit, Forget
<1>2. held \in Seq(Entry) /\ history \in Seq(Entry)
  BY DEF AuditInv, TypeOK
<1>3. /\ \A v \in Tx, e \in Doc : wDoc'[v][e] = IF v = t THEN Same ELSE wDoc[v][e]
      /\ \A v \in Tx : wHistory'[v] = IF v = t THEN << >> ELSE wHistory[v]
  BY <1>1 DEF AuditInv, TypeOK
<1>4. TypeOK'
  <2>1. \A d \in Doc : Seen(t, d) \in Row \cup {NoRow, Gone}
    BY DEF AuditInv, TypeOK, Seen
  <2>2. history \o held \in Seq(Entry)
    BY <1>2
  <2>3. << >> \in Seq(Entry)
    OBVIOUS
  <2> QED
    BY <1>1, <2>1, <2>2, <2>3 DEF AuditInv, TypeOK
<1>5. OneWriter'
  BY <1>3 DEF AuditInv, OneWriter
<1>6. ASSUME NEW d \in Doc PROVE Linked(d)'
  <2>1. Linked(d) /\ Pending(t, d) /\ doc'[d] = Seen(t, d)
    BY <1>1 DEF AuditInv
  <2>2. CASE TrailOf(held, d) = {}
    <3>1. /\ TrailOf(history', d) = TrailOf(history, d)
          /\ Chained(history', d)
          /\ \A c : EndsIn(history, d, c) => EndsIn(history', d, c)
      BY <1>1, <1>2, <2>1, <2>2, JoinNothing DEF Linked
    <3>2. doc'[d] = NoRow => doc[d] = NoRow
      BY <2>1, MarkerAssumption DEF AuditInv, TypeOK, Seen
    <3>3. Exists(doc'[d]) => EndsIn(history', d, doc'[d].status)
      <4>1. CASE Exists(doc[d])
        BY <2>1, <2>2, <3>1, <4>1 DEF Linked, Pending
      <4>2. CASE doc[d] = NoRow
        BY <2>1, <3>1, <4>2 DEF Linked, EndsIn
      <4>3. CASE doc[d] = Gone
        BY <2>1, <4>3 DEF Pending, Seen, Exists
      <4> QED
        BY <4>1, <4>2, <4>3 DEF Exists
    <3> QED
      BY <2>1, <3>1, <3>2, <3>3 DEF Linked
  <2>3. CASE TrailOf(held, d) # {}
    <3>1. wDoc[t][d] # Same /\ doc[d] # Gone /\ doc'[d] # NoRow
      BY <2>1, <2>3, MarkerAssumption DEF Pending, Seen, AuditInv, TypeOK
    <3>2. Chained(history', d)
      <4>1. CASE Exists(doc[d])
        BY <1>1, <1>2, <2>1, <4>1, JoinChains DEF Linked, Pending
      <4>2. CASE doc[d] = NoRow
        BY <1>1, <1>2, <2>1, <4>2, JoinChains DEF Linked, Pending
      <4> QED
        BY <3>1, <4>1, <4>2 DEF Exists
    <3>3. Exists(doc'[d]) => EndsIn(history', d, doc'[d].status)
      BY <1>1, <1>2, <2>1, <2>3, JoinEnds DEF Pending
    <3> QED
      BY <3>1, <3>2, <3>3 DEF Linked
  <2> QED
    BY <2>2, <2>3
<1>7. ASSUME NEW v \in Tx, NEW d \in Doc PROVE Pending(v, d)'
  <2>1. CASE wDoc'[v][d] = Same
    <3>1. TrailOf(wHistory'[v], d) = {} /\ (Seen(v, d) = doc[d])'
      BY <1>3, <2>1 DEF AuditInv, Pending, TrailOf, Seen
    <3> QED
      BY <2>1, <3>1 DEF Pending, Chained, StartsIn, EndsIn
  <2>2. CASE wDoc'[v][d] # Same
    <3>1. v # t /\ wDoc'[v][d] = wDoc[v][d] /\ wHistory'[v] = wHistory[v]
      BY <1>3, <2>2
    <3>2. wDoc[t][d] = Same
      BY <2>2, <3>1 DEF AuditInv, OneWriter
    <3>3. doc'[d] = doc[d]
      BY <1>1, <3>2 DEF Seen
    <3> QED
      BY <3>1, <3>3 DEF AuditInv, Pending, Seen
  <2> QED
    BY <2>1, <2>2
<1> QED
  BY <1>4, <1>5, <1>6, <1>7 DEF AuditInv

LEMMA RollbackAudited ==
    ASSUME AuditInv, NEW t \in Tx, Rollback(t)
    PROVE  AuditInv'
<1> UNCHANGED <<doc, history>>
  BY DEF Rollback
<1>1. /\ \A v \in Tx, e \in Doc : wDoc'[v][e] = IF v = t THEN Same ELSE wDoc[v][e]
      /\ \A v \in Tx : wHistory'[v] = IF v = t THEN << >> ELSE wHistory[v]
  BY DEF AuditInv, TypeOK, Rollback, Forget
<1>2. TypeOK'
  <2>1. << >> \in Seq(Entry)
    OBVIOUS
  <2> QED
    BY <2>1 DEF AuditInv, TypeOK, Rollback, Forget
<1>3. OneWriter'
  BY <1>1 DEF AuditInv, OneWriter
<1>4. \A d \in Doc : Linked(d)'
  BY DEF AuditInv, Linked
<1>5. ASSUME NEW v \in Tx, NEW d \in Doc PROVE Pending(v, d)'
  <2>1. CASE v = t
    <3>1. TrailOf(wHistory'[v], d) = {} /\ (Seen(v, d) = doc[d])'
      BY <1>1, <2>1 DEF TrailOf, Seen
    <3> QED
      BY <1>1, <2>1, <3>1 DEF Pending, Chained, StartsIn, EndsIn
  <2>2. CASE v # t
    BY <1>1, <2>2, OtherPending DEF AuditInv
  <2> QED
    BY <2>1, <2>2
<1> QED
  BY <1>2, <1>3, <1>4, <1>5 DEF AuditInv

-----------------------------------------------------------------------------
LEMMA AuditInvHolds == Spec => []AuditInv
<1>1. Init => AuditInv
  <2> SUFFICES ASSUME Init PROVE AuditInv
    OBVIOUS
  <2>1. TypeOK
    BY DEF Init, TypeOK
  <2>2. OneWriter
    BY DEF Init, OneWriter
  <2>3. \A d \in Doc : TrailOf(<< >>, d) = {}
    BY DEF TrailOf
  <2>4. \A d \in Doc : Linked(d)
    BY <2>3 DEF Init, Linked, Chained, EndsIn, Exists
  <2>5. \A t \in Tx, d \in Doc : Pending(t, d)
    BY <2>3 DEF Init, Pending, Chained, StartsIn, EndsIn, Seen, Exists
  <2> QED
    BY <2>1, <2>2, <2>4, <2>5 DEF AuditInv
<1>2. AuditInv /\ [Next]_vars => AuditInv'
  <2> SUFFICES ASSUME AuditInv, [Next]_vars PROVE AuditInv'
    OBVIOUS
  <2>1. ASSUME NEW t \in Tx, NEW d \in Doc, NEW s \in Code \cup {NULL}, NEW u \in User,
               Update(t, d, s, u)
        PROVE  AuditInv'
    <3>1. Seen(t, d) \in Row
      BY <2>1 DEF Update, Exists, Seen, AuditInv, TypeOK
    <3>2. /\ [Seen(t, d) EXCEPT !.status = s] \in Row
          /\ [Seen(t, d) EXCEPT !.status = s, !.updatedBy = u] \in Row
          /\ [Seen(t, d) EXCEPT !.status = s, !.approvedBy = u] \in Row
      BY <3>1 DEF Row
    <3> QED
      BY <2>1, <3>2, WriteAudited DEF Update
  <2>2. CASE UNCHANGED vars
    BY <2>2 DEF vars, AuditInv, TypeOK, OneWriter, Linked, Pending, Seen
  <2> QED
    BY <2>1, <2>2, CreateAudited, DeleteAudited, CommitAudited, RollbackAudited
       DEF Next, Statement, UpdateInvoiceStatus
<1> QED
  BY <1>1, <1>2, PTL DEF Spec

\* Every step keeps the documents and the rows of approval_history well-typed.
THEOREM AuditTypeCorrect == Spec => []TypeOK
<1>1. AuditInv => TypeOK
  BY DEF AuditInv
<1> QED
  BY <1>1, AuditInvHolds, PTL

\* For any number of documents and transactions, the trail of each document
\* is one chain of statuses that ends in its status.
THEOREM TrailsAreLinked == Spec => []TrailLinked
<1>1. AuditInv => TrailLinked
  BY DEF AuditInv, Linked, TrailLinked
<1> QED
  BY <1>1, AuditInvHolds, PTL

\* A change of a status and the entries that record it are committed
\* together.
THEOREM ChangesAreRecorded == Spec => NoSilentChange
<1>1. AuditInv /\ [Next]_vars =>
        \A d \in Doc : Exists(doc[d]) /\ Exists(doc'[d]) =>
            /\ TrailOf(Added, d) = {} => doc'[d].status = doc[d].status
            /\ StartsIn(Added, d, doc[d].status)
            /\ Chained(Added, d)
            /\ EndsIn(Added, d, doc'[d].status)
  <2> SUFFICES ASSUME AuditInv, [Next]_vars,
                      NEW d \in Doc, Exists(doc[d]), Exists(doc'[d])
               PROVE  /\ TrailOf(Added, d) = {} => doc'[d].status = doc[d].status
                      /\ StartsIn(Added, d, doc[d].status)
                      /\ Chained(Added, d)
                      /\ EndsIn(Added, d, doc'[d].status)
    OBVIOUS
  <2>1. ASSUME NEW t \in Tx, Commit(t)
        PROVE  /\ TrailOf(Added, d) = {} => doc'[d].status = doc[d].status
               /\ StartsIn(Added, d, doc[d].status)
               /\ Chained(Added, d)
               /\ EndsIn(Added, d, doc'[d].status)
    <3>1. /\ history \in Seq(Entry) /\ wHistory[t] \in Seq(Entry)
          /\ history' = history \o wHistory[t]
      BY <2>1 DEF AuditInv, TypeOK, Commit
    <3>2. Added = wHistory[t]
      <4>1. Len(history') = Len(history) + Len(wHistory[t])
        BY <3>1
      <4>2. /\ Added \in Seq(Entry) /\ Len(Added) = Len(wHistory[t])
            /\ \A i \in 1 .. Len(wHistory[t]) : Added[i] = wHistory[t][i]
        BY <3>1, <4>1 DEF Added
      <4> QED
        BY <3>1, <4>2, SeqEqual
    <3>3. Pending(t, d) /\ doc'[d] = Seen(t, d)
      BY <2>1 DEF AuditInv, Commit
    <3> QED
      BY <3>2, <3>3 DEF Pending
  <2>2. CASE UNCHANGED <<doc, history>>
    <3>1. Added = << >>
      BY <2>2 DEF Added, AuditInv, TypeOK
    <3> QED
      BY <2>2, <3>1 DEF TrailOf, StartsIn, Chained, EndsIn
  <2>3. (\E t \in Tx : Commit(t)) \/ UNCHANGED <<doc, history>>
    <3>1. ASSUME NEW t \in Tx, Statement(t) PROVE UNCHANGED <<doc, history>>
      <4>1. ASSUME NEW e \in Doc, NEW s \in Code \cup {NULL}, NEW u \in User, Update(t, e, s, u)
            PROVE  UNCHANGED <<doc, history>>
        BY <4>1 DEF Update, Write
      <4> QED
        BY <3>1, <4>1 DEF Statement, Create, Delete
    <3> QED
      BY <3>1 DEF Next, UpdateInvoiceStatus, Rollback, vars
  <2> QED
    BY <2>1, <2>2, <2>3
<1> QED
  BY <1>1, AuditInvHolds, PTL DEF Spec, NoSilentChange
=============================================================================
