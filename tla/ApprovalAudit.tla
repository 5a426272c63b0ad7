--------------------------- MODULE ApprovalAudit ---------------------------
(***************************************************************************)
(* The approval status of the AR and AP documents and its audit trail      *)
(* (db/schema.sql:501-983 for the columns, 985-1073 for approval_history   *)
(* and the trigger attached to seven document tables), with the document   *)
(* queries of db/queries/finance.sql:13-41 and 54-69.                      *)
(*                                                                         *)
(* Transactions run at READ COMMITTED.  Each keeps the documents it wrote  *)
(* and the history rows its updates inserted until it commits; a document  *)
(* it wrote is locked against other writers.  A failed statement is        *)
(* Rollback.                                                               *)
(***************************************************************************)
EXTENDS Integers, Sequences

CONSTANTS Doc,          \* documents, of any of the seven tables
          Tx,           \* transactions
          User,
          Label,        \* approval_status_lu: code -> description
          NULL,         \* SQL NULL
          NoRow,        \* no such document yet
          Gone,         \* a deleted document (its uuid does not come back)
          Same,         \* in a write set: this document is not written
          MaxHistory    \* bound on the history rows, committed and pending

Code == DOMAIN Label

\* The columns the trigger reads.
Row == [status : Code \cup {NULL},
        createdBy : User \cup {NULL},
        updatedBy : User \cup {NULL},    \* last_updated_by
        approvedBy : User \cup {NULL}]
\* The actions the trigger writes.
Action == {"Submitted", "Approved", "Returned", "Posted", "StatusChanged"}
Entry == [doc : Doc, from : Code \cup {NULL}, to : Code \cup {NULL},
          action : Action, by : User \cup {NULL}]

ASSUME LabelAssumption == \A c \in Code : Label[c] \in STRING
ASSUME MarkerAssumption ==
    /\ NULL \notin Code \cup User
    /\ {NoRow, Gone, Same} \cap Row = {}
    /\ NoRow # Gone /\ NoRow # Same /\ Gone # Same
ASSUME HistoryAssumption == MaxHistory \in Nat

VARIABLES doc,       \* committed documents
          history,   \* committed approval_history, in order of commit
          wDoc,      \* Tx -> documents written
          wHistory   \* Tx -> history rows inserted

vars == <<doc, history, wDoc, wHistory>>

TypeOK ==
    /\ doc \in [Doc -> Row \cup {NoRow, Gone}]
    /\ history \in Seq(Entry)
    /\ wDoc \in [Tx -> [Doc -> Row \cup {Gone, Same}]]
    /\ wHistory \in [Tx -> Seq(Entry)]

Init ==
    /\ doc = [d \in Doc |-> NoRow]
    /\ history = << >>
    /\ wDoc = [t \in Tx |-> [d \in Doc |-> Same]]
    /\ wHistory = [t \in Tx |-> << >>]

-----------------------------------------------------------------------------
Seen(t, d) == IF wDoc[t][d] = Same THEN doc[d] ELSE wDoc[t][d]
\* Mutant of Unlocked: writers of one document do not wait for each other.
NeverLocked(t, d) == TRUE
Exists(r) == r \notin {NoRow, Gone}
Unlocked(t, d) == \A u \in Tx \ {t} : wDoc[u][d] = Same

\* The action trg_approval_status_audit writes for a new status.
ActionFor(code) ==
    CASE code = "Pending Approval" -> "Submitted"
      [] code = "Approved" -> "Approved"
      [] code = "Returned" -> "Returned"
      [] code = "Posted" -> "Posted"
      [] OTHER -> "StatusChanged"

Coalesce(u, v) == IF u # NULL THEN u ELSE v
\* COALESCE(last_updated_by, approved_by, created_by).
ActorOf(r) == Coalesce(r.updatedBy, Coalesce(r.approvedBy, r.createdBy))

\* Mutant of Audit: rows only for the statuses the trigger names.
AuditNamed(d, old, new) ==
    IF old.status # new.status /\ ActionFor(new.status) # "StatusChanged"
    THEN <<[doc |-> d, from |-> old.status, to |-> new.status,
            action |-> ActionFor(new.status), by |-> ActorOf(new)]>>
    ELSE << >>

\* Mutant of Audit: the column list names the actor's column and the new
\* status' column in the wrong order.
AuditSwapped(d, old, new) ==
    IF old.status # new.status
    THEN <<[doc |-> d, from |-> old.status, to |-> ActorOf(new),
            action |-> ActionFor(new.status), by |-> new.status]>>
    ELSE << >>

\* The rows trg_approval_status_audit inserts for one updated document.
Audit(d, old, new) ==
    IF old.status # new.status
    THEN <<[doc |-> d, from |-> old.status, to |-> new.status,
            action |-> ActionFor(new.status), by |-> ActorOf(new)]>>
    ELSE << >>

-----------------------------------------------------------------------------
\* CreateInvoice and CreateReceipt: the trigger is not attached to INSERT.
Create(t, d, s, u) ==
    /\ Seen(t, d) = NoRow
    /\ Unlocked(t, d)
    /\ wDoc' = [wDoc EXCEPT ![t][d] = [status |-> s, createdBy |-> u,
                                       updatedBy |-> NULL, approvedBy |-> NULL]]
    /\ UNCHANGED <<doc, history, wHistory>>

\* Any UPDATE of the row, and the trigger that runs after it.
Write(t, d, new) ==
    /\ Exists(Seen(t, d))
    /\ Unlocked(t, d)
    /\ Len(history) + Len(wHistory[t]) < MaxHistory
    /\ wDoc' = [wDoc EXCEPT ![t][d] = new]
    /\ wHistory' = [wHistory EXCEPT ![t] = @ \o Audit(d, Seen(t, d), new)]
    /\ UNCHANGED <<doc, history>>

\* An UPDATE that stamps nobody, last_updated_by or approved_by.
Update(t, d, s, u) ==
    /\ Exists(Seen(t, d))
    /\ \/ Write(t, d, [Seen(t, d) EXCEPT !.status = s])
       \/ Write(t, d, [Seen(t, d) EXCEPT !.status = s, !.updatedBy = u])
       \/ Write(t, d, [Seen(t, d) EXCEPT !.status = s, !.approvedBy = u])

\* No foreign key ties approval_history to the document.
Delete(t, d) ==
    /\ Exists(Seen(t, d))
    /\ Unlocked(t, d)
    /\ wDoc' = [wDoc EXCEPT ![t][d] = Gone]
    /\ UNCHANGED <<doc, history, wHistory>>

Forget(t) ==
    /\ wDoc' = [wDoc EXCEPT ![t] = [d \in Doc |-> Same]]
    /\ wHistory' = [wHistory EXCEPT ![t] = << >>]

Commit(t) ==
    /\ doc' = [d \in Doc |-> Seen(t, d)]
    /\ history' = history \o wHistory[t]
    /\ Forget(t)

Rollback(t) ==
    /\ Forget(t)
    /\ UNCHANGED <<doc, history>>

\* UpdateInvoiceStatus sets modified_at and modified_by, columns ar_invoice
\* does not have (it has last_updated_at and last_updated_by): PostgreSQL
\* refuses the statement, whatever its parameters.
UpdateInvoiceStatus(t) == Rollback(t)

Statement(t) ==
    \E d \in Doc :
        \/ \E s \in Code \cup {NULL}, u \in User : Create(t, d, s, u) \/ Update(t, d, s, u)
        \/ Delete(t, d)

Next == \E t \in Tx :
            Statement(t) \/ UpdateInvoiceStatus(t) \/ Commit(t) \/ Rollback(t)

Spec == Init /\ [][Next]_vars

-----------------------------------------------------------------------------
(* Properties.                                                             *)

\* The trail of a document: its entries, by their positions among all.
TrailOf(rows, d) == {i \in DOMAIN rows : rows[i].doc = d}

StartsIn(rows, d, code) ==
    \A i \in TrailOf(rows, d) :
        (\A k \in TrailOf(rows, d) : i <= k) => rows[i].from = code
EndsIn(rows, d, code) ==
    \A i \in TrailOf(rows, d) :
        (\A k \in TrailOf(rows, d) : k <= i) => rows[i].to = code

\* Each entry of the document starts where the one before it ended.
Chained(rows, d) ==
    \A i, j \in TrailOf(rows, d) :
        i < j /\ (\A k \in TrailOf(rows, d) : k <= i \/ j <= k)
            => rows[i].to = rows[j].from

\* However transactions interleave, the trail of a document reads as one
\* chain of statuses that ends in the status the document has now.
TrailLinked ==
    \A d \in Doc :
        /\ Chained(history, d)
        /\ Exists(doc[d]) => EndsIn(history, d, doc[d].status)

\* The rows that a step adds to the history.
Added == SubSeq(history', Len(history) + 1, Len(history'))

\* No commit changes the status of a document without adding to its trail
\* entries that lead from the old status to the new one, the first change
\* after an INSERT the trigger never saw included.
NoSilentChange ==
    [][\A d \in Doc :
        Exists(doc[d]) /\ Exists(doc'[d]) =>
            /\ TrailOf(Added, d) = {} => doc'[d].status = doc[d].status
            /\ StartsIn(Added, d, doc[d].status)
            /\ Chained(Added, d)
            /\ EndsIn(Added, d, doc'[d].status)]_vars

\* A change to the status the lookup table describes as "Approved" is
\* recorded as the action Approved ("Submitted/Approved/Rejected/Cancelled/
\* StatusChanged", schema.sql:995).
ApprovalsNamed ==
    \A i \in 1..Len(history) :
        history[i].to # NULL /\ Label[history[i].to] = "Approved"
            => history[i].action = "Approved"
=============================================================================
