--------------------------- MODULE EntryLifecycle --------------------------
(***************************************************************************)
(* What journal_entry_header promises, whoever writes to it and however    *)
(* their transactions interleave: an entry is created once, may be amended *)
(* while it is not POSTED, is immutable once it is, and may be deleted     *)
(* (db/schema.sql:260-294 and 336-351).                                    *)
(*                                                                         *)
(* A step is one commit, so it may carry several entries forward at once,  *)
(* and each of them through several statements.                            *)
(***************************************************************************)
CONSTANTS JE, HeaderRows, NoRow, Gone

VARIABLE entry

Open(e) == e \in HeaderRows /\ e.status # "POSTED"

\* From what one commit finds to what it leaves.
Forward(old, new) ==
    \/ new = old
    \/ old = NoRow
    \/ Open(old) /\ new # NoRow
    \/ old \in HeaderRows /\ new = Gone

Init == entry = [j \in JE |-> NoRow]

Next ==
    /\ entry' \in [JE -> HeaderRows \cup {NoRow, Gone}]
    /\ \A j \in JE : Forward(entry[j], entry'[j])

Spec == Init /\ [][Next]_entry
=============================================================================
