-------------------------- MODULE MCJournalLedger --------------------------
(***************************************************************************)
(* Inputs for model-checking JournalLedger: totals and amounts small       *)
(* enough to enumerate, with the rows the constraints must reject (an      *)
(* unbalanced header, a line with both sides or none, a negative amount)   *)
(* and the NULLs they let through.                                         *)
(***************************************************************************)
EXTENDS JournalLedger, TLC

HRow(d, c, s) == [debit |-> d, credit |-> c, status |-> s]
LRow(d, c, a) == [debit |-> d, credit |-> c, active |-> a]

MCStatus == {"CREATED", "POSTED"}

\* One entry, every shape of header and line.
WideHeaders == {HRow(d, c, s) : d, c \in {NULL, 0, 1, 2}, s \in MCStatus}
WideLines == {LRow(d, c, TRUE) : d, c \in {NULL, 0, 1}}
             \cup {LRow(2, 0, TRUE), LRow(0, -1, TRUE)}
             \cup {LRow(1, 0, FALSE), LRow(0, 1, FALSE)}

\* Several entries, the shapes that matter between them.
SlimHeaders == {HRow(NULL, NULL, s) : s \in MCStatus}
               \cup {HRow(n, n, s) : n \in {1, 2}, s \in MCStatus}
SlimLines == {LRow(1, 0, TRUE), LRow(0, 1, TRUE), LRow(1, 0, FALSE)}

EntryLineSymmetry == Permutations(JE) \cup Permutations(LineNo)
LineSymmetry == Permutations(LineNo)
=============================================================================
