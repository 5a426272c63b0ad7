---------------------------- MODULE MCFinanceDB -----------------------------
(***************************************************************************)
(* Registry rows for FinanceDB: a tenant on one schema or, subscribed      *)
(* again under another name, on another, or without a schema.              *)
(***************************************************************************)
EXTENDS FinanceDB

CONSTANTS sA, sB

Row(s) == [active |-> TRUE, subscribed |-> TRUE, schema |-> s]
MCRows == {Row(sA), Row(sB), Row(NULL)}
=============================================================================
