-------------------------- MODULE MCApprovalAudit --------------------------
(***************************************************************************)
(* Two settings of the lookup table for ApprovalAudit: the codes the       *)
(* schema's comment documents (db/schema.sql:222-224) and the codes        *)
(* db/finance_lookups_insert.sql:43-49 seeds.                              *)
(***************************************************************************)
EXTENDS ApprovalAudit, TLC

Documented == [c \in {"Draft", "Pending Approval", "Approved"} |-> c]

Seeded == [c \in {"DRAFT", "PENDING_APPROVAL", "APPROVED"} |->
              CASE c = "DRAFT" -> "Draft"
                [] c = "PENDING_APPROVAL" -> "Pending Approval"
                [] c = "APPROVED" -> "Approved"]

TxSymmetry == Permutations(Tx)
=============================================================================
