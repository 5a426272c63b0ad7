--------------------------- MODULE MCProvisioning ---------------------------
(***************************************************************************)
(* Instances of Provisioning: module lists for the script, and slugs of    *)
(* which one, that of a name without a letter or digit, is empty.          *)
(***************************************************************************)
EXTENDS Provisioning, TLC

OneModule == {<<"finance">>}
ManyModules == {<<"finance", "finance">>, <<"inventory", "operations">>}

RunSymmetry == Permutations(Run)
=============================================================================
