--------------------------- MODULE MCRotationBody ---------------------------
(* The limits of the repository's own test of the bound, without configs. *)
EXTENDS RotationBody

MCLimits == [max_names |-> 3, max_versions |-> 2, max_vault_bytes |-> 10000, max_tokens |-> 4]
=============================================================================
