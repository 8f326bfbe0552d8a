---------------------------- MODULE MCVaultStore ----------------------------
(* Values of the limits of VaultStore for TLC. *)
EXTENDS VaultStore, TLC

\* Limits that bite: two versions kept of a secret, one of a config.
MCMaxVersions == [secret |-> 2, config |-> 0]
MCMaxLive == [secret |-> 1, config |-> 1]
MCMaxValue == [secret |-> 2, config |-> 1]

Symmetry == Permutations(Name) \cup Permutations(TokenId) \cup Permutations(VaultId)

=============================================================================
