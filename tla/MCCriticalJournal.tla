------------------------- MODULE MCCriticalJournal -------------------------
(* Symmetry of CriticalJournal's ids, for TLC. *)
EXTENDS CriticalJournal, TLC

Symmetry == Permutations(TokenId) \cup Permutations(WriteId)

=============================================================================
