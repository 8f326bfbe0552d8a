---------------------------- MODULE MCVaultHandle ----------------------------
(* What two threads call on a shared handle, for TLC. *)
EXTENDS VaultHandle, TLC

CONSTANTS a, b

MCThreads == {a, b}
Load(x, y, descs, vers, rows) ==
    [calls |-> (a :> x) @@ (b :> y), descs |-> descs, vers |-> vers, rows |-> rows]

Reads == {Load({"fetch"}, {"fetch"}, 1, 2, 2), Load({"fetch"}, {"list"}, 2, 2, 2),
          Load({"fetch"}, {"refresh"}, 3, 1, 2)}
Writes == {Load({"put", "delete"}, {"fetch"}, 1, 2, 2), Load({"put", "delete"}, {"refresh"}, 2, 2, 2)}
Refreshes == {Load({"refresh"}, {"refresh"}, 3, 0, 2)}
Audits == {Load({"audit"}, {"fetch"}, 1, 1, 5)}
MCWorkloads == Reads \cup Writes \cup Refreshes \cup Audits
=============================================================================
