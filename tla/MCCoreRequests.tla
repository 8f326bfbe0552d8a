--------------------------- MODULE MCCoreRequests ---------------------------
(* CoreRequests with the symmetry of its ids, and Wire, one initial state   *)
(* for each of its inputs.                                                  *)
EXTENDS CoreRequests, Wire, TLC

Symmetry == Permutations(Thread) \cup Permutations(Nonce) \cup Permutations(VaultId)
            \cup Permutations(TokenId)

\* A request, with the generation that only some of them name.
MCSent == {r \in Request : /\ r.ts \in {0, 1}
                           /\ r.op \in {"put_secret", "register", "rotate"} \/ r.generation = 1}
\* The requests that use its nonce too: the owner's and a token's reads,
\* good from the start until what was spent at the start is purged.
MCExtra == {r \in Request : r.op = "get_secret" /\ r.generation = 1 /\ r.ts = 1}

\* A step of CoreRequests' Next.
Within(action) == input = NoInput /\ action /\ UNCHANGED input

MCNext ==
    \/ Within(Tick)
    \/ \E id \in VaultId : Within(create(id))
    \/ \E t \in TokenId : Within(report(t))
    \/ \E h \in Thread, r \in Sent \cup Extra, genuine \in BOOLEAN : Within(deliver(h, r, genuine))
    \/ \E h \in Thread :
          \/ Within(token_by_id(h)) \/ Within(vault_row(h)) \/ Within(spend_nonce(h))
          \/ Within(touch(h)) \/ Within(forbidden(h)) \/ Within(read(h)) \/ Within(put(h))
          \/ Within(register(h)) \/ Within(revoke(h)) \/ Within(rotate(h))
          \/ Within(delete_vault(h))

MCInit == Init /\ WireInit

MCSpec == MCInit /\ [][MCNext]_<<vars, input>>
=============================================================================
