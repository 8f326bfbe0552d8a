------------------------- MODULE CoreRequestsProofs -------------------------
(***************************************************************************)
(* Proofs about CoreRequests, for any number of threads, tokens, vaults    *)
(* and nonces, and any skew and stall the assumption allows.               *)
(*                                                                         *)
(* That a request runs once, whoever else uses its nonce, rests on three   *)
(* facts: the row a request put into `spent` is kept until its signature   *)
(* is too old; a thread that has not spent its nonce read the clock at     *)
(* most MaxStall ago, within a skew of the signature; and a request that   *)
(* was used still has its row in `spent`, or is older than that.           *)
(***************************************************************************)
EXTENDS CoreRequests, TLAPS

Early == {"token", "vault", "spend"}
Past == {"touch", "op"}

\* Thread h has a request, and has got as far as one of `stages` with it.
At(h, stages) == threads[h].stage \in stages

\* A request that is at a thread with its signer's signature was signed.
RequestsSigned ==
    \A h \in Thread : threads[h] # Free /\ threads[h].genuine => threads[h].req \in DOMAIN served

\* How long ago a thread read the clock, and how far that is from its
\* request's signature once the signature was verified.
ClocksNear ==
    \A h \in Thread :
        /\ threads[h] # Free => threads[h].t0 <= now
        /\ At(h, Early) => now <= threads[h].t0 + MaxStall
        /\ At(h, {"spend"}) => threads[h].t0 <= threads[h].req.ts + Skew

\* Only a genuine request gets past the vault's row, and a row of `spent` is
\* that of a signed request, kept for two skews.
SpentOwn ==
    /\ \A h \in Thread : At(h, {"spend"} \cup Past) => threads[h].genuine
    /\ \A id \in DOMAIN spent :
          /\ spent[id].by \in DOMAIN served /\ SpentId(spent[id].by) = id
          /\ spent[id].until = spent[id].by.ts + 2 * Skew

\* A request is at one thread past its nonce, or has run, never both nor
\* twice; and then its row is kept for as long as its signature is good.
Used(r) == served[r] # 0 \/ \E h \in Thread : At(h, Past) /\ threads[h].req = r
Kept(r) == SpentId(r) \in DOMAIN spent /\ spent[SpentId(r)].by = r

RunsOnce ==
    /\ \A r \in DOMAIN served : served[r] <= 1
    /\ \A h \in Thread : At(h, Past) => served[threads[h].req] = 0
    /\ \A h, g \in Thread :
          At(h, Past) /\ At(g, Past) /\ threads[h].req = threads[g].req => h = g
    /\ \A r \in DOMAIN served : Used(r) => Kept(r) \/ now > r.ts + 2 * Skew

\* A token that is gone has no row and never has one again.
GoneStays ==
    /\ DOMAIN tokens \subseteq minted
    /\ gone \cap DOMAIN tokens = {}
    /\ \A h \in Thread : threads[h] # Free /\ threads[h].late =>
          threads[h].stage = "token" /\ threads[h].req.actor \in gone

IInv == TypeOK /\ RequestsSigned /\ ClocksNear /\ SpentOwn /\ RunsOnce /\ GoneStays

-----------------------------------------------------------------------------
(* Lemmas about a thread that answers. *)

\* The parts of IInv that speak of threads and nonces.
ThreadsInv == RequestsSigned /\ ClocksNear /\ SpentOwn /\ RunsOnce

\* A thread is free, or busy with a request.
LEMMA ThreadType ==
  ASSUME TypeOK, NEW h \in Thread
  PROVE  \/ threads[h] = Free /\ threads[h].stage = "free"
         \/ /\ threads[h] \in Busy /\ threads[h] # Free
            /\ threads[h].req \in Request /\ threads[h].req.ts \in Nat
            /\ SpentId(threads[h].req) \in VaultId \X Nonce /\ threads[h].t0 \in Nat
BY CoreAssumption DEF TypeOK, Busy, Free, Request, Time, SpentId

\* Taking rows out of a table leaves a table.
LEMMA WithoutType ==
  ASSUME NEW R, NEW f, f \in [DOMAIN f -> R], NEW S
  PROVE  /\ DOMAIN Without(f, S) = DOMAIN f \ S
         /\ Without(f, S) \in [DOMAIN Without(f, S) -> R]
         /\ \A x \in DOMAIN f \ S : Without(f, S)[x] = f[x]
BY DEF Without

\* Putting a row into a table leaves a table.
LEMMA WithType ==
  ASSUME NEW R, NEW f, f \in [DOMAIN f -> R], NEW x, NEW y \in R
  PROVE  /\ DOMAIN With(f, x, y) = DOMAIN f \cup {x}
         /\ With(f, x, y) \in [DOMAIN With(f, x, y) -> R]
         /\ With(f, x, y)[x] = y
         /\ \A z \in DOMAIN f \ {x} : With(f, x, y)[z] = f[z]
BY DEF With

\* A thread that moves on before it has spent its nonce.
LEMMA EarlyStep ==
  ASSUME IInv, NEW h \in Thread, At(h, Early), At(h, Early)', threads'[h] # Free,
         threads'[h].req = threads[h].req, threads'[h].t0 = threads[h].t0,
         threads'[h].genuine = threads[h].genuine,
         At(h, {"spend"})' => threads[h].genuine /\ threads[h].t0 <= threads[h].req.ts + Skew,
         \A g \in Thread \ {h} : threads'[g] = threads[g],
         UNCHANGED <<now, spent, served>>
  PROVE  ThreadsInv'
<1> USE ThreadType, CoreAssumption DEF IInv, At, Early, Past
<1>1. threads[h] # Free
  BY DEF Free
<1>2. RequestsSigned'
  BY <1>1 DEF RequestsSigned
<1>3. ClocksNear'
  BY <1>1 DEF ClocksNear
<1>4. SpentOwn'
  BY <1>1 DEF SpentOwn
<1>5. \A g \in Thread : At(g, Past)' => g # h /\ At(g, Past) /\ threads'[g] = threads[g]
  OBVIOUS
<1>6. \A n : Used(n)' => Used(n)
  BY <1>5 DEF Used
<1>7. RunsOnce'
  BY <1>5, <1>6 DEF RunsOnce, Kept
<1> QED BY <1>2, <1>3, <1>4, <1>7 DEF ThreadsInv

\* A thread that answers without running its request.
LEMMA AnswerStep ==
  ASSUME IInv, NEW h \in Thread, Answer(h), UNCHANGED <<now, spent, served>>
  PROVE  ThreadsInv' /\ threads' \in [Thread -> Busy \cup {Free}]
<1> USE ThreadType, CoreAssumption DEF IInv, At, Early, Past
<1>1. /\ threads' \in [Thread -> Busy \cup {Free}]
      /\ threads'[h] = Free /\ threads'[h].stage = "free"
      /\ \A g \in Thread \ {h} : threads'[g] = threads[g]
  BY DEF Answer, TypeOK, Free
<1>2. RequestsSigned'
  BY <1>1 DEF RequestsSigned
<1>3. ClocksNear'
  BY <1>1 DEF ClocksNear
<1>4. SpentOwn'
  BY <1>1 DEF SpentOwn
<1>5. RunsOnce'
  BY <1>1 DEF RunsOnce, Used, Kept
<1> QED BY <1>1, <1>2, <1>3, <1>4, <1>5 DEF ThreadsInv

\* A thread that runs its request: it is the only one to, and the first.
LEMMA RanStep ==
  ASSUME IInv, NEW h \in Thread, Ran(h), UNCHANGED <<now, spent>>
  PROVE  /\ ThreadsInv' /\ threads' \in [Thread -> Busy \cup {Free}]
         /\ served' \in [DOMAIN served -> Nat]
<1> USE ThreadType, CoreAssumption DEF IInv, At, Early, Past
<1> DEFINE r == threads[h].req
<1>1. /\ threads' \in [Thread -> Busy \cup {Free}]
      /\ threads'[h] = Free /\ threads'[h].stage = "free"
      /\ \A g \in Thread \ {h} : threads'[g] = threads[g]
  BY DEF Ran, Answer, TypeOK, Free
<1>2. threads[h].stage = "op" /\ threads[h] # Free /\ r \in DOMAIN served
  BY DEF Ran, Free, SpentOwn, RequestsSigned
<1>3. /\ served[r] = 0 /\ served'[r] = 1
      /\ \A q \in DOMAIN served \ {r} : served'[q] = served[q]
      /\ served' \in [DOMAIN served -> Nat] /\ DOMAIN served' = DOMAIN served
  BY <1>2 DEF Ran, RunsOnce, TypeOK
<1>4. RequestsSigned'
  BY <1>1, <1>3 DEF RequestsSigned
<1>5. ClocksNear'
  BY <1>1 DEF ClocksNear
<1>6. SpentOwn'
  BY <1>1, <1>3 DEF SpentOwn
<1>7. RunsOnce'
  <2>1. \A q \in DOMAIN served : served'[q] <= 1
    BY <1>2, <1>3 DEF RunsOnce
  <2>2. \A g \in Thread : At(g, Past)' => /\ g # h /\ At(g, Past) /\ threads'[g] = threads[g]
                                          /\ threads[g].req # r /\ threads[g].req \in DOMAIN served
    BY <1>1, <1>2 DEF RunsOnce, SpentOwn, RequestsSigned
  <2>3. \A g \in Thread : At(g, Past)' => served'[threads'[g].req] = 0
    BY <1>3, <2>2 DEF RunsOnce
  <2>4. \A q \in DOMAIN served : Used(q)' => Used(q)
    BY <1>2, <1>3, <2>2 DEF Used
  <2>5. \A q \in DOMAIN served : Kept(q)' = Kept(q)
    BY DEF Kept
  <2>6. \A f, g \in Thread :
           At(f, Past)' /\ At(g, Past)' /\ threads'[f].req = threads'[g].req => f = g
    BY <2>2 DEF RunsOnce
  <2>7. \A q \in DOMAIN served : Used(q)' => Kept(q)' \/ now > q.ts + 2 * Skew
    BY <2>4, <2>5 DEF RunsOnce
  <2> QED BY <1>3, <2>1, <2>3, <2>6, <2>7 DEF RunsOnce
<1> QED BY <1>1, <1>3, <1>4, <1>5, <1>6, <1>7 DEF ThreadsInv

-----------------------------------------------------------------------------
(* One lemma per step. *)

\* The clock: no thread is left behind by more than the stall.
LEMMA TickStep ==
  ASSUME IInv, Tick
  PROVE  IInv'
<1> USE ThreadType, CoreAssumption DEF IInv, At, Early, Past, Tick
<1>1. TypeOK'
  BY DEF TypeOK, Time
<1>2. ClocksNear'
  BY DEF ClocksNear, TypeOK, Time
<1>3. RunsOnce'
  BY DEF RunsOnce, Used, Kept, TypeOK, Time, Request
<1> QED BY <1>1, <1>2, <1>3 DEF RequestsSigned, SpentOwn, GoneStays

\* A new vault's row touches no request.
LEMMA CreateStep ==
  ASSUME IInv, NEW id \in VaultId, create(id)
  PROVE  IInv'
<1> USE CoreAssumption DEF IInv
<1>1. PICK pk \in PK : vaults' = With(vaults, pk, [id |-> id, generation |-> 1, active |-> now])
  BY DEF create
<1>2. [id |-> id, generation |-> 1, active |-> now] \in VaultRow
  BY DEF VaultRow, TypeOK, Generation
<1>3. /\ DOMAIN vaults' = DOMAIN vaults \cup {pk}
      /\ vaults' \in [DOMAIN vaults' -> VaultRow]
  BY <1>1, <1>2 DEF With, TypeOK
<1>4. TypeOK'
  BY <1>3 DEF create, TypeOK
<1> QED BY <1>4 DEF create, RequestsSigned, ClocksNear, SpentOwn, RunsOnce, Used, Kept, GoneStays, At

\* A token reported by whoever holds it.
LEMMA ReportStep ==
  ASSUME IInv, NEW t \in TokenId, report(t)
  PROVE  IInv'
<1> USE CoreAssumption DEF IInv
<1>1. /\ DOMAIN tokens' = DOMAIN tokens \ {t}
      /\ tokens' \in [DOMAIN tokens' -> TokenRow]
  BY WithoutType DEF report, TypeOK
<1>2. TypeOK'
  BY <1>1 DEF report, TypeOK, GoneStays
<1>3. GoneStays'
  BY <1>1 DEF report, GoneStays
<1> QED BY <1>2, <1>3 DEF report, RequestsSigned, ClocksNear, SpentOwn, RunsOnce, Used, Kept, At

\* A thread takes a request up.
LEMMA DeliverStep ==
  ASSUME IInv, NEW h \in Thread, NEW r \in Request, NEW genuine \in BOOLEAN,
         deliver(h, r, genuine)
  PROVE  IInv'
<1> USE ThreadType, CoreAssumption DEF IInv, At, Early, Past
<1>1. /\ threads' \in [Thread -> Busy \cup {Free}]
      /\ threads'[h].stage \in {"vault", "token"} /\ threads'[h].req = r
      /\ threads'[h].genuine = genuine /\ threads'[h].t0 = now
      /\ threads'[h].late = (r.actor \in gone)
      /\ r.actor \in gone => threads'[h].stage = "token"
      /\ \A g \in Thread \ {h} : threads'[g] = threads[g]
  BY DEF deliver, TypeOK, Busy, Free, Request
<1>2. /\ served' \in [DOMAIN served' -> Nat] /\ DOMAIN served' \subseteq Request
      /\ DOMAIN served \subseteq DOMAIN served'
      /\ genuine => r \in DOMAIN served'
      /\ \A q \in DOMAIN served : served'[q] = served[q]
      /\ \A q \in DOMAIN served' : q \notin DOMAIN served => served'[q] = 0 /\ q = r
  BY DEF deliver, With, TypeOK
<1>3. UNCHANGED <<now, vaults, tokens, spent, minted, gone>> /\ threads[h] = Free
  BY DEF deliver
<1>4. TypeOK'
  BY <1>1, <1>2, <1>3 DEF TypeOK
<1>5. RequestsSigned'
  BY <1>1, <1>2, <1>3 DEF RequestsSigned
<1>6. ClocksNear'
  BY <1>1, <1>3 DEF ClocksNear, TypeOK, Time
<1>7. SpentOwn'
  BY <1>1, <1>2, <1>3 DEF SpentOwn
<1>8. RunsOnce'
  <2>1. \A g \in Thread : At(g, Past)' => /\ At(g, Past) /\ threads'[g] = threads[g]
                                          /\ threads[g].req \in DOMAIN served
    BY <1>1, <1>3 DEF SpentOwn, RequestsSigned
  <2>2. \A q \in DOMAIN served' : Used(q)' => q \in DOMAIN served /\ Used(q)
    BY <1>2, <2>1 DEF Used
  <2>3. \A q \in DOMAIN served' : Used(q)' => Kept(q)' \/ now' > q.ts + 2 * Skew
    BY <1>3, <2>2 DEF RunsOnce, Kept
  <2>4. \A q \in DOMAIN served' : served'[q] <= 1
    BY <1>2 DEF RunsOnce
  <2> QED BY <1>2, <2>1, <2>3, <2>4 DEF RunsOnce
<1>9. GoneStays'
  BY <1>1, <1>3 DEF GoneStays
<1> QED BY <1>4, <1>5, <1>6, <1>7, <1>8, <1>9

\* The token's row is found, or the request is refused.
LEMMA TokenStep ==
  ASSUME IInv, NEW h \in Thread, token_by_id(h)
  PROVE  IInv'
<1> USE ThreadType, CoreAssumption DEF IInv, At, Early, Past
<1> DEFINE t == threads[h].req.actor
<1>1. CASE t \notin DOMAIN tokens
  <2>1. Answer(h)
    BY <1>1 DEF token_by_id
  <2>2. ThreadsInv' /\ threads' \in [Thread -> Busy \cup {Free}]
    BY <2>1, AnswerStep DEF token_by_id
  <2>3. TypeOK' /\ GoneStays'
    BY <2>1, <2>2 DEF token_by_id, Answer, TypeOK, GoneStays, Free
  <2> QED BY <2>2, <2>3 DEF ThreadsInv
<1>2. CASE t \in DOMAIN tokens
  <2>1. /\ threads[h] \in Busy /\ threads[h].stage = "token"
        /\ tokens[t] \in TokenRow
        /\ threads' = [threads EXCEPT ![h].stage = "vault", ![h].pk = tokens[t].vault,
                        ![h].scope = tokens[t].scope, ![h].expires = tokens[t].expires]
    BY <1>2 DEF token_by_id, TypeOK
  <2>2. /\ threads'[h] \in Busy /\ threads'[h] # Free /\ threads'[h].stage = "vault"
        /\ threads'[h].req = threads[h].req /\ threads'[h].t0 = threads[h].t0
        /\ threads'[h].genuine = threads[h].genuine /\ threads'[h].late = threads[h].late
    BY <2>1, ZenonT(30) DEF TypeOK, Busy, Free, TokenRow
  <2>3. /\ threads' \in [Thread -> Busy \cup {Free}]
        /\ \A g \in Thread \ {h} : threads'[g] = threads[g]
    BY <2>1, <2>2 DEF TypeOK
  <2>4. TypeOK'
    BY <2>3 DEF token_by_id, TypeOK
  <2>5. ThreadsInv'
    BY <2>1, <2>2, <2>3, EarlyStep DEF token_by_id
  <2>6. GoneStays'
    BY <1>2, <2>1, <2>2, <2>3 DEF token_by_id, GoneStays
  <2> QED BY <2>4, <2>5, <2>6 DEF ThreadsInv
<1> QED BY <1>1, <1>2

\* The vault's row is found and the signature verified, or the request is
\* refused: whoever goes on is genuine, and near its signature's time.
LEMMA VaultStep ==
  ASSUME IInv, NEW h \in Thread, vault_row(h)
  PROVE  IInv'
<1> USE ThreadType, CoreAssumption DEF IInv, At, Early, Past
<1>1. CASE Answer(h)
  <2>1. ThreadsInv' /\ threads' \in [Thread -> Busy \cup {Free}]
    BY <1>1, AnswerStep DEF vault_row
  <2>2. TypeOK' /\ GoneStays'
    BY <1>1, <2>1 DEF vault_row, Answer, TypeOK, GoneStays, Free
  <2> QED BY <2>1, <2>2 DEF ThreadsInv
<1>2. ASSUME NEW pk \in PK, vault_named(h, pk), verify_request(h, pk),
             threads' = [threads EXCEPT ![h].stage = "spend", ![h].pk = pk,
                                        ![h].generation = vaults[pk].generation]
      PROVE  IInv'
  <2>1. /\ threads[h] \in Busy /\ threads[h].stage = "vault"
        /\ vaults[pk].generation \in Generation
    BY <1>2 DEF vault_row, vault_named, TypeOK, VaultRow
  <2>2. /\ threads'[h] \in Busy /\ threads'[h] # Free /\ threads'[h].stage = "spend"
        /\ threads'[h].req = threads[h].req /\ threads'[h].t0 = threads[h].t0
        /\ threads'[h].genuine = threads[h].genuine /\ threads'[h].late = threads[h].late
    BY <1>2, <2>1 DEF TypeOK, Busy, Free
  <2>3. /\ threads' \in [Thread -> Busy \cup {Free}]
        /\ \A g \in Thread \ {h} : threads'[g] = threads[g]
    BY <1>2, <2>2 DEF TypeOK
  <2>4. threads[h].genuine /\ threads[h].t0 <= threads[h].req.ts + Skew
    BY <1>2, <2>1 DEF verify_request, Gap
  <2>5. TypeOK'
    BY <2>3 DEF vault_row, TypeOK
  <2>6. ThreadsInv'
    BY <2>1, <2>2, <2>3, <2>4, EarlyStep DEF vault_row
  <2>7. GoneStays'
    BY <2>1, <2>2, <2>3 DEF vault_row, GoneStays
  <2> QED BY <2>5, <2>6, <2>7 DEF ThreadsInv
<1> QED BY <1>1, <1>2 DEF vault_row

\* What `spend` leaves: the rows that are still good, and the one asked for.
LEMMA SpendTable ==
  ASSUME TypeOK, NEW n \in VaultId \X Nonce, NEW row \in Spent, spent' = spend(n, row)
  PROVE  /\ n \in DOMAIN spent' /\ DOMAIN spent' \subseteq VaultId \X Nonce
         /\ \A m \in DOMAIN spent' : m = n \/ m \in DOMAIN spent
         /\ \A m \in DOMAIN spent : m \in DOMAIN spent' \/ spent[m].until < now
         /\ spent' \in [DOMAIN spent' -> Spent]
         /\ \A m \in DOMAIN spent' : m # n => spent'[m] = spent[m]
         /\ Unspent(n) => spent'[n] = row
         /\ ~Unspent(n) => spent'[n] = spent[n] /\ n \in DOMAIN spent
<1> DEFINE kept == Without(spent, {m \in DOMAIN spent : spent[m].until < now})
<1>1. /\ DOMAIN kept = DOMAIN spent \ {m \in DOMAIN spent : spent[m].until < now}
      /\ kept \in [DOMAIN kept -> Spent] /\ DOMAIN spent \subseteq VaultId \X Nonce
      /\ \A m \in DOMAIN kept : kept[m] = spent[m]
  BY DEF Without, TypeOK
<1>2. CASE Unspent(n)
  <2>1. spent' = With(kept, n, row)
    BY <1>2 DEF spend
  <2> HIDE DEF kept
  <2> QED BY <1>1, <1>2, <2>1 DEF With
<1>3. CASE ~Unspent(n)
  <2>1. spent' = kept
    BY <1>3 DEF spend
  <2> HIDE DEF kept
  <2> QED BY <1>1, <1>3, <2>1 DEF Unspent
<1> QED BY <1>2, <1>3

\* The nonce is spent.  A request whose nonce can still be spent was not
\* used: had its row been purged, the thread would be past the end of its own
\* signature.
LEMMA SpendStep ==
  ASSUME IInv, NEW h \in Thread, spend_nonce(h)
  PROVE  IInv'
<1> USE ThreadType, CoreAssumption DEF IInv, At, Early, Past
<1> DEFINE r == threads[h].req
           id == SpentId(r)
           row == [until |-> r.ts + 2 * Skew, by |-> r]
<1>1. /\ threads[h] \in Busy /\ threads[h] # Free /\ threads[h].stage = "spend"
      /\ r \in DOMAIN served /\ r \in Request /\ r.ts \in Nat
      /\ id \in VaultId \X Nonce /\ now \in Nat
  BY DEF spend_nonce, RequestsSigned, SpentOwn, TypeOK, Time, Free
<1>2. now <= r.ts + 2 * Skew
  BY <1>1 DEF ClocksNear
<1>3. Unspent(id) => ~Used(r)
  <2>1. Used(r) => Kept(r)
    BY <1>1, <1>2 DEF RunsOnce
  <2> QED BY <1>1, <1>2, <2>1 DEF Unspent, Kept, SpentOwn
<1>4. row \in Spent /\ row.by = r /\ row.until = r.ts + 2 * Skew /\ spent' = spend(id, row)
  BY <1>1 DEF spend_nonce, Spent
<1>5. /\ id \in DOMAIN spent' /\ DOMAIN spent' \subseteq VaultId \X Nonce
      /\ \A m \in DOMAIN spent' : m = id \/ m \in DOMAIN spent
      /\ \A m \in DOMAIN spent : m \in DOMAIN spent' \/ spent[m].until < now
      /\ spent' \in [DOMAIN spent' -> Spent]
      /\ \A m \in DOMAIN spent' : m # id => spent'[m] = spent[m]
      /\ Unspent(id) => spent'[id] = row
      /\ ~Unspent(id) => spent'[id] = spent[id] /\ id \in DOMAIN spent
  <2> HIDE DEF id, row
  <2> QED BY <1>1, <1>4, SpendTable
<1>6. /\ threads' \in [Thread -> Busy \cup {Free}]
      /\ \A g \in Thread \ {h} : threads'[g] = threads[g]
      /\ \/ threads'[h] = Free /\ threads'[h].stage = "free"
         \/ /\ Unspent(id)
            /\ threads'[h] \in Busy /\ threads'[h] # Free /\ threads'[h].stage = "touch"
            /\ threads'[h].req = r /\ threads'[h].t0 = threads[h].t0
            /\ threads'[h].genuine = threads[h].genuine /\ threads'[h].late = threads[h].late
  <2>1. CASE Answer(h)
    BY <2>1 DEF Answer, TypeOK, Free
  <2>2. CASE MoveTo(h, "touch") /\ Unspent(id)
    BY <1>1, <2>2 DEF MoveTo, TypeOK, Busy, Free
  <2> QED BY <2>1, <2>2 DEF spend_nonce
<1>7. UNCHANGED <<now, served, gone, tokens, minted, vaults>>
  BY DEF spend_nonce
<1>8. SpentId(r) = id
  OBVIOUS
<1> HIDE DEF r, id, row
<1>9. TypeOK'
  BY <1>1, <1>5, <1>6, <1>7 DEF TypeOK
<1>10. RequestsSigned'
  BY <1>1, <1>6, <1>7 DEF RequestsSigned
<1>11. ClocksNear'
  BY <1>1, <1>6, <1>7 DEF ClocksNear
<1>12. SpentOwn'
  <2>1. \A g \in Thread : At(g, {"spend"} \cup Past)' => threads'[g].genuine
    BY <1>1, <1>6 DEF SpentOwn
  <2>2. ASSUME NEW m \in DOMAIN spent'
        PROVE  /\ spent'[m].by \in DOMAIN served /\ SpentId(spent'[m].by) = m
               /\ spent'[m].until = spent'[m].by.ts + 2 * Skew
    <3>1. CASE m \in DOMAIN spent /\ spent'[m] = spent[m]
      BY <3>1 DEF SpentOwn
    <3>2. CASE m = id /\ spent'[m] = row
      BY <1>1, <1>4, <1>8, <3>2
    <3> QED BY <1>5, <3>1, <3>2
  <2> QED BY <1>7, <2>1, <2>2 DEF SpentOwn
<1>13. RunsOnce'
  <2>1. \A g \in Thread : At(g, Past)' =>
           /\ g # h => At(g, Past) /\ threads'[g] = threads[g]
           /\ g = h => ~Used(r) /\ threads'[g].req = r /\ Unspent(id)
    BY <1>3, <1>6
  <2>2. ASSUME NEW q \in DOMAIN served, Used(q)' PROVE Kept(q)' \/ now > q.ts + 2 * Skew
    <3>1. CASE Used(q)
      <4>1. CASE now > q.ts + 2 * Skew
        BY <4>1
      <4>2. CASE Kept(q) /\ ~(now > q.ts + 2 * Skew)
        <5>1. q.ts \in Nat /\ SpentId(q) \in DOMAIN spent /\ spent[SpentId(q)].by = q
              /\ ~(spent[SpentId(q)].until < now)
          BY <1>1, <4>2 DEF Kept, SpentOwn, TypeOK, Request, Time
        <5>2. SpentId(q) = id => ~Unspent(id)
          BY <5>1 DEF Unspent
        <5>3. SpentId(q) \in DOMAIN spent' /\ spent'[SpentId(q)] = spent[SpentId(q)]
          BY <1>5, <5>1, <5>2
        <5> QED BY <5>1, <5>3 DEF Kept
      <4> QED BY <3>1, <4>1, <4>2 DEF RunsOnce
    <3>2. CASE ~Used(q)
      <4>1. q = r /\ Unspent(id)
        BY <1>7, <2>1, <2>2, <3>2 DEF Used
      <4> QED BY <1>4, <1>5, <1>8, <4>1 DEF Kept
    <3> QED BY <3>1, <3>2
  <2>3. \A g \in Thread : At(g, Past)' => served[threads'[g].req] = 0
    BY <2>1 DEF RunsOnce, Used
  <2>4. \A f, g \in Thread :
           At(f, Past)' /\ At(g, Past)' /\ threads'[f].req = threads'[g].req => f = g
    BY <2>1 DEF RunsOnce, Used
  <2>5. \A q \in DOMAIN served : served[q] <= 1
    BY DEF RunsOnce
  <2> QED BY <1>7, <2>2, <2>3, <2>4, <2>5 DEF RunsOnce
<1>14. GoneStays'
  BY <1>1, <1>6, <1>7 DEF GoneStays
<1> QED BY <1>9, <1>10, <1>11, <1>12, <1>13, <1>14

\* The vault's row is touched, and the request stays past its nonce.
LEMMA TouchStep ==
  ASSUME IInv, NEW h \in Thread, touch(h)
  PROVE  IInv'
<1> USE ThreadType, CoreAssumption DEF IInv, At, Early, Past
<1>1. /\ threads[h] \in Busy /\ threads[h] # Free /\ threads[h].stage = "touch"
      /\ threads[h].t0 \in Time
  BY DEF touch, Free, Busy
<1>2. vaults' \in [DOMAIN vaults' -> VaultRow] /\ DOMAIN vaults' = DOMAIN vaults
  BY <1>1 DEF touch, TypeOK, VaultRow
<1>3. /\ threads'[h] \in Busy /\ threads'[h] # Free /\ threads'[h].stage = "op"
      /\ threads'[h].req = threads[h].req /\ threads'[h].t0 = threads[h].t0
      /\ threads'[h].genuine = threads[h].genuine /\ threads'[h].late = threads[h].late
      /\ \A g \in Thread \ {h} : threads'[g] = threads[g]
      /\ threads' \in [Thread -> Busy \cup {Free}]
  BY <1>1 DEF touch, MoveTo, TypeOK, Busy, Free
<1>4. UNCHANGED <<now, tokens, spent, served, minted, gone>>
  BY DEF touch
<1>5. TypeOK'
  BY <1>2, <1>3, <1>4 DEF TypeOK
<1>6. RequestsSigned'
  BY <1>1, <1>3, <1>4 DEF RequestsSigned
<1>7. ClocksNear'
  BY <1>1, <1>3, <1>4 DEF ClocksNear
<1>8. SpentOwn'
  BY <1>1, <1>3, <1>4 DEF SpentOwn
<1>9. \A g \in Thread : At(g, Past)' = At(g, Past) /\ threads'[g].req = threads[g].req
  BY <1>1, <1>3
<1>10. RunsOnce'
  BY <1>4, <1>9 DEF RunsOnce, Used, Kept
<1>11. GoneStays'
  BY <1>1, <1>3, <1>4 DEF GoneStays
<1> QED BY <1>5, <1>6, <1>7, <1>8, <1>10, <1>11

\* What is left to show of a handler: its tables, and that a token that goes
\* was there.
LEMMA HandlerStep ==
  ASSUME IInv, NEW h \in Thread,
         \/ Ran(h)
         \/ Answer(h) /\ UNCHANGED served,
         UNCHANGED <<now, spent>>,
         vaults' \in [DOMAIN vaults' -> VaultRow], DOMAIN vaults' \subseteq PK,
         tokens' \in [DOMAIN tokens' -> TokenRow], DOMAIN tokens' \subseteq TokenId,
         minted' \subseteq TokenId, minted \subseteq minted',
         DOMAIN tokens' \subseteq minted', gone' \cap DOMAIN tokens' = {},
         gone \subseteq gone', gone' \subseteq minted'
  PROVE  IInv'
<1> USE CoreAssumption DEF IInv
<1>1. /\ ThreadsInv' /\ threads' \in [Thread -> Busy \cup {Free}]
      /\ served' \in [DOMAIN served -> Nat] /\ Answer(h)
  BY RanStep, AnswerStep DEF Ran, TypeOK
<1>2. TypeOK'
  BY <1>1 DEF TypeOK
<1>3. threads'[h] = Free /\ \A g \in Thread \ {h} : threads'[g] = threads[g]
  BY <1>1 DEF Answer, TypeOK
<1>4. GoneStays'
  BY <1>3 DEF GoneStays
<1> QED BY <1>1, <1>2, <1>4 DEF ThreadsInv

\* A handler runs its request, or refuses it.
LEMMA HandleStep ==
  ASSUME IInv, NEW h \in Thread, Handle(h)
  PROVE  IInv'
<1> USE ThreadType, CoreAssumption DEF IInv
<1>1. CASE forbidden(h) \/ read(h) \/ put(h)
  BY <1>1, HandlerStep DEF forbidden, read, put, TypeOK, GoneStays
<1>2. CASE register(h)
  <2> DEFINE r == threads[h].req
  <2>1. CASE UNCHANGED <<tokens, minted>>
    BY <1>2, <2>1, HandlerStep DEF register, TypeOK, GoneStays, Ran
  <2>2. CASE \E s \in Scope : /\ threads[h].pk \in DOMAIN vaults
                               /\ r.subject \notin minted
                               /\ tokens' = With(tokens, r.subject, [vault |-> threads[h].pk, scope |-> s, expires |-> now + 1])
                               /\ minted' = minted \cup {r.subject}
                               /\ Ran(h)
    <3>1. r.subject \in TokenId
      BY <2>2 DEF Ran, Busy, Request, Free
    <3>2. /\ tokens' \in [DOMAIN tokens' -> TokenRow]
          /\ DOMAIN tokens' = DOMAIN tokens \cup {r.subject}
      BY <2>2 DEF With, TypeOK, TokenRow, Time
    <3> QED BY <1>2, <2>2, <3>1, <3>2, HandlerStep DEF register, TypeOK, GoneStays
  <2> QED BY <1>2, <2>1, <2>2 DEF register
<1>3. CASE revoke(h)
  <2> DEFINE t == threads[h].req.subject
  <2>1. CASE UNCHANGED <<tokens, gone>>
    BY <1>3, <2>1, HandlerStep DEF revoke, TypeOK, GoneStays, Ran
  <2>2. CASE Ran(h) /\ t \in DOMAIN tokens /\ tokens' = Without(tokens, {t}) /\ gone' = gone \cup {t}
    <3>1. /\ tokens' \in [DOMAIN tokens' -> TokenRow]
          /\ DOMAIN tokens' = DOMAIN tokens \ {t}
      BY <2>2 DEF Without, TypeOK
    <3> QED BY <1>3, <2>2, <3>1, HandlerStep DEF revoke, TypeOK, GoneStays
  <2> QED BY <1>3, <2>1, <2>2 DEF revoke, TokensOf
<1>4. CASE rotate(h)
  <2>1. vaults' \in [DOMAIN vaults' -> VaultRow] /\ DOMAIN vaults' = DOMAIN vaults
    BY <1>4, SMTT(30) DEF rotate, TypeOK, VaultRow, Generation
  <2> QED BY <1>4, <2>1, HandlerStep DEF rotate, TypeOK, GoneStays
<1>5. CASE delete_vault(h)
  <2> DEFINE T == TokensOf(threads[h].pk)
  <2>1. CASE UNCHANGED <<vaults, tokens, gone>>
    BY <1>5, <2>1, HandlerStep DEF delete_vault, TypeOK, GoneStays, Ran
  <2>2. CASE /\ Ran(h) /\ vaults' = Without(vaults, {threads[h].pk})
             /\ tokens' = Without(tokens, T) /\ gone' = gone \cup T
    <3>1. T \subseteq DOMAIN tokens
      BY DEF TokensOf
    <3> HIDE DEF T
    <3>2. /\ tokens' \in [DOMAIN tokens' -> TokenRow]
          /\ DOMAIN tokens' = DOMAIN tokens \ T
          /\ vaults' \in [DOMAIN vaults' -> VaultRow]
          /\ DOMAIN vaults' \subseteq PK
      BY <2>2 DEF Without, TypeOK
    <3> QED BY <1>5, <2>2, <3>1, <3>2, HandlerStep DEF delete_vault, TypeOK, GoneStays
  <2> QED BY <1>5, <2>1, <2>2 DEF delete_vault
<1> QED BY <1>1, <1>2, <1>3, <1>4, <1>5 DEF Handle

-----------------------------------------------------------------------------
(* The theorems. *)

\* The invariant holds at the start: nothing was signed or spent.
LEMMA InitOK == Init => IInv
<1> SUFFICES ASSUME Init PROVE IInv
  OBVIOUS
<1> USE CoreAssumption DEF Init
<1>1. TypeOK
  BY DEF TypeOK, Free, VaultRow, TokenRow, PK, Generation, Time
<1>2. \A h \in Thread : threads[h] = Free /\ threads[h].stage = "free"
  BY DEF Free
<1>3. RequestsSigned /\ ClocksNear /\ GoneStays
  BY <1>2 DEF RequestsSigned, ClocksNear, GoneStays, At, Early
<1>4. SpentOwn /\ RunsOnce
  BY <1>2 DEF SpentOwn, RunsOnce, Used, At, Past
<1> QED BY <1>1, <1>3, <1>4 DEF IInv

\* Every step keeps the invariant.
LEMMA NextStep == IInv /\ [Next]_vars => IInv'
<1> SUFFICES ASSUME IInv, [Next]_vars PROVE IInv'
  OBVIOUS
<1>1. CASE Tick
  BY <1>1, TickStep
<1>2. ASSUME NEW id \in VaultId, create(id) PROVE IInv'
  BY <1>2, CreateStep
<1>3. ASSUME NEW t \in TokenId, report(t) PROVE IInv'
  BY <1>3, ReportStep
<1>4. Sent \cup Extra \subseteq Request
  BY CoreAssumption
<1>5. ASSUME NEW h \in Thread, NEW r \in Sent \cup Extra, NEW genuine \in BOOLEAN, deliver(h, r, genuine)
      PROVE  IInv'
  BY <1>4, <1>5, DeliverStep
<1>6. ASSUME NEW h \in Thread, Authenticate(h) PROVE IInv'
  BY <1>6, TokenStep, VaultStep, SpendStep, TouchStep DEF Authenticate
<1>7. ASSUME NEW h \in Thread, Handle(h) PROVE IInv'
  BY <1>7, HandleStep
<1>8. CASE UNCHANGED vars
  BY <1>8 DEF vars, IInv, TypeOK, RequestsSigned, ClocksNear, SpentOwn, RunsOnce, Used, Kept, GoneStays, At
<1> QED BY <1>1, <1>2, <1>3, <1>4, <1>5, <1>6, <1>7, <1>8 DEF Next

\* The inductive invariant.
THEOREM RequestsInvariant == Spec => []IInv
BY InitOK, NextStep, PTL DEF Spec

\* However often a signed request is delivered, on however many threads,
\* whoever else signs requests with its nonce, and whatever the purge of old nonces has removed by then, its handler runs at
\* most once (spend_nonce and Store::spend, for every skew and stall with
\* MaxStall <= Skew).
THEOREM RequestsServedOnce == Spec => []ServedOnce
<1>1. IInv => ServedOnce
  BY DEF IInv, RunsOnce, ServedOnce
<1> QED BY <1>1, RequestsInvariant, PTL

\* A nonce is spent only by a request whose signature verified, and a token
\* that was revoked, reported or deleted with its vault before its request
\* arrived never gets past authentication (authenticate, token_auth).
THEOREM RequestsOnlyTheirs == Spec => []OnlyTheirs
<1>1. IInv => OnlyTheirs
  BY ThreadType DEF IInv, OnlyTheirs, SpentSigned, SpentOwn, GoneRefused, GoneStays
<1> QED BY <1>1, RequestsInvariant, PTL

=============================================================================
