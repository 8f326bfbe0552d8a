-------------------------- MODULE TokenAccessProofs --------------------------
(***************************************************************************)
(* Proofs about TokenAccess, for any number of tokens, owner's handles,    *)
(* names, generations, tries and records in a page.                        *)
(*                                                                         *)
(* The invariant has three parts.  Per token: what the server has read of  *)
(* its row for a request still in progress was a live row once, so what    *)
(* the holder can still learn from it is of its scope and of a generation  *)
(* before the revocation.  Per listing: what was collected is every name   *)
(* up to the page's last index.  Per owner's handle: a batch that is still *)
(* at the vault's revision holds the vault's records.                      *)
(***************************************************************************)
EXTENDS TokenAccess, FiniteSetTheorems, WellFoundedInduction, TLAPS

Scopes == DOMAIN KIND
Kinds == KIND["admin"]
Gens == 1..MaxGen

Row == [at : {"new", "live", "gone"}, scope : Scopes \cup {"none"}, gen : 0..MaxGen,
        keys : SUBSET (Kinds \X Gens), allow : SUBSET Nat]
View == [gen : 0..MaxGen, keys : SUBSET (Kinds \X Gens), allow : SUBSET Nat]
Call == {NoCall}
        \cup [op : {"read", "write"}, name : Names]
        \cup [op : {"revoke"}, token : Tokens]
        \cup [op : {"list"}, after : Nat, got : SUBSET Secrets, again : BOOLEAN]
        \cup [op : {"self"}, by : {"sdk", "mcp"}, after : {NoCall, Listing(0, {}, TRUE)}]
Hold == [at : {"closed", "idle", "row", "handler"}, by : {"sdk", "mcp"}, view : View,
         call : Call, seen : [row : Row, gen : 0..MaxGen], listed : {"none", "whole", "part"}]
Job == [at : {"idle", "status", "gather", "send"}, revoke : SUBSET Tokens, rev : Nat,
        tokens : SUBSET Tokens, sent : [Names -> Nat], left : Int]

TypeOK ==
    /\ plan \in Workloads
    /\ vault \in [gen : Gens, rev : Nat, val : [Names -> Nat]]
    /\ acked \in [Names -> Nat]
    /\ row \in [Tokens -> Row]
    /\ own \in [Handles -> [view : 0..MaxGen, list : SUBSET Tokens, job : Job]]
    /\ hold \in [Tokens -> Hold]
    /\ known \in [Tokens -> SUBSET (Kinds \X Gens)]
    /\ opened \in [Tokens -> SUBSET (Names \X Gens)]
    /\ wrote \in [Tokens -> SUBSET Gens]
    /\ granted \in [Tokens -> SUBSET Secrets]
    /\ cut \in [Tokens -> Nat]

\* What an allow-list lets through, in any generation, was granted.
AllowFits(allowed, names) ==
    /\ allowed = AllowAll => names = Secrets
    /\ \A n \in Secrets, g \in Gens : Hmac[n][g] \in allowed => n \in names

\* A token's row: nothing before it is minted, a bundle of the vault's
\* generation while it is registered, a revocation once it is gone.
RowExact(t) ==
    /\ row[t].at = "new" => /\ known[t] = {} /\ opened[t] = {} /\ wrote[t] = {}
                            /\ hold[t] = Shut /\ cut[t] = 0
    /\ row[t].at = "live" => /\ row[t].scope \in Scopes /\ row[t].gen = vault.gen
                             /\ row[t].keys = seal_for_scope(row[t].scope, row[t].gen)
                             /\ AllowFits(row[t].allow, granted[t]) /\ cut[t] = 0
    /\ row[t].at = "gone" => cut[t] # 0

\* A generation its holder may have something of.
Within(t, g) == g <= vault.gen /\ (cut[t] # 0 => g < cut[t])

\* The row a request in progress was authenticated with.
SeenExact(t) ==
    LET r == hold[t].seen.row IN
    hold[t].at \in {"row", "handler"} =>
        /\ r.scope \in Scopes /\ r.gen \in Gens /\ Within(t, r.gen)
        /\ r.keys = seal_for_scope(r.scope, r.gen)
        /\ AllowFits(r.allow, granted[t])
        /\ row[t].at = "live" => row[t].scope = r.scope

\* What the holder has learned, read and written.
Learned(t) ==
    /\ \A k \in known[t] : Within(t, k[2]) /\ (row[t].at = "live" => k[1] \in KIND[row[t].scope])
    /\ \A k \in opened[t] : Within(t, k[2]) /\ k[1] \in granted[t] \cup Configs
    /\ \A g \in wrote[t] : Within(t, g)

\* The holder's view, and its listing.
ViewExact(t) ==
    /\ Within(t, hold[t].view.gen)
    /\ \A k \in hold[t].view.keys : k[2] = hold[t].view.gen

Upto(after) == {n \in Secrets : Hmac[n][vault.gen] <= after}
ListExact(t) ==
    hold[t].view.gen = vault.gen =>
        /\ hold[t].listed # "part"
        /\ hold[t].call.op = "list" => hold[t].call.got = Upto(hold[t].call.after)

TokenInv(t) == RowExact(t) /\ SeenExact(t) /\ Learned(t) /\ ViewExact(t) /\ ListExact(t)

\* A handle's rotation: its generation, and what its batch holds.
JobExact(o) ==
    /\ own[o].view <= vault.gen
    /\ own[o].job.at # "idle" => own[o].view < plan.gens
    /\ own[o].job.at \in {"gather", "send"} => own[o].job.rev <= vault.rev
    /\ own[o].job.at = "send" /\ own[o].job.rev = vault.rev => own[o].job.sent = vault.val

IInv ==
    /\ TypeOK
    /\ \A t \in Tokens : TokenInv(t)
    /\ \A o \in Handles : JobExact(o)
    /\ vault.val = acked

-----------------------------------------------------------------------------
(* Lemmas about scopes, keys and pages. *)

\* The keys of a scope are what the server lets the scope do.
LEMMA ScopeKeys ==
  /\ Scopes = {"meta", "append", "config", "config_write", "read", "admin"}
  /\ \A s \in Scopes : KIND[s] \subseteq Kinds
  /\ \A s \in Scopes, n \in Names :
        /\ value_key(n) \in KIND[s] <=> can_read(s, n)
        /\ writer(n) \in KIND[s] <=> can_write(s, n)
<1>1. Scopes = {"meta", "append", "config", "config_write", "read", "admin"}
  BY DEF Scopes, KIND
<1>2. /\ KIND["meta"] = {"name"}
      /\ KIND["append"] = {"name", "secret_writer", "config_writer"}
      /\ KIND["config"] = {"name", "config"}
      /\ KIND["config_write"] = {"name", "config", "config_writer"}
      /\ KIND["read"] = {"name", "vault", "config"}
      /\ KIND["admin"] = {"name", "vault", "config", "secret_writer", "config_writer"}
  BY DEF KIND
<1>3. \A s \in Scopes : KIND[s] \subseteq Kinds
  BY <1>1, <1>2 DEF Kinds
<1>4. ASSUME NEW s \in Scopes, NEW n \in Names
      PROVE  /\ value_key(n) \in KIND[s] <=> can_read(s, n)
             /\ writer(n) \in KIND[s] <=> can_write(s, n)
  BY <1>1, <1>2 DEF value_key, writer, can_read, can_write
<1> QED BY <1>1, <1>3, <1>4

\* A bundle's keys are of its generation, and of its scope's kinds.
LEMMA SealedKeys ==
  ASSUME NEW s \in Scopes, NEW g \in Gens
  PROVE  /\ seal_for_scope(s, g) \subseteq Kinds \X Gens
         /\ \A k \in seal_for_scope(s, g) : k[1] \in KIND[s] /\ k[2] = g
BY ScopeKeys DEF seal_for_scope, for_scope

\* A set of natural numbers has a least member.
LEMMA LeastNat ==
  ASSUME NEW T \in SUBSET Nat, T # {}
  PROVE  \E x \in T : \A y \in T : x <= y
<1> DEFINE R == OpToRel(<, Nat)
<1>1. IsWellFoundedOn(R, Nat)
  BY NatLessThanWellFounded
<1>2. \A x, y \in Nat : x < y => <<x, y>> \in R
  BY DEF OpToRel
<1> HIDE DEF R
<1>3. PICK x \in T : \A y \in T : <<y, x>> \notin R
  BY <1>1, WFMin
<1>4. ASSUME NEW y \in T PROVE x <= y
  <2>1. x \in Nat /\ y \in Nat /\ <<y, x>> \notin R
    BY <1>3
  <2>2. ~(y < x)
    BY <1>2, <2>1
  <2> QED BY <2>1, <2>2
<1> QED BY <1>4

\* A page is the next records by index: all of them when it is not full, and
\* otherwise all up to its last.
LEMMA PageShape ==
  ASSUME TypeOK, NEW after \in Nat
  PROVE  /\ page(after) \subseteq Beyond(after)
         /\ Cardinality(page(after)) # Page => page(after) = Beyond(after)
         /\ page(after) # {} =>
              LET last == CHOOSE n \in page(after) :
                             \A m \in page(after) : Hmac[m][vault.gen] <= Hmac[n][vault.gen]
              IN  /\ last \in Secrets
                  /\ Upto(after) \cup page(after) = Upto(Hmac[last][vault.gen])
<1> DEFINE rows == page(after)
           B == Beyond(after)
           idx(n) == Hmac[n][vault.gen]
           Below(n) == {m \in B : idx(m) < idx(n)}
           rank(n) == Cardinality(Below(n))
<1>1. /\ \A n \in Secrets : idx(n) \in Nat /\ idx(n) > 0
      /\ \A m, n \in Secrets : idx(m) = idx(n) => m = n
      /\ Page \in Nat /\ Page > 0
  BY TokenAccessAssumption DEF TypeOK, Gens, Names
<1>2. B \subseteq Secrets /\ (\A n \in Secrets : n \in B <=> idx(n) > after)
  BY DEF Beyond
<1>3. rows = {n \in B : rank(n) < Page}
  BY DEF page
<1>4. IsFiniteSet(B)
  BY <1>2, FS_Subset, TokenAccessAssumption
<1>5. IsFiniteSet(rows) /\ rows \subseteq B /\ Cardinality(rows) \in Nat
  BY <1>3, <1>4, FS_Subset, FS_CardinalityType
<1> HIDE DEF rows, B
<1>6. \A n : IsFiniteSet(Below(n))
  BY <1>4, FS_Subset
<1>6a. \A n : rank(n) \in Nat
  BY <1>6, FS_CardinalityType
<1>7. ASSUME NEW m \in B, NEW n \in B, idx(m) < idx(n) PROVE rank(m) < rank(n)
  <2>1. m \notin Below(m) /\ Below(m) \cup {m} \subseteq Below(n)
    BY <1>1, <1>2, <1>7
  <2>2. /\ Cardinality(Below(m) \cup {m}) = rank(m) + 1
    BY <1>6, <2>1, FS_AddElement
  <2>3. Cardinality(Below(m) \cup {m}) <= rank(n)
    BY <1>6, <2>1, FS_Subset
  <2> HIDE DEF rank
  <2> QED BY <1>6a, <2>2, <2>3
<1>8. ASSUME rows # {}
      PROVE  \E n \in rows : \A m \in rows : idx(m) <= idx(n)
  <2> DEFINE T == {Page - rank(n) : n \in rows}
  <2>1. T \in SUBSET Nat /\ T # {}
    <3> HIDE DEF rank
    <3>1. Page \in Nat /\ \A n \in rows : rank(n) \in Nat /\ rank(n) < Page
      BY <1>1, <1>3, <1>6a
    <3> QED BY <1>8, <3>1
  <2>2. PICK x \in T : \A y \in T : x <= y
    BY <2>1, LeastNat
  <2>3. PICK n \in rows : x = Page - rank(n)
    BY <2>2
  <2>4. ASSUME NEW m \in rows PROVE idx(m) <= idx(n)
    <3>1. Page - rank(n) <= Page - rank(m)
      BY <2>2, <2>3
    <3>2. ~(rank(n) < rank(m))
      <4> HIDE DEF rank
      <4>1. Page \in Nat /\ rank(n) \in Nat /\ rank(m) \in Nat
        BY <1>1, <1>6a
      <4> QED BY <3>1, <4>1
    <3>3. ~(idx(n) < idx(m))
      BY <1>5, <1>7, <3>2
    <3> QED BY <1>1, <1>2, <1>5, <3>3
  <2> QED BY <2>4
<1> DEFINE last == CHOOSE n \in rows : \A m \in rows : idx(m) <= idx(n)
<1>9. ASSUME rows # {}
      PROVE  last \in rows /\ \A m \in rows : idx(m) <= idx(last)
  BY <1>8, <1>9
<1> HIDE DEF last
<1>10. Cardinality(rows) <= Page
  <2>1. CASE rows = {}
    BY <1>1, <2>1, FS_EmptySet
  <2>2. CASE rows # {}
    <3>1. rows \ {last} \subseteq Below(last)
      BY <1>1, <1>2, <1>5, <1>9, <2>2
    <3>2. Cardinality(rows \ {last}) <= rank(last)
      BY <1>6, <3>1, FS_Subset
    <3>3. Cardinality(rows \ {last}) = Cardinality(rows) - 1
      BY <1>5, <1>9, <2>2, FS_RemoveElement
    <3>4. rank(last) < Page
      BY <1>3, <1>9, <2>2
    <3> HIDE DEF rank
    <3>5. Page \in Nat /\ rank(last) \in Nat /\ Cardinality(rows) \in Nat
      BY <1>1, <1>5, <1>6a
    <3> QED BY <3>2, <3>3, <3>4, <3>5
  <2> QED BY <2>1, <2>2
<1>11. ASSUME rows # B PROVE Cardinality(rows) = Page
  <2> DEFINE T == {idx(n) : n \in B \ rows}
  <2>1. T \in SUBSET Nat /\ T # {}
    <3>1. \A n \in B \ rows : idx(n) \in Nat
      BY <1>1, <1>2
    <3>2. \E n : n \in B \ rows
      BY <1>5, <1>11
    <3> HIDE DEF idx
    <3> QED BY <3>1, <3>2
  <2>2. PICK x \in T : \A y \in T : x <= y
    BY <2>1, LeastNat
  <2>3. PICK n \in B \ rows : x = idx(n)
    BY <2>2
  <2>4. Below(n) \subseteq rows
    <3> SUFFICES ASSUME NEW m \in B, idx(m) < idx(n), m \notin rows PROVE FALSE
      OBVIOUS
    <3>1. idx(m) \in T /\ idx(n) <= idx(m)
      BY <2>2, <2>3
    <3>2. idx(m) \in Nat /\ idx(n) \in Nat
      BY <1>1, <1>2, <2>3
    <3> HIDE DEF idx
    <3> QED BY <3>1, <3>2
  <2>5. rank(n) <= Cardinality(rows)
    BY <1>5, <2>4, FS_Subset
  <2>6. ~(rank(n) < Page)
    BY <1>3, <2>3
  <2> HIDE DEF rank
  <2>7. Page \in Nat /\ rank(n) \in Nat /\ Cardinality(rows) \in Nat
    BY <1>1, <1>5, <1>6a
  <2> QED BY <1>10, <2>5, <2>6, <2>7
<1>12. ASSUME rows # {} PROVE last \in Secrets /\ Upto(after) \cup rows = Upto(idx(last))
  <2>1. last \in B /\ rank(last) < Page /\ last \in Secrets
    BY <1>2, <1>3, <1>9, <1>12
  <2>2. ASSUME NEW m \in Secrets, idx(m) <= idx(last), idx(m) > after PROVE m \in rows
    <3>1. m \in B
      BY <1>2, <2>2
    <3>2. rank(m) < Page
      <4>1. m = last \/ idx(m) < idx(last)
        BY <1>1, <2>1, <2>2
      <4>2. rank(m) = rank(last) \/ rank(m) < rank(last)
        BY <1>7, <2>1, <3>1, <4>1
      <4> HIDE DEF rank
      <4>3. Page \in Nat /\ rank(m) \in Nat /\ rank(last) \in Nat
        BY <1>1, <1>6a
      <4> QED BY <2>1, <4>2, <4>3
    <3> QED BY <1>3, <3>1, <3>2
  <2>3. \A m \in rows : m \in Secrets /\ idx(m) <= idx(last)
    BY <1>2, <1>5, <1>9, <1>12
  <2>4. after < idx(last)
    BY <1>2, <2>1
  <2> QED BY <1>1, <2>1, <2>2, <2>3, <2>4 DEF Upto
<1> QED BY <1>5, <1>11, <1>12 DEF rows, B, last

-----------------------------------------------------------------------------
(* What a step leaves alone. *)

\* A token whose row, holder and history stay as they are, in a vault whose
\* generation does.
LEMMA TokenFrame ==
  ASSUME NEW t, TokenInv(t), vault'.gen = vault.gen, row'[t] = row[t], hold'[t] = hold[t],
         known'[t] = known[t], opened'[t] = opened[t], wrote'[t] = wrote[t],
         granted'[t] = granted[t], cut'[t] = cut[t]
  PROVE  TokenInv(t)'
BY DEF TokenInv, RowExact, SeenExact, Learned, ViewExact, ListExact, Within, Upto

\* A handle that does not move, while the vault goes on.
LEMMA JobFrame ==
  ASSUME TypeOK, NEW o \in Handles, JobExact(o), own'[o] = own[o], plan' = plan,
         vault' \in [gen : Gens, rev : Nat, val : [Names -> Nat]],
         vault'.gen >= vault.gen, vault'.rev >= vault.rev,
         vault'.rev = vault.rev => vault'.val = vault.val
  PROVE  JobExact(o)'
<1>1. /\ own[o].view \in Nat /\ own[o].job.rev \in Nat
      /\ vault.gen \in Nat /\ vault'.gen \in Nat /\ vault.rev \in Nat /\ vault'.rev \in Nat
  BY TokenAccessAssumption, SMTT(30) DEF TypeOK, Job, Gens
<1> QED BY <1>1 DEF JobExact

\* A step of one handle that is not applied to the vault.
LEMMA OwnStep ==
  ASSUME IInv, NEW o \in Handles, NEW job \in Job, own' = [own EXCEPT ![o].job = job],
         UNCHANGED <<plan, vault, row, hold, known, opened, wrote, granted, cut, acked>>,
         job.at # "idle" => own[o].view < plan.gens,
         job.at \in {"gather", "send"} => job.rev <= vault.rev,
         job.at = "send" /\ job.rev = vault.rev => job.sent = vault.val
  PROVE  IInv'
<1> USE DEF IInv
<1>1. /\ own' \in [Handles -> [view : 0..MaxGen, list : SUBSET Tokens, job : Job]]
      /\ own'[o].job = job /\ own'[o].view = own[o].view
      /\ \A q \in Handles \ {o} : own'[q] = own[q]
  BY DEF TypeOK
<1>2. TypeOK'
  BY <1>1 DEF TypeOK
<1>3. \A t \in Tokens : TokenInv(t)'
  BY TokenFrame
<1>4. \A q \in Handles \ {o} : JobExact(q)'
  BY <1>1 DEF JobExact
<1>5. JobExact(o)'
  BY <1>1 DEF JobExact
<1> QED BY <1>2, <1>3, <1>4, <1>5

\* A step of one token's holder.
LEMMA HolderFrame ==
  ASSUME IInv, NEW t \in Tokens, UNCHANGED <<plan, row, own, granted, cut>>,
         vault' \in [gen : Gens, rev : Nat, val : [Names -> Nat]],
         vault'.gen = vault.gen, vault'.rev >= vault.rev,
         vault'.rev = vault.rev => vault'.val = vault.val,
         acked' \in [Names -> Nat], vault'.val = acked',
         hold' \in [Tokens -> Hold],
         known' \in [Tokens -> SUBSET (Kinds \X Gens)],
         opened' \in [Tokens -> SUBSET (Names \X Gens)],
         wrote' \in [Tokens -> SUBSET Gens],
         \A u \in Tokens \ {t} : /\ hold'[u] = hold[u] /\ known'[u] = known[u]
                                 /\ opened'[u] = opened[u] /\ wrote'[u] = wrote[u],
         TokenInv(t)'
  PROVE  IInv'
<1> USE DEF IInv
<1>1. TypeOK'
  BY DEF TypeOK
<1>2. \A u \in Tokens \ {t} : TokenInv(u)'
  BY TokenFrame
<1>3. vault.gen \in Nat
  BY DEF TypeOK, Gens
<1>4. \A o \in Handles : JobExact(o)'
  BY <1>3, JobFrame
<1> QED BY <1>1, <1>2, <1>4

\* A request that ends, whatever it has learned.
LEMMA EndsStep ==
  ASSUME IInv, NEW t \in Tokens, NEW out \in {"none", "whole", "part"}, Ends(t, out),
         hold[t].at # "closed", out = "part" => hold[t].view.gen # vault.gen,
         row'[t] = row[t], granted'[t] = granted[t], cut'[t] = cut[t],
         vault'.gen = vault.gen, Learned(t)'
  PROVE  /\ hold' \in [Tokens -> Hold] /\ \A u \in Tokens \ {t} : hold'[u] = hold[u]
         /\ TokenInv(t)'
<1> USE DEF IInv
<1>1. Unseen \in [row : Row, gen : 0..MaxGen] /\ NoCall \in Call /\ NoCall.op = "none"
  BY TokenAccessAssumption DEF Unseen, NoRow, Row, Call, NoCall
<1>2. /\ hold' \in [Tokens -> Hold] /\ (\A u \in Tokens \ {t} : hold'[u] = hold[u])
      /\ hold'[t].at \in {"closed", "idle"} /\ hold'[t].view = hold[t].view
      /\ hold'[t].call = NoCall /\ hold'[t].listed = out
  <2> DEFINE at == IF hold[t].view.gen = 0 THEN "closed" ELSE "idle"
             h == [hold[t] EXCEPT !.at = at, !.call = NoCall, !.seen = Unseen, !.listed = out]
  <2>1. hold \in [Tokens -> Hold] /\ hold[t] \in Hold
    BY DEF TypeOK
  <2>2. hold' = [hold EXCEPT ![t] = h]
    BY <2>1 DEF Ends
  <2>3. at \in {"closed", "idle"}
    OBVIOUS
  <2> HIDE DEF at
  <2>4. h \in Hold /\ h.at = at /\ h.view = hold[t].view /\ h.call = NoCall /\ h.listed = out
    BY <1>1, <2>1, <2>3 DEF Hold
  <2> HIDE DEF h
  <2> QED BY <2>1, <2>2, <2>3, <2>4
<1>3. row[t].at # "new"
  BY DEF TokenInv, RowExact, Shut
<1>4. RowExact(t)'
  BY <1>3 DEF TokenInv, RowExact
<1>5. SeenExact(t)' /\ ViewExact(t)' /\ ListExact(t)'
  BY <1>1, <1>2 DEF TokenInv, SeenExact, ViewExact, ListExact, Within
<1> QED BY <1>2, <1>4, <1>5 DEF TokenInv

\* A request that begins: its row is read while the token is registered.
LEMMA CallsStep ==
  ASSUME IInv, NEW t \in Tokens, NEW call \in Call, row[t].at = "live", Calls(t, call),
         hold[t].view.gen = vault.gen /\ call.op = "list" => call.got = Upto(call.after),
         UNCHANGED <<plan, vault, row, own, known, opened, wrote, granted, cut, acked>>
  PROVE  IInv'
<1> USE DEF IInv
<1>1. [row |-> row[t], gen |-> 0] \in [row : Row, gen : 0..MaxGen]
  BY TokenAccessAssumption DEF TypeOK
<1>2. /\ hold' \in [Tokens -> Hold] /\ (\A u \in Tokens \ {t} : hold'[u] = hold[u])
      /\ hold'[t].at = "row" /\ hold'[t].view = hold[t].view /\ hold'[t].call = call
      /\ hold'[t].listed = hold[t].listed /\ hold'[t].seen.row = row[t]
  <2> DEFINE h == [hold[t] EXCEPT !.at = "row", !.call = call,
                                  !.seen = [row |-> row[t], gen |-> 0]]
  <2>1. hold \in [Tokens -> Hold] /\ hold[t] \in Hold
    BY DEF TypeOK
  <2>2. hold' = [hold EXCEPT ![t] = h]
    BY <2>1 DEF Calls
  <2>3. /\ h \in Hold /\ h.at = "row" /\ h.view = hold[t].view /\ h.call = call
        /\ h.listed = hold[t].listed /\ h.seen.row = row[t]
    BY <1>1, <2>1 DEF Hold
  <2> HIDE DEF h
  <2> QED BY <2>1, <2>2, <2>3
<1>3. RowExact(t)' /\ Learned(t)'
  BY <1>2 DEF TokenInv, RowExact, Learned, Within
<1>4. SeenExact(t)'
  BY <1>2 DEF TokenInv, SeenExact, RowExact, Within, TypeOK, Gens
<1>5. ViewExact(t)' /\ ListExact(t)'
  BY <1>2 DEF TokenInv, ViewExact, ListExact, Within, Upto
<1>6. vault.rev \in Nat /\ vault.gen \in Nat
  BY DEF TypeOK, Gens
<1>7. TokenInv(t)'
  BY <1>3, <1>4, <1>5 DEF TokenInv
<1> QED BY <1>2, <1>6, <1>7, HolderFrame DEF TypeOK

-----------------------------------------------------------------------------
(* The owner's steps. *)

\* The numbers of the vault, and the room a rotation has.
LEMMA VaultNumbers ==
  ASSUME TypeOK
  PROVE  /\ vault.gen \in Nat /\ vault.gen \in Gens /\ vault.rev \in Nat
         /\ vault.val \in [Names -> Nat] /\ MaxGen \in Nat
         /\ plan.gens \in Nat /\ plan.gens <= MaxGen
         /\ plan.handles \subseteq Handles /\ DOMAIN plan.scope \subseteq Tokens
         /\ \A t \in DOMAIN plan.scope : /\ plan.scope[t] \in Scopes
                                         /\ plan.by[t] \in {"sdk", "mcp"}
                                         /\ plan.only[t] \subseteq Secrets
BY TokenAccessAssumption DEF TypeOK, Gens, Scopes

\* The owner opens an environment.
LEMMA OpenStep ==
  ASSUME IInv, NEW o \in Handles, open_owner(o), UNCHANGED plan
  PROVE  IInv'
<1> USE DEF IInv
<1>1. Registered \subseteq Tokens /\ vault.gen \in 0..MaxGen
  BY VaultNumbers DEF Registered, Gens
<1>2. /\ own' \in [Handles -> [view : 0..MaxGen, list : SUBSET Tokens, job : Job]]
      /\ own'[o].view = vault.gen /\ own'[o].job = own[o].job /\ own[o].job.at = "idle"
      /\ \A q \in Handles \ {o} : own'[q] = own[q]
  BY <1>1, ZenonT(30) DEF open_owner, TypeOK
<1>3. UNCHANGED <<vault, row, hold, known, opened, wrote, granted, cut, acked>>
  BY DEF open_owner, ghosts
<1>4. TypeOK'
  BY <1>2, <1>3 DEF TypeOK
<1>5. \A t \in Tokens : TokenInv(t)'
  BY <1>3, TokenFrame
<1>6. \A q \in Handles : JobExact(q)'
  BY <1>2, <1>3, VaultNumbers DEF JobExact
<1> QED BY <1>3, <1>4, <1>5, <1>6

\* A handle prepares its rotation: nothing of the vault changes, and the
\* batch holds the records of the revision it is for, or is too old.
LEMMA PrepareStep ==
  ASSUME IInv, NEW o \in Handles, UNCHANGED plan,
         \/ \E ids \in SUBSET Tokens : rotate(o, ids)
         \/ rotate_status(o) \/ all_versions(o)
         \/ send_rotation(o) /\ ~strict(o)
  PROVE  IInv'
<1> USE DEF IInv
<1>1. /\ own[o].job \in Job /\ own[o].view \in Nat /\ JobExact(o) /\ Registered \subseteq Tokens
      /\ vault.val \in [Names -> Nat] /\ vault.rev \in Nat /\ Tries \in Int
  BY VaultNumbers, TokenAccessAssumption DEF TypeOK, Registered
<1>2. NoRotation \in Job /\ NoRotation.at = "idle"
  BY DEF NoRotation, Job
<1>3. Tried(o) \in Job /\ Tried(o).at \in {"idle", "status"}
  <2>1. \A j \in Job, left \in Int : /\ [j EXCEPT !.at = "status", !.left = left] \in Job
                                     /\ [j EXCEPT !.at = "status", !.left = left].at = "status"
    BY DEF Job
  <2>2. own[o].job.left - 1 \in Int
    BY <1>1 DEF Job
  <2> QED BY <1>1, <1>2, <2>1, <2>2 DEF Tried
<1>4. ASSUME NEW ids \in SUBSET Tokens, rotate(o, ids) PROVE IInv'
  <2> DEFINE job == [NoRotation EXCEPT !.at = "status", !.revoke = ids, !.left = Tries]
  <2>1. job \in Job /\ job.at = "status"
    BY <1>1 DEF NoRotation, Job
  <2>2. own[o].view < plan.gens
    <3>1. vault.gen < plan.gens /\ own[o].view <= vault.gen
      BY <1>1, <1>4 DEF rotate, JobExact
    <3> QED BY <1>1, <3>1, VaultNumbers
  <2>3. /\ own' = [own EXCEPT ![o].job = job]
        /\ UNCHANGED <<vault, row, hold, known, opened, wrote, granted, cut, acked>>
    BY <1>4 DEF rotate, Rotating, ghosts
  <2> HIDE DEF job
  <2> QED BY <2>1, <2>2, <2>3, OwnStep
<1>5. CASE rotate_status(o)
  <2> DEFINE job == IF own[o].view # vault.gen THEN NoRotation
                    ELSE [own[o].job EXCEPT !.at = "gather", !.rev = vault.rev, !.tokens = Registered]
  <2>1. own[o].job.at = "status"
    BY <1>5 DEF rotate_status
  <2>2. /\ job \in Job
        /\ job.at # "idle" => job.at = "gather" /\ job.rev = vault.rev
    BY <1>1, <1>2 DEF Job
  <2>3. /\ own' = [own EXCEPT ![o].job = job]
        /\ UNCHANGED <<vault, row, hold, known, opened, wrote, granted, cut, acked>>
    BY <1>5 DEF rotate_status, Rotating, ghosts
  <2> HIDE DEF job
  <2>4. own[o].view < plan.gens /\ (job.at \in {"gather", "send"} => job.rev <= vault.rev)
        /\ job.at # "send"
    BY <1>1, <2>1, <2>2 DEF JobExact
  <2> QED BY <2>2, <2>3, <2>4, OwnStep
<1>6. CASE all_versions(o)
  <2> DEFINE sent == [own[o].job EXCEPT !.at = "send", !.sent = vault.val]
  <2>1. own[o].job.at = "gather"
    BY <1>6 DEF all_versions
  <2>2. sent \in Job /\ sent.at = "send" /\ sent.rev = own[o].job.rev /\ sent.sent = vault.val
    BY <1>1 DEF Job
  <2>3. /\ UNCHANGED <<vault, row, hold, known, opened, wrote, granted, cut, acked>>
        /\ \E job \in {sent, NoRotation, Tried(o)} : own' = [own EXCEPT ![o].job = job]
    BY <1>6 DEF all_versions, Rotating, ghosts
  <2> HIDE DEF sent
  <2>4. PICK job \in {sent, NoRotation, Tried(o)} : own' = [own EXCEPT ![o].job = job]
    BY <2>3
  <2>5. /\ job \in Job
        /\ job.at # "idle" => own[o].view < plan.gens
        /\ job.at \in {"gather", "send"} => job.rev <= vault.rev
        /\ job.at = "send" /\ job.rev = vault.rev => job.sent = vault.val
    BY <1>1, <1>2, <1>3, <2>1, <2>2, <2>4 DEF JobExact
  <2> QED BY <2>3, <2>4, <2>5, OwnStep
<1>7. CASE send_rotation(o) /\ ~strict(o)
  <2>1. /\ own[o].job.at = "send" /\ own' = [own EXCEPT ![o].job = Tried(o)]
        /\ UNCHANGED <<vault, row, hold, known, opened, wrote, granted, cut, acked>>
    BY <1>7 DEF send_rotation, Rotating
  <2>2. own[o].view < plan.gens
    BY <1>1, <2>1 DEF JobExact
  <2> QED BY <1>3, <2>1, <2>2, OwnStep
<1> QED BY <1>4, <1>5, <1>6, <1>7

\* A token is minted: its row gives what it is granted.
LEMMA MintStep ==
  ASSUME IInv, NEW o \in Handles, NEW t \in Tokens, NEW scope \in Scopes,
         NEW only \in SUBSET Secrets, mint(o, t, scope, only), UNCHANGED plan
  PROVE  IInv'
<1> USE DEF IInv
<1> DEFINE g == vault.gen
           allow == IF only = {} THEN AllowAll ELSE {Hmac[n][g] : n \in only}
           names == IF only = {} THEN Secrets ELSE only
           r == [at |-> "live", scope |-> scope, gen |-> g, keys |-> seal_for_scope(scope, g),
                 allow |-> allow]
<1>1. /\ row[t].at = "new" /\ row' = [row EXCEPT ![t] = r]
      /\ vault' = [vault EXCEPT !.rev = @ + 1] /\ granted' = [granted EXCEPT ![t] = names]
      /\ UNCHANGED <<own, hold, known, opened, wrote, cut, acked>>
  BY DEF mint
<1>2. g \in Gens /\ g \in 0..MaxGen /\ g \in Nat
  BY VaultNumbers DEF Gens
<1>3. AllowFits(allow, names) /\ allow \in SUBSET Nat /\ names \in SUBSET Secrets
  <2>1. \A n \in Secrets, i \in Gens : Hmac[n][i] \in Nat /\ Hmac[n][i] # 0
    BY TokenAccessAssumption DEF Names, Gens
  <2>2. \A m, n \in Secrets, i \in Gens : Hmac[m][i] = Hmac[n][g] => m = n
    BY <1>2, TokenAccessAssumption DEF Names, Gens
  <2> HIDE DEF g
  <2>3. CASE only = {}
    BY <2>1, <2>3 DEF AllowFits, AllowAll
  <2>4. CASE only # {}
    <3>1. allow = {Hmac[n][g] : n \in only} /\ names = only
      BY <2>4
    <3>2. 0 \notin allow
      BY <1>2, <2>1, <3>1
    <3> QED BY <1>2, <2>1, <2>2, <3>1, <3>2 DEF AllowFits, AllowAll
  <2> QED BY <2>3, <2>4
<1> HIDE DEF allow, names, g
<1>4. /\ r \in Row /\ r.at = "live" /\ r.scope = scope /\ r.gen = g /\ r.allow = allow
      /\ r.keys = seal_for_scope(scope, g)
  BY <1>2, <1>3, SealedKeys DEF Row
<1> HIDE DEF r
<1>5. /\ row' \in [Tokens -> Row] /\ row'[t] = r /\ (\A u \in Tokens \ {t} : row'[u] = row[u])
      /\ granted' \in [Tokens -> SUBSET Secrets] /\ granted'[t] = names
      /\ \A u \in Tokens \ {t} : granted'[u] = granted[u]
  BY <1>1, <1>3, <1>4 DEF TypeOK
<1>6. /\ vault' \in [gen : Gens, rev : Nat, val : [Names -> Nat]] /\ vault'.gen = vault.gen
      /\ vault'.rev = vault.rev + 1 /\ vault'.val = vault.val
  BY <1>1 DEF TypeOK
<1>7. TypeOK'
  BY <1>1, <1>5, <1>6 DEF TypeOK
<1>8. \A u \in Tokens \ {t} : TokenInv(u)'
  BY <1>1, <1>5, <1>6, TokenFrame
<1>9. TokenInv(t)'
  <2>1. /\ known[t] = {} /\ opened[t] = {} /\ wrote[t] = {} /\ cut[t] = 0
        /\ hold[t].at = "closed" /\ hold[t].view.gen = 0 /\ hold[t].view.keys = {}
    BY <1>1 DEF TokenInv, RowExact, Shut, NoView
  <2>2. RowExact(t)'
    BY <1>1, <1>3, <1>4, <1>5, <1>6, <2>1 DEF RowExact, g
  <2>3. SeenExact(t)' /\ Learned(t)'
    BY <1>1, <2>1 DEF SeenExact, Learned
  <2>4. ViewExact(t)' /\ ListExact(t)'
    BY <1>1, <1>2, <1>6, <2>1 DEF ViewExact, ListExact, Within, g, Gens
  <2> QED BY <2>2, <2>3, <2>4 DEF TokenInv
<1>10. \A q \in Handles : JobExact(q)'
  BY <1>1, <1>6, JobFrame, VaultNumbers
<1> QED BY <1>1, <1>6, <1>7, <1>8, <1>9, <1>10

\* A token that is deleted, while its holder waits or has just been answered:
\* all it has is of generations up to the vault's.
LEMMA DeletedToken ==
  ASSUME IInv, NEW t \in Tokens, row[t].at = "live", row'[t] = [NoRow EXCEPT !.at = "gone"],
         vault'.gen \in {vault.gen, vault.gen + 1}, cut'[t] = vault.gen + 1,
         known'[t] = known[t], opened'[t] = opened[t], wrote'[t] = wrote[t],
         granted'[t] = granted[t],
         hold'[t].view = hold[t].view, hold'[t].listed = hold[t].listed,
         \/ hold'[t] = hold[t]
         \/ hold'[t].at \in {"closed", "idle"} /\ hold'[t].call.op = "none"
  PROVE  TokenInv(t)'
<1> USE DEF IInv
<1>1. vault.gen \in Nat /\ \A g \in Nat : Within(t, g) => Within(t, g)'
  BY VaultNumbers DEF Within
<1>2. row'[t].at = "gone" /\ cut'[t] # 0
  BY <1>1 DEF NoRow
<1>3. RowExact(t)'
  BY <1>2 DEF RowExact
<1>4. SeenExact(t)'
  <2>1. CASE hold'[t] = hold[t]
    BY <1>1, <1>2, <2>1 DEF TokenInv, SeenExact, Gens
  <2>2. CASE hold'[t].at \in {"closed", "idle"}
    BY <2>2 DEF SeenExact
  <2> QED BY <2>1, <2>2
<1>5. Learned(t)'
  <2>1. /\ \A k \in known[t] \cup opened[t] : k[2] \in Nat
        /\ \A g \in wrote[t] : g \in Nat
    BY DEF TypeOK, Gens
  <2> QED BY <1>1, <1>2, <2>1 DEF TokenInv, Learned
<1>6. hold[t].view.gen \in Nat /\ hold[t].view.gen <= vault.gen
  BY TokenAccessAssumption DEF TypeOK, Hold, View, TokenInv, ViewExact, Within
<1>7. ViewExact(t)'
  BY <1>1, <1>6 DEF TokenInv, ViewExact
<1>8. ListExact(t)'
  BY <1>1, <1>6 DEF TokenInv, ListExact, Upto
<1> QED BY <1>3, <1>4, <1>5, <1>7, <1>8 DEF TokenInv

\* The tables after a deletion.
LEMMA DeleteTables ==
  ASSUME IInv, NEW t \in Tokens, delete_tokens(t)
  PROVE  /\ row[t].at = "live" /\ row' \in [Tokens -> Row]
         /\ row'[t] = [NoRow EXCEPT !.at = "gone"] /\ cut'[t] = vault.gen + 1
         /\ \A u \in Tokens \ {t} : row'[u] = row[u] /\ cut'[u] = cut[u]
         /\ cut' \in [Tokens -> Nat]
         /\ vault' \in [gen : Gens, rev : Nat, val : [Names -> Nat]]
         /\ vault'.gen = vault.gen /\ vault'.rev = vault.rev + 1 /\ vault'.val = vault.val
         /\ UNCHANGED <<known, opened, wrote, granted>>
<1> USE DEF IInv
<1>1. [NoRow EXCEPT !.at = "gone"] \in Row
  BY VaultNumbers DEF NoRow, Row
<1>2. /\ row' \in [Tokens -> Row] /\ row'[t] = [NoRow EXCEPT !.at = "gone"]
      /\ \A u \in Tokens \ {t} : row'[u] = row[u]
  BY <1>1 DEF delete_tokens, TypeOK
<1>3. /\ vault' \in [gen : Gens, rev : Nat, val : [Names -> Nat]]
      /\ vault'.gen = vault.gen /\ vault'.rev = vault.rev + 1 /\ vault'.val = vault.val
  BY SMTT(30) DEF delete_tokens, TypeOK
<1> QED BY <1>2, <1>3, VaultNumbers DEF delete_tokens, TypeOK

\* A revocation without a rotation, and a report.
LEMMA DeleteStep ==
  ASSUME IInv, NEW t \in Tokens, delete_tokens(t), UNCHANGED <<plan, own, hold, acked>>
  PROVE  IInv'
<1> USE DEF IInv
<1>1. TypeOK'
  BY DeleteTables DEF TypeOK
<1>2. \A u \in Tokens \ {t} : TokenInv(u)'
  BY DeleteTables, TokenFrame
<1>3. TokenInv(t)'
  BY DeleteTables, DeletedToken
<1>4. vault.rev + 1 >= vault.rev /\ vault.rev + 1 # vault.rev /\ vault.gen >= vault.gen
  BY VaultNumbers
<1>5. \A o \in Handles : JobExact(o)'
  BY <1>4, DeleteTables, JobFrame
<1>6. vault'.val = acked'
  BY DeleteTables
<1> QED BY <1>1, <1>2, <1>3, <1>5, <1>6

\* A rotation is applied: every registered token gets the next generation's
\* bundle or is dropped, and the records are those of the vault.
LEMMA RotateStep ==
  ASSUME IInv, NEW o \in Handles, send_rotation(o), strict(o), UNCHANGED plan
  PROVE  IInv'
<1> USE DEF IInv
<1> DEFINE job == own[o].job
           g == vault.gen + 1
           drop == job.revoke \cap Registered
<1>1. /\ job \in Job /\ job.at = "send" /\ job.tokens = Registered /\ job.rev = vault.rev
      /\ own[o].view = vault.gen
  BY DEF send_rotation, strict, TypeOK
<1>2. job.sent = vault.val /\ g \in Gens /\ vault.gen \in Nat
  <2>1. job.sent = vault.val /\ own[o].view < plan.gens
    BY <1>1 DEF JobExact
  <2> QED BY <1>1, <2>1, VaultNumbers DEF Gens
<1>3. vault' = [gen |-> g, rev |-> vault.rev + 1, val |-> vault.val]
  BY <1>1, <1>2 DEF send_rotation
<1>3r. row' = [t \in Tokens |->
              IF t \in drop THEN [NoRow EXCEPT !.at = "gone"]
              ELSE IF t \in Registered
              THEN [row[t] EXCEPT !.gen = g, !.keys = seal_for_scope(row[t].scope, g)]
              ELSE row[t]]
  BY <1>1 DEF send_rotation
<1>3c. cut' = [t \in Tokens |-> IF t \in drop THEN g ELSE cut[t]]
  BY <1>1 DEF send_rotation
<1>3o. own' = [own EXCEPT ![o].job = NoRotation]
  BY DEF send_rotation, Rotating
<1>3u. UNCHANGED <<hold, known, opened, wrote, granted, acked>>
  BY DEF send_rotation
<1>4. /\ vault' \in [gen : Gens, rev : Nat, val : [Names -> Nat]]
      /\ vault'.gen = vault.gen + 1 /\ vault'.rev = vault.rev + 1 /\ vault'.val = vault.val
  <2>1. g \in Gens /\ vault.rev + 1 \in Nat /\ vault.val \in [Names -> Nat]
    BY <1>2, VaultNumbers
  <2> QED BY <1>3, <2>1
<1>5. ASSUME NEW t \in drop
      PROVE  /\ row[t].at = "live" /\ row'[t] \in Row /\ row'[t] = [NoRow EXCEPT !.at = "gone"]
             /\ cut'[t] = vault.gen + 1 /\ t \in Tokens
  <2>1. t \in Tokens /\ row[t].at = "live"
    BY <1>5 DEF Registered
  <2>2. [NoRow EXCEPT !.at = "gone"] \in Row
    BY VaultNumbers DEF NoRow, Row
  <2> QED BY <1>3r, <1>3c, <1>5, <2>1, <2>2
<1>6. ASSUME NEW t \in Registered \ drop
      PROVE  /\ t \in Tokens /\ row[t].at = "live" /\ row'[t] \in Row /\ row'[t].at = "live"
             /\ row'[t].scope = row[t].scope /\ row'[t].allow = row[t].allow
             /\ row'[t].gen = vault.gen + 1 /\ cut'[t] = cut[t]
             /\ row'[t].keys = seal_for_scope(row[t].scope, vault.gen + 1)
  <2>1. t \in Tokens /\ row[t] \in Row /\ row[t].at = "live" /\ row[t].scope \in Scopes
    BY <1>6 DEF Registered, TypeOK, TokenInv, RowExact
  <2>2. seal_for_scope(row[t].scope, g) \in SUBSET (Kinds \X Gens) /\ g \in 0..MaxGen
    BY <1>2, <2>1, SealedKeys DEF Gens
  <2>3. row'[t] = [row[t] EXCEPT !.gen = g, !.keys = seal_for_scope(row[t].scope, g)]
        /\ cut'[t] = cut[t]
    BY <1>3r, <1>3c, <1>6, <2>1
  <2> QED BY <2>1, <2>2, <2>3 DEF Row
<1>7. ASSUME NEW t \in Tokens \ Registered
      PROVE  row'[t] = row[t] /\ cut'[t] = cut[t] /\ row'[t] \in Row /\ row[t].at # "live"
  BY <1>3r, <1>3c, <1>7 DEF Registered, TypeOK
<1>8. row' \in [Tokens -> Row] /\ cut' \in [Tokens -> Nat]
  <2>1. \A t \in Tokens : row'[t] \in Row
    BY <1>5, <1>6, <1>7
  <2>2. DOMAIN row' = Tokens /\ row' = [t \in Tokens |-> row'[t]]
    BY <1>3r
  <2>3. cut' \in [Tokens -> Nat]
    <3> HIDE DEF drop
    <3> QED BY <1>2, <1>3c DEF TypeOK, Gens
  <2> HIDE DEF drop
  <2> QED BY <2>1, <2>2, <2>3
<1>9. /\ own' \in [Handles -> [view : 0..MaxGen, list : SUBSET Tokens, job : Job]]
      /\ own'[o].view = own[o].view /\ own'[o].job = NoRotation /\ NoRotation.at = "idle"
      /\ \A q \in Handles \ {o} : own'[q] = own[q]
  <2>1. NoRotation \in Job /\ NoRotation.at = "idle"
    BY DEF NoRotation, Job
  <2> QED BY <1>3o, <2>1 DEF TypeOK
<1> HIDE DEF job, g, drop
<1>10. TypeOK'
  BY <1>3u, <1>4, <1>8, <1>9 DEF TypeOK
<1>11. ASSUME NEW t \in Tokens, t \notin drop PROVE TokenInv(t)'
  <2>1. /\ cut'[t] = cut[t] /\ row'[t].at = row[t].at /\ row'[t].scope = row[t].scope
        /\ row'[t].allow = row[t].allow
    BY <1>6, <1>7, <1>11
  <2>2. \A i \in Nat : Within(t, i) => Within(t, i)'
    BY <1>2, <1>4, <2>1 DEF Within
  <2>3. RowExact(t)'
    <3>1. row'[t].at = "live" => /\ row'[t].gen = vault'.gen
                                /\ row'[t].keys = seal_for_scope(row'[t].scope, row'[t].gen)
      BY <1>4, <1>6, <1>7, <1>11
    <3> QED BY <1>3u, <2>1, <3>1 DEF TokenInv, RowExact
  <2>4. SeenExact(t)'
    BY <1>3u, <2>1, <2>2 DEF TokenInv, SeenExact, Gens
  <2>5. Learned(t)'
    <3>1. /\ \A k \in known[t] \cup opened[t] : k[2] \in Nat
          /\ \A i \in wrote[t] : i \in Nat
      BY DEF TypeOK, Gens
    <3> QED BY <1>3u, <2>1, <2>2, <3>1 DEF TokenInv, Learned
  <2>6. hold[t].view.gen \in Nat /\ hold[t].view.gen <= vault.gen
    BY TokenAccessAssumption DEF TypeOK, Hold, View, TokenInv, ViewExact, Within
  <2>7. ViewExact(t)' /\ ListExact(t)'
    BY <1>2, <1>3u, <1>4, <2>2, <2>6 DEF TokenInv, ViewExact, ListExact
  <2> QED BY <2>3, <2>4, <2>5, <2>7 DEF TokenInv
<1>12. ASSUME NEW t \in drop PROVE TokenInv(t)'
  BY <1>3u, <1>4, <1>5, <1>12, DeletedToken
<1>13. \A q \in Handles \ {o} : JobExact(q)'
  <2>1. vault'.gen >= vault.gen /\ vault'.rev >= vault.rev
    BY <1>4, VaultNumbers
  <2> QED BY <1>4, <1>9, <2>1, JobFrame
<1>14. JobExact(o)'
  BY <1>1, <1>2, <1>4, <1>9 DEF JobExact
<1> QED BY <1>3u, <1>4, <1>10, <1>11, <1>12, <1>13, <1>14

-----------------------------------------------------------------------------
(* The holder's steps. *)

\* What a call in progress carries.
LEMMA CallShape ==
  /\ \A c \in Call :
        /\ c.op \in {"read", "write"} => c.name \in Names
        /\ c.op = "revoke" => c.token \in Tokens
        /\ c.op = "list" => c.after \in Nat /\ c.got \subseteq Secrets /\ c.again \in BOOLEAN
        /\ c.op = "self" => c.by \in {"sdk", "mcp"} /\ c.after \in {NoCall, Listing(0, {}, TRUE)}
  /\ NoCall \in Call /\ NoCall.op = "none"
  /\ \A n \in Names, op \in {"read", "write"} : [op |-> op, name |-> n] \in Call
  /\ \A u \in Tokens : [op |-> "revoke", token |-> u] \in Call
  /\ \A after \in Nat, got \in SUBSET Secrets, again \in BOOLEAN :
        /\ Listing(after, got, again) \in Call /\ Listing(after, got, again).op = "list"
        /\ Listing(after, got, again).after = after /\ Listing(after, got, again).got = got
  /\ \A by \in {"sdk", "mcp"}, c \in {NoCall, Listing(0, {}, TRUE)} :
        /\ [op |-> "self", by |-> by, after |-> c] \in Call
        /\ [op |-> "self", by |-> by, after |-> c].op = "self"
<1>1. \A c \in Call :
        /\ c.op \in {"read", "write"} => c.name \in Names
        /\ c.op = "revoke" => c.token \in Tokens
        /\ c.op = "list" => c.after \in Nat /\ c.got \subseteq Secrets /\ c.again \in BOOLEAN
        /\ c.op = "self" => c.by \in {"sdk", "mcp"} /\ c.after \in {NoCall, Listing(0, {}, TRUE)}
  <2> SUFFICES ASSUME NEW c \in Call
               PROVE  /\ c.op \in {"read", "write"} => c.name \in Names
                      /\ c.op = "revoke" => c.token \in Tokens
                      /\ c.op = "list" => c.after \in Nat /\ c.got \subseteq Secrets /\ c.again \in BOOLEAN
                      /\ c.op = "self" => c.by \in {"sdk", "mcp"} /\ c.after \in {NoCall, Listing(0, {}, TRUE)}
    OBVIOUS
  <2>1. CASE c = NoCall
    BY <2>1 DEF NoCall
  <2>2. CASE c \in [op : {"read", "write"}, name : Names]
    BY <2>2
  <2>3. CASE c \in [op : {"revoke"}, token : Tokens]
    BY <2>3
  <2>4. CASE c \in [op : {"list"}, after : Nat, got : SUBSET Secrets, again : BOOLEAN]
    BY <2>4
  <2>5. CASE c \in [op : {"self"}, by : {"sdk", "mcp"}, after : {NoCall, Listing(0, {}, TRUE)}]
    BY <2>5
  <2> QED BY <2>1, <2>2, <2>3, <2>4, <2>5 DEF Call
<1>2. /\ NoCall \in Call /\ NoCall.op = "none"
      /\ \A n \in Names, op \in {"read", "write"} : [op |-> op, name |-> n] \in Call
      /\ \A u \in Tokens : [op |-> "revoke", token |-> u] \in Call
  BY DEF Call, NoCall
<1>3. \A after \in Nat, got \in SUBSET Secrets, again \in BOOLEAN :
        /\ Listing(after, got, again) \in Call /\ Listing(after, got, again).op = "list"
        /\ Listing(after, got, again).after = after /\ Listing(after, got, again).got = got
  BY DEF Call, Listing
<1>4. \A by \in {"sdk", "mcp"}, c \in {NoCall, Listing(0, {}, TRUE)} :
        /\ [op |-> "self", by |-> by, after |-> c] \in Call
        /\ [op |-> "self", by |-> by, after |-> c].op = "self"
  BY DEF Call
<1> QED BY <1>1, <1>2, <1>3, <1>4

\* A listing begins with nothing, which is all there is up to index 0.
LEMMA FromStart ==
  ASSUME TypeOK
  PROVE  Upto(0) = {}
<1>1. \A n \in Secrets : Hmac[n][vault.gen] \in Nat \ {0}
  BY TokenAccessAssumption, VaultNumbers DEF Names, Gens
<1> QED BY <1>1 DEF Upto

\* A request that ends with nothing learned.
LEMMA ReturnsStep ==
  ASSUME IInv, NEW t \in Tokens, Returns(t), hold[t].at # "closed",
         UNCHANGED <<plan, vault, row, own, known, opened, wrote, granted, cut, acked>>
  PROVE  IInv'
<1>1. /\ hold[t].listed \in {"none", "whole", "part"}
      /\ hold[t].listed = "part" => hold[t].view.gen # vault.gen
      /\ Ends(t, hold[t].listed)
  BY DEF IInv, TypeOK, Hold, TokenInv, ListExact, Returns
<1>2. Learned(t)'
  BY DEF IInv, TokenInv, Learned, Within
<1>3. /\ hold' \in [Tokens -> Hold] /\ (\A u \in Tokens \ {t} : hold'[u] = hold[u])
      /\ TokenInv(t)'
  BY <1>1, <1>2, EndsStep
<1>4. vault.rev >= vault.rev
  BY VaultNumbers DEF IInv
<1> QED BY <1>3, <1>4, HolderFrame DEF IInv, TypeOK

\* The requests a holder makes, and the next page of a listing.
LEMMA RequestStep ==
  ASSUME IInv, NEW t \in DOMAIN plan.scope, UNCHANGED plan,
         \/ token_self(t, plan.by[t])
         \/ \E n \in Names : get(t, n) \/ write_value(t, n)
         \/ \E u \in Tokens : revoke_by_token(t, u)
         \/ list_secrets(t) \/ next_page(t)
  PROVE  IInv'
<1> USE DEF IInv
<1>1. t \in Tokens /\ plan.by[t] \in {"sdk", "mcp"}
  BY VaultNumbers
<1>2. ASSUME NEW call \in Call, token_by_id(t, call), call.op # "list" \/ call = Listing(0, {}, FALSE)
      PROVE  IInv'
  <2>1. /\ row[t].at = "live" /\ Calls(t, call)
        /\ UNCHANGED <<vault, row, own, known, opened, wrote, granted, cut, acked>>
    BY <1>2 DEF token_by_id, ghosts
  <2>2. call.op = "list" => call.got = Upto(call.after)
    <3>1. Listing(0, {}, FALSE).after = 0 /\ Listing(0, {}, FALSE).got = {}
      BY DEF Listing
    <3> QED BY <1>2, <3>1, FromStart
  <2> QED BY <1>1, <2>1, <2>2, CallsStep
<1>3. CASE token_self(t, plan.by[t])
  <2> DEFINE call == [op |-> "self", by |-> plan.by[t], after |-> NoCall]
  <2>1. call \in Call /\ call.op = "self"
    BY <1>1, CallShape
  <2>2. token_by_id(t, call)
    BY <1>3 DEF token_self
  <2> HIDE DEF call
  <2> QED BY <1>2, <2>1, <2>2
<1>4. ASSUME NEW n \in Names, NEW op \in {"read", "write"}, token_by_id(t, [op |-> op, name |-> n])
      PROVE  IInv'
  BY <1>2, <1>4, CallShape
<1>5. ASSUME NEW u \in Tokens, revoke_by_token(t, u) PROVE IInv'
  BY <1>2, <1>5, CallShape DEF revoke_by_token
<1>6. CASE list_secrets(t)
  BY <1>2, <1>6, CallShape DEF list_secrets
<1>7. CASE next_page(t)
  <2>1. /\ hold[t].at = "idle" /\ hold[t].call.op = "list" /\ hold[t].call \in Call
        /\ UNCHANGED <<vault, row, own, known, opened, wrote, granted, cut, acked>>
    BY <1>1, <1>7 DEF next_page, ghosts, TypeOK, Hold
  <2>2. CASE row[t].at = "live"
    <3>1. Calls(t, hold[t].call)
      BY <1>7, <2>2 DEF next_page
    <3>2. hold[t].view.gen = vault.gen => hold[t].call.got = Upto(hold[t].call.after)
      BY <1>1, <2>1 DEF TokenInv, ListExact
    <3> QED BY <1>1, <2>1, <2>2, <3>1, <3>2, CallsStep
  <2>3. CASE row[t].at # "live"
    <3>1. Returns(t)
      BY <1>7, <2>3 DEF next_page
    <3> QED BY <1>1, <2>1, <3>1, ReturnsStep
  <2> QED BY <2>2, <2>3
<1> QED BY <1>3, <1>4, <1>5, <1>6, <1>7 DEF get, write_value

\* The vault's row is read, after the token's.
LEMMA VaultRowStep ==
  ASSUME IInv, NEW t \in Tokens, vault_by_pk(t), UNCHANGED plan
  PROVE  IInv'
<1> USE DEF IInv
<1>1. /\ hold[t].at = "row" /\ hold[t] \in Hold
      /\ UNCHANGED <<vault, row, own, known, opened, wrote, granted, cut, acked>>
  BY DEF vault_by_pk, ghosts, TypeOK
<1>2. CASE t \in expired
  BY <1>1, <1>2, ReturnsStep DEF vault_by_pk
<1>3. CASE t \notin expired
  <2>1. hold' = [hold EXCEPT ![t].at = "handler", ![t].seen.gen = vault.gen]
    BY <1>3 DEF vault_by_pk
  <2>2. vault.gen \in 0..MaxGen /\ vault.rev >= vault.rev
    BY VaultNumbers DEF Gens
  <2>3. /\ hold'[t] \in Hold /\ hold'[t].at = "handler" /\ hold'[t].view = hold[t].view
        /\ hold'[t].call = hold[t].call /\ hold'[t].listed = hold[t].listed
        /\ hold'[t].seen.row = hold[t].seen.row
    BY <1>1, <2>1, <2>2 DEF TypeOK, Hold
  <2>4. hold' \in [Tokens -> Hold] /\ \A u \in Tokens \ {t} : hold'[u] = hold[u]
    BY <2>1, <2>3 DEF TypeOK
  <2>5. row[t].at # "new"
    BY <1>1 DEF TokenInv, RowExact, Shut
  <2>6. TokenInv(t)'
    BY <1>1, <2>3, <2>5 DEF TokenInv, RowExact, SeenExact, Learned, ViewExact, ListExact, Within, Upto
  <2> QED BY <1>1, <2>2, <2>4, <2>6, HolderFrame DEF TypeOK
<1> QED BY <1>2, <1>3

\* The holder learns its row's keys, and adopts them with the vault's
\* generation only if they are of it.
LEMMA WhoamiStep ==
  ASSUME IInv, NEW t \in Tokens, whoami(t), UNCHANGED plan
  PROVE  IInv'
<1> USE DEF IInv
<1> DEFINE c == hold[t].call
           r == hold[t].seen.row
           g == hold[t].seen.gen
<1>1. /\ hold[t].at = "handler" /\ c.op = "self" /\ c \in Call /\ hold[t] \in Hold
      /\ r \in Row /\ g \in 0..MaxGen
      /\ known' = [known EXCEPT ![t] = @ \cup r.keys]
      /\ UNCHANGED <<vault, row, own, opened, wrote, granted, cut, acked>>
  BY DEF whoami, Handling, TypeOK, Hold
<1>2. /\ r.scope \in Scopes /\ r.gen \in Gens /\ Within(t, r.gen)
      /\ r.keys = seal_for_scope(r.scope, r.gen)
      /\ row[t].at = "live" => row[t].scope = r.scope
  BY <1>1 DEF TokenInv, SeenExact
<1>3. /\ r.keys \subseteq Kinds \X Gens
      /\ \A k \in r.keys : k[1] \in KIND[r.scope] /\ k[2] = r.gen
  BY <1>2, SealedKeys
<1>4. /\ known' \in [Tokens -> SUBSET (Kinds \X Gens)] /\ known'[t] = known[t] \cup r.keys
      /\ \A u \in Tokens \ {t} : known'[u] = known[u]
  BY <1>1, <1>3 DEF TypeOK
<1> HIDE DEF r, g, c
<1>5. Learned(t)'
  BY <1>1, <1>2, <1>3, <1>4 DEF TokenInv, Learned, Within
<1>6. vault.rev >= vault.rev
  BY VaultNumbers
<1>7. row[t].at # "new"
  BY <1>1 DEF TokenInv, RowExact, Shut
<1>8. CASE Returns(t)
  <2>1. /\ hold[t].listed \in {"none", "whole", "part"}
        /\ hold[t].listed = "part" => hold[t].view.gen # vault.gen
        /\ Ends(t, hold[t].listed)
    BY <1>8 DEF TypeOK, Hold, TokenInv, ListExact, Returns
  <2>2. /\ hold' \in [Tokens -> Hold] /\ (\A u \in Tokens \ {t} : hold'[u] = hold[u])
        /\ TokenInv(t)'
    BY <1>1, <1>5, <2>1, EndsStep
  <2> QED BY <1>1, <1>4, <1>6, <2>2, HolderFrame DEF TypeOK
<1>9. CASE /\ token_view(r, g, c.by)
           /\ hold' = [hold EXCEPT ![t].at = "idle", ![t].by = c.by, ![t].call = c.after,
                                   ![t].view = [gen |-> g, keys |-> r.keys, allow |-> r.allow],
                                   ![t].seen = Unseen, ![t].listed = "none"]
  <2> DEFINE view == [gen |-> g, keys |-> r.keys, allow |-> r.allow]
             h == [hold[t] EXCEPT !.at = "idle", !.by = c.by, !.call = c.after, !.view = view,
                                  !.seen = Unseen, !.listed = "none"]
  <2>1. r.gen = g
    BY <1>9 DEF token_view
  <2>2. view \in View /\ view.gen = r.gen /\ view.keys = r.keys
    BY <1>1, <1>3, <2>1 DEF View, Row
  <2>3. /\ c.by \in {"sdk", "mcp"} /\ c.after \in Call
        /\ c.after.op = "list" => c.after.after = 0 /\ c.after.got = {}
    <3>1. c.after \in {NoCall, Listing(0, {}, TRUE)} /\ c.by \in {"sdk", "mcp"}
      BY <1>1, CallShape
    <3>2. NoCall.op = "none" /\ NoCall \in Call
      BY CallShape
    <3>3. /\ Listing(0, {}, TRUE) \in Call
          /\ Listing(0, {}, TRUE).after = 0 /\ Listing(0, {}, TRUE).got = {}
      BY DEF Listing, Call
    <3> QED BY <3>1, <3>2, <3>3
  <2>4. Unseen \in [row : Row, gen : 0..MaxGen]
    BY VaultNumbers DEF Unseen, NoRow, Row
  <2>5. hold' = [hold EXCEPT ![t] = h]
    BY <1>9 DEF TypeOK, c
  <2> HIDE DEF view
  <2>6. /\ h \in Hold /\ h.at = "idle" /\ h.view = view /\ h.call = c.after
        /\ h.listed = "none"
    BY <1>1, <2>2, <2>3, <2>4 DEF Hold
  <2> HIDE DEF h
  <2>7. hold' \in [Tokens -> Hold] /\ hold'[t] = h /\ \A u \in Tokens \ {t} : hold'[u] = hold[u]
    BY <2>5, <2>6 DEF TypeOK
  <2>8. RowExact(t)' /\ SeenExact(t)'
    BY <1>1, <1>7, <2>6, <2>7 DEF TokenInv, RowExact, SeenExact
  <2>9. ViewExact(t)'
    BY <1>1, <1>2, <1>3, <2>2, <2>6, <2>7 DEF ViewExact, Within
  <2>10. ListExact(t)'
    BY <1>1, <2>3, <2>6, <2>7, FromStart DEF ListExact, Upto
  <2>11. TokenInv(t)'
    BY <1>5, <2>8, <2>9, <2>10 DEF TokenInv
  <2> QED BY <1>1, <1>4, <1>6, <2>7, <2>11, HolderFrame DEF TypeOK
<1> QED BY <1>8, <1>9 DEF whoami, c, r, g

\* A value is served only at the vault's generation and under the row the
\* request was authenticated with.
LEMMA ReadStep ==
  ASSUME IInv, NEW t \in Tokens, read(t), UNCHANGED plan
  PROVE  IInv'
<1> USE DEF IInv
<1> DEFINE n == hold[t].call.name
           r == hold[t].seen.row
           g == hold[t].view.gen
           new == IF can_read(r.scope, n) /\ allows_name(r.allow, n, g) /\ vault.gen = g
                  THEN {<<n, g>>} ELSE {}
<1>1. /\ hold[t].at = "handler" /\ hold[t].call.op = "read" /\ hold[t].call \in Call
      /\ opened' = [opened EXCEPT ![t] = @ \cup new] /\ Returns(t)
      /\ UNCHANGED <<vault, row, own, known, wrote, granted, cut, acked>>
  BY DEF read, Handling, TypeOK, Hold
<1>2. n \in Names
  BY <1>1, CallShape
<1>3. ASSUME NEW k \in new
      PROVE  k \in Names \X Gens /\ Within(t, k[2]) /\ k[1] \in granted[t] \cup Configs
  <2>1. /\ k = <<n, vault.gen>> /\ vault.gen = g /\ allows_name(r.allow, n, vault.gen)
        /\ k[1] = n /\ k[2] = vault.gen
    BY <1>3
  <2>2. vault.gen \in Gens /\ Within(t, vault.gen) /\ AllowFits(r.allow, granted[t])
    BY <1>1, <2>1, VaultNumbers DEF TokenInv, ViewExact, SeenExact
  <2>3. n \in granted[t] \cup Configs
    BY <1>2, <2>1, <2>2 DEF allows_name, AllowFits, Names
  <2> QED BY <1>2, <2>1, <2>2, <2>3
<1> HIDE DEF new
<1>4. /\ opened' \in [Tokens -> SUBSET (Names \X Gens)] /\ opened'[t] = opened[t] \cup new
      /\ \A u \in Tokens \ {t} : opened'[u] = opened[u]
  BY <1>1, <1>3 DEF TypeOK
<1>5. Learned(t)'
  BY <1>1, <1>3, <1>4 DEF TokenInv, Learned, Within
<1>6. /\ hold[t].listed \in {"none", "whole", "part"}
      /\ hold[t].listed = "part" => hold[t].view.gen # vault.gen
      /\ Ends(t, hold[t].listed)
  BY <1>1 DEF TypeOK, Hold, TokenInv, ListExact, Returns
<1>7. /\ hold' \in [Tokens -> Hold] /\ (\A u \in Tokens \ {t} : hold'[u] = hold[u])
      /\ TokenInv(t)'
  BY <1>1, <1>5, <1>6, EndsStep
<1>8. vault.rev >= vault.rev
  BY VaultNumbers
<1> QED BY <1>1, <1>4, <1>7, <1>8, HolderFrame DEF TypeOK

\* A write is accepted only at the vault's generation, and is acknowledged as
\* it is stored.
LEMMA PutStep ==
  ASSUME IInv, NEW t \in Tokens, put(t), UNCHANGED plan
  PROVE  IInv'
<1> USE DEF IInv
<1> DEFINE n == hold[t].call.name
<1>1. /\ hold[t].at = "handler" /\ hold[t].call.op = "write" /\ hold[t].call \in Call
      /\ Returns(t) /\ UNCHANGED <<row, own, known, opened, granted, cut>>
  BY DEF put, Handling, TypeOK, Hold
<1>2. n \in Names
  BY <1>1, CallShape
<1>3. CASE UNCHANGED <<vault, acked, wrote>>
  BY <1>1, <1>3, ReturnsStep
<1>4. CASE /\ put_record(hold[t].view.gen)
           /\ vault' = [vault EXCEPT !.val[n] = @ + 1, !.rev = @ + 1]
           /\ acked' = [acked EXCEPT ![n] = vault.val[n] + 1]
           /\ wrote' = [wrote EXCEPT ![t] = @ \cup {vault.gen}]
  <2> DEFINE val == [vault.val EXCEPT ![n] = @ + 1]
  <2>0a. /\ vault \in [gen : Gens, rev : Nat, val : [Names -> Nat]]
         /\ vault.val \in [Names -> Nat] /\ vault.val[n] \in Nat /\ vault.rev + 1 \in Nat
    BY <1>2 DEF TypeOK
  <2>0b. val \in [Names -> Nat]
    BY <1>2, <2>0a
  <2>0c. vault' = [vault EXCEPT !.val = val, !.rev = vault.rev + 1]
    BY <1>4, <2>0a
  <2> HIDE DEF val
  <2>1. /\ vault' \in [gen : Gens, rev : Nat, val : [Names -> Nat]]
        /\ vault'.gen = vault.gen /\ vault'.rev = vault.rev + 1
        /\ vault'.val = val
    BY <2>0a, <2>0b, <2>0c
  <2>2. acked' \in [Names -> Nat] /\ vault'.val = acked'
    BY <1>2, <1>4, <2>0a, <2>0b, <2>1 DEF TypeOK, val
  <2>3. Within(t, vault.gen) /\ vault.gen \in Gens
    BY <1>4, VaultNumbers DEF put_record, TokenInv, ViewExact
  <2>4. /\ wrote' \in [Tokens -> SUBSET Gens] /\ wrote'[t] = wrote[t] \cup {vault.gen}
        /\ \A u \in Tokens \ {t} : wrote'[u] = wrote[u]
    BY <1>4, <2>3 DEF TypeOK
  <2>5. Learned(t)'
    BY <1>1, <2>1, <2>3, <2>4 DEF TokenInv, Learned, Within
  <2>6. /\ hold[t].listed \in {"none", "whole", "part"}
        /\ hold[t].listed = "part" => hold[t].view.gen # vault.gen
        /\ Ends(t, hold[t].listed)
    BY <1>1 DEF TypeOK, Hold, TokenInv, ListExact, Returns
  <2>7. /\ hold' \in [Tokens -> Hold] /\ (\A u \in Tokens \ {t} : hold'[u] = hold[u])
        /\ TokenInv(t)'
    BY <1>1, <2>1, <2>5, <2>6, EndsStep
  <2>8. vault.rev + 1 >= vault.rev /\ vault.rev + 1 # vault.rev
    BY VaultNumbers
  <2> QED BY <1>1, <2>1, <2>2, <2>4, <2>7, <2>8, HolderFrame DEF TypeOK
<1> QED BY <1>3, <1>4 DEF put

\* An admin token revokes a token, perhaps itself.
LEMMA RevokeTokenStep ==
  ASSUME IInv, NEW t \in Tokens, revoke_token(t), UNCHANGED plan
  PROVE  IInv'
<1> USE DEF IInv
<1>1. /\ hold[t].at = "handler" /\ hold[t].call.op = "revoke" /\ hold[t].call \in Call
      /\ Returns(t) /\ UNCHANGED <<own, acked>>
  BY DEF revoke_token, Handling, TypeOK, Hold
<1>2. PICK u \in Tokens : u = hold[t].call.token
  BY <1>1, CallShape
<1>3. CASE UNCHANGED <<vault, row, ghosts>>
  BY <1>1, <1>3, ReturnsStep DEF ghosts
<1>4. CASE delete_tokens(u)
  <2>1. /\ row[u].at = "live" /\ row' \in [Tokens -> Row]
        /\ row'[u] = [NoRow EXCEPT !.at = "gone"] /\ cut'[u] = vault.gen + 1
        /\ \A v \in Tokens \ {u} : row'[v] = row[v] /\ cut'[v] = cut[v]
        /\ cut' \in [Tokens -> Nat]
        /\ vault' \in [gen : Gens, rev : Nat, val : [Names -> Nat]]
        /\ vault'.gen = vault.gen /\ vault'.rev = vault.rev + 1 /\ vault'.val = vault.val
        /\ UNCHANGED <<known, opened, wrote, granted>>
    BY <1>2, <1>4, DeleteTables
  <2>2. /\ hold[t].listed \in {"none", "whole", "part"}
        /\ hold[t].listed = "part" => hold[t].view.gen # vault.gen
        /\ Ends(t, hold[t].listed)
    BY <1>1 DEF TypeOK, Hold, TokenInv, ListExact, Returns
  <2>3. /\ hold' \in [Tokens -> Hold] /\ (\A v \in Tokens \ {t} : hold'[v] = hold[v])
        /\ hold'[t].at \in {"closed", "idle"} /\ hold'[t].view = hold[t].view
        /\ hold'[t].call.op = "none" /\ hold'[t].listed = hold[t].listed
    <3> DEFINE at == IF hold[t].view.gen = 0 THEN "closed" ELSE "idle"
               h == [hold[t] EXCEPT !.at = at, !.call = NoCall, !.seen = Unseen,
                                    !.listed = hold[t].listed]
    <3>1. hold \in [Tokens -> Hold] /\ hold[t] \in Hold
      BY DEF TypeOK
    <3>2. hold' = [hold EXCEPT ![t] = h]
      BY <2>2, <3>1 DEF Ends
    <3>3. at \in {"closed", "idle"} /\ NoCall \in Call /\ NoCall.op = "none"
      BY CallShape
    <3>4. Unseen \in [row : Row, gen : 0..MaxGen]
      BY VaultNumbers DEF Unseen, NoRow, Row
    <3> HIDE DEF at
    <3>5. /\ h \in Hold /\ h.at = at /\ h.view = hold[t].view /\ h.call = NoCall
          /\ h.listed = hold[t].listed
      BY <3>1, <3>3, <3>4 DEF Hold
    <3> HIDE DEF h
    <3> QED BY <3>1, <3>2, <3>3, <3>5
  <2>4. TokenInv(u)'
    <3>1. /\ hold'[u].view = hold[u].view /\ hold'[u].listed = hold[u].listed
          /\ \/ hold'[u] = hold[u]
             \/ hold'[u].at \in {"closed", "idle"} /\ hold'[u].call.op = "none"
      <4>1. CASE u = t
        BY <2>3, <4>1
      <4>2. CASE u # t
        BY <1>2, <2>3, <4>2
      <4> QED BY <4>1, <4>2
    <3>2. /\ vault'.gen \in {vault.gen, vault.gen + 1} /\ known'[u] = known[u]
          /\ opened'[u] = opened[u] /\ wrote'[u] = wrote[u] /\ granted'[u] = granted[u]
      BY <2>1
    <3>3. row[u].at = "live" /\ row'[u] = [NoRow EXCEPT !.at = "gone"] /\ cut'[u] = vault.gen + 1
      BY <2>1
    <3> QED BY <1>2, <3>1, <3>2, <3>3, DeletedToken
  <2>5. t # u => TokenInv(t)'
    <3>1. t # u => Learned(t)'
      BY <2>1 DEF TokenInv, Learned, Within
    <3> QED BY <1>1, <2>1, <2>2, <3>1, EndsStep
  <2>6. \A v \in Tokens \ {t, u} : TokenInv(v)'
    BY <2>1, <2>3, TokenFrame
  <2>7. vault.rev + 1 >= vault.rev /\ vault.rev + 1 # vault.rev /\ vault.gen >= vault.gen
    BY VaultNumbers
  <2>8. \A o \in Handles : JobExact(o)'
    BY <1>1, <2>1, <2>7, JobFrame
  <2>9. TypeOK'
    BY <1>1, <2>1, <2>3 DEF TypeOK
  <2>10. \A v \in Tokens : TokenInv(v)'
    BY <2>4, <2>5, <2>6
  <2>11. vault'.val = acked'
    BY <1>1, <2>1
  <2> QED BY <2>8, <2>9, <2>10, <2>11
<1> QED BY <1>2, <1>3, <1>4 DEF revoke_token

\* A page of a listing: more is to come, it is whole, or it was overtaken.
LEMMA ListStep ==
  ASSUME IInv, NEW t \in Tokens, list(t), UNCHANGED plan
  PROVE  IInv'
<1> USE DEF IInv
<1> DEFINE c == hold[t].call
           rows == page(c.after)
           stale == rows # {} /\ vault.gen # hold[t].view.gen
           last == CHOOSE n \in rows : \A m \in rows : Hmac[m][vault.gen] <= Hmac[n][vault.gen]
           next == Listing(Hmac[last][vault.gen], c.got \cup rows, c.again)
           out == IF c.got \cup rows = Secrets THEN "whole" ELSE "part"
<1>1. /\ hold[t].at = "handler" /\ c.op = "list" /\ c \in Call /\ hold[t] \in Hold
      /\ UNCHANGED <<vault, row, own, known, opened, wrote, granted, cut, acked>>
  BY DEF list, Handling, TypeOK, Hold, ghosts
<1>2. c.after \in Nat /\ c.got \subseteq Secrets /\ c.again \in BOOLEAN
  BY <1>1, CallShape
<1>3. \/ row[t].at = "live" /\ Calls(t, [op |-> "self", by |-> "mcp", after |-> Listing(0, {}, TRUE)])
      \/ Returns(t)
      \/ /\ ~stale /\ Cardinality(rows) = Page
         /\ hold' = [hold EXCEPT ![t].at = "idle", ![t].seen = Unseen, ![t].call = next]
      \/ Cardinality(rows) # Page /\ Ends(t, out)
  BY DEF list
<1>4. /\ rows \subseteq Beyond(c.after)
      /\ Cardinality(rows) # Page => rows = Beyond(c.after)
      /\ rows # {} => last \in Secrets /\ Upto(c.after) \cup rows = Upto(Hmac[last][vault.gen])
  BY <1>2, PageShape
<1> HIDE DEF rows, last
<1>5. hold[t].view.gen = vault.gen => c.got = Upto(c.after)
  BY <1>1 DEF TokenInv, ListExact
<1>6. \A n \in Secrets : Hmac[n][vault.gen] \in Nat
  BY TokenAccessAssumption, VaultNumbers DEF Names, Gens
<1>7. vault.rev >= vault.rev
  BY VaultNumbers
<1>8. Learned(t)'
  BY <1>1 DEF TokenInv, Learned, Within
<1>9. CASE row[t].at = "live" /\ Calls(t, [op |-> "self", by |-> "mcp", after |-> Listing(0, {}, TRUE)])
  <2> DEFINE call == [op |-> "self", by |-> "mcp", after |-> Listing(0, {}, TRUE)]
  <2>1. call \in Call /\ call.op # "list"
    BY CallShape
  <2>2. Calls(t, call)
    BY <1>9
  <2> HIDE DEF call
  <2> QED BY <1>1, <1>9, <2>1, <2>2, CallsStep
<1>10. CASE Returns(t)
  BY <1>1, <1>10, ReturnsStep
<1>11. CASE Cardinality(rows) # Page /\ Ends(t, out)
  <2>1. out \in {"none", "whole", "part"}
    OBVIOUS
  <2>2. out = "part" => hold[t].view.gen # vault.gen
    <3>1. Upto(c.after) \cup Beyond(c.after) = Secrets
      BY <1>2, <1>6 DEF Upto, Beyond
    <3> QED BY <1>4, <1>5, <1>11, <3>1
  <2> HIDE DEF out
  <2>3. /\ hold' \in [Tokens -> Hold] /\ (\A u \in Tokens \ {t} : hold'[u] = hold[u])
        /\ TokenInv(t)'
    BY <1>1, <1>8, <1>11, <2>1, <2>2, EndsStep
  <2> QED BY <1>1, <1>7, <2>3, HolderFrame DEF TypeOK
<1>12. CASE /\ ~stale /\ Cardinality(rows) = Page
            /\ hold' = [hold EXCEPT ![t].at = "idle", ![t].seen = Unseen, ![t].call = next]
  <2>1. rows # {}
    BY <1>12, FS_EmptySet, TokenAccessAssumption
  <2>2. /\ vault.gen = hold[t].view.gen /\ last \in Secrets
        /\ c.got \cup rows = Upto(Hmac[last][vault.gen])
    BY <1>4, <1>5, <1>12, <2>1
  <2>3. /\ next \in Call /\ next.op = "list" /\ next.after = Hmac[last][vault.gen]
        /\ next.got = c.got \cup rows
    <3>1. c.got \cup rows \in SUBSET Secrets /\ Hmac[last][vault.gen] \in Nat
      BY <1>2, <1>4, <1>6, <2>2 DEF Beyond
    <3> QED BY <1>2, <3>1, CallShape
  <2>4. Unseen \in [row : Row, gen : 0..MaxGen]
    BY VaultNumbers DEF Unseen, NoRow, Row
  <2> HIDE DEF next, c
  <2> DEFINE h == [hold[t] EXCEPT !.at = "idle", !.seen = Unseen, !.call = next]
  <2>5. hold' = [hold EXCEPT ![t] = h]
    BY <1>12 DEF TypeOK
  <2>6. /\ h \in Hold /\ h.at = "idle" /\ h.view = hold[t].view /\ h.call = next
        /\ h.listed = hold[t].listed
    BY <1>1, <2>3, <2>4 DEF Hold
  <2> HIDE DEF h
  <2>7. hold' \in [Tokens -> Hold] /\ hold'[t] = h /\ \A u \in Tokens \ {t} : hold'[u] = hold[u]
    BY <2>5, <2>6 DEF TypeOK
  <2>8. row[t].at # "new"
    BY <1>1 DEF TokenInv, RowExact, Shut
  <2>9. RowExact(t)' /\ SeenExact(t)' /\ ViewExact(t)'
    BY <1>1, <2>6, <2>7, <2>8 DEF TokenInv, RowExact, SeenExact, ViewExact, Within
  <2>10. ListExact(t)'
    BY <1>1, <2>2, <2>3, <2>6, <2>7 DEF TokenInv, ListExact, Upto
  <2>11. TokenInv(t)'
    BY <1>8, <2>9, <2>10 DEF TokenInv
  <2> QED BY <1>1, <1>7, <2>7, <2>11, HolderFrame DEF TypeOK
<1> QED BY <1>3, <1>9, <1>10, <1>11, <1>12

-----------------------------------------------------------------------------
(* The theorems. *)

\* A vault with nothing minted.
LEMMA InitOK == Init => IInv
<1> SUFFICES ASSUME Init PROVE IInv
  OBVIOUS
<1> USE TokenAccessAssumption DEF Init
<1>1. /\ vault.gen = 1 /\ vault.rev = 1 /\ vault.val \in [Names -> Nat]
      /\ vault \in [gen : Gens, rev : Nat, val : [Names -> Nat]] /\ MaxGen \in Nat
  BY DEF Gens
<1>2. NoRow \in Row /\ NoRow.at = "new"
  BY <1>1 DEF NoRow, Row
<1>3. NoCall \in Call /\ NoView \in View /\ Unseen \in [row : Row, gen : 0..MaxGen]
  BY <1>1, <1>2, CallShape DEF NoView, View, Unseen
<1>4. Shut \in Hold /\ Shut.at = "closed" /\ Shut.view.gen = 0 /\ Shut.view.keys = {}
      /\ Shut.call.op = "none" /\ Shut.listed = "none"
  BY <1>1, <1>3 DEF Shut, Hold, NoView, NoCall
<1>5. NoRotation \in Job /\ NoRotation.at = "idle"
  BY DEF NoRotation, Job
<1>6. /\ own \in [Handles -> [view : 0..MaxGen, list : SUBSET Tokens, job : Job]]
      /\ \A o \in Handles : own[o].view = 0 /\ own[o].job.at = "idle"
  BY <1>1, <1>5
<1>7. TypeOK
  BY <1>1, <1>2, <1>4, <1>6 DEF TypeOK
<1>8. ASSUME NEW t \in Tokens PROVE TokenInv(t)
  <2>1. /\ row[t] = NoRow /\ hold[t] = Shut /\ known[t] = {} /\ opened[t] = {}
        /\ wrote[t] = {} /\ cut[t] = 0
    OBVIOUS
  <2>2. RowExact(t) /\ SeenExact(t) /\ Learned(t)
    BY <1>2, <1>4, <2>1 DEF RowExact, SeenExact, Learned
  <2>3. ViewExact(t) /\ ListExact(t)
    BY <1>1, <1>4, <2>1 DEF ViewExact, ListExact, Within
  <2> QED BY <2>2, <2>3 DEF TokenInv
<1>9. \A o \in Handles : JobExact(o)
  BY <1>1, <1>6 DEF JobExact
<1> QED BY <1>7, <1>8, <1>9 DEF IInv

\* Every step keeps the invariant.
LEMMA NextStep == IInv /\ [Next]_vars => IInv'
<1> SUFFICES ASSUME IInv, [Next]_vars PROVE IInv'
  OBVIOUS
<1>1. /\ plan.handles \subseteq Handles /\ DOMAIN plan.scope \subseteq Tokens
      /\ \A t \in DOMAIN plan.scope : plan.scope[t] \in Scopes /\ plan.only[t] \in SUBSET Secrets
  BY VaultNumbers DEF IInv
<1>2. ASSUME NEW o \in plan.handles, Owner(o), UNCHANGED plan PROVE IInv'
  <2>1. o \in Handles
    BY <1>1, <1>2
  <2>2. CASE open_owner(o)
    BY <1>2, <2>1, <2>2, OpenStep
  <2>3. ASSUME NEW t \in DOMAIN plan.scope, mint(o, t, plan.scope[t], plan.only[t]) PROVE IInv'
    BY <1>1, <1>2, <2>1, <2>3, MintStep
  <2>4. ASSUME NEW t \in Tokens, revoke(o, t) PROVE IInv'
    BY <1>2, <2>4, DeleteStep DEF revoke
  <2>5. CASE send_rotation(o) /\ strict(o)
    BY <1>2, <2>1, <2>5, RotateStep
  <2>6. CASE \/ \E ids \in SUBSET Tokens : rotate(o, ids)
             \/ rotate_status(o) \/ all_versions(o)
             \/ send_rotation(o) /\ ~strict(o)
    BY <1>2, <2>1, <2>6, PrepareStep
  <2> QED BY <1>2, <2>2, <2>3, <2>4, <2>5, <2>6 DEF Owner
<1>3. ASSUME NEW t \in DOMAIN plan.scope, Holder(t), UNCHANGED plan PROVE IInv'
  <2>1. t \in Tokens
    BY <1>1, <1>3
  <2>2. CASE \/ token_self(t, plan.by[t])
             \/ \E n \in Names : get(t, n) \/ write_value(t, n)
             \/ \E u \in Tokens : revoke_by_token(t, u)
             \/ list_secrets(t) \/ next_page(t)
    BY <1>3, <2>2, RequestStep
  <2>3. CASE vault_by_pk(t) \/ whoami(t) \/ read(t)
    BY <1>3, <2>1, <2>3, VaultRowStep, WhoamiStep, ReadStep
  <2>4. CASE put(t) \/ revoke_token(t) \/ list(t)
    BY <1>3, <2>1, <2>4, PutStep, RevokeTokenStep, ListStep
  <2> QED BY <1>3, <2>2, <2>3, <2>4 DEF Holder
<1>4. ASSUME NEW t \in DOMAIN plan.scope, report_leaked_token(t), UNCHANGED plan PROVE IInv'
  BY <1>1, <1>4, DeleteStep DEF report_leaked_token
<1>5. ASSUME UNCHANGED <<plan, vault, row, own, hold, known, opened, wrote, granted, cut, acked>>
      PROVE  IInv'
  <2>1. TypeOK'
    BY <1>5 DEF IInv, TypeOK
  <2>2. \A t \in Tokens : TokenInv(t)'
    BY <1>5, TokenFrame DEF IInv
  <2>3. \A o \in Handles : JobExact(o)'
    BY <1>5 DEF IInv, JobExact
  <2> QED BY <1>5, <2>1, <2>2, <2>3 DEF IInv
<1>6. ASSUME NEW t \in DOMAIN plan.scope, expire(t), UNCHANGED plan PROVE IInv'
  BY <1>5, <1>6 DEF expire, ghosts
<1>7. CASE UNCHANGED vars
  BY <1>5, <1>7 DEF vars, ghosts
<1> QED BY <1>2, <1>3, <1>4, <1>6, <1>7 DEF Next

\* The inductive invariant.
THEOREM TokenInvariant == Spec => []IInv
BY InitOK, NextStep, PTL DEF Spec

\* A revoked token gets nothing of a later generation, whatever requests of
\* its and whatever rotations of any handle were under way (delete_tokens,
\* token_auth, put_record, build_rotation).
THEOREM TokenRevokedShutOut == Spec => []RevokedShutOut
<1>1. IInv => RevokedShutOut
  BY DEF IInv, TokenInv, Learned, Within, RevokedShutOut
<1> QED BY <1>1, TokenInvariant, PTL

\* Through mint and every rotation a token has the keys of its scope, which
\* are those the server's checks allow it to use, and is served the secrets
\* it was minted for (FullBundle::for_scope, Caller::can, allows_name).
THEOREM TokenWithinGrant == Spec => []WithinGrant
<1>1. IInv => ScopeExact
  BY ScopeKeys DEF IInv, TokenInv, RowExact, Learned, ScopeExact, Registered
<1>2. IInv => AllowNeverWidens
  BY DEF IInv, TokenInv, Learned, AllowNeverWidens
<1> QED BY <1>1, <1>2, TokenInvariant, PTL DEF WithinGrant

\* A handle's view is of one generation, and a listing that ends in it is
\* whole, for every size of a page and every rotation between two pages
\* (token_view, verify_self, list_kind, try_names).
THEOREM TokenViewsWhole == Spec => []ViewsWhole
<1>1. IInv => ViewsWhole
  BY DEF IInv, TokenInv, ViewExact, ListExact, ViewsWhole, ViewPaired, ListingsWhole
<1> QED BY <1>1, TokenInvariant, PTL

\* A rotation strands no registered token and no acknowledged write (the
\* store's strict checks, Handle::rotate's tries).
THEOREM TokenNothingStranded == Spec => []NothingStranded
<1>1. IInv => NothingStranded
  BY DEF IInv, TokenInv, RowExact, NothingStranded, Registered
<1> QED BY <1>1, TokenInvariant, PTL

=============================================================================
