-------------------------- MODULE VaultStoreProofs --------------------------
(***************************************************************************)
(* Proofs about VaultStore, for every value of its constants.              *)
(*                                                                         *)
(* The invariants are proved together: that a token is at its vault's      *)
(* generation needs the vault to exist, that a put's version is new needs  *)
(* the head to name the highest one, and a vault created under a row id    *)
(* that was used before needs no row to have been left behind.             *)
(* On top of them rest that a rotation loses nothing, which needs to know  *)
(* what a batch holds while it is gathered, and that what is accounted for *)
(* is what is stored, which needs sums and cardinalities.                  *)
(***************************************************************************)
EXTENDS VaultStore, TLAPS, FiniteSetTheorems, WellFoundedInduction

\* The inductive invariant.
IInv == /\ TypeOK
        /\ NoOrphans
        /\ GenerationUniform
        /\ DescriptorChain
        /\ HeadsAgree

-----------------------------------------------------------------------------
(* Lemmas about the helpers. *)

\* A non-empty bounded set of naturals has a greatest element.
LEMMA MaxExists ==
  ASSUME NEW S \in SUBSET Nat, NEW n \in Nat, S # {}, \A s \in S : s <= n
  PROVE  \E m \in S : \A s \in S : s <= m
<1> DEFINE T == {k \in Nat : \E s \in S : k = n - s}
           R == OpToRel(<, Nat)
<1>1. T # {}
  <2>1. PICK s \in S : TRUE
    OBVIOUS
  <2>2. n - s \in T
    BY <2>1
  <2> QED BY <2>2
<1>2. IsWellFoundedOn(R, Nat)
  BY NatLessThanWellFounded
<1>3. T \subseteq Nat
  OBVIOUS
<1>4. PICK x \in T : \A y \in T : ~ (<<y, x>> \in R)
  <2> HIDE DEF R, T
  <2> QED BY <1>1, <1>2, <1>3, WFMin
<1>5. \A y \in T : ~(y < x)
  BY <1>3, <1>4 DEF OpToRel
<1>6. PICK m \in S : x = n - m
  BY <1>4
<1>7. ASSUME NEW s \in S PROVE s <= m
  <2>1. n - s \in T
    OBVIOUS
  <2>2. ~(n - s < n - m)
    BY <2>1, <1>5, <1>6
  <2> QED BY <2>2
<1> QED BY <1>7

\* `highest` picks a row of the set, and no row of it has a higher version.
LEMMA HighestRow ==
  ASSUME NEW rows \in SUBSET RecordRow, rows # {}
  PROVE  /\ highest(rows) \in rows
         /\ \A s \in rows : s.version <= highest(rows).version
<1> DEFINE S == {r.version : r \in rows}
<1>1. MaxVersion \in Nat
  BY ConstantsAssumption
<1>2. S \in SUBSET Nat /\ S # {} /\ \A s \in S : s <= MaxVersion
  BY <1>1 DEF RecordRow, Version
<1>3. PICK m \in S : \A s \in S : s <= m
  <2> HIDE DEF S
  <2> QED BY <1>1, <1>2, MaxExists
<1>4. \E r \in rows : \A s \in rows : s.version <= r.version
  BY <1>3
<1> QED BY <1>4 DEF highest

\* Appending audit rows and moving the revision keep a row a row, and leave
\* its id and its generation alone.
LEMMA RowUpdates ==
  ASSUME NEW row \in VaultRow, NEW n \in Nat
  PROVE  /\ append_audit(row, n) \in VaultRow
         /\ append_audit(row, n).id = row.id
         /\ append_audit(row, n).generation = row.generation
         /\ append_audit(bump_revision(row), n) \in VaultRow
         /\ append_audit(bump_revision(row), n).id = row.id
         /\ append_audit(bump_revision(row), n).generation = row.generation
<1>1. ASSUME NEW r \in VaultRow
      PROVE  /\ append_audit(r, n) \in VaultRow
             /\ append_audit(r, n).id = r.id
             /\ append_audit(r, n).generation = r.generation
  BY DEF append_audit, VaultRow
<1>2. /\ bump_revision(row) \in VaultRow
      /\ bump_revision(row).id = row.id
      /\ bump_revision(row).generation = row.generation
  BY DEF bump_revision, VaultRow
<1> QED BY <1>1, <1>2

\* A set of tokens has a natural number of elements.
LEMMA TokenCount ==
  ASSUME NEW S \in SUBSET TokenId
  PROVE  Cardinality(S) \in Nat
BY ConstantsAssumption, FS_Subset, FS_CardinalityType

\* Updating one vault's row, keeping its id and generation.
LEMMA VaultUpdated ==
  ASSUME TypeOK, NEW pk \in DOMAIN vaults, NEW row \in VaultRow,
         row.id = vaults[pk].id, row.generation = vaults[pk].generation,
         vaults' = [vaults EXCEPT ![pk] = row]
  PROVE  /\ DOMAIN vaults' = DOMAIN vaults
         /\ vaults' \in [DOMAIN vaults' -> VaultRow] /\ DOMAIN vaults' \subseteq PK
         /\ \A p \in DOMAIN vaults : /\ vaults'[p].id = vaults[p].id
                                     /\ vaults'[p].generation = vaults[p].generation
BY DEF TypeOK

\* A step that only updates one vault's row, keeping its id and generation,
\* and no table but `children`, keeps the invariant.
LEMMA RowOnly ==
  ASSUME IInv, NEW pk \in DOMAIN vaults, NEW row \in VaultRow,
         row.id = vaults[pk].id, row.generation = vaults[pk].generation,
         vaults' = [vaults EXCEPT ![pk] = row],
         DOMAIN children' \subseteq DOMAIN vaults,
         children' \in [DOMAIN children' -> Version],
         UNCHANGED <<now, bytesUsed, descriptors, tokens, records, heads,
                     lastApplied, batch>>
  PROVE  IInv'
<1> USE DEF IInv
<1>0. /\ DOMAIN vaults' = DOMAIN vaults
      /\ \A p \in DOMAIN vaults : /\ vaults'[p] \in VaultRow
                                  /\ vaults'[p].id = vaults[p].id
                                  /\ vaults'[p].generation = vaults[p].generation
  BY DEF TypeOK
<1>1. TypeOK'
  BY <1>0 DEF TypeOK
<1>2. NoOrphans'
  BY <1>0 DEF NoOrphans
<1>3. GenerationUniform'
  BY <1>0 DEF GenerationUniform, NoOrphans
<1>4. DescriptorChain'
  BY <1>0 DEF DescriptorChain
<1>5. HeadsAgree'
  BY DEF HeadsAgree
<1> QED BY <1>1, <1>2, <1>3, <1>4, <1>5

-----------------------------------------------------------------------------
(* One lemma per operation: the step keeps the invariant. *)

\* A refused request keeps the invariant.
LEMMA RefuseStep ==
  ASSUME IInv, NEW pk \in DOMAIN vaults, Refuse(pk)
  PROVE  IInv'
<1>1. vaults[pk] \in VaultRow
  BY DEF IInv, TypeOK
<1>2. children \in [DOMAIN children -> Version] /\ DOMAIN children \subseteq DOMAIN vaults
  BY DEF IInv, TypeOK, NoOrphans
<1> QED BY <1>1, <1>2, RowUpdates, RowOnly DEF Refuse

\* So does one that only touches its vault.
LEMMA TouchStep ==
  ASSUME IInv, NEW pk \in DOMAIN vaults, touch(pk)
  PROVE  IInv'
<1>1. vaults[pk] \in VaultRow /\ now \in Nat
  BY DEF IInv, TypeOK
<1>2. children \in [DOMAIN children -> Version] /\ DOMAIN children \subseteq DOMAIN vaults
  BY DEF IInv, TypeOK, NoOrphans
<1> DEFINE row == [vaults[pk] EXCEPT !.active = now]
<1>3. row \in VaultRow /\ row.id = vaults[pk].id /\ row.generation = vaults[pk].generation
  BY <1>1 DEF VaultRow
<1>4. vaults' = [vaults EXCEPT ![pk] = row]
  BY DEF touch
<1> HIDE DEF row
<1> QED BY <1>2, <1>3, <1>4, RowOnly DEF touch

\* So does a write of the children record.
LEMMA PutChildrenStep ==
  ASSUME IInv, NEW pk \in DOMAIN vaults, NEW pre \in 0..MaxVersion,
         NEW v \in Version, NEW size \in Value, put_children(pk, pre, v, size)
  PROVE  IInv'
<1>1. CASE put_children_accepts(pk, pre, v, size)
  <2>1. vaults[pk] \in VaultRow
    BY DEF IInv, TypeOK
  <2>2. /\ children' \in [DOMAIN children' -> Version]
        /\ DOMAIN children' \subseteq DOMAIN vaults
    BY <1>1 DEF IInv, TypeOK, NoOrphans, put_children, With
  <2> QED BY <1>1, <2>1, <2>2, RowUpdates, RowOnly DEF put_children
<1>2. CASE ~put_children_accepts(pk, pre, v, size)
  BY <1>2, RefuseStep DEF put_children
<1> QED BY <1>1, <1>2

\* So does the creation of a vault.
LEMMA CreateStep ==
  ASSUME IInv, NEW id \in VaultId, create_vault(id)
  PROVE  IInv'
<1> USE DEF IInv
<1>0. PICK pk \in PK :
        /\ \A q \in DOMAIN vaults : vaults[q].id # id
        /\ last_insert_rowid(pk)
        /\ vaults' = With(vaults, pk, [id |-> id, born |-> lastApplied,
                                       generation |-> 1, revision |-> 1,
                                       auditSeq |-> 1, active |-> now])
        /\ bytesUsed' = With(bytesUsed, pk, 0)
        /\ descriptors' = descriptors \cup {<<pk, 1>>}
        /\ UNCHANGED <<now, tokens, records, heads, children, lastApplied, batch>>
  BY DEF create_vault
<1>1. pk \notin DOMAIN vaults
  BY <1>0 DEF last_insert_rowid, PK, TypeOK
<1>2. /\ DOMAIN vaults' = DOMAIN vaults \cup {pk}
      /\ \A p \in DOMAIN vaults : vaults'[p] = vaults[p]
      /\ vaults'[pk] \in VaultRow /\ vaults'[pk].id = id /\ vaults'[pk].generation = 1
  BY <1>0, <1>1 DEF With, VaultRow, TypeOK
<1>3. TypeOK'
  <2>1. vaults' \in [DOMAIN vaults' -> VaultRow] /\ DOMAIN vaults' \subseteq PK
    BY <1>0, <1>2 DEF TypeOK, With
  <2>2. DOMAIN bytesUsed' = DOMAIN vaults'
    BY <1>0, <1>2 DEF TypeOK, With
  <2> QED BY <2>1, <2>2, <1>0 DEF TypeOK
<1>4. NoOrphans'
  BY <1>0, <1>2 DEF NoOrphans
<1>5. GenerationUniform'
  BY <1>0, <1>2 DEF GenerationUniform, NoOrphans
<1>6. DescriptorChain'
  <2> SUFFICES ASSUME NEW p \in DOMAIN vaults'
               PROVE  {d \in descriptors' : d[1] = p}
                         = {<<p, g>> : g \in 1..vaults'[p].generation}
    BY DEF DescriptorChain
  <2>1. CASE p = pk
    <3>1. {d \in descriptors' : d[1] = pk} = {<<pk, 1>>}
      BY <1>0, <1>1 DEF NoOrphans
    <3>2. 1..vaults'[pk].generation = {1}
      BY <1>2
    <3> QED BY <3>1, <3>2, <2>1
  <2>2. CASE p # pk
    BY <2>2, <1>0, <1>2 DEF DescriptorChain
  <2> QED BY <2>1, <2>2
<1>7. HeadsAgree'
  BY <1>0 DEF HeadsAgree
<1> QED BY <1>3, <1>4, <1>5, <1>6, <1>7

\* So does its deletion, with everything that refers to it.
LEMMA DeleteVaultStep ==
  ASSUME IInv, NEW pk \in DOMAIN vaults, delete_vault(pk)
  PROVE  IInv'
<1> USE DEF IInv
<1>1. /\ DOMAIN vaults' = DOMAIN vaults \ {pk}
      /\ \A p \in DOMAIN vaults' : vaults'[p] = vaults[p]
      /\ DOMAIN tokens' = DOMAIN tokens \ TokensOf(pk)
      /\ \A t \in DOMAIN tokens' : tokens'[t] = tokens[t] /\ tokens[t].vault # pk
      /\ DOMAIN heads' = {k \in DOMAIN heads : k[1] # pk}
      /\ \A k \in DOMAIN heads' : heads'[k] = heads[k]
      /\ DOMAIN children' = DOMAIN children \ {pk}
      /\ records' = {r \in records : r.vault # pk}
      /\ descriptors' = {d \in descriptors : d[1] # pk}
  BY DEF delete_vault, Without, TokensOf, Rows
<1>2. TypeOK'
  BY DEF TypeOK, delete_vault, Without, TokensOf, Rows, journal
<1>3. NoOrphans'
  BY <1>1 DEF NoOrphans
<1>4. GenerationUniform'
  BY <1>1 DEF GenerationUniform, NoOrphans
<1>5. DescriptorChain'
  BY <1>1 DEF DescriptorChain
<1>6. HeadsAgree'
  <2>1. ASSUME NEW k \in DOMAIN heads'
        PROVE  \E r \in records' :
                  /\ <<r.vault, r.kind, r.name>> = k
                  /\ r.version = heads'[k].version
                  /\ heads'[k].tombstone = (r.value = Tombstone)
    <3>1. PICK r \in records : /\ <<r.vault, r.kind, r.name>> = k
                               /\ r.version = heads[k].version
                               /\ heads[k].tombstone = (r.value = Tombstone)
      BY <1>1 DEF HeadsAgree
    <3>2. r \in records'
      BY <3>1, <1>1
    <3> QED BY <3>1, <3>2, <1>1
  <2>2. ASSUME NEW r \in records'
        PROVE  /\ <<r.vault, r.kind, r.name>> \in DOMAIN heads'
               /\ r.version <= heads'[<<r.vault, r.kind, r.name>>].version
    BY <1>1 DEF HeadsAgree
  <2>3. ASSUME NEW r \in records', NEW q \in records',
               r.vault = q.vault, r.kind = q.kind, r.name = q.name,
               r.version = q.version
        PROVE  r = q
    BY <2>3, <1>1 DEF HeadsAgree
  <2> QED BY <2>1, <2>2, <2>3 DEF HeadsAgree
<1> QED BY <1>2, <1>3, <1>4, <1>5, <1>6

\* So does the registration of a token.
LEMMA RegisterStep ==
  ASSUME IInv, NEW pk \in DOMAIN vaults, NEW t \in TokenId, NEW g \in Generation,
         NEW x \in 1..(MaxTime + 1), register_token(pk, t, g, x)
  PROVE  IInv'
<1> USE DEF IInv
<1>1. CASE ~register_token_accepts(pk, g)
  BY <1>1, RefuseStep DEF register_token
<1>2. CASE register_token_accepts(pk, g)
  <2>0. /\ vaults[pk] \in VaultRow /\ g = vaults[pk].generation
        /\ g \in Nat \ {0} /\ x \in Nat /\ pk \in PK
    BY <1>2, ConstantsAssumption
    DEF TypeOK, VaultRow, register_token_accepts, Generation, PK
  <2>1. /\ DOMAIN vaults' = DOMAIN vaults
        /\ vaults' \in [DOMAIN vaults' -> VaultRow] /\ DOMAIN vaults' \subseteq PK
        /\ \A p \in DOMAIN vaults : /\ vaults'[p].id = vaults[p].id
                                    /\ vaults'[p].generation = vaults[p].generation
    <3>1. vaults' = [vaults EXCEPT ![pk] = append_audit(bump_revision(vaults[pk]), 1)]
      BY <1>2 DEF register_token
    <3> QED BY <3>1, <2>0, RowUpdates, VaultUpdated, ZenonT(30)
  <2>2. /\ DOMAIN tokens' = DOMAIN tokens \cup {t} /\ t \notin DOMAIN tokens
        /\ \A u \in DOMAIN tokens : tokens'[u] = tokens[u]
        /\ tokens'[t] = [vault |-> pk, generation |-> g, expires |-> x]
    BY <1>2 DEF register_token, With
  <2>3. TypeOK'
    <3>1. tokens' \in [DOMAIN tokens' -> TokenRow] /\ DOMAIN tokens' \subseteq TokenId
      BY <1>2, <2>0, <2>2 DEF TypeOK, TokenRow, register_token, With
    <3> QED BY <1>2, <3>1, <2>1 DEF TypeOK, register_token
  <2>4. NoOrphans'
    BY <1>2, <2>1, <2>2 DEF NoOrphans, register_token
  <2>5. GenerationUniform'
    BY <1>2, <2>0, <2>1, <2>2 DEF GenerationUniform, NoOrphans, register_token
  <2>6. DescriptorChain'
    BY <1>2, <2>1 DEF DescriptorChain, register_token
  <2>7. HeadsAgree'
    BY <1>2 DEF HeadsAgree, register_token
  <2> QED BY <2>3, <2>4, <2>5, <2>6, <2>7
<1> QED BY <1>1, <1>2

\* So does a revocation.
LEMMA RevokeStep ==
  ASSUME IInv, NEW pk \in DOMAIN vaults, NEW ids \in SUBSET TokenId,
         revoke_tokens(pk, ids)
  PROVE  IInv'
<1> USE DEF IInv
<1> DEFINE removed == ids \cap TokensOf(pk)
<1>0. vaults[pk] \in VaultRow /\ Cardinality(removed) \in Nat
  BY TokenCount DEF TypeOK
<1>a. /\ journal /\ tokens' = Without(tokens, removed)
      /\ UNCHANGED <<now, bytesUsed, descriptors, records, heads, children, batch>>
  BY DEF revoke_tokens
<1>1. /\ DOMAIN vaults' = DOMAIN vaults
      /\ vaults' \in [DOMAIN vaults' -> VaultRow] /\ DOMAIN vaults' \subseteq PK
      /\ \A p \in DOMAIN vaults : /\ vaults'[p].id = vaults[p].id
                                  /\ vaults'[p].generation = vaults[p].generation
  <2>1. vaults' = [vaults EXCEPT
                     ![pk] = append_audit(bump_revision(vaults[pk]), Cardinality(removed))]
    BY DEF revoke_tokens
  <2> HIDE DEF removed
  <2> QED BY <2>1, <1>0, RowUpdates, VaultUpdated
<1>2. /\ DOMAIN tokens' \subseteq DOMAIN tokens
      /\ \A t \in DOMAIN tokens' : tokens'[t] = tokens[t]
      /\ tokens' \in [DOMAIN tokens' -> TokenRow]
  BY <1>a DEF Without, TypeOK
<1> HIDE DEF removed
<1>3. TypeOK'
  BY <1>1, <1>2, <1>a DEF TypeOK, journal
<1>4. NoOrphans'
  BY <1>1, <1>2, <1>a DEF NoOrphans
<1>5. GenerationUniform'
  BY <1>1, <1>2, <1>a DEF GenerationUniform, NoOrphans
<1>6. DescriptorChain'
  BY <1>1, <1>a DEF DescriptorChain
<1>7. HeadsAgree'
  BY <1>a DEF HeadsAgree
<1> QED BY <1>3, <1>4, <1>5, <1>6, <1>7

\* Writing a version above the head keeps the invariant: pruning takes rows
\* of the same name only, and never the new one.
LEMMA WriteStep ==
  ASSUME IInv, NEW pk \in DOMAIN vaults, NEW kind \in Kind, NEW name \in Name,
         NEW w \in [generation : Generation, version : Version, at : WriteTime,
                    value : Value \cup {Tombstone}],
         NEW bytes,
         w.generation = vaults[pk].generation,
         <<pk, kind, name>> \in DOMAIN heads
             => w.version > heads[<<pk, kind, name>>].version,
         write_version(pk, kind, name, w, bytes)
  PROVE  IInv'
<1> USE DEF IInv
<1> DEFINE key == <<pk, kind, name>>
           new == [vault |-> pk, kind |-> kind, name |-> name,
                   version |-> w.version, generation |-> w.generation,
                   at |-> w.at, value |-> w.value]
           pruned == prunable(pk, kind, name)
<1>0. vaults[pk] \in VaultRow /\ pk \in PK
  BY DEF TypeOK
<1>1. /\ DOMAIN vaults' = DOMAIN vaults
      /\ vaults' \in [DOMAIN vaults' -> VaultRow] /\ DOMAIN vaults' \subseteq PK
      /\ \A p \in DOMAIN vaults : /\ vaults'[p].id = vaults[p].id
                                  /\ vaults'[p].generation = vaults[p].generation
  <2>1. vaults' = [vaults EXCEPT ![pk] = append_audit(bump_revision(vaults[pk]), 1)]
    BY DEF write_version
  <2> QED BY <2>1, <1>0, RowUpdates, VaultUpdated, ZenonT(30)
<1>2. new \in RecordRow
  BY <1>0 DEF RecordRow, Generation, VaultRow
<1>3. \A r \in pruned : r \in records /\ <<r.vault, r.kind, r.name>> = key
  BY DEF prunable, RowsOf, Rows
<1>4. records' = (records \ pruned) \cup {new}
  BY DEF write_version
<1>5. /\ DOMAIN heads' = DOMAIN heads \cup {key}
      /\ \A k \in DOMAIN heads' : k # key => heads'[k] = heads[k]
      /\ heads'[key] = [version |-> w.version, tombstone |-> w.value = Tombstone]
  BY DEF write_version, With
<1>6. ASSUME NEW r \in records, <<r.vault, r.kind, r.name>> = key
      PROVE  r.version < w.version
  <2>1. r.version <= heads[key].version /\ key \in DOMAIN heads
    BY <1>6 DEF HeadsAgree
  <2>2. heads[key] \in Head /\ r \in RecordRow
    BY <2>1 DEF TypeOK
  <2> QED BY <2>1, <2>2 DEF Head, RecordRow, Version
<1> HIDE DEF pruned
<1>7. TypeOK'
  <2>2. records' \subseteq RecordRow
    BY <1>2, <1>4 DEF TypeOK
  <2>3. heads' \in [DOMAIN heads' -> Head] /\ DOMAIN heads' \subseteq HeadKey
    <3>1. key \in HeadKey
      BY <1>0 DEF HeadKey
    <3>2. heads'[key] \in Head
      BY <1>5 DEF Head
    <3>3. \A k \in DOMAIN heads' : heads'[k] \in Head
      BY <1>5, <3>2 DEF TypeOK
    <3>4. heads' = [k \in DOMAIN heads' |-> heads'[k]]
      BY DEF write_version, With
    <3> HIDE DEF key
    <3> QED BY <3>1, <3>3, <3>4, <1>5 DEF TypeOK
  <2>4. DOMAIN bytesUsed' = DOMAIN vaults'
    BY <1>1 DEF TypeOK, write_version
  <2> QED BY <1>1, <2>2, <2>3, <2>4 DEF TypeOK, write_version
<1>8. NoOrphans'
  BY <1>1, <1>3, <1>4, <1>5 DEF NoOrphans, write_version
<1>9. GenerationUniform'
  BY <1>1, <1>4 DEF GenerationUniform, NoOrphans, write_version
<1>10. DescriptorChain'
  BY <1>1 DEF DescriptorChain, write_version
<1>11. HeadsAgree'
  <2>1. ASSUME NEW k \in DOMAIN heads'
        PROVE  \E r \in records' :
                  /\ <<r.vault, r.kind, r.name>> = k
                  /\ r.version = heads'[k].version
                  /\ heads'[k].tombstone = (r.value = Tombstone)
    <3>1. CASE k = key
      <4>1. new \in records' /\ <<new.vault, new.kind, new.name>> = key
        BY <1>4
      <4>2. new.version = heads'[key].version /\ new.value = w.value
        BY <1>5
      <4>3. heads'[key].tombstone = (w.value = Tombstone)
        <5> DEFINE flag == w.value = Tombstone
        <5>1. heads'[key] = [version |-> w.version, tombstone |-> flag]
          BY <1>5
        <5> HIDE DEF flag
        <5>2. heads'[key].tombstone = flag
          BY <5>1, SMT
        <5> QED BY <5>2 DEF flag
      <4> HIDE DEF new, key
      <4> QED BY <3>1, <4>1, <4>2, <4>3, Zenon
    <3>2. CASE k # key
      <4>1. PICK r \in records : /\ <<r.vault, r.kind, r.name>> = k
                                 /\ r.version = heads[k].version
                                 /\ heads[k].tombstone = (r.value = Tombstone)
        BY <3>2, <1>5 DEF HeadsAgree
      <4>2. r \in records'
        BY <3>2, <4>1, <1>3, <1>4
      <4> QED BY <4>1, <4>2, <3>2, <1>5
    <3> QED BY <3>1, <3>2
  <2>2. ASSUME NEW r \in records'
        PROVE  /\ <<r.vault, r.kind, r.name>> \in DOMAIN heads'
               /\ r.version <= heads'[<<r.vault, r.kind, r.name>>].version
    <3>1. CASE r = new
      BY <3>1, <1>5, <1>2 DEF RecordRow, Version
    <3>2. CASE r \in records /\ <<r.vault, r.kind, r.name>> = key
      <4>1. r.version < w.version /\ heads'[key].version = w.version
        BY <3>2, <1>5, <1>6
      <4>2. r.version \in Nat /\ w.version \in Nat
        BY <3>2 DEF TypeOK, RecordRow, Version
      <4> QED BY <3>2, <4>1, <4>2, <1>5
    <3>3. CASE r \in records /\ <<r.vault, r.kind, r.name>> # key
      BY <3>3, <1>5 DEF HeadsAgree
    <3> QED BY <3>1, <3>2, <3>3, <1>4
  <2>3. ASSUME NEW r \in records', NEW q \in records',
               r.vault = q.vault, r.kind = q.kind, r.name = q.name,
               r.version = q.version
        PROVE  r = q
    <3>1. \A z \in records : <<z.vault, z.kind, z.name>> = key => z.version # w.version
      <4> SUFFICES ASSUME NEW z \in records, <<z.vault, z.kind, z.name>> = key
                   PROVE  z.version # w.version
        OBVIOUS
      <4>1. z.version \in Nat /\ w.version \in Nat /\ z.version < w.version
        BY <1>6 DEF TypeOK, RecordRow, Version
      <4> QED BY <4>1
    <3> QED BY <2>3, <3>1, <1>4 DEF HeadsAgree
  <2> QED BY <2>1, <2>2, <2>3 DEF HeadsAgree
<1> QED BY <1>7, <1>8, <1>9, <1>10, <1>11

\* So does a write of a secret.
LEMMA PutStep ==
  ASSUME IInv, NEW pk \in DOMAIN vaults, NEW kind \in Kind, NEW name \in Name,
         NEW pre \in 0..MaxVersion, NEW w \in Write,
         put_record(pk, kind, name, pre, w)
  PROVE  IInv'
<1> DEFINE key == <<pk, kind, name>>
<1>1. CASE ~put_record_accepts(pk, kind, name, pre, w)
  BY <1>1, RefuseStep DEF put_record
<1>2. CASE put_record_accepts(pk, kind, name, pre, w)
  <2>1. /\ w.generation = vaults[pk].generation
        /\ next_version(key, pre) # 0 /\ w.version = next_version(key, pre)
    BY <1>2 DEF put_record_accepts
  <2>2. ASSUME key \in DOMAIN heads PROVE w.version > heads[key].version
    <3>1. heads[key].version \in Nat
      BY <2>2 DEF IInv, TypeOK, Head, Version
    <3>2. w.version = heads[key].version + 1
      BY <2>1, <2>2 DEF next_version
    <3> QED BY <3>1, <3>2
  <2>3. w \in [generation : Generation, version : Version, at : WriteTime,
               value : Value \cup {Tombstone}]
    BY DEF Write
  <2> DEFINE bytes == bytes_after(pk, w, prunable(pk, kind, name))
  <2>4. write_version(pk, kind, name, w, bytes)
    BY <1>2 DEF put_record
  <2> HIDE DEF bytes
  <2> QED BY <2>1, <2>2, <2>3, <2>4, WriteStep
<1> QED BY <1>1, <1>2

\* So does its deletion.
LEMMA DeleteStep ==
  ASSUME IInv, NEW pk \in DOMAIN vaults, NEW kind \in Kind, NEW name \in Name,
         NEW pre \in Version, NEW w \in TombstoneWrite,
         delete_record(pk, kind, name, pre, w)
  PROVE  IInv'
<1> DEFINE key == <<pk, kind, name>>
<1>0. key \in DOMAIN heads
  BY DEF delete_record
<1>1. CASE ~delete_record_accepts(pk, kind, name, pre, w)
  BY <1>1, RefuseStep DEF delete_record
<1>2. CASE delete_record_accepts(pk, kind, name, pre, w)
  <2>1. w.generation = vaults[pk].generation /\ w.version = heads[key].version + 1
    BY <1>2 DEF delete_record_accepts
  <2>2. w.version > heads[key].version
    BY <1>0, <2>1 DEF IInv, TypeOK, Head, Version
  <2>3. w \in [generation : Generation, version : Version, at : WriteTime,
               value : Value \cup {Tombstone}]
    BY DEF TombstoneWrite
  <2> DEFINE total == bytes_after(pk, w, prunable(pk, kind, name))
             bytes == IF total < 0 THEN 0 ELSE total
  <2>4. write_version(pk, kind, name, w, bytes)
    BY <1>2 DEF delete_record
  <2> HIDE DEF bytes
  <2> QED BY <2>1, <2>2, <2>3, <2>4, WriteStep
<1> QED BY <1>1, <1>2

\* A step of the client that only builds or drops a batch.
LEMMA BatchOnly ==
  ASSUME IInv, batch' \in Batch \cup {NoBatch},
         UNCHANGED <<now, vaults, bytesUsed, descriptors, tokens, records, heads,
                     children, lastApplied>>
  PROVE  IInv'
<1> USE DEF IInv
<1>1. TypeOK'
  BY DEF TypeOK
<1>2. NoOrphans'
  BY DEF NoOrphans
<1>3. GenerationUniform'
  BY DEF GenerationUniform
<1>4. DescriptorChain'
  BY DEF DescriptorChain
<1>5. HeadsAgree'
  BY DEF HeadsAgree
<1> QED BY <1>1, <1>2, <1>3, <1>4, <1>5

\* So does a rotation that looks at the vault's status.
LEMMA StatusStep ==
  ASSUME IInv, NEW pk \in DOMAIN vaults, NEW resealed \in SUBSET TokenId,
         NEW revoke \in SUBSET TokenId, refresh_status(pk, resealed, revoke)
  PROVE  IInv'
<1>1. vaults[pk] \in VaultRow
  BY DEF IInv, TypeOK
<1>2. batch' \in Batch
  BY <1>1 DEF refresh_status, Batch, VaultRow
<1> QED BY <1>2, BatchOnly DEF refresh_status

\* So does a rotation that reads the records of a kind.
LEMMA GatherStep ==
  ASSUME IInv, NEW pk \in DOMAIN vaults, NEW kind \in Kind, NEW f \in Renaming,
         NEW omitted, all_versions(pk, kind, f, omitted)
  PROVE  IInv'
<1>1. batch \in Batch /\ records \subseteq RecordRow
  BY DEF IInv, TypeOK, all_versions
<1> DEFINE read == {s \in Rows(pk) : s.kind = kind} \ omitted
           entries == {rotated(r, f) : r \in read}
<1>2. \A r \in read : rotated(r, f) \in Entry
  BY <1>1 DEF Rows, rotated, Entry, RecordRow, Renaming
<1>3. entries \subseteq Entry
  BY <1>2
<1>4. batch' = [batch EXCEPT !.entries = @ \cup entries,
                             !.gathered = @ \cup {kind}]
  BY DEF all_versions
<1> HIDE DEF entries
<1>5. batch' \in Batch
  BY <1>1, <1>3, <1>4 DEF Batch
<1> QED BY <1>5, BatchOnly DEF all_versions

\* So does time.
LEMMA TickStep ==
  ASSUME IInv, Tick
  PROVE  IInv'
<1> USE DEF IInv
<1>1. TypeOK'
  BY DEF TypeOK, Tick
<1>2. NoOrphans' /\ GenerationUniform' /\ DescriptorChain' /\ HeadsAgree'
  BY DEF Tick, NoOrphans, GenerationUniform, DescriptorChain, HeadsAgree
<1> QED BY <1>1, <1>2

\* So does a rotation whose vault is gone.
LEMMA NotFoundStep ==
  ASSUME IInv, rotation_not_found
  PROVE  IInv'
BY BatchOnly DEF rotation_not_found

\* The rows a rotation writes are rows of the vault at the new generation.
LEMMA RotatedRows ==
  ASSUME NEW pk \in PK, NEW b \in Batch
  PROVE  /\ rotated_rows(pk, b) \subseteq RecordRow
         /\ \A r \in rotated_rows(pk, b) : /\ r.vault = pk
                                           /\ r.generation = b.fromGeneration + 1
<1>1. b.fromGeneration \in Nat \ {0} /\ b.entries \subseteq Entry
  BY DEF Batch
<1>2. b.fromGeneration + 1 \in Nat \ {0}
  BY <1>1
<1> QED BY <1>1, <1>2 DEF rotated_rows, RecordRow, Entry

\* A rotation's heads: another vault's stay, and each rotated name gets the
\* highest of its rows.
LEMMA RotatedHeads ==
  ASSUME NEW pk \in PK, NEW b \in Batch, NEW k \in DOMAIN rotated_heads(pk, b)
  PROVE  \/ /\ k \in DOMAIN heads /\ k[1] # pk
            /\ rotated_heads(pk, b)[k] = heads[k]
         \/ \E r \in rotated_rows(pk, b) :
              /\ <<r.vault, r.kind, r.name>> = k
              /\ \A q \in rotated_rows(pk, b) :
                    <<q.vault, q.kind, q.name>> = k => q.version <= r.version
              /\ rotated_heads(pk, b)[k]
                    = [version |-> r.version, tombstone |-> r.value = Tombstone]
<1> DEFINE all == rotated_rows(pk, b)
           rows == {r \in all : <<pk, r.kind, r.name>> = k}
           named == {<<pk, e.kind, e.new>> : e \in b.entries}
           kept == {x \in DOMAIN heads : x[1] # pk}
           top == highest(rows)
<1>1. /\ DOMAIN rotated_heads(pk, b) = kept \cup named
      /\ k \in named => rotated_heads(pk, b)[k]
                          = [version |-> top.version, tombstone |-> top.value = Tombstone]
      /\ k \notin named => rotated_heads(pk, b)[k] = heads[k]
  BY DEF rotated_heads
<1>2. CASE k \notin named
  BY <1>1, <1>2
<1>3. CASE k \in named
  <2>1. PICK e \in b.entries : k = <<pk, e.kind, e.new>>
    BY <1>3
  <2>2. [vault |-> pk, kind |-> e.kind, name |-> e.new, version |-> e.version,
         generation |-> b.fromGeneration + 1, at |-> e.at, value |-> e.value] \in rows
    BY <2>1 DEF rotated_rows
  <2>3. rows # {} /\ rows \in SUBSET RecordRow
    BY <2>2, RotatedRows
  <2>4. top \in rows /\ \A q \in rows : q.version <= top.version
    <3> HIDE DEF rows
    <3> QED BY <2>3, HighestRow
  <2>5. top \in all /\ <<top.vault, top.kind, top.name>> = k
    BY <2>4, RotatedRows
  <2>6. ASSUME NEW q \in all, <<q.vault, q.kind, q.name>> = k
        PROVE  q.version <= top.version
    <3>1. q \in rows
      BY <2>6, <2>1
    <3> HIDE DEF rows
    <3> QED BY <3>1, <2>4
  <2>7. rotated_heads(pk, b)[k]
           = [version |-> top.version, tombstone |-> top.value = Tombstone]
    BY <1>1, <1>3
  <2> HIDE DEF top
  <2> QED BY <2>5, <2>6, <2>7, Zenon
<1> QED BY <1>2, <1>3

\* Every row a rotation writes has a head.
LEMMA RotatedNamed ==
  ASSUME NEW pk \in PK, NEW b \in Batch, NEW r \in rotated_rows(pk, b)
  PROVE  <<r.vault, r.kind, r.name>> \in DOMAIN rotated_heads(pk, b)
BY DEF rotated_rows, rotated_heads

\* So does a rotation, all of it at once.
LEMMA RotateStep ==
  ASSUME IInv, NEW pk \in DOMAIN vaults, apply_rotation(pk)
  PROVE  IInv'
<1> USE DEF IInv
<1> DEFINE b == batch
           g == b.fromGeneration + 1
           revoked == b.revoke \cap TokensOf(pk)
           rows == rotated_rows(pk, b)
<1>1. CASE ~rotate_accepts(pk, b)
  BY <1>1, BatchOnly DEF apply_rotation
<1>2. CASE rotate_accepts(pk, b)
  <2>0. /\ pk \in PK /\ vaults[pk] \in VaultRow
        /\ b \in Batch /\ batch' = NoBatch
    BY DEF TypeOK, apply_rotation
  <2>1. rotate(pk, b) /\ journal /\ UNCHANGED <<now, children>>
    BY <1>2 DEF apply_rotation
  <2>2. /\ b.fromGeneration = vaults[pk].generation
        /\ b.tokens = TokensOf(pk) \ b.revoke
        /\ rewritten_apart(b)
    BY <1>2 DEF rotate_accepts
  <2>3. g \in Nat \ {0} /\ g = vaults[pk].generation + 1
    BY <2>0, <2>2 DEF VaultRow
  <2>4. /\ records' = (records \ Rows(pk)) \cup rows
        /\ heads' = rotated_heads(pk, b)
        /\ descriptors' = descriptors \cup {<<pk, g>>}
        /\ tokens' = [t \in DOMAIN tokens \ revoked |->
                        IF t \in b.tokens /\ tokens[t].vault = pk
                        THEN [tokens[t] EXCEPT !.generation = g]
                        ELSE tokens[t]]
        /\ vaults' = [vaults EXCEPT
                        ![pk] = [append_audit(bump_revision(vaults[pk]),
                                              1 + Cardinality(revoked))
                                   EXCEPT !.generation = g]]
        /\ DOMAIN bytesUsed' = DOMAIN bytesUsed
    BY <2>1 DEF rotate
  <2>5. /\ DOMAIN vaults' = DOMAIN vaults
        /\ \A p \in DOMAIN vaults : vaults'[p] \in VaultRow /\ vaults'[p].id = vaults[p].id
        /\ vaults'[pk].generation = g
        /\ \A p \in DOMAIN vaults : p # pk => vaults'[p] = vaults[p]
        /\ vaults' \in [DOMAIN vaults' -> VaultRow]
    <3> DEFINE n == 1 + Cardinality(revoked)
               row == append_audit(bump_revision(vaults[pk]), n)
               new == [row EXCEPT !.generation = g]
    <3>1. n \in Nat
      BY TokenCount DEF TypeOK, TokensOf
    <3>2. row \in VaultRow /\ row.id = vaults[pk].id
      <4> HIDE DEF n
      <4> QED BY <3>1, <2>0, RowUpdates
    <3>3. new \in VaultRow /\ new.id = vaults[pk].id /\ new.generation = g
      <4> HIDE DEF row, g
      <4> QED BY <3>2, <2>3 DEF VaultRow
    <3>4. vaults' = [vaults EXCEPT ![pk] = new]
      BY <2>4
    <3> HIDE DEF new, g
    <3> QED BY <3>3, <3>4 DEF TypeOK
  <2>6. /\ DOMAIN tokens' \subseteq DOMAIN tokens
        /\ \A t \in DOMAIN tokens' :
              /\ tokens'[t] \in TokenRow /\ tokens'[t].vault = tokens[t].vault
              /\ tokens[t].vault = pk => tokens'[t].generation = g
              /\ tokens[t].vault # pk => tokens'[t].generation = tokens[t].generation
        /\ tokens' \in [DOMAIN tokens' -> TokenRow]
    <3>1. ASSUME NEW t \in DOMAIN tokens, t \notin revoked, tokens[t].vault = pk
          PROVE  t \in b.tokens
      BY <3>1, <2>2 DEF TokensOf
    <3>2. ASSUME NEW t \in DOMAIN tokens
          PROVE  tokens[t] \in TokenRow
      BY DEF TypeOK
    <3>3. ASSUME NEW row \in TokenRow
          PROVE  /\ [row EXCEPT !.generation = g] \in TokenRow
                 /\ [row EXCEPT !.generation = g].vault = row.vault
                 /\ [row EXCEPT !.generation = g].generation = g
      BY <2>3 DEF TokenRow
    <3> HIDE DEF revoked, b, g
    <3> QED BY <2>4, <3>1, <3>2, <3>3
  <2>7. /\ rows \subseteq RecordRow
        /\ \A r \in rows : r.vault = pk /\ r.generation = g
    BY <2>0, RotatedRows
  <2>8. /\ \A r \in records' : r \in rows \/ (r \in records /\ r.vault # pk)
        /\ \A r \in records : r.vault # pk => r \in records'
        /\ rows \subseteq records'
    BY <2>4 DEF Rows
  <2> HIDE DEF b, g, revoked, rows
  <2>9. TypeOK'
    <3>1. records' \subseteq RecordRow
      BY <2>7, <2>8 DEF TypeOK
    <3>2. heads' \in [DOMAIN heads' -> Head] /\ DOMAIN heads' \subseteq HeadKey
      <4>1. ASSUME NEW k \in DOMAIN heads'
            PROVE  heads'[k] \in Head /\ k \in HeadKey
        <5>1. CASE k \in DOMAIN heads /\ heads'[k] = heads[k]
          BY <5>1 DEF TypeOK
        <5>2. CASE \E r \in rows :
                     /\ <<r.vault, r.kind, r.name>> = k
                     /\ heads'[k] = [version |-> r.version,
                                     tombstone |-> r.value = Tombstone]
          BY <5>2, <2>7, <2>0 DEF RecordRow, Head, HeadKey
        <5> QED BY <4>1, <5>1, <5>2, <2>0, <2>4, RotatedHeads DEF rows
      <4>2. heads' = [k \in DOMAIN heads' |-> heads'[k]]
        BY <2>4 DEF rotated_heads
      <4> QED BY <4>1, <4>2
    <3>3. descriptors' \subseteq PK \X (Nat \ {0})
      BY <2>0, <2>3, <2>4 DEF TypeOK
    <3> QED BY <3>1, <3>2, <3>3, <2>0, <2>1, <2>4, <2>5, <2>6 DEF TypeOK, journal
  <2>10. NoOrphans'
    <3>1. \A k \in DOMAIN heads' : k[1] \in DOMAIN vaults
      <4> SUFFICES ASSUME NEW k \in DOMAIN heads' PROVE k[1] \in DOMAIN vaults
        OBVIOUS
      <4>1. CASE k \in DOMAIN heads
        BY <4>1 DEF NoOrphans
      <4>2. CASE \E r \in rows : <<r.vault, r.kind, r.name>> = k
        BY <4>2, <2>7
      <4> QED BY <4>1, <4>2, <2>0, <2>4, RotatedHeads DEF rows
    <3> QED BY <3>1, <2>1, <2>4, <2>5, <2>6, <2>7, <2>8 DEF NoOrphans
  <2>11. GenerationUniform'
    BY <2>5, <2>6, <2>7, <2>8 DEF GenerationUniform, NoOrphans
  <2>12. DescriptorChain'
    <3> SUFFICES ASSUME NEW p \in DOMAIN vaults
                 PROVE  {d \in descriptors' : d[1] = p}
                           = {<<p, h>> : h \in 1..vaults'[p].generation}
      BY <2>5 DEF DescriptorChain
    <3>1. {d \in descriptors : d[1] = p} = {<<p, h>> : h \in 1..vaults[p].generation}
      BY DEF DescriptorChain
    <3>2. CASE p # pk
      BY <3>1, <3>2, <2>4, <2>5
    <3>3. CASE p = pk
      <4>1. 1..g = (1..vaults[pk].generation) \cup {g}
        BY <2>3, <2>0 DEF VaultRow
      <4>2. {d \in descriptors' : d[1] = pk} = {d \in descriptors : d[1] = pk} \cup {<<pk, g>>}
        BY <2>4
      <4> QED BY <4>1, <4>2, <3>1, <3>3, <2>5
    <3> QED BY <3>2, <3>3
  <2>13. HeadsAgree'
    <3>1. ASSUME NEW k \in DOMAIN heads'
          PROVE  \E r \in records' :
                    /\ <<r.vault, r.kind, r.name>> = k
                    /\ r.version = heads'[k].version
                    /\ heads'[k].tombstone = (r.value = Tombstone)
      <4>1. CASE k \in DOMAIN heads /\ k[1] # pk /\ heads'[k] = heads[k]
        <5>1. PICK r \in records : /\ <<r.vault, r.kind, r.name>> = k
                                   /\ r.version = heads[k].version
                                   /\ heads[k].tombstone = (r.value = Tombstone)
          BY <4>1 DEF HeadsAgree
        <5>2. r \in records'
          BY <4>1, <5>1, <2>8
        <5> QED BY <4>1, <5>1, <5>2
      <4>2. ASSUME NEW r \in rows, <<r.vault, r.kind, r.name>> = k,
                   heads'[k] = [version |-> r.version, tombstone |-> r.value = Tombstone]
            PROVE  /\ r \in records' /\ r.version = heads'[k].version
                   /\ heads'[k].tombstone = (r.value = Tombstone)
        <5> DEFINE flag == r.value = Tombstone
        <5>1. heads'[k] = [version |-> r.version, tombstone |-> flag]
          BY <4>2
        <5> HIDE DEF flag
        <5>2. heads'[k].version = r.version /\ heads'[k].tombstone = flag
          BY <5>1, SMT
        <5> QED BY <5>2, <2>8 DEF flag
      <4>3. \/ k \in DOMAIN heads /\ k[1] # pk /\ heads'[k] = heads[k]
            \/ \E r \in rows :
                  /\ <<r.vault, r.kind, r.name>> = k
                  /\ heads'[k] = [version |-> r.version, tombstone |-> r.value = Tombstone]
        BY <2>0, <2>4, RotatedHeads DEF rows
      <4> QED BY <4>1, <4>2, <4>3, Zenon
    <3>2. ASSUME NEW r \in records'
          PROVE  /\ <<r.vault, r.kind, r.name>> \in DOMAIN heads'
                 /\ r.version <= heads'[<<r.vault, r.kind, r.name>>].version
      <4> DEFINE k == <<r.vault, r.kind, r.name>>
      <4>1. CASE r \in rows
        <5>1. k \in DOMAIN heads'
          BY <4>1, <2>0, <2>4, RotatedNamed DEF rows
        <5>2. k[1] = pk
          BY <4>1, <2>7
        <5>3. PICK q \in rows :
                 /\ \A z \in rows : <<z.vault, z.kind, z.name>> = k => z.version <= q.version
                 /\ heads'[k] = [version |-> q.version, tombstone |-> q.value = Tombstone]
          <6> HIDE DEF k
          <6> QED BY <5>1, <5>2, <2>0, <2>4, RotatedHeads DEF rows
        <5>4. heads'[k].version = q.version
          BY <5>3
        <5> QED BY <4>1, <5>1, <5>3, <5>4
      <4>2. CASE r \in records /\ r.vault # pk
        <5>1. k \in DOMAIN heads /\ r.version <= heads[k].version /\ k[1] # pk
          BY <4>2 DEF HeadsAgree
        <5>2. k \in DOMAIN heads'
          BY <5>1, <2>4 DEF rotated_heads
        <5>3. \A q \in rows : <<q.vault, q.kind, q.name>> # k
          BY <4>2, <2>7
        <5>4. heads'[k] = heads[k]
          <6> HIDE DEF k
          <6> QED BY <5>2, <5>3, <2>0, <2>4, RotatedHeads DEF rows
        <5> QED BY <5>1, <5>2, <5>4
      <4> QED BY <4>1, <4>2, <2>8
    <3>3. ASSUME NEW r \in records', NEW q \in records',
                 r.vault = q.vault, r.kind = q.kind, r.name = q.name,
                 r.version = q.version
          PROVE  r = q
      <4>1. CASE r \in rows /\ q \in rows
        BY <3>3, <4>1, <2>2 DEF rows, rotated_rows, rewritten_apart
      <4>2. CASE r \notin rows /\ q \notin rows
        BY <3>3, <4>2, <2>8 DEF HeadsAgree
      <4> QED BY <3>3, <4>1, <4>2, <2>7, <2>8
    <3> QED BY <3>1, <3>2, <3>3 DEF HeadsAgree
  <2> QED BY <2>9, <2>10, <2>11, <2>12, <2>13
<1> QED BY <1>1, <1>2

-----------------------------------------------------------------------------
(* The theorems. *)

\* The invariant holds at first.
LEMMA InitOK == Init => IInv
BY DEF Init, IInv, TypeOK, NoOrphans, GenerationUniform, DescriptorChain, HeadsAgree

\* Every step keeps it.
LEMMA NextStep == IInv /\ [Next]_vars => IInv'
<1> SUFFICES ASSUME IInv, [Next]_vars PROVE IInv'
  OBVIOUS
<1>1. CASE VaultNext
  <2>1. ASSUME NEW id \in VaultId, create_vault(id) PROVE IInv'
    BY <2>1, CreateStep
  <2>2. ASSUME NEW pk \in DOMAIN vaults, touch(pk) PROVE IInv'
    BY <2>2, TouchStep
  <2>3. ASSUME NEW pk \in DOMAIN vaults, record(pk) PROVE IInv'
    BY <2>3, RefuseStep DEF record
  <2>4. ASSUME NEW pk \in DOMAIN vaults, delete_vault(pk) PROVE IInv'
    BY <2>4, DeleteVaultStep
  <2>5. CASE Tick
    BY <2>5, TickStep
  <2> QED BY <1>1, <2>1, <2>2, <2>3, <2>4, <2>5 DEF VaultNext
<1>2. CASE TokenNext
  BY <1>2, RegisterStep, RevokeStep DEF TokenNext
<1>3. CASE RecordNext
  BY <1>3, PutStep, DeleteStep, PutChildrenStep DEF RecordNext
<1>4. CASE RotationNext
  BY <1>4, NotFoundStep, StatusStep, GatherStep, RotateStep DEF RotationNext
<1>5. CASE UNCHANGED vars
  BY <1>5 DEF vars, IInv, TypeOK, NoOrphans, GenerationUniform, DescriptorChain,
              HeadsAgree
<1> QED BY <1>1, <1>2, <1>3, <1>4, <1>5 DEF Next

\* The inductive invariant holds in every state of every execution of the
\* store, for every quota, limit and set of ids.
THEOREM Invariance == Spec => []IInv
BY InitOK, NextStep, PTL DEF Spec

\* Every table keeps its type.
THEOREM TypeCorrect == Spec => []TypeOK
BY Invariance, PTL DEF IInv

\* Rotation leaves no version and no token sealed under an older generation.
THEOREM RotationUniform == Spec => []GenerationUniform
BY Invariance, PTL DEF IInv

\* A head always names the highest retained version of its name.
THEOREM HeadsCorrect == Spec => []HeadsAgree
BY Invariance, PTL DEF IInv

\* No row outlives its vault, so a row id can be given out again.
THEOREM CascadeComplete == Spec => []NoOrphans
BY Invariance, PTL DEF IInv

\* A vault's descriptors are those of its generations, each one once.
THEOREM ChainUnbroken == Spec => []DescriptorChain
BY Invariance, PTL DEF IInv

-----------------------------------------------------------------------------
(* Version numbers, a property of steps. *)

\* The step VersionsAssignedOnce allows.
VersionStep ==
    \A k \in DOMAIN heads :
        (/\ k[1] \in DOMAIN vaults'
         /\ vaults'[k[1]].generation = vaults[k[1]].generation)
        => /\ k \in DOMAIN heads'
           /\ heads'[k] # heads[k] => heads'[k].version = heads[k].version + 1

\* A write moves the head of its own name, by one.
LEMMA WriteMovesOne ==
  ASSUME NEW pk, NEW kind, NEW name, NEW w, NEW bytes,
         <<pk, kind, name>> \in DOMAIN heads
             => w.version = heads[<<pk, kind, name>>].version + 1,
         write_version(pk, kind, name, w, bytes)
  PROVE  VersionStep
<1> DEFINE key == <<pk, kind, name>>
<1>1. /\ DOMAIN heads' = DOMAIN heads \cup {key}
      /\ \A k \in DOMAIN heads : k # key => heads'[k] = heads[k]
      /\ heads'[key].version = w.version
  BY DEF write_version, With
<1> HIDE DEF key
<1>2. key \in DOMAIN heads => w.version = heads[key].version + 1
  BY DEF key
<1> QED BY <1>1, <1>2 DEF VersionStep

\* A write or a deletion of a record moves its version forward only.
LEMMA RecordVersions ==
  ASSUME NEW pk \in DOMAIN vaults, NEW kind \in Kind, NEW name \in Name
  PROVE  /\ \A pre \in 0..MaxVersion, w \in Write :
               put_record(pk, kind, name, pre, w) => VersionStep
         /\ \A pre \in Version, w \in TombstoneWrite :
               delete_record(pk, kind, name, pre, w) => VersionStep
<1>1. Refuse(pk) => VersionStep
  BY DEF Refuse, VersionStep
<1>2. ASSUME NEW pre \in 0..MaxVersion, NEW w \in Write,
             put_record(pk, kind, name, pre, w)
      PROVE  VersionStep
  <2>1. CASE ~put_record_accepts(pk, kind, name, pre, w)
    BY <1>1, <1>2, <2>1 DEF put_record
  <2>2. CASE put_record_accepts(pk, kind, name, pre, w)
    <3>1. write_version(pk, kind, name, w, bytes_after(pk, w, prunable(pk, kind, name)))
      BY <1>2, <2>2 DEF put_record
    <3>2. <<pk, kind, name>> \in DOMAIN heads
             => w.version = heads[<<pk, kind, name>>].version + 1
      BY <2>2 DEF put_record_accepts, next_version
    <3> QED BY <3>1, <3>2, WriteMovesOne
  <2> QED BY <2>1, <2>2
<1>3. ASSUME NEW pre \in Version, NEW w \in TombstoneWrite,
             delete_record(pk, kind, name, pre, w)
      PROVE  VersionStep
  <2>1. CASE ~delete_record_accepts(pk, kind, name, pre, w)
    BY <1>1, <1>3, <2>1 DEF delete_record
  <2>2. CASE delete_record_accepts(pk, kind, name, pre, w)
    <3>1. \E bytes : write_version(pk, kind, name, w, bytes)
      BY <1>3, <2>2 DEF delete_record
    <3>2. w.version = heads[<<pk, kind, name>>].version + 1
      BY <2>2 DEF delete_record_accepts
    <3> QED BY <3>1, <3>2, WriteMovesOne
  <2> QED BY <2>1, <2>2
<1> QED BY <1>2, <1>3

\* Every step moves versions forward only.
LEMMA NextVersions == IInv /\ Next => VersionStep
<1> SUFFICES ASSUME IInv, Next PROVE VersionStep
  OBVIOUS
<1>1. UNCHANGED heads => VersionStep
  BY DEF VersionStep
<1>2. CASE VaultNext
  <2>1. ASSUME NEW pk \in DOMAIN vaults, delete_vault(pk) PROVE VersionStep
    BY <2>1 DEF delete_vault, Without, VersionStep
  <2> QED BY <1>1, <1>2, <2>1 DEF VaultNext, create_vault, touch, record, Refuse, Tick
<1>3. CASE TokenNext
  BY <1>1, <1>3 DEF TokenNext, register_token, revoke_tokens, Refuse
<1>4. CASE RecordNext
  <2>1. \A pk, pre, v, size :
           put_children(pk, pre, v, size) => UNCHANGED heads
    BY DEF put_children, Refuse
  <2> QED BY <1>1, <1>4, <2>1, RecordVersions DEF RecordNext
<1>5. CASE RotationNext
  <2>1. ASSUME NEW pk \in DOMAIN vaults, apply_rotation(pk) PROVE VersionStep
    <3>1. CASE ~rotate_accepts(pk, batch)
      BY <1>1, <2>1, <3>1 DEF apply_rotation
    <3>2. CASE rotate_accepts(pk, batch)
      <4>0. pk \in PK /\ batch \in Batch /\ vaults[pk] \in VaultRow
        BY <2>1 DEF IInv, TypeOK, apply_rotation
      <4>1. rotate(pk, batch) /\ batch.fromGeneration = vaults[pk].generation
        BY <2>1, <3>2 DEF apply_rotation, rotate_accepts
      <4>2. heads' = rotated_heads(pk, batch)
        BY <4>1 DEF rotate
      <4>3. vaults'[pk].generation # vaults[pk].generation
        <5>1. vaults'[pk].generation = batch.fromGeneration + 1
          BY <4>1 DEF rotate, append_audit, bump_revision, VaultRow, IInv, TypeOK
        <5> QED BY <4>0, <4>1, <5>1 DEF VaultRow
      <4>4. ASSUME NEW k \in DOMAIN heads, k[1] # pk
            PROVE  k \in DOMAIN heads' /\ heads'[k] = heads[k]
        <5>1. k \in DOMAIN heads'
          BY <4>2, <4>4 DEF rotated_heads
        <5>2. \A r \in rotated_rows(pk, batch) : <<r.vault, r.kind, r.name>> # k
          BY <4>0, <4>4, RotatedRows
        <5> QED BY <5>1, <5>2, <4>0, <4>2, RotatedHeads
      <4> QED BY <4>3, <4>4 DEF VersionStep
    <3> QED BY <3>1, <3>2
  <2> QED BY <1>1, <1>5, <2>1 DEF RotationNext, rotation_not_found, refresh_status,
                                  all_versions
<1> QED BY <1>2, <1>3, <1>4, <1>5 DEF Next

\* While a vault's generation stays, a name's head never disappears, never
\* goes back, and moves by exactly one: a version number is assigned once.
THEOREM VersionsOnce == Spec => VersionsAssignedOnce
<1>1. IInv /\ [Next]_vars => [VersionStep]_vars
  BY NextVersions
<1>2. [VersionStep]_vars
        => [\A k \in DOMAIN heads :
             (/\ k[1] \in DOMAIN vaults'
              /\ vaults'[k[1]].generation = vaults[k[1]].generation)
             => /\ k \in DOMAIN heads'
                /\ heads'[k] # heads[k] => heads'[k].version = heads[k].version + 1]_vars
  BY DEF VersionStep
<1> QED BY <1>1, <1>2, Invariance, PTL DEF Spec, VersionsAssignedOnce

-----------------------------------------------------------------------------
(***************************************************************************)
(* A rotation loses nothing.  The batch was gathered in several requests;  *)
(* what makes it whole is that every change of a record moves the vault's  *)
(* revision, and that a vault created again is born later.                 *)
(***************************************************************************)

\* What was gathered of a kind is what the vault stores of it, under new names.
Gathered(pk, kind) ==
    \E f \in Renaming : \A e \in batch.entries :
        e.kind = kind => \E r \in Rows(pk) : r.kind = kind /\ e = rotated(r, f)

\* A batch is of a vault that is gone, or was gathered from it, unless its
\* revision has moved: every change of a record moves it.
BatchSound ==
    /\ \A pk \in DOMAIN vaults : vaults[pk].born <= lastApplied
    /\ batch # NoBatch =>
          /\ batch.born <= lastApplied
          /\ (\A pk \in DOMAIN vaults : vaults[pk].id # batch.id) => batch.born < lastApplied
          /\ \A e \in batch.entries : e.kind \in batch.gathered
          /\ \A pk \in DOMAIN vaults :
                vaults[pk].id = batch.id
                => /\ batch.born <= vaults[pk].born
                   /\ batch.born = vaults[pk].born =>
                         /\ batch.fromRevision <= vaults[pk].revision
                         /\ batch.fromRevision = vaults[pk].revision =>
                               \A kind \in batch.gathered : Gathered(pk, kind)

\* A revision counts up, and an audit row does not move it.
LEMMA RevisionUpdates ==
  ASSUME NEW row \in VaultRow, NEW n \in Nat
  PROVE  /\ append_audit(row, n).born = row.born
         /\ append_audit(row, n).revision = row.revision
         /\ append_audit(bump_revision(row), n).born = row.born
         /\ append_audit(bump_revision(row), n).revision = row.revision + 1
BY DEF append_audit, bump_revision, VaultRow

\* A step that keeps every vault, moves no revision back and moves it when it
\* changes a record leaves a batch as sound as it was.
LEMMA BatchKept ==
  ASSUME IInv, BatchSound, batch' = batch, DOMAIN vaults' = DOMAIN vaults,
         lastApplied <= lastApplied', lastApplied' \in Nat,
         \A p \in DOMAIN vaults :
            /\ vaults'[p].id = vaults[p].id /\ vaults'[p].born = vaults[p].born
            /\ vaults'[p].revision \in Nat /\ vaults[p].revision <= vaults'[p].revision
            /\ vaults'[p].revision = vaults[p].revision => Rows(p)' = Rows(p)
  PROVE  BatchSound'
<1>1. lastApplied \in Nat /\ \A p \in DOMAIN vaults : vaults[p] \in VaultRow
  BY DEF IInv, TypeOK
<1>2. \A p \in DOMAIN vaults : vaults[p].born \in Nat /\ vaults[p].revision \in Nat
  BY <1>1 DEF VaultRow
<1>3. \A p \in DOMAIN vaults' : vaults'[p].born <= lastApplied'
  BY <1>1, <1>2 DEF BatchSound
<1>4. ASSUME batch # NoBatch
      PROVE  /\ batch.born <= lastApplied'
             /\ (\A p \in DOMAIN vaults' : vaults'[p].id # batch.id) => batch.born < lastApplied'
             /\ \A e \in batch.entries : e.kind \in batch.gathered
             /\ batch.born \in Nat /\ batch.fromRevision \in Nat
  <2>1. batch.born \in Nat /\ batch.fromRevision \in Nat
    BY <1>4 DEF IInv, TypeOK, Batch
  <2> QED BY <1>1, <1>4, <2>1 DEF BatchSound
<1>5. ASSUME batch # NoBatch, NEW p \in DOMAIN vaults, vaults[p].id = batch.id
      PROVE  /\ batch.born <= vaults'[p].born
             /\ batch.born = vaults'[p].born =>
                   /\ batch.fromRevision <= vaults'[p].revision
                   /\ batch.fromRevision = vaults'[p].revision =>
                         \A kind \in batch.gathered : Gathered(p, kind)'
  <2>1. batch.born <= vaults[p].born
    BY <1>5 DEF BatchSound
  <2>2. ASSUME batch.born = vaults[p].born
        PROVE  /\ batch.fromRevision <= vaults[p].revision
               /\ batch.fromRevision = vaults[p].revision =>
                     \A kind \in batch.gathered : Gathered(p, kind)
    BY <1>5, <2>2 DEF BatchSound
  <2>3. PICK a, b, c : a = batch.fromRevision /\ b = vaults[p].revision /\ c = vaults'[p].revision
    OBVIOUS
  <2>4. a \in Nat /\ b \in Nat /\ c \in Nat /\ b <= c
    BY <1>2, <1>4, <1>5, <2>3
  <2>5. ASSUME batch.born = vaults[p].born, a = c, NEW kind \in batch.gathered
        PROVE  Gathered(p, kind)'
    <3>1. a <= b
      BY <2>2, <2>3, <2>5
    <3>2. b = c /\ a = b
      BY <2>4, <2>5, <3>1
    <3>3. Rows(p)' = Rows(p) /\ Gathered(p, kind)
      BY <2>2, <2>3, <2>5, <3>2
    <3> QED BY <3>3 DEF Gathered
  <2>6. batch.born = vaults[p].born => a <= c
    <3>1. batch.born = vaults[p].born => a <= b
      BY <2>2, <2>3
    <3> QED BY <2>4, <3>1
  <2> QED BY <2>1, <2>3, <2>5, <2>6
<1> QED BY <1>3, <1>4, <1>5 DEF BatchSound

\* A step that changes no record and updates at most one vault's row.
LEMMA BatchRow ==
  ASSUME IInv, BatchSound, batch' = batch, records' = records, NEW pk \in DOMAIN vaults,
         NEW row \in VaultRow, vaults' = [vaults EXCEPT ![pk] = row],
         row.id = vaults[pk].id, row.born = vaults[pk].born, vaults[pk].revision <= row.revision,
         lastApplied' \in Nat, lastApplied <= lastApplied'
  PROVE  BatchSound'
<1>1. \A p \in DOMAIN vaults : vaults[p] \in VaultRow
  BY DEF IInv, TypeOK
<1>2. \A p \in DOMAIN vaults : vaults[p].revision \in Nat /\ Rows(p)' = Rows(p)
  BY <1>1 DEF VaultRow, Rows
<1>3. DOMAIN vaults' = DOMAIN vaults /\ row.revision \in Nat
  BY DEF VaultRow
<1>4. ASSUME NEW p \in DOMAIN vaults
      PROVE  /\ vaults'[p].id = vaults[p].id /\ vaults'[p].born = vaults[p].born
             /\ vaults'[p].revision \in Nat /\ vaults[p].revision <= vaults'[p].revision
  <2>1. CASE p = pk
    BY <1>3, <2>1
  <2>2. CASE p # pk
    BY <1>2, <2>2
  <2> QED BY <2>1, <2>2
<1> QED BY <1>2, <1>3, <1>4, BatchKept

\* Reads, refusals, tokens and children records.
LEMMA BatchRowSteps ==
  ASSUME IInv, BatchSound, NEW pk \in DOMAIN vaults
  PROVE  /\ Refuse(pk) => BatchSound'
         /\ touch(pk) => BatchSound'
         /\ \A t \in TokenId, g \in Generation, x \in 1..(MaxTime + 1) :
               register_token(pk, t, g, x) => BatchSound'
         /\ \A ids \in SUBSET TokenId : revoke_tokens(pk, ids) => BatchSound'
         /\ \A pre, v, size : put_children(pk, pre, v, size) => BatchSound'
<1>1. vaults[pk] \in VaultRow /\ lastApplied \in Nat /\ now \in Nat /\ lastApplied <= lastApplied
  BY DEF IInv, TypeOK
<1>2. vaults[pk].revision \in Nat /\ vaults[pk].revision <= vaults[pk].revision
      /\ vaults[pk].revision <= vaults[pk].revision + 1
  BY <1>1 DEF VaultRow
<1>3. ASSUME NEW n \in Nat, vaults' = [vaults EXCEPT ![pk] = append_audit(@, n)],
             UNCHANGED <<batch, records, lastApplied>>
      PROVE  BatchSound'
  <2>1. PICK row : row = append_audit(vaults[pk], n)
    OBVIOUS
  <2>2. /\ row \in VaultRow /\ row.id = vaults[pk].id /\ row.born = vaults[pk].born
        /\ row.revision = vaults[pk].revision /\ vaults' = [vaults EXCEPT ![pk] = row]
    BY <1>1, <1>3, <2>1, RowUpdates, RevisionUpdates
  <2> QED BY <1>1, <1>2, <1>3, <2>2, BatchRow
<1>4. ASSUME NEW n \in Nat, vaults' = [vaults EXCEPT ![pk] = append_audit(bump_revision(@), n)],
             UNCHANGED <<batch, records>>, lastApplied' \in Nat, lastApplied <= lastApplied'
      PROVE  BatchSound'
  <2>1. PICK row : row = append_audit(bump_revision(vaults[pk]), n)
    OBVIOUS
  <2>2. /\ row \in VaultRow /\ row.id = vaults[pk].id /\ row.born = vaults[pk].born
        /\ row.revision = vaults[pk].revision + 1 /\ vaults' = [vaults EXCEPT ![pk] = row]
    BY <1>1, <1>4, <2>1, RowUpdates, RevisionUpdates
  <2> QED BY <1>2, <1>4, <2>2, BatchRow
<1>5. Refuse(pk) => BatchSound'
  BY <1>3 DEF Refuse
<1>6. ASSUME touch(pk) PROVE BatchSound'
  <2>1. PICK row : row = [vaults[pk] EXCEPT !.active = now]
    OBVIOUS
  <2>2. /\ row \in VaultRow /\ row.id = vaults[pk].id /\ row.born = vaults[pk].born
        /\ row.revision = vaults[pk].revision
    BY <1>1, <2>1 DEF VaultRow
  <2>3. vaults' = [vaults EXCEPT ![pk] = row] /\ UNCHANGED <<batch, records, lastApplied>>
    BY <1>6, <2>1 DEF touch
  <2> QED BY <1>1, <1>2, <2>2, <2>3, BatchRow
<1>7. ASSUME NEW t \in TokenId, NEW g \in Generation, NEW x \in 1..(MaxTime + 1),
             register_token(pk, t, g, x)
      PROVE  BatchSound'
  <2>1. CASE register_token_accepts(pk, g)
    BY <1>1, <1>4, <1>7, <2>1 DEF register_token
  <2> QED BY <1>5, <1>7, <2>1 DEF register_token
<1>8. ASSUME NEW ids \in SUBSET TokenId, revoke_tokens(pk, ids) PROVE BatchSound'
  <2>1. PICK n : n = Cardinality(ids \cap TokensOf(pk))
    OBVIOUS
  <2>2. n \in Nat
    <3>1. ids \cap TokensOf(pk) \in SUBSET TokenId
      OBVIOUS
    <3> QED BY <2>1, <3>1, TokenCount
  <2>3. /\ vaults' = [vaults EXCEPT ![pk] = append_audit(bump_revision(@), n)]
        /\ UNCHANGED <<batch, records>> /\ lastApplied' = lastApplied + 1
    BY <1>8, <2>1 DEF revoke_tokens, journal
  <2>4. lastApplied' \in Nat /\ lastApplied <= lastApplied'
    BY <1>1, <2>3
  <2> QED BY <1>4, <2>2, <2>3, <2>4
<1>9. ASSUME NEW pre, NEW v, NEW size, put_children(pk, pre, v, size) PROVE BatchSound'
  BY <1>3, <1>5, <1>9 DEF put_children
<1> QED BY <1>5, <1>6, <1>7, <1>8, <1>9

\* A write of a record moves its vault's revision, and no other's rows.
LEMMA BatchWrite ==
  ASSUME IInv, BatchSound, NEW pk \in DOMAIN vaults, NEW kind, NEW name, NEW w, NEW bytes,
         write_version(pk, kind, name, w, bytes)
  PROVE  BatchSound'
<1>1. /\ \A p \in DOMAIN vaults : vaults[p] \in VaultRow
      /\ lastApplied \in Nat
  BY DEF IInv, TypeOK
<1>2. PICK new : /\ new.vault = pk
                 /\ records' = (records \ prunable(pk, kind, name)) \cup {new}
  <2>1. PICK new : new = [vault |-> pk, kind |-> kind, name |-> name,
                          version |-> w.version, generation |-> w.generation,
                          at |-> w.at, value |-> w.value]
    OBVIOUS
  <2>2. new.vault = pk /\ records' = (records \ prunable(pk, kind, name)) \cup {new}
    BY <2>1 DEF write_version
  <2> QED BY <2>2
<1>3. \A r \in prunable(pk, kind, name) : r.vault = pk
  BY DEF prunable, RowsOf, Rows
<1>4. \A p \in DOMAIN vaults : p # pk => Rows(p)' = Rows(p)
  BY <1>2, <1>3 DEF Rows
<1>5. PICK row : row = append_audit(bump_revision(vaults[pk]), 1)
  OBVIOUS
<1>6. /\ row.id = vaults[pk].id /\ row.born = vaults[pk].born
      /\ row.revision = vaults[pk].revision + 1
  BY <1>1, <1>5, RowUpdates, RevisionUpdates
<1>7. vaults' = [vaults EXCEPT ![pk] = row] /\ UNCHANGED <<batch, lastApplied>>
  BY <1>5 DEF write_version
<1>8. \A p \in DOMAIN vaults : vaults[p].revision \in Nat
  BY <1>1 DEF VaultRow
<1>9. ASSUME NEW p \in DOMAIN vaults
      PROVE  /\ vaults'[p].id = vaults[p].id /\ vaults'[p].born = vaults[p].born
             /\ vaults'[p].revision \in Nat /\ vaults[p].revision <= vaults'[p].revision
             /\ vaults'[p].revision = vaults[p].revision => Rows(p)' = Rows(p)
  <2>1. CASE p = pk
    BY <1>6, <1>7, <1>8, <2>1
  <2>2. CASE p # pk
    BY <1>4, <1>7, <1>8, <2>2
  <2> QED BY <2>1, <2>2
<1> QED BY <1>1, <1>7, <1>9, BatchKept

\* A vault is created: under an id that a batch was gathered for, it is born
\* after the vault that batch is of.
LEMMA BatchCreate ==
  ASSUME IInv, BatchSound, NEW id \in VaultId, create_vault(id)
  PROVE  BatchSound'
<1>1. PICK pk \in PK :
        /\ \A q \in DOMAIN vaults : vaults[q].id # id
        /\ last_insert_rowid(pk)
        /\ vaults' = With(vaults, pk, [id |-> id, born |-> lastApplied, generation |-> 1,
                                       revision |-> 1, auditSeq |-> 1, active |-> now])
        /\ UNCHANGED <<records, lastApplied, batch>>
  BY DEF create_vault
<1>2. pk \notin DOMAIN vaults /\ lastApplied \in Nat /\ DOMAIN vaults \subseteq PK /\ PK \subseteq Nat
  BY <1>1, ConstantsAssumption DEF last_insert_rowid, IInv, TypeOK, PK
<1>3. /\ DOMAIN vaults' = DOMAIN vaults \cup {pk}
      /\ vaults'[pk].id = id /\ vaults'[pk].born = lastApplied
      /\ \A p \in DOMAIN vaults : vaults'[p] = vaults[p] /\ p # pk
  BY <1>1, <1>2 DEF With
<1>4. \A p \in DOMAIN vaults' : vaults'[p].born <= lastApplied'
  BY <1>1, <1>2, <1>3 DEF BatchSound
<1>5. ASSUME batch # NoBatch
      PROVE  /\ batch.born <= lastApplied
             /\ (\A p \in DOMAIN vaults' : vaults'[p].id # batch.id) => batch.born < lastApplied
             /\ \A e \in batch.entries : e.kind \in batch.gathered
  BY <1>3, <1>5 DEF BatchSound
<1>6. ASSUME batch # NoBatch, NEW p \in DOMAIN vaults', vaults'[p].id = batch.id
      PROVE  /\ batch.born <= vaults'[p].born
             /\ batch.born = vaults'[p].born =>
                   /\ batch.fromRevision <= vaults'[p].revision
                   /\ batch.fromRevision = vaults'[p].revision =>
                         \A kind \in batch.gathered : Gathered(p, kind)'
  <2>1. CASE p = pk
    <3>1. batch.born < lastApplied /\ batch.born \in Nat
      BY <1>1, <1>3, <1>6, <2>1 DEF BatchSound, IInv, TypeOK, Batch
    <3> QED BY <1>2, <1>3, <2>1, <3>1
  <2>2. CASE p \in DOMAIN vaults
    <3>1. \A kind : Gathered(p, kind)' = Gathered(p, kind)
      BY <1>1 DEF Gathered, Rows
    <3>2. vaults'[p] = vaults[p]
      BY <1>3, <2>2
    <3> QED BY <1>6, <2>2, <3>1, <3>2 DEF BatchSound
  <2> QED BY <1>3, <2>1, <2>2
<1> QED BY <1>1, <1>4, <1>5, <1>6 DEF BatchSound

\* A vault is deleted: a batch of it is of a vault that is gone.
LEMMA BatchDelete ==
  ASSUME IInv, BatchSound, NEW pk \in DOMAIN vaults, delete_vault(pk)
  PROVE  BatchSound'
<1>1. /\ vaults' = Without(vaults, {pk}) /\ records' = records \ Rows(pk)
      /\ batch' = batch /\ lastApplied' = lastApplied + 1
  BY DEF delete_vault, journal
<1>2. /\ lastApplied \in Nat
      /\ \A p \in DOMAIN vaults : vaults[p].born \in Nat
      /\ \A p, q \in DOMAIN vaults : vaults[p].id = vaults[q].id => p = q
  BY DEF IInv, TypeOK, NoOrphans, VaultRow
<1>3. /\ DOMAIN vaults' = DOMAIN vaults \ {pk}
      /\ \A p \in DOMAIN vaults' : vaults'[p] = vaults[p]
  BY <1>1 DEF Without
<1>4. \A p \in DOMAIN vaults' : Rows(p)' = Rows(p)
  BY <1>1, <1>3 DEF Rows
<1>5. \A p \in DOMAIN vaults' : vaults'[p].born <= lastApplied'
  BY <1>1, <1>2, <1>3 DEF BatchSound
<1>6. ASSUME batch # NoBatch
      PROVE  /\ batch.born < lastApplied'
             /\ batch.born <= lastApplied'
             /\ \A e \in batch.entries : e.kind \in batch.gathered
  <2>1. batch.born \in Nat /\ batch.born <= lastApplied
    BY <1>6 DEF BatchSound, IInv, TypeOK, Batch
  <2>2. batch.born < lastApplied' /\ batch.born <= lastApplied'
    BY <1>1, <1>2, <2>1
  <2> QED BY <1>6, <2>2 DEF BatchSound
<1>7. ASSUME batch # NoBatch, NEW p \in DOMAIN vaults', vaults'[p].id = batch.id
      PROVE  /\ batch.born <= vaults'[p].born
             /\ batch.born = vaults'[p].born =>
                   /\ batch.fromRevision <= vaults'[p].revision
                   /\ batch.fromRevision = vaults'[p].revision =>
                         \A kind \in batch.gathered : Gathered(p, kind)'
  <2>1. \A kind : Gathered(p, kind)' = Gathered(p, kind)
    BY <1>1, <1>4 DEF Gathered
  <2>2. vaults'[p] = vaults[p] /\ p \in DOMAIN vaults
    BY <1>3
  <2> QED BY <1>7, <2>1, <2>2 DEF BatchSound
<1> QED BY <1>1, <1>5, <1>6, <1>7 DEF BatchSound

\* A batch is begun with nothing gathered.
LEMMA BatchStatus ==
  ASSUME IInv, BatchSound, NEW pk \in DOMAIN vaults, NEW resealed \in SUBSET TokenId,
         NEW revoke \in SUBSET TokenId, refresh_status(pk, resealed, revoke)
  PROVE  BatchSound'
<1>1. /\ batch' = [id |-> vaults[pk].id, born |-> vaults[pk].born,
                   fromGeneration |-> vaults[pk].generation,
                   fromRevision |-> vaults[pk].revision, entries |-> {},
                   gathered |-> {}, tokens |-> resealed, revoke |-> revoke]
      /\ UNCHANGED <<vaults, records, lastApplied>>
  BY DEF refresh_status
<1>2. /\ batch'.id = vaults[pk].id /\ batch'.born = vaults[pk].born
      /\ batch'.fromRevision = vaults[pk].revision /\ batch'.entries = {} /\ batch'.gathered = {}
  BY <1>1
<1>3. /\ \A p \in DOMAIN vaults : vaults[p].born \in Nat /\ vaults[p].revision \in Nat
      /\ \A p, q \in DOMAIN vaults : vaults[p].id = vaults[q].id => p = q
      /\ \A p \in DOMAIN vaults : vaults[p].born <= lastApplied
  BY DEF IInv, TypeOK, NoOrphans, VaultRow, BatchSound
<1>4. ASSUME NEW p \in DOMAIN vaults, vaults[p].id = batch'.id
      PROVE  p = pk /\ batch'.born <= vaults[p].born /\ batch'.fromRevision <= vaults[p].revision
  BY <1>2, <1>3, <1>4
<1> QED BY <1>1, <1>2, <1>3, <1>4 DEF BatchSound

\* What is gathered while the revision stays is what the vault stores.
LEMMA BatchGather ==
  ASSUME IInv, BatchSound, NEW pk \in DOMAIN vaults, NEW kind \in Kind, NEW f \in Renaming,
         NEW omitted, all_versions(pk, kind, f, omitted)
  PROVE  BatchSound'
<1> DEFINE added == {rotated(r, f) : r \in {s \in Rows(pk) : s.kind = kind} \ omitted}
<1>1. /\ batch # NoBatch /\ batch.id = vaults[pk].id /\ kind \notin batch.gathered
      /\ batch' = [batch EXCEPT !.entries = @ \cup added, !.gathered = @ \cup {kind}]
      /\ UNCHANGED <<vaults, records, lastApplied>>
  BY DEF all_versions
<1>2. batch \in Batch
  BY <1>1 DEF IInv, TypeOK
<1>3. \A e \in added : e.kind = kind /\ \E r \in Rows(pk) : r.kind = kind /\ e = rotated(r, f)
  BY DEF rotated
<1> HIDE DEF added
<1>4. /\ batch'.id = batch.id /\ batch'.born = batch.born /\ batch'.fromRevision = batch.fromRevision
      /\ batch'.entries = batch.entries \cup added /\ batch'.gathered = batch.gathered \cup {kind}
  BY <1>1, <1>2 DEF Batch
<1>5. \A p \in DOMAIN vaults : vaults[p].id = batch.id => p = pk
  BY <1>1 DEF IInv, NoOrphans
<1>6. \A e \in batch.entries : e.kind \in batch.gathered
  BY <1>1 DEF BatchSound
<1>7. \A e \in batch'.entries : e.kind \in batch'.gathered
  BY <1>3, <1>4, <1>6
<1>8. ASSUME \A k \in batch.gathered : Gathered(pk, k), NEW k \in batch'.gathered
      PROVE  Gathered(pk, k)'
  <2>1. Rows(pk)' = Rows(pk)
    BY <1>1 DEF Rows
  <2>2. CASE k = kind
    <3>1. \A e \in batch'.entries : e.kind = kind => e \in added
      BY <1>1, <1>4, <1>6
    <3> QED BY <1>3, <2>1, <2>2, <3>1 DEF Gathered
  <2>3. CASE k # kind
    <3>1. Gathered(pk, k)
      BY <1>4, <1>8, <2>3
    <3>2. \A e \in batch'.entries : e.kind = k => e \in batch.entries
      BY <1>3, <1>4, <2>3
    <3> QED BY <2>1, <3>1, <3>2 DEF Gathered
  <2> QED BY <2>2, <2>3
<1>9. /\ batch.born <= vaults[pk].born
      /\ batch.born = vaults[pk].born =>
            /\ batch.fromRevision <= vaults[pk].revision
            /\ batch.fromRevision = vaults[pk].revision =>
                  \A k \in batch.gathered : Gathered(pk, k)
  BY <1>1 DEF BatchSound
<1>10. ASSUME NEW p \in DOMAIN vaults, vaults[p].id = batch'.id
       PROVE  /\ batch'.born <= vaults[p].born
              /\ batch'.born = vaults[p].born =>
                    /\ batch'.fromRevision <= vaults[p].revision
                    /\ batch'.fromRevision = vaults[p].revision =>
                          \A k \in batch'.gathered : Gathered(p, k)'
  <2>1. p = pk
    BY <1>4, <1>5, <1>10
  <2> QED BY <1>4, <1>8, <1>9, <2>1
<1>11. /\ batch'.born <= lastApplied
       /\ \A p \in DOMAIN vaults : vaults[p].born <= lastApplied
  BY <1>1, <1>4 DEF BatchSound
<1>12. pk \in DOMAIN vaults /\ vaults[pk].id = batch'.id
  BY <1>1, <1>4
<1> QED BY <1>1, <1>7, <1>10, <1>11, <1>12 DEF BatchSound

\* A batch that was sent is done with.
LEMMA BatchSent ==
  ASSUME IInv, BatchSound, NEW pk \in DOMAIN vaults, apply_rotation(pk)
  PROVE  BatchSound'
<1>1. /\ batch' = NoBatch /\ lastApplied \in Nat
      /\ \A p \in DOMAIN vaults : vaults[p] \in VaultRow /\ vaults[p].born \in Nat
  BY DEF apply_rotation, IInv, TypeOK, VaultRow
<1>2. CASE ~rotate_accepts(pk, batch)
  BY <1>1, <1>2 DEF apply_rotation, BatchSound
<1>3. CASE rotate_accepts(pk, batch)
  <2>1. rotate(pk, batch) /\ lastApplied' = lastApplied + 1
    BY <1>3 DEF apply_rotation, journal
  <2>2. PICK n : n = 1 + Cardinality(batch.revoke \cap TokensOf(pk))
    OBVIOUS
  <2>3. n \in Nat
    <3>1. batch.revoke \cap TokensOf(pk) \in SUBSET TokenId
      BY DEF IInv, TypeOK, TokensOf
    <3>2. Cardinality(batch.revoke \cap TokensOf(pk)) \in Nat
      BY <3>1, TokenCount
    <3> QED BY <2>2, <3>2
  <2>4. PICK row : row = append_audit(bump_revision(vaults[pk]), n)
    OBVIOUS
  <2>5. row \in VaultRow /\ row.born = vaults[pk].born
    BY <1>1, <2>3, <2>4, RowUpdates, RevisionUpdates
  <2>6. vaults' = [vaults EXCEPT ![pk] = [row EXCEPT !.generation = batch.fromGeneration + 1]]
    BY <2>1, <2>2, <2>4 DEF rotate
  <2>7. DOMAIN vaults' = DOMAIN vaults /\ \A p \in DOMAIN vaults : vaults'[p].born = vaults[p].born
    BY <2>5, <2>6 DEF VaultRow
  <2> QED BY <1>1, <2>1, <2>7 DEF BatchSound
<1> QED BY <1>2, <1>3

\* Every step keeps the batch sound.
LEMMA BatchNext == IInv /\ BatchSound /\ [Next]_vars => BatchSound'
<1> SUFFICES ASSUME IInv, BatchSound, [Next]_vars PROVE BatchSound'
  OBVIOUS
<1>1. UNCHANGED <<vaults, records, lastApplied, batch>> => BatchSound'
  BY DEF BatchSound, Gathered, Rows
<1>2. CASE VaultNext
  <2>1. ASSUME NEW pk \in DOMAIN vaults, touch(pk) \/ record(pk) \/ delete_vault(pk) PROVE BatchSound'
    BY <2>1, BatchRowSteps, BatchDelete DEF record
  <2>2. Tick => BatchSound'
    BY <1>1 DEF Tick
  <2> QED BY <1>2, <2>1, <2>2, BatchCreate DEF VaultNext
<1>3. CASE TokenNext
  BY <1>3, BatchRowSteps DEF TokenNext
<1>4. CASE RecordNext
  <2>1. ASSUME NEW pk \in DOMAIN vaults, NEW kind \in Kind, NEW name \in Name, NEW pre, NEW w,
               put_record(pk, kind, name, pre, w) \/ delete_record(pk, kind, name, pre, w)
        PROVE  BatchSound'
    <3>1. Refuse(pk) \/ \E bytes : write_version(pk, kind, name, w, bytes)
      BY <2>1 DEF put_record, delete_record
    <3> QED BY <3>1, BatchWrite, BatchRowSteps
  <2> QED BY <1>4, <2>1, BatchRowSteps DEF RecordNext
<1>5. CASE RotationNext
  <2>1. rotation_not_found => BatchSound'
    BY DEF rotation_not_found, BatchSound
  <2> QED BY <1>5, <2>1, BatchStatus, BatchGather, BatchSent DEF RotationNext
<1>6. CASE UNCHANGED vars
  BY <1>1, <1>6 DEF vars
<1> QED BY <1>2, <1>3, <1>4, <1>5, <1>6 DEF Next

\* A batch is sound in every state.
LEMMA BatchInvariance == Spec => []BatchSound
<1>1. Init => BatchSound
  BY DEF Init, BatchSound
<1> QED BY <1>1, BatchNext, Invariance, PTL DEF Spec

\* A row under another name and generation, field by field.
LEMMA RowAgain ==
  ASSUME NEW r \in RecordRow, NEW n, NEW m
  PROVE  [r EXCEPT !.name = n, !.generation = m]
            = [vault |-> r.vault, kind |-> r.kind, name |-> n, version |-> r.version,
               generation |-> m, at |-> r.at, value |-> r.value]
<1> DEFINE fields == {"vault", "kind", "name", "version", "generation", "at", "value"}
           x == [r EXCEPT !.name = n, !.generation = m]
<1>1. DOMAIN x = fields
  BY DEF RecordRow
<1>2. /\ x.vault = r.vault /\ x.kind = r.kind /\ x.name = n /\ x.version = r.version
      /\ x.generation = m /\ x.at = r.at /\ x.value = r.value
  BY DEF RecordRow
<1>3. x = [i \in fields |-> x[i]]
  BY <1>1
<1> HIDE DEF x
<1>4. x = [vault |-> r.vault, kind |-> r.kind, name |-> n, version |-> r.version,
           generation |-> m, at |-> r.at, value |-> r.value]
  BY <1>1, <1>2, <1>3
<1> QED BY <1>4 DEF x

\* An accepted batch stores every row of its vault again, once, under a name
\* that its kind's renaming gives, and stores nothing else.
LEMMA RotationRenames ==
  ASSUME IInv, BatchSound, NEW pk \in DOMAIN vaults, batch # NoBatch,
         batch.id = vaults[pk].id, batch.gathered = Kind, rotate_accepts(pk, batch)
  PROVE  \E f \in [Kind -> Renaming] :
            rotated_rows(pk, batch) = {[r EXCEPT !.name = f[r.kind][r.name],
                                                 !.generation = @ + 1] : r \in Rows(pk)}
<1>1. batch \in Batch
  BY DEF IInv, TypeOK
<1>2. \A kind \in Kind : Gathered(pk, kind)
  BY DEF BatchSound, rotate_accepts
<1> DEFINE g(kind, f) == \A e \in batch.entries :
                            e.kind = kind => \E r \in Rows(pk) : r.kind = kind /\ e = rotated(r, f)
           f == [kind \in Kind |-> CHOOSE h \in Renaming : g(kind, h)]
<1>3. ASSUME NEW kind \in Kind PROVE f[kind] \in Renaming /\ g(kind, f[kind])
  <2>1. \E h \in Renaming : g(kind, h)
    BY <1>2 DEF Gathered
  <2>2. (CHOOSE h \in Renaming : g(kind, h)) \in Renaming
        /\ g(kind, CHOOSE h \in Renaming : g(kind, h))
    <3> HIDE DEF g
    <3> QED BY <2>1
  <2>3. f[kind] = CHOOSE h \in Renaming : g(kind, h)
    <3> HIDE DEF g
    <3> QED OBVIOUS
  <2> HIDE DEF f, g
  <2> QED BY <2>2, <2>3
<1>4. f \in [Kind -> Renaming]
  <2> HIDE DEF g
  <2>1. f = [kind \in Kind |-> f[kind]]
    OBVIOUS
  <2> HIDE DEF f
  <2> QED BY <1>3, <2>1
<1> HIDE DEF f
<1>5. /\ \A r \in Rows(pk) : /\ r \in RecordRow /\ r.vault = pk /\ r \in records
                             /\ r.generation = batch.fromGeneration
  BY DEF Rows, IInv, TypeOK, GenerationUniform, rotate_accepts
<1> DEFINE again(r) == [r EXCEPT !.name = f[r.kind][r.name], !.generation = @ + 1]
           row(e) == [vault |-> pk, kind |-> e.kind, name |-> e.new, version |-> e.version,
                      generation |-> batch.fromGeneration + 1, at |-> e.at, value |-> e.value]
<1>6. ASSUME NEW r \in Rows(pk), NEW e, e = rotated(r, f[r.kind]) PROVE row(e) = again(r)
  <2>1. /\ e.kind = r.kind /\ e.new = f[r.kind][r.name] /\ e.version = r.version
        /\ e.at = r.at /\ e.value = r.value
    BY <1>6 DEF rotated
  <2>2. PICK n, m : n = f[r.kind][r.name] /\ m = batch.fromGeneration + 1
    OBVIOUS
  <2>3. again(r) = [r EXCEPT !.name = n, !.generation = m]
    BY <1>5, <2>2
  <2>4. [r EXCEPT !.name = n, !.generation = m]
          = [vault |-> r.vault, kind |-> r.kind, name |-> n, version |-> r.version,
             generation |-> m, at |-> r.at, value |-> r.value]
    <3>1. r \in RecordRow
      BY <1>5
    <3> QED BY <3>1, RowAgain
  <2>5. row(e) = [vault |-> r.vault, kind |-> r.kind, name |-> n, version |-> r.version,
                  generation |-> m, at |-> r.at, value |-> r.value]
    BY <1>5, <2>1, <2>2
  <2> HIDE DEF row, again
  <2> QED BY <2>3, <2>4, <2>5
<1>7. \A e \in batch.entries : \E r \in Rows(pk) : e = rotated(r, f[r.kind])
  <2>1. SUFFICES ASSUME NEW e \in batch.entries PROVE \E r \in Rows(pk) : e = rotated(r, f[r.kind])
    OBVIOUS
  <2>2. e.kind \in Kind
    BY <1>1 DEF Batch, Entry
  <2> QED BY <1>3, <2>2
<1>8. ASSUME NEW r \in Rows(pk) PROVE \E e \in batch.entries : e = rotated(r, f[r.kind])
  <2>1. PICK e \in batch.entries : e.kind = r.kind /\ e.old = r.name /\ e.version = r.version
    BY DEF rotate_accepts, check_complete
  <2>2. PICK s \in Rows(pk) : e = rotated(s, f[s.kind])
    BY <1>7
  <2>3. e.kind = s.kind /\ e.old = s.name /\ e.version = s.version
    BY <2>2 DEF rotated
  <2>4. /\ s \in records /\ r \in records /\ s.vault = r.vault /\ s.kind = r.kind
        /\ s.name = r.name /\ s.version = r.version
    BY <1>5, <2>1, <2>3
  <2>5. s = r
    <3> HIDE DEF g, again, row
    <3> QED BY <2>4 DEF IInv, HeadsAgree
  <2> QED BY <2>2, <2>5
<1>9. rotated_rows(pk, batch) = {row(e) : e \in batch.entries}
  BY DEF rotated_rows
<1> HIDE DEF row, again
<1>10. {row(e) : e \in batch.entries} = {again(r) : r \in Rows(pk)}
  BY <1>6, <1>7, <1>8
<1>11. rotated_rows(pk, batch) = {again(r) : r \in Rows(pk)}
  BY <1>9, <1>10
<1> USE DEF again
<1> QED BY <1>4, <1>11

\* What an accepted batch does to its vault.
LEMMA RotationApplied ==
  ASSUME IInv, BatchSound, NEW pk \in DOMAIN vaults, apply_rotation(pk), rotate_accepts(pk, batch)
  PROVE  /\ DOMAIN vaults' = DOMAIN vaults
         /\ \A p \in DOMAIN vaults : p # pk => vaults'[p] = vaults[p]
         /\ vaults'[pk].generation = vaults[pk].generation + 1
         /\ Rows(pk)' = rotated_rows(pk, batch)
         /\ TokensOf(pk)' = TokensOf(pk) \ batch.revoke
<1>1. /\ rotate(pk, batch) /\ batch # NoBatch
      /\ batch.fromGeneration = vaults[pk].generation /\ batch.revoke \subseteq TokensOf(pk)
  BY DEF apply_rotation, rotate_accepts
<1>2. PICK row, n : /\ n = 1 + Cardinality(batch.revoke \cap TokensOf(pk))
                    /\ row = append_audit(bump_revision(vaults[pk]), n)
  OBVIOUS
<1>3. row \in VaultRow
  <2>1. batch.revoke \cap TokensOf(pk) \in SUBSET TokenId
    BY DEF IInv, TypeOK, TokensOf
  <2>2. Cardinality(batch.revoke \cap TokensOf(pk)) \in Nat
    BY <2>1, TokenCount
  <2>3. n \in Nat /\ vaults[pk] \in VaultRow
    BY <1>2, <2>2 DEF IInv, TypeOK
  <2> QED BY <1>2, <2>3, RowUpdates
<1>4. vaults' = [vaults EXCEPT ![pk] = [row EXCEPT !.generation = batch.fromGeneration + 1]]
  BY <1>1, <1>2 DEF rotate
<1>5. /\ DOMAIN vaults' = DOMAIN vaults
      /\ \A p \in DOMAIN vaults : p # pk => vaults'[p] = vaults[p]
      /\ vaults'[pk].generation = vaults[pk].generation + 1
  BY <1>1, <1>3, <1>4 DEF VaultRow
<1>6. Rows(pk)' = rotated_rows(pk, batch)
  <2>1. records' = (records \ Rows(pk)) \cup rotated_rows(pk, batch)
    BY <1>1 DEF rotate
  <2>2. \A r \in rotated_rows(pk, batch) : r.vault = pk
    BY DEF rotated_rows
  <2> QED BY <2>1, <2>2 DEF Rows
<1>7. TokensOf(pk)' = TokensOf(pk) \ batch.revoke
  <2>1. tokens' = [t \in DOMAIN tokens \ (batch.revoke \cap TokensOf(pk)) |->
                      IF t \in batch.tokens /\ tokens[t].vault = pk
                      THEN [tokens[t] EXCEPT !.generation = batch.fromGeneration + 1]
                      ELSE tokens[t]]
    BY <1>1 DEF rotate
  <2>2. \A t \in DOMAIN tokens : tokens[t] \in TokenRow
    BY DEF IInv, TypeOK
  <2>3. DOMAIN tokens' = DOMAIN tokens \ (batch.revoke \cap TokensOf(pk))
    BY <2>1
  <2>4. \A t \in DOMAIN tokens' : tokens'[t].vault = tokens[t].vault
    BY <2>1, <2>2 DEF TokenRow
  <2> QED BY <1>1, <2>3, <2>4 DEF TokensOf
<1> QED BY <1>5, <1>6, <1>7

\* Only an accepted rotation moves a vault's generation.
LEMMA OnlyRotation ==
  ASSUME IInv, Next, NEW pk \in DOMAIN vaults, pk \in DOMAIN vaults',
         vaults'[pk].generation # vaults[pk].generation,
         BatchSound
  PROVE  apply_rotation(pk) /\ rotate_accepts(pk, batch)
<1>1. \A p \in DOMAIN vaults : vaults[p] \in VaultRow
  BY DEF IInv, TypeOK
<1>2. ASSUME NEW p \in DOMAIN vaults, NEW row \in VaultRow, row.generation = vaults[p].generation,
             vaults' = [vaults EXCEPT ![p] = row]
      PROVE  FALSE
  BY <1>2
<1>3. ASSUME NEW p \in DOMAIN vaults, Refuse(p) PROVE FALSE
  BY <1>1, <1>2, <1>3, RowUpdates DEF Refuse
<1>4. ASSUME NEW p \in DOMAIN vaults, NEW n \in Nat,
             vaults' = [vaults EXCEPT ![p] = append_audit(bump_revision(@), n)]
      PROVE  FALSE
  BY <1>1, <1>2, <1>4, RowUpdates
<1>5. vaults' # vaults
  OBVIOUS
<1>6. ~VaultNext
  <2>1. ASSUME NEW id \in VaultId, create_vault(id) PROVE FALSE
    <3>1. PICK p, row : p \notin DOMAIN vaults /\ vaults' = With(vaults, p, row)
      <4>1. PICK p \in PK : /\ last_insert_rowid(p)
                            /\ vaults' = With(vaults, p,
                                   [id |-> id, born |-> lastApplied, generation |-> 1,
                                    revision |-> 1, auditSeq |-> 1, active |-> now])
        BY <2>1 DEF create_vault
      <4>2. p \notin DOMAIN vaults
        BY <4>1, ConstantsAssumption DEF last_insert_rowid, PK, IInv, TypeOK
      <4> QED BY <4>1, <4>2
    <3> QED BY <3>1 DEF With
  <2>2. ASSUME NEW p \in DOMAIN vaults, touch(p) PROVE FALSE
    <3>1. vaults' = [vaults EXCEPT ![p].active = now]
      BY <2>2 DEF touch
    <3> QED BY <1>1, <3>1 DEF VaultRow
  <2>3. ASSUME NEW p \in DOMAIN vaults, delete_vault(p) PROVE FALSE
    BY <2>3 DEF delete_vault, Without
  <2>4. ~Tick
    BY <1>5 DEF Tick
  <2> QED BY <1>3, <2>1, <2>2, <2>3, <2>4 DEF VaultNext, record
<1>7. ~TokenNext
  <2>1. ASSUME NEW p \in DOMAIN vaults, NEW t \in TokenId, NEW g \in Generation,
               NEW x \in 1..(MaxTime + 1), register_token(p, t, g, x)
        PROVE  FALSE
    <3>1. Refuse(p) \/ vaults' = [vaults EXCEPT ![p] = append_audit(bump_revision(@), 1)]
      BY <2>1 DEF register_token
    <3> QED BY <1>3, <1>4, <3>1
  <2>2. ASSUME NEW p \in DOMAIN vaults, NEW ids \in SUBSET TokenId, revoke_tokens(p, ids)
        PROVE  FALSE
    <3>1. PICK n : n = Cardinality(ids \cap TokensOf(p))
      OBVIOUS
    <3>2. ids \cap TokensOf(p) \in SUBSET TokenId
      OBVIOUS
    <3>3. n \in Nat
      BY <3>1, <3>2, TokenCount
    <3>4. vaults' = [vaults EXCEPT ![p] = append_audit(bump_revision(@), n)]
      BY <2>2, <3>1 DEF revoke_tokens
    <3> QED BY <1>4, <3>3, <3>4
  <2> QED BY <2>1, <2>2 DEF TokenNext
<1>8. ~RecordNext
  <2>1. ASSUME NEW p \in DOMAIN vaults, NEW kind, NEW name, NEW pre, NEW w,
               put_record(p, kind, name, pre, w) \/ delete_record(p, kind, name, pre, w)
        PROVE  FALSE
    <3>1. Refuse(p) \/ vaults' = [vaults EXCEPT ![p] = append_audit(bump_revision(@), 1)]
      BY <2>1 DEF put_record, delete_record, write_version
    <3> QED BY <1>3, <1>4, <3>1
  <2>2. ASSUME NEW p \in DOMAIN vaults, NEW pre, NEW v, NEW size, put_children(p, pre, v, size)
        PROVE  FALSE
    <3>1. Refuse(p) \/ vaults' = [vaults EXCEPT ![p] = append_audit(@, 1)]
      BY <2>2 DEF put_children
    <3>2. append_audit(vaults[p], 1) \in VaultRow
          /\ append_audit(vaults[p], 1).generation = vaults[p].generation
      BY <1>1, RowUpdates
    <3> QED BY <1>2, <1>3, <3>1, <3>2
  <2> QED BY <2>1, <2>2 DEF RecordNext
<1>9. PICK p \in DOMAIN vaults : apply_rotation(p)
  <2>1. RotationNext
    BY <1>6, <1>7, <1>8 DEF Next
  <2> QED BY <1>5, <2>1 DEF RotationNext, rotation_not_found, refresh_status, all_versions
<1>10. rotate_accepts(p, batch)
  BY <1>5, <1>9 DEF apply_rotation
<1>11. p = pk
  BY <1>9, <1>10, RotationApplied
<1> QED BY <1>9, <1>10, <1>11

\* A rotation, whatever was written, minted or revoked while its batch was
\* gathered request by request, moves the generation by one, stores exactly
\* the vault's rows again, each name of a kind under one new name, and removes
\* exactly the tokens it was asked to.
THEOREM RotationWhole == Spec => RotationLosesNothing
<1> DEFINE RotationStep ==
             \A pk \in DOMAIN vaults \cap DOMAIN vaults' :
                vaults'[pk].generation # vaults[pk].generation =>
                   /\ vaults'[pk].generation = vaults[pk].generation + 1
                   /\ \E f \in [Kind -> Renaming] :
                         Rows(pk)' = {[r EXCEPT !.name = f[r.kind][r.name],
                                                !.generation = @ + 1] : r \in Rows(pk)}
                   /\ TokensOf(pk)' = TokensOf(pk) \ batch.revoke
<1>1. IInv /\ BatchSound /\ [Next]_vars => [RotationStep]_vars
  <2> SUFFICES ASSUME IInv, BatchSound, Next PROVE RotationStep
    OBVIOUS
  <2>1. SUFFICES ASSUME NEW pk \in DOMAIN vaults, pk \in DOMAIN vaults',
                        vaults'[pk].generation # vaults[pk].generation
                 PROVE  /\ vaults'[pk].generation = vaults[pk].generation + 1
                        /\ \E f \in [Kind -> Renaming] :
                              Rows(pk)' = {[r EXCEPT !.name = f[r.kind][r.name],
                                                     !.generation = @ + 1] : r \in Rows(pk)}
                        /\ TokensOf(pk)' = TokensOf(pk) \ batch.revoke
    OBVIOUS
  <2>2. apply_rotation(pk) /\ rotate_accepts(pk, batch)
    BY <2>1, OnlyRotation
  <2>3. /\ vaults'[pk].generation = vaults[pk].generation + 1
        /\ Rows(pk)' = rotated_rows(pk, batch)
        /\ TokensOf(pk)' = TokensOf(pk) \ batch.revoke
    BY <2>2, RotationApplied
  <2>4. batch # NoBatch /\ batch.id = vaults[pk].id /\ batch.gathered = Kind
    BY <2>2 DEF apply_rotation
  <2>5. \E f \in [Kind -> Renaming] :
           rotated_rows(pk, batch) = {[r EXCEPT !.name = f[r.kind][r.name],
                                                !.generation = @ + 1] : r \in Rows(pk)}
    BY <2>2, <2>4, RotationRenames
  <2> QED BY <2>3, <2>5
<1>2. [][RotationStep]_vars => RotationLosesNothing
  BY DEF RotationLosesNothing
<1> HIDE DEF RotationStep
<1> QED BY <1>1, <1>2, Invariance, BatchInvariance, PTL DEF Spec

-----------------------------------------------------------------------------
(***************************************************************************)
(* What is accounted for is what is stored.  A sum over rows is the number *)
(* of their bytes counted one by one: that number satisfies the equation   *)
(* of the fold, and no other function does.  Versions are counted through  *)
(* the run they form, and live names through the renaming of a rotation.   *)
(***************************************************************************)

\* The bytes of a set of rows, one by one: there are as many as they sum to.
Unit(r) == {r} \X (1..Bytes(r))
Units(S) == UNION {Unit(r) : r \in S}

\* A row more has as many bytes more.
LEMMA UnitsAdd ==
  ASSUME NEW S, NEW x, x \notin S, Bytes(x) \in Nat, IsFiniteSet(Units(S))
  PROVE  /\ IsFiniteSet(Units(S \cup {x}))
         /\ Cardinality(Units(S \cup {x})) = Bytes(x) + Cardinality(Units(S))
<1>1. PICK n \in Nat : n = Bytes(x)
  OBVIOUS
<1>2. IsFiniteSet(1..n) /\ Cardinality(1..n) = n
  BY <1>1, FS_Interval
<1>3. IsFiniteSet({x}) /\ Cardinality({x}) = 1
  BY FS_Singleton
<1>4. IsFiniteSet({x} \X (1..n)) /\ Cardinality({x} \X (1..n)) = n
  <2>1. IsFiniteSet({x} \X (1..n)) /\ Cardinality({x} \X (1..n)) = Cardinality({x}) * Cardinality(1..n)
    BY <1>2, <1>3, FS_Product
  <2> QED BY <1>1, <1>2, <1>3, <2>1
<1>5. Unit(x) = {x} \X (1..n)
  BY <1>1 DEF Unit
<1>6. Units(S \cup {x}) = Units(S) \cup Unit(x)
  BY DEF Units
<1>7. \A u \in Units(S) : u \notin Unit(x)
  BY DEF Units, Unit
<1>8. Units(S) \cap Unit(x) = {}
  BY <1>7
<1>9. Cardinality(Units(S) \cap Unit(x)) = 0
  BY <1>8, FS_EmptySet
<1>10. /\ IsFiniteSet(Units(S) \cup Unit(x))
       /\ Cardinality(Units(S) \cup Unit(x))
            = Cardinality(Units(S)) + Cardinality(Unit(x)) - Cardinality(Units(S) \cap Unit(x))
  BY <1>4, <1>5, FS_Union
<1>11. Cardinality(Units(S)) \in Nat
  BY FS_CardinalityType
<1>12. PICK a, b : a = Cardinality(Units(S)) /\ b = Cardinality(Units(S \cup {x}))
  OBVIOUS
<1>13. a \in Nat /\ b = a + n - 0
  BY <1>4, <1>5, <1>6, <1>9, <1>10, <1>11, <1>12
<1>14. b = n + a
  BY <1>1, <1>13
<1> QED BY <1>1, <1>6, <1>10, <1>12, <1>14

\* A set of subsets of a finite set has one that includes no other.
LEMMA LeastSubset ==
  ASSUME NEW S, IsFiniteSet(S), NEW F \in SUBSET (SUBSET S), F # {}
  PROVE  \E T \in F : \A U \in F : U \subseteq T => U = T
<1>1. IsWellFoundedOn(StrictSubsetOrdering(S), FiniteSubsetsOf(S)) /\ FiniteSubsetsOf(S) = SUBSET S
  BY FS_StrictSubsetOrderingWellFounded, FS_FiniteSubsetsOfFinite
<1>2. PICK T \in F : \A U \in F : ~(<<U, T>> \in StrictSubsetOrdering(S))
  BY <1>1, WFMin
<1> QED BY <1>2 DEF StrictSubsetOrdering

\* Finitely many rows have finitely many bytes.
LEMMA UnitsFinite ==
  ASSUME NEW S, IsFiniteSet(S), \A r \in S : Bytes(r) \in Nat
  PROVE  IsFiniteSet(Units(S))
<1> DEFINE F == {T \in SUBSET S : ~IsFiniteSet(Units(T))}
<1>1. SUFFICES ASSUME F # {} PROVE FALSE
  <2>1. S \in SUBSET S
    OBVIOUS
  <2> QED BY <2>1
<1>2. F \in SUBSET (SUBSET S)
  OBVIOUS
<1>3. PICK T \in F : \A U \in F : U \subseteq T => U = T
  <2> HIDE DEF F
  <2> QED BY <1>1, <1>2, LeastSubset
<1>4. T # {}
  <2>1. Units({}) = {}
    BY DEF Units
  <2> QED BY <1>3, <2>1, FS_EmptySet
<1>5. PICK x \in T : TRUE
  BY <1>4
<1>6. IsFiniteSet(Units(T \ {x}))
  BY <1>3, <1>5
<1>7. T = (T \ {x}) \cup {x} /\ x \notin T \ {x} /\ Bytes(x) \in Nat
  BY <1>3, <1>5
<1>8. IsFiniteSet(Units((T \ {x}) \cup {x}))
  BY <1>6, <1>7, UnitsAdd
<1> QED BY <1>3, <1>7, <1>8

\* A sum is the number of bytes.
LEMMA SumUnits ==
  ASSUME NEW S, IsFiniteSet(S), \A r \in S : Bytes(r) \in Nat
  PROVE  TotalBytes(S) = Cardinality(Units(S))
<1> DEFINE pick(s) == CHOOSE x \in s : TRUE
           sums(g) == g = [s \in SUBSET S |-> IF s = {} THEN 0
                                             ELSE Bytes(pick(s)) + g[s \ {pick(s)}]]
           iter == CHOOSE g : sums(g)
           h == [s \in SUBSET S |-> Cardinality(Units(s))]
<1>1. TotalBytes(S) = iter[S]
  BY DEF TotalBytes, MapThenSumSet, MapThenFoldSet
<1> HIDE DEF iter
<1>2. \A s \in SUBSET S : s # {} => pick(s) \in s
  OBVIOUS
<1> HIDE DEF pick
<1>3. ASSUME NEW s \in SUBSET S
      PROVE  h[s] = IF s = {} THEN 0 ELSE Bytes(pick(s)) + h[s \ {pick(s)}]
  <2>1. CASE s = {}
    <3>1. Units(s) = {}
      BY <2>1 DEF Units
    <3> QED BY <2>1, <3>1, FS_EmptySet
  <2>2. CASE s # {}
    <3>1. PICK x, t : x = pick(s) /\ t = s \ {x}
      OBVIOUS
    <3>2. /\ x \in s /\ x \in S /\ s = t \cup {x} /\ x \notin t
          /\ t \in SUBSET S /\ Bytes(x) \in Nat
      BY <1>2, <2>2, <3>1
    <3>3. IsFiniteSet(Units(t))
      <4>1. IsFiniteSet(t) /\ \A r \in t : Bytes(r) \in Nat
        BY <3>2, FS_Subset
      <4> QED BY <4>1, UnitsFinite
    <3>4. Cardinality(Units(t \cup {x})) = Bytes(x) + Cardinality(Units(t))
      BY <3>2, <3>3, UnitsAdd
    <3>5. h[s] = Cardinality(Units(t \cup {x})) /\ h[t] = Cardinality(Units(t))
      BY <3>2
    <3> QED BY <2>2, <3>1, <3>4, <3>5
  <2> QED BY <2>1, <2>2
<1>4. sums(h)
  <2>1. h = [s \in SUBSET S |-> h[s]]
    OBVIOUS
  <2> HIDE DEF h
  <2> QED BY <1>3, <2>1
<1>5. sums(iter)
  <2> HIDE DEF h, sums
  <2> QED BY <1>4 DEF iter
<1>6. iter = [s \in SUBSET S |-> IF s = {} THEN 0
                                ELSE Bytes(pick(s)) + iter[s \ {pick(s)}]]
  BY <1>5
<1>7. \A s \in SUBSET S : iter[s] = IF s = {} THEN 0
                                    ELSE Bytes(pick(s)) + iter[s \ {pick(s)}]
  BY <1>6
<1>8. iter[S] = h[S]
  <2> DEFINE F == {s \in SUBSET S : iter[s] # h[s]}
  <2> HIDE DEF h
  <2>1. SUFFICES ASSUME F # {} PROVE FALSE
    OBVIOUS
  <2>2. PICK s \in F : \A t \in F : t \subseteq s => t = s
    <3>1. F \in SUBSET (SUBSET S)
      OBVIOUS
    <3> HIDE DEF F
    <3> QED BY <2>1, <3>1, LeastSubset
  <2>3. s # {}
    BY <1>3, <1>7, <2>2
  <2>4. PICK x, t : x = pick(s) /\ t = s \ {x}
    OBVIOUS
  <2>5. x \in s /\ t \in SUBSET S /\ t \subseteq s /\ t # s
    BY <1>2, <2>2, <2>3, <2>4
  <2>6. iter[t] = h[t]
    BY <2>2, <2>5
  <2> QED BY <1>3, <1>7, <2>2, <2>3, <2>4, <2>6
<1>9. h[S] = Cardinality(Units(S))
  OBVIOUS
<1> QED BY <1>1, <1>8, <1>9

\* A sum is a natural number, and the sum of two disjoint sets of rows is the
\* sum of theirs.
LEMMA SumDisjoint ==
  ASSUME NEW S, NEW T, IsFiniteSet(S), IsFiniteSet(T), S \cap T = {},
         \A r \in S \cup T : Bytes(r) \in Nat
  PROVE  /\ TotalBytes(S) \in Nat /\ TotalBytes(T) \in Nat
         /\ TotalBytes(S \cup T) = TotalBytes(S) + TotalBytes(T)
<1>1. IsFiniteSet(Units(S)) /\ IsFiniteSet(Units(T))
  BY UnitsFinite
<1>2. IsFiniteSet(S \cup T)
  BY FS_Union
<1>3. /\ TotalBytes(S) = Cardinality(Units(S)) /\ TotalBytes(T) = Cardinality(Units(T))
      /\ TotalBytes(S \cup T) = Cardinality(Units(S \cup T))
  BY <1>2, SumUnits
<1>4. Units(S \cup T) = Units(S) \cup Units(T)
  BY DEF Units
<1>5. Units(S) \cap Units(T) = {}
  BY DEF Units, Unit
<1>6. /\ Cardinality(Units(S) \cap Units(T)) = 0
      /\ Cardinality(Units(S)) \in Nat /\ Cardinality(Units(T)) \in Nat
  BY <1>1, <1>5, FS_EmptySet, FS_CardinalityType
<1>7. Cardinality(Units(S) \cup Units(T))
        = Cardinality(Units(S)) + Cardinality(Units(T)) - Cardinality(Units(S) \cap Units(T))
  BY <1>1, FS_Union
<1>8. PICK a, b, c : a = Cardinality(Units(S)) /\ b = Cardinality(Units(T))
                     /\ c = Cardinality(Units(S) \cup Units(T))
  OBVIOUS
<1>9. a \in Nat /\ b \in Nat /\ c = a + b - 0
  BY <1>6, <1>7, <1>8
<1>10. c = a + b
  BY <1>9
<1> QED BY <1>3, <1>4, <1>8, <1>9, <1>10

\* A vault's rows are finitely many: a row is known by its kind, name and
\* version.
LEMMA RowsFinite ==
  ASSUME IInv, NEW pk
  PROVE  /\ IsFiniteSet(Rows(pk))
         /\ \A r \in Rows(pk) : r \in RecordRow /\ Bytes(r) \in Nat
<1> DEFINE T == ({"secret", "config"} \X Name) \X Version
           f == [r \in Rows(pk) |-> <<<<r.kind, r.name>>, r.version>>]
<1>1. \A r \in Rows(pk) : r \in RecordRow /\ r \in records /\ r.vault = pk
  BY DEF Rows, IInv, TypeOK
<1>2. IsFiniteSet(T)
  <2>1. IsFiniteSet({"secret"} \cup {"config"})
    BY FS_Singleton, FS_Union
  <2>2. {"secret"} \cup {"config"} = {"secret", "config"}
    OBVIOUS
  <2>3. IsFiniteSet(Name) /\ IsFiniteSet(Version)
    BY ConstantsAssumption, FS_Interval DEF Version
  <2>4. IsFiniteSet({"secret", "config"} \X Name)
    BY <2>1, <2>2, <2>3, FS_Product
  <2> QED BY <2>3, <2>4, FS_Product
<1>3. f \in [Rows(pk) -> T]
  BY <1>1, ConstantsAssumption DEF RecordRow
<1>4. \A r, s \in Rows(pk) : f[r] = f[s] => r = s
  <2>1. SUFFICES ASSUME NEW r \in Rows(pk), NEW s \in Rows(pk), f[r] = f[s] PROVE r = s
    OBVIOUS
  <2>2. r.kind = s.kind /\ r.name = s.name /\ r.version = s.version
    BY <2>1
  <2> HIDE DEF f
  <2> QED BY <1>1, <2>2 DEF IInv, HeadsAgree
<1>5. IsFiniteSet(Rows(pk))
  <2> HIDE DEF f, T
  <2>1. f \in Injection(Rows(pk), T)
    BY <1>3, <1>4 DEF Injection, IsInjective
  <2> QED BY <1>2, <2>1, FS_Injection
<1>6. ASSUME NEW r \in Rows(pk) PROVE Bytes(r) \in Nat
  <2>1. r.value \in Value \cup {Tombstone}
    BY <1>1 DEF RecordRow
  <2>2. Value \subseteq Nat /\ NameBytes \in Nat
    BY ConstantsAssumption
  <2>3. PICK x : x = r.value
    OBVIOUS
  <2>4. x \in Value \cup {0}
    BY <2>1, <2>3 DEF Tombstone
  <2>5. x \in Nat
    BY <2>2, <2>4
  <2> QED BY <2>2, <2>3, <2>5 DEF Bytes
<1> QED BY <1>1, <1>5, <1>6

\* Rows of which each version is stored once are counted by their versions.
LEMMA CountVersions ==
  ASSUME NEW rows \in SUBSET RecordRow, \A r, s \in rows : r.version = s.version => r = s,
         NEW a \in Nat, NEW b \in Nat, {r.version : r \in rows} = a..b,
         NEW v \in a..b
  PROVE  Cardinality({s \in rows : s.version <= v}) = v - a + 1
<1> DEFINE S == {s \in rows : s.version <= v}
           f == [s \in S |-> s.version]
<1>1. f \in [S -> a..v]
  BY DEF RecordRow, Version
<1>2. \A r, s \in S : f[r] = f[s] => r = s
  OBVIOUS
<1>3. \A t \in a..v : \E s \in S : f[s] = t
  <2>1. SUFFICES ASSUME NEW t \in a..v PROVE \E s \in S : f[s] = t
    OBVIOUS
  <2>2. t \in a..b /\ t <= v
    OBVIOUS
  <2>3. PICK s \in rows : s.version = t
    BY <2>2
  <2> QED BY <2>2, <2>3
<1>4. IsFiniteSet(a..v) /\ Cardinality(a..v) = v - a + 1
  BY FS_Interval
<1> HIDE DEF f, S
<1>5. f \in Injection(S, a..v) /\ f \in Surjection(S, a..v)
  BY <1>1, <1>2, <1>3 DEF Injection, IsInjective, Surjection
<1>6. Cardinality(S) = Cardinality(a..v)
  BY <1>4, <1>5, FS_Injection
<1> QED BY <1>4, <1>6 DEF S

\* What a limit of versions keeps.
Keep(kind) == IF MaxVersions[kind] > 1 THEN MaxVersions[kind] ELSE 1

\* What is retained of a name, as a fact about its head's version.
LEMMA RunIs ==
  ASSUME IInv, RetainedRun, NEW pk, NEW kind, NEW name, <<pk, kind, name>> \in DOMAIN heads
  PROVE  \E last \in Nat, first \in Nat, keep \in Nat :
            /\ last = heads[<<pk, kind, name>>].version /\ last >= 1 /\ keep = Keep(kind) /\ keep >= 1
            /\ first = IF last > keep THEN last - keep + 1 ELSE 1
            /\ {r.version : r \in RowsOf(pk, kind, name)} = first..last
<1> DEFINE key == <<pk, kind, name>>
<1>1. key[1] = pk /\ key[2] = kind /\ key[3] = name
  OBVIOUS
<1>2. heads[key] \in Head /\ key \in HeadKey
  BY DEF IInv, TypeOK
<1>3. PICK last, keep, first : /\ last = heads[key].version /\ keep = Keep(kind)
                               /\ first = IF last > keep THEN last - keep + 1 ELSE 1
  OBVIOUS
<1>4. last \in Nat /\ last >= 1
  BY <1>2, <1>3, ConstantsAssumption DEF Head, Version
<1>5. keep \in Nat /\ keep >= 1
  <2>1. kind \in {"secret", "config"}
    BY <1>2, ConstantsAssumption DEF HeadKey
  <2>2. MaxVersions[kind] \in Nat
    BY <2>1, ConstantsAssumption
  <2> QED BY <1>3, <2>2 DEF Keep
<1>6. first \in Nat
  BY <1>3, <1>4, <1>5
<1>7. {r.version : r \in RowsOf(key[1], key[2], key[3])}
        = (IF heads[key].version > Keep(key[2]) THEN heads[key].version - Keep(key[2]) + 1 ELSE 1)
            .. heads[key].version
  <2>1. key \in DOMAIN heads
    OBVIOUS
  <2> HIDE DEF key
  <2> QED BY <2>1 DEF RetainedRun, Keep
<1>8. {r.version : r \in RowsOf(pk, kind, name)} = first..last
  BY <1>1, <1>3, <1>7
<1> QED BY <1>3, <1>4, <1>5, <1>6, <1>8

\* Of a name's rows each version is stored once; a name without a head has none.
LEMMA RowsOnce ==
  ASSUME IInv, NEW pk, NEW kind, NEW name
  PROVE  /\ RowsOf(pk, kind, name) \in SUBSET RecordRow
         /\ \A r, s \in RowsOf(pk, kind, name) : r.version = s.version => r = s
         /\ <<pk, kind, name>> \notin DOMAIN heads => RowsOf(pk, kind, name) = {}
         /\ IsFiniteSet(RowsOf(pk, kind, name))
<1>1. \A r \in RowsOf(pk, kind, name) : /\ r \in records /\ r \in Rows(pk) /\ r.vault = pk
                                        /\ r.kind = kind /\ r.name = name
  BY DEF RowsOf, Rows
<1>2. RowsOf(pk, kind, name) \in SUBSET RecordRow
  BY <1>1 DEF IInv, TypeOK
<1>3. \A r, s \in RowsOf(pk, kind, name) : r.version = s.version => r = s
  BY <1>1 DEF IInv, HeadsAgree
<1>4. <<pk, kind, name>> \notin DOMAIN heads => RowsOf(pk, kind, name) = {}
  BY <1>1 DEF IInv, HeadsAgree
<1>5. IsFiniteSet(RowsOf(pk, kind, name))
  <2>1. IsFiniteSet(Rows(pk))
    BY RowsFinite
  <2>2. RowsOf(pk, kind, name) \in SUBSET Rows(pk)
    BY <1>1
  <2> QED BY <2>1, <2>2, FS_Subset
<1> QED BY <1>2, <1>3, <1>4, <1>5

\* Pruning takes the rows a limit's worth behind the version to be written.
LEMMA PrunedAre ==
  ASSUME IInv, NEW pk, NEW kind, NEW name,
         NEW last \in Nat, NEW first \in Nat, NEW keep \in Nat, last >= 1, keep >= 1,
         keep = Keep(kind), first = IF last > keep THEN last - keep + 1 ELSE 1,
         {r.version : r \in RowsOf(pk, kind, name)} = first..last
  PROVE  prunable(pk, kind, name) = {r \in RowsOf(pk, kind, name) : r.version + keep <= last + 1}
<1> DEFINE all == RowsOf(pk, kind, name)
           upto(v) == {s \in all : s.version <= v}
<1>1. /\ all \in SUBSET RecordRow
      /\ \A r, s \in all : r.version = s.version => r = s
      /\ {r.version : r \in all} = first..last
  BY RowsOnce
<1>2. first <= last
  OBVIOUS
<1>3. \A v \in first..last : Cardinality(upto(v)) = v - first + 1
  <2> HIDE DEF all
  <2> QED BY <1>1, CountVersions
<1>4. \A r \in all : r.version \in first..last
  OBVIOUS
<1>5. upto(last) = all
  BY <1>4
<1>6. Cardinality(all) = last - first + 1
  <2>1. last \in first..last
    BY <1>2
  <2> HIDE DEF upto, all
  <2> QED BY <1>3, <1>5, <2>1
<1>7. prunable(pk, kind, name)
        = {r \in all : Cardinality(upto(r.version)) <= Cardinality(all) + 1 - keep}
  BY DEF prunable, Keep
<1>8. ASSUME NEW r \in all
      PROVE  Cardinality(upto(r.version)) <= Cardinality(all) + 1 - keep
               <=> r.version + keep <= last + 1
  <2>1. PICK v : v = r.version
    OBVIOUS
  <2>2. v \in first..last /\ Cardinality(upto(v)) = v - first + 1
    BY <1>3, <1>4, <2>1
  <2> HIDE DEF upto, all
  <2>3. v - first + 1 <= last - first + 1 + 1 - keep <=> v + keep <= last + 1
    BY <2>2
  <2> QED BY <1>6, <2>1, <2>2, <2>3
<1> HIDE DEF upto
<1> QED BY <1>7, <1>8

\* A set of rows whose versions are the run that ends at `last`.
Run(S, last, kind) ==
    {r.version : r \in S} = (IF last > Keep(kind) THEN last - Keep(kind) + 1 ELSE 1)..last

\* RetainedRun, head by head.
LEMMA RetainedIs ==
  RetainedRun <=> \A k \in DOMAIN heads : Run(RowsOf(k[1], k[2], k[3]), heads[k].version, k[2])
BY DEF RetainedRun, Run, Keep

\* A limit keeps at least one version.
LEMMA KeepSome ==
  ASSUME NEW kind \in Kind
  PROVE  Keep(kind) \in Nat /\ Keep(kind) >= 1
<1>1. kind \in {"secret", "config"}
  BY ConstantsAssumption
<1>2. MaxVersions[kind] \in Nat
  BY <1>1, ConstantsAssumption
<1> QED BY <1>2 DEF Keep

\* A version one above the head, or the first, keeps what is retained a run.
LEMMA WrittenRun ==
  ASSUME IInv, RetainedRun, NEW pk \in DOMAIN vaults, NEW kind \in Kind, NEW name \in Name,
         NEW w, NEW bytes, w.version \in Nat,
         w.version = IF <<pk, kind, name>> \in DOMAIN heads
                     THEN heads[<<pk, kind, name>>].version + 1 ELSE 1,
         write_version(pk, kind, name, w, bytes)
  PROVE  RetainedRun'
<1> DEFINE key == <<pk, kind, name>>
           new == [vault |-> pk, kind |-> kind, name |-> name,
                   version |-> w.version, generation |-> w.generation,
                   at |-> w.at, value |-> w.value]
           pruned == prunable(pk, kind, name)
           all == RowsOf(pk, kind, name)
<1>1. /\ records' = (records \ pruned) \cup {new}
      /\ DOMAIN heads' = DOMAIN heads \cup {key}
      /\ \A k \in DOMAIN heads' : k # key => heads'[k] = heads[k]
      /\ heads'[key] = [version |-> w.version, tombstone |-> w.value = Tombstone]
  BY DEF write_version, With
<1>2. heads'[key].version = w.version
  BY <1>1
<1>3. \A r \in pruned : r \in all
  BY DEF prunable
<1>4. \A r \in all : r.vault = pk /\ r.kind = kind /\ r.name = name /\ r \in records
  BY DEF RowsOf, Rows
<1>5. new.vault = pk /\ new.kind = kind /\ new.name = name /\ new.version = w.version
  OBVIOUS
<1> HIDE DEF new, pruned, key
<1>6. RowsOf(pk, kind, name)' = (all \ pruned) \cup {new}
  BY <1>1, <1>3, <1>5 DEF RowsOf, Rows
<1>7. \A p, q, n : <<p, q, n>> # key => RowsOf(p, q, n)' = RowsOf(p, q, n)
  BY <1>1, <1>3, <1>4, <1>5 DEF RowsOf, Rows, key
<1>8. PICK keep \in Nat : keep = Keep(kind) /\ keep >= 1
  BY KeepSome
<1>9. Run((all \ pruned) \cup {new}, w.version, kind)
  <2>1. CASE key \notin DOMAIN heads
    <3>1. all = {} /\ w.version = 1
      BY <2>1, RowsOnce DEF key
    <3>2. {r.version : r \in (all \ pruned) \cup {new}} = {1}
      BY <1>5, <3>1
    <3>3. {1} = 1..1 /\ ~(1 > keep)
      BY <1>8
    <3> QED BY <1>8, <3>1, <3>2, <3>3 DEF Run
  <2>2. CASE key \in DOMAIN heads
    <3>1. PICK last \in Nat, first \in Nat :
            /\ last = heads[key].version /\ last >= 1
            /\ first = IF last > keep THEN last - keep + 1 ELSE 1
            /\ {r.version : r \in all} = first..last
      BY <1>8, <2>2, RunIs DEF key
    <3>2. pruned = {r \in all : r.version + keep <= last + 1}
      <4>1. prunable(pk, kind, name)
              = {r \in RowsOf(pk, kind, name) : r.version + keep <= last + 1}
        <5>1. first = IF last > keep THEN last - keep + 1 ELSE 1
          BY <3>1
        <5>2. {r.version : r \in RowsOf(pk, kind, name)} = first..last /\ last >= 1
          BY <3>1
        <5> QED BY <1>8, <5>1, <5>2, PrunedAre
      <4> QED BY <4>1 DEF pruned
    <3>3. w.version = last + 1
      BY <2>2, <3>1 DEF key
    <3> DEFINE from == IF last + 1 > keep THEN last + 1 - keep + 1 ELSE 1
    <3>4. \A r \in (all \ pruned) \cup {new} : r.version \in from..(last + 1)
      <4>1. SUFFICES ASSUME NEW r \in all \ pruned PROVE r.version \in from..(last + 1)
        BY <1>5, <1>8, <3>3
      <4>2. r.version \in first..last /\ ~(r.version + keep <= last + 1)
        BY <3>1, <3>2, <4>1
      <4> QED BY <1>8, <3>1, <4>2
    <3>5. ASSUME NEW v \in from..(last + 1)
          PROVE  \E r \in (all \ pruned) \cup {new} : r.version = v
      <4>1. CASE v = last + 1
        BY <1>5, <3>3, <4>1
      <4>2. CASE v # last + 1
        <5>1. v \in first..last /\ ~(v + keep <= last + 1)
          BY <1>8, <3>1, <3>5, <4>2
        <5>2. PICK r \in all : r.version = v
          BY <3>1, <5>1
        <5> QED BY <3>2, <5>1, <5>2
      <4> QED BY <4>1, <4>2
    <3>6. {r.version : r \in (all \ pruned) \cup {new}} = from..(last + 1)
      <4> HIDE DEF from, all
      <4> QED BY <3>4, <3>5
    <3> QED BY <1>8, <3>3, <3>6 DEF Run
  <2> QED BY <2>1, <2>2
<1>10. ASSUME NEW k \in DOMAIN heads'
       PROVE  Run(RowsOf(k[1], k[2], k[3])', heads'[k].version, k[2])
  <2>1. CASE k = key
    <3>1. k[1] = pk /\ k[2] = kind /\ k[3] = name
      BY <2>1 DEF key
    <3> QED BY <1>2, <1>6, <1>9, <2>1, <3>1
  <2>2. CASE k # key
    <3>1. k \in DOMAIN heads /\ heads'[k] = heads[k]
      BY <1>1, <2>2
    <3>2. k = <<k[1], k[2], k[3]>>
      BY <3>1 DEF IInv, TypeOK, HeadKey
    <3>3. RowsOf(k[1], k[2], k[3])' = RowsOf(k[1], k[2], k[3])
      BY <1>7, <2>2, <3>2
    <3> QED BY <3>1, <3>3, RetainedIs
  <2> QED BY <2>1, <2>2
<1>11. RetainedRun' <=> \A k \in DOMAIN heads' :
                           Run(RowsOf(k[1], k[2], k[3])', heads'[k].version, k[2])
  BY DEF RetainedRun, Run, Keep
<1> QED BY <1>10, <1>11

\* What the accounting arrives at is the size of the rows once one is written
\* and the pruned ones are gone: never below zero.
LEMMA BytesWritten ==
  ASSUME IInv, BytesExact, NEW pk \in DOMAIN vaults, NEW pruned \in SUBSET Rows(pk),
         NEW new, new \notin Rows(pk), Bytes(new) \in Nat
  PROVE  /\ TotalBytes((Rows(pk) \ pruned) \cup {new}) \in Nat
         /\ bytesUsed[pk] + Bytes(new) - TotalBytes(pruned)
              = TotalBytes((Rows(pk) \ pruned) \cup {new})
<1>1. PICK old, rest : old = Rows(pk) /\ rest = old \ pruned
  OBVIOUS
<1>2. IsFiniteSet(old) /\ \A r \in old : Bytes(r) \in Nat
  BY <1>1, RowsFinite
<1>3. IsFiniteSet(rest) /\ IsFiniteSet(pruned) /\ IsFiniteSet({new})
  BY <1>1, <1>2, FS_Subset, FS_Singleton
<1>4. rest \cap pruned = {} /\ rest \cup pruned = old /\ rest \cap {new} = {} /\ rest \subseteq old
  BY <1>1
<1>5. /\ TotalBytes(rest) \in Nat /\ TotalBytes(pruned) \in Nat
      /\ TotalBytes(rest \cup pruned) = TotalBytes(rest) + TotalBytes(pruned)
  BY <1>1, <1>2, <1>3, <1>4, SumDisjoint
<1>6. /\ TotalBytes({new}) \in Nat
      /\ TotalBytes(rest \cup {new}) = TotalBytes(rest) + TotalBytes({new})
  <2>1. \A r \in rest \cup {new} : Bytes(r) \in Nat
    BY <1>2, <1>4
  <2> QED BY <1>3, <1>4, <2>1, SumDisjoint
<1>7. TotalBytes({new}) = Bytes(new)
  <2>1. IsFiniteSet(Units({})) /\ Cardinality(Units({})) = 0
    <3>1. Units({}) = {}
      BY DEF Units
    <3> QED BY <3>1, FS_EmptySet
  <2>2. {} \cup {new} = {new} /\ new \notin {}
    OBVIOUS
  <2>3. Cardinality(Units({} \cup {new})) = Bytes(new) + Cardinality(Units({}))
    BY <2>1, <2>2, UnitsAdd
  <2>4. TotalBytes({new}) = Cardinality(Units({new}))
    BY <1>3, SumUnits
  <2> QED BY <2>1, <2>2, <2>3, <2>4
<1>8. bytesUsed[pk] = TotalBytes(rest \cup pruned)
  BY <1>1, <1>4 DEF BytesExact
<1>9. PICK a \in Nat, b \in Nat, c \in Nat :
        a = TotalBytes(rest) /\ b = TotalBytes(pruned) /\ c = Bytes(new)
  BY <1>5
<1>10. (a + b) + c - b = a + c /\ a + c \in Nat
  OBVIOUS
<1> QED BY <1>1, <1>5, <1>6, <1>7, <1>8, <1>9, <1>10

\* Live names counted: one more, the same or one less.
LEMMA LiveBound ==
  ASSUME NEW S \in SUBSET Name, NEW name \in Name, NEW T \in SUBSET (S \cup {name}), NEW max \in Nat,
         Cardinality(S) <= max, T \subseteq S \/ Cardinality(S) < max
  PROVE  Cardinality(T) <= max
<1>1. IsFiniteSet(S)
  BY ConstantsAssumption, FS_Subset
<1>2. /\ IsFiniteSet(S \cup {name})
      /\ Cardinality(S \cup {name}) = IF name \in S THEN Cardinality(S) ELSE Cardinality(S) + 1
  BY <1>1, FS_AddElement
<1>3. Cardinality(S) \in Nat /\ Cardinality(T) \in Nat /\ Cardinality(T) <= Cardinality(S \cup {name})
  BY <1>1, <1>2, FS_Subset, FS_CardinalityType
<1>4. CASE T \subseteq S
  <2>1. Cardinality(T) <= Cardinality(S)
    BY <1>1, <1>4, FS_Subset
  <2> QED BY <1>3, <2>1
<1>5. CASE Cardinality(S) < max
  BY <1>2, <1>3, <1>5
<1> QED BY <1>4, <1>5

\* A write of a value under a name that is not live needs room for it.
LEMMA WrittenLive ==
  ASSUME IInv, LiveNamesHeld, NEW pk \in DOMAIN vaults, NEW kind \in Kind, NEW name \in Name,
         NEW w, NEW bytes, write_version(pk, kind, name, w, bytes),
         \/ w.value = Tombstone
         \/ <<pk, kind, name>> \in DOMAIN heads /\ ~heads[<<pk, kind, name>>].tombstone
         \/ Cardinality(LiveNames(pk, kind)) < MaxLive[kind]
  PROVE  LiveNamesHeld'
<1> DEFINE key == <<pk, kind, name>>
<1>1. /\ DOMAIN heads' = DOMAIN heads \cup {key}
      /\ \A k \in DOMAIN heads' : k # key => heads'[k] = heads[k]
      /\ heads'[key] = [version |-> w.version, tombstone |-> w.value = Tombstone]
  BY DEF write_version, With
<1>2. w.value = Tombstone => heads'[key].tombstone
  <2> DEFINE flag == w.value = Tombstone
  <2>1. heads'[key] = [version |-> w.version, tombstone |-> flag]
    BY <1>1
  <2> HIDE DEF flag
  <2>2. heads'[key].tombstone = flag
    BY <2>1, SMT
  <2> QED BY <2>2 DEF flag
<1>3. DOMAIN vaults' = DOMAIN vaults
  BY DEF write_version
<1>4. ASSUME NEW p \in DOMAIN vaults, NEW q \in Kind
      PROVE  Cardinality(LiveNames(p, q)') <= MaxLive[q]
  <2>1. Cardinality(LiveNames(p, q)) <= MaxLive[q]
    BY DEF LiveNamesHeld
  <2>2. CASE p = pk /\ q = kind
    <3>1. PICK S, T, max : S = LiveNames(pk, kind) /\ T = LiveNames(pk, kind)' /\ max = MaxLive[kind]
      OBVIOUS
    <3>2. S \subseteq Name /\ T \subseteq S \cup {name}
      BY <1>1, <3>1 DEF LiveNames
    <3>3. T \subseteq S \/ Cardinality(S) < max
      <4>1. CASE w.value = Tombstone
        BY <1>1, <1>2, <3>1, <4>1 DEF LiveNames
      <4>2. CASE key \in DOMAIN heads /\ ~heads[key].tombstone
        BY <1>1, <3>1, <4>2 DEF LiveNames
      <4> QED BY <3>1, <4>1, <4>2
    <3>4. max \in Nat /\ Cardinality(S) <= max
      <4>1. kind \in {"secret", "config"}
        BY ConstantsAssumption
      <4>2. MaxLive[kind] \in Nat
        BY <4>1, ConstantsAssumption
      <4> QED BY <2>1, <2>2, <3>1, <4>2
    <3>5. Cardinality(T) <= max
      BY <3>2, <3>3, <3>4, LiveBound
    <3> QED BY <2>2, <3>1, <3>5
  <2>3. CASE ~(p = pk /\ q = kind)
    <3>1. \A n : <<p, q, n>> # key
      BY <2>3
    <3>2. LiveNames(p, q)' = LiveNames(p, q)
      <4> HIDE DEF key
      <4> QED BY <1>1, <3>1 DEF LiveNames
    <3> QED BY <2>1, <3>2
  <2> QED BY <2>2, <2>3
<1> QED BY <1>3, <1>4 DEF LiveNamesHeld

\* A write that is accounted for keeps what is stored exact.
LEMMA WrittenExact ==
  ASSUME IInv, StorageExact, NEW pk \in DOMAIN vaults, NEW kind \in Kind, NEW name \in Name,
         NEW w \in [generation : Generation, version : Version, at : WriteTime,
                    value : Value \cup {Tombstone}],
         w.version = IF <<pk, kind, name>> \in DOMAIN heads
                     THEN heads[<<pk, kind, name>>].version + 1 ELSE 1
  PROVE  /\ bytes_after(pk, w, prunable(pk, kind, name)) \in Nat
         /\ (/\ write_version(pk, kind, name, w, bytes_after(pk, w, prunable(pk, kind, name)))
             /\ \/ w.value = Tombstone
                \/ <<pk, kind, name>> \in DOMAIN heads /\ ~heads[<<pk, kind, name>>].tombstone
                \/ Cardinality(LiveNames(pk, kind)) < MaxLive[kind])
            => StorageExact'
<1> DEFINE new == [vault |-> pk, kind |-> kind, name |-> name,
                   version |-> w.version, generation |-> w.generation,
                   at |-> w.at, value |-> w.value]
           pruned == prunable(pk, kind, name)
           bytes == bytes_after(pk, w, pruned)
<1>1. pruned \in SUBSET Rows(pk)
  BY DEF prunable, RowsOf
<1>2. /\ new.vault = pk /\ new.kind = kind /\ new.name = name /\ new.version = w.version
      /\ new.value = w.value /\ w.version \in Nat
  BY ConstantsAssumption DEF Version
<1>3. new \notin Rows(pk)
  <2>1. SUFFICES ASSUME new \in Rows(pk) PROVE FALSE
    OBVIOUS
  <2>2. new \in records
    BY <2>1 DEF Rows
  <2>3. <<new.vault, new.kind, new.name>> = <<pk, kind, name>>
    BY <1>2
  <2> HIDE DEF new
  <2>4. /\ <<pk, kind, name>> \in DOMAIN heads
        /\ new.version <= heads[<<pk, kind, name>>].version
    BY <2>2, <2>3 DEF IInv, HeadsAgree
  <2>5. heads[<<pk, kind, name>>].version \in Nat
    BY <2>4 DEF IInv, TypeOK, Head, Version
  <2> QED BY <1>2, <2>4, <2>5
<1>4. Bytes(new) \in Nat /\ Bytes(new) = NameBytes + w.value
  <2>1. PICK x : x = w.value
    OBVIOUS
  <2>2. x \in Value \cup {0}
    BY <2>1 DEF Tombstone
  <2>3. Value \subseteq Nat /\ NameBytes \in Nat
    BY ConstantsAssumption
  <2>4. x \in Nat
    BY <2>2, <2>3
  <2> HIDE DEF new
  <2> QED BY <1>2, <2>1, <2>3, <2>4 DEF Bytes
<1> HIDE DEF new, pruned
<1>5. /\ TotalBytes((Rows(pk) \ pruned) \cup {new}) \in Nat
      /\ bytesUsed[pk] + Bytes(new) - TotalBytes(pruned)
           = TotalBytes((Rows(pk) \ pruned) \cup {new})
  BY <1>1, <1>3, <1>4, BytesWritten DEF StorageExact
<1>6. bytes = TotalBytes((Rows(pk) \ pruned) \cup {new}) /\ bytes \in Nat
  <2>1. PICK a, b : a = bytesUsed[pk] /\ b = TotalBytes(pruned)
    OBVIOUS
  <2>2. a \in Nat /\ b \in Nat
    <3>1. IsFiniteSet(Rows(pk)) /\ \A r \in Rows(pk) : Bytes(r) \in Nat
      BY RowsFinite
    <3>2. IsFiniteSet(pruned) /\ \A r \in pruned : Bytes(r) \in Nat
      BY <1>1, <3>1, FS_Subset
    <3>3. IsFiniteSet({}) /\ pruned \cap {} = {} /\ Rows(pk) \cap {} = {}
      BY FS_EmptySet
    <3>4. TotalBytes(pruned) \in Nat
      BY <3>2, <3>3, SumDisjoint
    <3>5. TotalBytes(Rows(pk)) \in Nat
      BY <3>1, <3>3, SumDisjoint
    <3> QED BY <2>1, <3>4, <3>5 DEF StorageExact, BytesExact
  <2>3. PICK n, x : n = NameBytes /\ x = w.value /\ n \in Nat
    BY ConstantsAssumption
  <2>4. x \in Nat
    <3>1. x \in Value \cup {0}
      BY <2>3 DEF Tombstone
    <3>2. Value \subseteq Nat
      BY ConstantsAssumption
    <3> QED BY <3>1, <3>2
  <2>5. bytes = a + n + x - b
    BY <2>1, <2>3 DEF bytes_after
  <2>6. a + n + x - b = a + (n + x) - b
    BY <2>2, <2>3, <2>4
  <2>7. a + (n + x) - b = TotalBytes((Rows(pk) \ pruned) \cup {new})
    BY <1>4, <1>5, <2>1, <2>3
  <2> HIDE DEF bytes
  <2> QED BY <1>5, <2>5, <2>6, <2>7
<1> HIDE DEF bytes
<1>7. ASSUME write_version(pk, kind, name, w, bytes),
             \/ w.value = Tombstone
             \/ <<pk, kind, name>> \in DOMAIN heads /\ ~heads[<<pk, kind, name>>].tombstone
             \/ Cardinality(LiveNames(pk, kind)) < MaxLive[kind]
      PROVE  StorageExact'
  <2>1. RetainedRun'
    BY <1>2, <1>7, WrittenRun DEF StorageExact
  <2>2. LiveNamesHeld'
    BY <1>7, WrittenLive DEF StorageExact
  <2>3. BytesExact'
    <3>1. /\ DOMAIN vaults' = DOMAIN vaults
          /\ records' = (records \ pruned) \cup {new}
          /\ bytesUsed' = [bytesUsed EXCEPT ![pk] = bytes]
      BY <1>7 DEF write_version, new, pruned
    <3>2. DOMAIN bytesUsed = DOMAIN vaults
      BY DEF IInv, TypeOK
    <3>3. \A p : Rows(p)' = IF p = pk THEN (Rows(pk) \ pruned) \cup {new} ELSE Rows(p)
      <4>1. \A r \in pruned : r.vault = pk
        BY <1>1 DEF Rows
      <4> QED BY <1>2, <3>1, <4>1 DEF Rows
    <3>4. ASSUME NEW p \in DOMAIN vaults PROVE bytesUsed'[p] = TotalBytes(Rows(p)')
      <4>1. CASE p = pk
        BY <1>6, <3>1, <3>2, <3>3, <4>1
      <4>2. CASE p # pk
        BY <3>1, <3>2, <3>3, <4>2 DEF StorageExact, BytesExact
      <4> QED BY <4>1, <4>2
    <3>5. BytesExact' <=> \A p \in DOMAIN vaults' : bytesUsed'[p] = TotalBytes(Rows(p)')
      BY DEF BytesExact
    <3> QED BY <3>1, <3>4, <3>5
  <2> QED BY <2>1, <2>2, <2>3 DEF StorageExact
<1> QED BY <1>6, <1>7 DEF bytes, pruned

\* Puts, deletes and refusals.
LEMMA RecordExact ==
  ASSUME IInv, StorageExact, NEW pk \in DOMAIN vaults, NEW kind \in Kind, NEW name \in Name
  PROVE  /\ \A pre \in 0..MaxVersion, w \in Write :
               put_record(pk, kind, name, pre, w) => Refuse(pk) \/ StorageExact'
         /\ \A pre \in Version, w \in TombstoneWrite :
               delete_record(pk, kind, name, pre, w) => Refuse(pk) \/ StorageExact'
<1> DEFINE key == <<pk, kind, name>>
           after(w) == bytes_after(pk, w, prunable(pk, kind, name))
<1>1. ASSUME NEW pre \in 0..MaxVersion, NEW w \in Write, put_record(pk, kind, name, pre, w)
      PROVE  Refuse(pk) \/ StorageExact'
  <2>1. CASE put_record_accepts(pk, kind, name, pre, w)
    <3>1. /\ next_version(key, pre) # 0 /\ w.version = next_version(key, pre)
          /\ (key \notin DOMAIN heads \/ heads[key].tombstone)
                => Cardinality(LiveNames(pk, kind)) < MaxLive[kind]
      BY <2>1 DEF put_record_accepts
    <3>2. w.version = IF key \in DOMAIN heads THEN heads[key].version + 1 ELSE 1
      BY <3>1 DEF next_version
    <3>3. w \in [generation : Generation, version : Version, at : WriteTime,
                 value : Value \cup {Tombstone}]
      BY DEF Write
    <3>4. write_version(pk, kind, name, w, after(w))
      BY <1>1, <2>1 DEF put_record
    <3>5. \/ w.value = Tombstone
          \/ key \in DOMAIN heads /\ ~heads[key].tombstone
          \/ Cardinality(LiveNames(pk, kind)) < MaxLive[kind]
      BY <3>1
    <3> QED BY <3>2, <3>3, <3>4, <3>5, WrittenExact
  <2> QED BY <1>1, <2>1 DEF put_record
<1>2. ASSUME NEW pre \in Version, NEW w \in TombstoneWrite, delete_record(pk, kind, name, pre, w)
      PROVE  Refuse(pk) \/ StorageExact'
  <2>1. CASE delete_record_accepts(pk, kind, name, pre, w)
    <3>1. key \in DOMAIN heads /\ ~heads[key].tombstone /\ w.version = heads[key].version + 1
      BY <1>2, <2>1 DEF delete_record, delete_record_accepts
    <3>2. w.version = IF key \in DOMAIN heads THEN heads[key].version + 1 ELSE 1
      BY <3>1
    <3>3. w \in [generation : Generation, version : Version, at : WriteTime,
                 value : Value \cup {Tombstone}]
      BY DEF TombstoneWrite
    <3>4. write_version(pk, kind, name, w, IF after(w) < 0 THEN 0 ELSE after(w))
      BY <1>2, <2>1 DEF delete_record
    <3>5. after(w) \in Nat
      BY <3>2, <3>3, WrittenExact
    <3>6. (IF after(w) < 0 THEN 0 ELSE after(w)) = after(w)
      <4> HIDE DEF after
      <4> QED BY <3>5
    <3>7. write_version(pk, kind, name, w, after(w))
      <4> HIDE DEF after
      <4> QED BY <3>4, <3>6
    <3> QED BY <3>1, <3>2, <3>3, <3>7, WrittenExact
  <2> QED BY <1>2, <2>1 DEF delete_record
<1> QED BY <1>1, <1>2

\* A step that leaves the records, the heads and the counts alone.
LEMMA SameExact ==
  ASSUME StorageExact, DOMAIN vaults' = DOMAIN vaults, UNCHANGED <<records, heads, bytesUsed>>
  PROVE  StorageExact'
<1>1. /\ \A pk : Rows(pk)' = Rows(pk)
      /\ \A pk, kind, name : RowsOf(pk, kind, name)' = RowsOf(pk, kind, name)
      /\ \A pk, kind : LiveNames(pk, kind)' = LiveNames(pk, kind)
  BY DEF Rows, RowsOf, LiveNames
<1>2. RetainedRun'
  BY <1>1 DEF StorageExact, RetainedRun
<1>3. BytesExact'
  BY <1>1 DEF StorageExact, BytesExact
<1>4. LiveNamesHeld'
  BY <1>1 DEF StorageExact, LiveNamesHeld
<1> QED BY <1>2, <1>3, <1>4 DEF StorageExact

\* A vault starts empty: nothing was left under its row id.
LEMMA CreateExact ==
  ASSUME IInv, StorageExact, NEW id \in VaultId, create_vault(id)
  PROVE  StorageExact'
<1>1. PICK pk \in PK :
        /\ last_insert_rowid(pk)
        /\ \E row : vaults' = With(vaults, pk, row)
        /\ bytesUsed' = With(bytesUsed, pk, 0)
        /\ UNCHANGED <<records, heads>>
  BY DEF create_vault
<1>2. pk \notin DOMAIN vaults
  BY <1>1, ConstantsAssumption DEF last_insert_rowid, PK, IInv, TypeOK
<1>3. /\ DOMAIN vaults' = DOMAIN vaults \cup {pk}
      /\ bytesUsed'[pk] = 0 /\ \A p \in DOMAIN vaults : bytesUsed'[p] = bytesUsed[p]
  BY <1>1, <1>2 DEF With, IInv, TypeOK
<1>4. /\ \A p : Rows(p)' = Rows(p)
      /\ \A p, kind, name : RowsOf(p, kind, name)' = RowsOf(p, kind, name)
      /\ \A p, kind : LiveNames(p, kind)' = LiveNames(p, kind)
  BY <1>1 DEF Rows, RowsOf, LiveNames
<1>5. RetainedRun'
  BY <1>1, <1>4 DEF StorageExact, RetainedRun
<1>6. BytesExact'
  <2>1. Rows(pk) = {}
    BY <1>2 DEF Rows, IInv, NoOrphans
  <2>2. TotalBytes({}) = 0
    <3>1. Units({}) = {} /\ IsFiniteSet({}) /\ \A r \in {} : Bytes(r) \in Nat
      BY FS_EmptySet DEF Units
    <3> QED BY <3>1, FS_EmptySet, SumUnits
  <2>3. \A p \in DOMAIN vaults' : bytesUsed'[p] = TotalBytes(Rows(p)')
    BY <1>3, <1>4, <2>1, <2>2 DEF StorageExact, BytesExact
  <2> QED BY <2>3 DEF BytesExact
<1>7. LiveNamesHeld'
  <2>1. ASSUME NEW kind \in Kind PROVE Cardinality(LiveNames(pk, kind)) <= MaxLive[kind]
    <3>1. LiveNames(pk, kind) = {}
      <4>1. \A n : <<pk, kind, n>>[1] = pk
        OBVIOUS
      <4>2. \A n : <<pk, kind, n>> \notin DOMAIN heads
        BY <1>2, <4>1 DEF IInv, NoOrphans
      <4> QED BY <4>2 DEF LiveNames
    <3>2. kind \in {"secret", "config"}
      BY ConstantsAssumption
    <3>3. MaxLive[kind] \in Nat
      BY <3>2, ConstantsAssumption
    <3> QED BY <3>1, <3>3, FS_EmptySet
  <2>2. \A p \in DOMAIN vaults' : \A kind \in Kind : Cardinality(LiveNames(p, kind)') <= MaxLive[kind]
    BY <1>3, <1>4, <2>1 DEF StorageExact, LiveNamesHeld
  <2> QED BY <2>2 DEF LiveNamesHeld
<1> QED BY <1>5, <1>6, <1>7 DEF StorageExact

\* Deleting a vault leaves the others' rows.
LEMMA DeleteExact ==
  ASSUME IInv, StorageExact, NEW pk \in DOMAIN vaults, delete_vault(pk)
  PROVE  StorageExact'
<1>1. /\ vaults' = Without(vaults, {pk}) /\ bytesUsed' = Without(bytesUsed, {pk})
      /\ records' = records \ Rows(pk)
      /\ heads' = Without(heads, {k \in DOMAIN heads : k[1] = pk})
  BY DEF delete_vault
<1>2. /\ DOMAIN vaults' = DOMAIN vaults \ {pk}
      /\ \A p \in DOMAIN vaults' : bytesUsed'[p] = bytesUsed[p]
      /\ DOMAIN heads' = {k \in DOMAIN heads : k[1] # pk}
      /\ \A k \in DOMAIN heads' : heads'[k] = heads[k]
  BY <1>1 DEF Without, IInv, TypeOK
<1>3. /\ \A p : p # pk => Rows(p)' = Rows(p)
      /\ \A p, kind, name : p # pk => RowsOf(p, kind, name)' = RowsOf(p, kind, name)
  BY <1>1 DEF Rows, RowsOf
<1>4. RetainedRun'
  BY <1>2, <1>3 DEF StorageExact, RetainedRun
<1>5. BytesExact'
  <2>1. \A p \in DOMAIN vaults' : bytesUsed'[p] = TotalBytes(Rows(p)')
    BY <1>2, <1>3 DEF StorageExact, BytesExact
  <2> QED BY <2>1 DEF BytesExact
<1>6. LiveNamesHeld'
  <2>1. ASSUME NEW p \in DOMAIN vaults', NEW kind \in Kind
        PROVE  LiveNames(p, kind)' = LiveNames(p, kind)
    <3>1. p # pk /\ \A n : <<p, kind, n>>[1] = p
      BY <1>2
    <3> QED BY <1>2, <3>1 DEF LiveNames
  <2> QED BY <1>2, <2>1 DEF StorageExact, LiveNamesHeld
<1> QED BY <1>4, <1>5, <1>6 DEF StorageExact

\* Rows stored again, under the names a renaming of each kind gives.
Renamed(S, f) == {[r EXCEPT !.name = f[r.kind][r.name], !.generation = @ + 1] : r \in S}

\* A head after a rotation is one from before, under the name its kind's
\* renaming gives: of the same version, as live, and over the same versions.
MovedTo(pk, kind, new, f) ==
    \E name \in Name :
        /\ new = f[kind][name] /\ <<pk, kind, name>> \in DOMAIN heads
        /\ heads'[<<pk, kind, new>>] = heads[<<pk, kind, name>>]
        /\ {r.version : r \in RowsOf(pk, kind, new)'} = {r.version : r \in RowsOf(pk, kind, name)}

\* So is every head of a vault whose rows are renamed.
LEMMA RotatedHead ==
  ASSUME IInv, IInv', NEW pk, NEW f \in [Kind -> Renaming],
         Rows(pk)' = Renamed(Rows(pk), f),
         NEW kind \in Kind, NEW new \in Name, <<pk, kind, new>> \in DOMAIN heads'
  PROVE  MovedTo(pk, kind, new, f)
<1> DEFINE again(r) == [r EXCEPT !.name = f[r.kind][r.name], !.generation = @ + 1]
<1>1. ASSUME NEW r \in Rows(pk)
      PROVE  /\ r \in records /\ r \in RecordRow /\ r.vault = pk
             /\ again(r).vault = pk /\ again(r).kind = r.kind /\ again(r).version = r.version
             /\ again(r).name = f[r.kind][r.name] /\ again(r).value = r.value
  <2>1. r \in records /\ r \in RecordRow /\ r.vault = pk
    BY DEF Rows, IInv, TypeOK
  <2> QED BY <2>1 DEF RecordRow
<1>2. \A x \in Rows(pk)' : \E r \in Rows(pk) : x = again(r)
  BY DEF Renamed
<1>3. \A r \in Rows(pk) : again(r) \in Rows(pk)'
  BY DEF Renamed
<1> HIDE DEF again
<1>4. PICK x \in records' : /\ <<x.vault, x.kind, x.name>> = <<pk, kind, new>>
                            /\ x.version = heads'[<<pk, kind, new>>].version
                            /\ heads'[<<pk, kind, new>>].tombstone = (x.value = Tombstone)
  BY DEF IInv, HeadsAgree
<1>5. x.vault = pk /\ x.kind = kind /\ x.name = new
  BY <1>4
<1>6. x \in Rows(pk)'
  BY <1>4, <1>5 DEF Rows
<1>7. PICK r \in Rows(pk) : x = again(r)
  BY <1>2, <1>6
<1>8. PICK name : name = r.name
  OBVIOUS
<1>9. /\ r.kind = kind /\ name \in Name /\ new = f[kind][name] /\ r.vault = pk
      /\ r.version = x.version /\ r.value = x.value /\ r \in records
  BY <1>1, <1>5, <1>7, <1>8 DEF RecordRow
<1> DEFINE key == <<pk, kind, name>>
           to == <<pk, kind, new>>
<1>10. <<r.vault, r.kind, r.name>> = key
  BY <1>8, <1>9
<1>11. key \in DOMAIN heads /\ r.version <= heads[key].version
  BY <1>9, <1>10 DEF IInv, HeadsAgree
<1>12. ASSUME NEW m \in Name, f[kind][m] = new PROVE m = name
  <2>1. f[kind] \in Renaming
    OBVIOUS
  <2> QED BY <1>9, <1>12, <2>1 DEF Renaming
<1>13. RowsOf(pk, kind, new)' = {again(s) : s \in RowsOf(pk, kind, name)}
  <2>1. ASSUME NEW y \in RowsOf(pk, kind, new)' PROVE \E s \in RowsOf(pk, kind, name) : y = again(s)
    <3>1. y \in Rows(pk)' /\ y.kind = kind /\ y.name = new
      BY DEF RowsOf
    <3>2. PICK s \in Rows(pk) : y = again(s)
      BY <1>2, <3>1
    <3>3. s.kind = kind /\ f[kind][s.name] = new /\ s.name \in Name
      BY <1>1, <3>1, <3>2 DEF RecordRow
    <3>4. s.name = name
      BY <1>12, <3>3
    <3> QED BY <3>2, <3>3, <3>4 DEF RowsOf
  <2>2. ASSUME NEW s \in RowsOf(pk, kind, name) PROVE again(s) \in RowsOf(pk, kind, new)'
    <3>1. s \in Rows(pk) /\ s.kind = kind /\ s.name = name
      BY DEF RowsOf
    <3>2. again(s) \in Rows(pk)' /\ again(s).kind = kind /\ again(s).name = new
      BY <1>1, <1>3, <1>9, <3>1
    <3> QED BY <3>2 DEF RowsOf
  <2> QED BY <2>1, <2>2
<1>14. {y.version : y \in RowsOf(pk, kind, new)'} = {s.version : s \in RowsOf(pk, kind, name)}
  <2>1. \A s \in RowsOf(pk, kind, name) : again(s).version = s.version
    BY <1>1 DEF RowsOf
  <2>2. PICK A, B : A = RowsOf(pk, kind, new)' /\ B = RowsOf(pk, kind, name)
    OBVIOUS
  <2>3. A = {again(s) : s \in B} /\ \A s \in B : again(s).version = s.version
    BY <1>13, <2>1, <2>2
  <2>4. {y.version : y \in A} = {s.version : s \in B}
    BY <2>3
  <2> QED BY <2>2, <2>4
<1>15. PICK s \in records : /\ <<s.vault, s.kind, s.name>> = key
                            /\ s.version = heads[key].version
                            /\ heads[key].tombstone = (s.value = Tombstone)
  BY <1>11 DEF IInv, HeadsAgree
<1>16. s \in RowsOf(pk, kind, name) /\ s \in Rows(pk) /\ s.vault = pk /\ s.kind = kind /\ s.name = name
  BY <1>15 DEF RowsOf, Rows
<1>17. s.version <= heads'[to].version
  <2>1. again(s) \in RowsOf(pk, kind, new)'
    BY <1>13, <1>16
  <2>2. /\ again(s) \in records' /\ again(s).vault = pk /\ again(s).kind = kind /\ again(s).name = new
    BY <2>1 DEF RowsOf, Rows
  <2>3. again(s).version <= heads'[<<again(s).vault, again(s).kind, again(s).name>>].version
    BY <2>2 DEF IInv, HeadsAgree
  <2>4. again(s).version = s.version
    BY <1>1, <1>16
  <2> QED BY <2>2, <2>3, <2>4
<1>18. /\ heads'[to] \in Head /\ heads[key] \in Head
       /\ heads'[to].version \in Nat /\ heads[key].version \in Nat
  <2>1. heads[key] \in Head
    BY <1>11 DEF IInv, TypeOK
  <2>2. heads'[to] \in Head
    <3>1. heads' \in [DOMAIN heads' -> Head]
      BY DEF IInv, TypeOK
    <3> QED BY <3>1
  <2>3. \A h \in Head : h.version \in Nat
    BY ConstantsAssumption DEF Head, Version
  <2> QED BY <2>1, <2>2, <2>3
<1>19. heads'[to].version = heads[key].version
  <2>1. PICK a, b : a = heads'[to].version /\ b = heads[key].version
    OBVIOUS
  <2>2. a \in Nat /\ b \in Nat /\ a <= b /\ b <= a
    BY <1>4, <1>9, <1>11, <1>15, <1>17, <1>18, <2>1
  <2>3. a = b
    BY <2>2
  <2> QED BY <2>1, <2>3
<1>20. r = s
  <2>1. r.version = s.version
    BY <1>4, <1>9, <1>15, <1>19
  <2>2. r \in RowsOf(pk, kind, name)
    BY <1>8, <1>9 DEF RowsOf
  <2> QED BY <1>16, <2>1, <2>2, RowsOnce
<1>21. heads'[to].tombstone = heads[key].tombstone
  BY <1>4, <1>9, <1>15, <1>20
<1>22. heads'[to] = heads[key]
  <2>1. PICK a, b : a = heads'[to] /\ b = heads[key]
    OBVIOUS
  <2>2. a \in Head /\ b \in Head /\ a.version = b.version /\ a.tombstone = b.tombstone
    BY <1>18, <1>19, <1>21, <2>1
  <2>3. \A h \in Head : h = [i \in {"version", "tombstone"} |-> h[i]]
    BY DEF Head
  <2>4. a = b
    BY <2>2, <2>3
  <2> QED BY <2>1, <2>4
<1> QED BY <1>9, <1>11, <1>14, <1>22 DEF MovedTo

\* A rotation keeps what is stored exact: heads, versions and live names move
\* together, and its byte count is a sum.
LEMMA RotatedExact ==
  ASSUME IInv, IInv', BatchSound, StorageExact, NEW pk \in DOMAIN vaults,
         apply_rotation(pk), rotate_accepts(pk, batch)
  PROVE  StorageExact'
<1>1. /\ rotate(pk, batch) /\ batch # NoBatch /\ batch.id = vaults[pk].id /\ batch.gathered = Kind
      /\ batch \in Batch /\ pk \in PK
  BY DEF apply_rotation, IInv, TypeOK
<1>2. /\ DOMAIN vaults' = DOMAIN vaults
      /\ Rows(pk)' = rotated_rows(pk, batch)
  BY RotationApplied
<1>3. PICK f \in [Kind -> Renaming] : Rows(pk)' = Renamed(Rows(pk), f)
  <2>1. \E f \in [Kind -> Renaming] : rotated_rows(pk, batch) = Renamed(Rows(pk), f)
    BY <1>1, RotationRenames DEF Renamed
  <2> QED BY <1>2, <2>1
<1>4. \A p : p # pk => Rows(p)' = Rows(p)
  <2>1. records' = (records \ Rows(pk)) \cup rotated_rows(pk, batch)
    BY <1>1 DEF rotate
  <2>2. \A r \in rotated_rows(pk, batch) : r.vault = pk
    BY DEF rotated_rows
  <2> QED BY <2>1, <2>2 DEF Rows
<1>5. \A p, kind, name : p # pk => RowsOf(p, kind, name)' = RowsOf(p, kind, name)
  BY <1>4 DEF RowsOf
<1>6. \A k : k[1] # pk => /\ k \in DOMAIN heads' <=> k \in DOMAIN heads
                          /\ k \in DOMAIN heads' => heads'[k] = heads[k]
  <2>1. heads' = rotated_heads(pk, batch)
    BY <1>1 DEF rotate
  <2> DEFINE named == {<<pk, e.kind, e.new>> : e \in batch.entries}
  <2>2. \A k \in named : k[1] = pk
    OBVIOUS
  <2>3. /\ DOMAIN heads' = {k \in DOMAIN heads : k[1] # pk} \cup named
        /\ \A k \in DOMAIN heads' : k \notin named => heads'[k] = heads[k]
    BY <2>1 DEF rotated_heads
  <2> HIDE DEF named
  <2> QED BY <2>2, <2>3
<1>7. ASSUME NEW kind \in Kind, NEW new \in Name, <<pk, kind, new>> \in DOMAIN heads'
      PROVE  MovedTo(pk, kind, new, f)
  BY <1>3, <1>7, RotatedHead
<1>8. RetainedRun'
  <2>1. ASSUME NEW k \in DOMAIN heads'
        PROVE  Run(RowsOf(k[1], k[2], k[3])', heads'[k].version, k[2])
    <3>1. k \in HeadKey
      BY DEF IInv, TypeOK
    <3>2. PICK p \in PK, kind \in Kind, name \in Name : k = <<p, kind, name>>
      BY <3>1 DEF HeadKey
    <3>3. k[1] = p /\ k[2] = kind /\ k[3] = name
      BY <3>2
    <3>4. CASE p = pk
      <4>1. <<pk, kind, name>> \in DOMAIN heads'
        BY <3>2, <3>4
      <4>2. PICK old \in Name :
              /\ <<pk, kind, old>> \in DOMAIN heads
              /\ heads'[<<pk, kind, name>>] = heads[<<pk, kind, old>>]
              /\ {r.version : r \in RowsOf(pk, kind, name)'} = {r.version : r \in RowsOf(pk, kind, old)}
        BY <1>7, <4>1 DEF MovedTo
      <4>3. <<pk, kind, old>>[1] = pk /\ <<pk, kind, old>>[2] = kind /\ <<pk, kind, old>>[3] = old
        OBVIOUS
      <4>4. Run(RowsOf(pk, kind, old), heads[<<pk, kind, old>>].version, kind)
        BY <4>2, <4>3, RetainedIs DEF StorageExact
      <4>5. Run(RowsOf(pk, kind, name)', heads[<<pk, kind, old>>].version, kind)
        BY <4>2, <4>4 DEF Run
      <4> QED BY <3>2, <3>3, <3>4, <4>2, <4>5
    <3>5. CASE p # pk
      BY <1>5, <1>6, <3>3, <3>5, RetainedIs DEF StorageExact
    <3> QED BY <3>4, <3>5
  <2>2. RetainedRun' <=> \A k \in DOMAIN heads' :
                            Run(RowsOf(k[1], k[2], k[3])', heads'[k].version, k[2])
    BY DEF RetainedRun, Run, Keep
  <2> QED BY <2>1, <2>2
<1>9. BytesExact'
  <2>1. bytesUsed' = [bytesUsed EXCEPT ![pk] = TotalBytes(rotated_rows(pk, batch))]
    BY <1>1 DEF rotate
  <2>2. DOMAIN bytesUsed = DOMAIN vaults
    BY DEF IInv, TypeOK
  <2>3. ASSUME NEW p \in DOMAIN vaults PROVE bytesUsed'[p] = TotalBytes(Rows(p)')
    <3>1. CASE p = pk
      BY <1>2, <2>1, <2>2, <3>1
    <3>2. CASE p # pk
      BY <1>4, <2>1, <2>2, <3>2 DEF StorageExact, BytesExact
    <3> QED BY <3>1, <3>2
  <2> QED BY <1>2, <2>3 DEF BytesExact
<1>10. LiveNamesHeld'
  <2>1. ASSUME NEW p \in DOMAIN vaults, NEW kind \in Kind
        PROVE  Cardinality(LiveNames(p, kind)') <= MaxLive[kind]
    <3>1. Cardinality(LiveNames(p, kind)) <= MaxLive[kind]
      BY DEF StorageExact, LiveNamesHeld
    <3>2. CASE p # pk
      <4>1. \A n : <<p, kind, n>>[1] = p
        OBVIOUS
      <4>2. LiveNames(p, kind)' = LiveNames(p, kind)
        BY <1>6, <3>2, <4>1 DEF LiveNames
      <4> QED BY <3>1, <4>2
    <3>3. CASE p = pk
      <4>1. PICK S, T : S = LiveNames(pk, kind) /\ T = LiveNames(pk, kind)'
        OBVIOUS
      <4>2. \A n \in T : \E m \in S : n = f[kind][m]
        <5>1. SUFFICES ASSUME NEW n \in T PROVE \E m \in S : n = f[kind][m]
          OBVIOUS
        <5>2. n \in Name /\ <<pk, kind, n>> \in DOMAIN heads' /\ ~heads'[<<pk, kind, n>>].tombstone
          BY <4>1, <5>1 DEF LiveNames
        <5>3. PICK m \in Name :
                /\ n = f[kind][m] /\ <<pk, kind, m>> \in DOMAIN heads
                /\ heads'[<<pk, kind, n>>] = heads[<<pk, kind, m>>]
                /\ {r.version : r \in RowsOf(pk, kind, n)'} = {r.version : r \in RowsOf(pk, kind, m)}
          BY <1>7, <5>2 DEF MovedTo
        <5>4. m \in S
          BY <4>1, <5>2, <5>3 DEF LiveNames
        <5> QED BY <5>3, <5>4
      <4>3. S \subseteq Name /\ T \subseteq Name
        BY <4>1 DEF LiveNames
      <4>4. IsFiniteSet(S) /\ IsFiniteSet(T)
        BY <4>3, ConstantsAssumption, FS_Subset
      <4> DEFINE h == [n \in T |-> CHOOSE m \in S : n = f[kind][m]]
      <4>5. \A n \in T : h[n] \in S /\ f[kind][h[n]] = n
        BY <4>2
      <4>6. h = [n \in T |-> h[n]]
        OBVIOUS
      <4> HIDE DEF h
      <4>7. h \in Injection(T, S)
        BY <4>5, <4>6 DEF Injection, IsInjective
      <4>8. Cardinality(T) <= Cardinality(S)
        BY <4>4, <4>7, FS_Injection
      <4>9. Cardinality(S) \in Nat /\ Cardinality(T) \in Nat
        BY <4>4, FS_CardinalityType
      <4>10. MaxLive[kind] \in Nat
        <5>1. kind \in {"secret", "config"}
          BY ConstantsAssumption
        <5> QED BY <5>1, ConstantsAssumption
      <4>11. Cardinality(S) <= MaxLive[kind]
        BY <3>1, <3>3, <4>1
      <4>12. Cardinality(T) <= MaxLive[kind]
        BY <4>8, <4>9, <4>10, <4>11
      <4> QED BY <3>3, <4>1, <4>12
    <3> QED BY <3>2, <3>3
  <2> QED BY <1>2, <2>1 DEF LiveNamesHeld
<1> QED BY <1>8, <1>9, <1>10 DEF StorageExact

\* Every step keeps what is stored exact.
LEMMA ExactNext == IInv /\ IInv' /\ BatchSound /\ StorageExact /\ [Next]_vars => StorageExact'
<1> SUFFICES ASSUME IInv, IInv', BatchSound, StorageExact, [Next]_vars PROVE StorageExact'
  OBVIOUS
<1>1. ASSUME NEW pk \in DOMAIN vaults, Refuse(pk) PROVE StorageExact'
  BY <1>1, SameExact DEF Refuse
<1>2. CASE VaultNext
  <2>1. ASSUME NEW pk \in DOMAIN vaults, touch(pk) PROVE StorageExact'
    BY <2>1, SameExact DEF touch
  <2>2. Tick => StorageExact'
    BY SameExact DEF Tick
  <2> QED BY <1>1, <1>2, <2>1, <2>2, CreateExact, DeleteExact DEF VaultNext, record
<1>3. CASE TokenNext
  <2>1. PICK pk \in DOMAIN vaults :
          \/ \E t \in TokenId, g \in Generation, x \in 1..(MaxTime + 1) : register_token(pk, t, g, x)
          \/ \E ids \in SUBSET TokenId : revoke_tokens(pk, ids)
    BY <1>3 DEF TokenNext
  <2>2. Refuse(pk) \/ (DOMAIN vaults' = DOMAIN vaults /\ UNCHANGED <<records, heads, bytesUsed>>)
    BY <2>1 DEF register_token, revoke_tokens
  <2> QED BY <1>1, <2>2, SameExact
<1>4. CASE RecordNext
  <2>1. ASSUME NEW pk \in DOMAIN vaults, NEW pre, NEW v, NEW size, put_children(pk, pre, v, size)
        PROVE  StorageExact'
    <3>1. Refuse(pk) \/ (DOMAIN vaults' = DOMAIN vaults /\ UNCHANGED <<records, heads, bytesUsed>>)
      BY <2>1 DEF put_children
    <3> QED BY <1>1, <3>1, SameExact
  <2> QED BY <1>1, <1>4, <2>1, RecordExact DEF RecordNext
<1>5. CASE RotationNext
  <2>1. ASSUME NEW pk \in DOMAIN vaults, apply_rotation(pk) PROVE StorageExact'
    <3>1. CASE rotate_accepts(pk, batch)
      BY <2>1, <3>1, RotatedExact
    <3>2. CASE ~rotate_accepts(pk, batch)
      BY <2>1, <3>2, SameExact DEF apply_rotation
    <3> QED BY <3>1, <3>2
  <2>2. (rotation_not_found
         \/ \E pk \in DOMAIN vaults :
              \/ \E resealed \in SUBSET TokenId, revoke \in SUBSET TokenId :
                    refresh_status(pk, resealed, revoke)
              \/ \E kind, f, omitted : all_versions(pk, kind, f, omitted))
        => StorageExact'
    <3>1. ASSUME UNCHANGED <<vaults, records, heads, bytesUsed>> PROVE StorageExact'
      BY <3>1, SameExact
    <3> QED BY <3>1 DEF rotation_not_found, refresh_status, all_versions
  <2> QED BY <1>5, <2>1, <2>2 DEF RotationNext
<1>6. CASE UNCHANGED vars
  BY <1>6, SameExact DEF vars
<1> QED BY <1>2, <1>3, <1>4, <1>5, <1>6 DEF Next

\* What put_record, delete_record and rotate account for is what is stored:
\* pruning keeps an unbroken run of versions that ends at the head,
\* `bytes_used` is the size of the rows, so that neither of its subtractions
\* goes below zero, and no interleaving of puts, deletes and rotations passes
\* the quota of live names.
THEOREM StorageAccounted == Spec => []StorageExact
<1>1. Init => StorageExact
  BY DEF Init, StorageExact, RetainedRun, BytesExact, LiveNamesHeld
<1> QED BY <1>1, ExactNext, Invariance, BatchInvariance, PTL DEF Spec

=============================================================================
