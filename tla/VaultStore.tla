----------------------------- MODULE VaultStore -----------------------------
(***************************************************************************)
(* The SQLite store of a galata-vault server (backend/sqlite.rs).          *)
(*                                                                         *)
(* Every method of `Store` runs in one BEGIN IMMEDIATE transaction, so it  *)
(* is one step.  A table is a variable: a function from its primary key,   *)
(* or a set of rows.  A refusal that the code audits (`Done::Refused`) is  *)
(* a step that appends one audit row and changes nothing else; an error    *)
(* that rolls the transaction back changes nothing and is not a step.      *)
(*                                                                         *)
(* Ciphertexts, signatures and hashes are abstracted.  A value is known by *)
(* its length in bytes, 0 standing for the absent value of a tombstone.    *)
(* The audit log is its length; the rows and their hash chain are not      *)
(* state the store's decisions read.                                       *)
(***************************************************************************)
EXTENDS Integers, FiniteSets, FiniteSetsExt

CONSTANTS
    VaultId,          \* vault ids
    TokenId,          \* token ids
    Kind,             \* the record kinds in use, a subset of {"secret", "config"}
    Name,             \* name HMACs
    Value,            \* lengths of value ciphertexts
    NameBytes,        \* length of a name ciphertext
    WriteTime,        \* the write times clients sign
    MaxVersions,      \* Limits: versions retained of a name, per kind
    MaxLive,          \* Limits: live names, per kind
    MaxValue,         \* Limits: value length, per kind
    MaxTokens,        \* Limits: active tokens of a vault
    MaxVaultBytes,    \* Limits: stored bytes of a vault
    TouchGranularity, \* TOUCH_GRANULARITY_SECS
    MaxPk,            \* bound: row ids
    MaxTime,          \* bound: the clock
    MaxVersion,       \* bound: versions of a name, or of a children record
    MaxGeneration,    \* bound: generations of a vault
    MaxRevision,      \* bound: revisions of a vault
    MaxAudit,         \* bound: audit rows of a vault
    MaxJournal        \* bound: journal records

ASSUME ConstantsAssumption ==
    /\ IsFiniteSet(TokenId) /\ IsFiniteSet(Name)
    /\ Kind \subseteq {"secret", "config"}
    /\ Value \subseteq Nat \ {0}
    /\ WriteTime \subseteq Nat
    /\ MaxVersions \in [{"secret", "config"} -> Nat]
    /\ MaxLive \in [{"secret", "config"} -> Nat]
    /\ MaxValue \in [{"secret", "config"} -> Nat]
    /\ {NameBytes, MaxTokens, MaxVaultBytes, TouchGranularity, MaxPk, MaxTime,
        MaxVersion, MaxGeneration, MaxRevision, MaxAudit, MaxJournal} \subseteq Nat

VARIABLES
    now,          \* the server's clock
    vaults,       \* table vaults: row id -> row
    bytesUsed,    \* column bytes_used of vaults: row id -> bytes
    descriptors,  \* table descriptors: set of <<row id, generation>>
    tokens,       \* table tokens: token id -> row
    records,      \* tables secrets and configs: set of rows
    heads,        \* tables heads and config_heads: <<row id, kind, name>> -> head
    children,     \* table children: row id -> version
    lastApplied,  \* table journal_state
    batch         \* a rotation request a client has built and not yet sent

vars == <<now, vaults, bytesUsed, descriptors, tokens, records, heads, children,
          lastApplied, batch>>

PK == 1..MaxPk
Generation == 1..MaxGeneration
Version == 1..MaxVersion
Tombstone == 0

\* Table `vaults`, without bytes_used.
\* `born` stands for the keys in the vault's descriptors: a vault created
\* again under the same id has fresh ones.
VaultRow == [id : VaultId, born : Nat, generation : Nat \ {0}, revision : Nat,
             auditSeq : Nat, active : Nat]
TokenRow == [vault : PK, generation : Nat \ {0}, expires : Nat]
RecordRow == [vault : PK, kind : Kind, name : Name, version : Version,
              generation : Nat \ {0}, at : WriteTime, value : Value \cup {Tombstone}]
HeadKey == PK \X Kind \X Name
Head == [version : Version, tombstone : BOOLEAN]

\* RotationRequest: one entry per retained version, with its new name.
Entry == [kind : Kind, old : Name, new : Name, version : Version,
          at : WriteTime, value : Value \cup {Tombstone}]
Batch == [id : VaultId, born : Nat, fromGeneration : Nat \ {0}, fromRevision : Nat,
          entries : SUBSET Entry, gathered : SUBSET Kind,
          tokens : SUBSET TokenId, revoke : SUBSET TokenId]
NoBatch == [id |-> "none"]

TypeOK ==
    /\ now \in Nat
    /\ vaults \in [DOMAIN vaults -> VaultRow] /\ DOMAIN vaults \subseteq PK
    /\ DOMAIN bytesUsed = DOMAIN vaults
    /\ descriptors \subseteq PK \X (Nat \ {0})
    /\ tokens \in [DOMAIN tokens -> TokenRow] /\ DOMAIN tokens \subseteq TokenId
    /\ records \subseteq RecordRow
    /\ heads \in [DOMAIN heads -> Head] /\ DOMAIN heads \subseteq HeadKey
    /\ children \in [DOMAIN children -> Version] /\ DOMAIN children \subseteq PK
    /\ lastApplied \in Nat
    /\ batch \in Batch \cup {NoBatch}

Init ==
    /\ now = 0
    /\ vaults = [pk \in {} |-> {}]
    /\ bytesUsed = [pk \in {} |-> {}]
    /\ descriptors = {}
    /\ tokens = [t \in {} |-> {}]
    /\ records = {}
    /\ heads = [k \in {} |-> {}]
    /\ children = [pk \in {} |-> {}]
    /\ lastApplied = 0
    /\ batch = NoBatch

-----------------------------------------------------------------------------
(* Helpers the transactions share. *)

\* The function f, with x mapped to y (an INSERT or an UPDATE of one row).
With(f, x, y) == [z \in DOMAIN f \cup {x} |-> IF z = x THEN y ELSE f[z]]
\* The function f without the keys S (a DELETE).
Without(f, S) == [z \in DOMAIN f \ S |-> f[z]]

Rows(pk) == {r \in records : r.vault = pk}
RowsOf(pk, kind, name) == {r \in Rows(pk) : r.kind = kind /\ r.name = name}
TokensOf(pk) == {t \in DOMAIN tokens : tokens[t].vault = pk}
LiveNames(pk, kind) ==
    {n \in Name : <<pk, kind, n>> \in DOMAIN heads /\ ~heads[<<pk, kind, n>>].tombstone}
ActiveTokens(pk) == {t \in TokensOf(pk) : tokens[t].expires > now}

Bytes(r) == NameBytes + r.value
TotalBytes(S) == MapThenSumSet(Bytes, S)

\* append_audit: n more rows of the vault's log.
append_audit(row, n) == [row EXCEPT !.auditSeq = @ + n]
bump_revision(row) == [row EXCEPT !.revision = @ + 1]

\* The named bounds, for a step that bumps the revision and appends rows.
Room(pk, n) == /\ vaults[pk].revision < MaxRevision
               /\ vaults[pk].auditSeq + n <= MaxAudit

\* A refusal: one audit row, and nothing else.
Refuse(pk) ==
    /\ vaults[pk].auditSeq < MaxAudit
    /\ vaults' = [vaults EXCEPT ![pk] = append_audit(@, 1)]
    /\ UNCHANGED <<now, bytesUsed, descriptors, tokens, records, heads, children,
                   lastApplied, batch>>

\* journal: the next sequence number, once the hook has stored the record.
journal == lastApplied < MaxJournal /\ lastApplied' = lastApplied + 1

\* Mutant of prunable: the version about to be written is not counted.
prunable_off_by_one(pk, kind, name) ==
    LET all == RowsOf(pk, kind, name)
        excess == Cardinality(all) - MaxVersions[kind]
    IN  {r \in all : Cardinality({s \in all : s.version <= r.version}) <= excess}

\* prunable: the oldest versions that must go to keep the limit once one more
\* is written.
prunable(pk, kind, name) ==
    LET all == RowsOf(pk, kind, name)
        keep == IF MaxVersions[kind] > 1 THEN MaxVersions[kind] ELSE 1
        excess == Cardinality(all) + 1 - keep
    IN  {r \in all : Cardinality({s \in all : s.version <= r.version}) <= excess}

-----------------------------------------------------------------------------
(* Vaults. *)

\* The row id an INSERT INTO vaults gets: vaults.pk is INTEGER PRIMARY KEY
\* without AUTOINCREMENT, so SQLite gives one more than the largest in the
\* table, and a deleted vault's id can come back.
last_insert_rowid(pk) ==
    /\ \A q \in DOMAIN vaults : q < pk
    /\ pk = 1 \/ pk - 1 \in DOMAIN vaults

\* Mutant of create_vault: generations counted from 0.
create_vault_at_zero(id) ==
    \E pk \in PK :
        /\ \A q \in DOMAIN vaults : vaults[q].id # id
        /\ last_insert_rowid(pk)
        /\ vaults' = With(vaults, pk, [id |-> id, born |-> lastApplied, generation |-> 0,
                                       revision |-> 1, auditSeq |-> 1, active |-> now])
        /\ bytesUsed' = With(bytesUsed, pk, 0)
        /\ descriptors' = descriptors \cup {<<pk, 1>>}
        /\ UNCHANGED <<now, tokens, records, heads, children, lastApplied, batch>>

create_vault(id) ==
    \E pk \in PK :
        /\ \A q \in DOMAIN vaults : vaults[q].id # id
        /\ last_insert_rowid(pk)
        /\ vaults' = With(vaults, pk, [id |-> id, born |-> lastApplied, generation |-> 1,
                                       revision |-> 1, auditSeq |-> 1, active |-> now])
        /\ bytesUsed' = With(bytesUsed, pk, 0)
        /\ descriptors' = descriptors \cup {<<pk, 1>>}
        /\ UNCHANGED <<now, tokens, records, heads, children, lastApplied, batch>>

touch(pk) ==
    /\ vaults[pk].active < now - TouchGranularity
    /\ vaults' = [vaults EXCEPT ![pk].active = now]
    /\ UNCHANGED <<now, bytesUsed, descriptors, tokens, records, heads, children,
                   lastApplied, batch>>

\* `record`: an audit row for a read, or for a request refused before it
\* reached the store.
record(pk) == Refuse(pk)

\* Mutants of delete_vault: a table whose foreign key does not cascade.
delete_vault_keeps_tokens(pk) ==
    /\ journal
    /\ vaults' = Without(vaults, {pk})
    /\ bytesUsed' = Without(bytesUsed, {pk})
    /\ descriptors' = {d \in descriptors : d[1] # pk}
    /\ records' = records \ Rows(pk)
    /\ heads' = Without(heads, {k \in DOMAIN heads : k[1] = pk})
    /\ children' = Without(children, {pk})
    /\ UNCHANGED <<now, tokens, batch>>

delete_vault_keeps_descriptors(pk) ==
    /\ journal
    /\ vaults' = Without(vaults, {pk})
    /\ bytesUsed' = Without(bytesUsed, {pk})
    /\ tokens' = Without(tokens, TokensOf(pk))
    /\ records' = records \ Rows(pk)
    /\ heads' = Without(heads, {k \in DOMAIN heads : k[1] = pk})
    /\ children' = Without(children, {pk})
    /\ UNCHANGED <<now, descriptors, batch>>

\* ON DELETE CASCADE takes every row of the vault, the audit log included.
delete_vault(pk) ==
    /\ journal
    /\ vaults' = Without(vaults, {pk})
    /\ bytesUsed' = Without(bytesUsed, {pk})
    /\ descriptors' = {d \in descriptors : d[1] # pk}
    /\ tokens' = Without(tokens, TokensOf(pk))
    /\ records' = records \ Rows(pk)
    /\ heads' = Without(heads, {k \in DOMAIN heads : k[1] = pk})
    /\ children' = Without(children, {pk})
    /\ UNCHANGED <<now, batch>>

-----------------------------------------------------------------------------
(* Tokens. *)

\* Mutant of register_token_accepts: a token sealed under a generation that is
\* gone.
register_token_any_generation(pk, generation) ==
    Cardinality(ActiveTokens(pk)) < MaxTokens

register_token_accepts(pk, generation) ==
    /\ generation = vaults[pk].generation
    /\ Cardinality(ActiveTokens(pk)) < MaxTokens

register_token(pk, t, generation, expires) ==
    IF register_token_accepts(pk, generation)
    THEN /\ t \notin DOMAIN tokens   \* else Exists, rolled back
         /\ Room(pk, 1)
         /\ tokens' = With(tokens, t, [vault |-> pk, generation |-> generation,
                                       expires |-> expires])
         /\ vaults' = [vaults EXCEPT ![pk] = append_audit(bump_revision(@), 1)]
         /\ UNCHANGED <<now, bytesUsed, descriptors, records, heads, children, lastApplied, batch>>
    ELSE Refuse(pk)

revoke_tokens(pk, ids) ==
    LET removed == ids \cap TokensOf(pk) IN
    /\ removed # {}                  \* else NotFound, rolled back
    /\ Room(pk, Cardinality(removed))
    /\ journal
    /\ tokens' = Without(tokens, removed)
    /\ vaults' = [vaults EXCEPT
                    ![pk] = append_audit(bump_revision(@), Cardinality(removed))]
    /\ UNCHANGED <<now, bytesUsed, descriptors, records, heads, children, batch>>

-----------------------------------------------------------------------------
(* Records.  A precondition is IfNoneMatch, or the version of an If-Match. *)

IfNoneMatch == 0

\* Mutant of next_version: a deleted name starts again.
next_version_restarts(key, pre) ==
    IF key \notin DOMAIN heads \/ heads[key].tombstone
    THEN IF pre = IfNoneMatch THEN 1 ELSE 0
    ELSE IF pre = heads[key].version THEN pre + 1 ELSE 0

\* The version a put gets, by its precondition and the head; 0 when refused.
next_version(key, pre) ==
    IF key \notin DOMAIN heads
    THEN IF pre = IfNoneMatch THEN 1 ELSE 0
    ELSE LET head == heads[key] IN
         IF pre = (IF head.tombstone THEN IfNoneMatch ELSE head.version)
         THEN head.version + 1 ELSE 0

\* bytes_used once w is written and `pruned` is gone.
bytes_after(pk, w, pruned) == bytesUsed[pk] + NameBytes + w.value - TotalBytes(pruned)

put_record_accepts(pk, kind, name, pre, w) ==
    LET key == <<pk, kind, name>> IN
    /\ w.generation = vaults[pk].generation
    /\ w.value <= MaxValue[kind]
    /\ next_version(key, pre) # 0
    /\ w.version = next_version(key, pre)
    /\ (key \notin DOMAIN heads \/ heads[key].tombstone)
            => Cardinality(LiveNames(pk, kind)) < MaxLive[kind]
    /\ bytes_after(pk, w, prunable(pk, kind, name)) <= MaxVaultBytes

\* insert_version, set_head, delete_versions, and the vault's row.
write_version(pk, kind, name, w, bytes) ==
    /\ w.version <= MaxVersion
    /\ Room(pk, 1)
    /\ records' = (records \ prunable(pk, kind, name))
                  \cup {[vault |-> pk, kind |-> kind, name |-> name,
                         version |-> w.version, generation |-> w.generation,
                         at |-> w.at, value |-> w.value]}
    /\ heads' = With(heads, <<pk, kind, name>>,
                     [version |-> w.version, tombstone |-> w.value = Tombstone])
    /\ vaults' = [vaults EXCEPT ![pk] = append_audit(bump_revision(@), 1)]
    /\ bytesUsed' = [bytesUsed EXCEPT ![pk] = bytes]
    /\ UNCHANGED <<now, descriptors, tokens, children, lastApplied, batch>>

put_record(pk, kind, name, pre, w) ==
    IF put_record_accepts(pk, kind, name, pre, w)
    THEN write_version(pk, kind, name, w, bytes_after(pk, w, prunable(pk, kind, name)))
    ELSE Refuse(pk)

delete_record_accepts(pk, kind, name, ifMatch, w) ==
    LET current == heads[<<pk, kind, name>>].version IN
    /\ w.generation = vaults[pk].generation
    /\ ifMatch = current
    /\ w.version = current + 1

delete_record(pk, kind, name, ifMatch, w) ==
    LET key == <<pk, kind, name>>
        total == bytes_after(pk, w, prunable(pk, kind, name))
    IN  /\ key \in DOMAIN heads /\ ~heads[key].tombstone   \* else NotFound
        /\ IF delete_record_accepts(pk, kind, name, ifMatch, w)
           THEN write_version(pk, kind, name, w, IF total < 0 THEN 0 ELSE total)
           ELSE Refuse(pk)

put_children_accepts(pk, pre, version, size) ==
    /\ size <= MaxValue["config"]
    /\ IF pk \in DOMAIN children THEN pre = children[pk] ELSE pre = IfNoneMatch
    /\ version = pre + 1

\* A children write does not move the vault's revision.
put_children(pk, pre, version, size) ==
    IF put_children_accepts(pk, pre, version, size)
    THEN /\ version <= MaxVersion
         /\ vaults[pk].auditSeq < MaxAudit
         /\ children' = With(children, pk, version)
         /\ vaults' = [vaults EXCEPT ![pk] = append_audit(@, 1)]
         /\ UNCHANGED <<now, bytesUsed, descriptors, tokens, records, heads, lastApplied, batch>>
    ELSE Refuse(pk)

-----------------------------------------------------------------------------
(* Rotation.  The client reads the status, then every retained version of  *)
(* each kind, in separate requests; the batch is built from what it read.  *)

\* Handle::rotate reads the status: the vault's row, and its tokens by a
\* query of its own, so that the bundles a client reseals need not be those
\* of the tokens there were at that revision.
refresh_status(pk, resealed, revoke) ==
    /\ batch = NoBatch
    /\ resealed \cap revoke = {}
    /\ vaults[pk].generation < MaxGeneration
    /\ batch' = [id |-> vaults[pk].id, born |-> vaults[pk].born,
                 fromGeneration |-> vaults[pk].generation,
                 fromRevision |-> vaults[pk].revision, entries |-> {},
                 gathered |-> {}, tokens |-> resealed, revoke |-> revoke]
    /\ UNCHANGED <<now, vaults, bytesUsed, descriptors, tokens, records, heads, children,
                   lastApplied>>

\* build_rotation re-encrypts what it is given, under the new name key.
rotated(r, rename) == [kind |-> r.kind, old |-> r.name, new |-> rename[r.name],
                       version |-> r.version, at |-> r.at, value |-> r.value]

\* The name HMACs of a new name key: distinct names stay distinct.
Renaming == {f \in [Name -> Name] : \A m, n \in Name : f[m] = f[n] => m = n}

\* all_versions of one kind: a request per name and per version, so that one
\* written or pruned meanwhile may be missed.
all_versions(pk, kind, rename, omitted) ==
    /\ batch # NoBatch /\ batch.id = vaults[pk].id /\ kind \notin batch.gathered
    /\ batch' = [batch EXCEPT
                   !.entries = @ \cup {rotated(r, rename) :
                                         r \in {s \in Rows(pk) : s.kind = kind} \ omitted},
                   !.gathered = @ \cup {kind}]
    /\ UNCHANGED <<now, vaults, bytesUsed, descriptors, tokens, records, heads, children,
                   lastApplied>>

\* check_complete: every retained version exactly once, with its write time
\* and its tombstone flag.
check_complete(pk, b) ==
    /\ \A r \in Rows(pk) : \E e \in b.entries :
          e.kind = r.kind /\ e.old = r.name /\ e.version = r.version
    /\ \A e \in b.entries : \E r \in Rows(pk) :
          /\ e.kind = r.kind /\ e.old = r.name /\ e.version = r.version
          /\ e.at = r.at
          /\ (e.value = Tombstone) = (r.value = Tombstone)
    /\ \A e, f \in b.entries :
          (e.kind = f.kind /\ e.old = f.old /\ e.version = f.version) => e = f

\* rewritten: no two versions under the same new name.
rewritten_apart(b) ==
    \A e, f \in b.entries :
        (e.kind = f.kind /\ e.new = f.new /\ e.version = f.version) => e = f

\* Mutant of rotate_accepts: the batch may leave a version out.
rotate_incomplete(pk, b) ==
    /\ b.born = vaults[pk].born
    /\ b.fromGeneration = vaults[pk].generation
    /\ b.fromRevision = vaults[pk].revision
    /\ b.revoke \subseteq TokensOf(pk)
    /\ b.tokens = TokensOf(pk) \ b.revoke
    /\ rewritten_apart(b)

\* The new descriptor names the current one by its hash (Descriptor::follows,
\* checked before the transaction), and the strict checks of `rotate`.
rotate_accepts(pk, b) ==
    /\ b.born = vaults[pk].born
    /\ b.fromGeneration = vaults[pk].generation
    /\ b.fromRevision = vaults[pk].revision
    /\ check_complete(pk, b)
    /\ b.revoke \subseteq TokensOf(pk)
    /\ b.tokens = TokensOf(pk) \ b.revoke
    /\ rewritten_apart(b)

\* replace_records: the batch becomes the vault's rows, and each name's head
\* its highest version.
rotated_rows(pk, b) ==
    {[vault |-> pk, kind |-> e.kind, name |-> e.new, version |-> e.version,
      generation |-> b.fromGeneration + 1, at |-> e.at, value |-> e.value] :
        e \in b.entries}
\* Mutant of highest: the first row read.
highest_first(rows) == CHOOSE r \in rows : \A s \in rows : r.version <= s.version
highest(rows) == CHOOSE r \in rows : \A s \in rows : s.version <= r.version
rotated_heads(pk, b) ==
    LET rows(k) == {r \in rotated_rows(pk, b) : <<pk, r.kind, r.name>> = k}
        named == {<<pk, e.kind, e.new>> : e \in b.entries}
        kept == {k \in DOMAIN heads : k[1] # pk}
    IN  [k \in kept \cup named |->
            IF k \in named
            THEN [version |-> highest(rows(k)).version,
                  tombstone |-> highest(rows(k)).value = Tombstone]
            ELSE heads[k]]

rotate(pk, b) ==
    LET revoked == b.revoke \cap TokensOf(pk)
        generation == b.fromGeneration + 1
    IN  /\ Room(pk, 1 + Cardinality(revoked))
        /\ records' = (records \ Rows(pk)) \cup rotated_rows(pk, b)
        /\ heads' = rotated_heads(pk, b)
        /\ descriptors' = descriptors \cup {<<pk, generation>>}
        /\ tokens' = [t \in DOMAIN tokens \ revoked |->
                        IF t \in b.tokens /\ tokens[t].vault = pk
                        THEN [tokens[t] EXCEPT !.generation = generation]
                        ELSE tokens[t]]
        /\ vaults' = [vaults EXCEPT
                        ![pk] = [append_audit(bump_revision(@), 1 + Cardinality(revoked))
                                   EXCEPT !.generation = generation]]
        /\ bytesUsed' = [bytesUsed EXCEPT ![pk] = TotalBytes(rotated_rows(pk, b))]

\* apply_rotation: applied and journaled, or an error that rolls back (a
\* conflict, or an incomplete batch); either way the client is done with it.
apply_rotation(pk) ==
    /\ batch # NoBatch /\ batch.id = vaults[pk].id /\ batch.gathered = Kind
    /\ batch' = NoBatch
    /\ IF rotate_accepts(pk, batch)
       THEN rotate(pk, batch) /\ journal /\ UNCHANGED <<now, children>>
       ELSE UNCHANGED <<now, vaults, bytesUsed, descriptors, tokens, records, heads,
                        children, lastApplied>>

\* The vault is gone when the batch arrives: 404, and the client gives up.
rotation_not_found ==
    /\ batch # NoBatch
    /\ \A pk \in DOMAIN vaults : vaults[pk].id # batch.id
    /\ batch' = NoBatch
    /\ UNCHANGED <<now, vaults, bytesUsed, descriptors, tokens, records, heads, children,
                   lastApplied>>

-----------------------------------------------------------------------------
Tick == /\ now < MaxTime
        /\ now' = now + 1
        /\ UNCHANGED <<vaults, bytesUsed, descriptors, tokens, records, heads, children,
                       lastApplied, batch>>

Write == [generation : Generation, version : Version, at : WriteTime, value : Value]
TombstoneWrite == [generation : Generation, version : Version, at : WriteTime,
                   value : {Tombstone}]

VaultNext ==
    \/ \E id \in VaultId : create_vault(id)
    \/ \E pk \in DOMAIN vaults : touch(pk)
    \/ \E pk \in DOMAIN vaults : record(pk)
    \/ \E pk \in DOMAIN vaults : delete_vault(pk)
    \/ Tick

TokenNext ==
    \E pk \in DOMAIN vaults :
        \/ \E t \in TokenId, g \in Generation, x \in 1..(MaxTime + 1) :
              register_token(pk, t, g, x)
        \/ \E ids \in SUBSET TokenId : revoke_tokens(pk, ids)

RecordNext ==
    \E pk \in DOMAIN vaults :
        \/ \E kind \in Kind, name \in Name, pre \in 0..MaxVersion, w \in Write :
              put_record(pk, kind, name, pre, w)
        \/ \E kind \in Kind, name \in Name, pre \in Version, w \in TombstoneWrite :
              delete_record(pk, kind, name, pre, w)
        \/ \E pre \in 0..MaxVersion, v \in Version, size \in Value :
              put_children(pk, pre, v, size)

RotationNext ==
    \/ rotation_not_found
    \/ \E pk \in DOMAIN vaults :
        \/ \E resealed \in SUBSET TokenId, revoke \in SUBSET TokenId :
              refresh_status(pk, resealed, revoke)
        \/ \E kind \in Kind, f \in Renaming,
              omitted \in {{}} \cup {{r} : r \in Rows(pk)} :
              all_versions(pk, kind, f, omitted)
        \/ apply_rotation(pk)

Next == VaultNext \/ TokenNext \/ RecordNext \/ RotationNext

Spec == Init /\ [][Next]_vars

-----------------------------------------------------------------------------
(* Properties. *)

\* Foreign keys, cascading: no row outlives its vault, so a row id that is
\* given out again starts with no rows.  And no two vaults share an id.
NoOrphans ==
    /\ \A d \in descriptors : d[1] \in DOMAIN vaults
    /\ \A t \in DOMAIN tokens : tokens[t].vault \in DOMAIN vaults
    /\ \A r \in records : r.vault \in DOMAIN vaults
    /\ \A k \in DOMAIN heads : k[1] \in DOMAIN vaults
    /\ DOMAIN children \subseteq DOMAIN vaults
    /\ \A p, q \in DOMAIN vaults : vaults[p].id = vaults[q].id => p = q

\* A rotation leaves nothing behind: every retained version and every token
\* is sealed under its vault's current generation, whatever writes, mints and
\* revocations were interleaved with building the batch.
GenerationUniform ==
    /\ \A r \in records : r.generation = vaults[r.vault].generation
    /\ \A t \in DOMAIN tokens : tokens[t].generation = vaults[tokens[t].vault].generation

\* A vault keeps the descriptor of every generation it has been in, and of no
\* other: a client can follow the chain from any generation it pinned.
DescriptorChain ==
    \A pk \in DOMAIN vaults :
        {d \in descriptors : d[1] = pk} = {<<pk, g>> : g \in 1..vaults[pk].generation}

\* A head names the highest retained version of its name and says whether it
\* is a tombstone; every record has a head, and no version is stored twice.
\* list_records joins the two tables on this.
HeadsAgree ==
    /\ \A k \in DOMAIN heads :
          \E r \in records :
              /\ <<r.vault, r.kind, r.name>> = k
              /\ r.version = heads[k].version
              /\ heads[k].tombstone = (r.value = Tombstone)
    /\ \A r \in records :
          /\ <<r.vault, r.kind, r.name>> \in DOMAIN heads
          /\ r.version <= heads[<<r.vault, r.kind, r.name>>].version
    /\ \A r, s \in records :
          (/\ r.vault = s.vault /\ r.kind = s.kind
           /\ r.name = s.name /\ r.version = s.version) => r = s

\* Pruning takes the oldest versions only, and no more than the limit asks:
\* what is retained of a name is an unbroken run that ends at its head, at
\* most max_versions long, and all of the name's history when it is shorter.
RetainedRun ==
    \A k \in DOMAIN heads :
        LET rows == RowsOf(k[1], k[2], k[3])
            keep == IF MaxVersions[k[2]] > 1 THEN MaxVersions[k[2]] ELSE 1
            last == heads[k].version
            first == IF last > keep THEN last - keep + 1 ELSE 1
        IN  {r.version : r \in rows} = first..last

\* bytes_used is the size of what is stored: the unsigned subtraction in
\* put_record never wraps, and the saturating one in delete_record never
\* saturates.
BytesExact ==
    \A pk \in DOMAIN vaults : bytesUsed[pk] = TotalBytes(Rows(pk))

\* The live-name quota holds in every state, though only a put checks it: a
\* rotation replaces every head, and a tombstone can come back to life.
LiveNamesHeld ==
    \A pk \in DOMAIN vaults : \A kind \in Kind :
        Cardinality(LiveNames(pk, kind)) <= MaxLive[kind]

\* What put_record and delete_record account for is what is stored: the run
\* of versions pruning keeps, its bytes, and the names that count as live.
StorageExact == RetainedRun /\ BytesExact /\ LiveNamesHeld

\* A version number is assigned once: while a vault lives and its generation
\* stays, no name's head disappears or goes back, and a head that moves moves
\* by exactly one.  A deleted name keeps counting from its tombstone.
VersionsAssignedOnce ==
    [][\A k \in DOMAIN heads :
          (/\ k[1] \in DOMAIN vaults'
           /\ vaults'[k[1]].generation = vaults[k[1]].generation)
          => /\ k \in DOMAIN heads'
             /\ heads'[k] # heads[k] => heads'[k].version = heads[k].version + 1]_vars

\* A rotation loses no write: when a vault's generation moves, it moves by
\* one, every version retained at that moment (not when the batch was built)
\* is stored again with its value and write time under one new name per old
\* name, nothing else is, and exactly the tokens asked for are gone.
RotationLosesNothing ==
    [][\A pk \in DOMAIN vaults \cap DOMAIN vaults' :
          vaults'[pk].generation # vaults[pk].generation =>
             /\ vaults'[pk].generation = vaults[pk].generation + 1
             /\ \E f \in [Kind -> Renaming] :
                   Rows(pk)' = {[r EXCEPT !.name = f[r.kind][r.name],
                                          !.generation = @ + 1] : r \in Rows(pk)}
             /\ TokensOf(pk)' = TokensOf(pk) \ batch.revoke]_vars

=============================================================================
