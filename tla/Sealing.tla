------------------------------- MODULE Sealing -------------------------------
(***************************************************************************)
(* What is sealed and signed, and what opens it: records, their names and  *)
(* envelopes (seal/, keys/name_key.rs, proto/record.rs), the key bundles   *)
(* of owner and tokens (keys/bundle.rs), descriptors (proto/descriptor.rs) *)
(* and children records (keys/owner.rs).                                   *)
(*                                                                         *)
(* Cryptography is symbolic: a ciphertext is what it holds and the key it  *)
(* is for, a signature is what it covers and the key that made it, and a   *)
(* hash is what was hashed.  A public key is named like its secret.  The   *)
(* server may answer with anything it has stored, put together in any way, *)
(* which an answer for another place, of another time or from a damaged    *)
(* row is an instance of.                                                  *)
(***************************************************************************)
EXTENDS Integers, FiniteSets, FiniteSetsExt

CONSTANTS Place,      \* vaults
          Name,       \* names of records
          Holder,     \* tokens, each of one vault
          MaxSealed   \* bound: generations and versions

RecordKinds == {"secret", "config"}
Sealed == 1..MaxSealed
NoValue == [none |-> TRUE]
Refused == [refused |-> TRUE]

key(sort, v, g) == [sort |-> sort, vault |-> v, generation |-> g]
owner_key(v) == [sort |-> "owner", vault |-> v]
box_key(v, who) == [sort |-> "box", vault |-> v, who |-> who]
signed_by(k, what) == [by |-> k, over |-> what]

\* FullBundle::generate and FullBundle::descriptor.
KeySorts == {"name_key", "vault_secret", "config_secret", "secret_writer", "config_writer"}
descriptor(v, g) ==
    [vault_id |-> v, generation |-> g, vault_pub |-> key("vault_secret", v, g),
     config_pub |-> key("config_secret", v, g), secret_writer_pub |-> key("secret_writer", v, g),
     config_writer_pub |-> key("config_writer", v, g)]

-----------------------------------------------------------------------------
(***************************************************************************)
(* Records.                                                                *)
(***************************************************************************)

index(name_key, kind, name) == [hmac |-> name_key, kind |-> kind, name |-> name]

encrypt_name(name_key, ctx, name) == [key |-> name_key, aad |-> ctx, name |-> name]

open_name(name_key, ctx, hmac, ct) ==
    /\ ct.key = name_key
    /\ ct.aad = ctx
    /\ index(name_key, ctx.kind, ct.name) = hmac

name_ctx(d, kind) == [vault_id |-> d.vault_id, generation |-> d.generation, kind |-> kind]

\* encode_envelope and decode_envelope; an envelope holds its own place.
envelope_ctx(d, version, written_at) ==
    [vault_id |-> d.vault_id, generation |-> d.generation, version |-> version,
     written_at |-> written_at]
encode_envelope(kind, ctx, name, body) == [kind |-> kind, ctx |-> ctx, name |-> name, body |-> body]

\* seal_value and seal_config; decrypt, then check.
seal_value(to, envelope) == [to |-> to, plain |-> envelope]

open_value(secret, kind, ctx, name, ct) ==
    /\ ct.to = secret
    /\ ct.plain.kind = kind
    /\ ct.plain.ctx = ctx
    /\ ct.plain.name = name

\* Mutant of RecordContext: the version is not signed.
RecordContext_no_version(v, g, kind, hmac, version, at, tombstone, value_hash, name_hash) ==
    [vault_id |-> v, generation |-> g, kind |-> kind, name_index |-> hmac,
     version |-> 0, written_at |-> at, tombstone |-> tombstone,
     value_ct_hash |-> value_hash, name_ct_hash |-> name_hash]

RecordContext(v, g, kind, hmac, version, at, tombstone, value_hash, name_hash) ==
    [vault_id |-> v, generation |-> g, kind |-> kind, name_index |-> hmac,
     version |-> version, written_at |-> at, tombstone |-> tombstone,
     value_ct_hash |-> value_hash, name_ct_hash |-> name_hash]

value_pub(d, kind) == IF kind = "secret" THEN d.vault_pub ELSE d.config_pub
writer_pub(d, kind) == IF kind = "secret" THEN d.secret_writer_pub ELSE d.config_writer_pub

\* Writer::finish.
finish(d, name_key, kind, name, ct, version, written_at) ==
    LET hmac == index(name_key, kind, name)
        name_ct == encrypt_name(name_key, name_ctx(d, kind), name)
    IN  [name_hmac |-> hmac, name_ct |-> name_ct, value_ct |-> ct, generation |-> d.generation,
         version |-> version, written_at |-> written_at, tombstone |-> ct = NoValue,
         sig |-> signed_by(writer_pub(d, kind),
                           RecordContext(d.vault_id, d.generation, kind, hmac, version, written_at,
                                         ct = NoValue, ct, name_ct))]

\* Writer::secret and Writer::config, and Writer::tombstone.
write_record(d, name_key, kind, name, body, version, written_at) ==
    finish(d, name_key, kind, name,
           seal_value(value_pub(d, kind),
                      encode_envelope(kind, envelope_ctx(d, version, written_at), name, body)),
           version, written_at)
write_tombstone(d, name_key, kind, name, version, written_at) ==
    finish(d, name_key, kind, name, NoValue, version, written_at)

verify_version(d, kind, r) ==
    /\ r.generation = d.generation
    /\ r.tombstone = (r.value_ct = NoValue)
    /\ r.sig = signed_by(writer_pub(d, kind),
                 RecordContext(d.vault_id, r.generation, kind, r.name_hmac, r.version, r.written_at,
                               r.value_ct = NoValue, r.value_ct, r.name_ct))

verify_meta(d, kind, hmac, m) ==
    /\ m.generation = d.generation
    /\ m.sig = signed_by(writer_pub(d, kind),
                 RecordContext(d.vault_id, m.generation, kind, hmac, m.version, m.written_at,
                               m.tombstone, m.value_ct, m.name_ct))

verify_listed(d, kind, item) == verify_meta(d, kind, item.name_hmac, item)

\* Vault::fetch: the index asked for, the version if one was asked for.
Newest == 0
fetched_record(d, name_key, kind, name, version, r) ==
    /\ r.name_hmac = index(name_key, kind, name)
    /\ version = Newest \/ r.version = version
    /\ version = Newest => verify_version(d, kind, r)

\* open_secret and open_config_record.
open_record(d, name_key, secret, kind, r) ==
    IF /\ verify_version(d, kind, r)
       /\ open_name(name_key, name_ctx(d, kind), r.name_hmac, r.name_ct)
       /\ \/ r.value_ct = NoValue
          \/ open_value(secret, kind, envelope_ctx(d, r.version, r.written_at), r.name_ct.name,
                        r.value_ct)
    THEN [name |-> r.name_ct.name, version |-> r.version,
          value |-> IF r.value_ct = NoValue THEN NoValue ELSE r.value_ct.plain.body]
    ELSE Refused

-----------------------------------------------------------------------------
(***************************************************************************)
(* Bundles.                                                                *)
(***************************************************************************)

SealedScopes == {"meta", "append", "config", "config-write", "read", "admin"}
OWNER == [owner |-> TRUE]
OWNER_SCOPE == "owner"

scope_kind(scope) ==
    CASE scope = "meta" -> "names"
      [] scope \in {"admin", OWNER_SCOPE} -> "full"
      [] OTHER -> scope

\* FullBundle::for_scope, by the kind it makes.
kind_keys(kind) ==
    CASE kind = "names" -> {"name_key"}
      [] kind = "append" -> {"name_key", "secret_writer", "config_writer"}
      [] kind = "config" -> {"name_key", "config_secret"}
      [] kind = "config-write" -> {"name_key", "config_secret", "config_writer"}
      [] kind = "read" -> {"name_key", "vault_secret", "config_secret"}
      [] kind = "full" -> KeySorts

\* encode and seal_bytes.
encode(kind, v, holder, g, keys) ==
    [kind |-> kind, vault_id |-> v, token_id |-> holder, generation |-> g, keys |-> keys]
seal_bytes(box, plain) == [to |-> box, plain |-> plain]

bundle_signing_input(v, holder, scope, g, sealed) ==
    [vault_id |-> v, token_id |-> holder, scope |-> scope, generation |-> g, sealed |-> sealed]

\* seal_for_scope, and seal_owner_bundle with the owner as the holder.
seal_for_scope(v, holder, scope, g) ==
    LET kind == scope_kind(scope)
        sealed == seal_bytes(box_key(v, holder),
                             encode(kind, v, holder, g, {key(k, v, g) : k \in kind_keys(kind)}))
    IN  [sealed |-> sealed,
         sig |-> signed_by(owner_key(v), bundle_signing_input(v, holder, scope, g, sealed))]

seal_child_key(v, node) == seal_bytes(box_key(v, OWNER), encode("child", v, OWNER, 0, {node}))

SignedBundle_verify(b, v, holder, scope, g) ==
    b.sig = signed_by(owner_key(v), bundle_signing_input(v, holder, scope, g, b.sealed))

check_binding(p, v, holder, g) == p.vault_id = v /\ p.token_id = holder /\ p.generation = g

open_bundle(box, sealed, v, holder, g) ==
    /\ sealed.to = box
    /\ sealed.plain.kind # "child"
    /\ check_binding(sealed.plain, v, holder, g)

expect_scope(plain, scope) == plain.kind = scope_kind(scope)

matches(plain, d) ==
    /\ plain.generation = d.generation
    /\ \A k \in plain.keys :
         k.sort = "name_key" \/ k \in {d.vault_pub, d.config_pub, d.secret_writer_pub, d.config_writer_pub}

\* Mutant of open_token_bundle: the scope is the server's word.
open_token_bundle_any_scope(v, holder, scope, g, b) ==
    /\ \E s \in SealedScopes : SignedBundle_verify(b, v, holder, s, g)
    /\ open_bundle(box_key(v, holder), b.sealed, v, holder, g)

\* TokenKeys::open_bundle under the scope the server reports, as token_view
\* goes on with it.
open_token_bundle(v, holder, scope, g, b) ==
    /\ SignedBundle_verify(b, v, holder, scope, g)
    /\ open_bundle(box_key(v, holder), b.sealed, v, holder, g)
    /\ expect_scope(b.sealed.plain, scope)

\* OwnerKeys::open_own_bundle, as owner_view goes on with it.
open_own_bundle(v, g, b) ==
    /\ SignedBundle_verify(b, v, OWNER, OWNER_SCOPE, g)
    /\ open_bundle(box_key(v, OWNER), b.sealed, v, OWNER, g)
    /\ b.sealed.plain.kind = "full"

open_child_key(v, sealed) ==
    /\ sealed.to = box_key(v, OWNER)
    /\ sealed.plain.kind = "child"
    /\ check_binding(sealed.plain, v, OWNER, 0)

\* SignedDescriptor::verify_for: the key the server names must hash to the
\* vault's id.
verify_for(v, owner_pub, s) ==
    /\ owner_pub = owner_key(v)
    /\ s.sig = signed_by(owner_pub, s.descriptor)
    /\ s.descriptor.vault_id = v

-----------------------------------------------------------------------------
(***************************************************************************)
(* What was written, and what a server can make of it.                     *)
(***************************************************************************)

NameKeyOf(v, g) == key("name_key", v, g)
BodyOf(v, kind, name, version) == [of |-> <<v, kind, name, version>>]

\* A version and its tombstone, in every generation: rotation seals each again.
WrittenAt(v, g, kind, name) ==
    UNION {{write_record(descriptor(v, g), NameKeyOf(v, g), kind, name,
                         BodyOf(v, kind, name, n), n, n),
            write_tombstone(descriptor(v, g), NameKeyOf(v, g), kind, name, n, n)} : n \in Sealed}
Written == UNION {WrittenAt(p[1], p[2], p[3], p[4]) : p \in Place \X Sealed \X RecordKinds \X Name}

Fields == {"name_hmac", "name_ct", "value_ct", "generation", "version", "written_at", "tombstone",
           "sig"}
Mixed(r1, r2, taken) == [f \in Fields |-> IF f \in taken THEN r2[f] ELSE r1[f]]

\* Holds of every answer: a stored row with up to two fields of another.
Takes == kSubset(1, Fields) \cup kSubset(2, Fields)
OfEveryAnswer(Holds(_)) == \A r1, r2 \in Written, taken \in Takes : Holds(Mixed(r1, r2, taken))

Minted(scopes) ==
    {seal_for_scope(v, t, scopes[t], g) : v \in Place, t \in Holder, g \in Sealed}
      \cup {seal_for_scope(v, OWNER, OWNER_SCOPE, g) : v \in Place, g \in Sealed}
ChildKeys == {seal_child_key(v, [node |-> v]) : v \in Place}
ServedBundles(scopes) ==
    {[sealed |-> s, sig |-> b.sig] :
        s \in {b.sealed : b \in Minted(scopes)} \cup ChildKeys, b \in Minted(scopes)}

\* The vault asked of; the vaults are alike.
Asked == CHOOSE v \in Place : TRUE

RecordsInPlace(g, kind) ==
    LET d == descriptor(Asked, g)
        name_key == NameKeyOf(Asked, g)
        opened(r) == open_record(d, name_key, value_pub(d, kind), kind, r)
        InPlace(r) ==
          opened(r) # Refused =>
            \A name \in Name, version \in Sealed \cup {Newest} :
              fetched_record(d, name_key, kind, name, version, r) =>
                /\ r \in WrittenAt(Asked, g, kind, name)
                /\ version \in {Newest, r.version}
                /\ opened(r).value \in {NoValue, BodyOf(Asked, kind, name, r.version)}
    IN  /\ OfEveryAnswer(InPlace)
        /\ \A name \in Name, version \in Sealed \cup {Newest} :
             \A r \in WrittenAt(Asked, g, kind, name) :
               /\ fetched_record(d, name_key, kind, name, version, r)
                    <=> version \in {Newest, r.version}
               /\ opened(r) = [name |-> name, version |-> r.version,
                               value |-> IF r.tombstone THEN NoValue
                                         ELSE BodyOf(Asked, kind, name, r.version)]

ListingsInPlace(g, kind) ==
    LET d == descriptor(Asked, g)
        name_key == NameKeyOf(Asked, g)
        Same(r, w) == \A f \in Fields \ {"name_hmac"} : r[f] = w[f]
        InPlace(r) ==
          /\ \A name \in Name :
               verify_meta(d, kind, index(name_key, kind, name), r) =>
                 \E w \in WrittenAt(Asked, g, kind, name) : Same(r, w)
          /\ verify_listed(d, kind, r)
               /\ open_name(name_key, name_ctx(d, kind), r.name_hmac, r.name_ct) =>
                 r \in WrittenAt(Asked, g, kind, r.name_ct.name)
    IN  OfEveryAnswer(InPlace)

TokenBundlesInPlace(scopes) ==
    LET answers == ServedBundles(scopes)
    IN  \A t \in Holder, reported \in SealedScopes, g \in Sealed, b \in answers :
          open_token_bundle(Asked, t, reported, g, b)
            /\ matches(b.sealed.plain, descriptor(Asked, g))
          <=> reported = scopes[t] /\ b = seal_for_scope(Asked, t, scopes[t], g)

OwnersInPlace(v) ==
    LET scopes == [t \in Holder |-> "admin"]
        descriptors == {[descriptor |-> descriptor(u, g), sig |-> signed_by(owner_key(w), descriptor(w, h))] :
                           u, w \in Place, g, h \in Sealed}
    IN  /\ \A g \in Sealed, b \in ServedBundles(scopes) :
             open_own_bundle(v, g, b) <=> b = seal_for_scope(v, OWNER, OWNER_SCOPE, g)
        /\ \A s \in ChildKeys \cup {b.sealed : b \in Minted(scopes)} :
             open_child_key(v, s) <=> s = seal_child_key(v, [node |-> v])
        /\ \A w \in Place, x \in descriptors :
             verify_for(v, owner_key(w), x) <=>
               \E g \in Sealed : /\ w = v
                                 /\ x = [descriptor |-> descriptor(v, g),
                                         sig |-> signed_by(owner_key(v), descriptor(v, g))]
=============================================================================
