------------------------------- MODULE Signing -------------------------------
(***************************************************************************)
(* What requests, reports, vault creations, children records and audit     *)
(* rows are signed or hashed over, and who accepts them: the bytes client  *)
(* and server must agree on (proto/sig.rs, proto/frame.rs,                 *)
(* proto/children.rs, proto/audit.rs) and the checks made with them        *)
(* (server_core/auth.rs, vaults.rs, critical.rs, keys/owner.rs).           *)
(*                                                                         *)
(* Cryptography is symbolic, as in Sealing.  A signing input is the        *)
(* sequence of its lines or fields; an audit row's is its bytes, each      *)
(* field one byte wide, since there the optional fields have no fixed      *)
(* place.                                                                  *)
(***************************************************************************)
EXTENDS Sealing, Sequences

LOCAL INSTANCE SequencesExt

\* label and frame: one label per purpose, first.
frame(label, parts) == <<label>> \o parts
auth_key(t) == [sort |-> "auth", who |-> t]

-----------------------------------------------------------------------------
(***************************************************************************)
(* Requests.                                                               *)
(***************************************************************************)

\* SigActor, and SignedRequest with its preconditions; "" is an absent one.
SigActor == {<<"owner">>} \cup {<<"token", t>> : t \in Holder}
Absent == ""

\* Mutant of signing_input: the preconditions are not signed.
signing_input_bare(actor, v, ts, nonce, r) ==
    <<"gv/v1/sig", actor, r.method, r.path, [sha256 |-> r.body], v, ts, nonce>>

signing_input(actor, v, ts, nonce, r) ==
    <<"gv/v1/sig", actor, r.method, r.path, [sha256 |-> r.body], v, ts, nonce,
      r.if_match, r.if_none_match>>

\* SigParams::to_header_value: the parameters, in order.
to_header_value(p) ==
    << <<"v", "1">>, <<"actor", p.actor[1]>> >>
      \o (IF p.actor = <<"owner">> THEN <<>> ELSE << <<"token", p.actor[2]>> >>)
      \o << <<"vault", p.vault>>, <<"ts", p.ts>>, <<"nonce", p.nonce>>, <<"sig", p.sig>> >>

\* SigParams::parse: each parameter once, none unknown, and a token's id with
\* a token's signature only.
Parameters == {"v", "actor", "token", "vault", "ts", "nonce", "sig"}
parse_header(parts) ==
    LET at(k) == {i \in DOMAIN parts : parts[i][1] = k}
        val(k) == parts[CHOOSE i \in at(k) : TRUE][2]
        readable == /\ \A i \in DOMAIN parts : parts[i][1] \in Parameters
                    /\ \A k \in Parameters : Cardinality(at(k)) <= 1
                    /\ \A k \in Parameters \ {"token"} : at(k) # {}
                    /\ val("v") = "1"
                    /\ val("actor") \in {"owner", "token"}
                    /\ val("actor") = "token" <=> at("token") # {}
    IN  IF ~readable THEN Refused
        ELSE [actor |-> IF val("actor") = "owner" THEN <<"owner">> ELSE <<"token", val("token")>>,
              vault |-> val("vault"), ts |-> val("ts"), nonce |-> val("nonce"),
              sig |-> val("sig")]

\* OwnerKeys::sign_request and TokenKeys::sign_request, as Api::call sends it.
signing_key(actor, v) == IF actor = <<"owner">> THEN owner_key(v) ELSE auth_key(actor[2])
sign_request(actor, v, ts, nonce, r) ==
    [actor |-> actor, vault |-> v, ts |-> ts, nonce |-> nonce,
     sig |-> signed_by(signing_key(actor, v), signing_input(actor, v, ts, nonce, r))]

\* verify_request, within the skew.
verify_signature(public, r, p) ==
    p.sig = signed_by(public, signing_input(p.actor, p.vault, p.ts, p.nonce, r))

\* authenticate: owner_auth by the vault named, token_auth by the token's
\* row, whose vault must be the one named.  `home` is the tokens table.
authenticate(home, r, parts) ==
    LET p == parse_header(parts) IN
    /\ p # Refused
    /\ p.actor # <<"owner">> => home[p.actor[2]] = p.vault
    /\ verify_signature(signing_key(p.actor, p.vault), r, p)

\* report: possession of the token proved without sending it.
report_signing_input(t, ts) == frame("gv/v1/report", <<t, ts>>)
sign_report(t, ts) == signed_by(auth_key(t), report_signing_input(t, ts))
report_accepts(t, ts, sig) == sig = signed_by(auth_key(t), report_signing_input(t, ts))

-----------------------------------------------------------------------------
(***************************************************************************)
(* Creation of a vault.                                                    *)
(***************************************************************************)

\* CreateVaultRequest, as create_with_keys makes it.
CreateVaultRequest(v) ==
    [vault_id |-> v, owner_sign_pub |-> owner_key(v),
     descriptor |-> [descriptor |-> descriptor(v, 1),
                     sig |-> signed_by(owner_key(v), descriptor(v, 1))],
     owner_bundle |-> seal_for_scope(v, OWNER, OWNER_SCOPE, 1)]

is_first(d) == d.generation = 1

\* POST /v1/vaults: r's body is what is registered.
create_accepts(r, parts) ==
    LET p == parse_header(parts)
        v == r.body.vault_id
        public == r.body.owner_sign_pub
    IN  /\ public = owner_key(v)
        /\ p # Refused
        /\ p.actor = <<"owner">> /\ p.vault = v
        /\ verify_signature(public, r, p)
        /\ verify_for(v, public, r.body.descriptor)
        /\ is_first(r.body.descriptor.descriptor)
        /\ SignedBundle_verify(r.body.owner_bundle, v, OWNER, OWNER_SCOPE, 1)

-----------------------------------------------------------------------------
(***************************************************************************)
(* The children record.                                                    *)
(***************************************************************************)

children_signing_input(v, version, ct) == frame("gv/v1/children", <<v, version, ct>>)

seal_children(v, version, record) ==
    LET ct == seal_bytes(box_key(v, OWNER), record)
    IN  [version |-> version, ct |-> ct,
         sig |-> signed_by(owner_key(v), children_signing_input(v, version, ct))]

\* ChildrenBlob::verify, which the server asks of a put and the client of an
\* answer.
ChildrenBlob_verify(v, blob) ==
    blob.sig = signed_by(owner_key(v), children_signing_input(v, blob.version, blob.ct))

open_children(v, blob) ==
    IF ChildrenBlob_verify(v, blob) /\ blob.ct.to = box_key(v, OWNER)
    THEN blob.ct.plain ELSE Refused

-----------------------------------------------------------------------------
(***************************************************************************)
(* Audit rows.                                                             *)
(***************************************************************************)

\* AuditAction::code; 3 is unassigned.
action_code ==
    [vault_create |-> 1, vault_rotate |-> 2, vault_delete |-> 4, vault_expire |-> 5,
     children_write |-> 6, token_mint |-> 10, token_revoke |-> 11, token_report |-> 12,
     token_list |-> 13, secret_put |-> 20, secret_delete |-> 21, secret_read |-> 22,
     config_write |-> 30, config_delete |-> 31, config_read |-> 32]
result_code == [ok |-> 0, refused |-> 1]

\* opt: a byte that says whether the field is there, then the field.
NoField == 2
opt(x) == IF x = NoField THEN <<0>> ELSE <<1, x>>

\* AuditRow, and what its hash covers.  The owner is the absent actor id.
Byte == {0, 1}
Field == Byte \cup {NoField}
AuditRow == [seq : Byte, ts : Byte, actor : Field, name_hmac : Field, subject : Field,
             action : {"vault_create", "secret_read", "config_read"},
             result : {"ok", "refused"}, version : Byte, ct_hash : Field, prev : Byte]
hash_fields(row) ==
    <<row.seq, row.ts>> \o opt(row.actor) \o <<action_code[row.action]>> \o opt(row.name_hmac)
      \o <<result_code[row.result]>> \o opt(row.subject) \o <<row.version>>
      \o opt(row.ct_hash) \o <<row.prev>>
hash_input(row) == <<1>> \o hash_fields(row)

-----------------------------------------------------------------------------
(***************************************************************************)
(* Properties.                                                             *)
(***************************************************************************)

Times == {1, 2}
SentRequest ==
    [method : {"PUT"}, path : {"/v1/secrets/a", "/v1/secrets/b"}, body : {"x"},
     if_match : {Absent}, if_none_match : {Absent, "*"}]
      \cup [method : {"PUT"}, path : {"/v1/secrets/a"}, body : {"x"}, if_match : {"1"},
            if_none_match : {Absent}]
ArrivedRequest ==
    [method : {"GET", "PUT"}, path : {"/v1/secrets/a", "/v1/secrets/b"}, body : {"x", "y"},
     if_match : {Absent, "1", "2"}, if_none_match : {Absent, "*"}]

\* A header like h, with a parameter missing, twice, of another version or of
\* another kind of signer.
Misshapen(h) ==
    {RemoveAt(h, i) : i \in DOMAIN h} \cup {Append(h, h[i]) : i \in DOMAIN h}
      \cup {[h EXCEPT ![1] = <<"v", "2">>], Append(h, <<"other", "1">>)}
      \cup {Append(h, <<"token", t>>) : t \in Holder}

RequestsAsSigned(home) ==
    /\ \A actor \in SigActor, r \in SentRequest :
         LET v == IF actor = <<"owner">> THEN Asked ELSE home[actor[2]]
             p == sign_request(actor, v, 1, 1, r)
             h == to_header_value(p)
         IN  /\ \A r2 \in ArrivedRequest, a \in SigActor, w \in Place, ts, nonce \in Times :
                  LET q == [p EXCEPT !.actor = a, !.vault = w, !.ts = ts, !.nonce = nonce]
                  IN  authenticate(home, r2, to_header_value(q)) <=> r2 = r /\ q = p
             /\ authenticate(home, r, Reverse(h))
             /\ \A bad \in Misshapen(h) : ~authenticate(home, r, bad)
             /\ \A t \in Holder, ts \in Times : ~report_accepts(t, ts, p.sig)
    /\ \A t, u \in Holder, ts, ts2 \in Times :
         /\ report_accepts(u, ts2, sign_report(t, ts)) <=> u = t /\ ts2 = ts
         /\ \A r2 \in SentRequest : LET p == sign_request(<<"token", t>>, home[t], ts, 1, r2) IN
              ~authenticate(home, r2, to_header_value([p EXCEPT !.sig = sign_report(u, ts2)]))

CreatedByOwner(w) ==
    \A v, x, y, z \in Place, g, g2 \in Sealed :
        LET body == [vault_id |-> v, owner_sign_pub |-> owner_key(x),
                     descriptor |-> [descriptor |-> descriptor(y, g),
                                     sig |-> signed_by(owner_key(y), descriptor(y, g))],
                     owner_bundle |-> seal_for_scope(z, OWNER, OWNER_SCOPE, g2)]
            r == [method |-> "POST", path |-> "/v1/vaults", body |-> body, if_match |-> Absent,
                  if_none_match |-> Absent]
        IN  create_accepts(r, to_header_value(sign_request(<<"owner">>, w, 1, 1, r)))
              <=> body = CreateVaultRequest(w)

ChildrenInPlace(v) ==
    LET Blobs == {seal_children(w, n, [of |-> w, at |-> n]) : w \in Place, n \in Sealed}
    IN  \A b1, b2, b3 \in Blobs :
          LET blob == [version |-> b1.version, ct |-> b2.ct, sig |-> b3.sig]
              written == \E n \in Sealed : blob = seal_children(v, n, [of |-> v, at |-> n])
          IN  open_children(v, blob) = IF written THEN [of |-> v, at |-> blob.version] ELSE Refused

RowsApart ==
    /\ Cardinality({action_code[a] : a \in DOMAIN action_code}) = Cardinality(DOMAIN action_code)
    /\ Cardinality({hash_input(row) : row \in AuditRow}) = Cardinality(AuditRow)
=============================================================================
