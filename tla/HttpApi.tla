------------------------------- MODULE HttpApi -------------------------------
(***************************************************************************)
(* The HTTP API as its two ends read it: the requests client/api.rs makes, *)
(* the routes and handlers server_core/route.rs finds for them, the        *)
(* precondition of a write, and what becomes of a refusal on its way from  *)
(* the store (server_core/error.rs, proto/api.rs) to the caller            *)
(* (client/api.rs, error.rs, vault.rs).  Tables and functions only; module *)
(* Wire says what must hold between them.                                  *)
(***************************************************************************)
EXTENDS Integers, Sequences, FiniteSets, FiniteSetsExt

CONSTANTS MaxSeen  \* bound: versions of a record in the check of preconditions

Kinds == {"secret", "config"}
TokenScopes == {"meta", "append", "read", "admin", "config", "config-write"}
Signers == {"none", "owner"} \cup TokenScopes

-----------------------------------------------------------------------------
(***************************************************************************)
(* Requests.  An operation is named by the RouteId meant to serve it.      *)
(***************************************************************************)

Index == "<name_hmac>"
Id == "<token_id>"
Version == "<version>"

records_path(kind) == IF kind = "secret" THEN <<"v1", "secrets">> ELSE <<"v1", "configs">>

\* Api's methods: what each sends, who may sign it, whether it takes a Pre.
Req(method, path, auth, pre) ==
    [method |-> method, path |-> path, auth |-> auth, pre |-> pre]

\* `auth: Auth<'_>` takes the owner's keys or a token's; &OwnerKeys and
\* &TokenKeys take one.
OwnerOrToken == {"owner"} \cup TokenScopes

vault_requests ==
    [Capabilities |-> Req("GET", <<"v1", "capabilities">>, {"none"}, FALSE),
     Challenges   |-> Req("POST", <<"v1", "challenges">>, {"none"}, FALSE),
     CreateVault  |-> Req("POST", <<"v1", "vaults">>, {"owner"}, FALSE),
     Status       |-> Req("GET", <<"v1", "vault">>, OwnerOrToken, FALSE),
     DeleteVault  |-> Req("DELETE", <<"v1", "vault">>, {"owner"}, FALSE),
     Descriptors  |-> Req("GET", <<"v1", "vault", "descriptors">>, OwnerOrToken, FALSE),
     ChildrenGet  |-> Req("GET", <<"v1", "vault", "children">>, {"owner"}, FALSE),
     ChildrenPut  |-> Req("PUT", <<"v1", "vault", "children">>, {"owner"}, TRUE),
     Rotate       |-> Req("POST", <<"v1", "vault", "rotations">>, {"owner"}, FALSE)]

token_requests ==
    [RegisterToken |-> Req("POST", <<"v1", "tokens">>, {"owner"}, FALSE),
     TokenSelf     |-> Req("GET", <<"v1", "tokens", "self">>, TokenScopes, FALSE),
     ReportToken   |-> Req("POST", <<"v1", "tokens", "report">>, {"none"}, FALSE),
     RevokeToken   |-> Req("DELETE", <<"v1", "tokens", Id>>, OwnerOrToken, FALSE),
     Audit         |-> Req("GET", <<"v1", "audit">>, OwnerOrToken, FALSE)]

record_requests(kind) ==
    LET one == Append(records_path(kind), Index) IN
    [RecordList     |-> Req("GET", records_path(kind), OwnerOrToken, FALSE),
     RecordVersions |-> Req("GET", Append(one, "versions"), OwnerOrToken, FALSE),
     RecordVersion  |-> Req("GET", one \o <<"versions", Version>>, OwnerOrToken, FALSE),
     RecordGet      |-> Req("GET", one, OwnerOrToken, FALSE),
     RecordPut      |-> Req("PUT", one, OwnerOrToken, TRUE),
     RecordDelete   |-> Req("DELETE", one, OwnerOrToken, TRUE)]

\* Every request, by the route it is for: <<RouteId, kind>>.
Requests ==
    [id \in ((DOMAIN vault_requests \cup DOMAIN token_requests) \X {"-"})
            \cup ((DOMAIN record_requests("secret")) \X Kinds) |->
        IF id[2] # "-" THEN record_requests(id[2])[id[1]]
        ELSE IF id[1] \in DOMAIN vault_requests THEN vault_requests[id[1]]
        ELSE token_requests[id[1]]]

-----------------------------------------------------------------------------
(***************************************************************************)
(* Routes.                                                                 *)
(***************************************************************************)

Holes == {"{name_hmac}", "{token_id}", "{version}"}

core(method, path, auth, id) == [method |-> method, path |-> path, auth |-> auth, id |-> id]
shell(path, id) == core("GET", path, "none", id)

VaultRoutes ==
  <<core("GET", <<"v1", "capabilities">>, "none", <<"Capabilities", "-">>),
    core("POST", <<"v1", "challenges">>, "none", <<"Challenges", "-">>),
    core("POST", <<"v1", "vaults">>, "owner", <<"CreateVault", "-">>),
    core("GET", <<"v1", "vault">>, "owner, token", <<"Status", "-">>),
    core("DELETE", <<"v1", "vault">>, "owner", <<"DeleteVault", "-">>),
    core("GET", <<"v1", "vault", "descriptors">>, "owner, token", <<"Descriptors", "-">>),
    core("GET", <<"v1", "vault", "children">>, "owner", <<"ChildrenGet", "-">>),
    core("PUT", <<"v1", "vault", "children">>, "owner", <<"ChildrenPut", "-">>),
    core("POST", <<"v1", "vault", "rotations">>, "owner", <<"Rotate", "-">>)>>

\* Mutant of TokenRoutes: the path with a hole comes first.
TokenRoutes_hole_first ==
  <<core("POST", <<"v1", "tokens">>, "owner", <<"RegisterToken", "-">>),
    core("DELETE", <<"v1", "tokens", "{token_id}">>, "owner, token", <<"RevokeToken", "-">>),
    core("GET", <<"v1", "tokens", "self">>, "token", <<"TokenSelf", "-">>),
    core("POST", <<"v1", "tokens", "report">>, "none", <<"ReportToken", "-">>),
    core("GET", <<"v1", "audit">>, "owner, token", <<"Audit", "-">>)>>

TokenRoutes ==
  <<core("POST", <<"v1", "tokens">>, "owner", <<"RegisterToken", "-">>),
    core("GET", <<"v1", "tokens", "self">>, "token", <<"TokenSelf", "-">>),
    core("POST", <<"v1", "tokens", "report">>, "none", <<"ReportToken", "-">>),
    core("DELETE", <<"v1", "tokens", "{token_id}">>, "owner, token", <<"RevokeToken", "-">>),
    core("GET", <<"v1", "audit">>, "owner, token", <<"Audit", "-">>)>>

RecordRoutes(kind) ==
    LET all == records_path(kind)
        one == Append(all, "{name_hmac}")
        r(method, path, id) == core(method, path, "owner, token", <<id, kind>>)
    IN  <<r("GET", all, "RecordList"), r("GET", one, "RecordGet"), r("PUT", one, "RecordPut"),
          r("DELETE", one, "RecordDelete"), r("GET", Append(one, "versions"), "RecordVersions"),
          r("GET", one \o <<"versions", "{version}">>, "RecordVersion")>>

ROUTES ==
    VaultRoutes \o TokenRoutes \o RecordRoutes("secret") \o RecordRoutes("config")
      \o <<shell(<<"healthz">>, <<"Healthz", "-">>), shell(<<"readyz">>, <<"Readyz", "-">>)>>

\* bind: segment by segment; a hole takes any segment that is not empty.
bind(pattern, path) ==
    /\ Len(pattern) = Len(path)
    /\ \A i \in DOMAIN path : IF pattern[i] \in Holes THEN path[i] # "" ELSE pattern[i] = path[i]

params(pattern, path) == [i \in {j \in DOMAIN path : pattern[j] \in Holes} |-> path[i]]

\* lookup: the first path that binds decides, then the method among its routes.
NoRoute == [id |-> <<"not_found", "-">>]
NoMethod == [id |-> <<"method_not_allowed", "-">>]
lookup(method, path) ==
    LET bound == {i \in DOMAIN ROUTES : bind(ROUTES[i].path, path)}
        first == ROUTES[Min(bound)].path
        answering == {i \in DOMAIN ROUTES : ROUTES[i].path = first /\ ROUTES[i].method = method}
    IN  CASE bound = {} -> NoRoute
          [] bound # {} /\ answering = {} -> NoMethod
          [] OTHER -> ROUTES[Min(answering)]

\* AuthScheme, as the route table declares it.
declared(scheme) ==
    CASE scheme = "none" -> Signers
      [] scheme = "owner" -> {"owner"}
      [] scheme = "token" -> TokenScopes
      [] scheme = "owner, token" -> OwnerOrToken

\* dispatch: who gets past the checks of the route's handler.
writers(kind) == IF kind = "secret" THEN {"append", "admin"} ELSE {"append", "admin", "config-write"}
readers(kind) ==
    IF kind = "secret" THEN {"read", "admin"} ELSE {"read", "admin", "config", "config-write"}

dispatch(id) ==
    CASE id[1] \in {"Capabilities", "Challenges", "ReportToken"} -> Signers
      [] id[1] \in {"Status", "Descriptors", "Audit", "RecordList", "RecordVersions"} -> OwnerOrToken
      [] id[1] \in {"CreateVault", "DeleteVault", "ChildrenGet", "ChildrenPut", "Rotate",
                    "RegisterToken"} -> {"owner"}
      [] id[1] = "TokenSelf" -> TokenScopes
      [] id[1] = "RevokeToken" -> {"owner", "admin"}
      [] id[1] \in {"RecordGet", "RecordVersion"} -> {"owner"} \cup readers(id[2])
      [] id[1] \in {"RecordPut", "RecordDelete"} -> {"owner"} \cup writers(id[2])
      [] OTHER -> {}

\* The request meant for route id.
ClientFindsRoute(id) ==
    LET req == Requests[id]
        route == lookup(req.method, req.path)
    IN  /\ route.id = id
        /\ params(route.path, req.path) = [i \in {j \in DOMAIN req.path :
               req.path[j] \in {Index, Id, Version}} |-> req.path[i]]
        /\ req.auth \subseteq declared(route.auth)

\* One row of the table, of the core's routes.
CoreRoutes == {i \in DOMAIN ROUTES : ROUTES[i].id[1] \notin {"Healthz", "Readyz"}}
DeclaredAsHandled(i) ==
    LET let_in == dispatch(ROUTES[i].id)
        says == declared(ROUTES[i].auth)
    IN  /\ ROUTES[i].id \in DOMAIN Requests
        /\ let_in \subseteq says
        /\ "owner" \in says => "owner" \in let_in
        /\ says \cap TokenScopes # {} => let_in \cap TokenScopes # {}

-----------------------------------------------------------------------------
(***************************************************************************)
(* Refusals: from the store's or a handler's error to the kind the caller  *)
(* sees.                                                                   *)
(***************************************************************************)

\* ErrorCode::status.
status_codes ==
  [s \in {400, 401, 403, 404, 409, 412, 413, 422, 428, 429, 500, 503} |->
    CASE s = 400 -> {"invalid_request", "credential_in_query", "challenge_expired",
                     "invalid_proof_of_work"}
      [] s = 401 -> {"unauthorized", "token_expired"}
      [] s = 403 -> {"forbidden"}
      [] s = 404 -> {"not_found"}
      [] s = 409 -> {"conflict", "stale_generation", "challenge_reused", "version_mismatch",
                     "version_rollback", "generation_rollback"}
      [] s = 412 -> {"precondition_failed"}
      [] s = 413 -> {"value_too_large", "config_too_large"}
      [] s = 422 -> {"vault_id_mismatch", "not_age_ciphertext", "incomplete_rotation",
                     "ttl_too_long", "vault_quota_exceeded", "name_quota_exceeded",
                     "token_quota_exceeded", "config_quota_exceeded", "bad_signature",
                     "key_mismatch"}
      [] s = 428 -> {"precondition_required"}
      [] s = 429 -> {"rate_limited"}
      [] s = 500 -> {"internal"}
      [] s = 503 -> {"unavailable"}]
ErrorCodes == UNION {status_codes[s] : s \in DOMAIN status_codes}
status(code) == CHOOSE s \in DOMAIN status_codes : code \in status_codes[s]

\* ErrorCode::retry.
retry(code) ==
    CASE code \in {"rate_limited", "unavailable", "internal"} -> "yes"
      [] code \in {"conflict", "stale_generation", "challenge_reused", "challenge_expired",
                   "precondition_failed", "version_mismatch"} -> "refresh"
      [] OTHER -> "no"

\* From<StoreError> for CoreError.
store_code ==
    [NotFound |-> "not_found", Exists |-> "conflict", Conflict |-> "conflict",
     PreconditionFailed |-> "precondition_failed", VersionMismatch |-> "version_mismatch",
     StaleGeneration |-> "stale_generation", IncompleteRotation |-> "incomplete_rotation",
     QuotaNames |-> "name_quota_exceeded", QuotaValueSize |-> "value_too_large",
     QuotaVaultBytes |-> "vault_quota_exceeded", QuotaTokens |-> "token_quota_exceeded",
     QuotaConfigs |-> "config_quota_exceeded", QuotaConfigSize |-> "config_too_large",
     Spent |-> "challenge_reused", Journal |-> "unavailable", Database |-> "internal"]

\* From<IntegrityError> for CoreError.
integrity_code(e) ==
    CASE e = "KeyMismatch" -> "key_mismatch"
      [] e = "Malformed" -> "invalid_request"
      [] OTHER -> "bad_signature"

\* What Api::call makes of an answer: refusal keeps the code's string whether
\* this build parses it or not; a redirect never gets past the transport.
Unnamed == "http_<status>"
refusal(s, code, known) == [status |-> s, code |-> code, parsed |-> code \in known]
send(s, code, known) ==
    IF s \in 300..399 THEN [status |-> 0, code |-> "unreachable", parsed |-> FALSE]
    ELSE refusal(s, code, known)

\* Mutant of kind_of_protocol: the signing version's mismatch is left out.
kind_of_protocol_no_mismatch(code) ==
    CASE code \in {"unauthorized", "token_expired"} -> "auth"
      [] code = "forbidden" -> "forbidden"
      [] code = "not_found" -> "not_found"
      [] code \in {"precondition_failed", "conflict", "stale_generation"} -> "conflict"
      [] code \in {"bad_signature", "key_mismatch", "version_rollback", "generation_rollback"} ->
           "integrity"
      [] OTHER -> "other"

kind_of_protocol(code) ==
    CASE code \in {"unauthorized", "token_expired"} -> "auth"
      [] code = "forbidden" -> "forbidden"
      [] code = "not_found" -> "not_found"
      [] code \in {"precondition_failed", "conflict", "stale_generation", "version_mismatch"} ->
           "conflict"
      [] code \in {"bad_signature", "key_mismatch", "version_rollback", "generation_rollback"} ->
           "integrity"
      [] OTHER -> "other"

kind_of_status(s) ==
    CASE s = 401 -> "auth"
      [] s = 403 -> "forbidden"
      [] s = 404 -> "not_found"
      [] s \in {409, 412} -> "conflict"
      [] OTHER -> "other"

\* kind_of: a code this client does not parse is none of the protocol's; of
\* the client's own codes the ones a refusal can come to.
kind_of(e) ==
    CASE e.code = "unreachable" -> "transport"
      [] e.code \in {"binding_mismatch", "audit_mismatch"} -> "integrity"
      [] e.code # "unreachable" /\ e.parsed -> kind_of_protocol(e.code)
      [] OTHER -> "other"

\* Error::api, then Error::kind of what it made: only an Error::Server with a
\* code this client does not know is judged by its status.
api_kind(e) == IF kind_of(e) = "other" /\ ~e.parsed THEN kind_of_status(e.status) ELSE kind_of(e)

Says(code) == [status |-> status(code), code |-> code, parsed |-> TRUE]
parsed_as(e, codes) == e.parsed /\ e.code \in codes

owner_error(e) == IF parsed_as(e, {"unauthorized"}) THEN api_kind(Says("not_found")) ELSE api_kind(e)

token_refused(e) == IF parsed_as(e, {"unauthorized", "token_expired"}) THEN kind_of(e) ELSE api_kind(e)

\* moved_on: a miss is checked against the vault's generation first.
moved_on(e, moved) ==
    IF parsed_as(e, {"not_found"}) /\ moved THEN api_kind(Says("stale_generation")) ELSE api_kind(e)

send_write(e) ==
    IF parsed_as(e, {"precondition_failed", "version_mismatch"}) THEN api_kind(Says("conflict"))
    ELSE api_kind(e)

Sites == {"owner", "open_token", "fetch", "write", "other"}
surfaced(site, e, moved) ==
    CASE site = "owner" -> owner_error(e)
      [] site = "open_token" -> token_refused(e)
      [] site = "fetch" -> moved_on(e, moved)
      [] site = "write" -> send_write(e)
      [] OTHER -> api_kind(e)

\* What this client's own checks raise: IntegrityFailure::code.
failure_code ==
    [BadSignature |-> "bad_signature", KeyMismatch |-> "key_mismatch",
     BindingMismatch |-> "binding_mismatch", Malformed |-> "binding_mismatch",
     VersionRollback |-> "version_rollback", GenerationRollback |-> "generation_rollback"]

\* What the store refuses because another write came first.
LostRaces == {"PreconditionFailed", "VersionMismatch", "StaleGeneration", "Conflict", "Exists"}
LostRaceConflicts(e) ==
    \A site \in Sites, known \in {{}, ErrorCodes}, moved \in BOOLEAN :
        LET code == store_code[e]
        IN  surfaced(site, send(status(code), code, known), moved) = "conflict"

KindsAgree(code) ==
    \A site \in Sites, moved \in BOOLEAN :
        LET newer == surfaced(site, send(status(code), code, ErrorCodes), moved)
            older == surfaced(site, send(status(code), code, ErrorCodes \ {code}), moved)
            missed == site = "fetch" /\ code = "not_found" /\ moved
            unknown_vault == site = "owner" /\ code = "unauthorized"
        IN  /\ newer = "conflict" => missed \/ retry(code) = "refresh"
            /\ newer \in {"auth", "forbidden", "not_found", "integrity"} => retry(code) = "no"
            /\ newer = "not_found" => code = "not_found" \/ unknown_vault
            /\ \/ newer = older \/ missed \/ unknown_vault
               \/ kind_of_protocol(code) = "integrity" \/ code = "challenge_reused"
            /\ surfaced(site, send(307, code, ErrorCodes), moved) = "transport"

OwnCheckIntegrity(e) ==
    /\ integrity_code(e) \in ErrorCodes
    /\ kind_of([status |-> 0, code |-> failure_code[e], parsed |-> failure_code[e] \in ErrorCodes])
         = "integrity"

-----------------------------------------------------------------------------
(***************************************************************************)
(* Preconditions.  A record's latest version as one side knows it; version *)
(* 0 is a record that never was.                                           *)
(***************************************************************************)

Never == [version |-> 0, tombstone |-> FALSE]
Live(v) == [version |-> v, tombstone |-> FALSE]
Latest == {Never} \cup {Live(v) : v \in 1..MaxSeen}
          \cup {[version |-> v, tombstone |-> TRUE] : v \in 2..MaxSeen}

after(latest) ==
    [pre |-> IF latest = Never THEN "Create" ELSE IF latest.tombstone THEN "Revive" ELSE "Update",
     v |-> latest.version]

next_version(pre) == IF pre.pre = "Create" THEN 1 ELSE pre.v + 1

\* Mutant of header: a revival is sent as an update of the tombstone.
header_matches_tombstone(pre) ==
    IF pre.pre = "Create" THEN [name |-> "if-none-match", value |-> "*"]
    ELSE [name |-> "if-match", value |-> pre.v]

header(pre) ==
    IF pre.pre \in {"Create", "Revive"} THEN [name |-> "if-none-match", value |-> "*"]
    ELSE [name |-> "if-match", value |-> pre.v]

\* The store's answer to a put under one header, signing one version.
put_answer(sent, signing, head) ==
    LET matches == IF sent.name = "if-none-match" THEN head = Never \/ head.tombstone
                   ELSE head # Never /\ ~head.tombstone /\ head.version = sent.value
    IN  CASE ~matches -> "PreconditionFailed"
          [] matches /\ signing # head.version + 1 -> "VersionMismatch"
          [] OTHER -> "ok"

\* delete takes If-Match only, and looks for a live record first.
delete_answer(if_match, signing, head) ==
    LET live == head # Never /\ ~head.tombstone
    IN  CASE ~live -> "NotFound"
          [] live /\ if_match # head.version -> "PreconditionFailed"
          [] live /\ if_match = head.version /\ signing # head.version + 1 -> "VersionMismatch"
          [] OTHER -> "ok"

\* put_children: the same, for a record that is never deleted.
children_answer(sent, signing, head) ==
    LET matches == IF sent.name = "if-none-match" THEN head = Never
                   ELSE head # Never /\ head.version = sent.value
    IN  CASE ~matches -> "PreconditionFailed"
          [] matches /\ signing # head.version + 1 -> "VersionMismatch"
          [] OTHER -> "ok"

\* A write built on `seen` meets `head`.
PutLands(seen, head) ==
    LET answer == put_answer(header(after(seen)), next_version(after(seen)), head)
    IN  IF seen = head THEN answer = "ok"
        ELSE answer # "ok" /\ surfaced("write", Says(store_code[answer]), FALSE) = "conflict"

DeleteLands(seen, head) ==
    LET answer == delete_answer(header(after(seen)).value, next_version(after(seen)), head)
    IN  IF seen = head THEN answer = "ok"
        ELSE /\ answer # "ok"
             /\ surfaced("write", Says(store_code[answer]), FALSE) =
                  IF head = Never \/ head.tombstone THEN "not_found" ELSE "conflict"

ChildrenLand(seen, head) ==
    (children_answer(header(after(seen)), next_version(after(seen)), head) = "ok") <=> seen = head
=============================================================================
