----------------------------- MODULE TokenAccess -----------------------------
(***************************************************************************)
(* Access tokens: how the owner mints, revokes and carries them through a  *)
(* rotation (owner/env.rs, vault.rs, seal/rotation.rs), how the server     *)
(* authenticates them and enforces their scope (server_core/auth.rs,       *)
(* tokens.rs, records.rs, backend/sqlite.rs), and how their holders, SDK   *)
(* handles (token.rs) and MCP servers (mcp/env.rs), keep a view of the     *)
(* vault that a rotation makes stale.                                      *)
(*                                                                         *)
(* Keys are symbols <<kind, generation>>: a sealed bundle is the set of    *)
(* keys it holds, and only the token it is sealed to learns them.  A       *)
(* record is at one index per generation, Hmac[name][generation].  A       *)
(* request takes the steps between which the store can change: the read of *)
(* the token's row, the read of its vault's row, and the handler.          *)
(***************************************************************************)
EXTENDS Integers, FiniteSets

CONSTANTS Tokens,    \* token ids the owner may mint
          Handles,   \* handles the owner has opened, on any machine
          Workloads, \* which of them act in a behaviour, and how
          Secrets,   \* names of secrets
          Configs,   \* names of configs
          Hmac,      \* name -> generation -> its index: NameKey::index
          Page,      \* records in one page of a listing
          Tries,     \* how often Handle::rotate builds its batch
          MaxGen,    \* bound: generations
          MaxWrite   \* bound: writes accepted

KIND == [meta |-> {"name"},
         append |-> {"name", "secret_writer", "config_writer"},
         config |-> {"name", "config"},
         config_write |-> {"name", "config", "config_writer"},
         read |-> {"name", "vault", "config"},
         admin |-> {"name", "vault", "config", "secret_writer", "config_writer"}]

Names == Secrets \cup Configs

\* A workload: the owner handles at work, what the others do, the tokens and
\* their scopes, and how each holder uses its token.
Ops == {"open", "read", "write", "revoke", "list"}
Others == {"revoke", "report", "expire"}

ASSUME TokenAccessAssumption ==
    /\ \A w \in Workloads :
         /\ w.handles \subseteq Handles /\ w.others \subseteq Others
         /\ w.gens \in 1..MaxGen
         /\ DOMAIN w.scope \subseteq Tokens
         /\ \A t \in DOMAIN w.scope :
              /\ w.scope[t] \in DOMAIN KIND /\ w.ops[t] \subseteq Ops
              /\ w.by[t] \in {"sdk", "mcp"} /\ w.only[t] \subseteq Secrets
    /\ Secrets \cap Configs = {} /\ IsFiniteSet(Secrets)
    /\ {Page, Tries, MaxGen} \subseteq Nat \ {0} /\ MaxWrite \in Nat
    /\ Hmac \in [Names -> [1..MaxGen -> Nat \ {0}]]
    /\ \A m, n \in Names, g, i \in 1..MaxGen :
           Hmac[m][g] = Hmac[n][i] => m = n /\ g = i

VARIABLES
    plan,    \* the workload of this behaviour
    vault,   \* the vault's row: gen, rev, and how often each name was written
    row,     \* the token rows: at, scope, the bundle's gen and keys, allow
    expired, \* tokens whose expires_at has passed
    own,     \* per owner handle: its view, the token list it opened with, its rotation
    hold,    \* per token: its holder's view, the request in progress, and the
             \* rows the server read for it
    known,   \* ghost: every key the holder was ever sent
    opened,  \* ghost: the <<name, generation>> whose values it was served
    wrote,   \* ghost: the generations in which a write of its was accepted
    granted, \* ghost: the names it was minted for
    cut,     \* ghost: the first generation after its revocation (0: not revoked)
    acked    \* ghost: the last write of each name that was acknowledged

ghosts == <<known, opened, wrote, granted, cut>>
vars == <<plan, vault, row, expired, own, hold, ghosts, acked>>

NoRow == [at |-> "new", scope |-> "none", gen |-> 0, keys |-> {}, allow |-> {}]
NoView == [gen |-> 0, keys |-> {}, allow |-> {}]
NoCall == [op |-> "none"]
Unseen == [row |-> NoRow, gen |-> 0]
Shut == [at |-> "closed", by |-> "sdk", view |-> NoView, call |-> NoCall, seen |-> Unseen,
         listed |-> "none"]
NoRotation == [at |-> "idle", revoke |-> {}, rev |-> 0, tokens |-> {},
               sent |-> [n \in Names |-> 0], left |-> 0]

Init ==
    /\ plan \in Workloads
    /\ vault = [gen |-> 1, rev |-> 1, val |-> [n \in Names |-> 0]]
    /\ row = [t \in Tokens |-> NoRow]
    /\ expired = {}
    /\ own = [o \in Handles |-> [view |-> 0, list |-> {}, job |-> NoRotation]]
    /\ hold = [t \in Tokens |-> Shut]
    /\ known = [t \in Tokens |-> {}]
    /\ opened = [t \in Tokens |-> {}]
    /\ wrote = [t \in Tokens |-> {}]
    /\ granted = [t \in Tokens |-> {}]
    /\ cut = [t \in Tokens |-> 0]
    /\ acked = vault.val

Registered == {t \in Tokens : row[t].at = "live"}

-----------------------------------------------------------------------------
(***************************************************************************)
(* Keys and scopes.                                                        *)
(***************************************************************************)

\* FullBundle::for_scope, and the sealed bundle the token is given.
for_scope_full(scope) == KIND["admin"]
for_scope(scope) == KIND[scope]
seal_for_scope(scope, gen) == for_scope(scope) \X {gen}

\* Caller::can: what the server lets a scope do.
can_read(scope, n) ==
    scope \in IF n \in Secrets THEN {"read", "admin"}
              ELSE {"read", "admin", "config", "config_write"}
can_write(scope, n) ==
    scope \in IF n \in Secrets THEN {"append", "admin"}
              ELSE {"append", "admin", "config_write"}
can_manage(scope) == scope = "admin"

\* The keys a client needs: vault_secret or config_secret, and writer.
value_key(n) == IF n \in Secrets THEN "vault" ELSE "config"
writer(n) == IF n \in Secrets THEN "secret_writer" ELSE "config_writer"

\* Caller::allows_name, and the holder's copy of the same check.
AllowAll == {0}
allows_name_any(list, n, gen) == TRUE
allows_name(list, n, gen) == list = AllowAll \/ n \notin Secrets \/ Hmac[n][gen] \in list

-----------------------------------------------------------------------------
(***************************************************************************)
(* The owner.                                                              *)
(***************************************************************************)

\* Owner::environment: owner_view checks that the bundle and the descriptor
\* of the status are one generation's; the status also lists the tokens.
open_owner(o) ==
    /\ own[o].job.at = "idle"
    /\ own' = [own EXCEPT ![o].view = vault.gen, ![o].list = Registered]
    /\ UNCHANGED <<vault, row, expired, hold, ghosts, acked>>

\* Environment::mint, Handle::mint, and the server's register_token, which
\* refuses a bundle of another generation than the vault's.
mint(o, t, scope, only) ==
    LET g == own[o].view IN
    /\ g # 0 /\ own[o].job.at = "idle" /\ row[t].at = "new"
    /\ only # {} => scope = "read"
    /\ g = vault.gen
    /\ row' = [row EXCEPT ![t] =
                 [at |-> "live", scope |-> scope, gen |-> g, keys |-> seal_for_scope(scope, g),
                  allow |-> IF only = {} THEN AllowAll ELSE {Hmac[n][g] : n \in only}]]
    /\ vault' = [vault EXCEPT !.rev = @ + 1]
    /\ granted' = [granted EXCEPT ![t] = IF only = {} THEN Secrets ELSE only]
    /\ UNCHANGED <<expired, own, hold, known, opened, wrote, cut, acked>>

\* delete_tokens, for a revocation that does not rotate: revoke_tokens.
delete_tokens(t) ==
    /\ row[t].at = "live"
    /\ row' = [row EXCEPT ![t] = [NoRow EXCEPT !.at = "gone"]]
    /\ vault' = [vault EXCEPT !.rev = @ + 1]
    /\ cut' = [cut EXCEPT ![t] = vault.gen + 1]
    /\ UNCHANGED <<known, opened, wrote, granted>>

\* Environment::revoke without --rotate: a token listed when it was opened.
revoke(o, t) ==
    /\ own[o].job.at = "idle" /\ t \in own[o].list
    /\ delete_tokens(t)
    /\ UNCHANGED <<expired, own, hold, acked>>

\* POST /v1/tokens/report: whoever holds the token string proves it.
report_leaked_token(t) ==
    /\ delete_tokens(t)
    /\ UNCHANGED <<expired, own, hold, acked>>

\* Handle::rotate: the status it starts a try from.
Rotating(o, job) == own' = [own EXCEPT ![o].job = job]
Tried(o) == IF own[o].job.left = 1 THEN NoRotation
            ELSE [own[o].job EXCEPT !.at = "status", !.left = @ - 1]

rotate(o, ids) ==
    /\ own[o].view # 0 /\ own[o].job.at = "idle" /\ ids \subseteq own[o].list
    /\ Cardinality(ids) < 2 /\ vault.gen < plan.gens
    /\ Rotating(o, [NoRotation EXCEPT !.at = "status", !.revoke = ids, !.left = Tries])
    /\ UNCHANGED <<vault, row, expired, hold, ghosts, acked>>

rotate_status(o) ==
    LET job == own[o].job IN
    /\ job.at = "status"
    /\ Rotating(o, IF own[o].view # vault.gen THEN NoRotation
                   ELSE [job EXCEPT !.at = "gather", !.rev = vault.rev, !.tokens = Registered])
    /\ UNCHANGED <<vault, row, expired, hold, ghosts, acked>>

\* all_versions: every retained version.  Another rotation since the status
\* leaves this handle's indexes unknown, so it builds again or gives up.  A
\* token to revoke that is gone is refused by build_rotation.
all_versions(o) ==
    LET job == own[o].job IN
    /\ job.at = "gather"
    /\ \/ /\ vault.gen = own[o].view
          /\ Rotating(o, IF job.revoke \subseteq job.tokens
                         THEN [job EXCEPT !.at = "send", !.sent = vault.val]
                         ELSE NoRotation)
       \/ /\ vault.gen # own[o].view
          /\ \E next \in {Tried(o), NoRotation} : Rotating(o, next)
    /\ UNCHANGED <<vault, row, expired, hold, ghosts, acked>>

\* The store's checks on a batch: sqlite.rs rotate, strict.
strict_generation_only(o) == vault.gen = own[o].view
strict(o) ==
    /\ vault.gen = own[o].view /\ vault.rev = own[o].job.rev
    /\ own[o].job.revoke \subseteq Registered
    /\ own[o].job.tokens = Registered

\* build_rotation's batch applied: the records as they were gathered, every
\* survivor's bundle sealed again for its scope, and the revoked dropped.  An
\* allow-list keeps the indexes it was minted with.
send_rotation(o) ==
    LET job == own[o].job
        g == own[o].view + 1
        drop == job.revoke \cap Registered
    IN
    /\ job.at = "send"
    /\ \/ /\ strict(o)
          /\ vault' = [gen |-> g, rev |-> vault.rev + 1, val |-> job.sent]
          /\ row' = [t \in Tokens |->
                        IF t \in drop THEN [NoRow EXCEPT !.at = "gone"]
                        ELSE IF t \in job.tokens \cap Registered
                        THEN [row[t] EXCEPT !.gen = g, !.keys = seal_for_scope(row[t].scope, g)]
                        ELSE row[t]]
          /\ cut' = [t \in Tokens |-> IF t \in drop THEN g ELSE cut[t]]
          /\ Rotating(o, NoRotation)
       \/ /\ ~strict(o)
          /\ Rotating(o, Tried(o))
          /\ UNCHANGED <<vault, row, cut>>
    /\ UNCHANGED <<expired, hold, known, opened, wrote, granted, acked>>

expire(t) ==
    /\ row[t].at = "live" /\ t \notin expired
    /\ expired' = expired \cup {t}
    /\ UNCHANGED <<vault, row, own, hold, ghosts, acked>>

-----------------------------------------------------------------------------
(***************************************************************************)
(* A request of the token's holder.  It begins with token_auth: the        *)
(* token's row, then the vault's.                                          *)
(***************************************************************************)

Calls(t, call) ==
    hold' = [hold EXCEPT ![t].at = "row", ![t].call = call, ![t].seen = [row |-> row[t], gen |-> 0]]
Ends(t, out) ==
    hold' = [hold EXCEPT ![t].at = IF hold[t].view.gen = 0 THEN "closed" ELSE "idle",
                         ![t].call = NoCall, ![t].seen = Unseen, ![t].listed = out]

Returns(t) == Ends(t, hold[t].listed)

\* token_by_id: an unknown token is unauthorized, and nothing changes.
token_by_id(t, call) ==
    /\ row[t].at = "live"
    /\ Calls(t, call)
    /\ UNCHANGED <<vault, row, expired, own, ghosts, acked>>

\* vault_by_pk: the vault as the handler will see it; an expired token stops.
vault_by_pk(t) ==
    /\ hold[t].at = "row"
    /\ IF t \in expired THEN Returns(t)
       ELSE hold' = [hold EXCEPT ![t].at = "handler", ![t].seen.gen = vault.gen]
    /\ UNCHANGED <<vault, row, expired, own, ghosts, acked>>

Handling(t, op) == hold[t].at = "handler" /\ hold[t].call.op = op

\* Vault::open and Vault::refresh, Env::open and Env::reload.
token_self(t, by) ==
    /\ hold[t].at \in {"closed", "idle"}
    /\ hold[t].at = "idle" => by = hold[t].by
    /\ token_by_id(t, [op |-> "self", by |-> by, after |-> NoCall])

\* token_view, and verify_self: the bundle must be of the descriptor's
\* generation and of the scope's kind; an MCP server takes only meta tokens.
token_view_unpaired(r, gen, by) == by = "mcp" => r.scope = "meta"
token_view(r, gen, by) ==
    /\ r.gen = gen
    /\ r.keys = seal_for_scope(r.scope, gen)
    /\ by = "mcp" => r.scope = "meta"

\* GET /v1/tokens/self answered: the row and the descriptor, as they were
\* read.  The handle adopts them together or not at all; a names() call that
\* reloaded then lists again.
whoami(t) ==
    LET c == hold[t].call
        r == hold[t].seen.row
        g == hold[t].seen.gen
    IN
    /\ Handling(t, "self")
    /\ known' = [known EXCEPT ![t] = @ \cup r.keys]
    /\ IF token_view(r, g, c.by) /\ g >= hold[t].view.gen
       THEN hold' = [hold EXCEPT ![t].at = "idle", ![t].by = c.by, ![t].call = c.after,
                                 ![t].view = [gen |-> g, keys |-> r.keys, allow |-> r.allow],
                                 ![t].seen = Unseen, ![t].listed = "none"]
       ELSE Returns(t)
    /\ UNCHANGED <<vault, row, expired, own, opened, wrote, granted, cut, acked>>

Free(t) == hold[t].at = "idle" /\ hold[t].call = NoCall
Holds(t, kind) == <<kind, hold[t].view.gen>> \in hold[t].view.keys

\* Handle::get and get_config, which need the kind's key.  Vault::read asks
\* may_read before; the server does not rely on that.
get(t, n) ==
    /\ Free(t) /\ hold[t].by = "sdk" /\ Holds(t, value_key(n))
    /\ token_by_id(t, [op |-> "read", name |-> n])

\* records.rs read: the scope, the allow-list by index, and the record at
\* that index, which is there only in the generation the index is of.
read(t) ==
    LET c == hold[t].call
        r == hold[t].seen.row
        g == hold[t].view.gen
        may == can_read(r.scope, c.name) /\ allows_name(r.allow, c.name, g)
    IN
    /\ Handling(t, "read")
    /\ opened' = [opened EXCEPT ![t] =
                    IF may /\ vault.gen = g THEN @ \cup {<<c.name, g>>} ELSE @]
    /\ Returns(t)
    /\ UNCHANGED <<vault, row, expired, own, known, wrote, granted, cut, acked>>

\* write_value and write_tombstone: sealed and signed for the view.
write_value(t, n) ==
    /\ Free(t) /\ hold[t].by = "sdk" /\ Holds(t, writer(n))
    /\ token_by_id(t, [op |-> "write", name |-> n])

\* check_signed compares with the vault row of the authentication; put_record
\* compares again, in its transaction.
put_record_unchecked(gen) == TRUE
put_record(gen) == gen = vault.gen

put(t) ==
    LET c == hold[t].call
        r == hold[t].seen.row
        g == hold[t].view.gen
        taken == can_write(r.scope, c.name) /\ g = hold[t].seen.gen /\ put_record(g)
    IN
    /\ Handling(t, "write")
    /\ \/ /\ taken
          /\ acked[c.name] < MaxWrite
          /\ vault' = [vault EXCEPT !.val[c.name] = @ + 1, !.rev = @ + 1]
          /\ acked' = [acked EXCEPT ![c.name] = vault.val[c.name] + 1]
          /\ wrote' = [wrote EXCEPT ![t] = @ \cup {vault.gen}]
          /\ Returns(t)
       \/ /\ ~taken
          /\ Returns(t)
          /\ UNCHANGED <<vault, acked, wrote>>
    /\ UNCHANGED <<row, expired, own, known, opened, granted, cut>>

\* Vault::revoke, for an admin token.
revoke_by_token(t, u) ==
    /\ Free(t) /\ hold[t].by = "sdk" /\ Holds(t, "vault") /\ Holds(t, "secret_writer")
    /\ u \in Registered
    /\ token_by_id(t, [op |-> "revoke", token |-> u])

revoke_token(t) ==
    LET u == hold[t].call.token
        scope == hold[t].seen.row.scope
    IN
    /\ Handling(t, "revoke")
    /\ \/ /\ can_manage(scope) /\ delete_tokens(u)
          /\ Returns(t)
       \/ /\ ~(can_manage(scope) /\ row[u].at = "live")
          /\ Returns(t)
          /\ UNCHANGED <<vault, row, ghosts>>
    /\ UNCHANGED <<expired, own, acked>>

\* list_kind and try_names: the pages of a listing, by index.  `again` is an
\* MCP server's second attempt.
Listing(after, got, again) == [op |-> "list", after |-> after, got |-> got, again |-> again]

list_secrets(t) ==
    /\ Free(t)
    /\ token_by_id(t, Listing(0, {}, FALSE))

next_page(t) ==
    /\ hold[t].at = "idle" /\ hold[t].call.op = "list"
    /\ IF row[t].at = "live" THEN Calls(t, hold[t].call) ELSE Returns(t)
    /\ UNCHANGED <<vault, row, expired, own, ghosts, acked>>

Beyond(after) == {n \in Secrets : Hmac[n][vault.gen] > after}
page(after) ==
    {n \in Beyond(after) :
        Cardinality({m \in Beyond(after) : Hmac[m][vault.gen] < Hmac[n][vault.gen]}) < Page}

\* An item of another generation than the view's is stale: an MCP server
\* reloads its view and lists once more.
list(t) ==
    LET c == hold[t].call
        rows == page(c.after)
        stale == rows # {} /\ vault.gen # hold[t].view.gen
        last == CHOOSE n \in rows : \A m \in rows : Hmac[m][vault.gen] <= Hmac[n][vault.gen]
    IN
    /\ Handling(t, "list")
    /\ CASE stale /\ hold[t].by = "mcp" /\ ~c.again /\ row[t].at = "live" ->
              Calls(t, [op |-> "self", by |-> "mcp", after |-> Listing(0, {}, TRUE)])
         [] stale /\ ~(hold[t].by = "mcp" /\ ~c.again /\ row[t].at = "live") ->
              Returns(t)
         [] ~stale /\ Cardinality(rows) = Page ->
              hold' = [hold EXCEPT ![t].at = "idle", ![t].seen = Unseen,
                         ![t].call = Listing(Hmac[last][vault.gen], c.got \cup rows, c.again)]
         [] OTHER -> Ends(t, IF c.got \cup rows = Secrets THEN "whole" ELSE "part")
    /\ UNCHANGED <<vault, row, expired, own, ghosts, acked>>

-----------------------------------------------------------------------------
Owner(o) ==
    \/ open_owner(o)
    \/ \E t \in DOMAIN plan.scope : mint(o, t, plan.scope[t], plan.only[t])
    \/ "revoke" \in plan.others /\ \E t \in Tokens : revoke(o, t)
    \/ \E ids \in SUBSET Tokens : rotate(o, ids)
    \/ rotate_status(o) \/ all_versions(o) \/ send_rotation(o)

Holder(t) ==
    \/ "open" \in plan.ops[t] /\ token_self(t, plan.by[t])
    \/ \E n \in Names :
         \/ "read" \in plan.ops[t] /\ get(t, n)
         \/ "write" \in plan.ops[t] /\ write_value(t, n)
    \/ "revoke" \in plan.ops[t] /\ \E u \in Tokens : revoke_by_token(t, u)
    \/ "list" \in plan.ops[t] /\ list_secrets(t)
    \/ next_page(t) \/ vault_by_pk(t)
    \/ whoami(t) \/ read(t) \/ put(t) \/ revoke_token(t) \/ list(t)

Next ==
    /\ UNCHANGED plan
    /\ \/ \E o \in plan.handles : Owner(o)
       \/ \E t \in DOMAIN plan.scope :
            \/ Holder(t)
            \/ "report" \in plan.others /\ report_leaked_token(t)
            \/ "expire" \in plan.others /\ expire(t)

Spec == Init /\ [][Next]_vars

-----------------------------------------------------------------------------
(***************************************************************************)
(* Properties.                                                             *)
(***************************************************************************)

\* A token that was revoked gets nothing of any later generation: no key, no
\* value and no accepted write, whatever requests of its were under way and
\* whatever rotation another handle had prepared when it was revoked.
RevokedShutOut ==
    \A t \in Tokens : cut[t] # 0 =>
        /\ \A k \in known[t] \cup opened[t] : k[2] < cut[t]
        /\ \A g \in wrote[t] : g < cut[t]

\* Through mint and every rotation a token is only ever sent the keys of its
\* scope: a holder that keeps all of them cannot read or sign what the server
\* would not let it (Scope::bundle_holds_* and can_* agree).
ScopeExact ==
    \A t \in Registered :
        /\ \A k \in known[t] : k[1] \in KIND[row[t].scope]
        /\ \A n \in Names :
             /\ value_key(n) \in KIND[row[t].scope] <=> can_read(row[t].scope, n)
             /\ writer(n) \in KIND[row[t].scope] <=> can_write(row[t].scope, n)

\* A handle never holds one generation's descriptor with another's keys,
\* although the server reads the token's row and the vault's row separately
\* and a rotation may land in between.
ViewPaired ==
    \A t \in Tokens : \A k \in hold[t].view.keys : k[2] = hold[t].view.gen

\* A listing that ends has every live secret, page by page, unless the vault
\* was rotated past the handle's view: the empty page that ends it carries no
\* item whose generation could tell.
ListingsWhole ==
    \A t \in Tokens : hold[t].listed = "part" => vault.gen # hold[t].view.gen

\* What a handle holds, and what it lists, is of one generation.
ViewsWhole == ViewPaired /\ ListingsWhole

\* A read token minted for some secrets is served no other, in any
\* generation: its list of indexes is not renewed by a rotation, and an index
\* of one generation never names another secret in the next.
AllowNeverWidens ==
    \A t \in Tokens : {k[1] : k \in opened[t]} \subseteq granted[t] \cup Configs

\* The keys and the allow-list of a token, each through every rotation, give
\* it what it was minted for and no more.
WithinGrant == ScopeExact /\ AllowNeverWidens

\* A rotation leaves nothing behind that was acknowledged before it: every
\* registered token has a bundle of the current generation, and every
\* accepted write is there.
NothingStranded ==
    /\ \A t \in Registered : row[t].gen = vault.gen
    /\ vault.val = acked
=============================================================================
