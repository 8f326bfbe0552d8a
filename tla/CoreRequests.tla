---------------------------- MODULE CoreRequests ----------------------------
(***************************************************************************)
(* A request through the server core (server_core/auth.rs, Core::authed    *)
(* and the handlers): authentication reads the store several times, spends *)
(* the signature's nonce, and hands the handler a caller; the handler then *)
(* works on the row id the caller was given.  Requests run on a pool of    *)
(* threads, so the steps of several requests, and of one request delivered *)
(* twice, interleave.                                                      *)
(*                                                                         *)
(* What a transaction does inside is VaultStore; here it is the effect the *)
(* handlers' order of steps can put in the wrong place or repeat.          *)
(***************************************************************************)
EXTENDS Integers, FiniteSets, FiniteSetsExt

CONSTANTS
    VaultId,        \* vault ids
    TokenId,        \* token ids
    Nonce,          \* nonces
    Thread,         \* threads of the blocking pool
    Scope,          \* the scopes tokens are minted with
    Op,             \* the operations clients ask for
    Skew,           \* MAX_SKEW_SECS
    Idle,           \* Policy::idle_secs, 0 for none
    Granularity,    \* TOUCH_GRANULARITY_SECS
    MaxStall,       \* the longest a request takes from reading the clock to
                    \* spending its nonce
    MaxPk,          \* bound: row ids
    MaxTime,        \* bound: the clock
    MaxGeneration,  \* bound: generations
    MaxSigned,      \* bound: requests that are signed
    Sent, Extra     \* bound: the requests of which one is signed, and those
                    \* that are forged, or signed beside it

Scopes == {"meta", "append", "read", "admin", "config", "config-write"}
Ops == {"get_secret", "put_secret", "get_config", "put_config", "list", "register",
        "revoke", "rotate", "delete"}

PK == 1..MaxPk
Generation == 1..MaxGeneration
Time == 0..MaxTime

VaultRow == [id : VaultId, generation : Generation, active : Time]
TokenRow == [vault : PK, scope : Scope, expires : Nat]
Request == [nonce : Nonce, actor : TokenId \cup {"owner"}, vault : VaultId,
            ts : Time, op : Op, generation : Generation, subject : TokenId]
Spent == [until : Nat, by : Request]

\* The id a request's nonce is spent under: whose request it is, is no part
\* of it.
SpentId(r) == <<r.vault, r.nonce>>

ASSUME CoreAssumption ==
    /\ Scope \subseteq Scopes /\ Op \subseteq Ops
    /\ {Skew, Idle, Granularity, MaxStall, MaxTime, MaxSigned} \subseteq Nat
    /\ {MaxPk, MaxGeneration} \subseteq Nat \ {0}
    /\ "owner" \notin TokenId
    /\ MaxStall <= Skew
    /\ Sent \cup Extra \subseteq Request

VARIABLES
    now,       \* the clock
    vaults,    \* table vaults: row id -> row
    tokens,    \* table tokens: token id -> row
    spent,     \* table spent: vault and nonce -> [until, by], until when the
               \* row is kept; ghost: the request that put it there
    threads,   \* what each thread of the pool is at
    served,    \* ghost: request that arrived with its signer's signature ->
               \* how many times it ran
    minted,    \* token ids used
    gone       \* tokens revoked, or deleted with their vault

vars == <<now, vaults, tokens, spent, threads, served, minted, gone>>

\* The request a thread works on: the time it read, whether the signature is
\* genuine, whether the token was gone on arrival; then the caller.
Free == [stage |-> "free"]
Busy == [stage : {"token", "vault", "spend", "touch", "op"}, req : Request,
         genuine : BOOLEAN, late : BOOLEAN, t0 : Time, pk : PK \cup {0},
         scope : Scope \cup {"owner"}, expires : Nat,
         generation : Generation \cup {0}]

TypeOK ==
    /\ now \in Time
    /\ vaults \in [DOMAIN vaults -> VaultRow] /\ DOMAIN vaults \subseteq PK
    /\ tokens \in [DOMAIN tokens -> TokenRow] /\ DOMAIN tokens \subseteq TokenId
    /\ spent \in [DOMAIN spent -> Spent] /\ DOMAIN spent \subseteq VaultId \X Nonce
    /\ threads \in [Thread -> Busy \cup {Free}]
    /\ served \in [DOMAIN served -> Nat] /\ DOMAIN served \subseteq Request
    /\ minted \subseteq TokenId /\ gone \subseteq minted

\* A server at work: one vault on row id 1, and some of its tokens.
Init ==
    /\ now = 0
    /\ \E id \in VaultId :
          vaults = [pk \in {1} |-> [id |-> id, generation |-> 1, active |-> 0]]
    /\ \E T \in SUBSET TokenId : \E s \in [T -> Scope] :
          /\ tokens = [t \in T |-> [vault |-> 1, scope |-> s[t], expires |-> 1]]
          /\ minted = T
    /\ spent = [n \in {} |-> {}]
    /\ threads = [h \in Thread |-> Free]
    /\ served = [r \in {} |-> 0]
    /\ gone = {}

-----------------------------------------------------------------------------
(* Helpers. *)

With(f, x, y) == [z \in DOMAIN f \cup {x} |-> IF z = x THEN y ELSE f[z]]
Without(f, S) == [z \in DOMAIN f \ S |-> f[z]]

TokensOf(pk) == {t \in DOMAIN tokens : tokens[t].vault = pk}

\* Scope::can_*, and Caller::can.
can_read_values == {"read", "admin"}
can_write_values == {"append", "admin"}
can_read_configs == {"read", "admin", "config", "config-write"}
can_write_configs == {"append", "admin", "config-write"}
can(scope, op) ==
    \/ scope = "owner"
    \/ op = "get_secret" /\ scope \in can_read_values
    \/ op = "put_secret" /\ scope \in can_write_values
    \/ op = "get_config" /\ scope \in can_read_configs
    \/ op = "put_config" /\ scope \in can_write_configs
    \/ op = "list"
    \/ op = "revoke" /\ scope = "admin"

\* Thread h moves on to `stage`, and is done with its request.
MoveTo(h, stage) == threads' = [threads EXCEPT ![h].stage = stage]
Answer(h) == threads' = [threads EXCEPT ![h] = Free]

-----------------------------------------------------------------------------
(* Clients, and what carries their requests. *)

\* A request arrives, perhaps not for the first time, signed by whom it says
\* at the time its clock gave, or forged.  A signer chooses its nonces, and
\* may take one it has seen.  The owner's needs no token row.
deliver(h, r, genuine) ==
    /\ threads[h] = Free
    /\ genuine => Cardinality(DOMAIN served \cup {r}) <= MaxSigned
    /\ \/ r \in DOMAIN served \cup Extra
       \/ genuine /\ r \in Sent /\ DOMAIN served \subseteq Extra
    /\ threads' = [threads EXCEPT ![h] =
          [stage |-> IF r.actor = "owner" THEN "vault" ELSE "token", req |-> r,
           genuine |-> genuine, late |-> r.actor \in gone, t0 |-> now, pk |-> 0,
           scope |-> "owner", expires |-> 0, generation |-> 0]]
    /\ served' = IF genuine /\ r \notin DOMAIN served THEN With(served, r, 0) ELSE served
    /\ UNCHANGED <<now, vaults, tokens, spent, minted, gone>>

\* POST /v1/vaults, its own checks having passed.
create(id) ==
    \E pk \in PK :
        /\ \A q \in DOMAIN vaults : vaults[q].id # id
        /\ (\A q \in DOMAIN vaults : q < pk) /\ (pk = 1 \/ pk - 1 \in DOMAIN vaults)
        /\ vaults' = With(vaults, pk, [id |-> id, generation |-> 1, active |-> now])
        /\ UNCHANGED <<now, tokens, spent, threads, served, minted, gone>>

-----------------------------------------------------------------------------
(* authenticate, one step per call of the store. *)

\* token_auth: token_by_id.
token_by_id(h) ==
    LET t == threads[h].req.actor IN
    /\ threads[h].stage = "token"
    /\ IF t \in DOMAIN tokens
       THEN threads' = [threads EXCEPT ![h].stage = "vault",
                                       ![h].pk = tokens[t].vault,
                                       ![h].scope = tokens[t].scope,
                                       ![h].expires = tokens[t].expires]
       ELSE Answer(h)
    /\ UNCHANGED <<now, vaults, tokens, spent, served, minted, gone>>

Gap(a, b) == IF a < b THEN b - a ELSE a - b
expired(row, t) == Idle > 0 /\ row.active + Idle < t

\* verify_request and `expired`, on the time read at the start.
verify_request(h, pk) ==
    /\ threads[h].genuine
    /\ Gap(threads[h].t0, threads[h].req.ts) <= Skew
    /\ ~expired(vaults[pk], threads[h].t0)

\* The row the caller names: by id for the owner; by the token's row id, whose
\* vault must be the one the signature names.
vault_named(h, pk) ==
    /\ pk \in DOMAIN vaults
    /\ vaults[pk].id = threads[h].req.vault
    /\ threads[h].req.actor # "owner" => pk = threads[h].pk

vault_row(h) ==
    /\ threads[h].stage = "vault"
    /\ \/ \E pk \in PK :
             /\ vault_named(h, pk) /\ verify_request(h, pk)
             /\ threads' = [threads EXCEPT ![h].stage = "spend", ![h].pk = pk,
                                           ![h].generation = vaults[pk].generation]
       \/ /\ \A pk \in PK : ~(vault_named(h, pk) /\ verify_request(h, pk))
          /\ Answer(h)
    /\ UNCHANGED <<now, vaults, tokens, spent, served, minted, gone>>

\* Store::spend: purge what has expired by now, then insert, or refuse.
Unspent(id) == id \notin DOMAIN spent \/ spent[id].until < now
spend(id, row) ==
    LET kept == Without(spent, {m \in DOMAIN spent : spent[m].until < now})
    IN  IF Unspent(id) THEN With(kept, id, row) ELSE kept

\* Mutant of spend_nonce: a nonce is kept for one skew, not two.
spend_nonce_once_skew(h) ==
    LET r == threads[h].req IN
    /\ threads[h].stage = "spend"
    /\ spent' = spend(SpentId(r), [until |-> r.ts + Skew, by |-> r])
    /\ IF Unspent(SpentId(r)) THEN MoveTo(h, "touch") ELSE Answer(h)
    /\ UNCHANGED <<now, vaults, tokens, served, minted, gone>>

\* spend_nonce.  A token past its expiry is told so only here.
spend_nonce(h) ==
    LET r == threads[h].req IN
    /\ threads[h].stage = "spend"
    /\ spent' = spend(SpentId(r), [until |-> r.ts + 2 * Skew, by |-> r])
    /\ IF \/ ~Unspent(SpentId(r))
          \/ threads[h].scope # "owner" /\ threads[h].expires <= threads[h].t0
       THEN Answer(h) ELSE MoveTo(h, "touch")
    /\ UNCHANGED <<now, vaults, tokens, served, minted, gone>>

touch(h) ==
    LET pk == threads[h].pk
        stale == /\ pk \in DOMAIN vaults
                 /\ vaults[pk].active < threads[h].t0 - Granularity
    IN  /\ threads[h].stage = "touch"
        /\ vaults' = IF stale THEN [vaults EXCEPT ![pk].active = threads[h].t0] ELSE vaults
        /\ MoveTo(h, "op")
        /\ UNCHANGED <<now, tokens, spent, served, minted, gone>>

-----------------------------------------------------------------------------
(* The handlers, on the caller's row id. *)

\* The request runs on the row at pk, which is found there, or not.
Ran(h) ==
    /\ threads[h].stage = "op"
    /\ served' = [served EXCEPT ![threads[h].req] = @ + 1]
    /\ Answer(h)

\* Core::require: a caller without the scope is refused, with an audit row.
forbidden(h) ==
    /\ threads[h].stage = "op" /\ ~can(threads[h].scope, threads[h].req.op)
    /\ Answer(h)
    /\ UNCHANGED <<now, vaults, tokens, spent, served, minted, gone>>

Allowed(h, ops) ==
    /\ threads[h].stage = "op"
    /\ threads[h].req.op \in ops /\ can(threads[h].scope, threads[h].req.op)

\* records::read, records::list: the rows of pk, and an audit row.
read(h) ==
    /\ Allowed(h, {"get_secret", "get_config", "list"})
    /\ Ran(h)
    /\ UNCHANGED <<now, vaults, tokens, spent, minted, gone>>

\* records::put: check_signed against the caller's row, put_record against
\* the stored one.  A stale generation is refused.
put(h) ==
    /\ Allowed(h, {"put_secret", "put_config"})
    /\ IF /\ threads[h].req.generation = threads[h].generation
          /\ threads[h].pk \in DOMAIN vaults
          /\ threads[h].req.generation = vaults[threads[h].pk].generation
       THEN Ran(h) ELSE Answer(h) /\ UNCHANGED <<served>>
    /\ UNCHANGED <<now, vaults, tokens, spent, minted, gone>>

\* tokens::register.
register(h) ==
    LET r == threads[h].req
        pk == threads[h].pk
    IN  /\ Allowed(h, {"register"})
        /\ IF /\ pk \in DOMAIN vaults /\ r.generation = vaults[pk].generation
              /\ r.subject \notin minted
           THEN /\ Ran(h)
                /\ \E s \in Scope : tokens' = With(tokens, r.subject,
                      [vault |-> pk, scope |-> s, expires |-> now + 1])
                /\ minted' = minted \cup {r.subject}
           ELSE Answer(h) /\ UNCHANGED <<tokens, served, minted>>
        /\ UNCHANGED <<now, vaults, spent, gone>>

\* Mutant of revoke: the row stays, and only expires.
revoke_softly(h) ==
    LET t == threads[h].req.subject IN
    /\ Allowed(h, {"revoke"})
    /\ IF t \in TokensOf(threads[h].pk)
       THEN /\ Ran(h) /\ tokens' = [tokens EXCEPT ![t].expires = now]
            /\ gone' = gone \cup {t}
       ELSE Answer(h) /\ UNCHANGED <<tokens, served, gone>>
    /\ UNCHANGED <<now, vaults, spent, minted>>

\* critical::revoke.
revoke(h) ==
    LET t == threads[h].req.subject IN
    /\ Allowed(h, {"revoke"})
    /\ IF t \in TokensOf(threads[h].pk)
       THEN Ran(h) /\ tokens' = Without(tokens, {t}) /\ gone' = gone \cup {t}
       ELSE Answer(h) /\ UNCHANGED <<tokens, served, gone>>
    /\ UNCHANGED <<now, vaults, spent, minted>>

\* critical::report: whoever holds the token revokes it, without a nonce.
report(t) ==
    /\ t \in DOMAIN tokens
    /\ tokens' = Without(tokens, {t})
    /\ gone' = gone \cup {t}
    /\ UNCHANGED <<now, vaults, spent, threads, served, minted>>

\* critical::rotate: against the caller's row, then against the stored one.
rotate(h) ==
    LET pk == threads[h].pk IN
    /\ Allowed(h, {"rotate"})
    /\ IF /\ threads[h].req.generation = threads[h].generation
          /\ pk \in DOMAIN vaults
          /\ vaults[pk].generation = threads[h].generation
          /\ vaults[pk].generation < MaxGeneration
       THEN Ran(h) /\ vaults' = [vaults EXCEPT ![pk].generation = @ + 1]
       ELSE Answer(h) /\ UNCHANGED <<vaults, served>>
    /\ UNCHANGED <<now, tokens, spent, minted, gone>>

\* critical::delete_vault.
delete_vault(h) ==
    LET pk == threads[h].pk IN
    /\ Allowed(h, {"delete"})
    /\ IF pk \in DOMAIN vaults
       THEN /\ Ran(h)
            /\ vaults' = Without(vaults, {pk})
            /\ tokens' = Without(tokens, TokensOf(pk))
            /\ gone' = gone \cup TokensOf(pk)
       ELSE Answer(h) /\ UNCHANGED <<vaults, tokens, served, gone>>
    /\ UNCHANGED <<now, spent, minted>>

\* The clock moves; a thread is not held up for longer than MaxStall between
\* reading it and spending its nonce.
Tick ==
    /\ now < MaxTime
    /\ \A h \in Thread : threads[h].stage \in {"token", "vault", "spend"}
                            => now < threads[h].t0 + MaxStall
    /\ now' = now + 1
    /\ UNCHANGED <<vaults, tokens, spent, threads, served, minted, gone>>

-----------------------------------------------------------------------------
Authenticate(h) == token_by_id(h) \/ vault_row(h) \/ spend_nonce(h) \/ touch(h)

Handle(h) == \/ forbidden(h) \/ read(h) \/ put(h) \/ register(h) \/ revoke(h)
             \/ rotate(h) \/ delete_vault(h)

Next ==
    \/ Tick
    \/ \E id \in VaultId : create(id)
    \/ \E t \in TokenId : report(t)
    \/ \E h \in Thread, r \in Sent \cup Extra, genuine \in BOOLEAN : deliver(h, r, genuine)
    \/ \E h \in Thread : Authenticate(h) \/ Handle(h)

Spec == Init /\ [][Next]_vars

-----------------------------------------------------------------------------
(* Properties. *)

\* A signed request runs at most once, however often it is delivered, however
\* its deliveries interleave, whoever else uses its nonce, and whatever the
\* purge of old nonces removes: a nonce is kept until its signature is too old
\* for a thread still to hold.
ServedOnce == \A r \in DOMAIN served : served[r] <= 1

\* A nonce is spent only by a request whose signature verified, for the vault
\* that request names: without a key of the vault nobody makes a request to it
\* fail by sending its nonce first (spend_nonce comes after verify_request).
SpentSigned ==
    \A id \in DOMAIN spent : spent[id].by \in DOMAIN served /\ SpentId(spent[id].by) = id

\* A token that is revoked, reported or deleted with its vault opens nothing
\* any more: of its requests only those already past token_by_id can run.
GoneRefused ==
    \A h \in Thread :
        threads[h].stage \in {"spend", "touch", "op"} => ~threads[h].late

\* Nonces are spent by those who hold a key of the vault, and a token that is
\* gone holds none.
OnlyTheirs == TypeOK /\ SpentSigned /\ GoneRefused

\* "The nonce is spent only after the signature verifies (so nobody can burn
\* someone else's nonces)", auth.rs says: a request finds its nonce spent only
\* by its own signer.  False: the row is the vault's, not the signer's.
NobodyBurns ==
    \A h \in Thread :
        LET r == threads[h].req IN
        threads[h].stage = "spend" /\ ~Unspent(SpentId(r)) =>
            spent[SpentId(r)].by.actor = r.actor

=============================================================================
