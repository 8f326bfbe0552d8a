# galata-vault in TLA+

galata-vault keeps secrets and configs on a server that cannot read them.  A
*vault* holds encrypted, versioned records.  Its owner signs a chain of
*descriptors*, one per *generation* of keys, and mints *tokens* with a scope.
Rotating a vault re-encrypts everything it holds under new keys.  Revocations,
rotations and deletions must survive a crash and even the restoration of an
older database, so they go through a *journal* beside it.

The modules here model the part of the system where its guarantees are made.
On the server: the store's transactions, the journal and its replay, and the way
concurrent requests reach the store.  Between the two ends: requests and refusals,
what is sealed and to what it is bound, what is signed.  At the client: the
handle through which an owner sees a vault and what it remembers to catch a server
that went back, tokens and their holders, the commands on a tree of environments,
the rekey of a subtree, the files all of them keep, and the local web interface.
TLC checks them on small instances, and TLAPS proves the store's main
invariants for every value of the constants.  Paths below are
relative to `src/crates/galata-vault/src/`.


## Inventory

| Component | State it keeps | Operations | Interacts with | Correct when |
|---|---|---|---|---|
| SQLite store (`backend/`) | tables vaults, descriptors, tokens, secrets and configs with their heads, children, audit, journal_state, spent | one transaction per method of `Store` | called by the core; calls the journal's hook while a critical transaction is open | heads, versions, bytes and quotas agree; one generation per vault; a rotation loses nothing |
| Journal (`server_core/journal.rs`, `backend/journal.rs`) | one file per critical operation, by sequence number | put, list_after, replay_journal | written inside the store's transaction, read when a core opens | what was acknowledged survives crash, power loss and restore |
| Server core (`server_core/`) | none of its own; a `Caller` per request | authenticate, then one handler per route | reads and writes the store several times per request | a signed request runs at most once; only a key of the vault spends its nonces |
| HTTP server (`server/`) | a pool of threads, a body limit | one blocking task per request | runs the core concurrently | a vault within its quotas can be rotated |
| HTTP API (`client/api.rs`, `server_core/route.rs`, `error.rs`) | none | requests, routes, preconditions, error codes | both ends | both ends read them alike |
| Sealing, keys, protocol types (`seal/`, `keys/`, `proto/`) | none | derivation, encryption, encoding, signatures | everything | an object opens only in its place; a signature covers every field |
| Vault handle (`vault.rs`) | a view of one vault, its pins | reads, writes, rotation, children record, audit verification, copying | the core's API, by signed requests | nothing once verified is taken back unnoticed |
| Token handles (`token.rs`) and MCP server (`mcp/`) | a view of one vault within a scope | open, reload, read, write, list, revoke | the core's API, by a token's requests | a token never has more than its grant, nor anything after its revocation |
| Owner client (`owner/`) | the tree of environments, a rekey plan | init, env add, remove and repair, list, import, keep-alive, rekey, abort | many vault handles | no environment, key or record is lost by commands that race or stop half-way |
| Client state (`state.rs`, `store.rs`, `cli/keystore.rs`, `cli/fsutil.rs`) | files: keys, pins, tree, rekey plan, kits | save, load | the owner client and handles | a file that is replaced is whole whenever it is read |
| Local web interface (`cli/ui/`) | link, session, question, token to hand over, clipboard | a loop over lines, ticks and requests | owner client, terminal, browser | the terminal decides; nothing secret lingers |
| Command line, embedded vault, Python binding | configuration | front ends | the owner client and token handles | |

What is hard in it:

* **Concurrency on the server.**  A request reads the clock, the token, the
  vault, spends a nonce, touches the vault and runs its transaction in separate
  steps, on a pool of threads.  Only the transactions are atomic.
* **Optimistic rotation.**  A client gathers a whole vault by many requests and
  sends it back in one; everything that changes meanwhile must be noticed by a
  single counter, the revision.
* **Crash, power loss and restore.**  The journal record is written before the
  commit it belongs to.  The database may fall behind the journal by a crash, by
  a lost tail of the WAL (`synchronous=NORMAL`), or because an older copy is put
  back, and replay is lenient.
* **Identity.**  Row ids are reused, vault ids may be created again, nonces are
  purged, version numbers must never be assigned twice, names change at every
  rotation.
* **Limits.**  Quotas are checked by some operations and moved by others; bytes
  are counted incrementally in an unsigned integer.
* **A server that went back.**  A client must notice an older or diverged server
  from what it saw before, in this handle, an earlier one or an earlier process,
  while several threads share the handle, and must not cry wolf.
* **Clients that stop half-way.**  A rekey is hundreds of requests with a saved
  plan; pins and plan are separate files.  Adding and removing an environment are
  several requests and a save, and two commands may run on one machine.
* **Tokens across rotations.**  Rows of token and vault are read separately; a
  handle's view goes stale; a listing takes several pages; two owners may rotate
  against each other.
* **One loop for four masters.**  The web interface serves a browser, a
  terminal, a clock and a clipboard from one thread, and trusts them differently.

`PROJECT.json` lists these as hazards, each at its line, with the properties
that watch over it, or a note when none does yet.


## Modules

### VaultStore: the store

Every method of `Store` that writes is one action, because it is one
`BEGIN IMMEDIATE` transaction.  A table is a variable: a function from its key,
or a set of rows.

| Variable | Table |
|---|---|
| `vaults`, `bytesUsed` | `vaults`; `bytes_used` is a variable of its own because only record writes touch it |
| `descriptors` | `descriptors`, by (row id, generation) |
| `tokens` | `tokens` |
| `records`, `heads` | `secrets` and `configs`, `heads` and `config_heads` |
| `children` | `children` |
| `lastApplied` | `journal_state` |
| `batch` | no table: the rotation a client is building |
| `now` | the server's clock |

A refusal that the code audits (`Done::Refused` commits one audit row) is a step
that does exactly that; an error that rolls back is no step.  Ciphertexts are
their length, since length is all that the store decides by; a tombstone is a
value of length 0.  The audit log is its length (`auditSeq`).  `born` in a
vault's row stands for the keys in its descriptors: a vault created again under
the same id has other keys, which is what `Descriptor::follows` tells apart.

Row ids follow SQLite's rule for an `INTEGER PRIMARY KEY` without
`AUTOINCREMENT`: one more than the largest in use, so that the last one comes
back after a deletion.

The client's side of a rotation is three actions, in the order of
`Handle::rotate`: `refresh_status` reads generation, revision and tokens,
`all_versions` gathers the records of one kind, and `apply_rotation` sends the
batch.  Every other action may come in between.  A gather is really a request per
version, so it may miss one; and the tokens resealed and revoked are any sets,
since the status reads the token list after the row.  The store's checks are all
that stands against both.

`MCVaultStore` has the limits and symmetry sets for TLC.  The proofs about a module `M`,
here and below, are in `MProofs`.

### CriticalJournal: durability

One vault id, whose vault may be deleted and created again.  A database is a
record of what the critical operations decide: the vault, its generation, its
tokens with the generation their bundles are sealed under, its writes, and
`last_applied`.  `applied` in it is a history variable.  There are three copies:
`db`, as committed; `synced`, what a power loss falls back to; and `backup`, the
operator's.

A critical operation takes three steps: its checks and writes (`revoke_tokens`,
`apply_rotation`, `delete_vault`), the journal's hook (`put`), and `commit`.
The hook follows `FileJournal::put` in its order: it refuses a number that is
taken, it may fail before the rename, it may fail at the directory sync after
it, or it succeeds.  `open` lists the journal once, `replay` applies a record at
a time as `Store::replay` does (by vault id, skipping what finds nothing to do),
and `serve` ends the start.  What may go wrong is the constant `Faults`:
`put`, `sync_dir`, `commit`, `crash`, `power`, `lost_entry` (a power loss that
also takes an unflushed journal entry), `restore`.  `stray` holds the operations that
failed with their record in place.  A backup is of a state no power loss takes back:
a copy of commits that were lost later is no older state, and replay promises
nothing for it.

### CoreRequests: concurrent requests

Each thread of the pool goes through the stages of `authenticate`: `token`
(`token_by_id`), `vault` (`vault_by_id` or `vault_by_pk`, then the signature,
the skew and the vault's expiry on the time read at the start), `spend`, `touch`,
and `op`, the handler.  A client signs requests with a time of its own clock and
a nonce of its choice, which may be one that another signer uses; the network delivers
each any number of times, at any time (`deliver`), and may deliver it with a signature
that is not its signer's.  As in the code, a row of `spent` is of a vault and a nonce
(`SpentId`), whoever signed: the ghost field `by` says whose it is.  A request is
signed when it first arrives; `served` counts how often each one ran.  The handlers are
reduced to the effect that order and repetition can misplace: which vault they
reach, how often they run, and what they do to tokens, generations and vaults.

`MaxStall` bounds the time from a thread's reading of the clock to its spending
of the nonce.  It is assumed to be at most the skew (five minutes): a nonce is
kept until two skews after its timestamp, so a thread that had read the clock at
the end of a signature's window and then slept for longer than the skew would
find the nonce purged.  The code does not enforce that bound; a request takes
milliseconds.

### Rekey: moving a subtree to new keys

A tree of nodes 1..N, with the vault of node n under key k as `<<k, n>>`: a node's
key is either derived from its parent's, and then has its parent's number, or
random and sealed in the parent's children record.  The server is three functions
on the vaults that exist: the retained versions (`recs`), the children record
(`kids`) and its version (`kver`).  Of the machine that rekeys there are the two
state files (`plan`; `held` and `tree`), the key store (`store`), and the process
while a command runs: where it is (`at`), the plan it works on (`job`), the loop
over the plan's nodes (`left`), the old keys it opened (`keys`) and the versions it
has still to copy (`todo`).  `truth`, what each node's record would retain had
nothing moved, is a history variable.

The actions are the requests and saves of `owner/rekey.rs`, in their order:
`begin_rekey` walks the subtree; `keep_old`, `keep_new`, `record_plan` are
`confirm_kit_stored`; `run_rekey` takes the plan up after its recorded step;
`create_vault`, `create_children` | `open_old`, `copy_from`, `copy_version`,
`list_children` | `seal_child` or `detached` | `open_old`, `retire` are its four
phases, each ended by `advance`; `store_key`, `finish_rekey`, `save_state`,
`drop_below`, `drop_old`, `drop_new` are `finish_rekey`.  `abort_rekey`,
`abort_vault`, `forget_plan` are the abort.  A request that fails, or whose answer
is lost, and a process that ends are all `Interrupt`, which may come before or after
any step.  The constant `Workloads` says what else goes on in a behaviour
(`load.others`): token holders write, another machine adds or removes an
environment, the write that links the new key arrives after its sender gave up, or
an owner resumes an abort that failed half way.

### VaultHandle: what a client may believe

One vault and one owner handle that several threads share (`Vault` is
`Send + Sync`).  The server (`srv`) is its chain of descriptors, the version and
liveness of one record, and its audit rows.  Other clients write and rotate
(`put_record`, `apply_rotation`); an operator may take a copy and put it back
(`Backup`, `Restore`), after which history diverges; an upgrade makes later audit
rows unreadable to this client (`Upgrade`).  A hash is an identity: every descriptor
and row ever made has a number of its own, and `descPrev` and `rowPrev` say what it
was chained to.  A name's index is derived from the generation's keys, so the index
is the descriptor's identity, and a signature verifies under the descriptor it was
made for.

The handle `h` has its view and its pins; the owner's `LocalState` is `mem`, and
`disk` as last saved.  `environment` and `set_pins` open it, `close` remembers its
pins and saves (the save may fail), `drop` forgets them, `restart` ends the process
anywhere.  A thread's call is a step for the server's side of each request and a
step for what the handle does with the answer, so that answers can be overtaken:
`fetch`, `fetched`; `list_kind`, `listed`; `current`, `send_write`, `wrote` or
`conflict`; `moved_on` after a miss; `refresh`, `refresh_pin`, `refresh_chain`,
`adopt_view`, `adopt_pin`; `verify_audit`, then `audit_after` and `audit_rows` for
each page, `audit_before`, `audit_names`, `verify_recorded`.  `unreachable` is an
answer that never comes.  `late` and `seen` are history variables.

Abstractions: the server's read of a record and the audit row it appends are one
step, since nothing here tells them apart; only the latest version is read; the row
before the known head stands for the earlier rows shown with an audit; audit rows
are kept only in behaviours in which a thread audits.

### TokenAccess: tokens and those who hold them

Owner handles mint, revoke and rotate; holders open, read, write, list and revoke
with an SDK handle (`token.rs`) or as an MCP server (`mcp/env.rs`), which reloads
its view by other rules and accepts only a meta token.  Keys are symbols
`<<kind, generation>>`, a sealed bundle is the set of keys `seal_for_scope` puts in
it, and a name has one index per generation (`Hmac`).  A holder's request is three
steps, `token_by_id`, `vault_by_pk` and the handler, since the store may change
between them; a listing is a page per request.  A rotation is `rotate`,
`rotate_status`, `all_versions`, `strict` and `send_rotation`, tried again when the
store finds the revision moved.  `known`, `opened`, `wrote` and `granted` record what
a holder was ever sent, served, allowed and minted for, and `cut` the generation from
which it is shut out.  `hold.seen` is what the server has read of the token's row, and
the generation then, for the request in progress.

### Environments: commands on a tree

Processes on two machines, or two on one, run `init`, `env add`, `env rm`, `env
repair`, `ls`, `import` and daily use.  A command loads its machine's files
(`load`), does its requests one step at a time (`check`, `create`, `create_empty`,
`children` and `put_children`, `discover_next`, `delete_vault`, `keep_alive`), and saves
what it loaded and changed, all of it (`saves`); `interrupt` ends it anywhere.
`update_children` reads the record, changes it and writes under `If-Match`, `Tries`
times.  The server touches a vault at every request, no more often than
`Granularity`, and expires the idle ones; an operator may turn expiry on
(`expiry_on`).  `Workloads` says which commands each process gives, as a behaviour of
all commands at once would be too long to exhaust.  The history variable `acked` numbers
the additions of a node, so that one removed and added again is told from one that
stayed.

### PrivateFiles: how files are replaced

`write_private` is a step per system call: `remove_file` of the temporary name,
`new_private_file`, `write_all`, `sync_all`, `rename`; a kit is created in place.
`ino` are files with what they hold, whether it is whole and whether it is synced;
`dir` is the directory as processes see it, `disk` as a power failure leaves it.
Two processes run commands that read and replace the credentials file, the local
state and kits; either may be killed anywhere (`killed`), and the power may fail.

### UiSession and TerminalDecides: the local web interface

`UiSession` is the loop of `App::run`: all typed lines (`on_line`), a tick (`tick`),
then at most one request (`serve`), with the checks of `web.rs` in their order
(`route`): host, origin, method, path, cookie.  A link's code opens one session and
is spent; the terminal's answer decides the question on screen; a minted token is
handed over once, by copying or saving.  Timers are flags that say their time has passed, so
every order of timeouts and events is covered.  Browsers send any request with any
cookie, and other programs write the clipboard.

The one thread of the loop also waits where it has no timeout (`Waits`): for the body
of a request, which `Req::read` reads before anything of the request is checked
(`body`, until `serve` or `refused`); for the browser to take the answer (`answer`,
until `respond`); and for the clipboard tool that clears what is due (`clear` and
`last_clear`, until `clear_if`).  Until then no line is taken, no timer looked at and no
request for the loop's end noticed.  The tool that copies a value, inside a request, is
part of the wait for that request; the moment between `clear_if`'s look at the clipboard
and its write is not modelled.  Calls of the vault's server have the client's timeout.

`TerminalDecides` is what that loop promises for the operations that matter, in five
actions and without links, cookies, timers or lines: one session at a time, one
request waiting, each carried out at most once and only while the session that asked
is open, and a minted token taken at most once, by that session.  `UiSession`
implements it under `session <- browser.n`, `waiting <- pending.id`,
`held <- handover`; the property `Decides` is its specification.

### HttpApi, Sealing, Signing and Wire: what both ends must agree on

The first three are the tables and functions of the code, without state.  `Wire` says
what must hold between them: its one variable, `input`, holds a request, a refusal, a
write and the version it meets, or the choice of what is sealed, signed and asked
for, and each of its initial states is one such input.  `MCCoreRequests` puts it beside
`CoreRequests`, whose steps leave it alone, so that one run covers both.

* `HttpApi`: each request of `client/api.rs` against the route table and the
  handlers' own checks (`RoutedAsAsked`); each refusal, from the store's error through
  its code and status to the kind and the advice a caller gets, this client or an older
  one (`RefusalsUnderstood`); each precondition against the version it was built on
  (`WritesLandOnWhatWasSeen`).
* `Sealing`: names, values, records, bundles, descriptors and child keys as terms over
  symbolic keys, with the checks made before one is believed.  The server may answer
  with any stored object in any place.
* `Signing`: the signing input and header of a request, reports, creation,
  children records and the hash input of an audit row, whose optional fields have no
  fixed place.

A failed property shows the input that breaks it.

### RotationBody: a quota against a limit

The number of names of each shape (the kinds of the retained versions, oldest
first), the quotas as `put_record` and `delete_record` enforce them, the size of
the rotation of such a vault, and `max_rotation_body`.


## Runs

| Run | What it shows |
|---|---|
| `VaultStoreRecords` | one vault, two names that swap under rotation, two versions kept, one live name, and a byte limit that fits some states and not others: heads agree with records (`HeadsAgree`); what is retained is an unbroken run that ends at the head, byte counts are exact, quotas hold (`StorageExact`); versions are assigned once; a rotation loses no write |
| `VaultStoreTokens` | two tokens, both kinds, the children record and a clock, on a vault that is deleted and created again: everything is sealed under the current generation (`GenerationUniform`), cascades leave nothing behind (`NoOrphans`), the descriptor chain is unbroken |
| `JournalFaults` | journal writes and commits that fail before and after the record is in place, crashes, power losses, restores: what was acknowledged is in force whenever a server serves and its record is on disk, what was answered 503 has changed nothing unless it left its record behind (`AnswersHold`); acknowledged writes are kept and a replayed rotation leaves no token on an old generation (`ReplayRight`); the server comes up again (`Restarts`) and a critical operation ends (`Answered`) |
| `CoreRequests` | a signed request runs at most once, whoever else uses its nonce (`ServedOnce`); nonces are spent only by requests whose signature verified, for their own vault, and a token that is gone opens nothing (`OnlyTheirs`); and, of `Wire`, for every input: a request arrives at its handler (`RoutedAsAsked`), a refusal is told for what it is (`RefusalsUnderstood`), a write lands only on what its writer saw (`WritesLandOnWhatWasSeen`), what is sealed opens only in its place (`OpensInPlace`), and what is accepted is what was signed (`SignedAsSent`) |
| `Rekey` | two rekeys of nodes of a tree, from the project's key or from an environment's, interrupted twice anywhere, resumed or aborted: every retained version stays discoverable and no entry leads nowhere (`TreeWhole`), every rekey ends (`RekeyEnds`); and, with writes, additions, removals, late links and resumed aborts, a rekey retires only what discovery no longer reaches (`RetiresUnreached`), and a recorded plan always has its keys (`PlanKept`) |
| `RekeyAbortResumed` | **violated**: see below |
| `HandleShared` | two threads on a handle, with writes, rotations, a restored server, reopened handles and restarts: the handle's view always descends from the remembered one (`ViewSound`); a latest version once seen is never followed by an older one under the same keys, the generation goes back only when two refreshes race, and the audit head only moves along its chain (`NothingUnseen`); a confirmed "not found" is true; an alarm means a restored server or one of two races named below (`AlarmsExplained`) |
| `Environments` | an environment whose addition reached its parent's record stays listed until it is removed (`AddedStaysListed`); a discovery that ends knows everything below its root that was listed throughout (`DiscoversListed`); on a machine whose commands did not overlap the keys `config.toml` claims are in the key store (`HeldKept`); what lies above an environment in daily use does not expire (`AncestorsOutlive`) |
| `TokenAccess` | a revoked token gets no key, value or accepted write of any later generation (`RevokedShutOut`); every token has exactly the keys its scope may use, and an allow-list never widens (`WithinGrant`); a view is of one generation, and a listing under the current one is complete (`ViewsWhole`); a rotation strands no token and no acknowledged write (`NothingStranded`) |
| `NonceBurn` | **violated**: see below |
| `Local` | `gv ui` in some behaviours: `UiSession` implements `TerminalDecides` (`Decides`); a page overwrites only a version it showed (`NoBlindOverwrite`); unless the loop is held up for ever, a copied value leaves the clipboard and every question is settled (`NothingLingers`).  Commands that write files in the others: while they run one at a time a replaced file is whole after every step, kill and power failure (`WholeAlone`), and a key whose `set` returned is in the file (`KeysKept`) |
| `RotationBody` | **violated**: see below |

**Bounds.**  A state of `VaultStore` is determined per vault and, for records,
per name.  Two names are the least that a rotation can swap and that a quota of
one can tell apart; three versions with two retained are the least at which
pruning, a tombstone and a revival all happen to one name.  The runs split the
rest by what interacts: records with rotation; tokens, kinds and children with
deletion and time.  Two vaults on two row ids are left to the proofs, which cover
any number.  `MaxRevision`, `MaxAudit` and `MaxJournal` bound the length of a
history: five changes of a vault, two critical operations.

In `CriticalJournal` three operations and three faults suffice for a backup, a
deletion, a creation under the same id, a restore and a crash during the replay; the
safety properties were also checked with four operations and two faults.

In `CoreRequests` one request of any kind (`Sent`), delivered any number of times on two
threads, meets itself at every step, meets a read that another signer, or the same one,
signed with the same nonce (`Extra`; `MaxSigned` is two requests in all), and tokens are
reported at any moment; a clock of 0 to 3 with a skew of 1 spans a signature's window,
its purge and the tick after it.  Two vaults,
names, tokens, generations and versions are the least of which `Sealing` and `Signing`
could take one for the other; `HttpApi` is checked over its whole tables, with three
versions so that a value, its tombstone and its revival are apart.

In `Rekey` four nodes, three at first, have a node with a parent, a child and a
sibling to be added below it; node 2 retains three versions, a tombstone first, so
that `copy_from` skips, prunes and resumes in the middle.  Three keys are two rekeys
of nodes that may lie above or below one another, in the behaviours of a machine that
is alone; with others at work there is one.  `MaxFail` is two interruptions.

In `VaultHandle` two threads are the least that overtake one another.  `Workloads`
says which calls they make and gives each combination its own bounds: three
generations where descriptors race (one to hold, one to fetch, one to have rotated
to), two versions where versions do, five audit rows with a page of one row, so that a
page ends anywhere.

In `TokenAccess` every scope is exercised with reads and writes over two generations,
allow-lists and listings over three, and two owner handles rotate against each other
once; pages hold one record, and the indexes of `MCHmac` move below where they were,
so that a listing can be overtaken.  In `Environments` two processes give three
commands between them (four where a project is made first, six of daily use), two
attempts at a children record are the least at which a conflict is retried and given
up, and days, granularity and idle window are 2, 1 and 4, the smallest that
`IdleAssumption` admits: an ancestor is touched at least every `2 * Day - 1` ticks
and the server may have that a granularity too early.

`UiSession` and `PrivateFiles` share no state, and `MCLocal` runs one or the other.  In
the first, two questions over two links are the least of which one can be mistaken for
the other, and a secret and a minted token are two values to copy; its properties were
also checked with two secrets.  The second has two processes and at most two files
created, enough for one command to be overtaken by another between any two of its
calls; it was also checked with three.
`RotationBody` has the limits of the repository's own test of the bound.

Deadlock is not checked: a server with no request to serve waits, and every
bounded counter ends at its bound.

**Fairness.**  In `CriticalJournal` a server that is down is
started and replays (`WF(StartNext)`: `Core::open` is a loop over a finite
list, and a supervisor restarts the process), and an operation under way goes on
to its hook and commit (`WF(put \/ commit)`: one thread, straight-line code).
Nothing is assumed of clients, crashes or the operator.  In `Rekey` a command
that runs goes on (`WF(RunNext)`), an owner with a rekey in progress resumes it
(`WF(rekey_resume)`), and aborts it if resuming keeps failing while aborting stays
possible (`SF(abort_rekey)`): those are the two commands every message about an
interrupted rekey names.  In `UiSession` the loop's own steps go on (`WF(Loop)`: the
thread runs, and its wait for the head of a request has a timeout) and time passes for
an open question and for each copied value (`WF(question_ages)`, `WF(copy_ages(v))`).
No fairness is given to what the loop waits for without a timeout.  That it comes is
the premise of `NothingLingers`, `WaitsEnd`: again and again the loop is not waiting.
Nothing in the code sees to it, so without the premise the conclusion fails: a peer that
opens a request and never ends its body, which needs no cookie, one that does not take
its answer, or a clipboard tool that hangs keeps a copied value on the clipboard and a
question open for good, and `gv ui` from ending at Ctrl-C, where `docs/local-ui.md:61`
says that the clipboard is cleared after 30 seconds and when `gv ui` exits.


## Where code and documents disagree

**An abort that failed half way must not be resumed** (`RekeyAbortResumed`).
`abort_rekey` deletes the new vaults one by one and forgets the plan last.  The plan
still says `migrated` when it is interrupted, so `gv rekey --resume`, which the
documents offer for any interrupted rekey, links the parent to a key whose vaults
are partly gone and deletes the old ones, with the only copies.

**A vault within its quotas may be too large to rotate** (`RotationBody`).
`Limits::max_rotation_body` is documented as the largest body "that a vault at these
quotas can produce" (`proto/api.rs:550`), and the server's body limit is derived from it
(`server/config.rs:227`).  It counts `max_names * max_versions` versions.  But the
quota counts live names only (`backend/sqlite.rs:1276-1288`), and a deleted name keeps
its retained versions, which every rotation carries along.  Names created and
deleted again add versions without end as long as their bytes fit, each costing
more in the body than in the vault.  The rotation that should cut off a revoked
token is then refused.

**Another signer of the vault can spend a request's nonce** (`NonceBurn`).  "The nonce is
spent only after the signature verifies (so nobody can burn someone else's nonces)",
says `server_core/auth.rs:12-13`, and `docs/spec/signatures.md:90-91` says the same.  The
row that `spend_nonce` inserts is of the vault and the nonce, without the signer
(`auth.rs:176-183`).  Whoever else holds a key of the vault, be it a token of another
scope, may sign a request with a nonce the owner uses; when that one is authenticated
first, the owner's is refused.  What does hold is `SpentSigned`: no one without a key
of the vault does that, and nobody for another vault.

### Disagreements without a run

These showed up while modelling.  Each is either excluded by a condition that the
property names, or outside the bounds of a run.

**A refused operation can happen later.**  The guide says that when the journal cannot
be written a critical operation returns 503 and changes nothing (`docs/guide.md:120`).
`FileJournal::put` renames the record into place and then syncs the directory.  When
only that sync fails, the transaction rolls back and the client is told 503, but the
record is there: the next start replays it.  Until then every other critical
operation fails, because its number is taken.  A replayed rotation or deletion also
takes back the writes acknowledged since.  `RefusedNotApplied` speaks of the
operations that are not in `stray`; acknowledged operations stay in force.  With
`"lost_entry"` among the `Faults` (an unflushed entry lost after it was replayed once, and a
backup taken in between put back) a record of an acknowledged operation can share
its number with one already counted as applied.

**A caller is bound to a row id.**  `Caller` is documented as "bound to exactly one
vault" (`server_core/auth.rs:38`), but handlers use the row id read at
authentication, and ids are reused.  Two deletions of a vault are authenticated; the
first deletes it, another client's creation gets its row id, and the second deletes
that vault.  Writes are protected by the generation and the writer key they are
signed for, reads and deletions are not.

**Two refreshes race.**  The protocol says that a client refuses a descriptor of a
generation lower than one it verified (`docs/spec/protocol.md:307`), and one handle
serves every thread.  `Handle::refresh` fetches, reads the pin, checks, and then sets
view and pin, each under its own lock.  A thread that fetched before a rotation may
set both after one that fetched behind it: the handle works under the old keys
again, and every call fails as stale until the next refresh.  When the four assignments
interleave, the pin can stay behind the view, and a server put back to the pinned
generation is then accepted.  `GenerationNeverBack` allows exactly this; `ViewDescends`
holds without exception.

**An audit of a busy server may fail.**  "A server that is merely ahead is fine", says
`check_server_head` (`proto/audit.rs:520`).  But `audit_after` reads the rows and the
head by two statements outside a transaction.  A row appended in between, by any
read of a secret, leaves the head one ahead of the last row, and the client reports
that verification failed.  Nothing is recorded, and the next audit succeeds.

**False and missed alarms of the version pins.**  An answer checked after another
thread of the handle was given a newer one is refused as `version_rollback`, on an
honest server (`AlarmsExplained` allows exactly this).  Version pins are kept by index,
and a rotation changes every index: a server put back and then rotated by another
owner may show an older version than was seen before the rotation, unnoticed, which is
why `MonotonicReads` is claimed under the same keys.  `moved_on` compares generation
numbers only: when a restored server was rotated again up to the number the handle has,
its misses are reported as "not found", which is why `NotFoundIsTrue` is claimed of a
server that was never put back.

**What others do during a rekey.**  `TreeWhole` and `RekeyEnds` are claimed of a machine
that is alone (`Undisturbed`).  A version that a token holder writes between the copy and
the deletion is lost.  An environment added below the node after the plan was made is
not moved, and its only entry is deleted.  An environment removed before the old
vaults are retired stops the rekey for good: every resume fails at the missing entry
and an abort is refused.  A link that lands after the abort's check leaves the parent's
entry leading to a deleted vault.  None of these is noticed by the code;
`docs/guide.md` does not say that a subtree must be left alone while it is rekeyed.

**An allow-list does not survive a rotation.**  The list of a token is of name HMACs
of the generation it was minted in; a rotation moves every name and leaves the list
(`backend/sqlite.rs:813`).  The documentation of `refresh` (`token.rs:262`) has a
handle go on under the new keys; one with an allow-list is refused everything from
then on.  It never reads more (`AllowNeverWidens`).

**A listing may end short.**  Every page with items carries a generation to check, but
the empty page that ends a listing does not.  A rotation that moves the remaining
names below the cursor leaves a list that is short and is not reported;
`ListingsWhole` excludes a vault rotated past the view.

**A line typed early answers a later question** (`cli/ui/app.rs:299`).  Typed lines queue,
and the loop takes all of them before it serves a request: a `y` typed before a question
was printed stays in the channel only until the next turn, but one typed while the
loop waits for a request is taken for the answer to the question that request raises.
`TerminalDecides` asks that the session be open, not that the question was seen.

**A loop that is held up clears nothing.**  The clipboard "is cleared after 30 s, and when
`gv ui` exits", says `docs/local-ui.md:61`.  Not while the loop waits for a body, an answer
to be taken or a clipboard tool (see Fairness); `NothingLingers` has the premise that it
does not wait for ever.

**Files and processes.**  Files are written "always atomically", says `cli/fsutil.rs:1`.
The temporary name is the same for every process (`cli/fsutil.rs:24`): one may unlink and
create again what another is about to rename, and `AlwaysWhole`, without the condition of
`WholeAlone`, fails.  A kit, which that line names too, is not replaced by a rename but
written in place (`create_private`), so that a kill leaves a part of it under its name:
`WholeAlone` is about the other three files only.  Two commands on one machine also load, change and save the whole
state without a lock, and the later save takes back the earlier; `HeldKept` and `KeysKept`
exclude overlapping commands.

**A conflict that is not called one.**  The comment on `kind_of` (`error.rs:165-172`)
says that for a protocol code without a kind of its own `Error::kind` takes the kind from
the status.  `Error::kind` does so only for a code it does not know: `challenge_reused`,
a 409, is `Other`, where a client too old to know it says conflict.
`RefusalsUnderstood` names the exception.


## Proofs

Each proof module proves its component's safety properties for every value of the
constants that satisfies the assumptions of the component's module: any number of
threads, processes, names, tokens, environments, operations and faults.  In each, an
inductive invariant (`IInv`) is shown to hold at first and to be kept by every action,
and the properties follow from it.  TLC checked every `IInv` on the instance of the
component's run before it was proved.  `LocalProofs` is about two components, so
`PrivateFiles` says `FilesInit`, `FilesNext` and `FilesSpec` where others have `Init`,
`Next` and `Spec`.

| Module | Theorem | Statement |
|---|---|---|
| `VaultStoreProofs` | `TypeCorrect` | `Spec => []TypeOK` |
| | `RotationUniform` | `Spec => []GenerationUniform` |
| | `HeadsCorrect` | `Spec => []HeadsAgree` |
| | `CascadeComplete` | `Spec => []NoOrphans` |
| | `ChainUnbroken` | `Spec => []DescriptorChain` |
| | `VersionsOnce` | `Spec => VersionsAssignedOnce` |
| | `RotationWhole` | `Spec => RotationLosesNothing` |
| | `StorageAccounted` | `Spec => []StorageExact` |
| `CriticalJournalProofs` | `JournalAnswersHold` | without `"lost_entry"`: `Spec => []AnswersHold` |
| | `JournalReplayRight` | without `"lost_entry"`: `Spec => []ReplayRight` |
| `CoreRequestsProofs` | `RequestsServedOnce` | `Spec => []ServedOnce` |
| | `RequestsOnlyTheirs` | `Spec => []OnlyTheirs` |
| `TokenAccessProofs` | `TokenRevokedShutOut` | `Spec => []RevokedShutOut` |
| | `TokenWithinGrant` | `Spec => []WithinGrant` |
| | `TokenViewsWhole` | `Spec => []ViewsWhole` |
| | `TokenNothingStranded` | `Spec => []NothingStranded` |
| `VaultHandleProofs` | `HandleViewSound` | `Spec => []ViewSound` |
| | `HandleNothingUnseen` | `Spec => NothingUnseen` |
| | `HandleNotFoundIsTrue` | `Spec => NotFoundIsTrue` |
| | `HandleAlarmsExplained` | `Spec => AlarmsExplained` |
| `EnvironmentsProofs` | `EnvironmentsAddedStaysListed` | `Spec => []AddedStaysListed` |
| | `EnvironmentsDiscoversListed` | `Spec => []DiscoversListed` |
| | `EnvironmentsHeldKept` | `Spec => []HeldKept` |
| | `EnvironmentsAncestorsOutlive` | `Spec /\ []RootHeld => []AncestorsOutlive` |
| `RekeyProofs` | `PlanIsKept` | `Spec => []PlanKept` |
| | `RetiresOnlyUnreached` | `Spec => RetiresUnreached` |
| | `TreeIsWhole` | without `"resume_aborted"`: `Spec => []TreeWhole` |
| `LocalProofs` | `UiDecides` | `Spec => Decides`, the refinement |
| | `UiNoBlindOverwrite` | `Spec => []NoBlindOverwrite` |
| | `FilesWholeAlone` | `FilesSpec => []WholeAlone` |
| | `FilesKeysKept` | `FilesSpec => []KeysKept` |

**VaultStore** (finite sets of names and tokens, natural limits).  `IInv` is the
conjunction of the five invariants, which need one another.  That a rotation
leaves no token on the old generation needs to know that every token of the vault is
in the batch, which `rotate_accepts` gives, and that a deletion takes tokens with it
(`NoOrphans`), or else a later vault on the same row id would inherit them.
`HeadsAgree` needs that no head outlives its vault for the same reason.  That an
uninterrupted chain of descriptors grows by one needs the batch's `fromGeneration` to
be the vault's.  Actions that share an effect (`Refuse`, `write_version`, `rotate`)
have a lemma each.

`RotationWhole` and `StorageAccounted` need more than `IInv`.  `BatchSound` says what a
batch holds between the requests that gather it: unless the vault's revision has moved
since, or the vault is gone, each entry is a stored row under one renaming per kind.  It
holds because every change of a record moves the revision, and because a vault created
again under the same id is born later than the one the batch is of; `rotate_accepts`
compares both, and `check_complete` then leaves no row out.  `StorageExact` is inductive
together with `IInv` and `BatchSound`.  The byte counts need what a sum over rows is:
`TotalBytes` is shown to be the number of the rows' bytes counted one by one, which
satisfies the equation of the fold, and a least counterexample shows that nothing else
does; sums of disjoint sets follow from cardinalities.  `prunable` is shown to take
exactly the versions a limit's worth behind the one to be written, by counting a run of
versions that are each stored once.  Through a rotation every head is one from before
under its new name, so that runs stay runs, and the live names map one to one to the old
ones.  That `bytes_after` is a sum also shows that the unsigned subtraction in
`put_record` cannot wrap and the saturating one in `delete_record` cannot saturate.

**CriticalJournal.**  Without `"lost_entry"` among the `Faults` the journal is a history
`1..n` that only grows.  `db`, `synced` and `backup` are each a point of it (`Sound`): a
copy has the effect of every record up to its `last`, and what follows in the journal
fits it record by record, revocations and rotations of the generation it is then at,
until its vault is deleted.  Committing an operation is replaying its record on the
database it was checked against, so that one lemma covers `commit` and `replay`, and a
crash, a power failure and a restore only choose another point.  With `"lost_entry"`
the history can fork (see above), and the theorems claim nothing.

**CoreRequests** (`MaxStall <= Skew`).  A row of `spent` is that of a request whose signer
signed it, and is kept until that signature is too old, whoever else used the nonce
before or tries to meanwhile (`SpentOwn`); a thread that has not spent its nonce read the
clock at most `MaxStall` ago, within a skew of the signature (`ClocksNear`); and a request
that was used still has its own row in `spent`, or is older than that (`RunsOnce`).  The
purge is safe for exactly that reason.

**TokenAccess** (secrets are finitely many, indexes positive and all different, as HMACs
of different names or under different keys are).  Per token: what the server has read of
its row for a request still in progress (`hold.seen`) was a live row once, so what the
holder can still learn from it is of its scope and of a generation before the revocation
(`SeenExact`, `Learned`).  Per listing: what was collected is every name up to the last
page's last index (`ListExact`).  Per owner's handle: a batch still at the vault's
revision holds the vault's records (`JobExact`), which is what the store's strict check
compares.

**VaultHandle** (any page size, workload and number of threads).  The server's descriptors
and rows are chained, and so is the copy taken of it (`Stored`).  Until the copy is put
back, everything remembered, pinned or on its way in an answer is still on the server at
the place it was read from (`OnChain`, `InLog`, `Served`), and an answer that was not
overtaken is at least as new as the pin: that is why a correct server raises no alarm.
Once it is put back only what was verified holds: views, pins and heads descend from what
was remembered (`Family`, `History`), and no version seen is above its pin.  A step of the
server is summed up once (`Grows`: chains only grow, unless the copy is put back), and one
lemma per kind of call says that what it carries outlives such a step, so that each action
is left with its own thread.  `GenerationNeverBack` needs `InOrder`, what the one thread
that refreshes keeps between the view's lock and the pin's; with two such threads it is
false (*Two refreshes race*, above).

**Environments** (a workload starts from a whole tree, or from none).  What a step may do
to the server is stated once (`Moves`): a vault that was there before and is still the
same has the same record or one of a later version.  From it follows that the version
a process read tells whether the record has changed (`Reads`), the reason why a write
under `If-Match` loses no other's, and that what a discovery saw lists what it has
still to look at (`Explores`).  `DiscoversListed` takes the least node on the way up that
was not found.  `Holds` says of a machine with commands under way that a key missing
from its key store was taken by a removal that will save that.

`AncestorsOutlive` needs to know what the machines remember of the server's times
(`Daily`).  A machine that knows an environment knows the one above it (`Knows`), and the
time it noted of that one is no later than the server's but for the granularity (`Told`).
That does not hold of every node: an addition that finds a vault nobody lists notes a time the
server may not have, which is harmless as long as the machine knows nothing below it.  So
`keep_alive` skips a vault only when the server was reached for it within the day, and
after each use every vault on the way up has a time at most `Late = Day - 1 +
Granularity` before that use; with the clock at most a day past the last use this
is exactly what the assumption `Idle >= 2 * Day - 1 + Granularity` covers.  `RootHeld` is
a condition on the workload: no machine holds a key on the way up from the environment in
daily use, other than the project's.  Without it the property is false, since
`keep_alive` stops at the key held: an environment used only from a machine that was
given its own key does not keep the project alive.

**Rekey** (any tree whose nodes have smaller parents, any part of it that exists at first
and has each node's parent with it, any keys the machine holds, any number of rekeys,
interruptions and versions).  Four invariants, each resting on the ones before.

* `Keeps`: the two state files, the key store and the server's records are well formed,
  and the keys of a recorded plan are in the key store (`KeysKept`).  That is not
  inductive alone: a command that records or forgets a plan does it in several saves, so
  `Control` says at which of them which keys are already, or still, there.  `PlanKept` is
  part of it.
* `Flow`: what a running command knows of the recorded plan at each step.
* `Places`: whose keys the vaults and the children records name, whatever other machines
  do.  A new key has no vault before its plan is recorded (`NewUnused`), and nobody else
  adds to the new subtree before it is linked (`NewTree`), so that an abort's loop
  reaches all of it (`AbortLeft`).  An entry on the way this machine takes leads to the node's key of now,
  to the key of the plan in progress, or to a key under which nothing is left (`Lists`),
  and a link nobody waits for is older than the record it would replace, or names a key
  that is gone, or links the rekey in progress (`LateHarmless`): every link that is
  acknowledged moves the record's version on, so that `If-Match` refuses the late one.
  Once the parent is linked nothing takes the link back (`LinkStays`), and from then on
  discovery cannot reach the old key, which is `RetiresUnreached`.
* `Quiet`, of a machine that is alone: each node's vault is under the key its parent
  lists, with its whole record, the old one before the recorded step is `linked` and the
  new one from then on (`Tree`, `Home`); in between, the link may or may not have been
  applied (`Landing`), and both subtrees are whole.  The copy of a node has a prefix of
  its versions, as long as the step and the loop say (`Copy`).  That an abort deletes
  only before the link, and is not resumed, is `AbortGoes`: with `"resume_aborted"` it
  fails and so does `TreeWhole` (`RekeyAbortResumed`, above).  `TreeWhole` follows,
  since whatever discovery finds is at the node's home, or in the landing subtree.

The ancestors of a node (`Above`) and what discovery finds are recursive functions on the
tree: a lemma on such functions (`TreeFunction`) gives one that satisfies their equation,
and least counterexamples give what they compute.
TLC checked `Quiet` on the run's workloads of a machine that is alone before it was
proved.  The proof found two faults of the model: a children record's version was typed
with a bound that enough writes exceed, and the nodes there at first were not required
to have their parents among them.

**UiSession.**  What waits for the terminal, and a token that waits to be taken, were
asked for by the session that is open (`OfTheSession`): `App::forget` has reached every
other.  The link that can be exchanged is newer than every session there was
(`SessionsGrow`), so a session number never returns.  Each step of `UiSession` is then a
step of `TerminalDecides` or leaves its variables alone.

**PrivateFiles.**  A file is whole once it is synced, and a command renames only a file it
made and synced.  While commands run one at a time the temporary name is still that file
at the rename, no file under a lasting name is written to any more (`Alone`), and the
value being written has every acknowledged key (`Kept`).

**Model-checked only.**  Liveness (`Restarts`, `Answered`, `RekeyEnds`, `NothingLingers`)
is out of the prover's reach.  The properties of `Wire` are about finite tables, which
TLC checks whole.  What a recursive function computes is proved where its defining equation
suffices: `Up` of `Environments`, `Ancestry` of `VaultHandle` and the fold behind
`TotalBytes` are shown to satisfy their own by exhibiting a function that does, and least
counterexamples replace induction.


## What is not modelled

Cryptography is symbolic: that a signature cannot be forged and a ciphertext tells
nothing is assumed, and key derivation and byte formats are left out.  `Sealing` and
`Signing` model what is bound to what.

* The data directory's lock and file modes, sockets, TLS, proxies and configuration
  are I/O of the operating system.
* Admission (proof of work, request budgets) and relink of a restored parent record.
* Archived audit rows, unknown audit actions, and the tolerance for unknown fields in
  messages.
* The text of kits, pages and command output; argument parsing and prompts; the embedded
  vault, the Python binding and the binaries, which call the same library.
* The conformance and adversary suites, which are tests.
* In `Rekey`, the pins and touch times it clears, the list of tokens to mint again, and an
  environment removed and added again under the same name within one rekey: its vault
  would have the key of the one the rekey is about to delete.

`PROJECT.json` names every component with its status.


## Plan

Done: every module above, and the proofs of nine of them.  Left, in this order:

1. An abstract specification of a vault, as a client sees it, which `VaultStore`
   implements.
2. Admission and relink.
