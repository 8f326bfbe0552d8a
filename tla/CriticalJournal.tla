--------------------------- MODULE CriticalJournal ---------------------------
(***************************************************************************)
(* Critical operations and their journal (server_core/journal.rs,          *)
(* Core::critical, Core::open and Store::replay).                          *)
(*                                                                         *)
(* A revocation, a rotation or a deletion writes its journal record while  *)
(* its transaction is open, commits, and is answered.  A server that       *)
(* starts replays the records its database has not applied.  Between any   *)
(* two steps the process may die, the machine may lose power, and while no *)
(* server runs the operator may put back an older copy of the database.    *)
(*                                                                         *)
(* One vault id, whose vault may be deleted and created again.  The        *)
(* database is a record; what a transaction does inside is VaultStore.     *)
(***************************************************************************)
EXTENDS Integers, FiniteSets, FiniteSetsExt, Functions

CONSTANTS
    TokenId,        \* token ids; each is minted at most once
    WriteId,        \* ordinary writes, each of a name of its own
    Faults,         \* what may go wrong, and whether older copies are put back
    MaxOp,          \* bound: critical operations and creations asked for
    MaxGeneration,  \* bound: generations of a vault
    MaxCrash        \* bound: crashes, power losses and restores

ASSUME JournalAssumption ==
    /\ Faults \subseteq {"put", "sync_dir", "commit", "crash", "power", "lost_entry", "restore"}
    /\ {MaxOp, MaxCrash} \subseteq Nat /\ MaxGeneration \in Nat \ {0}

VARIABLES
    db,        \* vault.db, as committed
    synced,    \* the commit a power loss falls back to
    backup,    \* the operator's older copy of vault.db
    journal,   \* the journal directory: sequence number -> record
    flushed,   \* the records whose directory entry is on disk
    server,    \* "down", "opening" or "up"
    todo,      \* the records list_after returned, not yet replayed
    tx,        \* the open transaction of a critical operation
    acked,     \* critical operations answered with success
    refused,   \* critical operations answered 503
    stray,     \* critical operations that failed with their record in place
    held,      \* acknowledged writes neither deleted, nor lost with the power,
               \* to a restore, or to a stray operation that is replayed
    asked,     \* operations asked for so far
    used,      \* token ids and writes used so far
    crashes    \* crashes, power losses and restores so far

vars == <<db, synced, backup, journal, flushed, server, todo, tx, acked, refused,
          stray, held, asked, used, crashes>>
disk == <<synced, backup, flushed, journal>>
client == <<acked, refused, stray, held, asked, used>>

\* A database: the vault (0: none), its generation, its tokens with the
\* generation each one's bundle is sealed under, its writes, last_applied,
\* and which operations have changed it.
Db == [vault : 0..MaxOp, generation : 0..(MaxGeneration + 1),
       tokens : SUBSET (TokenId \X (1..(MaxGeneration + 1))),
       writes : SUBSET WriteId, last : 0..MaxOp, applied : SUBSET (1..MaxOp)]

\* JournalOp.  A rotation's record is the whole request: the generation it
\* starts from, every version, the tokens it reseals and those it revokes.
Record == [id : 1..MaxOp, op : {"revoke", "rotate", "delete"}, vault : 1..MaxOp,
           from : 1..MaxGeneration, writes : SUBSET WriteId,
           resealed : SUBSET TokenId, revoked : SUBSET TokenId]

Tx == [op : Record, after : Db, stage : {"hook", "commit"}]
NoTx == [stage |-> "none"]

TypeOK ==
    /\ {db, synced, backup} \subseteq Db
    /\ journal \in [DOMAIN journal -> Record] /\ DOMAIN journal \subseteq 1..MaxOp
    /\ flushed \subseteq DOMAIN journal
    /\ server \in {"down", "opening", "up"}
    /\ todo \subseteq DOMAIN journal
    /\ tx \in Tx \cup {NoTx}
    /\ {acked, refused, stray} \subseteq SUBSET Record
    /\ held \subseteq WriteId
    /\ asked \in 0..MaxOp
    /\ used \subseteq TokenId \cup WriteId
    /\ crashes \in 0..MaxCrash

Empty == [vault |-> 0, generation |-> 0, tokens |-> {}, writes |-> {}, last |-> 0,
          applied |-> {}]

Init ==
    /\ db = Empty /\ synced = Empty /\ backup = Empty
    /\ journal = [s \in {} |-> {}] /\ flushed = {}
    /\ server = "down" /\ todo = {}
    /\ tx = NoTx
    /\ acked = {} /\ refused = {} /\ stray = {} /\ held = {}
    /\ asked = 0 /\ used = {} /\ crashes = 0

-----------------------------------------------------------------------------
(* What an operation does to a database. *)

Tokens(d) == {x[1] : x \in d.tokens}

\* delete_tokens.
delete_tokens(d, ids) == [d EXCEPT !.tokens = {x \in @ : x[1] \notin ids}]

\* The DELETE of a vault, and its cascade.
delete_row(d) == [d EXCEPT !.vault = 0, !.generation = 0, !.tokens = {}, !.writes = {}]

\* Mutant of rotate: the surviving tokens keep their old bundles.
rotate_unsealed(d, r) ==
    [delete_tokens(d, r.revoked) EXCEPT !.generation = r.from + 1, !.writes = r.writes]

\* rotate: the batch replaces every record, and the tokens it names move.
rotate(d, r) ==
    [delete_tokens(d, r.revoked) EXCEPT
        !.generation = r.from + 1,
        !.writes = r.writes,
        !.tokens = {<<x[1], IF x[1] \in r.resealed THEN r.from + 1 ELSE x[2]>> : x \in @}]

\* The effect of a live operation, its checks having passed.
effect(d, r) ==
    CASE r.op = "revoke" -> delete_tokens(d, r.revoked)
      [] r.op = "rotate" -> rotate(d, r)
      [] r.op = "delete" -> delete_row(d)

\* Store::replay: lenient, and by vault id.  An operation that finds nothing
\* to do is skipped; last_applied moves in any case.
replayable(d, r) ==
    /\ d.vault # 0
    /\ r.op = "revoke" => r.revoked \cap Tokens(d) # {}
    /\ r.op = "rotate" => d.generation = r.from
\* Mutant of replayed: last_applied stays.
replayed_unmarked(d, seq, r) ==
    IF seq <= d.last \/ ~replayable(d, r) THEN d
    ELSE [effect(d, r) EXCEPT !.applied = @ \cup {r.id}]

replayed(d, seq, r) ==
    IF seq <= d.last THEN d
    ELSE IF replayable(d, r)
    THEN [effect(d, r) EXCEPT !.last = seq, !.applied = @ \cup {r.id}]
    ELSE [d EXCEPT !.last = seq]

-----------------------------------------------------------------------------
(* Ordinary requests: committed and acknowledged in one step.  The writer   *)
(* connection's lock keeps them out of an open transaction.                 *)

Serving == server = "up" /\ tx = NoTx

create_vault ==
    /\ Serving /\ db.vault = 0 /\ asked < MaxOp
    /\ asked' = asked + 1
    /\ db' = [db EXCEPT !.vault = asked + 1, !.generation = 1]
    /\ UNCHANGED <<disk, server, todo, tx, acked, refused, stray, held, used, crashes>>

register_token(t) ==
    /\ Serving /\ db.vault # 0 /\ t \notin used
    /\ used' = used \cup {t}
    /\ db' = [db EXCEPT !.tokens = @ \cup {<<t, db.generation>>}]
    /\ UNCHANGED <<disk, server, todo, tx, acked, refused, stray, held, asked, crashes>>

put_record(w) ==
    /\ Serving /\ db.vault # 0 /\ w \notin used
    /\ used' = used \cup {w}
    /\ db' = [db EXCEPT !.writes = @ \cup {w}]
    /\ held' = held \cup {w}
    /\ UNCHANGED <<disk, server, todo, tx, acked, refused, stray, asked, crashes>>

-----------------------------------------------------------------------------
(* A critical operation: its checks and its writes, the commit hook, the    *)
(* commit and the answer.                                                   *)

begin(r) ==
    /\ Serving /\ db.vault # 0 /\ asked < MaxOp
    /\ asked' = asked + 1
    /\ tx' = [op |-> r, stage |-> "hook",
              after |-> [effect(db, r) EXCEPT !.last = @ + 1, !.applied = @ \cup {r.id}]]
    /\ UNCHANGED <<db, disk, server, todo, acked, refused, stray, held, used, crashes>>

Request(op) == [id |-> asked + 1, op |-> op, vault |-> db.vault, from |-> db.generation,
                writes |-> {}, resealed |-> {}, revoked |-> {}]

revoke_tokens(ids) ==
    /\ db.vault # 0 /\ ids \cap Tokens(db) # {}
    /\ begin([Request("revoke") EXCEPT !.revoked = ids \cap Tokens(db)])

\* The strict checks leave one batch: everything stored, every survivor.
apply_rotation(ids) ==
    /\ db.vault # 0 /\ db.generation < MaxGeneration /\ ids \subseteq Tokens(db)
    /\ begin([Request("rotate") EXCEPT !.writes = db.writes, !.revoked = ids,
                                       !.resealed = Tokens(db) \ ids])

delete_vault == db.vault # 0 /\ begin(Request("delete"))

\* Mutant of fail: the transaction is committed all the same.
fail_committed ==
    /\ tx' = NoTx
    /\ refused' = refused \cup {tx.op}
    /\ db' = tx.after
    /\ UNCHANGED <<synced, backup, server, todo, acked, held, asked, used, crashes>>

\* The operation fails: the transaction rolls back and the answer is 503.
fail ==
    /\ tx' = NoTx
    /\ refused' = refused \cup {tx.op}
    /\ UNCHANGED <<db, synced, backup, server, todo, acked, held, asked, used, crashes>>

\* FileJournal::put.  It refuses a sequence number that is taken; it may fail
\* before the rename, or at the directory sync after it.
put_taken == tx.after.last \in DOMAIN journal /\ fail /\ UNCHANGED <<journal, flushed, stray>>

put_fails == /\ tx.after.last \notin DOMAIN journal
             /\ "put" \in Faults
             /\ fail /\ UNCHANGED <<journal, flushed, stray>>

renamed == [s \in DOMAIN journal \cup {tx.after.last} |->
               IF s = tx.after.last THEN tx.op ELSE journal[s]]

sync_dir_fails == /\ tx.after.last \notin DOMAIN journal
                  /\ "sync_dir" \in Faults
                  /\ journal' = renamed
                  /\ stray' = stray \cup {tx.op}
                  /\ fail /\ UNCHANGED flushed

put_succeeds ==
    /\ tx.after.last \notin DOMAIN journal
    /\ journal' = renamed
    /\ flushed' = DOMAIN journal'
    /\ tx' = [tx EXCEPT !.stage = "commit"]
    /\ UNCHANGED <<db, synced, backup, server, todo, client, crashes>>

\* Mutant of put: it waits for the sequence number to be free.
put_waits == tx.stage = "hook" /\ (put_fails \/ sync_dir_fails \/ put_succeeds)

put == tx.stage = "hook" /\ (put_taken \/ put_fails \/ sync_dir_fails \/ put_succeeds)

commit ==
    /\ tx.stage = "commit"
    /\ db' = tx.after
    /\ acked' = acked \cup {tx.op}
    /\ held' = IF tx.op.op = "delete" THEN {} ELSE held
    /\ tx' = NoTx
    /\ UNCHANGED <<disk, server, todo, refused, stray, asked, used, crashes>>

\* The commit fails after the record is in place: an internal error.
commit_fails ==
    /\ tx.stage = "commit" /\ "commit" \in Faults
    /\ tx' = NoTx
    /\ stray' = stray \cup {tx.op}
    /\ UNCHANGED <<db, disk, server, todo, acked, refused, held, asked, used, crashes>>

-----------------------------------------------------------------------------
(* Starting, stopping, and the operator. *)

\* Mutant of open: the database is trusted.
open_trusting ==
    /\ server = "down"
    /\ server' = "opening"
    /\ todo' = {}
    /\ UNCHANGED <<db, disk, tx, client, crashes>>

\* Journal::list_after.
list_after(seq) == {s \in DOMAIN journal : s > seq}

\* replay_journal: the journal is listed once, then replayed in order.
open ==
    /\ server = "down"
    /\ server' = "opening"
    /\ todo' = list_after(db.last)
    /\ UNCHANGED <<db, disk, tx, client, crashes>>

\* Mutant of replay: a record with nothing to do is tried again.
replay_insists ==
    /\ server = "opening" /\ todo # {}
    /\ db' = replayed(db, Min(todo), journal[Min(todo)])
    /\ todo' = IF replayable(db, journal[Min(todo)]) THEN todo \ {Min(todo)} ELSE todo
    /\ UNCHANGED <<disk, server, tx, client, crashes>>

replay ==
    /\ server = "opening" /\ todo # {}
    /\ db' = replayed(db, Min(todo), journal[Min(todo)])
    /\ todo' = todo \ {Min(todo)}
    /\ held' = CASE /\ journal[Min(todo)].op = "delete"
                    /\ journal[Min(todo)].vault = db.vault -> {}
                 [] journal[Min(todo)] \in stray -> held \cap db'.writes
                 [] OTHER -> held
    /\ UNCHANGED <<disk, server, tx, acked, refused, stray, asked, used, crashes>>

serve ==
    /\ server = "opening" /\ todo = {}
    /\ server' = "up"
    /\ UNCHANGED <<db, disk, todo, tx, client, crashes>>

Stop == server' = "down" /\ todo' = {} /\ tx' = NoTx

\* The process dies: what is committed, and what is renamed, is there.
Crash ==
    /\ "crash" \in Faults /\ crashes < MaxCrash /\ server # "down"
    /\ crashes' = crashes + 1
    /\ Stop
    /\ UNCHANGED <<db, disk, client>>

\* Under synchronous=NORMAL the tail of the WAL may go; the file journal is
\* flushed record by record, so only unflushed entries may.
PowerLoss ==
    /\ "power" \in Faults /\ crashes < MaxCrash /\ server # "down"
    /\ flushed = DOMAIN journal \/ "lost_entry" \in Faults
    /\ crashes' = crashes + 1
    /\ Stop
    /\ db' = synced
    /\ \E S \in SUBSET (DOMAIN journal \ flushed) :
          /\ journal' = Restrict(journal, flushed \cup S)
          /\ flushed' = flushed \cup S
    /\ held' = held \cap synced.writes
    /\ UNCHANGED <<synced, backup, acked, refused, stray, asked, used>>

\* A checkpoint syncs the WAL.
checkpoint ==
    /\ "power" \in Faults /\ server = "up" /\ synced # db
    /\ synced' = db
    /\ UNCHANGED <<db, backup, journal, flushed, server, todo, tx, client, crashes>>

\* A copy of vault.db, of a state that no power loss takes back.
Backup ==
    /\ "restore" \in Faults /\ backup # db
    /\ "power" \in Faults => synced = db
    /\ backup' = db
    /\ UNCHANGED <<db, synced, journal, flushed, server, todo, tx, client, crashes>>

\* An older copy of vault.db is put back; the journal stays.
Restore ==
    /\ "restore" \in Faults /\ crashes < MaxCrash /\ server = "down" /\ db # backup
    /\ crashes' = crashes + 1
    /\ db' = backup /\ synced' = backup
    /\ held' = held \cap backup.writes
    /\ UNCHANGED <<backup, journal, flushed, server, todo, tx, acked, refused, stray, asked,
                   used>>

-----------------------------------------------------------------------------
OrdinaryNext ==
    \/ create_vault
    \/ \E t \in TokenId : register_token(t)
    \/ \E w \in WriteId : put_record(w)

CriticalNext ==
    \/ \E ids \in SUBSET TokenId : revoke_tokens(ids)
    \/ \E ids \in SUBSET TokenId : apply_rotation(ids)
    \/ delete_vault
    \/ put
    \/ commit
    \/ commit_fails

StartNext == open \/ replay \/ serve

OperatorNext == Crash \/ PowerLoss \/ checkpoint \/ Backup \/ Restore

Next == OrdinaryNext \/ CriticalNext \/ StartNext \/ OperatorNext

\* A server that runs makes progress on the request it has, and a server that
\* is down is started again.
Fairness == WF_vars(StartNext) /\ WF_vars(put \/ commit)

Spec == Init /\ [][Next]_vars /\ Fairness

-----------------------------------------------------------------------------
(* Properties. *)

\* What a client was told of a critical operation is so in database d: the
\* tokens are gone, the vault is past the rotation and has what the rotation
\* carried, the deleted vault is not back.
InForce(r, d) ==
    /\ r.revoked \cap Tokens(d) = {}
    /\ (r.op = "rotate" /\ d.vault = r.vault)
          => /\ d.generation > r.from
             /\ d.generation = r.from + 1 => r.writes \subseteq d.writes
    /\ r.op = "delete" => d.vault # r.vault

\* While a server serves, every acknowledged revocation, rotation and
\* deletion is in force, whatever crashes, power losses and restores of older
\* databases came before.
AckedInForce == server = "up" => \A r \in acked : InForce(r, db)

\* An acknowledged operation's record is never overwritten or lost, and is
\* at a sequence number of its own.
AckedJournaled ==
    \A r \in acked : \E s \in flushed : journal[s] = r

\* An operation answered 503 changes nothing, then or later, unless the failed
\* write left its record in the journal.
RefusedNotApplied == \A r \in refused \ stray : r.id \notin db.applied

\* What clients were told is so: what was acknowledged is in force and on
\* disk, what was refused without a trace did not happen.
AnswersHold == TypeOK /\ AckedInForce /\ AckedJournaled /\ RefusedNotApplied

\* A restart after a crash loses no acknowledged write: only a power loss, a
\* restore, the vault's deletion or a stray operation does.
WritesKept == server = "up" => held \subseteq db.writes

\* A replayed rotation leaves no token behind on an older generation, though
\* it runs against a database older than the one its batch was built from.
\* (A stray rotation knows nothing of the tokens minted since it failed.)
ReplayedUniform ==
    (server = "up" /\ \A r \in stray : r.id \notin db.applied)
        => \A x \in db.tokens : x[2] = db.generation

\* Replay rebuilds the state the operations were answered from: the writes
\* that should be there, and every token on one generation.
ReplayRight == WritesKept /\ ReplayedUniform

\* A server that is down is up again, once the crashes stop: replay ends.
Restarts == server = "down" ~> server = "up"

\* A critical operation is answered, or its server dies.
Answered == tx # NoTx ~> tx = NoTx

=============================================================================
