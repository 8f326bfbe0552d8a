----------------------- MODULE CriticalJournalProofs -----------------------
(***************************************************************************)
(* Proofs about CriticalJournal, for any number of tokens, writes,         *)
(* operations and faults, as long as no renamed journal entry is lost with *)
(* the power ("lost_entry").                                               *)
(*                                                                         *)
(* The journal is then a history 1..n that only grows.  The database, the  *)
(* commit a power loss falls back to and the operator's copy are points of *)
(* it: each has the effect of every record up to its last_applied, and     *)
(* what follows in the journal fits it record by record until its vault is *)
(* deleted.  Committing an operation is replaying its record on the        *)
(* database it was checked against, so that one lemma covers both.         *)
(***************************************************************************)
EXTENDS CriticalJournal, TLAPS

\* No deletion among the records a+1..b of journal j.
NoDelete(j, a, b) == \A i \in (a + 1)..b : j[i].op # "delete"

\* The generation record s leaves behind.
Turned(j, s) == IF j[s].op = "rotate" THEN j[s].from + 1 ELSE j[s].from

\* A record, given the ids and numbers used so far.
Recorded(r, u, a) ==
    /\ r \in Record /\ r.id <= a /\ r.vault <= a
    /\ r.revoked \cup r.writes \subseteq u
    /\ r.op = "rotate" => r.from < MaxGeneration

\* A database on its own.
Shaped(d, n, u, a) ==
    /\ d \in Db /\ d.last <= n /\ d.vault <= a
    /\ d.vault = 0 => d.tokens = {} /\ d.writes = {}
    /\ d.vault # 0 => d.generation \in 1..MaxGeneration
    /\ Tokens(d) \cup d.writes \subseteq u

\* What the journal holds beyond the database fits it.
Line(j, n, d) ==
    d.vault # 0 => \A s \in (d.last + 1)..n :
        NoDelete(j, d.last, s - 1) =>
            /\ j[s].vault = d.vault
            /\ s = d.last + 1 => j[s].from = d.generation
            /\ s # d.last + 1 => j[s].from = Turned(j, s - 1)

\* Every record up to last_applied is in force.
Forced(j, d) == \A s \in 1..d.last : InForce(j[s], d)

\* What has changed the database is in the journal.
Traced(j, d) == \A i \in d.applied : \E s \in 1..d.last : j[s].id = i

\* A rotation still to be replayed knows every token of the database that is
\* not revoked on the way to it.
TokenGone(j, t, a, b) == \E i \in (a + 1)..b : t \in j[i].revoked
Knows(j, n, d, st) ==
    \A s \in (d.last + 1)..n :
        j[s].op = "rotate" /\ j[s] \notin st /\ NoDelete(j, d.last, s - 1) =>
            \A t \in Tokens(d) : t \in j[s].resealed \/ TokenGone(j, t, d.last, s)

\* ... and carries every write that is held.
CarriesHeld(j, n, d, h, st) ==
    \A s \in (d.last + 1)..n :
        j[s].op = "rotate" /\ j[s] \notin st => h \cap d.writes \subseteq j[s].writes

\* Without a stray operation every token is on the database's generation.
Uniform(d, st) ==
    (\A r \in st : r.id \notin d.applied) => \A x \in d.tokens : x[2] = d.generation

Sound(j, n, d, h, st, u, a) ==
    /\ Shaped(d, n, u, a) /\ Line(j, n, d) /\ Forced(j, d) /\ Traced(j, d)
    /\ Knows(j, n, d, st) /\ CarriesHeld(j, n, d, h, st) /\ Uniform(d, st)

\* Database e is d, some records and some ordinary requests later.
Before(j, d, e) ==
    /\ d.last <= e.last
    /\ NoDelete(j, d.last, e.last) =>
         /\ d.vault # 0 => /\ e.vault = d.vault
                           /\ d.last = e.last => e.generation = d.generation
                           /\ d.last # e.last => e.generation = Turned(j, e.last)
         /\ \A t \in Tokens(d) : t \in Tokens(e) \/ TokenGone(j, t, d.last, e.last)

Copies == {db, synced, backup}

\* The journal and the three databases.
History(n) ==
    /\ DOMAIN journal = 1..n /\ n <= asked
    /\ \A s \in 1..n : Recorded(journal[s], used, asked)
    /\ \A d \in Copies : Sound(journal, n, d, held, stray, used, asked)
    /\ Before(journal, backup, db) /\ Before(journal, synced, db)
    /\ "power" \in Faults => Before(journal, backup, synced)
    /\ held \subseteq db.writes

\* Where the server is in it.
Serves(n) ==
    /\ server = "down" => todo = {}
    /\ server = "opening" => todo = (db.last + 1)..n
    /\ server = "up" =>
         /\ todo = {} /\ n \in {db.last, db.last + 1}
         /\ n # db.last => db.vault # 0 /\ (tx # NoTx \/ journal[n] \in stray)
         /\ tx # NoTx /\ tx.stage = "hook" /\ n # db.last => journal[n] \in stray

\* The open transaction: its record fits the database, and committing it is
\* replaying the record.
InTransaction(n) ==
    tx # NoTx =>
        /\ server = "up" /\ tx \in Tx /\ Recorded(tx.op, used, asked) /\ tx.op.id = asked
        /\ db.vault # 0 /\ tx.op.vault = db.vault /\ tx.op.from = db.generation
        /\ tx.op.op = "rotate" => /\ tx.op.writes = db.writes
                                  /\ Tokens(db) \subseteq tx.op.resealed \cup tx.op.revoked
        /\ tx.after = replayed(db, db.last + 1, tx.op)
        /\ tx.after.applied = db.applied \cup {tx.op.id}
        /\ tx.stage = "hook" => n < asked /\ \A s \in 1..n : journal[s].id < asked
        /\ tx.stage = "commit" => n = db.last + 1 /\ journal[n] = tx.op /\ flushed = 1..n

\* What the clients were told.
Answers(n) ==
    /\ \A r \in acked : \E s \in flushed : journal[s] = r /\ (server = "up" => s <= db.last)
    /\ \A r \in refused : r.id <= asked /\ (tx # NoTx => r.id < asked)
    /\ \A r \in refused \ stray : \A s \in 1..n : journal[s].id # r.id

IInv == TypeOK /\ \E n \in 0..MaxOp : History(n) /\ Serves(n) /\ InTransaction(n) /\ Answers(n)

-----------------------------------------------------------------------------
(* Lemmas about databases and records. *)

\* Types of the parts of a database and of a record.
LEMMA DbParts ==
  ASSUME NEW d \in Db
  PROVE  /\ d.vault \in Nat /\ d.generation \in Nat /\ d.last \in Nat /\ d.last <= MaxOp
         /\ d.tokens \subseteq TokenId \X (1..(MaxGeneration + 1))
         /\ d.writes \subseteq WriteId /\ d.applied \subseteq 1..MaxOp
  BY JournalAssumption DEF Db

\* Likewise for a record.
LEMMA RecordParts ==
  ASSUME NEW r \in Record
  PROVE  /\ r.id \in 1..MaxOp /\ r.op \in {"revoke", "rotate", "delete"} /\ r.vault \in 1..MaxOp
         /\ r.from \in 1..MaxGeneration /\ r.from \in Nat /\ r.vault \in Nat /\ r.vault # 0
         /\ r.id \in Nat /\ r.writes \subseteq WriteId
         /\ r.resealed \subseteq TokenId /\ r.revoked \subseteq TokenId
  BY JournalAssumption DEF Record

\* What remains of the tokens, and what a rotation makes of them.
LEMMA Deletes ==
  ASSUME NEW d \in Db, NEW ids
  PROVE  LET e == delete_tokens(d, ids) IN
         /\ e = [d EXCEPT !.tokens = e.tokens] /\ e.tokens \subseteq d.tokens
         /\ Tokens(e) = Tokens(d) \ ids /\ e \in Db
         /\ e.vault = d.vault /\ e.generation = d.generation /\ e.writes = d.writes
         /\ e.last = d.last /\ e.applied = d.applied
<1> DEFINE T == {x \in d.tokens : x[1] \notin ids}
<1>1. delete_tokens(d, ids) = [d EXCEPT !.tokens = T]
  BY DEF delete_tokens, Db
<1>2. {x[1] : x \in T} = {x[1] : x \in d.tokens} \ ids
  OBVIOUS
<1>3. T \subseteq d.tokens
  OBVIOUS
<1> HIDE DEF T
<1>4. delete_tokens(d, ids).tokens = T /\ delete_tokens(d, ids) \in Db
  BY <1>1, <1>3 DEF Db
<1> QED BY <1>1, <1>2, <1>3, <1>4 DEF Tokens, Db

\* A rotation moves the tokens it reseals and keeps the others.
LEMMA Rotates ==
  ASSUME NEW d \in Db, NEW r \in Record
  PROVE  LET e == rotate(d, r) IN
         /\ e \in Db /\ Tokens(e) = Tokens(d) \ r.revoked
         /\ \A x \in e.tokens : x[1] \in r.resealed => x[2] = r.from + 1
         /\ e.vault = d.vault /\ e.generation = r.from + 1 /\ e.writes = r.writes
         /\ e.last = d.last /\ e.applied = d.applied
<1> DEFINE c == delete_tokens(d, r.revoked)
           to(x) == IF x[1] \in r.resealed THEN r.from + 1 ELSE x[2]
           T == {<<x[1], to(x)>> : x \in c.tokens}
<1>1. /\ c \in Db /\ Tokens(c) = Tokens(d) \ r.revoked /\ c.vault = d.vault
      /\ c.last = d.last /\ c.applied = d.applied
  BY Deletes
<1>2. rotate(d, r) = [c EXCEPT !.generation = r.from + 1, !.writes = r.writes, !.tokens = T]
  BY DEF rotate
<1> HIDE DEF c
<1>3. r.from + 1 \in 1..(MaxGeneration + 1) /\ r.from + 1 \in 0..(MaxGeneration + 1)
      /\ r.writes \subseteq WriteId
  BY RecordParts, JournalAssumption
<1>4. ASSUME NEW x \in c.tokens
      PROVE  to(x) \in 1..(MaxGeneration + 1) /\ x[1] \in TokenId
  BY <1>1, <1>3, DbParts
<1> HIDE DEF to
<1>5. T \subseteq TokenId \X (1..(MaxGeneration + 1))
  BY <1>4
<1>6. {y[1] : y \in T} = {x[1] : x \in c.tokens}
  <2>1. ASSUME NEW y \in T PROVE \E x \in c.tokens : y[1] = x[1]
    OBVIOUS
  <2>2. ASSUME NEW x \in c.tokens PROVE \E y \in T : x[1] = y[1]
    <3>1. <<x[1], to(x)>> \in T /\ <<x[1], to(x)>>[1] = x[1]
      OBVIOUS
    <3> QED BY <3>1
  <2> HIDE DEF T
  <2> QED BY <2>1, <2>2
<1>7. \A y \in T : y[1] \in r.resealed => y[2] = r.from + 1
  BY DEF to
<1> HIDE DEF T
<1>8. rotate(d, r) \in Db /\ rotate(d, r).tokens = T
  <2> DEFINE g == r.from + 1
  <2>1. g \in 0..(MaxGeneration + 1)
    BY <1>3
  <2> HIDE DEF g
  <2>2. rotate(d, r) = [c EXCEPT !.generation = g, !.writes = r.writes, !.tokens = T]
    BY <1>2 DEF g
  <2> QED BY <1>1, <1>3, <1>5, <2>1, <2>2 DEF Db
<1>9. /\ rotate(d, r).vault = d.vault /\ rotate(d, r).generation = r.from + 1
      /\ rotate(d, r).writes = r.writes
      /\ rotate(d, r).last = d.last /\ rotate(d, r).applied = d.applied
  BY <1>1, <1>2 DEF Db
<1> QED BY <1>1, <1>6, <1>7, <1>8, <1>9 DEF Tokens

\* A deletion leaves nothing.
LEMMA DeletesRow ==
  ASSUME NEW d \in Db
  PROVE  LET e == delete_row(d) IN
         /\ e \in Db /\ e.vault = 0 /\ e.tokens = {} /\ e.writes = {}
         /\ e.last = d.last /\ e.applied = d.applied
<1>1. 0 \in 0..MaxOp /\ 0 \in 0..(MaxGeneration + 1)
  BY JournalAssumption
<1> QED BY <1>1 DEF delete_row, Db

\* A record that changed the database is marked in last and applied.
Mark(c, q, i) == [c EXCEPT !.last = q, !.applied = @ \cup {i}]

\* Nothing else changes.
LEMMA Marked ==
  ASSUME NEW c \in Db, NEW q \in 0..MaxOp, NEW i \in 1..MaxOp
  PROVE  LET e == Mark(c, q, i) IN
         /\ e \in Db /\ e.vault = c.vault /\ e.generation = c.generation /\ e.tokens = c.tokens
         /\ e.writes = c.writes /\ e.last = q /\ e.applied = c.applied \cup {i}
  BY DEF Mark, Db

\* What replaying a record that fits does to a database, field by field.
LEMMA ReplayFields ==
  ASSUME NEW d \in Db, NEW r \in Record, d.last < MaxOp,
         d.vault = 0 => d.tokens = {} /\ d.writes = {},
         d.vault # 0 => r.from = d.generation,
         NEW e, e = replayed(d, d.last + 1, r)
  PROVE  /\ e \in Db /\ e.last = d.last + 1
         /\ e.vault = IF r.op = "delete" THEN 0 ELSE d.vault
         /\ r.op = "delete" \/ d.vault = 0 => e.tokens = {} /\ e.writes = {}
         /\ r.op = "revoke" => /\ e.generation = d.generation /\ e.writes = d.writes
                               /\ e.tokens \subseteq d.tokens
         /\ r.op = "rotate" /\ d.vault # 0 =>
              /\ e.generation = r.from + 1 /\ e.writes = r.writes /\ r.id \in e.applied
              /\ \A x \in e.tokens : x[1] \in r.resealed => x[2] = r.from + 1
         /\ Tokens(e) \cap r.revoked = {} /\ Tokens(e) \subseteq Tokens(d)
         /\ r.op # "delete" => Tokens(d) \ r.revoked \subseteq Tokens(e)
         /\ d.applied \subseteq e.applied /\ e.applied \subseteq d.applied \cup {r.id}
<1>0. PICK q \in 0..MaxOp : q = d.last + 1
  BY DbParts, JournalAssumption
<1> DEFINE b == [d EXCEPT !.last = q]
<1>1. q \in 0..MaxOp /\ r.id \in 1..MaxOp /\ ~(q <= d.last) /\ d.vault \in Nat
      /\ r.op \in {"revoke", "rotate", "delete"}
  BY <1>0, DbParts, RecordParts, JournalAssumption
<1>2. /\ b \in Db /\ b.vault = d.vault /\ b.generation = d.generation /\ b.tokens = d.tokens
      /\ b.writes = d.writes /\ b.last = q /\ b.applied = d.applied
  BY <1>1 DEF Db
<1>3. e = IF replayable(d, r)
          THEN Mark(effect(d, r), q, r.id)
          ELSE b
  BY <1>0, <1>1 DEF replayed, Mark
<1> HIDE DEF b
<1>4. CASE d.vault = 0
  <2>1. e = b
    BY <1>3, <1>4 DEF replayable
  <2>2. Tokens(d) = {} /\ Tokens(e) = {}
    BY <1>2, <1>4, <2>1 DEF Tokens
  <2> QED BY <1>0, <1>1, <1>2, <1>4, <2>1, <2>2
<1>5. CASE d.vault # 0 /\ r.op = "revoke"
  <2>1. PICK c \in Db :
        /\ c = delete_tokens(d, r.revoked)
        /\ Tokens(c) = Tokens(d) \ r.revoked /\ c.tokens \subseteq d.tokens
        /\ c.vault = d.vault /\ c.generation = d.generation /\ c.writes = d.writes
        /\ c.applied = d.applied
    BY Deletes
  <2>2. effect(d, r) = c
    BY <1>5, <2>1 DEF effect
  <2>3. CASE replayable(d, r)
    <3>1. e = Mark(c, q, r.id)
      BY <1>3, <2>2, <2>3
    <3>2. /\ e \in Db /\ e.vault = c.vault /\ e.generation = c.generation
          /\ e.tokens = c.tokens /\ e.writes = c.writes /\ e.last = q
          /\ e.applied = c.applied \cup {r.id}
      BY <1>1, <3>1, Marked
    <3>3. Tokens(e) = Tokens(c)
      BY <3>2 DEF Tokens
    <3> QED BY <1>0, <1>5, <2>1, <3>2, <3>3
  <2>4. CASE ~replayable(d, r)
    <3>1. e = b /\ r.revoked \cap Tokens(d) = {}
      BY <1>3, <1>5, <2>4 DEF replayable
    <3>2. Tokens(e) = Tokens(d)
      BY <1>2, <3>1 DEF Tokens
    <3> QED BY <1>0, <1>2, <1>5, <3>1, <3>2
  <2> QED BY <2>3, <2>4
<1>6. CASE d.vault # 0 /\ r.op = "rotate"
  <2>1. PICK c \in Db :
        /\ c = rotate(d, r)
        /\ Tokens(c) = Tokens(d) \ r.revoked
        /\ \A x \in c.tokens : x[1] \in r.resealed => x[2] = r.from + 1
        /\ c.vault = d.vault /\ c.generation = r.from + 1 /\ c.writes = r.writes
        /\ c.applied = d.applied
    BY Rotates
  <2>2. effect(d, r) = c /\ replayable(d, r)
    BY <1>6, <2>1 DEF effect, replayable
  <2>3. e = Mark(c, q, r.id)
    BY <1>3, <2>2
  <2>4. /\ e \in Db /\ e.vault = c.vault /\ e.generation = c.generation
        /\ e.tokens = c.tokens /\ e.writes = c.writes /\ e.last = q
        /\ e.applied = c.applied \cup {r.id}
    BY <1>1, <2>3, Marked
  <2>5. Tokens(e) = Tokens(c)
    BY <2>4 DEF Tokens
  <2> QED BY <1>0, <1>6, <2>1, <2>4, <2>5
<1>7. CASE d.vault # 0 /\ r.op = "delete"
  <2>1. PICK c \in Db : c = delete_row(d) /\ c.vault = 0 /\ c.tokens = {} /\ c.writes = {} /\ c.applied = d.applied
    BY DeletesRow
  <2>2. effect(d, r) = c /\ replayable(d, r)
    BY <1>7, <2>1 DEF effect, replayable
  <2>3. e = Mark(c, q, r.id)
    BY <1>3, <2>2
  <2>4. /\ e \in Db /\ e.vault = c.vault /\ e.tokens = c.tokens /\ e.writes = c.writes
        /\ e.last = q /\ e.applied = c.applied \cup {r.id}
    BY <1>1, <2>3, Marked
  <2>5. Tokens(e) = {}
    BY <2>1, <2>4 DEF Tokens
  <2> QED BY <1>0, <1>7, <2>1, <2>4, <2>5
<1> QED BY <1>1, <1>4, <1>5, <1>6, <1>7

-----------------------------------------------------------------------------
(* Lemmas about points of the history. *)

\* The next record fits a database that is behind.
LEMMA NextFits ==
  ASSUME NEW j, NEW n \in Nat, NEW d \in Db, d.last < n, Line(j, n, d), d.vault # 0
  PROVE  j[d.last + 1].vault = d.vault /\ j[d.last + 1].from = d.generation
<1>1. d.last \in Nat /\ d.last + 1 \in (d.last + 1)..n
  BY DbParts
<1>2. NoDelete(j, d.last, (d.last + 1) - 1)
  BY <1>1 DEF NoDelete
<1> QED BY <1>1, <1>2 DEF Line

\* What is in force stays so when the next record is replayed, and the record
\* itself is in force then.
LEMMA ForcedReplay ==
  ASSUME NEW r \in Record, NEW d \in Db, d.last < MaxOp,
         d.vault = 0 => d.tokens = {} /\ d.writes = {},
         d.vault # 0 => r.from = d.generation /\ r.vault = d.vault,
         NEW e, e = replayed(d, d.last + 1, r)
  PROVE  /\ InForce(r, e)
         /\ \A p \in Record : InForce(p, d) => InForce(p, e)
<1>1. /\ r.vault # 0 /\ r.from \in Nat /\ d.generation \in Nat
      /\ r.op \in {"revoke", "rotate", "delete"}
  BY RecordParts, DbParts
<1>2. /\ e.vault = IF r.op = "delete" THEN 0 ELSE d.vault
      /\ r.op = "revoke" => e.generation = d.generation /\ e.writes = d.writes
      /\ r.op = "rotate" /\ d.vault # 0 => e.generation = r.from + 1 /\ e.writes = r.writes
      /\ Tokens(e) \cap r.revoked = {} /\ Tokens(e) \subseteq Tokens(d)
  BY ReplayFields
<1>3. InForce(r, e)
  BY <1>1, <1>2 DEF InForce
<1>4. ASSUME NEW p \in Record, InForce(p, d) PROVE InForce(p, e)
  <2>1. p.vault # 0 /\ p.from \in Nat
    BY RecordParts
  <2>2. p.revoked \cap Tokens(e) = {}
    BY <1>2, <1>4 DEF InForce
  <2>3. CASE r.op = "delete" \/ d.vault = 0
    BY <1>2, <2>1, <2>2, <2>3 DEF InForce
  <2>4. CASE r.op = "revoke"
    BY <1>2, <1>4, <2>2, <2>4 DEF InForce
  <2>5. CASE r.op = "rotate" /\ d.vault # 0
    <3>1. e.vault = d.vault /\ e.generation = d.generation + 1
      BY <1>2, <2>5
    <3>2. p.op = "rotate" /\ d.vault = p.vault => d.generation > p.from
      BY <1>4 DEF InForce
    <3>3. p.op = "rotate" /\ d.vault = p.vault => e.generation > p.from + 1
      BY <1>1, <2>1, <3>1, <3>2
    <3>4. p.op = "rotate" /\ e.vault = p.vault => e.generation > p.from /\ e.generation # p.from + 1
      BY <1>1, <2>1, <3>1, <3>3
    <3>5. p.op = "delete" => e.vault # p.vault
      BY <1>4, <3>1 DEF InForce
    <3> QED BY <2>2, <3>4, <3>5 DEF InForce
  <2> QED BY <1>1, <2>3, <2>4, <2>5
<1> QED BY <1>3, <1>4

\* A database that replays the next record is a point of the history again.
LEMMA SoundReplay ==
  ASSUME NEW j, NEW n \in Nat, n <= MaxOp, NEW h, NEW k, NEW st, NEW u, NEW a \in Nat,
         \A s \in 1..n : Recorded(j[s], u, a),
         NEW d, Sound(j, n, d, h, st, u, a), d.last < n, h \subseteq d.writes, k \subseteq h,
         NEW e, e = replayed(d, d.last + 1, j[d.last + 1])
  PROVE  Sound(j, n, e, k, st, u, a)
<1> DEFINE r == j[d.last + 1]
<1> USE DEF Sound
<1>1. /\ d \in Db /\ d.last \in Nat /\ d.generation \in Nat /\ d.last < MaxOp
      /\ d.last + 1 \in 1..n
  BY DbParts, JournalAssumption DEF Shaped
<1>2. /\ r \in Record /\ Recorded(r, u, a) /\ r.op \in {"revoke", "rotate", "delete"}
      /\ r.from \in 1..MaxGeneration
  BY <1>1, RecordParts DEF Recorded
<1>3. d.vault # 0 => r.vault = d.vault /\ r.from = d.generation
  BY <1>1, NextFits
<1>4. d.vault = 0 => d.tokens = {} /\ d.writes = {}
  BY DEF Shaped
<1>5. /\ InForce(r, e) /\ \A p \in Record : InForce(p, d) => InForce(p, e)
  BY <1>1, <1>2, <1>3, <1>4, ForcedReplay
<1>6. /\ e \in Db /\ e.last = d.last + 1
      /\ e.vault = IF r.op = "delete" THEN 0 ELSE d.vault
      /\ r.op = "delete" \/ d.vault = 0 => e.tokens = {} /\ e.writes = {}
      /\ r.op = "revoke" => /\ e.generation = d.generation /\ e.writes = d.writes
                            /\ e.tokens \subseteq d.tokens
      /\ r.op = "rotate" /\ d.vault # 0 =>
           /\ e.generation = r.from + 1 /\ e.writes = r.writes /\ r.id \in e.applied
           /\ \A x \in e.tokens : x[1] \in r.resealed => x[2] = r.from + 1
      /\ Tokens(e) \cap r.revoked = {} /\ Tokens(e) \subseteq Tokens(d)
      /\ r.op # "delete" => Tokens(d) \ r.revoked \subseteq Tokens(e)
      /\ d.applied \subseteq e.applied /\ e.applied \subseteq d.applied \cup {r.id}
  BY <1>1, <1>2, <1>3, <1>4, ReplayFields
<1> HIDE DEF r
<1>7. Shaped(e, n, u, a)
  <2>1. e.last <= n /\ e.vault <= a
    BY <1>1, <1>6 DEF Shaped
  <2>2. e.vault = 0 => e.tokens = {} /\ e.writes = {}
    BY <1>6
  <2>3. e.vault # 0 => e.generation \in 1..MaxGeneration
    BY <1>2, <1>6, JournalAssumption DEF Shaped, Recorded
  <2>4. Tokens(e) \cup e.writes \subseteq u
    BY <1>2, <1>6 DEF Shaped, Recorded
  <2> QED BY <1>6, <2>1, <2>2, <2>3, <2>4 DEF Shaped
<1>8. Line(j, n, e)
  <2> SUFFICES ASSUME e.vault # 0, NEW s \in (e.last + 1)..n, NoDelete(j, e.last, s - 1)
               PROVE  /\ j[s].vault = e.vault
                      /\ s = e.last + 1 => j[s].from = e.generation
                      /\ s # e.last + 1 => j[s].from = Turned(j, s - 1)
    BY DEF Line
  <2>1. d.vault # 0 /\ r.op # "delete" /\ e.vault = d.vault
    BY <1>6
  <2>2. s \in (d.last + 1)..n /\ s # d.last + 1 /\ s \in Int
    BY <1>1, <1>6
  <2>3. NoDelete(j, d.last, s - 1)
    <3> SUFFICES ASSUME NEW i \in (d.last + 1)..(s - 1) PROVE j[i].op # "delete"
      BY DEF NoDelete
    <3>1. CASE i = d.last + 1
      BY <2>1, <3>1 DEF r
    <3>2. CASE i # d.last + 1
      <4>1. i \in (e.last + 1)..(s - 1)
        BY <1>1, <1>6, <2>2, <3>2
      <4> QED BY <4>1 DEF NoDelete
    <3> QED BY <3>1, <3>2
  <2>4. j[s].vault = d.vault /\ j[s].from = Turned(j, s - 1)
    BY <2>1, <2>2, <2>3 DEF Line
  <2>5. s = e.last + 1 => j[s].from = e.generation
    <3>1. s = e.last + 1 => s - 1 = d.last + 1
      BY <1>1, <1>6
    <3>2. Turned(j, d.last + 1) = e.generation
      BY <1>2, <1>3, <1>6, <2>1 DEF Turned, r
    <3> QED BY <2>4, <3>1, <3>2
  <2> QED BY <2>1, <2>4, <2>5
<1>9. Forced(j, e)
  <2> SUFFICES ASSUME NEW s \in 1..e.last PROVE InForce(j[s], e)
    BY DEF Forced
  <2>1. CASE s = d.last + 1
    BY <1>5, <2>1 DEF r
  <2>2. CASE s # d.last + 1
    <3>1. s \in 1..d.last /\ s \in 1..n
      BY <1>1, <1>6, <2>2
    <3> QED BY <1>5, <3>1 DEF Forced, Recorded
  <2> QED BY <2>1, <2>2
<1>10. Traced(j, e)
  <2> SUFFICES ASSUME NEW i \in e.applied PROVE \E s \in 1..e.last : j[s].id = i
    BY DEF Traced
  <2>1. CASE i = r.id
    BY <1>1, <1>6, <2>1 DEF r
  <2>2. CASE i \in d.applied
    <3>1. PICK s \in 1..d.last : j[s].id = i
      BY <2>2 DEF Traced
    <3>2. s \in 1..e.last
      BY <1>1, <1>6
    <3> QED BY <3>1, <3>2
  <2> QED BY <1>6, <2>1, <2>2
<1>11. Knows(j, n, e, st)
  <2> SUFFICES ASSUME NEW s \in (e.last + 1)..n, j[s].op = "rotate", j[s] \notin st,
                      NoDelete(j, e.last, s - 1), NEW t \in Tokens(e)
               PROVE  t \in j[s].resealed \/ TokenGone(j, t, e.last, s)
    BY DEF Knows
  <2>1. s \in (d.last + 1)..n /\ s \in Int
    BY <1>1, <1>6
  <2>2. r.op # "delete" /\ t \in Tokens(d) /\ t \notin r.revoked
    BY <1>6 DEF Tokens
  <2>3. NoDelete(j, d.last, s - 1)
    <3> SUFFICES ASSUME NEW i \in (d.last + 1)..(s - 1) PROVE j[i].op # "delete"
      BY DEF NoDelete
    <3>1. CASE i = d.last + 1
      BY <2>2, <3>1 DEF r
    <3>2. CASE i # d.last + 1
      <4>1. i \in (e.last + 1)..(s - 1)
        BY <1>1, <1>6, <2>1, <3>2
      <4> QED BY <4>1 DEF NoDelete
    <3> QED BY <3>1, <3>2
  <2>4. t \in j[s].resealed \/ TokenGone(j, t, d.last, s)
    BY <2>1, <2>2, <2>3 DEF Knows
  <2>5. ASSUME TokenGone(j, t, d.last, s) PROVE TokenGone(j, t, e.last, s)
    <3>1. PICK i \in (d.last + 1)..s : t \in j[i].revoked
      BY <2>5 DEF TokenGone
    <3>2. i # d.last + 1
      BY <2>2, <3>1 DEF r
    <3>3. i \in (e.last + 1)..s
      BY <1>1, <1>6, <2>1, <3>2
    <3> QED BY <3>1, <3>3 DEF TokenGone
  <2> QED BY <2>4, <2>5
<1>12. CarriesHeld(j, n, e, k, st)
  <2>1. ASSUME NEW s \in (e.last + 1)..n PROVE s \in (d.last + 1)..n
    BY <1>1, <1>6
  <2> QED BY <2>1 DEF CarriesHeld
<1>13. Uniform(e, st)
  <2> SUFFICES ASSUME \A p \in st : p.id \notin e.applied, NEW x \in e.tokens
               PROVE  x[2] = e.generation
    BY DEF Uniform
  <2>1. \A y \in d.tokens : y[2] = d.generation
    BY <1>6 DEF Uniform
  <2>2. CASE r.op = "revoke"
    BY <1>6, <2>1, <2>2
  <2>3. CASE r.op = "rotate" /\ d.vault # 0
    <3>1. r \notin st
      BY <1>6, <2>3
    <3>2. NoDelete(j, d.last, (d.last + 1) - 1) /\ d.last + 1 \in (d.last + 1)..n
      BY <1>1 DEF NoDelete
    <3>3. x[1] \in Tokens(e) /\ x[1] \in Tokens(d) /\ x[1] \notin r.revoked
      BY <1>6 DEF Tokens
    <3>4. x[1] \in r.resealed \/ TokenGone(j, x[1], d.last, d.last + 1)
      BY <2>3, <3>1, <3>2, <3>3 DEF Knows, r
    <3>5. ~TokenGone(j, x[1], d.last, d.last + 1)
      BY <1>1, <3>3 DEF TokenGone, r
    <3> QED BY <1>6, <2>3, <3>4, <3>5
  <2> QED BY <1>2, <1>6, <2>2, <2>3
<1> QED BY <1>7, <1>8, <1>9, <1>10, <1>11, <1>12, <1>13

\* An older point is still one when the next record is replayed.
LEMMA BeforeReplay ==
  ASSUME NEW j, NEW n \in Nat, n <= MaxOp, NEW u, NEW a \in Nat,
         \A s \in 1..n : Recorded(j[s], u, a),
         NEW c \in Db, NEW d, Shaped(d, n, u, a), Line(j, n, d), d.last < n, Before(j, c, d),
         NEW e, e = replayed(d, d.last + 1, j[d.last + 1])
  PROVE  Before(j, c, e)
<1> DEFINE r == j[d.last + 1]
<1>1. /\ d \in Db /\ d.last \in Nat /\ d.last < MaxOp /\ d.last + 1 \in 1..n /\ c.last \in Nat
      /\ c.last <= d.last
  BY DbParts, JournalAssumption DEF Shaped, Before
<1>2. r \in Record /\ r.op \in {"revoke", "rotate", "delete"}
  BY <1>1, RecordParts DEF Recorded
<1>3. d.vault # 0 => r.vault = d.vault /\ r.from = d.generation
  BY <1>1, NextFits
<1>4. d.vault = 0 => d.tokens = {} /\ d.writes = {}
  BY DEF Shaped
<1>5. /\ e.last = d.last + 1
      /\ e.vault = IF r.op = "delete" THEN 0 ELSE d.vault
      /\ r.op = "revoke" => e.generation = d.generation
      /\ r.op = "rotate" /\ d.vault # 0 => e.generation = r.from + 1
      /\ r.op # "delete" => Tokens(d) \ r.revoked \subseteq Tokens(e)
  BY <1>1, <1>2, <1>3, <1>4, ReplayFields
<1>6. c.last <= e.last /\ c.last # e.last
  BY <1>1, <1>5
<1> HIDE DEF r
<1> SUFFICES ASSUME NoDelete(j, c.last, e.last)
             PROVE  /\ c.vault # 0 => e.vault = c.vault /\ e.generation = Turned(j, e.last)
                    /\ \A t \in Tokens(c) : t \in Tokens(e) \/ TokenGone(j, t, c.last, e.last)
  BY <1>6 DEF Before
<1>7. d.last + 1 \in (c.last + 1)..e.last /\ r.op # "delete"
  <2>1. d.last + 1 \in (c.last + 1)..e.last
    BY <1>1, <1>5
  <2> QED BY <2>1 DEF NoDelete, r
<1>8. ASSUME NEW i \in (c.last + 1)..d.last PROVE i \in (c.last + 1)..e.last
  BY <1>1, <1>5
<1>9. NoDelete(j, c.last, d.last)
  BY <1>8 DEF NoDelete
<1>10. c.vault # 0 => d.vault = c.vault
  BY <1>9 DEF Before
<1>11. c.vault # 0 => e.vault = c.vault /\ e.generation = Turned(j, e.last)
  BY <1>2, <1>3, <1>5, <1>7, <1>10 DEF Turned, r
<1>12. ASSUME NEW t \in Tokens(c) PROVE t \in Tokens(e) \/ TokenGone(j, t, c.last, e.last)
  <2>1. t \in Tokens(d) \/ TokenGone(j, t, c.last, d.last)
    BY <1>9 DEF Before
  <2>2. CASE TokenGone(j, t, c.last, d.last)
    BY <1>8, <2>2 DEF TokenGone
  <2>3. CASE t \in r.revoked
    BY <1>7, <2>3 DEF TokenGone, r
  <2> QED BY <1>5, <1>7, <2>1, <2>2, <2>3
<1> QED BY <1>11, <1>12

\* A point stays one when less is held of it, more is stray, and more was used.
LEMMA SoundWeaker ==
  ASSUME NEW j, NEW n, NEW d, NEW h, NEW st, NEW u, NEW a \in Nat,
         Sound(j, n, d, h, st, u, a),
         NEW k, k \cap d.writes \subseteq h, NEW su, st \subseteq su, NEW v, u \subseteq v,
         NEW b \in Nat, a <= b
  PROVE  Sound(j, n, d, k, su, v, b)
<1> USE DEF Sound
<1>1. Shaped(d, n, v, b)
  BY DbParts DEF Shaped
<1>2. Knows(j, n, d, su)
  BY DEF Knows
<1>3. CarriesHeld(j, n, d, k, su)
  BY DEF CarriesHeld
<1>4. Uniform(d, su)
  BY DEF Uniform
<1> QED BY <1>1, <1>2, <1>3, <1>4

\* A record is appended by the database that is at the end of the history:
\* every point it comes after is still one.
LEMMA SoundAppend ==
  ASSUME NEW j, NEW n \in Nat, NEW h, NEW st, NEW u, NEW a,
         NEW d, Sound(j, n, d, h, st, u, a),
         NEW b, b.last = n, b.vault # 0, Before(j, d, b), h \subseteq b.writes,
         NEW r, r.vault = b.vault, r.from = b.generation,
         r.op = "rotate" => /\ r.writes = b.writes
                            /\ Tokens(b) \subseteq r.resealed \cup r.revoked,
         NEW k, \A s \in 1..n : k[s] = j[s], k[n + 1] = r
  PROVE  Sound(k, n + 1, d, h, st, u, a)
<1> USE DEF Sound
<1>1. d \in Db /\ d.last \in Nat /\ d.last <= n /\ n + 1 \in Nat
  BY DbParts DEF Shaped
<1>2. \A s \in (d.last + 1)..n : s \in 1..n
  BY <1>1
<1>3. ASSUME NEW s \in (d.last + 1)..(n + 1), NoDelete(k, d.last, s - 1)
      PROVE  NoDelete(j, d.last, s - 1)
  <2> SUFFICES ASSUME NEW i \in (d.last + 1)..(s - 1) PROVE j[i].op # "delete"
    BY DEF NoDelete
  <2>1. i \in 1..n
    BY <1>1
  <2> QED BY <1>3, <2>1 DEF NoDelete
<1>4. Shaped(d, n + 1, u, a)
  BY <1>1 DEF Shaped
<1>5. Line(k, n + 1, d)
  <2> SUFFICES ASSUME d.vault # 0, NEW s \in (d.last + 1)..(n + 1), NoDelete(k, d.last, s - 1)
               PROVE  /\ k[s].vault = d.vault
                      /\ s = d.last + 1 => k[s].from = d.generation
                      /\ s # d.last + 1 => k[s].from = Turned(k, s - 1)
    BY DEF Line
  <2>1. NoDelete(j, d.last, s - 1)
    BY <1>3
  <2>2. s # d.last + 1 => s - 1 \in 1..n
    BY <1>1
  <2>3. s # d.last + 1 => Turned(k, s - 1) = Turned(j, s - 1)
    BY <2>2 DEF Turned
  <2>4. CASE s = n + 1
    <3>1. s - 1 = n /\ (s = d.last + 1 <=> d.last = n)
      BY <1>1, <2>4
    <3>2. NoDelete(j, d.last, b.last)
      BY <2>1, <3>1
    <3> QED BY <2>3, <2>4, <3>1, <3>2 DEF Before
  <2>5. CASE s # n + 1
    <3>1. s \in (d.last + 1)..n /\ s \in 1..n
      BY <1>1, <2>5
    <3> QED BY <2>1, <2>3, <3>1 DEF Line
  <2> QED BY <2>4, <2>5
<1>6. Forced(k, d)
  <2>1. \A s \in 1..d.last : s \in 1..n
    BY <1>1
  <2> QED BY <2>1 DEF Forced
<1>7. Traced(k, d)
  <2>1. \A s \in 1..d.last : s \in 1..n
    BY <1>1
  <2> QED BY <2>1 DEF Traced
<1>8. Knows(k, n + 1, d, st)
  <2> SUFFICES ASSUME NEW s \in (d.last + 1)..(n + 1), k[s].op = "rotate", k[s] \notin st,
                      NoDelete(k, d.last, s - 1), NEW t \in Tokens(d)
               PROVE  t \in k[s].resealed \/ TokenGone(k, t, d.last, s)
    BY DEF Knows
  <2>1. NoDelete(j, d.last, s - 1)
    BY <1>3
  <2>2. CASE s = n + 1
    <3>1. s - 1 = b.last
      BY <2>2
    <3>2. t \in Tokens(b) \/ TokenGone(j, t, d.last, b.last)
      BY <2>1, <3>1 DEF Before
    <3>3. CASE t \in Tokens(b)
      <4>1. n + 1 \in (d.last + 1)..(n + 1)
        BY <1>1
      <4> QED BY <2>2, <3>3, <4>1 DEF TokenGone
    <3>4. CASE TokenGone(j, t, d.last, b.last)
      <4>1. PICK i \in (d.last + 1)..n : t \in j[i].revoked
        BY <3>4 DEF TokenGone
      <4>2. i \in (d.last + 1)..s /\ k[i] = j[i]
        BY <1>1, <1>2, <2>2
      <4> QED BY <4>1, <4>2 DEF TokenGone
    <3> QED BY <3>2, <3>3, <3>4
  <2>3. CASE s # n + 1
    <3>1. s \in (d.last + 1)..n /\ k[s] = j[s]
      BY <1>1, <1>2, <2>3
    <3>2. t \in j[s].resealed \/ TokenGone(j, t, d.last, s)
      BY <2>1, <3>1 DEF Knows
    <3>3. \A i \in (d.last + 1)..s : k[i] = j[i]
      <4>1. \A i \in (d.last + 1)..s : i \in 1..n
        BY <1>1, <3>1
      <4> QED BY <4>1
    <3> QED BY <3>1, <3>2, <3>3 DEF TokenGone
  <2> QED BY <2>2, <2>3
<1>9. CarriesHeld(k, n + 1, d, h, st)
  <2> SUFFICES ASSUME NEW s \in (d.last + 1)..(n + 1), k[s].op = "rotate", k[s] \notin st
               PROVE  h \cap d.writes \subseteq k[s].writes
    BY DEF CarriesHeld
  <2>1. CASE s = n + 1
    BY <2>1
  <2>2. CASE s # n + 1
    <3>1. s \in (d.last + 1)..n /\ k[s] = j[s]
      BY <1>1, <1>2, <2>2
    <3> QED BY <3>1 DEF CarriesHeld
  <2> QED BY <2>1, <2>2
<1> QED BY <1>4, <1>5, <1>6, <1>7, <1>8, <1>9

\* Points keep their order when the history grows.
LEMMA BeforeAppend ==
  ASSUME NEW j, NEW n \in Nat, NEW k, \A s \in 1..n : k[s] = j[s],
         NEW c \in Db, NEW d \in Db, d.last <= n, Before(j, c, d)
  PROVE  Before(k, c, d)
<1>1. c.last \in Nat /\ d.last \in Nat /\ c.last <= d.last
  BY DbParts DEF Before
<1>2. \A i \in (c.last + 1)..d.last : k[i] = j[i]
  <2>1. \A i \in (c.last + 1)..d.last : i \in 1..n
    BY <1>1
  <2> QED BY <2>1
<1>3. c.last # d.last => Turned(k, d.last) = Turned(j, d.last)
  <2>1. c.last # d.last => d.last \in 1..n
    BY <1>1
  <2> QED BY <2>1 DEF Turned
<1> QED BY <1>1, <1>2, <1>3 DEF Before, NoDelete, TokenGone

\* A database comes after itself.
LEMMA BeforeItself ==
  ASSUME NEW j, NEW d \in Db PROVE Before(j, d, d)
  BY DbParts DEF Before

\* A record stays one as more is used.
LEMMA RecordedWeaker ==
  ASSUME NEW r, NEW u, NEW a \in Nat, Recorded(r, u, a), NEW v, u \subseteq v, NEW b \in Nat, a <= b
  PROVE  Recorded(r, v, b)
  BY RecordParts DEF Recorded

\* What the ordinary requests do to a database.
WithVault(d, v) == [d EXCEPT !.vault = v, !.generation = 1]
WithToken(d, t) == [d EXCEPT !.tokens = @ \cup {<<t, d.generation>>}]
WithWrite(d, w) == [d EXCEPT !.writes = @ \cup {w}]

\* A vault is created in a database that is at the end of the history.
LEMMA SoundCreate ==
  ASSUME NEW j, NEW n \in Nat, NEW h, NEW st, NEW u, NEW a \in Nat, a < MaxOp,
         \A s \in 1..n : Recorded(j[s], u, a),
         NEW d, Sound(j, n, d, h, st, u, a), d.vault = 0, d.last = n,
         NEW v, v = a + 1, NEW e, e = WithVault(d, v)
  PROVE  /\ Sound(j, n, e, h, st, u, v) /\ e.writes = d.writes /\ e.last = n
         /\ \A c \in Db : Before(j, c, d) => Before(j, c, e)
<1> USE DEF Sound
<1>1. d \in Db /\ v \in 0..MaxOp /\ v \in Nat /\ v # 0 /\ 1 \in 0..(MaxGeneration + 1)
      /\ 1 \in 1..MaxGeneration
  BY JournalAssumption DEF Shaped
<1>2. /\ e \in Db /\ e.vault = v /\ e.generation = 1 /\ e.tokens = d.tokens
      /\ e.writes = d.writes /\ e.last = d.last /\ e.applied = d.applied
  BY <1>1 DEF Db, WithVault
<1>3. Tokens(e) = Tokens(d) /\ Tokens(d) = {} /\ d.tokens = {}
  BY <1>2 DEF Tokens, Shaped
<1>4. (d.last + 1)..n = {}
  BY DbParts, <1>1
<1>5. Shaped(e, n, u, v)
  BY <1>1, <1>2, <1>3 DEF Shaped
<1>6. Line(j, n, e) /\ Knows(j, n, e, st) /\ CarriesHeld(j, n, e, h, st)
  BY <1>2, <1>4 DEF Line, Knows, CarriesHeld
<1>7. Forced(j, e)
  <2> SUFFICES ASSUME NEW s \in 1..e.last PROVE InForce(j[s], e)
    BY DEF Forced
  <2>1. j[s] \in Record /\ j[s].vault <= a /\ j[s].vault \in Nat
    BY <1>2, RecordParts DEF Recorded
  <2>2. j[s].vault # e.vault
    BY <1>2, <2>1
  <2> QED BY <1>3, <2>2 DEF InForce
<1>8. Traced(j, e) /\ Uniform(e, st)
  BY <1>2, <1>3 DEF Traced, Uniform
<1>9. ASSUME NEW c \in Db, Before(j, c, d) PROVE Before(j, c, e)
  BY <1>2, <1>3, <1>9 DEF Before
<1> QED BY <1>2, <1>5, <1>6, <1>7, <1>8, <1>9

\* Points keep their order when the later one gains tokens or writes.
LEMMA BeforeGrows ==
  ASSUME NEW j, NEW c, NEW d, NEW e, Before(j, c, d), e.last = d.last, e.vault = d.vault,
         e.generation = d.generation, Tokens(d) \subseteq Tokens(e)
  PROVE  Before(j, c, e)
  BY DEF Before

\* A database with one more token.
LEMMA TokenAdded ==
  ASSUME NEW d \in Db, d.generation \in 1..MaxGeneration, NEW t \in TokenId,
         NEW e, e = WithToken(d, t)
  PROVE  /\ e \in Db /\ e.vault = d.vault /\ e.generation = d.generation
         /\ e.writes = d.writes /\ e.last = d.last /\ e.applied = d.applied
         /\ Tokens(e) = Tokens(d) \cup {t}
         /\ \A x \in e.tokens : x \in d.tokens \/ x[2] = d.generation
<1> DEFINE T == d.tokens \cup {<<t, d.generation>>}
<1>1. d.generation \in 1..(MaxGeneration + 1) /\ d.tokens \subseteq TokenId \X (1..(MaxGeneration + 1))
  BY DbParts, JournalAssumption
<1>2. T \subseteq TokenId \X (1..(MaxGeneration + 1))
  BY <1>1
<1>3. {x[1] : x \in T} = {x[1] : x \in d.tokens} \cup {t}
  <2>1. <<t, d.generation>> \in T /\ <<t, d.generation>>[1] = t /\ d.tokens \subseteq T
    OBVIOUS
  <2>2. ASSUME NEW x \in T PROVE x \in d.tokens \/ x[1] = t
    OBVIOUS
  <2> HIDE DEF T
  <2>3. ASSUME NEW x \in T PROVE x[1] \in {y[1] : y \in d.tokens} \cup {t}
    BY <2>2
  <2>4. t \in {x[1] : x \in T}
    BY <2>1
  <2> QED BY <2>1, <2>3, <2>4
<1>4. e = [d EXCEPT !.tokens = T]
  BY <1>1 DEF Db, WithToken
<1>5. \A x \in T : x \in d.tokens \/ x[2] = d.generation
  OBVIOUS
<1> HIDE DEF T
<1>6. /\ e \in Db /\ e.vault = d.vault /\ e.generation = d.generation /\ e.tokens = T
      /\ e.writes = d.writes /\ e.last = d.last /\ e.applied = d.applied
  BY <1>1, <1>2, <1>4 DEF Db
<1> QED BY <1>3, <1>5, <1>6 DEF Tokens

\* A token is registered in a database that only stray records follow.
LEMMA SoundToken ==
  ASSUME NEW j, NEW n \in Nat, NEW h, NEW st, NEW u, NEW a \in Nat,
         NEW d, NEW t \in TokenId, NEW v, NEW e,
         Sound(j, n, d, h, st, u, a), e = WithToken(d, t), v = u \cup {t},
         d.vault # 0, t \notin u,
         \A s \in 1..n : Recorded(j[s], u, a), \A s \in (d.last + 1)..n : j[s] \in st
  PROVE  Sound(j, n, e, h, st, v, a)
<1> USE DEF Sound
<1>1. /\ d \in Db /\ d.last \in Nat /\ d.last <= n /\ d.generation \in 1..MaxGeneration
  BY DbParts DEF Shaped
<1>2. /\ e \in Db /\ e.vault = d.vault /\ e.generation = d.generation
      /\ e.writes = d.writes /\ e.last = d.last /\ e.applied = d.applied
      /\ Tokens(e) = Tokens(d) \cup {t}
      /\ \A x \in e.tokens : x \in d.tokens \/ x[2] = d.generation
  BY <1>1, TokenAdded
<1>3. Shaped(e, n, v, a)
  BY <1>2 DEF Shaped
<1>4. Line(j, n, e) /\ Traced(j, e)
  BY <1>2 DEF Line, Traced
<1>5. Knows(j, n, e, st) /\ CarriesHeld(j, n, e, h, st)
  BY <1>2 DEF Knows, CarriesHeld
<1>6. Forced(j, e)
  <2> SUFFICES ASSUME NEW s \in 1..e.last PROVE InForce(j[s], e)
    BY DEF Forced
  <2>1. s \in 1..n /\ s \in 1..d.last
    BY <1>1, <1>2
  <2>2. t \notin j[s].revoked /\ InForce(j[s], d)
    BY <2>1 DEF Recorded, Forced
  <2> QED BY <1>2, <2>2 DEF InForce
<1>7. Uniform(e, st)
  BY <1>2 DEF Uniform
<1> QED BY <1>3, <1>4, <1>5, <1>6, <1>7

\* A database with one more write.
LEMMA WriteAdded ==
  ASSUME NEW d \in Db, NEW w \in WriteId, NEW e, e = WithWrite(d, w)
  PROVE  /\ e \in Db /\ e.vault = d.vault /\ e.generation = d.generation /\ e.tokens = d.tokens
         /\ e.writes = d.writes \cup {w} /\ e.last = d.last /\ e.applied = d.applied
         /\ Tokens(e) = Tokens(d)
<1>1. d.writes \cup {w} \subseteq WriteId
  BY DbParts
<1>2. /\ e \in Db /\ e.vault = d.vault /\ e.generation = d.generation /\ e.tokens = d.tokens
      /\ e.writes = d.writes \cup {w} /\ e.last = d.last /\ e.applied = d.applied
  BY <1>1 DEF Db, WithWrite
<1> QED BY <1>2 DEF Tokens

\* A record is written in a database that only stray records follow.
LEMMA SoundWrite ==
  ASSUME NEW j, NEW n \in Nat, NEW h, NEW st, NEW u, NEW a \in Nat,
         NEW d, NEW w \in WriteId, NEW v, NEW g, NEW e,
         Sound(j, n, d, h, st, u, a), e = WithWrite(d, w), v = u \cup {w}, g = h \cup {w},
         d.vault # 0, \A s \in (d.last + 1)..n : j[s] \in st
  PROVE  Sound(j, n, e, g, st, v, a)
<1> USE DEF Sound
<1>1. d \in Db
  BY DEF Shaped
<1>2. /\ e \in Db /\ e.vault = d.vault /\ e.generation = d.generation /\ e.tokens = d.tokens
      /\ e.writes = d.writes \cup {w} /\ e.last = d.last /\ e.applied = d.applied
      /\ Tokens(e) = Tokens(d)
  BY <1>1, WriteAdded
<1>4. Shaped(e, n, v, a)
  BY <1>2 DEF Shaped
<1>5. Line(j, n, e) /\ Traced(j, e) /\ Uniform(e, st)
  BY <1>2 DEF Line, Traced, Uniform
<1>6. Knows(j, n, e, st) /\ CarriesHeld(j, n, e, g, st)
  BY <1>2 DEF Knows, CarriesHeld
<1>7. Forced(j, e)
  BY <1>2 DEF Forced, InForce
<1> QED BY <1>4, <1>5, <1>6, <1>7

-----------------------------------------------------------------------------
(* The steps of the system. *)

\* What the invariant says of the numbers and of the copies.
LEMMA Numbers ==
  ASSUME TypeOK, NEW n \in 0..MaxOp, History(n)
  PROVE  /\ n \in Nat /\ n <= MaxOp /\ asked \in Nat /\ asked <= MaxOp /\ n <= asked
         /\ db \in Db /\ synced \in Db /\ backup \in Db
         /\ db.last \in Nat /\ db.last <= n /\ db.vault \in Nat /\ db.generation \in Nat
<1>1. asked \in Nat /\ asked <= MaxOp /\ n \in Nat /\ n <= MaxOp /\ n <= asked
  BY JournalAssumption DEF TypeOK, History
<1>2. db \in Db /\ synced \in Db /\ backup \in Db
  BY DEF TypeOK
<1>3. db.last <= n
  BY DEF History, Copies, Sound, Shaped
<1> QED BY <1>1, <1>2, <1>3, DbParts

\* A step that leaves the databases, the journal and the held writes alone
\* leaves the history as it is.
LEMMA HistoryFrame ==
  ASSUME TypeOK, NEW n \in 0..MaxOp, History(n), UNCHANGED <<db, synced, backup, journal, held>>,
         stray \subseteq stray', used \subseteq used', asked' \in Nat, asked <= asked'
  PROVE  History(n)'
<1>1. asked \in Nat /\ n <= asked' /\ n \in Nat
  BY Numbers
<1>2. \A s \in 1..n : Recorded(journal[s], used', asked')
  <2> SUFFICES ASSUME NEW s \in 1..n PROVE Recorded(journal[s], used', asked')
    OBVIOUS
  <2>1. Recorded(journal[s], used, asked)
    BY DEF History
  <2> QED BY <1>1, <2>1, RecordedWeaker
<1>3. \A d \in Copies : Sound(journal, n, d, held, stray', used', asked')
  <2> SUFFICES ASSUME NEW d \in Copies PROVE Sound(journal, n, d, held, stray', used', asked')
    OBVIOUS
  <2>1. Sound(journal, n, d, held, stray, used, asked)
    BY DEF History
  <2> QED BY <1>1, <2>1, SoundWeaker
<1>4. Copies' = Copies
  BY DEF Copies
<1> QED BY <1>1, <1>2, <1>3, <1>4 DEF History

\* Initially nothing is there.
LEMMA Begins == Init => IInv
<1> SUFFICES ASSUME Init PROVE IInv
  OBVIOUS
<1>1. 0 \in 0..MaxOp /\ 0 \in 0..(MaxGeneration + 1) /\ 0 \in 0..MaxCrash /\ 1..0 = {} /\ 0 <= 0
  BY JournalAssumption
<1>2. Empty \in Db /\ Empty.last = 0 /\ Empty.vault = 0 /\ Empty.tokens = {} /\ Empty.writes = {}
      /\ Empty.applied = {} /\ Tokens(Empty) = {}
  BY <1>1 DEF Empty, Db, Tokens
<1>3. DOMAIN journal = {} /\ journal \in [DOMAIN journal -> Record]
  BY DEF Init
<1>4. TypeOK
  BY <1>1, <1>2, <1>3 DEF Init, TypeOK
<1>5. (Empty.last + 1)..0 = {} /\ 1..Empty.last = {}
  BY <1>1, <1>2
<1>6. Sound(journal, 0, Empty, {}, {}, {}, 0)
  BY <1>1, <1>2, <1>5 DEF Sound, Shaped, Line, Forced, Traced, Knows, CarriesHeld, Uniform
<1>7. Before(journal, Empty, Empty)
  BY <1>2, BeforeItself
<1>8. History(0)
  BY <1>1, <1>2, <1>3, <1>6, <1>7 DEF History, Init, Copies
<1>9. Serves(0) /\ InTransaction(0) /\ Answers(0)
  BY <1>1 DEF Serves, InTransaction, Answers, Init
<1> QED BY <1>1, <1>4, <1>8, <1>9 DEF IInv

\* What follows the database of a server that serves is stray.
LEMMA ServingHistory ==
  ASSUME TypeOK, NEW n \in 0..MaxOp, History(n), Serves(n), Serving
  PROVE  /\ \A s \in (db.last + 1)..n : journal[s] \in stray
         /\ db.vault = 0 => db.last = n
         /\ todo = {} /\ n \in {db.last, db.last + 1}
<1>1. n \in Nat /\ db.last \in Nat
  BY Numbers
<1>2. /\ todo = {} /\ n \in {db.last, db.last + 1}
      /\ n # db.last => db.vault # 0 /\ journal[n] \in stray
  BY DEF Serves, Serving
<1>3. ASSUME NEW s \in (db.last + 1)..n PROVE s = n /\ n # db.last
  BY <1>1, <1>2
<1> QED BY <1>2, <1>3

\* An ordinary request changes the database alone, and what was used and is held.
LEMMA OrdinaryKeeps ==
  ASSUME TypeOK, NEW n \in 0..MaxOp, History(n), Serves(n), InTransaction(n), Answers(n), Serving,
         UNCHANGED <<synced, backup, journal, flushed, server, todo, tx, acked, refused, stray,
                     crashes>>,
         db' \in Db, db'.last = db.last, db.vault # 0 => db'.vault # 0,
         asked' \in 0..MaxOp, asked <= asked', used' \subseteq TokenId \cup WriteId,
         held' \subseteq WriteId, History(n)'
  PROVE  IInv'
<1>1. TypeOK'
  BY DEF TypeOK
<1>2. n \in Nat /\ asked \in Nat /\ asked' \in Nat /\ tx = NoTx /\ server = "up"
  BY Numbers, JournalAssumption DEF Serving
<1>3. Serves(n)'
  BY <1>2 DEF Serves
<1>4. InTransaction(n)'
  BY <1>2 DEF InTransaction
<1>5. Answers(n)'
  <2>1. \A r \in refused : r.id \in Nat /\ r.id <= asked'
    <3>1. \A r \in refused : r \in Record
      BY DEF TypeOK
    <3> QED BY <1>2, <3>1, RecordParts DEF Answers
  <2> QED BY <1>2, <2>1 DEF Answers
<1> QED BY <1>1, <1>3, <1>4, <1>5 DEF IInv

\* The history once the database has changed and the copies have not.
LEMMA HistoryOfNewDb ==
  ASSUME TypeOK, NEW n \in 0..MaxOp, History(n), UNCHANGED <<synced, backup, journal, stray>>,
         used \subseteq used', asked' \in Nat, asked <= asked',
         held' \cap synced.writes \subseteq held, held' \cap backup.writes \subseteq held,
         Sound(journal, n, db', held', stray, used', asked'), held' \subseteq db'.writes,
         Before(journal, backup, db'), Before(journal, synced, db')
  PROVE  History(n)'
<1>1. asked \in Nat /\ n <= asked' /\ n \in Nat
  BY Numbers
<1>2. \A s \in 1..n : Recorded(journal[s], used', asked')
  <2> SUFFICES ASSUME NEW s \in 1..n PROVE Recorded(journal[s], used', asked')
    OBVIOUS
  <2>1. Recorded(journal[s], used, asked)
    BY DEF History
  <2> QED BY <1>1, <2>1, RecordedWeaker
<1>3. \A d \in {synced, backup} : Sound(journal, n, d, held', stray, used', asked')
  <2> SUFFICES ASSUME NEW d \in {synced, backup}
               PROVE  Sound(journal, n, d, held', stray, used', asked')
    OBVIOUS
  <2>1. Sound(journal, n, d, held, stray, used, asked)
    BY DEF History, Copies
  <2>2. held' \cap d.writes \subseteq held
    OBVIOUS
  <2> QED BY <1>1, <2>1, <2>2, SoundWeaker
<1>4. \A d \in Copies' : Sound(journal, n, d, held', stray, used', asked')
  BY <1>3 DEF Copies
<1>5. "power" \in Faults => Before(journal, backup, synced)
  BY DEF History
<1>6. DOMAIN journal = 1..n
  BY DEF History
<1> QED BY <1>1, <1>2, <1>4, <1>5, <1>6 DEF History

\* create_vault: the vault's number is new, so that no deletion names it.
LEMMA Creates == ASSUME IInv, create_vault PROVE IInv'
<1> PICK n \in 0..MaxOp : History(n) /\ Serves(n) /\ InTransaction(n) /\ Answers(n)
  BY DEF IInv
<1>1. TypeOK /\ Serving /\ db.vault = 0
  BY DEF IInv, create_vault
<1>2. db.last = n /\ n \in Nat /\ asked \in Nat /\ asked < MaxOp /\ asked' = asked + 1
  BY <1>1, ServingHistory, Numbers DEF create_vault
<1>3. /\ Sound(journal, n, db', held, stray, used, asked') /\ db'.writes = db.writes
      /\ db'.last = n /\ \A c \in Db : Before(journal, c, db) => Before(journal, c, db')
  <2>1. db' = WithVault(db, asked')
    BY DEF create_vault, WithVault
  <2>2. Sound(journal, n, db, held, stray, used, asked)
        /\ \A s \in 1..n : Recorded(journal[s], used, asked)
    BY DEF History, Copies
  <2> QED BY <1>1, <1>2, <2>1, <2>2, SoundCreate
<1>4. Before(journal, backup, db') /\ Before(journal, synced, db')
  BY <1>1, <1>3, Numbers DEF History
<1>5. held \subseteq db'.writes
  BY <1>3 DEF History
<1>6. History(n)'
  BY <1>1, <1>2, <1>3, <1>4, <1>5, HistoryOfNewDb DEF create_vault, disk
<1>7. db' \in Db /\ asked' \in 0..MaxOp /\ asked <= asked' /\ used' \subseteq TokenId \cup WriteId
      /\ held' \subseteq WriteId
  <2>1. asked' \in 0..MaxOp /\ asked <= asked'
    BY <1>2, JournalAssumption
  <2> QED BY <1>1, <1>3, <2>1 DEF Sound, Shaped, TypeOK, create_vault
<1> QED BY <1>1, <1>2, <1>3, <1>6, <1>7, OrdinaryKeeps DEF create_vault, disk

\* register_token: the token is new, so that no record revokes it.
LEMMA Registers == ASSUME IInv, NEW t \in TokenId, register_token(t) PROVE IInv'
<1> PICK n \in 0..MaxOp : History(n) /\ Serves(n) /\ InTransaction(n) /\ Answers(n)
  BY DEF IInv
<1>1. TypeOK /\ Serving /\ db.vault # 0
  BY DEF IInv, register_token
<1>2. n \in Nat /\ asked \in Nat /\ \A s \in (db.last + 1)..n : journal[s] \in stray
  BY <1>1, ServingHistory, Numbers
<1>3. db' = WithToken(db, t) /\ t \notin used /\ used' = used \cup {t}
  BY DEF register_token, WithToken
<1>4. Sound(journal, n, db, held, stray, used, asked)
      /\ \A s \in 1..n : Recorded(journal[s], used, asked)
  BY DEF History, Copies
<1>5. Sound(journal, n, db', held, stray, used', asked)
  BY <1>1, <1>2, <1>3, <1>4, SoundToken
<1>6. db \in Db /\ db.generation \in 1..MaxGeneration
  BY <1>1, <1>4 DEF Sound, Shaped
<1>7. /\ db' \in Db /\ db'.vault = db.vault /\ db'.generation = db.generation
      /\ db'.writes = db.writes /\ db'.last = db.last /\ Tokens(db') = Tokens(db) \cup {t}
  BY <1>3, <1>6, TokenAdded
<1>8. \A c : Before(journal, c, db) => Before(journal, c, db')
  BY <1>7, BeforeGrows
<1>9. Before(journal, backup, db') /\ Before(journal, synced, db') /\ held \subseteq db'.writes
  BY <1>7, <1>8 DEF History
<1>10. History(n)'
  <2>1. used \subseteq used' /\ asked' = asked /\ held' = held
    BY <1>3 DEF register_token
  <2>2. UNCHANGED <<synced, backup, journal, stray>>
    BY DEF register_token, disk
  <2> QED BY <1>1, <1>2, <1>5, <1>9, <2>1, <2>2, HistoryOfNewDb
<1>11. asked' \in 0..MaxOp /\ asked <= asked' /\ used' \subseteq TokenId \cup WriteId
       /\ held' \subseteq WriteId
  BY <1>1, <1>2, <1>3 DEF TypeOK, register_token
<1> QED BY <1>1, <1>7, <1>10, <1>11, OrdinaryKeeps DEF register_token, disk

\* put_record: the write is new, so that no copy has it.
LEMMA Puts == ASSUME IInv, NEW w \in WriteId, put_record(w) PROVE IInv'
<1> PICK n \in 0..MaxOp : History(n) /\ Serves(n) /\ InTransaction(n) /\ Answers(n)
  BY DEF IInv
<1>1. TypeOK /\ Serving /\ db.vault # 0
  BY DEF IInv, put_record
<1>2. n \in Nat /\ asked \in Nat /\ \A s \in (db.last + 1)..n : journal[s] \in stray
  BY <1>1, ServingHistory, Numbers
<1>3. db' = WithWrite(db, w) /\ w \notin used /\ used' = used \cup {w} /\ held' = held \cup {w}
  BY DEF put_record, WithWrite
<1>4. Sound(journal, n, db, held, stray, used, asked)
  BY DEF History, Copies
<1>5. Sound(journal, n, db', held', stray, used', asked)
  BY <1>1, <1>2, <1>3, <1>4, SoundWrite
<1>6. db \in Db
  BY <1>4 DEF Sound, Shaped
<1>7. /\ db' \in Db /\ db'.vault = db.vault /\ db'.generation = db.generation
      /\ db'.writes = db.writes \cup {w} /\ db'.last = db.last /\ Tokens(db') = Tokens(db)
  BY <1>3, <1>6, WriteAdded
<1>8. \A c : Before(journal, c, db) => Before(journal, c, db')
  BY <1>7, BeforeGrows
<1>9. Before(journal, backup, db') /\ Before(journal, synced, db') /\ held' \subseteq db'.writes
  BY <1>3, <1>7, <1>8 DEF History
<1>10. held' \cap synced.writes \subseteq held /\ held' \cap backup.writes \subseteq held
  BY <1>3 DEF History, Copies, Sound, Shaped
<1>11. History(n)'
  <2>1. used \subseteq used' /\ asked' = asked
    BY <1>3 DEF put_record
  <2>2. UNCHANGED <<synced, backup, journal, stray>>
    BY DEF put_record, disk
  <2> QED BY <1>1, <1>2, <1>5, <1>9, <1>10, <2>1, <2>2, HistoryOfNewDb
<1>12. asked' \in 0..MaxOp /\ asked <= asked' /\ used' \subseteq TokenId \cup WriteId
       /\ held' \subseteq WriteId
  BY <1>1, <1>2, <1>3 DEF TypeOK, put_record
<1> QED BY <1>1, <1>7, <1>11, <1>12, OrdinaryKeeps DEF put_record, disk

-----------------------------------------------------------------------------
(* The critical operations. *)

\* The database a transaction will commit is the one its record replays to.
LEMMA BeginsReplay ==
  ASSUME NEW d \in Db, NEW r, replayable(d, r), NEW q, q = d.last + 1,
         effect(d, r) \in Db, effect(d, r).last = d.last, effect(d, r).applied = d.applied
  PROVE  [effect(d, r) EXCEPT !.last = @ + 1, !.applied = @ \cup {r.id}] = replayed(d, q, r)
<1>1. PICK c \in Db : c = effect(d, r) /\ c.last = d.last
  OBVIOUS
<1>2. replayable(d, r) /\ ~(d.last + 1 <= d.last) /\ d.last \in Nat
  BY DbParts
<1>3. replayed(d, q, r) = [c EXCEPT !.last = q, !.applied = @ \cup {r.id}]
  BY <1>1, <1>2 DEF replayed
<1>4. [c EXCEPT !.last = @ + 1, !.applied = @ \cup {r.id}]
      = [c EXCEPT !.last = q, !.applied = @ \cup {r.id}]
  BY <1>1 DEF Db
<1> QED BY <1>1, <1>3, <1>4

\* What an operation does to a vault it applies to.
LEMMA Effects ==
  ASSUME NEW d \in Db, NEW r \in Record
  PROVE  /\ effect(d, r) \in Db /\ effect(d, r).last = d.last
         /\ effect(d, r).applied = d.applied
<1>1. r.op \in {"revoke", "rotate", "delete"}
  BY RecordParts
<1>2. CASE r.op = "revoke"
  BY <1>2, Deletes DEF effect
<1>3. CASE r.op = "rotate"
  BY <1>3, Rotates DEF effect
<1>4. CASE r.op = "delete"
  BY <1>4, DeletesRow DEF effect
<1> QED BY <1>1, <1>2, <1>3, <1>4

\* The transaction of a request that passed its checks.
LEMMA Transacts ==
  ASSUME IInv, NEW r, begin(r), r \in Record, replayable(db, r), r.id = asked + 1,
         r.vault = db.vault, r.from = db.generation, r.revoked \cup r.writes \subseteq used,
         r.op = "rotate" => /\ r.from < MaxGeneration /\ r.writes = db.writes
                            /\ Tokens(db) \subseteq r.resealed \cup r.revoked
  PROVE  IInv'
<1> PICK n \in 0..MaxOp : History(n) /\ Serves(n) /\ InTransaction(n) /\ Answers(n)
  BY DEF IInv
<1>1. /\ TypeOK /\ Serving /\ db.vault # 0 /\ asked < MaxOp /\ asked' = asked + 1
      /\ server = "up" /\ tx = NoTx
  BY DEF IInv, begin, Serving
<1>2. /\ n \in Nat /\ asked \in Nat /\ asked' \in 0..MaxOp /\ asked <= asked' /\ n < asked'
      /\ db \in Db /\ asked' \in Nat /\ db.last \in Nat /\ db.last <= n
  BY <1>1, Numbers, JournalAssumption
<1>3. UNCHANGED <<db, synced, backup, journal, flushed, server, todo, acked, refused, stray,
                  held, used, crashes>>
  BY DEF begin, disk
<1>4. History(n)'
  BY <1>1, <1>2, <1>3, HistoryFrame
<1>5. \A s \in 1..n : journal[s].id \in Nat /\ journal[s].id < asked'
  <2> SUFFICES ASSUME NEW s \in 1..n PROVE journal[s].id \in Nat /\ journal[s].id < asked'
    OBVIOUS
  <2>1. journal[s] \in Record /\ journal[s].id <= asked
    BY DEF History, Recorded
  <2> QED BY <1>1, <1>2, <2>1, RecordParts
<1>6. n = db.last \/ (n = db.last + 1 /\ journal[n] \in stray)
  BY <1>1, <1>2, ServingHistory
<1> DEFINE c == effect(db, r)
           f == [c EXCEPT !.last = @ + 1, !.applied = @ \cup {r.id}]
<1>7. c \in Db /\ c.last = db.last /\ c.applied = db.applied
  BY <1>2, Effects
<1>8. f = replayed(db, db.last + 1, r)
  BY <1>2, <1>7, BeginsReplay
<1>9. tx' = [op |-> r, stage |-> "hook", after |-> f]
  BY DEF begin
<1> HIDE DEF c
<1>10. db.last + 1 \in 0..MaxOp /\ r.id \in 1..MaxOp /\ db.last + 1 \in Nat
  <2>1. r.id \in 1..MaxOp
    BY RecordParts
  <2>2. db.last + 1 \in 0..MaxOp /\ db.last + 1 \in Nat
    BY <1>1, <1>2, JournalAssumption
  <2> QED BY <2>1, <2>2
<1>11. f \in Db /\ f.applied = db.applied \cup {r.id}
  <2>1. PICK q \in 0..MaxOp : q = db.last + 1
    BY <1>10
  <2>2. f = [c EXCEPT !.last = q, !.applied = @ \cup {r.id}]
    BY <1>7, <2>1 DEF Db
  <2>3. f = Mark(c, q, r.id)
    BY <2>2 DEF Mark
  <2> HIDE DEF f
  <2> QED BY <1>7, <1>10, <2>3, Marked
<1> HIDE DEF f
<1>12. tx' \in Tx /\ tx' # NoTx /\ tx'.op = r /\ tx'.after = f /\ tx'.stage = "hook"
  <2>1. tx' \in Tx /\ tx'.op = r /\ tx'.after = f /\ tx'.stage = "hook"
    BY <1>9, <1>11 DEF Tx
  <2>2. tx'.stage # NoTx.stage
    BY <2>1 DEF NoTx
  <2> QED BY <2>1, <2>2
<1>13. TypeOK'
  BY <1>1, <1>2, <1>3, <1>12 DEF TypeOK
<1>14. Serves(n)'
  BY <1>1, <1>3, <1>6, <1>12 DEF Serves
<1>15. Recorded(r, used', asked')
  <2>1. r.vault <= asked'
    <3>1. db.vault <= asked /\ db.vault \in Nat
      BY <1>1, Numbers DEF History, Copies, Sound, Shaped
    <3> QED BY <1>1, <1>2, <3>1
  <2> QED BY <1>1, <1>2, <1>3, <2>1 DEF Recorded
<1>16. InTransaction(n)'
  BY <1>1, <1>2, <1>3, <1>5, <1>8, <1>11, <1>12, <1>15 DEF InTransaction
<1>17. Answers(n)'
  <2>1. ASSUME NEW p \in refused PROVE p.id <= asked' /\ p.id < asked'
    <3>1. p \in Record /\ p.id <= asked
      BY <1>1 DEF TypeOK, Answers
    <3> QED BY <1>1, <1>2, <3>1, RecordParts
  <2> QED BY <1>3, <2>1 DEF Answers
<1> QED BY <1>13, <1>4, <1>14, <1>16, <1>17 DEF IInv

\* A request, its fields, and what is known of a database that takes one.
LEMMA Requested ==
  ASSUME IInv, db.vault # 0, asked < MaxOp, NEW o \in {"revoke", "rotate", "delete"}
  PROVE  /\ Request(o) \in Record /\ asked + 1 \in 1..MaxOp /\ db.vault \in 1..MaxOp
         /\ db.generation \in 1..MaxGeneration /\ db \in Db
         /\ Tokens(db) \subseteq TokenId /\ Tokens(db) \subseteq used
         /\ db.writes \subseteq WriteId /\ db.writes \subseteq used
<1> PICK n \in 0..MaxOp : History(n)
  BY DEF IInv
<1>1. TypeOK
  BY DEF IInv
<1>2. Shaped(db, n, used, asked)
  BY DEF History, Copies, Sound
<1>3. asked + 1 \in 1..MaxOp /\ db.vault \in 1..MaxOp /\ db \in Db
  <2>1. asked \in Nat /\ db \in Db
    BY <1>1, Numbers
  <2>2. db.vault \in 0..MaxOp
    BY <2>1 DEF Db
  <2> QED BY <2>1, <2>2, JournalAssumption
<1>4. db.generation \in 1..MaxGeneration /\ Tokens(db) \subseteq used /\ db.writes \subseteq used
  BY <1>2 DEF Shaped
<1>5. Request(o) \in Record
  BY <1>3, <1>4 DEF Request, Record
<1>6. db.tokens \subseteq TokenId \X (1..(MaxGeneration + 1)) /\ db.writes \subseteq WriteId
  BY <1>3, DbParts
<1>7. Tokens(db) \subseteq TokenId
  BY <1>6 DEF Tokens
<1> QED BY <1>3, <1>4, <1>5, <1>6, <1>7

\* revoke_tokens names tokens of the vault.
LEMMA Revokes == ASSUME IInv, NEW ids \in SUBSET TokenId, revoke_tokens(ids) PROVE IInv'
<1> DEFINE X == ids \cap Tokens(db)
           r == [Request("revoke") EXCEPT !.revoked = X]
<1>1. db.vault # 0 /\ X # {} /\ begin(r) /\ asked < MaxOp
  BY DEF revoke_tokens, begin
<1>2. /\ Request("revoke") \in Record /\ db.vault \in 1..MaxOp
      /\ Tokens(db) \subseteq TokenId /\ Tokens(db) \subseteq used
  BY <1>1, Requested
<1>3. X \subseteq TokenId /\ X \subseteq used /\ X \cap Tokens(db) # {}
  BY <1>1, <1>2
<1> HIDE DEF X
<1>4. /\ r \in Record /\ r.id = asked + 1 /\ r.op = "revoke" /\ r.vault = db.vault
      /\ r.from = db.generation /\ r.revoked = X /\ r.writes = {}
  BY <1>2, <1>3 DEF Request, Record
<1> HIDE DEF r
<1>5. replayable(db, r)
  BY <1>1, <1>3, <1>4 DEF replayable
<1> QED BY <1>1, <1>3, <1>4, <1>5, Transacts

\* apply_rotation carries every write and every surviving token.
LEMMA Turns == ASSUME IInv, NEW ids \in SUBSET TokenId, apply_rotation(ids) PROVE IInv'
<1> DEFINE X == Tokens(db) \ ids
           r == [Request("rotate") EXCEPT !.writes = db.writes, !.revoked = ids, !.resealed = X]
<1>1. db.vault # 0 /\ begin(r) /\ asked < MaxOp /\ db.generation < MaxGeneration
      /\ ids \subseteq Tokens(db)
  BY DEF apply_rotation, begin
<1>2. /\ Request("rotate") \in Record /\ db.vault \in 1..MaxOp
      /\ Tokens(db) \subseteq TokenId /\ Tokens(db) \subseteq used
      /\ db.writes \subseteq WriteId /\ db.writes \subseteq used
  BY <1>1, Requested
<1>3. X \subseteq TokenId /\ ids \subseteq used /\ Tokens(db) \subseteq X \cup ids
  BY <1>1, <1>2
<1> HIDE DEF X
<1>4. /\ r \in Record /\ r.id = asked + 1 /\ r.op = "rotate" /\ r.vault = db.vault
      /\ r.from = db.generation /\ r.revoked = ids /\ r.writes = db.writes /\ r.resealed = X
  BY <1>2, <1>3 DEF Request, Record
<1> HIDE DEF r
<1>5. replayable(db, r)
  BY <1>1, <1>4 DEF replayable
<1> QED BY <1>1, <1>2, <1>3, <1>4, <1>5, Transacts

\* delete_vault deletes the vault it finds.
LEMMA Erases == ASSUME IInv, delete_vault PROVE IInv'
<1> DEFINE r == Request("delete")
<1>1. db.vault # 0 /\ begin(r) /\ asked < MaxOp
  BY DEF delete_vault, begin
<1>2. r \in Record
  BY <1>1, Requested
<1>3. /\ r.id = asked + 1 /\ r.op = "delete" /\ r.vault = db.vault
      /\ r.from = db.generation /\ r.revoked = {} /\ r.writes = {}
  BY DEF Request
<1> HIDE DEF r
<1>4. replayable(db, r)
  BY <1>1, <1>3 DEF replayable
<1> QED BY <1>1, <1>2, <1>3, <1>4, Transacts

\* What is known of an open transaction.
LEMMA Transaction ==
  ASSUME TypeOK, NEW n \in 0..MaxOp, History(n), Serves(n), InTransaction(n), tx # NoTx
  PROVE  /\ server = "up" /\ todo = {} /\ tx.op \in Record /\ tx.after \in Db
         /\ tx.after.last = db.last + 1 /\ n \in {db.last, db.last + 1} /\ asked \in Nat
         /\ tx.stage = "hook" => n < MaxOp /\ n < asked
         /\ tx.op.id = asked /\ tx.op.vault = db.vault /\ tx.op.from = db.generation
         /\ db.vault # 0 /\ Recorded(tx.op, used, asked)
<1>1. /\ server = "up" /\ tx \in Tx /\ db.vault # 0 /\ tx.op.from = db.generation
      /\ tx.after = replayed(db, db.last + 1, tx.op) /\ tx.op.id = asked
      /\ tx.op.vault = db.vault /\ Recorded(tx.op, used, asked)
  BY DEF InTransaction
<1>2. tx.op \in Record /\ tx.after \in Db /\ tx.stage \in {"hook", "commit"}
  BY <1>1 DEF Tx
<1>3. /\ n \in Nat /\ asked \in Nat /\ asked <= MaxOp /\ n <= MaxOp /\ db \in Db
      /\ db.last \in Nat /\ db.last <= n
  BY Numbers
<1>4. tx.stage = "hook" => n < asked /\ n < MaxOp
  <2>1. tx.stage = "hook" => n < asked
    BY DEF InTransaction
  <2> QED BY <1>3, <2>1, JournalAssumption
<1>5. tx.stage = "commit" => n = db.last + 1
  BY DEF InTransaction
<1>6. db.last < MaxOp
  BY <1>2, <1>3, <1>4, <1>5, JournalAssumption
<1>7. tx.after.last = db.last + 1
  <2>1. PICK e : e = replayed(db, db.last + 1, tx.op)
    OBVIOUS
  <2>2. e.last = db.last + 1
    BY <1>1, <1>2, <1>3, <1>6, <2>1, ReplayFields
  <2> QED BY <1>1, <2>1, <2>2
<1>8. todo = {} /\ n \in {db.last, db.last + 1}
  BY <1>1 DEF Serves
<1> QED BY <1>1, <1>2, <1>3, <1>4, <1>7, <1>8

\* fail, the journal untouched: the refused operation is in no record.
LEMMA FailsClean ==
  ASSUME IInv, tx # NoTx, tx.stage = "hook", fail, UNCHANGED <<journal, flushed, stray>>
  PROVE  IInv'
<1> PICK n \in 0..MaxOp : History(n) /\ Serves(n) /\ InTransaction(n) /\ Answers(n)
  BY DEF IInv
<1>1. TypeOK
  BY DEF IInv
<1>2. /\ server = "up" /\ todo = {} /\ tx.op \in Record /\ tx.op.id = asked /\ asked \in Nat
  BY <1>1, Transaction
<1>3. /\ tx' = NoTx /\ refused' = refused \cup {tx.op}
      /\ UNCHANGED <<db, synced, backup, server, todo, acked, held, asked, used, crashes>>
  BY DEF fail
<1>4. TypeOK'
  BY <1>1, <1>2, <1>3 DEF TypeOK
<1>5. History(n)'
  BY <1>1, <1>2, <1>3, HistoryFrame
<1>6. Serves(n)'
  BY <1>2, <1>3 DEF Serves
<1>7. InTransaction(n)'
  BY <1>3 DEF InTransaction
<1>8. Answers(n)'
  <2>1. \A s \in 1..n : journal[s].id # tx.op.id
    <3>1. \A s \in 1..n : journal[s].id < asked
      BY DEF InTransaction
    <3>2. \A s \in 1..n : journal[s].id \in Nat
      BY RecordParts DEF History, Recorded
    <3> QED BY <1>2, <3>1, <3>2
  <2>2. \A r \in refused : r.id <= asked
    BY DEF Answers
  <2>3. \A r \in refused' : r.id <= asked
    BY <1>2, <1>3, <2>2
  <2> QED BY <1>3, <2>1, <2>3 DEF Answers
<1> QED BY <1>4, <1>5, <1>6, <1>7, <1>8 DEF IInv

\* The record of the open transaction is renamed into place.
LEMMA Appends ==
  ASSUME TypeOK, NEW n \in 0..MaxOp, History(n), Serves(n), InTransaction(n), tx # NoTx,
         tx.stage = "hook", tx.after.last \notin DOMAIN journal, journal' = renamed,
         UNCHANGED <<db, synced, backup, held, used, asked>>, stray \subseteq stray'
  PROVE  /\ History(n + 1)' /\ n = db.last /\ n + 1 \in 0..MaxOp
         /\ DOMAIN journal' = 1..(n + 1) /\ journal'[n + 1] = tx.op
         /\ \A s \in 1..n : journal'[s] = journal[s]
         /\ journal' \in [DOMAIN journal' -> Record] /\ DOMAIN journal' \subseteq 1..MaxOp
<1>1. /\ tx.op \in Record /\ tx.after.last = db.last + 1 /\ n \in {db.last, db.last + 1}
      /\ asked \in Nat /\ n < MaxOp /\ n < asked /\ tx.op.vault = db.vault
      /\ tx.op.from = db.generation /\ db.vault # 0 /\ Recorded(tx.op, used, asked)
  BY Transaction
<1>2. /\ n \in Nat /\ db \in Db /\ synced \in Db /\ backup \in Db /\ db.last \in Nat
      /\ db.last <= n /\ asked <= MaxOp
  BY Numbers
<1>3. DOMAIN journal = 1..n
  BY DEF History
<1>4. n = db.last
  <2>1. n = db.last + 1 => db.last + 1 \in 1..n
    BY <1>2
  <2> QED BY <1>1, <1>3, <2>1
<1>5. n + 1 \in 0..MaxOp /\ n + 1 <= asked /\ n + 1 \in 1..MaxOp
  BY <1>1, <1>2, JournalAssumption
<1>6. DOMAIN journal' = 1..(n + 1)
  <2>1. DOMAIN journal' = (1..n) \cup {n + 1}
    BY <1>1, <1>3, <1>4 DEF renamed
  <2> QED BY <1>2, <2>1
<1>7. journal'[n + 1] = tx.op
  BY <1>1, <1>2, <1>3, <1>4 DEF renamed
<1>8. ASSUME NEW s \in 1..n PROVE journal'[s] = journal[s] /\ journal[s] \in Record
  <2>1. s \in DOMAIN journal /\ s # n + 1
    BY <1>2, <1>3
  <2> QED BY <1>1, <1>4, <2>1 DEF renamed, TypeOK
<1>9. \A s \in 1..(n + 1) : s \in 1..n \/ s = n + 1
  BY <1>2
<1>10. journal' \in [DOMAIN journal' -> Record]
  <2>1. journal' = [s \in DOMAIN journal' |-> journal'[s]]
    BY DEF renamed
  <2>2. \A s \in DOMAIN journal' : journal'[s] \in Record
    BY <1>1, <1>6, <1>7, <1>8, <1>9
  <2> QED BY <2>1, <2>2
<1>11. \A s \in 1..(n + 1) : Recorded(journal'[s], used, asked)
  BY <1>1, <1>7, <1>8, <1>9 DEF History
<1>12. ASSUME NEW d \in Copies PROVE Sound(journal', n + 1, d, held, stray', used, asked)
  <2>1. Sound(journal, n, d, held, stray, used, asked)
    BY DEF History
  <2>2. Before(journal, d, db)
    BY <1>2, BeforeItself DEF History, Copies
  <2>3. held \subseteq db.writes
    BY DEF History
  <2>4. tx.op.op = "rotate" => /\ tx.op.writes = db.writes
                               /\ Tokens(db) \subseteq tx.op.resealed \cup tx.op.revoked
    BY DEF InTransaction
  <2>5. Sound(journal', n + 1, d, held, stray, used, asked)
    BY <1>1, <1>2, <1>4, <1>7, <1>8, <2>1, <2>2, <2>3, <2>4, SoundAppend
  <2> QED BY <1>1, <2>5, SoundWeaker
<1>13. /\ Before(journal', backup, db) /\ Before(journal', synced, db)
       /\ "power" \in Faults => Before(journal', backup, synced)
  <2>1. \A s \in 1..n : journal'[s] = journal[s]
    BY <1>8
  <2>2. synced.last <= n
    BY DEF History, Copies, Sound, Shaped
  <2> QED BY <1>2, <2>1, <2>2, BeforeAppend DEF History
<1>14. Copies' = Copies /\ held \subseteq db.writes
  BY DEF Copies, History
<1>15. 1..(n + 1) \subseteq 1..MaxOp
  BY <1>2, <1>5, JournalAssumption
<1> QED BY <1>4, <1>5, <1>6, <1>7, <1>8, <1>10, <1>11, <1>12, <1>13, <1>14, <1>15 DEF History

\* sync_dir_fails: the refused operation's record stays, and is stray.
LEMMA FailsStray ==
  ASSUME IInv, tx # NoTx, tx.stage = "hook", sync_dir_fails PROVE IInv'
<1> PICK n \in 0..MaxOp : History(n) /\ Serves(n) /\ InTransaction(n) /\ Answers(n)
  BY DEF IInv
<1>1. TypeOK
  BY DEF IInv
<1>2. /\ server = "up" /\ todo = {} /\ tx.op \in Record /\ tx.op.id = asked /\ asked \in Nat
      /\ db.vault # 0
  BY <1>1, Transaction
<1>3. /\ tx' = NoTx /\ refused' = refused \cup {tx.op} /\ stray' = stray \cup {tx.op}
      /\ flushed' = flushed /\ journal' = renamed /\ tx.after.last \notin DOMAIN journal
      /\ UNCHANGED <<db, synced, backup, server, todo, acked, held, asked, used, crashes>>
  BY DEF fail, sync_dir_fails
<1>4. /\ History(n + 1)' /\ n = db.last /\ n + 1 \in 0..MaxOp
      /\ DOMAIN journal' = 1..(n + 1) /\ journal'[n + 1] = tx.op
      /\ \A s \in 1..n : journal'[s] = journal[s]
      /\ journal' \in [DOMAIN journal' -> Record] /\ DOMAIN journal' \subseteq 1..MaxOp
  BY <1>1, <1>3, Appends
<1>5. flushed \subseteq 1..n /\ n \in Nat /\ DOMAIN journal = 1..n
  BY <1>1, Numbers DEF TypeOK, History
<1>6. TypeOK'
  <2>1. flushed' \subseteq DOMAIN journal'
    BY <1>3, <1>4, <1>5
  <2>2. todo' \subseteq DOMAIN journal' /\ tx' \in Tx \cup {NoTx}
    BY <1>2, <1>3
  <2>3. {acked', refused', stray'} \subseteq SUBSET Record
    BY <1>1, <1>2, <1>3 DEF TypeOK
  <2> QED BY <1>1, <1>3, <1>4, <2>1, <2>2, <2>3 DEF TypeOK
<1>7. Serves(n + 1)'
  BY <1>2, <1>3, <1>4, <1>5 DEF Serves
<1>8. InTransaction(n + 1)'
  BY <1>3 DEF InTransaction
<1>9. Answers(n + 1)'
  <2>1. \A r \in refused' : r.id <= asked'
    BY <1>2, <1>3 DEF Answers
  <2>2. \A r \in acked' : \E s \in flushed' : journal'[s] = r /\ (server' = "up" => s <= db'.last)
    BY <1>3, <1>4, <1>5 DEF Answers
  <2>3. ASSUME NEW r \in refused' \ stray', NEW s \in 1..(n + 1) PROVE journal'[s].id # r.id
    <3>1. r \in refused \ stray /\ r.id < asked /\ r.id \in Nat
      BY <1>1, <1>3, RecordParts DEF Answers, TypeOK
    <3>2. CASE s = n + 1
      BY <1>2, <1>4, <3>1, <3>2
    <3>3. CASE s # n + 1
      <4>1. s \in 1..n
        BY <1>5, <3>3
      <4> QED BY <1>4, <3>1, <4>1 DEF Answers
    <3> QED BY <3>2, <3>3
  <2> QED BY <1>3, <2>1, <2>2, <2>3 DEF Answers
<1> QED BY <1>4, <1>6, <1>7, <1>8, <1>9 DEF IInv

\* put_succeeds: the record is on disk and the transaction is to commit.
LEMMA PutSucceeds ==
  ASSUME IInv, tx # NoTx, tx.stage = "hook", put_succeeds PROVE IInv'
<1> PICK n \in 0..MaxOp : History(n) /\ Serves(n) /\ InTransaction(n) /\ Answers(n)
  BY DEF IInv
<1>1. TypeOK /\ tx \in Tx
  BY DEF IInv, InTransaction
<1>2. /\ server = "up" /\ todo = {} /\ tx.op \in Record /\ tx.op.id = asked /\ asked \in Nat
      /\ db.vault # 0 /\ db.last \in Nat
  BY <1>1, Transaction, Numbers
<1>3. /\ journal' = renamed /\ flushed' = DOMAIN journal' /\ tx' = [tx EXCEPT !.stage = "commit"]
      /\ tx.after.last \notin DOMAIN journal
      /\ UNCHANGED <<db, synced, backup, server, todo, acked, refused, stray, held, asked, used,
                     crashes>>
  BY DEF put_succeeds, client
<1>4. /\ History(n + 1)' /\ n = db.last /\ n + 1 \in 0..MaxOp
      /\ DOMAIN journal' = 1..(n + 1) /\ journal'[n + 1] = tx.op
      /\ \A s \in 1..n : journal'[s] = journal[s]
      /\ journal' \in [DOMAIN journal' -> Record] /\ DOMAIN journal' \subseteq 1..MaxOp
  BY <1>1, <1>3, Appends
<1>5. flushed \subseteq 1..n /\ n \in Nat /\ DOMAIN journal = 1..n
  BY <1>1, Numbers DEF TypeOK, History
<1>6. tx' \in Tx /\ tx'.op = tx.op /\ tx'.after = tx.after /\ tx'.stage = "commit" /\ tx' # NoTx
  <2>1. tx' \in Tx /\ tx'.op = tx.op /\ tx'.after = tx.after /\ tx'.stage = "commit"
    BY <1>1, <1>3 DEF Tx
  <2>2. tx'.stage # NoTx.stage
    BY <2>1 DEF NoTx
  <2> QED BY <2>1, <2>2
<1>7. TypeOK'
  <2>1. flushed' \subseteq DOMAIN journal' /\ todo' \subseteq DOMAIN journal'
    BY <1>2, <1>3
  <2> QED BY <1>1, <1>3, <1>4, <1>6, <2>1 DEF TypeOK
<1>8. Serves(n + 1)'
  BY <1>2, <1>3, <1>4, <1>6 DEF Serves
<1>9. InTransaction(n + 1)'
  BY <1>2, <1>3, <1>4, <1>6 DEF InTransaction
<1>10. Answers(n + 1)'
  <2>1. \A r \in refused' : r.id <= asked' /\ r.id < asked'
    BY <1>2, <1>3 DEF Answers
  <2>2. \A r \in acked' : \E s \in flushed' : journal'[s] = r /\ (server' = "up" => s <= db'.last)
    <3>1. 1..n \subseteq 1..(n + 1)
      BY <1>5
    <3> QED BY <1>3, <1>4, <1>5, <3>1 DEF Answers
  <2>3. ASSUME NEW r \in refused' \ stray', NEW s \in 1..(n + 1) PROVE journal'[s].id # r.id
    <3>1. r \in refused \ stray /\ r.id < asked /\ r.id \in Nat
      BY <1>1, <1>3, RecordParts DEF Answers, TypeOK
    <3>2. CASE s = n + 1
      BY <1>2, <1>4, <3>1, <3>2
    <3>3. CASE s # n + 1
      <4>1. s \in 1..n
        BY <1>5, <3>3
      <4> QED BY <1>4, <3>1, <4>1 DEF Answers
    <3> QED BY <3>2, <3>3
  <2> QED BY <1>3, <2>1, <2>2, <2>3 DEF Answers
<1> QED BY <1>4, <1>7, <1>8, <1>9, <1>10 DEF IInv

\* put, in any of its outcomes.
LEMMA PutsRecord == ASSUME IInv, put PROVE IInv'
<1>1. tx.stage = "hook" /\ tx # NoTx
  BY DEF put, NoTx
<1>2. CASE put_taken
  BY <1>1, <1>2, FailsClean DEF put_taken
<1>3. CASE put_fails
  BY <1>1, <1>3, FailsClean DEF put_fails
<1>4. CASE sync_dir_fails
  BY <1>1, <1>4, FailsStray
<1>5. CASE put_succeeds
  BY <1>1, <1>5, PutSucceeds
<1> QED BY <1>2, <1>3, <1>4, <1>5 DEF put

\* commit: the database replays the record it has just written.
LEMMA Commits == ASSUME IInv, commit PROVE IInv'
<1> PICK n \in 0..MaxOp : History(n) /\ Serves(n) /\ InTransaction(n) /\ Answers(n)
  BY DEF IInv
<1>1. TypeOK /\ tx.stage = "commit" /\ tx # NoTx
  BY DEF IInv, commit, NoTx
<1> DEFINE r == tx.op
<1>2. /\ n = db.last + 1 /\ journal[n] = r /\ flushed = 1..n /\ tx.after = replayed(db, db.last + 1, r)
      /\ tx.op.op = "rotate" => tx.op.writes = db.writes
  BY <1>1 DEF InTransaction
<1>3. /\ server = "up" /\ todo = {} /\ r \in Record /\ tx.after \in Db /\ r.from = db.generation
      /\ db.vault # 0 /\ tx.after.last = db.last + 1
  BY <1>1, Transaction
<1>4. /\ n \in Nat /\ n <= MaxOp /\ asked \in Nat /\ asked <= MaxOp /\ db \in Db /\ synced \in Db
      /\ backup \in Db /\ db.last \in Nat
  BY <1>1, Numbers
<1>5. /\ db' = tx.after /\ acked' = acked \cup {r} /\ tx' = NoTx
      /\ held' = IF r.op = "delete" THEN {} ELSE held
      /\ UNCHANGED <<synced, backup, journal, flushed, server, todo, refused, stray, asked, used,
                     crashes>>
  BY DEF commit, disk
<1> HIDE DEF r
<1>6. db' = replayed(db, db.last + 1, journal[db.last + 1]) /\ held' \subseteq held
  BY <1>2, <1>5
<1>7. /\ \A s \in 1..n : Recorded(journal[s], used, asked)
      /\ Sound(journal, n, db, held, stray, used, asked) /\ db.last < n /\ held \subseteq db.writes
      /\ Before(journal, backup, db) /\ Before(journal, synced, db)
  BY <1>2, <1>4 DEF History, Copies
<1>8. Sound(journal, n, db', held', stray, used, asked)
  BY <1>4, <1>6, <1>7, SoundReplay
<1>9. Before(journal, backup, db') /\ Before(journal, synced, db')
  <2>1. Shaped(db, n, used, asked) /\ Line(journal, n, db)
    BY <1>7 DEF Sound
  <2> QED BY <1>4, <1>6, <1>7, <2>1, BeforeReplay
<1>10. held' \subseteq db'.writes
  <2>1. /\ r.op = "revoke" => db'.writes = db.writes
        /\ r.op = "rotate" => db'.writes = r.writes
    <3>1. db.last < MaxOp
      BY <1>2, <1>4, JournalAssumption
    <3>2. db' = replayed(db, db.last + 1, r)
      BY <1>2, <1>5
    <3> QED BY <1>3, <1>4, <3>1, <3>2, ReplayFields
  <2>2. r.op \in {"revoke", "rotate", "delete"}
    BY <1>3, RecordParts
  <2>3. r.op = "rotate" => r.writes = db.writes
    BY <1>2 DEF r
  <2> QED BY <1>5, <1>7, <2>1, <2>2, <2>3
<1>11. History(n)'
  <2>1. UNCHANGED <<synced, backup, journal, stray>> /\ used \subseteq used' /\ asked' \in Nat
        /\ asked <= asked' /\ asked' = asked /\ used' = used
    BY <1>4, <1>5
  <2>2. held' \cap synced.writes \subseteq held /\ held' \cap backup.writes \subseteq held
    BY <1>6
  <2> QED BY <1>1, <1>8, <1>9, <1>10, <2>1, <2>2, HistoryOfNewDb
<1>12. TypeOK'
  <2>1. tx' \in Tx \cup {NoTx} /\ acked' \subseteq Record /\ held' \subseteq WriteId /\ db' \in Db
    BY <1>1, <1>3, <1>5, <1>6 DEF TypeOK
  <2> QED BY <1>1, <1>5, <2>1 DEF TypeOK
<1>13. Serves(n)'
  BY <1>2, <1>3, <1>5 DEF Serves
<1>14. InTransaction(n)'
  BY <1>5 DEF InTransaction
<1>15. Answers(n)'
  <2>1. ASSUME NEW p \in acked'
        PROVE  \E s \in flushed' : journal'[s] = p /\ (server' = "up" => s <= db'.last)
    <3>1. CASE p = r
      <4>1. n \in 1..n /\ n <= db'.last
        BY <1>2, <1>3, <1>4, <1>5
      <4> QED BY <1>2, <1>5, <3>1, <4>1
    <3>2. CASE p \in acked
      <4>1. PICK s \in flushed : journal[s] = p /\ s <= db.last
        BY <1>3, <3>2 DEF Answers
      <4>2. s <= db'.last
        BY <1>2, <1>3, <1>4, <1>5, <4>1
      <4> QED BY <1>5, <4>1, <4>2
    <3> QED BY <1>5, <3>1, <3>2
  <2>2. \A p \in refused' : p.id <= asked'
    BY <1>5 DEF Answers
  <2>3. \A p \in refused' \ stray' : \A s \in 1..n : journal'[s].id # p.id
    BY <1>5 DEF Answers
  <2> QED BY <1>5, <2>1, <2>2, <2>3 DEF Answers
<1> QED BY <1>11, <1>12, <1>13, <1>14, <1>15 DEF IInv

\* commit_fails: the record stays, and is stray.
LEMMA CommitFails == ASSUME IInv, commit_fails PROVE IInv'
<1> PICK n \in 0..MaxOp : History(n) /\ Serves(n) /\ InTransaction(n) /\ Answers(n)
  BY DEF IInv
<1>1. TypeOK /\ tx.stage = "commit" /\ tx # NoTx
  BY DEF IInv, commit_fails, NoTx
<1>2. n = db.last + 1 /\ journal[n] = tx.op
  BY <1>1 DEF InTransaction
<1>3. /\ server = "up" /\ todo = {} /\ tx.op \in Record /\ db.vault # 0 /\ asked \in Nat
  BY <1>1, Transaction
<1>4. /\ tx' = NoTx /\ stray' = stray \cup {tx.op}
      /\ UNCHANGED <<db, synced, backup, journal, flushed, server, todo, acked, refused, held,
                     asked, used, crashes>>
  BY DEF commit_fails, disk
<1>5. TypeOK'
  BY <1>1, <1>3, <1>4 DEF TypeOK
<1>6. History(n)'
  BY <1>1, <1>3, <1>4, HistoryFrame
<1>7. Serves(n)'
  BY <1>2, <1>3, <1>4 DEF Serves
<1>8. InTransaction(n)'
  BY <1>4 DEF InTransaction
<1>9. Answers(n)'
  BY <1>4 DEF Answers
<1> QED BY <1>5, <1>6, <1>7, <1>8, <1>9 DEF IInv

-----------------------------------------------------------------------------
(* Starting, stopping, and the operator. *)

\* The history once the databases are replaced by one another, and less is held.
LEMMA HistoryOfCopies ==
  ASSUME TypeOK, NEW n \in 0..MaxOp, History(n), UNCHANGED <<journal, stray, used, asked>>,
         {db', synced', backup'} \subseteq Copies, held' \subseteq held, held' \subseteq db'.writes,
         Before(journal, backup', db'), Before(journal, synced', db'),
         "power" \in Faults => Before(journal, backup', synced')
  PROVE  History(n)'
<1>1. n \in Nat /\ asked \in Nat /\ n <= asked /\ asked <= asked
  BY Numbers
<1>2. \A d \in Copies' : Sound(journal, n, d, held', stray, used, asked)
  <2> SUFFICES ASSUME NEW d \in Copies' PROVE Sound(journal, n, d, held', stray, used, asked)
    OBVIOUS
  <2>1. d \in Copies
    BY DEF Copies
  <2>2. Sound(journal, n, d, held, stray, used, asked) /\ held' \cap d.writes \subseteq held
    BY <2>1 DEF History
  <2> QED BY <1>1, <2>2, SoundWeaker
<1>3. DOMAIN journal = 1..n /\ \A s \in 1..n : Recorded(journal[s], used, asked)
  BY DEF History
<1> QED BY <1>1, <1>2, <1>3 DEF History

\* No transaction is open unless the server is up.
LEMMA NoTransaction ==
  ASSUME NEW n, InTransaction(n), server # "up" PROVE tx = NoTx
  BY DEF InTransaction

\* open: what is to be replayed is the rest of the history.
LEMMA Opens == ASSUME IInv, open PROVE IInv'
<1> PICK n \in 0..MaxOp : History(n) /\ Serves(n) /\ InTransaction(n) /\ Answers(n)
  BY DEF IInv
<1>1. TypeOK /\ tx = NoTx
  BY NoTransaction DEF IInv, open
<1>2. /\ server' = "opening" /\ todo' = list_after(db.last)
      /\ UNCHANGED <<db, synced, backup, journal, flushed, tx, acked, refused, stray, held, asked,
                     used, crashes>>
  BY DEF open, disk, client
<1>3. n \in Nat /\ db.last \in Nat /\ asked \in Nat /\ DOMAIN journal = 1..n
  BY <1>1, Numbers DEF History
<1>4. todo' = (db.last + 1)..n /\ todo' \subseteq DOMAIN journal
  BY <1>2, <1>3 DEF list_after
<1>5. TypeOK'
  BY <1>1, <1>2, <1>4 DEF TypeOK
<1>6. History(n)'
  BY <1>1, <1>2, <1>3, HistoryFrame
<1>7. Serves(n)'
  BY <1>2, <1>4 DEF Serves
<1>8. InTransaction(n)'
  BY <1>1, <1>2 DEF InTransaction
<1>9. Answers(n)'
  BY <1>2 DEF Answers
<1> QED BY <1>5, <1>6, <1>7, <1>8, <1>9 DEF IInv

\* The first record to be replayed is the one after last_applied.
LEMMA FirstToDo ==
  ASSUME NEW a \in Nat, NEW n \in Nat, (a + 1)..n # {}
  PROVE  Min((a + 1)..n) = a + 1 /\ a < n
<1>1. a + 1 \in (a + 1)..n /\ \A y \in (a + 1)..n : a + 1 <= y /\ y \in Int
  OBVIOUS
<1>2. \A x \in (a + 1)..n : (\A y \in (a + 1)..n : x <= y) => x = a + 1
  BY <1>1
<1> QED BY <1>1, <1>2 DEF Min

\* replay: the database moves one record along the history.
LEMMA Replays == ASSUME IInv, replay PROVE IInv'
<1> PICK n \in 0..MaxOp : History(n) /\ Serves(n) /\ InTransaction(n) /\ Answers(n)
  BY DEF IInv
<1>1. TypeOK /\ tx = NoTx /\ server = "opening" /\ todo # {}
  BY NoTransaction DEF IInv, replay
<1>2. /\ n \in Nat /\ n <= MaxOp /\ asked \in Nat /\ asked <= MaxOp /\ db \in Db /\ synced \in Db
      /\ backup \in Db /\ db.last \in Nat /\ DOMAIN journal = 1..n
  BY <1>1, Numbers DEF History
<1>3. todo = (db.last + 1)..n
  BY <1>1 DEF Serves
<1>4. Min(todo) = db.last + 1 /\ db.last < n
  BY <1>1, <1>2, <1>3, FirstToDo
<1> DEFINE r == journal[db.last + 1]
<1>5. /\ db' = replayed(db, db.last + 1, r) /\ todo' = todo \ {db.last + 1}
      /\ UNCHANGED <<synced, backup, journal, flushed, server, tx, acked, refused, stray, asked,
                     used, crashes>>
  BY <1>4 DEF replay, disk
<1>6. held' = CASE r.op = "delete" /\ r.vault = db.vault -> {}
                [] r \in stray -> held \cap db'.writes
                [] OTHER -> held
  BY <1>4 DEF replay
<1>7. /\ \A s \in 1..n : Recorded(journal[s], used, asked)
      /\ Sound(journal, n, db, held, stray, used, asked) /\ held \subseteq db.writes
      /\ Before(journal, backup, db) /\ Before(journal, synced, db)
  BY DEF History, Copies
<1>8. db.last + 1 \in 1..n /\ db.last < MaxOp /\ Recorded(r, used, asked) /\ r \in Record
  <2>1. db.last + 1 \in 1..n /\ db.last < MaxOp
    BY <1>2, <1>4, JournalAssumption
  <2> QED BY <1>7, <2>1 DEF Recorded
<1>9. /\ db.vault # 0 => r.vault = db.vault /\ r.from = db.generation
      /\ db.vault = 0 => db.tokens = {} /\ db.writes = {}
  <2>1. Line(journal, n, db) /\ Shaped(db, n, used, asked)
    BY <1>7 DEF Sound
  <2> QED BY <1>2, <1>4, <2>1, NextFits DEF Shaped
<1>10. /\ db' \in Db /\ db'.last = db.last + 1
       /\ r.op = "delete" \/ db.vault = 0 => db'.writes = {}
       /\ r.op = "revoke" => db'.writes = db.writes
       /\ r.op = "rotate" /\ db.vault # 0 => db'.writes = r.writes
  BY <1>2, <1>5, <1>8, <1>9, ReplayFields, SMTT(30)
<1>11. held' \subseteq held /\ held' \subseteq db'.writes
  <2>1. r.op \in {"revoke", "rotate", "delete"}
    BY <1>8, RecordParts
  <2>2. r \notin stray /\ r.op = "rotate" => held \cap db.writes \subseteq r.writes
    <3>1. db.last + 1 \in (db.last + 1)..n
      BY <1>2, <1>4
    <3> QED BY <1>7, <3>1 DEF Sound, CarriesHeld
  <2>3. CASE db.vault = 0
    <3>1. held = {}
      BY <1>7, <1>9, <2>3
    <3> QED BY <1>6, <3>1
  <2>4. CASE db.vault # 0 /\ r.op = "delete"
    BY <1>6, <1>9, <2>4
  <2>5. CASE db.vault # 0 /\ r.op # "delete"
    <3>1. held' = IF r \in stray THEN held \cap db'.writes ELSE held
      BY <1>6, <2>5
    <3>2. r \notin stray => held \subseteq db'.writes
      BY <1>7, <1>10, <2>1, <2>2, <2>5
    <3> QED BY <3>1, <3>2
  <2> QED BY <2>3, <2>4, <2>5
<1>12. Sound(journal, n, db', held', stray, used, asked)
  BY <1>2, <1>4, <1>5, <1>7, <1>11, SoundReplay
<1>13. Before(journal, backup, db') /\ Before(journal, synced, db')
  <2>1. Shaped(db, n, used, asked) /\ Line(journal, n, db)
    BY <1>7 DEF Sound
  <2> QED BY <1>2, <1>4, <1>5, <1>7, <2>1, BeforeReplay
<1> HIDE DEF r
<1>14. History(n)'
  <2>1. UNCHANGED <<synced, backup, journal, stray>> /\ used \subseteq used' /\ asked' \in Nat
        /\ asked <= asked' /\ asked' = asked /\ used' = used
    BY <1>2, <1>5
  <2>2. held' \cap synced.writes \subseteq held /\ held' \cap backup.writes \subseteq held
    BY <1>11
  <2> QED BY <1>1, <1>11, <1>12, <1>13, <2>1, <2>2, HistoryOfNewDb
<1>15. TypeOK'
  BY <1>1, <1>5, <1>10, <1>11 DEF TypeOK
<1>16. Serves(n)'
  <2>1. todo' = (db'.last + 1)..n
    BY <1>2, <1>3, <1>5, <1>10
  <2> QED BY <1>1, <1>5, <2>1 DEF Serves
<1>17. InTransaction(n)'
  BY <1>1, <1>5 DEF InTransaction
<1>18. Answers(n)'
  BY <1>1, <1>5 DEF Answers
<1> QED BY <1>14, <1>15, <1>16, <1>17, <1>18 DEF IInv

\* serve: the database is at the end of the history.
LEMMA ServesUp == ASSUME IInv, serve PROVE IInv'
<1> PICK n \in 0..MaxOp : History(n) /\ Serves(n) /\ InTransaction(n) /\ Answers(n)
  BY DEF IInv
<1>1. TypeOK /\ tx = NoTx /\ server = "opening" /\ todo = {}
  BY NoTransaction DEF IInv, serve
<1>2. n \in Nat /\ db.last \in Nat /\ db.last <= n /\ asked \in Nat /\ DOMAIN journal = 1..n
  BY <1>1, Numbers DEF History
<1>3. n = db.last
  <2>1. (db.last + 1)..n = {}
    BY <1>1 DEF Serves
  <2>2. db.last + 1 \in Nat /\ (db.last < n => db.last + 1 \in (db.last + 1)..n)
    BY <1>2
  <2> QED BY <1>2, <2>1, <2>2
<1>4. /\ server' = "up"
      /\ UNCHANGED <<db, synced, backup, journal, flushed, todo, tx, acked, refused, stray, held,
                     asked, used, crashes>>
  BY DEF serve, disk, client
<1>5. TypeOK'
  BY <1>1, <1>4 DEF TypeOK
<1>6. History(n)'
  BY <1>1, <1>2, <1>4, HistoryFrame
<1>7. Serves(n)'
  BY <1>1, <1>3, <1>4 DEF Serves
<1>8. InTransaction(n)'
  BY <1>1, <1>4 DEF InTransaction
<1>9. Answers(n)'
  <2>1. \A s \in flushed : s <= db.last
    BY <1>1, <1>2, <1>3 DEF TypeOK
  <2> QED BY <1>4, <2>1 DEF Answers
<1> QED BY <1>5, <1>6, <1>7, <1>8, <1>9 DEF IInv

\* A server that is stopped: what the clients were told is in the journal.
LEMMA Stopped ==
  ASSUME TypeOK, NEW n \in 0..MaxOp, Answers(n), Stop, History(n)',
         db' \in Db, journal' = journal, flushed' = flushed, held' \subseteq WriteId,
         crashes < MaxCrash, crashes' = crashes + 1,
         UNCHANGED <<synced, backup, acked, refused, stray, asked, used>>
  PROVE  IInv'
<1>1. crashes' \in 0..MaxCrash
  BY JournalAssumption DEF TypeOK
<1>2. TypeOK'
  BY <1>1 DEF TypeOK, Stop
<1>3. Serves(n)' /\ InTransaction(n)'
  BY DEF Serves, InTransaction, Stop
<1>4. Answers(n)'
  BY DEF Answers, Stop
<1> QED BY <1>2, <1>3, <1>4 DEF IInv

\* Crash: what is committed stays, and so does what is renamed.
LEMMA Crashes == ASSUME IInv, Crash PROVE IInv'
<1> PICK n \in 0..MaxOp : History(n) /\ Serves(n) /\ InTransaction(n) /\ Answers(n)
  BY DEF IInv
<1>1. TypeOK
  BY DEF IInv
<1>2. /\ Stop /\ crashes < MaxCrash /\ crashes' = crashes + 1
      /\ UNCHANGED <<db, synced, backup, journal, flushed, acked, refused, stray, held, asked,
                     used>>
  BY DEF Crash, disk, client
<1>3. asked \in Nat /\ db \in Db /\ held \subseteq WriteId
  BY <1>1, Numbers DEF TypeOK
<1>4. History(n)'
  BY <1>1, <1>2, <1>3, HistoryFrame
<1> QED BY <1>1, <1>2, <1>3, <1>4, Stopped

\* PowerLoss, no entry lost: the database falls back to a point before it.
LEMMA LosesPower == ASSUME "lost_entry" \notin Faults, IInv, PowerLoss PROVE IInv'
<1> PICK n \in 0..MaxOp : History(n) /\ Serves(n) /\ InTransaction(n) /\ Answers(n)
  BY DEF IInv
<1>1. TypeOK
  BY DEF IInv
<1>2. /\ Stop /\ crashes < MaxCrash /\ crashes' = crashes + 1 /\ db' = synced
      /\ held' = held \cap synced.writes /\ flushed = DOMAIN journal /\ "power" \in Faults
      /\ UNCHANGED <<synced, backup, acked, refused, stray, asked, used>>
  BY DEF PowerLoss
<1>3. journal' = journal /\ flushed' = flushed
  <2>1. PICK S \in SUBSET (DOMAIN journal \ flushed) :
           journal' = Restrict(journal, flushed \cup S) /\ flushed' = flushed \cup S
    BY DEF PowerLoss
  <2>2. flushed \cup S = DOMAIN journal
    BY <1>2
  <2>3. journal = [s \in DOMAIN journal |-> journal[s]]
    BY <1>1 DEF TypeOK
  <2> QED BY <1>2, <2>1, <2>2, <2>3 DEF Restrict
<1>4. db \in Db /\ synced \in Db /\ held \subseteq WriteId
  BY <1>1, Numbers DEF TypeOK
<1>5. Before(journal, backup, synced) /\ Before(journal, synced, synced)
  BY <1>2, <1>4, BeforeItself DEF History
<1>6. {db', synced', backup'} \subseteq Copies /\ held' \subseteq held /\ held' \subseteq db'.writes
  BY <1>2 DEF Copies
<1>7. Before(journal, backup', db') /\ Before(journal, synced', db')
      /\ Before(journal, backup', synced')
  BY <1>2, <1>5
<1>8. UNCHANGED <<journal, stray, used, asked>>
  BY <1>2, <1>3
<1>9. History(n)'
  BY <1>1, <1>6, <1>7, <1>8, HistoryOfCopies
<1>10. db' \in Db /\ held' \subseteq WriteId
  BY <1>2, <1>4
<1> QED BY <1>1, <1>2, <1>3, <1>9, <1>10, Stopped

\* A copy of the database is taken: a checkpoint's, or the operator's.
LEMMA Copied ==
  ASSUME TypeOK, NEW n \in 0..MaxOp, Serves(n), InTransaction(n), Answers(n), History(n)',
         synced' \in Db, backup' \in Db,
         UNCHANGED <<db, journal, flushed, server, todo, tx, acked, refused, stray, held, asked,
                     used, crashes>>
  PROVE  IInv'
<1>1. TypeOK'
  BY DEF TypeOK
<1>2. Serves(n)'
  BY DEF Serves
<1>3. InTransaction(n)'
  BY DEF InTransaction
<1>4. Answers(n)'
  BY DEF Answers
<1> QED BY <1>1, <1>2, <1>3, <1>4 DEF IInv

\* checkpoint: what a power loss falls back to is the database itself.
LEMMA Checkpoints == ASSUME IInv, checkpoint PROVE IInv'
<1> PICK n \in 0..MaxOp : History(n) /\ Serves(n) /\ InTransaction(n) /\ Answers(n)
  BY DEF IInv
<1>1. TypeOK
  BY DEF IInv
<1>2. /\ synced' = db
      /\ UNCHANGED <<db, backup, journal, flushed, server, todo, tx, acked, refused, stray, held,
                     asked, used, crashes>>
  BY DEF checkpoint, client
<1>3. db \in Db /\ backup \in Db
  BY <1>1, Numbers
<1>4. {db', synced', backup'} \subseteq Copies /\ held' \subseteq held /\ held' \subseteq db'.writes
  BY <1>2 DEF Copies, History
<1>5. Before(journal, backup, db) /\ Before(journal, db, db)
  BY <1>3, BeforeItself DEF History
<1>6. Before(journal, backup', db') /\ Before(journal, synced', db')
      /\ Before(journal, backup', synced') /\ UNCHANGED <<journal, stray, used, asked>>
  BY <1>2, <1>5
<1>7. History(n)'
  BY <1>1, <1>4, <1>6, HistoryOfCopies
<1>8. synced' \in Db /\ backup' \in Db
  BY <1>2, <1>3
<1> QED BY <1>1, <1>2, <1>7, <1>8, Copied

\* Backup: the operator's copy is the database itself.
LEMMA BacksUp == ASSUME IInv, Backup PROVE IInv'
<1> PICK n \in 0..MaxOp : History(n) /\ Serves(n) /\ InTransaction(n) /\ Answers(n)
  BY DEF IInv
<1>1. TypeOK
  BY DEF IInv
<1>2. /\ backup' = db
      /\ "power" \in Faults => synced = db
  BY DEF Backup
<1>3. UNCHANGED <<db, synced, journal, flushed, server, todo, tx, acked, refused, stray, held,
                  asked, used, crashes>>
  BY DEF Backup, client
<1>4. db \in Db /\ synced \in Db
  BY <1>1, Numbers
<1>5. {db', synced', backup'} \subseteq Copies /\ held' \subseteq held /\ held' \subseteq db'.writes
  BY <1>2, <1>3 DEF Copies, History
<1>6. Before(journal, synced, db) /\ Before(journal, db, db)
  BY <1>4, BeforeItself DEF History
<1>7. /\ Before(journal, backup', db') /\ Before(journal, synced', db')
      /\ "power" \in Faults => Before(journal, backup', synced')
  BY <1>2, <1>3, <1>6
<1>8. UNCHANGED <<journal, stray, used, asked>>
  BY <1>3
<1>9. History(n)'
  BY <1>1, <1>5, <1>7, <1>8, HistoryOfCopies
<1>10. synced' \in Db /\ backup' \in Db
  BY <1>2, <1>3, <1>4
<1> QED BY <1>1, <1>3, <1>9, <1>10, Copied

\* Restore: the server is down, and the copy is a point before the database.
LEMMA Restores == ASSUME IInv, Restore PROVE IInv'
<1> PICK n \in 0..MaxOp : History(n) /\ Serves(n) /\ InTransaction(n) /\ Answers(n)
  BY DEF IInv
<1>1. TypeOK /\ server = "down" /\ tx = NoTx
  BY NoTransaction DEF IInv, Restore
<1>2. /\ db' = backup /\ synced' = backup /\ held' = held \cap backup.writes
      /\ crashes < MaxCrash /\ crashes' = crashes + 1
      /\ UNCHANGED <<backup, journal, flushed, server, todo, tx, acked, refused, stray, asked,
                     used>>
  BY DEF Restore
<1>3. backup \in Db /\ crashes' \in 0..MaxCrash /\ held \subseteq WriteId
  BY <1>1, <1>2, JournalAssumption DEF TypeOK
<1>4. {db', synced', backup'} \subseteq Copies /\ held' \subseteq held /\ held' \subseteq db'.writes
  BY <1>2 DEF Copies
<1>5. Before(journal, backup, backup)
  BY <1>3, BeforeItself
<1>6. Before(journal, backup', db') /\ Before(journal, synced', db')
      /\ Before(journal, backup', synced') /\ UNCHANGED <<journal, stray, used, asked>>
  BY <1>2, <1>5
<1>7. History(n)'
  BY <1>1, <1>4, <1>6, HistoryOfCopies
<1>8. TypeOK'
  BY <1>1, <1>2, <1>3 DEF TypeOK
<1>9. Serves(n)' /\ InTransaction(n)'
  BY <1>1, <1>2 DEF Serves, InTransaction
<1>10. Answers(n)'
  BY <1>1, <1>2 DEF Answers
<1> QED BY <1>7, <1>8, <1>9, <1>10 DEF IInv

-----------------------------------------------------------------------------
(* The theorems. *)

\* Every step preserves the invariant.
LEMMA Preserved == ASSUME "lost_entry" \notin Faults, IInv, [Next]_vars PROVE IInv'
<1>1. CASE OrdinaryNext
  BY <1>1, Creates, Registers, Puts DEF OrdinaryNext
<1>2. CASE CriticalNext
  BY <1>2, Revokes, Turns, Erases, PutsRecord, Commits, CommitFails DEF CriticalNext
<1>3. CASE StartNext
  BY <1>3, Opens, Replays, ServesUp DEF StartNext
<1>4. CASE OperatorNext
  BY <1>4, Crashes, LosesPower, Checkpoints, BacksUp, Restores DEF OperatorNext
<1>5. CASE UNCHANGED vars
  BY <1>5 DEF vars, IInv, TypeOK, History, Serves, InTransaction, Answers, Copies
<1> QED BY <1>1, <1>2, <1>3, <1>4, <1>5 DEF Next

\* While a server serves, its database has the effect of every record whose
\* operation was acknowledged, and of no refused one.
LEMMA AnswersFollow == ASSUME IInv PROVE AnswersHold
<1> PICK n \in 0..MaxOp : History(n) /\ Serves(n) /\ InTransaction(n) /\ Answers(n)
  BY DEF IInv
<1>1. TypeOK /\ Sound(journal, n, db, held, stray, used, asked)
  BY DEF IInv, History, Copies
<1>2. AckedInForce
  <2> SUFFICES ASSUME server = "up", NEW r \in acked PROVE InForce(r, db)
    BY DEF AckedInForce
  <2>1. PICK s \in flushed : journal[s] = r /\ s <= db.last
    BY DEF Answers
  <2>2. s \in 1..n /\ db.last \in Nat /\ n \in Nat
    BY <1>1, Numbers DEF TypeOK, History
  <2>3. s \in 1..db.last
    BY <2>1, <2>2
  <2> QED BY <1>1, <2>1, <2>3 DEF Sound, Forced
<1>3. AckedJournaled
  BY DEF AckedJournaled, Answers
<1>4. RefusedNotApplied
  <2> SUFFICES ASSUME NEW r \in refused \ stray, r.id \in db.applied PROVE FALSE
    BY DEF RefusedNotApplied
  <2>1. PICK s \in 1..db.last : journal[s].id = r.id
    BY <1>1 DEF Sound, Traced
  <2>2. s \in 1..n
    BY <1>1, Numbers
  <2> QED BY <2>1, <2>2 DEF Answers
<1> QED BY <1>1, <1>2, <1>3, <1>4 DEF AnswersHold

\* The database holds every write that is held, on one generation.
LEMMA ReplayFollows == ASSUME IInv PROVE ReplayRight
<1> PICK n \in 0..MaxOp : History(n)
  BY DEF IInv
<1>1. held \subseteq db.writes /\ Uniform(db, stray)
  BY DEF History, Copies, Sound
<1> QED BY <1>1 DEF ReplayRight, WritesKept, ReplayedUniform, Uniform

\* The journal is a history that fits every copy of the database, for any
\* number of operations, tokens, writes, crashes, power losses and restores,
\* as long as no renamed entry is lost with the power.
THEOREM JournalInvariant == ASSUME "lost_entry" \notin Faults PROVE Spec => []IInv
<1>1. IInv /\ [Next]_vars => IInv'
  BY Preserved
<1> QED BY <1>1, Begins, PTL DEF Spec

\* What clients were told of critical operations is so (Core::critical and
\* Store::replay): acknowledged ones are in force and on disk, refused ones
\* without a trace did not happen.
THEOREM JournalAnswersHold == ASSUME "lost_entry" \notin Faults PROVE Spec => []AnswersHold
<1>1. IInv => AnswersHold
  BY AnswersFollow
<1> QED BY <1>1, JournalInvariant, PTL

\* Replay rebuilds the state the operations were answered from: no
\* acknowledged write is lost by a restart, and no token is left behind on an
\* older generation.
THEOREM JournalReplayRight == ASSUME "lost_entry" \notin Faults PROVE Spec => []ReplayRight
<1>1. IInv => ReplayRight
  BY ReplayFollows
<1> QED BY <1>1, JournalInvariant, PTL

=============================================================================
