----------------------------- MODULE VaultHandle -----------------------------
(***************************************************************************)
(* One vault seen through one owner handle (vault.rs `Handle`, token.rs    *)
(* `Vault`), shared by several threads, while other clients write, delete  *)
(* and rotate, and an operator may put an older copy of the server back.   *)
(* What the handle remembers to catch that (its pins and the audit head)   *)
(* is kept in the owner's LocalState, in memory (`mem`) and on disk        *)
(* (`disk`), and handed to the next handle.                                *)
(*                                                                         *)
(* A hash is modelled by an identity: every descriptor and every audit row *)
(* ever made gets the next number, and descPrev / rowPrev give the number  *)
(* it was chained to.  Two histories that diverge after a restore so carry *)
(* different numbers at the same generation or seq, as their hashes would  *)
(* differ.  One record name is modelled; its index is derived from the     *)
(* generation's name key, so the index is the descriptor's identity.       *)
(***************************************************************************)
EXTENDS Integers, Sequences

CONSTANTS Threads,   \* the threads that share the handle
          Workloads, \* what the threads call, and the bounds it runs within
          Page,      \* AUDIT_PAGE: rows in one page of the audit log
          MaxDescs,  \* bound: descriptors ever signed
          MaxVer,    \* bound: versions of the record
          MaxRows    \* bound: audit rows ever appended

\* A workload: per thread the operations it calls, and how many descriptors
\* and audit rows there may be, within the bounds above.

Ops == {"fetch", "list", "put", "delete", "refresh", "audit"}

ASSUME VaultHandleAssumption ==
    /\ Workloads \subseteq [calls : [Threads -> SUBSET Ops], descs : 1..MaxDescs,
                             vers : 0..MaxVer, rows : 2..MaxRows]
    /\ Page \in Nat \ {0} /\ MaxDescs \in Nat \ {0} /\ MaxVer \in Nat
    /\ MaxRows \in Nat /\ MaxRows >= 2

VARIABLES
    srv,       \* the server: descs, ver, live, log, fmt
    bak,       \* the copy an operator took of it (<<>>: none, or a 1-tuple)
    restored,  \* whether that copy was put back
    descPrev,  \* identity of a descriptor -> identity of its prev_hash
    rowPrev,   \* identity of an audit row -> identity of its prev
    h,         \* the handle: at, view, pin, vers, and the ghost seen
    mem,       \* the owner's LocalState for this vault
    disk,      \* the same, as last saved
    plan,      \* the workload of this behaviour
    op,        \* per thread: the call in progress, or its outcome
    late       \* ghost, per thread: what its last answer said was overtaken

vars == <<srv, bak, restored, descPrev, rowPrev, h, mem, disk, plan, op, late>>

DescIds == 1..MaxDescs
NoDesc == [gen |-> 0, id |-> 0]
GENESIS == [seq |-> 0, id |-> 0]
NoPins == [i \in DescIds |-> 0]

Current == [gen |-> Len(srv.descs), id |-> srv.descs[Len(srv.descs)]]
LogHead == [seq |-> Len(srv.log), id |-> srv.log[Len(srv.log)]]

Idle(out) == [at |-> "idle", out |-> out]
Closed(out) == [at |-> "closed", view |-> NoDesc, pin |-> NoDesc,
                vers |-> NoPins, seen |-> NoPins, out |-> out]

\* A vault just created, with its empty children record: two audit rows.
Init ==
    /\ srv = [descs |-> <<1>>, ver |-> 0, live |-> FALSE,
              log |-> <<1, 2>>, fmt |-> MaxRows]
    /\ bak = <<>>
    /\ restored = FALSE
    /\ descPrev = <<0>>
    /\ rowPrev = <<0, 1>>
    /\ h = Closed("none")
    /\ mem = [pin |-> NoDesc, vers |-> NoPins, seen |-> NoPins, head |-> GENESIS]
    /\ disk = mem
    /\ plan \in Workloads
    /\ op = [t \in Threads |-> Idle("none")]
    /\ late = [t \in Threads |-> FALSE]

-----------------------------------------------------------------------------
(***************************************************************************)
(* Ghost bookkeeping.  A thread is late when, since its last answer, a row *)
(* was appended between the two reads of its audit page, or another thread *)
(* moved the handle's view or pins.                                        *)
(***************************************************************************)
Answered(t) == late' = [late EXCEPT ![t] = FALSE]
Kept(t) == late' = [late EXCEPT ![t] = op'[t].at # "idle" /\ @]
Moved(t) == late' = [u \in Threads |-> IF u = t THEN op'[t].at # "idle" /\ late[t]
                                       ELSE late[u] \/ (op[u].at # "idle" /\ h' # h)]
Appended(t) == late' = [u \in Threads |-> u # t /\ (late[u] \/ op[u].at = "audit_head")]

\* An outcome is kept until the next step of a thread.
Call(t, c) ==
    op' = [u \in Threads |-> IF u = t THEN c
                             ELSE IF op[u].at = "idle" THEN Idle("none") ELSE op[u]]
Return(t, out) == Call(t, Idle(out))

client == <<h, mem, disk, plan>>
store == <<bak, restored>>
server == <<srv, descPrev, rowPrev, store>>

\* Append one row to the chain of `s`, which becomes the server's state.  Only
\* an audit reads the rows: a workload without one does not keep them.
append_audit(s) ==
    IF \E t \in Threads : "audit" \in plan.calls[t]
    THEN /\ Len(rowPrev) < plan.rows
         /\ srv' = [s EXCEPT !.log = Append(@, Len(rowPrev) + 1)]
         /\ rowPrev' = Append(rowPrev, LogHead.id)
    ELSE srv' = s /\ UNCHANGED rowPrev

-----------------------------------------------------------------------------
(* What other clients and the operator do. *)

\* Another client's put or delete.
put_record ==
    /\ srv.ver < plan.vers
    /\ \E live \in BOOLEAN :
          /\ live \/ srv.live
          /\ append_audit([srv EXCEPT !.ver = @ + 1, !.live = live])
    /\ late' = [t \in Threads |-> late[t] \/ op[t].at = "audit_head"]
    /\ UNCHANGED <<descPrev, store, client, op>>

\* Another owner rotates: a new descriptor chained to the current one; every
\* record is re-sealed under its keys and keeps its version.
apply_rotation ==
    /\ Len(descPrev) < plan.descs
    /\ append_audit([srv EXCEPT !.descs = Append(@, Len(descPrev) + 1)])
    /\ descPrev' = Append(descPrev, Current.id)
    /\ late' = [t \in Threads |-> late[t] \/ op[t].at = "audit_head"]
    /\ UNCHANGED <<store, client, op>>

\* The operator copies the database, and later puts the copy back.
Backup ==
    /\ bak = <<>>
    /\ bak' = <<srv>>
    /\ UNCHANGED <<srv, descPrev, rowPrev, restored, client, op, late>>

Restore ==
    /\ bak # <<>> /\ ~restored
    /\ srv # bak[1]
    /\ srv' = bak[1]
    /\ restored' = TRUE
    /\ UNCHANGED <<bak, descPrev, rowPrev, client, op, late>>

\* The server is upgraded: its later rows are in a format this client does
\* not know.
Upgrade ==
    /\ \E t \in Threads : "audit" \in plan.calls[t]
    /\ srv.fmt = MaxRows /\ Len(srv.log) < plan.rows
    /\ srv' = [srv EXCEPT !.fmt = Len(srv.log)]
    /\ UNCHANGED <<descPrev, rowPrev, store, client, op, late>>

-----------------------------------------------------------------------------
(* Pins. *)

\* Mutant of compare_pin: the hash of the pinned generation is not compared.
compare_pin_number(pin, d) ==
    IF d.gen < pin.gen THEN "rollback" ELSE IF d.gen = pin.gen THEN "ok" ELSE "newer"

\* check_descriptor_pin before the chain is asked for: "ok", "rollback", or
\* "newer" when the descriptors after the pin are needed.
compare_pin(pin, d) ==
    IF d.gen < pin.gen \/ (d.gen = pin.gen /\ d.id # pin.id) THEN "rollback"
    ELSE IF d.gen = pin.gen THEN "ok" ELSE "newer"

\* Descriptor::check_follows: the hash a descriptor names is its predecessor's.
check_follows(prev, next) == descPrev[next] = prev

\* The loop of check_descriptor_pin over descriptors_after(pin): each served
\* descriptor names the one before it, starting at the pin, and one is `d`.
check_descriptor_chain(pin, d) ==
    /\ d.gen <= Len(srv.descs)
    /\ check_follows(pin.id, srv.descs[pin.gen + 1])
    /\ \A g \in pin.gen + 2 .. d.gen : check_follows(srv.descs[g - 1], srv.descs[g])
    /\ srv.descs[d.gen] = d.id

\* Mutant of check_version: a version read before is refused.
check_version_strict(v, got) == got > h.vers[v.id]

\* check_version and its `_ =>` arm: the pin moves to what was got.
check_version(v, got) == got >= h.vers[v.id]
pin_version(v, got) ==
    h' = [h EXCEPT !.vers[v.id] = got,
                   !.seen[v.id] = IF got > @ THEN got ELSE @]

\* What a call does with a version it was answered: pin it, or refuse it.
take_version(t, v, got) ==
    IF check_version(v, got)
    THEN pin_version(v, got) /\ Return(t, "ok") /\ Moved(t)
    ELSE Return(t, "version_rollback") /\ Answered(t) /\ UNCHANGED h

-----------------------------------------------------------------------------
(* The owner: opening, closing and remembering.  `environment` and `close`  *)
(* take the owner exclusively; `close` consumes the environment.            *)

Opened(d, vers, seen) ==
    [at |-> "open", view |-> d, pin |-> d, vers |-> vers, seen |-> seen, out |-> "none"]

\* open_owner's status request, then set_pins up to the chain request.
environment ==
    /\ h.at = "closed"
    /\ LET d == Current
           c == compare_pin(mem.pin, d)
       IN  h' = CASE mem.pin = NoDesc -> Opened(d, NoPins, NoPins)
                  [] mem.pin # NoDesc /\ c = "ok" -> Opened(d, mem.vers, mem.seen)
                  [] mem.pin # NoDesc /\ c = "newer" ->
                        [Opened(d, mem.vers, mem.seen) EXCEPT !.at = "opening"]
                  [] OTHER -> Closed("generation_rollback")
    /\ UNCHANGED <<server, mem, disk, plan, op, late>>

\* The chain request of set_pins, which may also fail: no environment then.
set_pins ==
    /\ h.at = "opening"
    /\ \/ h' = IF check_descriptor_chain(mem.pin, h.view)
               THEN [h EXCEPT !.at = "open"] ELSE Closed("binding_mismatch")
       \/ h' = Closed("none")
    /\ UNCHANGED <<server, mem, disk, plan, op, late>>

AllIdle == \A t \in Threads : op[t].at = "idle"

\* Mutant of close: only the descriptor pin is remembered.
close_descriptor_only ==
    /\ h.at = "open" /\ AllIdle
    /\ mem' = [pin |-> h.pin, vers |-> NoPins, seen |-> h.seen, head |-> mem.head]
    /\ disk' \in {disk, mem'}
    /\ h' = Closed("none")
    /\ UNCHANGED <<server, plan, op, late>>

\* Remember the handle's pins, and save; the save may fail.
close ==
    /\ h.at = "open" /\ AllIdle
    /\ mem' = [pin |-> h.pin, vers |-> h.vers, seen |-> h.seen, head |-> mem.head]
    /\ disk' \in {disk, mem'}
    /\ h' = Closed("none")
    /\ UNCHANGED <<server, plan, op, late>>

\* An environment dropped without close: what it saw is not remembered.
drop ==
    /\ h.at = "open" /\ AllIdle
    /\ h' = Closed("none")
    /\ UNCHANGED <<server, mem, disk, plan, op, late>>

\* The process ends anywhere, and the next one loads what was saved.
restart ==
    /\ mem' = disk
    /\ h' = Closed("none")
    /\ op' = [t \in Threads |-> Idle("none")]
    /\ late' = [t \in Threads |-> FALSE]
    /\ UNCHANGED <<server, disk, plan>>

-----------------------------------------------------------------------------
(* Reading. *)

Starts(t, what) == h.at = "open" /\ op[t].at = "idle" /\ what \in plan.calls[t]

\* Whether an index made with view `v` is one the server knows.
Indexed(v) == v.id = Current.id

\* Handle::fetch of the latest version, and the server's `read`: a live
\* record is audited and served; a tombstone, and an index of other keys, is
\* a 404.
fetch(t) ==
    /\ Starts(t, "fetch")
    /\ LET v == h.view IN
       IF Indexed(v) /\ srv.live
       THEN /\ append_audit(srv)
            /\ Call(t, [at |-> "fetched", view |-> v, ver |-> srv.ver, floor |-> h.seen[v.id]])
            /\ Appended(t)
       ELSE /\ Call(t, [at |-> "missed", view |-> v, then |-> "fetch", absent |-> ~srv.live])
            /\ Answered(t)
            /\ UNCHANGED <<srv, rowPrev>>
    /\ UNCHANGED <<descPrev, store, client>>

\* The answer, its signature verified (the index names the view's keys).
fetched(t) ==
    /\ op[t].at = "fetched"
    /\ take_version(t, op[t].view, op[t].ver)
    /\ UNCHANGED <<server, mem, disk, plan>>

\* Mutant of moved_on: the miss is reported as it came.
moved_on_unasked(t) ==
    /\ op[t].at = "missed"
    /\ IF op[t].then = "put"
       THEN Call(t, [at |-> "write", what |-> "put", ver |-> 0, live |-> FALSE])
       ELSE Return(t, IF op[t].then = "conflict" THEN "conflict" ELSE "not_found")
    /\ Answered(t)
    /\ UNCHANGED <<server, client>>

\* moved_on: a miss is checked against the vault's generation before it is
\* reported.  If the status does not come back, the miss stands as it came: a
\* put creates the record, a conflict stays one.
moved_on(t) ==
    /\ op[t].at = "missed"
    /\ \E told \in BOOLEAN :
          LET c == op[t] IN
          CASE told /\ Current.gen # c.view.gen -> Return(t, "stale")
            [] ~(told /\ Current.gen # c.view.gen) /\ c.then = "put" ->
                  Call(t, [at |-> "write", what |-> "put", ver |-> 0, live |-> FALSE])
            [] ~(told /\ Current.gen # c.view.gen) /\ c.then = "conflict" -> Return(t, "conflict")
            [] OTHER -> Return(t, IF told THEN "not_found" ELSE "not_found_unconfirmed")
    /\ Answered(t)
    /\ UNCHANGED <<server, client>>

\* list_kind: every record's latest version, tombstones included.
ListItem == IF srv.ver = 0 THEN <<>> ELSE <<[ver |-> srv.ver, desc |-> Current]>>

list_kind(t) ==
    /\ Starts(t, "list")
    /\ Call(t, [at |-> "listed", view |-> h.view, item |-> ListItem])
    /\ Answered(t)
    /\ UNCHANGED <<server, client>>

\* verify_listed on an item: its generation, then its writer's signature.
verify_listed(v, item) ==
    IF item.desc.gen # v.gen THEN "stale"
    ELSE IF item.desc.id # v.id THEN "bad_signature" ELSE "ok"

listed(t) ==
    /\ op[t].at = "listed"
    /\ LET v == op[t].view
           item == op[t].item
       IN  IF item # <<>> /\ verify_listed(v, item[1]) = "ok"
           THEN take_version(t, v, item[1].ver)
           ELSE /\ Return(t, IF item = <<>> THEN "ok" ELSE verify_listed(v, item[1]))
                /\ Answered(t)
                /\ UNCHANGED h
    /\ UNCHANGED <<server, mem, disk, plan>>

-----------------------------------------------------------------------------
(* Writing: the precondition from the record's history, then the write.     *)

current(t) ==
    \E what \in {"put", "delete"} :
      /\ Starts(t, what)
      /\ LET v == h.view IN
         CASE ~Indexed(v) \/ srv.ver = 0 ->
                Call(t, [at |-> "missed", view |-> v, then |-> what, absent |-> ~srv.live])
           [] Indexed(v) /\ srv.ver > 0 /\ (what = "put" \/ srv.live) ->
                Call(t, [at |-> "write", what |-> what, ver |-> srv.ver, live |-> srv.live])
           [] OTHER -> Return(t, "not_found")
      /\ Answered(t)
      /\ UNCHANGED <<server, client>>

\* send_write, and the server's put or delete: the signed generation and
\* signature, then the precondition and the version, each refusal audited.
send_write(t) ==
    /\ op[t].at = "write"
    /\ LET v == h.view
           c == op[t]
           fits == srv.live = c.live /\ srv.ver = c.ver
       IN  IF Indexed(v) /\ fits
           THEN /\ srv.ver < plan.vers
                /\ append_audit([srv EXCEPT !.ver = @ + 1, !.live = (c.what = "put")])
                /\ Call(t, [at |-> "wrote", view |-> v, ver |-> c.ver + 1])
           ELSE /\ append_audit(srv)
                /\ IF Indexed(v) THEN Call(t, [at |-> "conflict", view |-> v])
                   ELSE Return(t, IF v.gen # Current.gen THEN "stale" ELSE "refused")
    /\ Appended(t)
    /\ UNCHANGED <<descPrev, store, client>>

\* A lost race: the history is asked for, to tell the caller what stands.
conflict(t) ==
    /\ op[t].at = "conflict"
    /\ LET v == op[t].view IN
       IF ~Indexed(v) \/ srv.ver = 0
       THEN Call(t, [at |-> "missed", view |-> v, then |-> "conflict", absent |-> ~srv.live])
       ELSE Return(t, "conflict")
    /\ Answered(t)
    /\ UNCHANGED <<server, client>>

wrote(t) ==
    /\ op[t].at = "wrote"
    /\ take_version(t, op[t].view, op[t].ver)
    /\ UNCHANGED <<server, mem, disk, plan>>

-----------------------------------------------------------------------------
(* Handle::refresh: the status, the pin read under its lock, the chain, and *)
(* then the view and the pin, each under its own lock.                      *)

refresh(t) ==
    /\ Starts(t, "refresh")
    /\ Call(t, [at |-> "refresh", d |-> Current])
    /\ Answered(t)
    /\ UNCHANGED <<server, client>>

\* Mutant of refresh_pin: only a newer descriptor is checked against the pin.
refresh_pin_newer_only(t) ==
    /\ op[t].at = "refresh"
    /\ IF compare_pin(h.pin, op[t].d) = "newer"
       THEN Call(t, [at |-> "chain", d |-> op[t].d, pin |-> h.pin])
       ELSE Call(t, [at |-> "adopt", d |-> op[t].d])
    /\ Kept(t)
    /\ UNCHANGED <<server, client>>

refresh_pin(t) ==
    /\ op[t].at = "refresh"
    /\ LET d == op[t].d IN
       CASE compare_pin(h.pin, d) = "rollback" -> Return(t, "generation_rollback")
         [] compare_pin(h.pin, d) = "ok" -> Call(t, [at |-> "adopt", d |-> d])
         [] OTHER -> Call(t, [at |-> "chain", d |-> d, pin |-> h.pin])
    /\ Kept(t)
    /\ UNCHANGED <<server, client>>

refresh_chain(t) ==
    /\ op[t].at = "chain"
    /\ IF check_descriptor_chain(op[t].pin, op[t].d)
       THEN Call(t, [at |-> "adopt", d |-> op[t].d])
       ELSE Return(t, "binding_mismatch")
    /\ Kept(t)
    /\ UNCHANGED <<server, client>>

adopt_view(t) ==
    /\ op[t].at = "adopt"
    /\ h' = [h EXCEPT !.view = op[t].d]
    /\ Call(t, [at |-> "repin", d |-> op[t].d])
    /\ Moved(t)
    /\ UNCHANGED <<server, mem, disk, plan>>

adopt_pin(t) ==
    /\ op[t].at = "repin"
    /\ h' = [h EXCEPT !.pin = op[t].d]
    /\ Return(t, "ok")
    /\ Moved(t)
    /\ UNCHANGED <<server, mem, disk, plan>>

-----------------------------------------------------------------------------
(* Owner::audit: pages of rows after the recorded head, each page's rows    *)
(* and head read by two statements, verified, and the head recorded.        *)

Auditing == {"audit_rows", "audit_head", "audit_before", "audit_names", "audit_done"}

\* verify_recorded's start; it has the owner exclusively.
verify_audit(t) ==
    /\ Starts(t, "audit")
    /\ \A u \in Threads : op[u].at \notin Auditing
    /\ \E earlier \in BOOLEAN :
          Call(t, [at |-> "audit_rows", rows |-> <<>>, earlier |-> earlier])
    /\ Answered(t)
    /\ UNCHANGED <<server, client>>

\* audit_after's first statement: at most a page of rows after `after`.
audit_after(t) ==
    /\ op[t].at = "audit_rows"
    /\ LET c == op[t]
           after == IF c.rows = <<>> THEN mem.head.seq ELSE c.rows[Len(c.rows)].seq
           n == LET left == Len(srv.log) - after
                IN IF left > Page THEN Page ELSE IF left < 0 THEN 0 ELSE left
       IN Call(t, [at |-> "audit_head", rows |-> c.rows, earlier |-> c.earlier,
                   page |-> [i \in 1..n |-> [seq |-> after + i, id |-> srv.log[after + i]]],
                   fmt |-> srv.fmt])
    /\ Answered(t)
    /\ UNCHANGED <<server, client>>

\* Mutant of verify_chain: the position alone is checked.
verify_chain_positions(base, rows) ==
    \A i \in 1..Len(rows) :
        rows[i].seq = (IF i = 1 THEN base ELSE rows[i - 1]).seq + 1

\* verify_chain: every row follows the one before it by position and hash.
verify_chain(base, rows) ==
    \A i \in 1..Len(rows) :
        LET before == IF i = 1 THEN base ELSE rows[i - 1]
        IN  rows[i].seq = before.seq + 1 /\ rowPrev[rows[i].id] = before.id

chain_head(base, rows) == IF rows = <<>> THEN base ELSE rows[Len(rows)]

\* check_server_head, verify_chain from the known head, and the server's head
\* again unless the rows stopped at one in a newer format.
verify_rows(known, rows, server_head, stop) ==
    IF \/ server_head.seq < known.seq
       \/ server_head.seq = known.seq /\ server_head.id # known.id
       \/ ~verify_chain(known, rows)
    THEN "audit_mismatch"
    ELSE IF ~stop /\ chain_head(known, rows) # server_head THEN "binding_mismatch" ELSE "ok"

\* read_rows: every row up to the first one in a newer format.
read_rows(page, fmt) ==
    LET n == CHOOSE n \in 0..Len(page) :
                /\ \A i \in 1..n : page[i].seq <= fmt
                /\ n < Len(page) => page[n + 1].seq > fmt
    IN  SubSeq(page, 1, n)

\* audit_after's second statement, read_rows on the page, audit_rows' loop
\* and, at its end, verify_rows.
audit_rows(t) ==
    /\ op[t].at = "audit_head"
    /\ LET c == op[t]
           kept == read_rows(c.page, c.fmt)
           stop == Len(kept) < Len(c.page)
           rows == c.rows \o kept
           verdict == verify_rows(mem.head, rows, LogHead, stop)
       IN  CASE ~stop /\ Len(kept) = Page ->
                  Call(t, [at |-> "audit_rows", rows |-> rows, earlier |-> c.earlier])
             [] ~(~stop /\ Len(kept) = Page) /\ verdict = "ok" ->
                  Call(t, [at |-> IF c.earlier /\ mem.head # GENESIS
                                  THEN "audit_before" ELSE "audit_names",
                           head |-> chain_head(mem.head, rows)])
             [] OTHER -> Return(t, verdict)
    /\ Kept(t)
    /\ UNCHANGED <<server, client>>

\* With `earlier`, the row at the known head is fetched again for display and
\* must be that head; nothing served there is accepted.
audit_before(t) ==
    /\ op[t].at = "audit_before"
    /\ LET k == mem.head IN
       IF k.seq <= Len(srv.log) /\ k.seq <= srv.fmt /\ srv.log[k.seq] # k.id
       THEN Return(t, "binding_mismatch")
       ELSE Call(t, [at |-> "audit_names", head |-> op[t].head])
    /\ Answered(t)
    /\ UNCHANGED <<server, client>>

\* The names for the report: a list whose failure is ignored.
audit_names(t) ==
    /\ op[t].at = "audit_names"
    /\ Call(t, [at |-> "audit_done", head |-> op[t].head, view |-> h.view, item |-> ListItem])
    /\ Answered(t)
    /\ UNCHANGED <<server, client>>

\* The list's versions are pinned, and the verified head is recorded.
verify_recorded(t) ==
    /\ op[t].at = "audit_done"
    /\ Return(t, "ok")
    /\ LET v == op[t].view
           item == op[t].item
       IN  IF item # <<>> /\ verify_listed(v, item[1]) = "ok" /\ check_version(v, item[1].ver)
           THEN pin_version(v, item[1].ver) /\ Moved(t)
           ELSE UNCHANGED h /\ Answered(t)
    /\ mem' = [mem EXCEPT !.head = op[t].head]
    /\ UNCHANGED <<server, disk, plan>>

\* An answer that never arrives ends the call.
unreachable(t) ==
    /\ op[t].at \in {"fetched", "listed", "write", "wrote", "conflict", "chain",
                     "audit_rows", "audit_head", "audit_before"}
    /\ Return(t, "unreachable")
    /\ Answered(t)
    /\ UNCHANGED <<server, client>>

-----------------------------------------------------------------------------
Others == put_record \/ apply_rotation \/ Backup \/ Restore \/ Upgrade

Owner == environment \/ set_pins \/ close \/ drop \/ restart

Thread(t) ==
    \/ fetch(t) \/ fetched(t) \/ moved_on(t)
    \/ list_kind(t) \/ listed(t)
    \/ current(t) \/ send_write(t) \/ wrote(t) \/ conflict(t)
    \/ refresh(t) \/ refresh_pin(t) \/ refresh_chain(t) \/ adopt_view(t) \/ adopt_pin(t)
    \/ verify_audit(t) \/ audit_after(t) \/ audit_rows(t) \/ audit_before(t)
    \/ audit_names(t) \/ verify_recorded(t)
    \/ unreachable(t)

Next == Others \/ Owner \/ \E t \in Threads : Thread(t)

Spec == Init /\ [][Next]_vars

-----------------------------------------------------------------------------
(* Properties. *)

Outs == {"none", "ok", "not_found", "not_found_unconfirmed", "stale", "conflict", "refused",
         "unreachable", "version_rollback", "generation_rollback", "binding_mismatch",
         "bad_signature", "audit_mismatch"}

\* The codes that tell a caller that the server does not verify.
Alarms == {"version_rollback", "generation_rollback", "binding_mismatch",
           "bad_signature", "audit_mismatch"}

Descs == [gen : 0..MaxDescs, id : 0..MaxDescs]
Heads == [seq : 0..MaxRows, id : 0..MaxRows]
VersionPins == [DescIds -> 0..MaxVer]
Servers == [descs : Seq(DescIds), ver : 0..MaxVer, live : BOOLEAN,
            log : Seq(1..MaxRows), fmt : 0..MaxRows]
LocalStates == [pin : Descs, vers : VersionPins, seen : VersionPins, head : Heads]

\* Every variable has its type.
TypeOK ==
    /\ srv \in Servers
    /\ bak = <<>> \/ (Len(bak) = 1 /\ bak[1] \in Servers)
    /\ restored \in BOOLEAN
    /\ descPrev \in Seq(0..MaxDescs) /\ rowPrev \in Seq(0..MaxRows)
    /\ h \in [at : {"closed", "opening", "open"}, view : Descs, pin : Descs,
              vers : VersionPins, seen : VersionPins,
              out : {"none", "generation_rollback", "binding_mismatch"}]
    /\ mem \in LocalStates /\ disk \in LocalStates
    /\ \A t \in Threads :
          \/ op[t].at = "idle" /\ op[t].out \in Outs
          \/ h.at = "open" /\ op[t].at \in Auditing \cup
                {"fetched", "missed", "listed", "write", "wrote", "conflict", "refresh", "chain",
                 "adopt", "repin"}
    /\ plan \in Workloads /\ late \in [Threads -> BOOLEAN]

\* The identities a descriptor, or a row, is chained to, itself included.
Ancestry(prev) ==
    LET anc[i \in 0..Len(prev)] == IF i = 0 THEN {0} ELSE {i} \cup anc[prev[i]]
    IN  anc

\* A thread that asks for the latest version after any call returned version n
\* of it, under the same keys, in this handle or one whose pins were handed
\* on, is never given an older one, whatever copy of the server was put back
\* (Handle::fetch, check_version, Owner::remember, set_pins).
MonotonicReads ==
    [][\A t \in Threads :
         op[t].at = "fetched" /\ op'[t] = Idle("ok") => op[t].ver >= op[t].floor]_vars

\* On a server never put back, a confirmed "not found" is true: the record had
\* no live version when the server looked, however the vault was rotated
\* around the request (Handle::fetch, versions_kind, moved_on).
NotFoundIsTrue ==
    [][\A t \in Threads :
         op[t].at = "missed" /\ op'[t] = Idle("not_found") => op[t].absent \/ restored]_vars

\* A handle only ever works under a generation that descends from the one
\* remembered for the vault, through every refresh, race of refreshes and
\* restored server (check_descriptor_pin in set_pins and refresh).
ViewDescends ==
    h.at = "open" => mem.pin.id \in Ancestry(descPrev)[h.view.id]

\* A handle's state is well formed and its view follows from what is pinned.
ViewSound == TypeOK /\ ViewDescends

\* A call that lowers the generation the handle works under, or its pin.
GoesBack ==
    h.at = "open" /\ h'.at = "open" /\ (h'.view.gen < h.view.gen \/ h'.pin.gen < h.pin.gen)

\* A handle that only one thread refreshes never goes back to an earlier
\* generation, nor lets its pin go back, whatever copy of the server is put
\* back and whatever else its threads call (Handle::refresh).
GenerationNeverBack ==
    [][(\E t \in Threads : \A u \in Threads \ {t} : "refresh" \notin plan.calls[u]) => ~GoesBack]_vars

\* The audit head moves only to a row whose chain runs through the head it
\* replaces, or back to the saved one when the process ends; rows served
\* before and after a restore are never spliced (verify_rows, audit_rows).
AuditExtends ==
    [][mem'.head = disk.head \/ mem.head.id \in Ancestry(rowPrev)[mem'.head.id]]_vars

\* What was seen is never unseen: neither a version, nor a generation, nor a
\* row of the audit log.
NothingUnseen == MonotonicReads /\ GenerationNeverBack /\ AuditExtends

\* A handle reports an integrity failure only if an older server was put back,
\* or, in code that is not atomic there, if another thread of the handle moved
\* its pins between the answer and the check, or a row was appended between
\* the two reads of an audit page.
AlarmsExplained ==
    [][/\ \A t \in Threads :
            op'[t] # op[t] /\ op'[t].at = "idle" /\ op'[t].out \in Alarms => restored \/ late[t]
       /\ h'.out # "none" => restored]_vars

=============================================================================
