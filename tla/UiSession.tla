------------------------------ MODULE UiSession ------------------------------
(***************************************************************************)
(* `gv ui`: one thread that takes terminal lines, timer ticks and HTTP     *)
(* requests in turn (cli/ui/app.rs), its clipboard (clip.rs) and the       *)
(* checks of a request (web.rs).  Around it: the person at the terminal,   *)
(* whose lines queue in a channel; browsers, which send any request with   *)
(* any cookie; the clock; the clipboard, which other programs write too;   *)
(* and other clients of the vault.                                         *)
(*                                                                         *)
(* A link's code and the cookie of the session it opens are the link's     *)
(* number.  Every timer is a flag that says its time has passed, so any    *)
(* Timings are covered.  One secret stands for the vault's records.        *)
(*                                                                         *)
(* The one thread waits without a timeout for the body of a request, for   *)
(* its answer to be taken and for a clipboard tool to end (`Waits`).       *)
(***************************************************************************)
EXTENDS Integers, Sequences, FiniteSets

CONSTANTS Secrets,   \* the values a page may copy
          Empty,     \* nothing on the clipboard
          Own,       \* what another program put there
          Ops,       \* the operations that wait for the terminal
          MaxAsks,   \* bound: requests that wait for the terminal
          MaxLinks,  \* bound: links printed
          Workloads  \* how much of everything a behaviour holds

\* A workload: times Enter is typed, other lines typed, requests asked for,
\* secrets copied, versions of the record.
ASSUME UiAssumption ==
    /\ Ops \subseteq {"mint", "revoke", "rotate", "delete"}
    /\ MaxAsks \in Nat /\ MaxLinks \in Nat \ {0}
    /\ Workloads \subseteq [enters : 0..(MaxLinks - 1), lines : Nat, asks : 0..MaxAsks, copies : Nat, versions : Nat]
    /\ Empty \notin Secrets \cup {Own} /\ Own \notin Secrets

VARIABLES
    pc,        \* where the loop is: head, lines, tick, serve, stopped, or
               \* waiting: body, answer, clear, last_clear
    stop,      \* Ctrl-C, Ctrl-D or UiHandle::stop
    term,      \* lines typed and not yet received
    link,      \* App::code: [n, old], n = 0: none
    links,     \* links printed so far
    browser,   \* App::browser: [n, old], n = 0: none
    pending,   \* App::pending: [id, op, old], id = 0: none
    outcomes,  \* App::outcomes, by request; next_id is Len(asked) + 1
    handover,  \* App::handover: the request that minted the token, 0: none
    clipboard, \* what the operating system's clipboard holds
    due,       \* Clip::due: value -> "no" | "later" | "now"
    clearing,  \* the values Clip::tick or clear_all took out of `due`
    record,    \* the secret's versions: TRUE a value, FALSE a tombstone
    shown,     \* the version the page last listed
    plan,      \* the workload of this behaviour, counted down
    asked, acts, takes, \* ghosts: see TerminalDecides
    stuck,     \* ghost: the clipboard tool failed when a value was to be cleared
    lost       \* ghost: a page overwrote a version it had not shown

loop == <<pc, stop, term>>
session == <<link, links, browser>>
question == <<pending, outcomes, handover>>
clip == <<clipboard, due, clearing, stuck>>
vault == <<record, shown, lost>>
ghosts == <<asked, acts, takes>>
vars == <<loop, session, question, clip, vault, plan, ghosts>>

Outcome == {"none", "waiting", "done", "handover", "cancelled", "lapsed", "failed"}
Ids == 1..MaxAsks
None == [n |-> 0, old |-> FALSE]
Fresh(n) == [n |-> n, old |-> FALSE]
NoAsk == [id |-> 0, op |-> "mint", old |-> FALSE]

Init ==
    /\ pc = "head" /\ stop = FALSE /\ term = <<>>
    /\ link = Fresh(1) /\ links = 1 /\ browser = None
    /\ pending = NoAsk /\ outcomes = [i \in Ids |-> "none"] /\ handover = 0
    /\ clipboard = Empty /\ due = [v \in Secrets \cup Ids |-> "no"] /\ clearing = {}
    /\ record = <<TRUE>> /\ shown = 0
    /\ plan \in Workloads
    /\ asked = <<>> /\ acts = <<>> /\ takes = <<>>
    /\ stuck = FALSE /\ lost = FALSE

\* Where the loop waits for a browser, or for a clipboard tool.
Waits == {"body", "answer", "clear", "last_clear"}

\* Every variable holds a value of its kind.
TypeOK ==
    /\ pc \in {"head", "lines", "tick", "serve", "stopped"} \cup Waits
    /\ \A l \in {link, browser} : l \in [n : 0..links, old : BOOLEAN]
    /\ pending \in [id : 0..Len(asked), op : Ops \cup {"mint"}, old : BOOLEAN]
    /\ outcomes \in [Ids -> Outcome]
    /\ handover \in 0..Len(asked)
    /\ due \in [Secrets \cup Ids -> {"no", "later", "now"}]
    /\ clipboard \in DOMAIN due \cup {Empty, Own} /\ clearing \subseteq DOMAIN due

-----------------------------------------------------------------------------
(* Pieces of the handlers. *)

\* Mutant: the request that waits outlives its session.
forget_untaken ==
    /\ handover' = 0
    /\ outcomes' = [i \in Ids |-> "none"]
    /\ UNCHANGED pending

\* App::forget: cancel what the session waited for, drop what it had not taken.
forget ==
    /\ pending' = NoAsk
    /\ handover' = 0
    /\ outcomes' = [i \in Ids |-> "none"]

\* The session ends, if there is one.
end_session ==
    IF browser.n # 0 THEN browser' = None /\ forget
    ELSE UNCHANGED <<browser, question>>

\* App::new_link: a new code; a session ends for it.
new_link ==
    /\ links' = links + 1
    /\ link' = Fresh(links + 1)
    /\ end_session

\* Clip::copy: through the tool, which may fail; a second copy of a value
\* restarts its time.
copy(v) ==
    /\ clipboard' = v
    /\ due' = [due EXCEPT ![v] = "later"]
    /\ UNCHANGED <<clearing, stuck>>

\* Mutant: what is not due yet is drained as well.
drain_all(vs) ==
    /\ clearing' = vs
    /\ due' = [v \in DOMAIN due |-> "no"]
    /\ UNCHANGED <<clipboard, stuck>>

\* Clip::tick and Clip::clear_all: the entries `vs` leave `due`.
drain(vs) ==
    /\ clearing' = vs
    /\ due' = [v \in DOMAIN due |-> IF v \in vs THEN "no" ELSE due[v]]
    /\ UNCHANGED <<clipboard, stuck>>

\* App::run_op and App::perform: what was asked is done, or fails.  The
\* session is the one that asked: forget has dropped every other request.
perform(p) ==
    /\ acts' = Append(acts, p.id)
    /\ \/ /\ outcomes' = [outcomes EXCEPT ![p.id] = IF p.op = "mint" THEN "handover" ELSE "done"]
          /\ handover' = IF p.op = "mint" THEN p.id ELSE handover
       \/ outcomes' = [outcomes EXCEPT ![p.id] = "failed"] /\ UNCHANGED handover
    /\ UNCHANGED <<asked, takes>>

-----------------------------------------------------------------------------
(* The loop. *)

\* App::on_line: a line answers the question that waits, whenever it was
\* typed; without one, Enter prints a new link.
on_line ==
    /\ pc = "lines" /\ term # <<>>
    /\ term' = Tail(term)
    /\ IF pending.id # 0
       THEN /\ pending' = NoAsk
            /\ IF Head(term) = "y" THEN perform(pending)
               ELSE /\ outcomes' = [outcomes EXCEPT ![pending.id] = "cancelled"]
                    /\ UNCHANGED <<handover, ghosts>>
            /\ UNCHANGED session
       ELSE /\ IF Head(term) = "" THEN new_link ELSE UNCHANGED <<session, question>>
            /\ UNCHANGED ghosts
    /\ UNCHANGED <<pc, stop, clip, vault, plan>>

\* App::tick: an old link, an idle session, an unanswered question, and what
\* is due on the clipboard.
tick ==
    /\ pc = "tick"
    /\ pc' = IF \E v \in DOMAIN due : due[v] = "now" THEN "clear" ELSE "serve"
    /\ link' = IF link.old THEN None ELSE link
    /\ IF browser.old THEN end_session
       ELSE /\ UNCHANGED <<browser, handover>>
            /\ IF pending.old
               THEN /\ pending' = NoAsk
                    /\ outcomes' = [outcomes EXCEPT ![pending.id] = "lapsed"]
               ELSE UNCHANGED <<pending, outcomes>>
    /\ drain({v \in DOMAIN due : due[v] = "now"})
    /\ UNCHANGED <<stop, term, links, vault, plan, ghosts>>

\* App::run, the head of the loop and the end of its inner loop.
run ==
    /\ \/ pc = "head" /\ ~stop /\ pc' = "lines"
       \/ pc = "lines" /\ term = <<>> /\ pc' = "tick"
    /\ UNCHANGED <<stop, term, session, question, clip, vault, plan, ghosts>>

\* App::run after the loop: asked to stop, or the listener failed.
finish ==
    /\ (pc = "head" /\ stop) \/ pc = "serve"
    /\ pc' = IF \E v \in DOMAIN due : due[v] # "no" THEN "last_clear" ELSE "stopped"
    /\ end_session
    /\ drain({v \in DOMAIN due : due[v] # "no"})
    /\ UNCHANGED <<stop, term, link, links, vault, plan, ghosts>>

\* Clip::clear_if over what was taken out of `due`, once the clipboard's tool
\* has ended: at most one of the values is on the clipboard.  A tool that
\* fails leaves it there.
clear_if ==
    /\ pc \in {"clear", "last_clear"}
    /\ pc' = IF pc = "clear" THEN "serve" ELSE "stopped"
    /\ clearing' = {}
    /\ IF clipboard \in clearing
       THEN \/ clipboard' = Empty /\ UNCHANGED stuck
            \/ stuck' = TRUE /\ UNCHANGED clipboard
       ELSE UNCHANGED <<clipboard, stuck>>
    /\ UNCHANGED <<stop, term, session, question, due, vault, plan, ghosts>>

-----------------------------------------------------------------------------
(* Requests: the checks of App::route, then one handler. *)

GetPaths == {"boot", "assets", "ping", "secrets", "page", "confirm"}
PostPaths == {"session", "lock", "reveal", "copy", "set", "delete", "restore", "env_add",
              "ask", "copy_token", "save_token", "discard_token"}

\* A request as Req::read gives it: whether Host is this server's, and Origin
\* and X-GV-UI are this page's, and the session its cookie names.
Request == [host : BOOLEAN, method : {"GET", "POST", "other"}, ours : BOOLEAN,
            cookie : 0..MaxLinks, path : GetPaths \cup PostPaths]

\* Requests that pass the checks, and every way one of them can fail.
Requests == {r \in Request :
                \/ r.path = "lock"
                \/ r.cookie # 0 /\ r.host /\ r.ours /\ r.method = IF r.path \in GetPaths THEN "GET" ELSE "POST"}

\* What App::route answers before a handler runs.
route(r) ==
    IF ~r.host THEN "misdirected"
    ELSE IF r.method = "other" THEN "method"
    ELSE IF r.method = "POST" /\ ~r.ours THEN "forbidden"
    ELSE IF r.method = "GET" /\ r.path \in {"boot", "assets"} THEN "served"
    ELSE IF r.method = "POST" /\ r.path = "session" THEN "exchange"
    ELSE IF browser.n = 0 \/ r.cookie # browser.n THEN "locked"
    ELSE IF r.path = "ping" THEN "served"
    ELSE "handle"

\* App::exchange: a code, right or wrong (0), is spent by the session it opens.
exchange(code) ==
    /\ IF link.n # 0 /\ code = link.n
       THEN /\ link' = None
            /\ browser' = Fresh(link.n)
            /\ IF browser.n # 0 THEN forget ELSE UNCHANGED question
       ELSE UNCHANGED <<link, browser, question>>
    /\ UNCHANGED <<links, clip, vault, plan, ghosts>>

\* A handler that only reads, or that was refused: the session stays open.
answered == UNCHANGED <<question, clip, vault, plan, ghosts>>

\* The pages: each opens what it shows, which changes nothing in a vault; the
\* list of secrets gives the page the record's version.
pages(path) ==
    IF path = "secrets"
    THEN /\ shown' = Len(record)
         /\ UNCHANGED <<record, lost, question, clip, plan, ghosts>>
    ELSE answered

\* App::confirm_status: the outcome of a request of this session.
confirm_status == answered

\* App::reveal: one value, in the answer to this request only.
reveal == answered

\* App::get.
get(r) == IF r.path = "confirm" THEN confirm_status ELSE pages(r.path)

\* App::copy: a value of the vault goes to the clipboard.
copy_secret ==
    /\ plan.copies > 0
    /\ plan' = [plan EXCEPT !.copies = @ - 1]
    /\ \E v \in Secrets : copy(v)
    /\ UNCHANGED <<question, vault, ghosts>>

\* The vault takes a page's version: a value or a tombstone.
put_version(live) ==
    /\ plan.versions > 0
    /\ plan' = [plan EXCEPT !.versions = @ - 1]
    /\ record' = Append(record, live)
    /\ lost' = (lost \/ (record[Len(record)] /\ shown # Len(record)))
    /\ UNCHANGED <<shown, question, clip, ghosts>>

Live == record[Len(record)]

\* Mutant: no expected version means any version.
write_any(expected) ==
    IF expected = 0 \/ (Live /\ expected = Len(record)) THEN put_version(TRUE) ELSE answered

\* App::write: against the version the page says it replaces, or (0) only if
\* there is no live value.
write(expected) ==
    IF (IF expected = 0 THEN ~Live ELSE Live /\ expected = Len(record))
    THEN put_version(TRUE)
    ELSE answered

\* App::delete: only the version the page showed.
delete(expected) == IF Live /\ expected = Len(record) THEN put_version(FALSE) ELSE answered

\* App::restore: a value of the history becomes the next version.
restore(version, expected) ==
    IF version \in DOMAIN record /\ record[version] THEN write(expected) ELSE answered

\* App::ask: one question at a time; the reads it makes first may refuse it.
ask(op) ==
    IF pending.id # 0 \/ plan.asks = 0 THEN answered
    ELSE /\ plan' = [plan EXCEPT !.asks = @ - 1]
         /\ asked' = Append(asked, browser.n)
         /\ pending' = [id |-> Len(asked) + 1, op |-> op, old |-> FALSE]
         /\ outcomes' = [outcomes EXCEPT ![Len(asked) + 1] = "waiting"]
         /\ UNCHANGED <<handover, clip, vault, acts, takes>>

\* App::hand_over: the token of this request leaves, to the clipboard or to a
\* new private file, or is dropped; what failed is put back.
hand_over(path, confirm) ==
    IF handover = 0 \/ handover # confirm THEN answered
    ELSE \/ /\ handover' = 0
            /\ takes' = IF path = "discard_token" THEN takes ELSE Append(takes, confirm)
            /\ IF path = "copy_token" THEN copy(confirm) ELSE UNCHANGED clip
            /\ UNCHANGED <<pending, outcomes, vault, plan, asked, acts>>
         \/ path # "discard_token" /\ answered

\* App::post, except /api/lock.
post(r) ==
    \/ answered
    \/ r.path = "reveal" /\ reveal
    \/ r.path = "copy" /\ copy_secret
    \/ r.path = "set" /\ \E e \in {0, shown} : write(e)
    \/ r.path = "delete" /\ delete(shown)
    \/ r.path = "restore" /\ \E v \in DOMAIN record, e \in {0, shown} : restore(v, e)
    \/ r.path = "ask" /\ \E op \in Ops : ask(op)
    \/ r.path \in {"copy_token", "save_token", "discard_token"}
       /\ \E i \in DOMAIN asked : hand_over(r.path, i)

\* recv_timeout: a request's head came, or none within the loop's 50 ms.
recv_timeout ==
    /\ pc = "serve" /\ pc' \in {"body", "head"}
    /\ UNCHANGED <<stop, term, session, question, clip, vault, plan, ghosts>>

\* Req::read refuses the request, or its connection breaks.
refused ==
    /\ pc = "body" /\ pc' = "answer"
    /\ UNCHANGED <<stop, term, session, question, clip, vault, plan, ghosts>>

\* App::serve, once Req::read has the whole body.
serve(r) ==
    /\ pc = "body" /\ pc' = "answer"
    /\ CASE route(r) = "exchange" -> \E code \in 0..links : exchange(code)
         [] route(r) = "handle" /\ r.method = "POST" /\ r.path = "lock" ->
               end_session /\ UNCHANGED <<link, links, clip, vault, plan, ghosts>>
         [] route(r) = "handle" /\ (r.method # "POST" \/ r.path # "lock") ->
               /\ browser' = Fresh(browser.n)
               /\ IF r.method = "GET" THEN get(r) ELSE post(r)
               /\ UNCHANGED <<link, links>>
         [] OTHER -> UNCHANGED session /\ answered
    /\ UNCHANGED <<stop, term>>

\* web::respond: the browser took the answer, or went away.
respond ==
    /\ pc = "answer" /\ pc' = "head"
    /\ UNCHANGED <<stop, term, session, question, clip, vault, plan, ghosts>>

-----------------------------------------------------------------------------
(* Everyone else. *)

\* A line typed, whatever the screen asked at that moment.
type_line(text) ==
    /\ pc # "stopped"
    /\ plan[IF text = "" THEN "enters" ELSE "lines"] > 0
    /\ plan' = [plan EXCEPT ![IF text = "" THEN "enters" ELSE "lines"] = @ - 1]
    /\ term' = Append(term, text)
    /\ UNCHANGED <<pc, stop, session, question, clip, vault, ghosts>>

\* Time passes for a link, for a session without requests, for a question,
\* for a value on the clipboard.
link_ages == link.n # 0 /\ ~link.old /\ link' = [link EXCEPT !.old = TRUE]
             /\ UNCHANGED <<loop, links, browser, question, clip, vault, plan, ghosts>>
session_ages == browser.n # 0 /\ ~browser.old /\ browser' = [browser EXCEPT !.old = TRUE]
                /\ UNCHANGED <<loop, link, links, question, clip, vault, plan, ghosts>>
question_ages == pending.id # 0 /\ ~pending.old /\ pending' = [pending EXCEPT !.old = TRUE]
                 /\ UNCHANGED <<loop, session, outcomes, handover, clip, vault, plan, ghosts>>
copy_ages(v) == due[v] = "later" /\ due' = [due EXCEPT ![v] = "now"]
                /\ UNCHANGED <<loop, session, question, clipboard, clearing, stuck, vault, plan, ghosts>>

\* Another program writes the clipboard; another client writes the record.
copied_over ==
    /\ clipboard \in DOMAIN due /\ clipboard' = Own
    /\ UNCHANGED <<loop, session, question, due, clearing, stuck, vault, plan, ghosts>>
written_over(live) ==
    /\ plan.versions > 0 /\ (live \/ Live)
    /\ plan' = [plan EXCEPT !.versions = @ - 1]
    /\ record' = Append(record, live)
    /\ UNCHANGED <<loop, session, question, clip, shown, lost, ghosts>>

\* Ctrl-C, Ctrl-D, UiHandle::stop.
quit == ~stop /\ stop' = TRUE
        /\ UNCHANGED <<pc, term, session, question, clip, vault, plan, ghosts>>

\* What the loop does by itself, and what it waits for.
Loop == run \/ on_line \/ tick \/ finish \/ recv_timeout
Waited == refused \/ respond \/ clear_if \/ \E r \in Requests : serve(r)

Next ==
    \/ Loop \/ Waited
    \/ \E text \in {"", "y", "n"} : type_line(text)
    \/ link_ages \/ session_ages \/ question_ages
    \/ \E v \in DOMAIN due : copy_ages(v)
    \/ copied_over \/ quit
    \/ \E live \in BOOLEAN : written_over(live)

\* The thread keeps running its loop, whose wait for a request ends by itself,
\* and time passes.  Nothing says that what it waits for comes.
Spec ==
    /\ Init /\ [][Next]_vars
    /\ WF_vars(Loop)
    /\ WF_vars(question_ages)
    /\ \A v \in Secrets \cup Ids : WF_vars(copy_ages(v))

-----------------------------------------------------------------------------
(* Properties. *)

\* `gv ui` implements TerminalDecides: whatever is minted, revoked, rotated or
\* deleted was asked for by the session that is still open, is done once, and
\* a minted token leaves once, to that session (App::ask, App::perform,
\* App::forget, App::hand_over).
Promise == INSTANCE TerminalDecides
           WITH session <- browser.n, waiting <- pending.id, held <- handover
Decides == Promise!Spec

\* A page never replaces a live value it had not shown (App::write, delete and
\* restore pass on the version the page knows).
NoBlindOverwrite == ~lost

\* A copied value leaves the clipboard: it is cleared in time or at exit, or
\* another program's copy replaces it; only a clipboard tool that fails at
\* that moment leaves it there (Clip::copy, Clip::tick, Clip::clear_all).
ClipboardCleared == \A v \in Secrets \cup Ids : clipboard = v ~> clipboard # v \/ stuck

\* Every question is settled: answered, lapsed, or gone with its session
\* (App::tick, App::on_line).
AskSettles == \A i \in Ids : outcomes[i] = "waiting" ~> outcomes[i] # "waiting"

\* No browser holds the loop up for ever with a body that never ends or an
\* answer it does not take, and no clipboard tool hangs.  The code does not
\* see to that: Req::read, web::respond and the tools have no timeout.
WaitsEnd == []<>(pc \notin Waits)

\* Unless the loop is held up for ever, neither a secret on the clipboard nor a
\* question to the terminal stays.
NothingLingers == WaitsEnd => ClipboardCleared /\ AskSettles
=============================================================================
