---------------------------- MODULE Environments ----------------------------
(***************************************************************************)
(* The environments of one project (owner/mod.rs): commands of `gv` that   *)
(* add, remove, repair, list, import and use environments, run by          *)
(* processes on several machines, or on one, over one server.              *)
(*                                                                         *)
(* A node is a vault whose key is derived from its parent's; sealed keys   *)
(* belong to a rekey and are in module Rekey.  A machine keeps the keys it *)
(* holds in its key store, and the paths it holds and the tree it knows in *)
(* config.toml, which a command loads when it starts and saves as a whole  *)
(* when it ends.  Every request to the server is a step of its own; a      *)
(* process may stop between any two.                                       *)
(***************************************************************************)
EXTENDS Integers, FiniteSets, FiniteSetsExt

CONSTANTS N,           \* the nodes are 1..N; 1 is the project
          Parent,      \* node -> the node above it
          Machines,    \* the machines
          Procs,       \* the processes that run commands
          Tries,       \* how often update_children tries (5 in the code)
          Day,         \* keep_alive skips what was touched within this time
          Granularity, \* TOUCH_GRANULARITY_SECS
          Idle,        \* the server's idle window
          Workloads    \* what happens in a behaviour

Nodes == 1..N
Commands == {"init", "add", "rm", "repair", "ls", "import", "use"}

\* A workload: where each process runs, the commands it gives, the machines
\* that know the whole tree at first, the nodes that exist at first (with those
\* above them), whether a project is still to be made (then none exists), the
\* environment in daily use, whether the server expires idle vaults from the
\* start, and how many commands and how much time there is.
ASSUME EnvironmentsAssumption ==
    /\ N \in Nat \ {0}
    /\ Parent \in [2..N -> Nodes] /\ \A n \in 2..N : Parent[n] < n
    /\ Tries \in Nat \ {0} /\ Day \in Nat \ {0} /\ Granularity \in Nat
    /\ Workloads \subseteq
          [on : [Procs -> Machines], calls : [Procs -> SUBSET Commands],
           ready : SUBSET Machines, nodes : SUBSET Nodes, fresh : BOOLEAN,
           daily : Nodes, expires : BOOLEAN, commands : Nat, time : Nat]
    /\ \A w \in Workloads : /\ \A n \in w.nodes \ {1} : Parent[n] \in w.nodes
                            /\ w.fresh => w.nodes = {} /\ w.ready = {}

\* An ancestor used daily is touched at least every two days, and the server
\* may have its last touch a granularity too early: a shorter idle window
\* expires it (keep_alive skips whole days, not half ones).
ASSUME IdleAssumption == Idle \in Nat /\ Idle >= 2 * Day - 1 + Granularity

VARIABLES
    vaults,  \* server: the vaults that exist
    record,  \* server: node -> its children record, [ver, kids]
    seen,    \* server: node -> last_active_at
    clock,
    expires, \* server: its policy has an idle window
    disk,    \* machine -> config.toml and state.toml: held, tree, touched
             \* (-1: never) and no_expiry
    keys,    \* machine -> nodes whose key is in its key store
    cmd,     \* process -> the command it runs
    plan,    \* the workload, counted down
    acked,   \* ghost: node -> the number of its last addition, negated (or 0)
             \* when it is not listed
    kept,    \* ghost: machine -> nodes it imported or made, and did not remove
    spoiled, \* ghost: machine -> a command saved while another ran there, or a
             \* removal was cut short
    reborn,  \* ghost: a vault was made again while a write of its record was
             \* under way, whose If-Match may then fit the new vault
    used     \* ghost: when the environment in daily use was last used

server == <<vaults, record>>
local == <<disk, keys>>
time == <<seen, clock, expires, used>>
ghosts == <<acked, kept, spoiled, reborn>>
vars == <<server, local, time, cmd, plan, ghosts>>

\* n and the nodes above it, up to the project.
Up[n \in Nodes] == {n} \cup (IF n = 1 THEN {} ELSE Up[Parent[n]])
Below(n) == {k \in Nodes : n \in Up[k]}
Above(n) == Up[n] \ {n}

NoRecord == [ver |-> 0, kids |-> {}]
Nothing == [held |-> {}, tree |-> {}, touched |-> [n \in Nodes |-> -1], no_expiry |-> {}]
NoCmd == [at |-> "idle", name |-> "ls", n |-> 1, recursive |-> FALSE, st |-> Nothing,
          root |-> 1, roots |-> {}, queue |-> {}, found |-> {}, lost |-> {}, todo |-> {},
          target |-> 1, read |-> NoRecord, tries |-> 0,
          loaded |-> Nothing, known |-> [n \in Nodes |-> 0], cut |-> FALSE]

Init ==
    /\ plan \in Workloads
    /\ vaults = plan.nodes
    /\ record = [n \in Nodes |->
                   IF n \notin plan.nodes THEN NoRecord
                   ELSE [ver |-> 1, kids |-> {k \in plan.nodes \ {1} : Parent[k] = n}]]
    /\ seen = [n \in Nodes |-> 0] /\ clock = 0 /\ used = 0 /\ expires = plan.expires
    /\ disk = [m \in Machines |-> IF m \in plan.ready
                                  THEN [Nothing EXCEPT !.held = {1}, !.tree = plan.nodes]
                                  ELSE Nothing]
    /\ keys = [m \in Machines |-> disk[m].held]
    /\ cmd = [p \in Procs |-> NoCmd]
    /\ acked = [n \in Nodes |-> IF n \in plan.nodes \ {1} THEN 1 ELSE 0]
    /\ kept = [m \in Machines |-> disk[m].held]
    /\ spoiled = [m \in Machines |-> FALSE] /\ reborn = FALSE

\* Every variable holds a value of its kind.
TypeOK ==
    /\ vaults \subseteq Nodes
    /\ record \in [Nodes -> [ver : Nat, kids : SUBSET Nodes]]
    /\ \A m \in Machines : /\ disk[m].held \cup disk[m].tree \cup disk[m].no_expiry \subseteq Nodes
                           /\ disk[m].touched \in [Nodes -> -1..clock]
    /\ seen \in [Nodes -> 0..clock]
    /\ keys \in [Machines -> SUBSET Nodes]
    /\ \A p \in Procs : DOMAIN cmd[p] = DOMAIN NoCmd

-----------------------------------------------------------------------------
(* What a command knows and reaches. *)

Machine(p) == plan.on[p]

\* authenticate: the vault is there and has not expired (server_core/auth.rs).
Open(n) == n \in vaults /\ (expires => seen[n] + Idle >= clock)

\* Store::touch: not more often than the granularity.
touch(n) == seen' = [seen EXCEPT ![n] = IF @ < clock - Granularity THEN clock ELSE @]

\* ProjectState::held_root_for: the deepest held node at or above n.
held_root_for(st, n) == Max(st.held \cap Up[n])

\* Owner::chain: the held root's key is in the key store; keys below it are
\* derived.
chain(p, st, n) == st.held \cap Up[n] # {} /\ held_root_for(st, n) \in keys[Machine(p)]

\* The nodes a chain to n passes before n.
ancestors(st, n) == Above(n) \cap Below(held_root_for(st, n))

\* Owner::require_known, ProjectState::knows.
require_known(st, n) == n \in st.tree

Step(p, c) == cmd' = [cmd EXCEPT ![p] = c]

\* The command ends with an error, or its process stops: what it had not
\* saved is lost.
Fail(p) ==
    /\ Step(p, NoCmd)
    /\ spoiled' = [spoiled EXCEPT ![Machine(p)] = @ \/ cmd[p].cut]

\* StateStore::save: the whole of what the command loaded and changed.
save(p, c) ==
    /\ disk' = [disk EXCEPT ![Machine(p)] = c.st]
    /\ spoiled' = [spoiled EXCEPT ![Machine(p)] =
                     @ \/ \E q \in Procs \ {p} : Machine(q) = Machine(p) /\ cmd[q].at # "idle"]
    /\ Step(p, NoCmd)

\* Handle::update_children on `target` begins.
update_children(c, target) == [c EXCEPT !.at = "read", !.target = target, !.tries = 0]

\* Owner::discover_from begins at `root`; `roots` are to follow.
discover_from(c, root, roots) ==
    [c EXCEPT !.at = "discover", !.root = root, !.roots = roots, !.queue = {root},
              !.found = {}, !.lost = {}, !.known = acked]

\* What a node listed now is numbered, and one listed no more.
Listed(a) == IF a > 0 THEN a ELSE 1 - a
Unlisted(a) == IF a > 0 THEN -a ELSE a

\* The children of n a vault's loss takes off the tree, and n itself.
Lost(n) ==
    [k \in Nodes |-> IF k = n \/ (k # 1 /\ Parent[k] = n) THEN Unlisted(acked[k]) ELSE acked[k]]

-----------------------------------------------------------------------------
(* Commands: the state is loaded and the local checks are made. *)

load(p, name, n) ==
    [NoCmd EXCEPT !.name = name, !.n = n, !.loaded = disk[Machine(p)], !.st = disk[Machine(p)]]

start(p, name, c) ==
    /\ cmd[p].at = "idle" /\ name \in plan.calls[p] /\ plan.commands > 0
    /\ plan' = [plan EXCEPT !.commands = @ - 1, !.fresh = @ /\ name # "init"]
    /\ Step(p, c)
    /\ UNCHANGED <<server, local, time, ghosts>>

\* Owner::begin_init and the start of confirm_kit_stored: the project's key is
\* drawn, once.
begin_init(p) ==
    LET c == load(p, "init", 1) IN
    plan.fresh /\ c.st.tree = {} /\ start(p, "init", [c EXCEPT !.at = "create"])

\* Owner::env_add.
env_add(p, n) ==
    LET c == load(p, "add", n) IN
    /\ n # 1 /\ require_known(c.st, Parent[n]) /\ n \notin c.st.tree
    /\ chain(p, c.st, Parent[n])
    /\ start(p, "add", [c EXCEPT !.at = "alive", !.todo = ancestors(c.st, Parent[n])])

\* Owner::env_remove: it first looks for what other machines added.
env_remove(p, n, recursive) ==
    LET c == [load(p, "rm", n) EXCEPT !.recursive = recursive] IN
    /\ require_known(c.st, n) /\ chain(p, c.st, n)
    /\ start(p, "rm", discover_from(c, n, {}))

\* Owner::env_repair.
env_repair(p, n) ==
    LET c == load(p, "repair", n) IN
    /\ require_known(c.st, n) /\ chain(p, c.st, n)
    /\ start(p, "repair", [c EXCEPT !.at = "create"])

\* Owner::refresh, for `gv env ls`: every held root in turn.
refresh(p, root) ==
    LET c == load(p, "ls", 1) IN
    /\ root \in c.st.held /\ c.st.held \subseteq keys[Machine(p)]
    /\ start(p, "ls", discover_from(c, root, c.st.held \ {root}))

\* Owner::import, Owner::recover: a kit carries the key of its node.
import(p, n) == start(p, "import", discover_from(load(p, "import", n), n, {}))

\* Owner::environment, for a command on the secrets of n.
use(p, n) ==
    LET c == load(p, "use", n) IN
    /\ require_known(c.st, n) /\ chain(p, c.st, n)
    /\ start(p, "use", [c EXCEPT !.at = "open"])

-----------------------------------------------------------------------------
(* Requests of a running command. *)

\* Owner::environment opens the vault.  A server that expires nothing is
\* remembered as such for the vault and what is above it, and no ancestor is
\* kept alive; one that does makes them due again.
open_owner(p) ==
    LET c == cmd[p]
        line == Up[c.n] \cap Below(held_root_for(c.st, c.n))
        st == [c.st EXCEPT !.touched[c.n] = clock,
                           !.no_expiry = IF expires THEN @ \ line ELSE @ \cup line]
    IN
    /\ c.at = "open"
    /\ IF Open(c.n)
       THEN /\ touch(c.n)
            /\ Step(p, [c EXCEPT !.at = "alive", !.st = st,
                                 !.todo = IF expires THEN line \ {c.n} ELSE {}])
            /\ UNCHANGED spoiled
       ELSE Fail(p) /\ UNCHANGED seen
    /\ UNCHANGED <<server, local, clock, expires, used, plan, acked, kept, reborn>>

\* Mutant: a whole day old still counts.
recent_longer(st, x) == x \in st.no_expiry \/ (st.touched[x] # -1 /\ clock - st.touched[x] <= Day)

\* Owner::keep_alive has nothing to do for x: it cannot expire, or was touched
\* within a day.
recent(st, x) == x \in st.no_expiry \/ (st.touched[x] # -1 /\ clock - st.touched[x] < Day)

\* Owner::keep_alive, one ancestor: one that does not open is only warned
\* about.
keep_alive(p) ==
    LET c == cmd[p]
        x == Min(c.todo)
        next == [c EXCEPT !.todo = @ \ {x}]
    IN
    /\ c.at = "alive" /\ c.todo # {}
    /\ IF recent(c.st, x) \/ ~Open(x)
       THEN Step(p, next) /\ UNCHANGED seen
       ELSE /\ touch(x)
            /\ Step(p, [next EXCEPT !.st.touched[x] = clock,
                                    !.st.no_expiry = IF expires THEN @ ELSE @ \cup {x}])
    /\ UNCHANGED <<server, local, clock, expires, used, plan, ghosts>>

kept_alive(p) ==
    LET c == cmd[p] IN
    /\ c.at = "alive" /\ c.todo = {}
    /\ Step(p, [c EXCEPT !.at = IF c.name = "add" THEN "check" ELSE "save"])
    /\ UNCHANGED <<server, local, time, plan, ghosts>>

\* Owner::env_add opens the parent and reads its record.
check(p) ==
    LET c == cmd[p]
        parent == Parent[c.n]
    IN
    /\ c.at = "check"
    /\ IF Open(parent) THEN touch(parent) ELSE UNCHANGED seen
    /\ IF Open(parent) /\ c.n \notin record[parent].kids
       THEN Step(p, [c EXCEPT !.at = "create"]) /\ UNCHANGED spoiled
       ELSE Fail(p)
    /\ UNCHANGED <<server, local, clock, expires, used, plan, acked, kept, reborn>>

\* Handle::create: a vault that exists, expired or not, is left as it is; for a
\* new project that is an error.
create(p) ==
    LET c == cmd[p] IN
    /\ c.at = "create"
    /\ IF c.n \notin vaults
       THEN /\ vaults' = vaults \cup {c.n}
            /\ record' = [record EXCEPT ![c.n] = NoRecord]
            /\ seen' = [seen EXCEPT ![c.n] = clock]
            /\ reborn' = (reborn \/ \E q \in Procs : cmd[q].at = "write" /\ cmd[q].target = c.n)
            /\ Step(p, [c EXCEPT !.at = "empty"]) /\ UNCHANGED spoiled
       ELSE /\ UNCHANGED <<server, seen, reborn>>
            /\ IF c.name = "init" THEN Fail(p)
               ELSE /\ Step(p, update_children(c, IF c.name = "add" THEN Parent[c.n] ELSE c.n))
                    /\ UNCHANGED spoiled
    /\ UNCHANGED <<local, clock, expires, used, plan, acked, kept>>

\* Handle::create_with_keys goes on: an empty children record, unless another
\* client was first.  A new project is then stored: confirm_kit_stored's end.
create_empty(p) ==
    LET c == cmd[p] IN
    /\ c.at = "empty"
    /\ IF ~Open(c.n) THEN Fail(p) /\ UNCHANGED <<record, seen, local, kept>>
       ELSE /\ touch(c.n)
            /\ record' = IF record[c.n].ver = 0 THEN [record EXCEPT ![c.n].ver = 1] ELSE record
            /\ IF c.name = "init"
               THEN /\ keys' = [keys EXCEPT ![Machine(p)] = @ \cup {1}]
                    /\ kept' = [kept EXCEPT ![Machine(p)] = @ \cup {1}]
                    /\ save(p, [c EXCEPT !.st.held = {1}, !.st.tree = {1}, !.st.touched[1] = clock])
               ELSE /\ Step(p, update_children(c, IF c.name = "add" THEN Parent[c.n] ELSE c.n))
                    /\ UNCHANGED <<local, kept, spoiled>>
    /\ UNCHANGED <<vaults, clock, expires, used, plan, acked, reborn>>

\* Handle::children, in update_children.
children(p) ==
    LET c == cmd[p] IN
    /\ c.at = "read"
    /\ IF Open(c.target)
       THEN /\ touch(c.target)
            /\ Step(p, [c EXCEPT !.at = "write", !.read = record[c.target]]) /\ UNCHANGED spoiled
       ELSE Fail(p) /\ UNCHANGED seen
    /\ UNCHANGED <<server, local, clock, expires, used, plan, acked, kept, reborn>>

\* The entries a repair puts back: every child the local state knows.
children_of(c) == {k \in c.st.tree \ {1} : Parent[k] = c.n}

\* What the command makes of the record it read.
changed(c) ==
    CASE c.name = "add" -> c.read.kids \cup {c.n}
      [] c.name = "rm" -> c.read.kids \ {c.n}
      [] c.name = "repair" -> c.read.kids \cup children_of(c)

\* Mutant: the record is written whatever its version.
Fits_any(c) == TRUE

\* Handle::put_children under If-Match.
Fits(c) == record[c.target].ver = c.read.ver

\* Another client's write makes update_children read again, and give up in
\* the end.
put_children(p) ==
    LET c == cmd[p] IN
    /\ c.at = "write"
    /\ IF Open(c.target) THEN touch(c.target) ELSE UNCHANGED seen
    /\ IF Open(c.target) /\ Fits(c)
       THEN /\ record' = [record EXCEPT ![c.target] = [ver |-> @.ver + 1, kids |-> changed(c)]]
            /\ acked' = CASE c.name = "add" -> [acked EXCEPT ![c.n] = Listed(@)]
                          [] c.name = "rm" -> [acked EXCEPT ![c.n] = Unlisted(@)]
                          [] OTHER -> acked
            /\ Step(p, [c EXCEPT !.at = "save",
                                 !.st.tree = IF c.name = "add" THEN @ \cup {c.n} ELSE @,
                                 !.st.touched[c.n] = IF c.name = "rm" THEN @ ELSE clock])
            /\ UNCHANGED spoiled
       ELSE /\ IF Open(c.target) /\ c.tries + 1 < Tries
               THEN Step(p, [c EXCEPT !.at = "read", !.tries = @ + 1]) /\ UNCHANGED spoiled
               ELSE Fail(p)
            /\ UNCHANGED <<record, acked>>
    /\ UNCHANGED <<vaults, local, clock, expires, used, plan, kept, reborn>>

\* The last step of a command: Owner::save, for an environment Owner::close.
saves(p) ==
    /\ cmd[p].at = "save"
    /\ save(p, cmd[p])
    /\ used' = IF cmd[p].name = "use" /\ cmd[p].n = plan.daily THEN clock ELSE used
    /\ UNCHANGED <<server, keys, seen, clock, expires, plan, acked, kept, reborn>>

\* Mutant: only the root's children are looked at.
queue_next_flat(c, x) == (c.queue \ {x}) \cup IF x = c.root THEN record[x].kids ELSE {}

\* The children a discovered vault's record lists are discovered in turn.
queue_next(c, x) == (c.queue \ {x}) \cup record[x].kids

\* Owner::discover_from opens the next vault of its queue and reads its
\* children; one that does not open is kept as unreachable, unless it is the
\* root.
discover_next(p) ==
    LET c == cmd[p] IN
    /\ c.at = "discover"
    /\ \E x \in c.queue :
          \/ /\ Open(x)
             /\ touch(x)
             /\ Step(p, [c EXCEPT !.queue = queue_next(c, x), !.found = @ \cup {x},
                                  !.st.touched[x] = clock])
             /\ UNCHANGED spoiled
          \/ /\ ~Open(x) /\ x # c.root
             /\ Step(p, [c EXCEPT !.queue = @ \ {x}, !.found = @ \cup {x}, !.lost = @ \cup {x}])
             /\ UNCHANGED <<spoiled, seen>>
          \/ ~Open(x) /\ x = c.root /\ Fail(p) /\ UNCHANGED seen
    /\ UNCHANGED <<server, local, clock, expires, used, plan, acked, kept, reborn>>

\* The end of discover_from: the subtree is replaced; below an unreachable
\* node what was known is kept.
found_tree(c) ==
    {k \in c.st.tree : k \notin Below(c.root) \/ \E u \in c.lost : k # u /\ k \in Below(u)} \cup c.found

\* Then a refresh goes on to its next root, an import stores its key and is
\* saved, and a removal goes on unless it would take environments below along.
discovered(p) ==
    LET c == [cmd[p] EXCEPT !.st.tree = found_tree(cmd[p])]
        below == c.st.tree \cap Below(c.n)
    IN
    /\ c.at = "discover" /\ c.queue = {}
    /\ \/ /\ c.name = "ls" /\ \E r \in c.roots : Step(p, discover_from(c, r, c.roots \ {r}))
          /\ UNCHANGED <<local, kept, spoiled>>
       \/ /\ c.name = "ls" /\ c.roots = {} /\ Step(p, [c EXCEPT !.at = "save"])
          /\ UNCHANGED <<local, kept, spoiled>>
       \/ /\ c.name = "import"
          /\ keys' = [keys EXCEPT ![Machine(p)] = @ \cup {c.n}]
          /\ kept' = [kept EXCEPT ![Machine(p)] = @ \cup {c.n}]
          /\ save(p, [c EXCEPT !.st.held = @ \cup {c.n}])
       \/ /\ c.name = "rm" /\ (c.recursive \/ below = {c.n})
          /\ Step(p, [c EXCEPT !.at = "delete", !.todo = below])
          /\ UNCHANGED <<local, kept, spoiled>>
       \/ /\ c.name = "rm" /\ ~(c.recursive \/ below = {c.n})
          /\ Fail(p) /\ UNCHANGED <<local, kept>>
    /\ UNCHANGED <<server, time, plan, acked, reborn>>

\* Mutant: the node stays among the held ones.
removed_listed(st, x) == [st EXCEPT !.tree = @ \ {x}]

\* What a removed node leaves behind in the local state.
removed(st, x) == [st EXCEPT !.tree = @ \ {x}, !.held = @ \ {x}]

\* Owner::env_remove deletes the next vault, deepest first (one that does not
\* open is only warned about), and forgets its key if it is held: from the key
\* store at once, from `held` at the save.
delete_vault(p) ==
    LET c == cmd[p]
        x == Max(c.todo)
        gone == [c EXCEPT !.todo = @ \ {x}, !.st = removed(c.st, x), !.cut = @ \/ x \in c.st.held]
    IN
    /\ c.at = "delete" /\ c.todo # {}
    /\ IF ~chain(p, c.st, x) THEN Fail(p) /\ UNCHANGED <<server, keys, kept, acked>>
       ELSE /\ IF Open(x) THEN /\ vaults' = vaults \ {x}
                               /\ record' = [record EXCEPT ![x] = NoRecord]
                               /\ acked' = Lost(x)
               ELSE UNCHANGED <<server, acked>>
            /\ keys' = [keys EXCEPT ![Machine(p)] = @ \ (c.st.held \cap {x})]
            /\ kept' = [kept EXCEPT ![Machine(p)] = @ \ {x}]
            /\ Step(p, gone) /\ UNCHANGED spoiled
    /\ UNCHANGED <<disk, time, plan, reborn>>

\* Owner::env_remove unlists the node in its parent's record, if the parent's
\* key was reached: the held root was above the node when it began.
deleted(p) ==
    LET c == cmd[p] IN
    /\ c.at = "delete" /\ c.todo = {}
    /\ Step(p, IF held_root_for(c.loaded, c.n) # c.n THEN update_children(c, Parent[c.n])
               ELSE [c EXCEPT !.at = "save"])
    /\ UNCHANGED <<server, local, time, plan, ghosts>>

\* The process stops, or a request or a save fails for good.
interrupt(p) ==
    /\ cmd[p].at # "idle"
    /\ Fail(p)
    /\ UNCHANGED <<server, local, time, plan, acked, kept, reborn>>

Request(p) ==
    \/ open_owner(p) \/ keep_alive(p) \/ kept_alive(p)
    \/ check(p) \/ create(p) \/ create_empty(p) \/ children(p) \/ put_children(p)
    \/ discover_next(p) \/ discovered(p) \/ delete_vault(p) \/ deleted(p) \/ saves(p)

\* Time passes, slowly against a command, and no day goes by without a use of
\* the environment in daily use.
tick ==
    /\ plan.time > 0 /\ \A p \in Procs : cmd[p].at = "idle"
    /\ clock - used < Day
    /\ clock' = clock + 1 /\ plan' = [plan EXCEPT !.time = @ - 1]
    /\ UNCHANGED <<server, local, seen, expires, used, cmd, ghosts>>

\* The server is restarted with an idle window, every vault having been used
\* lately.
expiry_on ==
    /\ ~expires /\ \A n \in vaults : clock - seen[n] < Day
    /\ expires' = TRUE
    /\ UNCHANGED <<server, local, seen, clock, used, cmd, plan, ghosts>>

Command(p) ==
    \/ begin_init(p)
    \/ \E n \in Nodes : \/ env_add(p, n) \/ env_repair(p, n) \/ refresh(p, n)
                        \/ import(p, n) \/ use(p, n)
                        \/ \E recursive \in BOOLEAN : env_remove(p, n, recursive)

Next == tick \/ expiry_on \/ \E p \in Procs : Command(p) \/ Request(p) \/ interrupt(p)

Spec == Init /\ [][Next]_vars

-----------------------------------------------------------------------------
(* Properties. *)

\* An environment whose addition reached its parent's record stays listed there
\* until a removal takes it off, whatever other clients add, remove or repair
\* at the same time (Handle::update_children's read and If-Match; the lost
\* update of vault.rs:1244).  The exception is a parent removed and made again
\* under the writer's feet: the new record's versions start over, and an
\* If-Match for the old one may fit it.
AddedStaysListed ==
    \A n \in 2..N : acked[n] > 0 /\ ~reborn =>
        Parent[n] \in vaults /\ n \in record[Parent[n]].kids

\* A discovery that ends knows every environment below its root that was listed
\* when it began and has not been removed since, unless something above it was
\* removed or did not open: what `gv env rm` deletes, and what it refuses to
\* delete without --recursive, is decided on that (owner/mod.rs:755).
DiscoversListed ==
    \A p \in Procs :
        LET c == cmd[p]
            stays(k) == c.known[k] > 0 /\ acked[k] = c.known[k]
        IN c.at = "discover" /\ c.queue = {} /\ ~reborn =>
              \A n \in Below(c.root) \ {c.root} :
                  (\A k \in (Below(c.root) \cap Up[n]) \ {c.root} : stays(k) /\ k \notin c.lost)
                      => n \in found_tree(c)

\* A machine on which no two commands overlapped and no removal was cut short
\* can read every key its config.toml says it holds, and still holds whatever
\* it was given: an interrupted command loses neither (the order of store_key
\* and save in import, confirm_kit_stored and env_remove).
HeldKept ==
    \A m \in Machines :
        ~spoiled[m] /\ (\A p \in Procs : Machine(p) = m => cmd[p].at = "idle") =>
            disk[m].held \subseteq keys[m] /\ kept[m] \subseteq disk[m].held

\* While an environment is used every day, nothing above it expires, the server
\* and the machine each counting days of their own (keep_alive's promise, "so a
\* project root outlives environments that are used every day").
AncestorsOutlive ==
    \A n \in Up[plan.daily] \cap vaults : clock - used < Day => Open(n)

=============================================================================
