-------------------------------- MODULE Rekey --------------------------------
(***************************************************************************)
(* Re-rooting a subtree (owner/rekey.rs, with what it uses of              *)
(* owner/mod.rs, vault.rs and state.rs).                                   *)
(*                                                                         *)
(* One machine rekeys nodes of a project, one after another: it creates    *)
(* the new vaults, copies the records into them, points the parent's       *)
(* children record at the new key and deletes the old vaults.  Every       *)
(* request may fail, or be done and its answer lost, and the process may   *)
(* stop between any two steps: what is left is the plan in state.toml and  *)
(* the keys in the key store, from which the owner resumes or aborts.      *)
(* Meanwhile other machines and token holders use the same vaults.         *)
(*                                                                         *)
(* A node key is the number of the random key it derives from: the vault   *)
(* of node n under key k is <<k, n>>, and a derived entry names its        *)
(* parent's own number.  0 is no key.                                      *)
(***************************************************************************)
EXTENDS Integers, Sequences, FiniteSets, FiniteSetsExt, Functions

CONSTANTS
    N,            \* the nodes are 1..N, parents before children; 1 is the project
    Parent,       \* the parent of each node but the project
    First,        \* the nodes that exist at the start
    Written,      \* the versions each node's vault retains at the start
    MaxVersions,  \* versions of a record a vault retains
    Workloads,    \* which keys this machine may hold, what else may happen, how many keys
    MaxKey,       \* bound: random keys ever generated
    MaxFail,      \* bound: interruptions
    MaxWrite      \* bound: versions written

Node == 1..N
Key == 1..MaxKey
Version == [at : 1..MaxWrite, tombstone : BOOLEAN]

ASSUME RekeyAssumption ==
    /\ N \in Nat \ {0} /\ MaxKey \in Nat \ {0} /\ MaxVersions \in Nat \ {0}
    /\ {MaxFail, MaxWrite} \subseteq Nat
    /\ Parent \in [2..N -> Node] /\ \A n \in 2..N : Parent[n] < n
    /\ First \subseteq Node /\ \A n \in First \ {1} : Parent[n] \in First
    /\ Written \in [First -> Seq(Version)]
    /\ \A n \in First : Len(Written[n]) <= MaxVersions
    /\ \A w \in Workloads :
         /\ w.held \subseteq First /\ w.keys \in Key
         /\ w.others \subseteq {"write", "env_add", "env_remove", "late", "resume_aborted"}

VARIABLES
    load,     \* the workload of this behaviour
    recs,     \* the vaults on the server: each one's retained versions
    kids,     \* each vault's children record: child -> key
    kver,     \* the version of that record (0: none)
    late,     \* a PUT of a children record whose sender gave up on it
    plan,     \* state.toml: the rekey in progress
    held,     \* config.toml: the nodes whose keys are held
    tree,     \* config.toml: the known tree
    store,    \* the key store
    at,       \* where this process is; "idle" between commands
    job,      \* the plan this process works on
    left,     \* the nodes its loop has still to do
    keys,     \* the old keys it has opened
    todo,     \* the versions of one node it has still to copy
    truth,    \* what the record of each node this machine reaches would retain,
              \* had nothing moved
    aborted,  \* an abort of the recorded plan has begun to delete
    written,  \* versions written so far
    used,     \* random keys generated so far
    fails     \* interruptions so far

server == <<recs, kids, kver, late>>
local == <<plan, held, tree, store>>
process == <<at, job, left, keys, todo>>
ghosts == <<truth, written, aborted, used, fails>>
vars == <<load, server, local, process, ghosts>>

\* RekeyPlan, and RekeyStep in its order.
NoPlan == [path |-> 0]
Step == {"planned", "created", "migrated", "linked", "retired"}
Rank == [planned |-> 0, created |-> 1, migrated |-> 2, linked |-> 3, retired |-> 4]
Plan == [path : Node, nodes : SUBSET Node, old : [Node -> 0..MaxKey], new : Key,
         step : Step, linked : BOOLEAN]

\* KeyName: the node keys, and a rekey's two while it runs.
Store == [node : [Node -> 0..MaxKey], rekeyOld : [Node -> 0..MaxKey],
          rekeyNew : [Node -> 0..MaxKey]]

\* TreeNode: the vault known at a node (0: unknown), and whether its key is
\* sealed in its parent's record.
TreeNode == [vault : 0..MaxKey, sealed : BOOLEAN]

NoPut == [version |-> 0]
Put == [vault : Key \X Node, version : Nat, child : Node, key : Key]

Vaults == DOMAIN recs

\* EnvPath::starts_with: a node with everything above it, and below it.
Above[n \in Node] == {n} \cup (IF n = 1 THEN {} ELSE Above[Parent[n]])
Below(p) == {n \in Node : p \in Above[n]}

-----------------------------------------------------------------------------
(* Requests. *)

With(f, x, y) == [z \in DOMAIN f \cup {x} |-> IF z = x THEN y ELSE f[z]]
Without(f, S) == Restrict(f, DOMAIN f \ S)

\* A record's newest versions, as many as a vault retains.
pruned(s) == SubSeq(s, Max({1, Len(s) - MaxVersions + 1}), Len(s))

\* Handle::children, of a vault that exists: none written yet is empty.
children(v) == kids[v]

\* A PUT of v's children record, each version replacing the one before it.
put_children(v, record) ==
    /\ kids' = [kids EXCEPT ![v] = record]
    /\ kver' = [kver EXCEPT ![v] = @ + 1]

\* DELETE /v1/vault, of a vault that need not exist (open_if_exists).
delete_vault(v) ==
    /\ recs' = Without(recs, {v})
    /\ kids' = Without(kids, {v})
    /\ kver' = Without(kver, {v})

\* ProjectState::held_root_for: the deepest held node at or above p.
held_root_for(p) == Max({0} \cup (held \cap Above[p]))

\* Owner::chain's last key: from the held key down, by derivation, or from
\* the children record where the known tree says sealed.  0: it fails.
chain(p) ==
    LET root == held_root_for(p)
        key[n \in Node] ==
            CASE n < root -> 0
              [] n = root -> store.node[root]
              [] OTHER ->
                   LET above == key[Parent[n]]
                       v == <<above, Parent[n]>>
                   IN  CASE above = 0 -> 0
                         [] above # 0 /\ ~tree[n].sealed -> above
                         [] OTHER -> IF v \in Vaults /\ n \in DOMAIN children(v)
                                     THEN children(v)[n] ELSE 0
    IN  IF root = 0 THEN 0 ELSE key[p]

\* The subtree below p from p's key, through the children records: each
\* listed node's key, 0 for a node not listed.
listed(p, root) ==
    LET key[n \in Node] ==
            CASE n = p -> root
              [] n \notin Below(p) -> 0
              [] OTHER -> LET v == <<key[Parent[n]], Parent[n]>>
                          IN  IF v \in Vaults /\ n \in DOMAIN children(v)
                              THEN children(v)[n] ELSE 0
    IN  key

\* Owner::old_keys: as listed, of the plan's nodes.  A node below an old
\* vault that is gone has none (0); one its parent's record no longer lists
\* is an error (-1).
old_keys(p, nodes, root) ==
    LET key[n \in Node] ==
            CASE n = p -> root
              [] n \notin nodes -> 0
              [] OTHER -> LET above == key[Parent[n]]
                              v == <<above, Parent[n]>>
                          IN  CASE above <= 0 \/ v \notin Vaults -> Min({above, 0})
                                [] OTHER -> IF n \in DOMAIN children(v)
                                            THEN children(v)[n] ELSE -1
    IN  key

\* copy_from skips leading tombstones.
source(s) ==
    LET live == {n \in DOMAIN s : ~s[n].tombstone}
    IN  IF live = {} THEN <<>> ELSE SubSeq(s, Min(live), Len(s))

-----------------------------------------------------------------------------
(* The process. *)

\* An error, or the end of the process: the command ends where it stands.
\* A step just taken whose answer is lost is the step, then this.
Interrupt ==
    /\ at # "idle" /\ fails < MaxFail
    /\ fails' = fails + 1
    /\ at' = "idle" /\ job' = NoPlan /\ left' = {} /\ keys' = <<>> /\ todo' = <<>>
    /\ UNCHANGED <<server, local, truth, written, aborted, used>>

Goto(label) == at' = label

\* A command that ends, done or refused by what it finds.
End == /\ at' = "idle" /\ job' = NoPlan /\ left' = {} /\ keys' = <<>> /\ todo' = <<>>

\* The next request of a loop over the plan's nodes, deepest first.
deepest == Max(left)

\* Owner::begin_rekey: every listed node must open; a fresh random key.
begin_rekey(p) ==
    /\ at = "idle" /\ plan = NoPlan /\ used < load.keys
    /\ tree[p].vault # 0
    /\ LET root == chain(p)
           found == listed(p, root)
           nodes == {n \in Node : found[n] # 0}
       IN  /\ root # 0
           /\ \A n \in nodes : <<found[n], n>> \in Vaults
           /\ job' = [path |-> p, nodes |-> nodes, old |-> found, new |-> used + 1,
                      step |-> "planned", linked |-> FALSE]
    /\ used' = used + 1
    /\ Goto("keep_old")
    /\ UNCHANGED <<server, local, left, keys, todo, truth, written, aborted, fails>>

\* PendingRekey::confirm_kit_stored: both keys, then the plan.
keep_old ==
    /\ at = "keep_old"
    /\ store' = [store EXCEPT !.rekeyOld[job.path] = job.old[job.path]]
    /\ Goto("keep_new")
    /\ UNCHANGED <<server, plan, held, tree, job, left, keys, todo, ghosts>>

keep_new ==
    /\ at = "keep_new"
    /\ store' = [store EXCEPT !.rekeyNew[job.path] = job.new]
    /\ Goto("record_plan")
    /\ UNCHANGED <<server, plan, held, tree, job, left, keys, todo, ghosts>>

record_plan ==
    /\ at = "record_plan"
    /\ plan' = job /\ aborted' = FALSE
    /\ Goto("run_rekey")
    /\ UNCHANGED <<server, held, tree, store, job, left, keys, todo, truth, written, used, fails>>

\* Owner::rekey_resume.  An owner who began an abort may resume instead.
rekey_resume ==
    /\ at = "idle" /\ plan # NoPlan
    /\ aborted => "resume_aborted" \in load.others
    /\ job' = plan
    /\ Goto("run_rekey")
    /\ UNCHANGED <<server, local, left, keys, todo, ghosts>>

\* Mutant: a plan that is migrated goes on to the deletions.
run_rekey_unlinked ==
    /\ at = "run_rekey"
    /\ store.rekeyNew[job.path] = job.new
    /\ left' = job.nodes
    /\ Goto(CASE job.step = "planned" -> "create"
              [] job.step = "created" -> "open_old"
              [] job.step = "migrated" -> "open_retired"
              [] job.step = "linked" -> "open_retired"
              [] job.step = "retired" -> "store_key")
    /\ UNCHANGED <<server, local, job, keys, todo, ghosts>>

\* Owner::run_rekey takes up the plan after its recorded step.
run_rekey ==
    /\ at = "run_rekey"
    /\ IF store.rekeyNew[job.path] = job.new
       THEN /\ left' = job.nodes
            /\ Goto(CASE job.step = "planned" -> "create"
                      [] job.step = "created" -> "open_old"
                      [] job.step = "migrated" -> "link_parent"
                      [] job.step = "linked" -> "open_retired"
                      [] job.step = "retired" -> "store_key")
            /\ UNCHANGED <<job, keys, todo>>
       ELSE End
    /\ UNCHANGED <<server, local, ghosts>>

\* Owner::advance: the step is recorded before the next begins.
advance(step, next) ==
    /\ plan' = [job EXCEPT !.step = step]
    /\ job' = plan'
    /\ left' = job.nodes
    /\ Goto(next)

\* Handle::create: one that exists is kept as it is; a new one is given an
\* empty children record by a second request.
create_vault ==
    /\ at = "create" /\ left # {}
    /\ LET v == <<job.new, deepest>>
       IN  IF v \in Vaults
           THEN /\ left' = left \ {deepest}
                /\ UNCHANGED <<server, at>>
           ELSE /\ recs' = With(recs, v, <<>>)
                /\ kids' = With(kids, v, <<>>)
                /\ kver' = With(kver, v, 0)
                /\ Goto("create_children")
                /\ UNCHANGED <<late, left>>
    /\ UNCHANGED <<local, job, keys, todo, ghosts>>

create_children ==
    /\ at = "create_children"
    /\ put_children(<<job.new, deepest>>, <<>>)
    /\ left' = left \ {deepest}
    /\ Goto("create")
    /\ UNCHANGED <<recs, late, local, job, keys, todo, ghosts>>

created ==
    /\ at = "create" /\ left = {}
    /\ advance("created", "open_old")
    /\ UNCHANGED <<server, held, tree, store, keys, todo, ghosts>>

\* Mutant: an old vault that is gone is an error when it is opened again.
opens_all(nodes) ==
    LET key == old_keys(job.path, nodes, store.rekeyOld[job.path])
    IN  \A n \in nodes : key[n] = job.old[n]

\* The old keys, before the copies and again before the deletions.  One that
\* is not the plan's is an error.
opens(nodes) ==
    LET root == store.rekeyOld[job.path]
        key == old_keys(job.path, nodes, root)
    IN  /\ root # 0
        /\ \A n \in nodes : key[n] \in {0, job.old[n]}

open_old ==
    /\ at \in {"open_old", "open_retired"}
    /\ IF opens(job.nodes)
       THEN /\ keys' = old_keys(job.path, job.nodes, store.rekeyOld[job.path])
            /\ Goto(IF at = "open_old" THEN "copy_from" ELSE "retire")
            /\ UNCHANGED <<job, left, todo>>
       ELSE End
    /\ UNCHANGED <<server, local, ghosts>>

\* Mutant: one version more than the new vault has is skipped.
copy_from_skips ==
    /\ at = "copy_from" /\ left # {}
    /\ LET old == <<keys[deepest], deepest>>
           new == <<job.new, deepest>>
       IN  /\ {old, new} \subseteq Vaults
           /\ todo' = SubSeq(source(recs[old]), Len(recs[new]) + 2, Len(source(recs[old])))
    /\ Goto("copy_version")
    /\ UNCHANGED <<server, local, job, left, keys, ghosts>>

\* Handle::copy_from reads what both vaults retain, and skips as many
\* versions as the new one has.  Both vaults must open.
copy_from ==
    /\ at = "copy_from" /\ left # {}
    /\ LET old == <<keys[deepest], deepest>>
           new == <<job.new, deepest>>
       IN  IF {old, new} \subseteq Vaults
           THEN /\ todo' = SubSeq(source(recs[old]), Len(recs[new]) + 1, Len(source(recs[old])))
                /\ Goto("copy_version")
                /\ UNCHANGED <<job, left, keys>>
           ELSE End
    /\ UNCHANGED <<server, local, ghosts>>

\* One version, fetched and written; one pruned meanwhile is an error.
copy_version ==
    /\ at = "copy_version" /\ todo # <<>>
    /\ LET old == <<keys[deepest], deepest>>
           new == <<job.new, deepest>>
       IN  IF {old, new} \subseteq Vaults /\ Head(todo) \in Range(recs[old])
           THEN /\ recs' = [recs EXCEPT ![new] = pruned(Append(@, Head(todo)))]
                /\ todo' = Tail(todo)
                /\ UNCHANGED <<at, job, left, keys>>
           ELSE /\ End
                /\ UNCHANGED recs
    /\ UNCHANGED <<kids, kver, late, local, ghosts>>

\* direct_children, listed as derived in the new vault's children record.
direct_children(nodes, i) == {n \in nodes \ {1} : Parent[n] = i}

list_children ==
    /\ at = "copy_version" /\ todo = <<>>
    /\ LET new == <<job.new, deepest>>
           below == direct_children(job.nodes, deepest)
           record == [n \in below \cup DOMAIN children(new) |->
                         IF n \in DOMAIN children(new) THEN children(new)[n] ELSE job.new]
       IN  IF new \in Vaults
           THEN /\ IF below # {} THEN put_children(new, record)
                                 ELSE UNCHANGED <<kids, kver>>
                /\ left' = left \ {deepest}
                /\ Goto("copy_from")
                /\ UNCHANGED <<job, keys, todo>>
           ELSE End /\ UNCHANGED <<kids, kver>>
    /\ UNCHANGED <<recs, late, local, ghosts>>

migrated ==
    /\ at = "copy_from" /\ left = {}
    /\ advance("migrated", "link_parent")
    /\ keys' = <<>>
    /\ UNCHANGED <<server, held, tree, store, todo, ghosts>>

\* Whether the node has a parent, and this machine reaches its key.
parent_held(p) == p # 1 /\ held_root_for(Parent[p]) # 0

parent_vault(p) == <<chain(Parent[p]), Parent[p]>>

\* Owner::link_parent: without the parent's key the node is detached.
detached ==
    /\ at = "link_parent" /\ ~parent_held(job.path)
    /\ Goto("linked")
    /\ UNCHANGED <<server, local, job, left, keys, todo, ghosts>>

\* Handle::seal_child reads the record, and writes it back if its version is
\* still the one it read.
seal_child ==
    /\ at = "link_parent" /\ parent_held(job.path)
    /\ LET v == parent_vault(job.path)
       IN  IF v \in Vaults
           THEN /\ put_children(v, With(children(v), job.path, job.new))
                /\ job' = [job EXCEPT !.linked = TRUE]
                /\ Goto("linked")
                /\ UNCHANGED <<left, keys, todo>>
           ELSE End /\ UNCHANGED <<kids, kver>>
    /\ UNCHANGED <<recs, late, local, ghosts>>

\* The same PUT, still under way when its sender gives up on it.
seal_child_late ==
    /\ "late" \in load.others /\ late = NoPut /\ fails < MaxFail
    /\ at = "link_parent" /\ parent_held(job.path)
    /\ parent_vault(job.path) \in Vaults
    /\ late' = [vault |-> parent_vault(job.path), version |-> kver[parent_vault(job.path)],
                child |-> job.path, key |-> job.new]
    /\ fails' = fails + 1
    /\ End
    /\ UNCHANGED <<recs, kids, kver, local, truth, written, aborted, used>>

linked ==
    /\ at = "linked"
    /\ advance("linked", "open_retired")
    /\ UNCHANGED <<server, held, tree, store, keys, todo, ghosts>>

\* The old vaults, deepest first.
retire ==
    /\ at = "retire" /\ left # {}
    /\ IF keys[deepest] = 0 THEN UNCHANGED <<recs, kids, kver>>
                            ELSE delete_vault(<<keys[deepest], deepest>>)
    /\ left' = left \ {deepest}
    /\ UNCHANGED <<late, local, at, job, keys, todo, ghosts>>

retired ==
    /\ at = "retire" /\ left = {}
    /\ advance("retired", "store_key")
    /\ keys' = <<>>
    /\ UNCHANGED <<server, held, tree, store, todo, ghosts>>

\* Mutant: the rekey's key is moved, not copied, to the node's own.
store_key_moves ==
    /\ at = "store_key"
    /\ store' = [store EXCEPT !.node[job.path] = job.new, !.rekeyNew[job.path] = 0]
    /\ Goto("finish")
    /\ UNCHANGED <<server, plan, held, tree, job, left, keys, todo, ghosts>>

\* Owner::finish_rekey: the new key as the node's own, then the state, then
\* the keys that are no longer needed.
store_key ==
    /\ at = "store_key"
    /\ store' = [store EXCEPT !.node[job.path] = job.new]
    /\ Goto("finish")
    /\ UNCHANGED <<server, plan, held, tree, job, left, keys, todo, ghosts>>

\* left: the nodes below whose held keys were old ones.  FileStateStore::save
\* writes config.toml, then state.toml.
finish_rekey ==
    /\ at = "finish"
    /\ LET p == job.path
       IN  /\ left' = (held \cap Below(p)) \ {p}
           /\ held' = (held \ Below(p)) \cup {p}
           /\ tree' = [n \in Node |->
                          IF n \notin Below(p) THEN tree[n]
                          ELSE [vault |-> IF n \in job.nodes THEN job.new ELSE 0,
                                sealed |-> n = p /\ job.linked]]
    /\ Goto("save_state")
    /\ UNCHANGED <<server, plan, store, job, keys, todo, ghosts>>

save_state ==
    /\ at = "save_state"
    /\ plan' = NoPlan
    /\ Goto("drop_below")
    /\ UNCHANGED <<server, held, tree, store, job, left, keys, todo, ghosts>>

drop_below ==
    /\ at = "drop_below"
    /\ store' = [store EXCEPT !.node = [n \in Node |-> IF n \in left THEN 0 ELSE @[n]]]
    /\ left' = {}
    /\ Goto("drop_old")
    /\ UNCHANGED <<server, plan, held, tree, job, keys, todo, ghosts>>

drop_old ==
    /\ at = "drop_old"
    /\ store' = [store EXCEPT !.rekeyOld[job.path] = 0]
    /\ Goto("drop_new")
    /\ UNCHANGED <<server, plan, held, tree, job, left, keys, todo, ghosts>>

drop_new ==
    /\ at = "drop_new"
    /\ store' = [store EXCEPT !.rekeyNew[job.path] = 0]
    /\ End
    /\ UNCHANGED <<server, plan, held, tree, ghosts>>

-----------------------------------------------------------------------------
(* Owner::abort_rekey. *)

\* The link may have landed without being recorded: the parent's record tells.
link_landed(p) ==
    /\ parent_vault(p.path) \in Vaults
    /\ p.path \in DOMAIN children(parent_vault(p.path))
    /\ children(parent_vault(p.path))[p.path] = p.new

\* Mutant: only the recorded plan is asked whether it is linked.
may_abort_recorded(p) ==
    /\ ~p.linked /\ Rank[p.step] < Rank["linked"]
    /\ store.rekeyNew[p.path] # 0

\* A plan that is linked can only go forward.
may_abort(p) ==
    /\ ~p.linked /\ Rank[p.step] < Rank["linked"]
    /\ store.rekeyNew[p.path] # 0
    /\ parent_held(p.path) => parent_vault(p.path) \in Vaults /\ ~link_landed(p)

abort_rekey ==
    /\ at = "idle" /\ plan # NoPlan
    /\ may_abort(plan)
    /\ job' = plan /\ left' = plan.nodes /\ aborted' = TRUE
    /\ Goto("abort")
    /\ UNCHANGED <<server, local, keys, todo, truth, written, used, fails>>

abort_vault ==
    /\ at = "abort" /\ left # {}
    /\ delete_vault(<<job.new, deepest>>)
    /\ left' = left \ {deepest}
    /\ UNCHANGED <<late, local, at, job, keys, todo, ghosts>>

forget_plan ==
    /\ at = "abort" /\ left = {}
    /\ plan' = NoPlan
    /\ Goto("drop_old")
    /\ UNCHANGED <<server, held, tree, store, job, left, keys, todo, ghosts>>

-----------------------------------------------------------------------------
(* Everyone else. *)

\* Only this machine knows a new key until it is linked.
Known(k) == plan # NoPlan /\ Rank[plan.step] < Rank["linked"] => k # plan.new

\* A token holder, or another owner, writes to a vault it knows.
write ==
    /\ "write" \in load.others
    /\ written < MaxWrite
    /\ LET version == [at |-> written + 1, tombstone |-> FALSE]
       IN  \E v \in Vaults :
             /\ Known(v[1]) /\ v[2] \in DOMAIN truth
             /\ recs' = [recs EXCEPT ![v] = pruned(Append(@, version))]
             /\ truth' = [truth EXCEPT ![v[2]] = pruned(Append(@, version))]
    /\ written' = written + 1
    /\ UNCHANGED <<kids, kver, late, local, process, aborted, used, fails>>

\* Owner::env_add on another machine, between two requests of this one.  The
\* environments added are not the ones that are removed: see the README.
env_add(n) ==
    /\ "env_add" \in load.others /\ n \notin First \cup DOMAIN truth
    /\ \E k \in Key :
         LET v == <<k, Parent[n]>>
             new == <<k, n>>
             kept == new \in Vaults
         IN  /\ v \in Vaults /\ Known(k) /\ n \notin DOMAIN children(v)
             /\ recs' = IF kept THEN recs ELSE With(recs, new, <<>>)
             /\ kids' = With(IF kept THEN kids ELSE With(kids, new, <<>>), v,
                             With(children(v), n, k))
             /\ kver' = With(IF kept THEN kver ELSE With(kver, new, 1), v, kver[v] + 1)
             /\ truth' = With(truth, n, recs'[new])
    /\ UNCHANGED <<late, local, process, written, aborted, used, fails>>

\* Owner::env_remove of a node with nothing below it, on another machine.
env_remove(n) ==
    /\ "env_remove" \in load.others /\ n \in First \cap DOMAIN truth
    /\ \E k \in Key :
         LET v == <<k, Parent[n]>>
             gone == <<children(v)[n], n>>
         IN  /\ v \in Vaults /\ Known(k) /\ n \in DOMAIN children(v)
             /\ gone \in Vaults /\ children(gone) = <<>>
             /\ recs' = Without(recs, {gone})
             /\ kids' = With(Without(kids, {gone}), v, Without(children(v), {n}))
             /\ kver' = With(Without(kver, {gone}), v, kver[v] + 1)
    /\ truth' = Without(truth, {n})
    /\ UNCHANGED <<late, local, process, written, aborted, used, fails>>

\* The PUT nobody waits for: it is applied if the record has not changed.
put_lands ==
    /\ late # NoPut
    /\ IF late.vault \in Vaults /\ kver[late.vault] = late.version
       THEN put_children(late.vault, With(children(late.vault), late.child, late.key))
       ELSE UNCHANGED <<kids, kver>>
    /\ late' = NoPut
    /\ UNCHANGED <<recs, local, process, ghosts>>

-----------------------------------------------------------------------------
Init ==
    /\ load \in Workloads
    /\ recs = [v \in {1} \X First |-> Written[v[2]]]
    /\ kids = [v \in {1} \X First |-> [n \in {m \in First \ {1} : Parent[m] = v[2]} |-> 1]]
    /\ kver = [v \in {1} \X First |-> 1]
    /\ late = NoPut
    /\ plan = NoPlan
    /\ \E h \in load.held :
          /\ held = {h}
          /\ tree = [n \in Node |-> [vault |-> IF n \in First \cap Below(h) THEN 1 ELSE 0,
                                     sealed |-> FALSE]]
          /\ store = [node |-> [n \in Node |-> IF n = h THEN 1 ELSE 0],
                      rekeyOld |-> [n \in Node |-> 0], rekeyNew |-> [n \in Node |-> 0]]
          /\ truth = Restrict(Written, First \cap Below(h))
    /\ at = "idle" /\ job = NoPlan /\ left = {} /\ keys = <<>> /\ todo = <<>>
    /\ written = Cardinality(UNION {Range(Written[n]) : n \in First})
    /\ aborted = FALSE /\ used = 1 /\ fails = 0

RunNext ==
    \/ keep_old \/ keep_new \/ record_plan \/ run_rekey
    \/ create_vault \/ create_children \/ created
    \/ open_old \/ copy_from \/ copy_version \/ list_children \/ migrated
    \/ detached \/ seal_child \/ linked \/ retire \/ retired
    \/ store_key \/ finish_rekey \/ save_state \/ drop_below \/ drop_old \/ drop_new
    \/ abort_vault \/ forget_plan

OthersNext ==
    \/ write
    \/ \E n \in 2..N : env_add(n) \/ env_remove(n)
    \/ put_lands

Next ==
    /\ UNCHANGED load
    /\ \/ \E p \in Node : begin_rekey(p)
       \/ rekey_resume \/ abort_rekey
       \/ RunNext
       \/ seal_child_late \/ Interrupt
       \/ OthersNext

Within(action) == action /\ UNCHANGED load

\* A command that runs goes on.  An owner with a rekey in progress resumes
\* it, and aborts it if resuming keeps failing and aborting stays possible.
Spec == /\ Init /\ [][Next]_vars
        /\ WF_vars(Within(RunNext)) /\ WF_vars(Within(rekey_resume))
        /\ SF_vars(Within(abort_rekey))

-----------------------------------------------------------------------------
(* Properties. *)

\* Type invariant.
TypeOK ==
    /\ Vaults \subseteq Key \X Node
    /\ \A v \in Vaults : recs[v] \in Seq(Version) /\ Len(recs[v]) <= MaxVersions
    /\ DOMAIN kids = Vaults /\ DOMAIN kver = Vaults
    /\ \A v \in Vaults : /\ DOMAIN kids[v] \subseteq Node /\ Range(kids[v]) \subseteq Key
                         /\ kver[v] \in Nat
    /\ late \in {NoPut} \cup Put
    /\ {plan, job} \subseteq {NoPlan} \cup Plan
    /\ held \subseteq Node /\ tree \in [Node -> TreeNode] /\ store \in Store
    /\ left \subseteq Node
    /\ used \in Key /\ fails \in 0..MaxFail

\* The keys discovery starts from: those held, save that a plan that is
\* linked has replaced those at and below its node.
Roots ==
    LET moved == plan # NoPlan /\ Rank[plan.step] >= Rank["linked"]
        kept == IF moved THEN held \ Below(plan.path) ELSE held
    IN  {<<store.node[p], p>> : p \in kept}
          \cup (IF moved THEN {<<store.rekeyNew[plan.path], plan.path>>} ELSE {})

\* What discover_from finds from those keys, through the children records.
Discovered ==
    LET found[n \in Node] ==
            {r[1] : r \in {x \in Roots : x[2] = n}} \cup
            (IF n = 1 THEN {}
             ELSE {children(v)[n] : v \in {w \in found[Parent[n]] \X {Parent[n]} :
                                             w \in Vaults /\ n \in DOMAIN children(w)}})
    IN  {v \in (0..MaxKey) \X Node : v[1] \in found[v[2]]}

\* Other machines leave the subtree alone.
Undisturbed == load.others \subseteq {"resume_aborted"}

\* Wherever a rekey or its abort is interrupted, every record is found, every
\* retained version of it, by discovery from the keys this machine holds,
\* unless other machines change the subtree meanwhile.
NothingLost ==
    Undisturbed =>
    \A n \in DOMAIN truth :
        \E v \in Discovered \cap Vaults :
            v[2] = n /\ source(recs[v]) = source(truth[n])

\* Every entry discovery follows leads to a vault, unless other machines
\* change the subtree meanwhile.
NothingDangles == Undisturbed => Discovered \subseteq Vaults

\* The tree is whole at every interruption: what was written is found, and
\* what is found is there.
TreeWhole == NothingLost /\ NothingDangles

\* A recorded plan's keys are in the key store until nothing needs them, so
\* that it can be resumed or aborted.
KeysKept ==
    plan # NoPlan => /\ store.rekeyNew[plan.path] = plan.new
                     /\ store.rekeyOld[plan.path] = plan.old[plan.path]

\* What a process that starts now reads is well formed and can be gone on
\* with: the plan, and the keys it names.
PlanKept == TypeOK /\ KeysKept

\* A rekey retires a vault only when discovery no longer reaches it,
\* whatever other machines do and wherever it was interrupted.
RetiresUnreached ==
    [][at = "retire" /\ left' # left => \A v \in Vaults \ DOMAIN recs' : v \notin Discovered]_vars

\* A recorded rekey ends, once the interruptions do: none waits for ever,
\* unless other machines change the subtree meanwhile.
RekeyEnds == Undisturbed /\ plan # NoPlan ~> plan = NoPlan

=============================================================================
