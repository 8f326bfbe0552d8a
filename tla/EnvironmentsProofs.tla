------------------------- MODULE EnvironmentsProofs -------------------------
(***************************************************************************)
(* Proofs about Environments, for any tree, any number of machines and     *)
(* processes and any workload.                                             *)
(*                                                                         *)
(* What a step does to the server is stated once (Moves), and what each    *)
(* process knows of the server (Reads, Explores) is kept by any such step; *)
(* what a machine holds (Holds) is kept by every step of its processes.    *)
(* What a machine noted of the times the server was reached at (Daily) is  *)
(* no newer than the server's own, and that keeps what is above an         *)
(* environment in daily use from expiring.                                 *)
(***************************************************************************)
EXTENDS Environments, NaturalsInduction, WellFoundedInduction, TLAPS

State == [held : SUBSET Nodes, tree : SUBSET Nodes, touched : [Nodes -> Int],
          no_expiry : SUBSET Nodes]
Children == [ver : Nat, kids : SUBSET Nodes]
Labels == {"idle", "create", "alive", "discover", "open", "check", "empty", "read", "write",
           "delete", "save"}
Cmd == [at : Labels, name : Commands, n : Nodes, recursive : BOOLEAN, st : State,
        root : Nodes, roots : SUBSET Nodes, queue : SUBSET Nodes, found : SUBSET Nodes,
        lost : SUBSET Nodes, todo : SUBSET Nodes, target : Nodes, read : Children, tries : Nat,
        loaded : State, known : [Nodes -> Int], cut : BOOLEAN]
Plan == [on : [Procs -> Machines], calls : [Procs -> SUBSET Commands],
         ready : SUBSET Machines, nodes : SUBSET Nodes, fresh : BOOLEAN,
         daily : Nodes, expires : BOOLEAN, commands : Nat, time : Nat]

Typed ==
    /\ vaults \subseteq Nodes /\ record \in [Nodes -> Children] /\ acked \in [Nodes -> Int]
    /\ reborn \in BOOLEAN /\ plan \in Plan /\ clock \in Nat
    /\ cmd \in [Procs -> Cmd]
    /\ disk \in [Machines -> State] /\ keys \in [Machines -> SUBSET Nodes]
    /\ kept \in [Machines -> SUBSET Nodes] /\ spoiled \in [Machines -> BOOLEAN]

\* What a command can be about.
Shape(c) ==
    /\ c.name = "add" => c.n # 1
    /\ c.name = "init" => c.st.held = {}
    /\ c.at \in {"create", "empty"} => c.name \in {"init", "add", "repair"}
    /\ c.at = "check" => c.name = "add"
    /\ c.at = "delete" => c.name = "rm"
    /\ c.name = "rm" /\ c.n = 1 => 1 \in c.loaded.held
    /\ c.at \in {"read", "write"} => /\ c.name \in {"add", "rm", "repair"}
                                     /\ c.name = "add" => c.target = Parent[c.n]

\* A record read from a vault that is still the same: its version tells
\* whether it has changed since.
Reads(c, vs, rec, again) ==
    c.at = "write" /\ ~again /\ c.target \in vs =>
        /\ c.read.ver <= rec[c.target].ver
        /\ c.read.ver = rec[c.target].ver => c.read.kids = rec[c.target].kids

\* A discovery has seen, or is going to see, what is listed below what it saw.
Explores(c, ack, again) ==
    c.at = "discover" =>
        /\ c.root \in c.found \cup c.queue /\ c.root \notin c.lost
        /\ \A n \in Nodes : c.known[n] > 0 => ack[n] >= c.known[n] \/ -ack[n] >= c.known[n]
        /\ ~again => \A n \in 2..N :
              Parent[n] \in c.found \ c.lost /\ c.known[n] > 0 /\ ack[n] = c.known[n] =>
                  n \in c.found \cup c.queue

\* The records: an addition stays listed, and an empty version lists nothing.
Records ==
    /\ AddedStaysListed
    /\ \A n \in Nodes : record[n].ver = 0 => record[n].kids = {}

\* The commands on machine m that run.
On(m) == {p \in Procs : Machine(p) = m /\ cmd[p].at # "idle"}

\* What a machine holds, while its commands run: a key that is gone from the
\* key store was taken by a removal that is under way.
Holds(m) ==
    ~spoiled[m] =>
        /\ kept[m] \subseteq disk[m].held
        /\ \A p \in On(m) : /\ kept[m] \subseteq cmd[p].st.held
                            /\ cmd[p].st.held \subseteq disk[m].held
                            /\ ~cmd[p].cut => cmd[p].st.held = disk[m].held
        /\ \A x \in disk[m].held \ keys[m] : \E p \in On(m) : cmd[p].cut /\ x \notin cmd[p].st.held

\* Until its project is made nothing is there, and an import finds nothing.
Fresh ==
    plan.fresh =>
        /\ vaults = {} /\ \A m \in Machines : disk[m].held = {}
        /\ \A p \in Procs : \/ cmd[p].at = "idle"
                            \/ /\ cmd[p].name = "import" /\ cmd[p].at = "discover"
                               /\ cmd[p].root \in cmd[p].queue

IInv ==
    /\ Typed /\ Records /\ Fresh
    /\ \A m \in Machines : Holds(m)
    /\ \A p \in Procs : /\ Shape(cmd[p]) /\ Reads(cmd[p], vaults, record, reborn)
                        /\ Explores(cmd[p], acked, reborn)

-----------------------------------------------------------------------------
(* The tree. *)

\* The nodes are numbers, and a node's parent is a smaller one.
LEMMA TreeDown ==
  /\ 1 \in Nodes /\ 2..N = Nodes \ {1} /\ Nodes \subseteq Nat
  /\ \A n \in Nodes \ {1} : Parent[n] \in Nodes /\ Parent[n] < n
BY EnvironmentsAssumption DEF Nodes

\* Up is the function its definition describes: the nodes in every set that
\* holds n and goes up with its members are such a function.
LEMMA UpWorks == \A n \in Nodes : Up[n] = {n} \cup (IF n = 1 THEN {} ELSE Up[Parent[n]])
<1> DEFINE Closed(S) == \A j \in S \ {1} : Parent[j] \in S
           F == [n \in Nodes |-> {k \in Nodes : \A S \in SUBSET Nodes : n \in S /\ Closed(S) => k \in S}]
<1>1. ASSUME NEW n \in Nodes PROVE F[n] = {n} \cup (IF n = 1 THEN {} ELSE F[Parent[n]])
  <2>1. CASE n = 1
    <3>1. Closed({1}) /\ {1} \in SUBSET Nodes
      BY TreeDown
    <3>2. \A k \in F[n] : k \in {1}
      BY <2>1, <3>1
    <3>3. 1 \in F[n]
      BY <2>1, TreeDown
    <3>4. F[n] = {1}
      <4> HIDE DEF F
      <4> QED BY <2>1, <3>2, <3>3
    <3> QED BY <2>1, <3>4
  <2>2. CASE n # 1
    <3>1. Parent[n] \in Nodes
      BY <2>2, TreeDown
    <3>2. ASSUME NEW k \in F[Parent[n]] PROVE k \in F[n]
      BY <2>2, <3>1
    <3>3. ASSUME NEW k \in F[n], k # n PROVE k \in F[Parent[n]]
      <4>1. SUFFICES ASSUME NEW S \in SUBSET Nodes, Parent[n] \in S, Closed(S) PROVE k \in S
        BY <3>1
      <4>2. Closed(S \cup {n}) /\ S \cup {n} \in SUBSET Nodes
        BY <2>2, <4>1
      <4>3. k \in S \cup {n}
        BY <4>2
      <4> QED BY <3>3, <4>3
    <3>4. n \in F[n]
      OBVIOUS
    <3>5. \A a, b : /\ \A k \in b : k \in a
                    /\ \A k \in a : k # n => k \in b
                    /\ n \in a
                    => a = {n} \cup b
      OBVIOUS
    <3>6. F[n] = {n} \cup F[Parent[n]]
      <4> HIDE DEF F
      <4> QED BY <3>2, <3>3, <3>4, <3>5
    <3> QED BY <2>2, <3>6
  <2> QED BY <2>1, <2>2
<1>2. F = [n \in Nodes |-> F[n]]
  OBVIOUS
<1> HIDE DEF F
<1>3. F = [n \in Nodes |-> {n} \cup (IF n = 1 THEN {} ELSE F[Parent[n]])]
  BY <1>1, <1>2
<1>4. Up = [n \in Nodes |-> {n} \cup (IF n = 1 THEN {} ELSE Up[Parent[n]])]
  BY <1>3 DEF Up
<1> QED BY <1>4

\* Above the project there is nothing.
LEMMA UpTop == Up[1] = {1}
BY UpWorks, TreeDown

-----------------------------------------------------------------------------
(* What a step may do to the server, and what is kept by any such step. *)

Moves ==
    /\ reborn => reborn'
    /\ \A k \in Nodes : acked'[k] \in {acked[k], Listed(acked[k]), Unlisted(acked[k])}
    /\ \A x \in Nodes :
          x \in vaults' /\ ~reborn' /\ (\E q \in Procs : cmd[q].at = "write" /\ cmd[q].target = x) =>
              /\ x \in vaults /\ record[x].ver <= record'[x].ver
              /\ record'[x] \in Children
              /\ record'[x].ver = record[x].ver => record'[x] = record[x]

\* The server is left alone.
LEMMA StillMoves == ASSUME Typed, UNCHANGED <<vaults, record, acked, reborn>> PROVE Moves
<1>1. \A x \in Nodes : record[x].ver <= record'[x].ver /\ record'[x] \in Children
  BY DEF Typed, Children
<1> QED BY <1>1 DEF Moves

\* A version that was read still tells whether the record has changed.
LEMMA ReadsKept ==
  ASSUME Typed, Moves, NEW q \in Procs, Reads(cmd[q], vaults, record, reborn)
  PROVE  Reads(cmd[q], vaults', record', reborn')
<1> SUFFICES ASSUME cmd[q].at = "write", ~reborn', cmd[q].target \in vaults'
             PROVE  /\ cmd[q].read.ver <= record'[cmd[q].target].ver
                    /\ cmd[q].read.ver = record'[cmd[q].target].ver =>
                          cmd[q].read.kids = record'[cmd[q].target].kids
  BY DEF Reads
<1> DEFINE x == cmd[q].target
<1>1. x \in Nodes /\ cmd[q].read.ver \in Nat
  BY DEF Typed, Cmd, Children
<1>2. /\ x \in vaults /\ record[x].ver <= record'[x].ver /\ record'[x] \in Children
      /\ record'[x].ver = record[x].ver => record'[x] = record[x]
  BY <1>1 DEF Moves
<1>3. ~reborn
  BY DEF Moves
<1>4. /\ cmd[q].read.ver <= record[x].ver
      /\ cmd[q].read.ver = record[x].ver => cmd[q].read.kids = record[x].kids
  BY <1>2, <1>3 DEF Reads
<1>5. record[x].ver \in Nat /\ record'[x].ver \in Nat
  BY <1>1, <1>2 DEF Typed, Children
<1>6. cmd[q].read.ver <= record'[x].ver
  BY <1>1, <1>2, <1>4, <1>5
<1>7. cmd[q].read.ver = record'[x].ver => record'[x].ver = record[x].ver
  BY <1>1, <1>2, <1>4, <1>5
<1> QED BY <1>2, <1>4, <1>6, <1>7

\* A discovery goes on knowing what it has seen.
LEMMA ExploresKept ==
  ASSUME Typed, Moves, NEW q \in Procs, Explores(cmd[q], acked, reborn)
  PROVE  Explores(cmd[q], acked', reborn')
<1> DEFINE c == cmd[q]
<1>1. \A n \in Nodes : acked[n] \in Int /\ c.known[n] \in Int
  BY DEF Typed, Cmd
<1>2. 2..N \subseteq Nodes
  BY EnvironmentsAssumption DEF Nodes
<1> SUFFICES ASSUME c.at = "discover" PROVE Explores(c, acked', reborn')
  BY DEF Explores
<1>3. \A n \in Nodes : c.known[n] > 0 => acked[n] >= c.known[n] \/ -acked[n] >= c.known[n]
  BY DEF Explores
<1> HIDE DEF c
<1>4. ASSUME NEW n \in Nodes, c.known[n] > 0
      PROVE  /\ acked'[n] >= c.known[n] \/ -acked'[n] >= c.known[n]
             /\ acked'[n] = c.known[n] => acked[n] = c.known[n]
  <2>1. acked'[n] \in {acked[n], Listed(acked[n]), Unlisted(acked[n])}
    BY DEF Moves
  <2>2. acked[n] >= c.known[n] \/ -acked[n] >= c.known[n]
    BY <1>3, <1>4
  <2> QED BY <1>1, <1>4, <2>1, <2>2 DEF Listed, Unlisted
<1>5. reborn => reborn'
  BY DEF Moves
<1> QED BY <1>2, <1>4, <1>5 DEF Explores, c

\* A step of process p: its command is c now, the others' are what they were.
LEMMA OthersKeep ==
  ASSUME IInv, Moves, NEW p \in Procs, NEW c \in Cmd, Step(p, c), Shape(c),
         Reads(c, vaults', record', reborn'), Explores(c, acked', reborn')
  PROVE  /\ cmd' \in [Procs -> Cmd]
         /\ \A q \in Procs : /\ Shape(cmd'[q]) /\ Reads(cmd'[q], vaults', record', reborn')
                             /\ Explores(cmd'[q], acked', reborn')
<1>1. Typed /\ cmd \in [Procs -> Cmd]
  BY DEF IInv, Typed
<1>2. cmd' \in [Procs -> Cmd] /\ cmd'[p] = c /\ \A q \in Procs \ {p} : cmd'[q] = cmd[q]
  BY <1>1 DEF Step
<1>3. \A q \in Procs : /\ Shape(cmd[q]) /\ Reads(cmd[q], vaults, record, reborn)
                       /\ Explores(cmd[q], acked, reborn)
  BY DEF IInv
<1>4. ASSUME NEW q \in Procs \ {p}
      PROVE  /\ Shape(cmd'[q]) /\ Reads(cmd'[q], vaults', record', reborn')
             /\ Explores(cmd'[q], acked', reborn')
  BY <1>1, <1>2, <1>3, ReadsKept, ExploresKept
<1> QED BY <1>2, <1>4

\* A command that has ended knows nothing.
LEMMA IdleKnows ==
  /\ NoCmd \in Cmd /\ Shape(NoCmd) /\ NoCmd.at = "idle"
  /\ \A vs, rec, again : Reads(NoCmd, vs, rec, again)
  /\ \A ack, again : Explores(NoCmd, ack, again)
<1>1. 1 \in Nodes /\ {} \subseteq Nodes
  BY EnvironmentsAssumption DEF Nodes
<1>2. Nothing \in State
  BY <1>1 DEF Nothing, State
<1>3. NoRecord \in Children
  BY DEF NoRecord, Children
<1>4. [n \in Nodes |-> 0] \in [Nodes -> Int]
  OBVIOUS
<1>5. NoCmd \in Cmd
  BY <1>1, <1>2, <1>3, <1>4 DEF NoCmd, Cmd, Labels, Commands
<1>6. NoCmd.at = "idle" /\ NoCmd.name = "ls"
  BY DEF NoCmd
<1> QED BY <1>5, <1>6 DEF Shape, Reads, Explores

-----------------------------------------------------------------------------
(* What the machines hold. *)

\* A command goes on without saving, and with what it held.
LEMMA HoldsQuiet ==
  ASSUME Typed, \A m \in Machines : Holds(m), NEW p \in Procs, NEW c \in Cmd, Step(p, c),
         cmd[p].at # "idle", c.at # "idle", c.st.held = cmd[p].st.held, c.cut = cmd[p].cut,
         UNCHANGED <<disk, keys, kept, spoiled>>, plan'.on = plan.on
  PROVE  \A m \in Machines : Holds(m)'
<1> SUFFICES ASSUME NEW m \in Machines PROVE Holds(m)'
  OBVIOUS
<1>1. cmd'[p] = c /\ \A q \in Procs \ {p} : cmd'[q] = cmd[q]
  BY DEF Step, Typed
<1>2. On(m)' = On(m)
  BY <1>1 DEF On, Machine
<1>3. On(m) \subseteq Procs
  BY DEF On
<1>4. \A q \in On(m) : cmd'[q].st.held = cmd[q].st.held /\ cmd'[q].cut = cmd[q].cut
  BY <1>1, <1>3
<1>5. Holds(m)
  OBVIOUS
<1> QED BY <1>2, <1>4, <1>5 DEF Holds

\* A command fails.
LEMMA HoldsFail ==
  ASSUME Typed, \A m \in Machines : Holds(m), NEW p \in Procs, Fail(p),
         UNCHANGED <<disk, keys, kept>>, plan'.on = plan.on
  PROVE  \A m \in Machines : Holds(m)'
<1> SUFFICES ASSUME NEW m \in Machines, ~spoiled'[m] PROVE Holds(m)'
  BY DEF Holds
<1>1. cmd'[p] = NoCmd /\ (\A q \in Procs \ {p} : cmd'[q] = cmd[q]) /\ NoCmd.at = "idle"
  BY IdleKnows DEF Step, Typed, Fail
<1>2. Machine(p) \in Machines /\ spoiled \in [Machines -> BOOLEAN]
  BY DEF Typed, Plan, Machine
<1>3. spoiled' = [spoiled EXCEPT ![Machine(p)] = @ \/ cmd[p].cut]
  BY DEF Fail
<1>4. ~spoiled[m] /\ (Machine(p) = m => ~cmd[p].cut)
  BY <1>2, <1>3
<1>5. On(m)' = On(m) \ {p} /\ On(m) \subseteq Procs
  BY <1>1 DEF On, Machine
<1>6. \A q \in On(m)' : q \in On(m) /\ cmd'[q] = cmd[q]
  BY <1>1, <1>5
<1>7. \A q \in On(m) : cmd[q].cut => q \in On(m)'
  BY <1>4, <1>5 DEF On
<1>8. Holds(m)
  OBVIOUS
<1> QED BY <1>4, <1>6, <1>7, <1>8 DEF Holds

\* A command saves, and what it adds to what it held is in the key store.
LEMMA HoldsSave ==
  ASSUME Typed, \A m \in Machines : Holds(m), NEW p \in Procs, cmd[p].at # "idle",
         NEW c \in Cmd, save(p, c), NEW A \in SUBSET Nodes, c.st.held = cmd[p].st.held \cup A,
         keys' = [keys EXCEPT ![Machine(p)] = @ \cup A],
         kept' = [kept EXCEPT ![Machine(p)] = @ \cup A], plan'.on = plan.on
  PROVE  \A m \in Machines : Holds(m)'
<1> SUFFICES ASSUME NEW m \in Machines, ~spoiled'[m] PROVE Holds(m)'
  BY DEF Holds
<1>1. cmd'[p] = NoCmd /\ (\A q \in Procs \ {p} : cmd'[q] = cmd[q]) /\ NoCmd.at = "idle"
  BY IdleKnows DEF Step, Typed, save
<1>2. /\ Machine(p) \in Machines /\ spoiled \in [Machines -> BOOLEAN]
      /\ disk \in [Machines -> State] /\ keys \in [Machines -> SUBSET Nodes]
      /\ kept \in [Machines -> SUBSET Nodes]
  BY DEF Typed, Plan, Machine
<1>3. /\ disk' = [disk EXCEPT ![Machine(p)] = c.st]
      /\ spoiled' = [spoiled EXCEPT ![Machine(p)] =
            @ \/ \E q \in Procs \ {p} : Machine(q) = Machine(p) /\ cmd[q].at # "idle"]
  BY DEF save
<1>4. Holds(m)
  OBVIOUS
<1>5. On(m)' = On(m) \ {p} /\ On(m) \subseteq Procs
  BY <1>1 DEF On, Machine
<1>6. CASE m # Machine(p)
  <2>1. /\ ~spoiled[m] /\ disk'[m] = disk[m] /\ keys'[m] = keys[m] /\ kept'[m] = kept[m]
    BY <1>2, <1>3, <1>6
  <2>2. On(m)' = On(m) /\ \A q \in On(m) : cmd'[q] = cmd[q]
    BY <1>1, <1>5, <1>6 DEF On
  <2> QED BY <1>4, <2>1, <2>2 DEF Holds
<1>7. CASE m = Machine(p)
  <2>1. /\ ~spoiled[m] /\ ~\E q \in Procs \ {p} : Machine(q) = Machine(p) /\ cmd[q].at # "idle"
    BY <1>2, <1>3, <1>7
  <2>2. On(m) = {p}
    BY <1>7, <2>1 DEF On
  <2>3. disk'[m] = c.st /\ keys'[m] = keys[m] \cup A /\ kept'[m] = kept[m] \cup A
    BY <1>2, <1>3, <1>7
  <2>4. /\ kept[m] \subseteq cmd[p].st.held /\ cmd[p].st.held \subseteq disk[m].held
        /\ \A x \in disk[m].held \ keys[m] : x \notin cmd[p].st.held
    BY <1>4, <2>1, <2>2 DEF Holds
  <2>5. On(m)' = {}
    BY <1>5, <2>2
  <2> QED BY <2>3, <2>4, <2>5 DEF Holds
<1> QED BY <1>6, <1>7

\* A command starts from what is on disk.
LEMMA HoldsStart ==
  ASSUME Typed, \A m \in Machines : Holds(m), NEW p \in Procs, NEW c \in Cmd, Step(p, c),
         cmd[p].at = "idle", c.st = disk[Machine(p)],
         UNCHANGED <<disk, keys, kept, spoiled>>, plan'.on = plan.on
  PROVE  \A m \in Machines : Holds(m)'
<1> SUFFICES ASSUME NEW m \in Machines PROVE Holds(m)'
  OBVIOUS
<1>1. cmd'[p] = c /\ \A q \in Procs \ {p} : cmd'[q] = cmd[q]
  BY DEF Step, Typed
<1>2. p \notin On(m) /\ On(m) \subseteq Procs
  BY DEF On
<1>3. \A q \in On(m)' : (q \in On(m) /\ cmd'[q] = cmd[q]) \/ (q = p /\ m = Machine(p) /\ cmd'[q] = c)
  BY <1>1 DEF On, Machine
<1>4. \A q \in On(m) : q \in On(m)' /\ cmd'[q] = cmd[q]
  BY <1>1, <1>2 DEF On, Machine
<1>5. Holds(m)
  OBVIOUS
<1> QED BY <1>3, <1>4, <1>5 DEF Holds

-----------------------------------------------------------------------------
(* The kinds of steps. *)

\* What a process does in a discovery that finds nothing.
Finding(c) == c.name = "import" /\ c.at = "discover" /\ c.root \in c.queue

\* A step of p that leaves everything but commands, machines and the plan
\* alone.
LEMMA LocalStep ==
  ASSUME IInv, NEW p \in Procs, NEW c \in Cmd, Step(p, c), Shape(c),
         Reads(c, vaults, record, reborn), Explores(c, acked, reborn),
         UNCHANGED <<vaults, record, acked, reborn>>, clock' \in Nat,
         plan' \in Plan, plan'.on = plan.on, plan'.fresh => plan.fresh,
         disk' \in [Machines -> State], keys' \in [Machines -> SUBSET Nodes],
         kept' \in [Machines -> SUBSET Nodes], spoiled' \in [Machines -> BOOLEAN],
         plan'.fresh => (c.at = "idle" \/ Finding(c)) /\ \A m \in Machines : disk'[m].held = {},
         \A m \in Machines : Holds(m)'
  PROVE  IInv'
<1>1. Typed
  BY DEF IInv
<1>2. Moves
  BY <1>1, StillMoves
<1>3. /\ cmd' \in [Procs -> Cmd]
      /\ \A q \in Procs : /\ Shape(cmd'[q]) /\ Reads(cmd'[q], vaults', record', reborn')
                          /\ Explores(cmd'[q], acked', reborn')
  BY <1>2, OthersKeep
<1>4. Typed'
  BY <1>1, <1>3 DEF Typed
<1>5. Records'
  BY DEF IInv, Records, AddedStaysListed
<1>6. Fresh'
  <2>1. SUFFICES ASSUME plan'.fresh
                 PROVE  /\ vaults' = {} /\ \A m \in Machines : disk'[m].held = {}
                        /\ \A q \in Procs : cmd'[q].at = "idle" \/ Finding(cmd'[q])
    BY DEF Fresh, Finding
  <2>2. vaults = {} /\ \A q \in Procs : cmd[q].at = "idle" \/ Finding(cmd[q])
    BY <2>1 DEF IInv, Fresh, Finding
  <2>3. cmd'[p] = c /\ \A q \in Procs \ {p} : cmd'[q] = cmd[q]
    BY <1>1 DEF Typed, Step
  <2> QED BY <2>1, <2>2, <2>3
<1> QED BY <1>3, <1>4, <1>5, <1>6 DEF IInv

\* A command goes on.
LEMMA GoesOn ==
  ASSUME IInv, NEW p \in Procs, NEW c \in Cmd, Step(p, c), Shape(c),
         Reads(c, vaults, record, reborn), Explores(c, acked, reborn),
         UNCHANGED <<vaults, record, acked, reborn, clock, disk, keys, kept, spoiled, plan>>,
         cmd[p].at # "idle", c.at # "idle", c.st.held = cmd[p].st.held, c.cut = cmd[p].cut,
         plan.fresh => Finding(c)
  PROVE  IInv'
<1>1. Typed /\ (\A m \in Machines : Holds(m)) /\ Fresh
  BY DEF IInv
<1>2. \A m \in Machines : Holds(m)'
  BY <1>1, HoldsQuiet
<1>3. plan.fresh => \A m \in Machines : disk[m].held = {}
  BY <1>1 DEF Fresh
<1>4. /\ clock \in Nat /\ plan \in Plan /\ disk \in [Machines -> State]
      /\ keys \in [Machines -> SUBSET Nodes]
      /\ kept \in [Machines -> SUBSET Nodes] /\ spoiled \in [Machines -> BOOLEAN]
  BY <1>1 DEF Typed
<1> QED BY <1>2, <1>3, <1>4, LocalStep

\* A command fails.
LEMMA Fails ==
  ASSUME IInv, NEW p \in Procs, Fail(p),
         UNCHANGED <<vaults, record, acked, reborn, clock, disk, keys, kept, plan>>
  PROVE  IInv'
<1>1. Typed /\ (\A m \in Machines : Holds(m)) /\ Fresh
  BY DEF IInv
<1>2. \A m \in Machines : Holds(m)'
  BY <1>1, HoldsFail
<1>3. plan.fresh => \A m \in Machines : disk[m].held = {}
  BY <1>1 DEF Fresh
<1>4. /\ clock \in Nat /\ plan \in Plan /\ disk \in [Machines -> State]
      /\ keys \in [Machines -> SUBSET Nodes] /\ kept \in [Machines -> SUBSET Nodes]
      /\ spoiled \in [Machines -> BOOLEAN]
  BY <1>1 DEF Typed
<1>5. Step(p, NoCmd) /\ spoiled' \in [Machines -> BOOLEAN]
  <2>1. cmd[p].cut \in BOOLEAN /\ Machine(p) \in Machines
    BY <1>1 DEF Typed, Cmd, Plan, Machine
  <2> QED BY <1>4, <2>1 DEF Fail
<1>6. /\ NoCmd \in Cmd /\ Shape(NoCmd) /\ NoCmd.at = "idle"
      /\ Reads(NoCmd, vaults, record, reborn) /\ Explores(NoCmd, acked, reborn)
  BY IdleKnows
<1> QED BY <1>2, <1>3, <1>4, <1>5, <1>6, LocalStep

\* A command ends: it saves what it held, and A of which it stored the keys.
LEMMA Saves ==
  ASSUME IInv, NEW p \in Procs, cmd[p].at # "idle", NEW c \in Cmd, save(p, c),
         NEW A \in SUBSET Nodes, c.st.held = cmd[p].st.held \cup A,
         keys' = [keys EXCEPT ![Machine(p)] = @ \cup A],
         kept' = [kept EXCEPT ![Machine(p)] = @ \cup A],
         UNCHANGED <<vaults, record, acked, reborn, clock, plan>>, ~plan.fresh
  PROVE  IInv'
<1>1. Typed /\ (\A m \in Machines : Holds(m)) /\ Fresh
  BY DEF IInv
<1>2. \A m \in Machines : Holds(m)'
  BY <1>1, HoldsSave
<1>3. /\ clock \in Nat /\ plan \in Plan /\ disk \in [Machines -> State]
      /\ keys \in [Machines -> SUBSET Nodes] /\ kept \in [Machines -> SUBSET Nodes]
      /\ spoiled \in [Machines -> BOOLEAN]
  BY <1>1 DEF Typed
<1>4. c.st \in State
  BY DEF Cmd
<1>5. /\ disk' \in [Machines -> State] /\ keys' \in [Machines -> SUBSET Nodes]
      /\ kept' \in [Machines -> SUBSET Nodes] /\ spoiled' \in [Machines -> BOOLEAN]
  BY <1>3, <1>4 DEF save
<1>6. Step(p, NoCmd)
  BY DEF save
<1>7. /\ NoCmd \in Cmd /\ Shape(NoCmd) /\ NoCmd.at = "idle"
      /\ Reads(NoCmd, vaults, record, reborn) /\ Explores(NoCmd, acked, reborn)
  BY IdleKnows
<1> QED BY <1>2, <1>3, <1>5, <1>6, <1>7, LocalStep

\* A command starts.
LEMMA Starts ==
  ASSUME IInv, NEW p \in Procs, NEW name \in Commands, NEW c \in Cmd, start(p, name, c), Shape(c),
         Reads(c, vaults, record, reborn), Explores(c, acked, reborn),
         c.st = disk[Machine(p)], plan.fresh /\ name # "init" => Finding(c)
  PROVE  IInv'
<1>1. Typed /\ (\A m \in Machines : Holds(m)) /\ Fresh
  BY DEF IInv
<1>2. /\ clock \in Nat /\ plan \in Plan /\ disk \in [Machines -> State]
      /\ keys \in [Machines -> SUBSET Nodes] /\ kept \in [Machines -> SUBSET Nodes]
      /\ spoiled \in [Machines -> BOOLEAN]
  BY <1>1 DEF Typed
<1>3. /\ UNCHANGED <<vaults, record, acked, reborn, clock, disk, keys, kept, spoiled>>
      /\ Step(p, c) /\ cmd[p].at = "idle" /\ plan.commands > 0
      /\ plan' = [plan EXCEPT !.commands = @ - 1, !.fresh = @ /\ name # "init"]
  BY DEF start, server, local, time, ghosts
<1>4. /\ plan' \in Plan /\ plan'.on = plan.on
      /\ plan'.fresh => plan.fresh /\ name # "init"
  <2>1. plan.commands - 1 \in Nat /\ plan.fresh \in BOOLEAN
    BY <1>2, <1>3 DEF Plan
  <2> QED BY <1>2, <1>3, <2>1 DEF Plan
<1>5. \A m \in Machines : Holds(m)'
  BY <1>1, <1>3, <1>4, HoldsStart
<1>6. plan.fresh => \A m \in Machines : disk[m].held = {}
  BY <1>1 DEF Fresh
<1> QED BY <1>2, <1>3, <1>4, <1>5, <1>6, LocalStep

-----------------------------------------------------------------------------
(* Commands start. *)

\* What a command begins with.
LEMMA Loads ==
  ASSUME Typed, NEW p \in Procs, NEW name \in Commands, NEW n \in Nodes
  PROVE  /\ load(p, name, n) \in Cmd /\ load(p, name, n).at = "idle"
         /\ load(p, name, n).name = name /\ load(p, name, n).n = n
         /\ load(p, name, n).st = disk[Machine(p)] /\ load(p, name, n).loaded = disk[Machine(p)]
<1>1. disk[Machine(p)] \in State
  BY DEF Typed, Machine, Plan
<1>2. NoCmd \in Cmd /\ NoCmd.at = "idle"
  BY IdleKnows
<1> QED BY <1>1, <1>2 DEF load, Cmd

\* A discovery that begins has seen nothing yet.
LEMMA Discovers ==
  ASSUME Typed, NEW c \in Cmd, NEW root \in Nodes, NEW roots \in SUBSET Nodes, NEW d,
         d = discover_from(c, root, roots)
  PROVE  /\ d \in Cmd /\ d.at = "discover" /\ d.root \in d.queue
         /\ d.name = c.name /\ d.n = c.n /\ d.st = c.st /\ d.cut = c.cut /\ d.loaded = c.loaded
         /\ Explores(d, acked, reborn)
<1>1. acked \in [Nodes -> Int] /\ {root} \in SUBSET Nodes /\ {} \in SUBSET Nodes
  BY DEF Typed
<1>2. /\ d \in Cmd /\ d.at = "discover" /\ d.root \in d.queue
      /\ d.name = c.name /\ d.n = c.n /\ d.st = c.st /\ d.cut = c.cut /\ d.loaded = c.loaded
  BY <1>1 DEF discover_from, Cmd, Labels
<1>3. d.known = acked /\ d.found = {} /\ d.lost = {}
  BY DEF discover_from, Cmd
<1>4. \A n \in Nodes : acked[n] >= acked[n]
  BY <1>1
<1> QED BY <1>2, <1>3, <1>4 DEF Explores

\* A chain starts at a key that is held, so not before there is a project.
LEMMA ChainHolds ==
  ASSUME IInv, NEW p \in Procs, NEW n \in Nodes, chain(p, disk[Machine(p)], n)
  PROVE  ~plan.fresh /\ (n = 1 => 1 \in disk[Machine(p)].held)
<1>1. disk[Machine(p)].held \cap Up[n] # {}
  BY DEF chain
<1>2. Machine(p) \in Machines
  BY DEF IInv, Typed, Plan, Machine
<1>3. ~plan.fresh
  BY <1>1, <1>2 DEF IInv, Fresh
<1>4. n = 1 => 1 \in disk[Machine(p)].held
  BY <1>1, UpTop
<1> QED BY <1>3, <1>4

\* A new project is begun: nothing is held before it.
LEMMA KeepsBeginInit ==
  ASSUME IInv, NEW p \in Procs, begin_init(p) PROVE IInv'
<1> DEFINE c == load(p, "init", 1)
           d == [c EXCEPT !.at = "create"]
<1>1. /\ plan.fresh /\ start(p, "init", d)
  BY DEF begin_init
<1>2. "init" \in Commands /\ 1 \in Nodes /\ Typed
  BY TreeDown DEF Commands, IInv
<1>3. /\ c \in Cmd /\ c.name = "init" /\ c.st = disk[Machine(p)]
  BY <1>2, Loads
<1>4. disk[Machine(p)].held = {}
  <2>1. Machine(p) \in Machines
    BY DEF IInv, Typed, Plan, Machine
  <2> QED BY <1>1, <2>1 DEF IInv, Fresh
<1> HIDE DEF c
<1>5. d \in Cmd /\ d.at = "create" /\ d.name = "init" /\ d.st = disk[Machine(p)]
  BY <1>3 DEF Cmd, Labels
<1> HIDE DEF d
<1>6. Shape(d) /\ Reads(d, vaults, record, reborn) /\ Explores(d, acked, reborn)
  BY <1>4, <1>5 DEF Shape, Reads, Explores
<1> QED BY <1>1, <1>2, <1>5, <1>6, Starts

\* An addition begins.
LEMMA KeepsEnvAdd ==
  ASSUME IInv, NEW p \in Procs, NEW n \in Nodes, env_add(p, n) PROVE IInv'
<1> DEFINE c == load(p, "add", n)
           d == [c EXCEPT !.at = "alive", !.todo = ancestors(c.st, Parent[n])]
<1>1. n # 1 /\ chain(p, c.st, Parent[n]) /\ start(p, "add", d)
  BY DEF env_add
<1>2. "add" \in Commands /\ Typed /\ Parent[n] \in Nodes
  BY <1>1, TreeDown DEF Commands, IInv
<1>3. /\ c \in Cmd /\ c.name = "add" /\ c.st = disk[Machine(p)] /\ c.n = n
  BY <1>2, Loads
<1>4. ~plan.fresh
  BY <1>1, <1>2, <1>3, ChainHolds
<1>5. ancestors(c.st, Parent[n]) \in SUBSET Nodes
  BY DEF ancestors, Below
<1> HIDE DEF c
<1>6. d \in Cmd /\ d.at = "alive" /\ d.name = "add" /\ d.st = disk[Machine(p)] /\ d.n = n
  BY <1>3, <1>5 DEF Cmd, Labels
<1> HIDE DEF d
<1>7. Shape(d) /\ Reads(d, vaults, record, reborn) /\ Explores(d, acked, reborn)
  BY <1>1, <1>6 DEF Shape, Reads, Explores
<1> QED BY <1>1, <1>2, <1>4, <1>6, <1>7, Starts

\* A removal begins; the project is removed only where it is held.
LEMMA KeepsEnvRemove ==
  ASSUME IInv, NEW p \in Procs, NEW n \in Nodes, NEW r \in BOOLEAN, env_remove(p, n, r)
  PROVE  IInv'
<1> DEFINE l == load(p, "rm", n)
           c == [l EXCEPT !.recursive = r]
           d == discover_from(c, n, {})
<1>1. chain(p, c.st, n) /\ start(p, "rm", d)
  BY DEF env_remove
<1>2. "rm" \in Commands /\ Typed /\ {} \in SUBSET Nodes
  BY DEF Commands, IInv
<1>3. /\ l \in Cmd /\ l.name = "rm" /\ l.st = disk[Machine(p)] /\ l.n = n
      /\ l.loaded = disk[Machine(p)]
  BY <1>2, Loads
<1> HIDE DEF l
<1>4. /\ c \in Cmd /\ c.name = "rm" /\ c.st = disk[Machine(p)] /\ c.n = n
      /\ c.loaded = disk[Machine(p)]
  BY <1>3 DEF Cmd
<1> HIDE DEF c
<1>5. ~plan.fresh /\ (n = 1 => 1 \in disk[Machine(p)].held)
  BY <1>1, <1>4, ChainHolds
<1>6. /\ d \in Cmd /\ d.at = "discover" /\ d.name = "rm" /\ d.st = disk[Machine(p)] /\ d.n = n
      /\ d.loaded = disk[Machine(p)] /\ Explores(d, acked, reborn)
  BY <1>2, <1>4, Discovers
<1> HIDE DEF d
<1>7. Shape(d) /\ Reads(d, vaults, record, reborn)
  BY <1>5, <1>6 DEF Shape, Reads
<1> QED BY <1>1, <1>2, <1>5, <1>6, <1>7, Starts

\* A repair begins.
LEMMA KeepsEnvRepair ==
  ASSUME IInv, NEW p \in Procs, NEW n \in Nodes, env_repair(p, n) PROVE IInv'
<1> DEFINE c == load(p, "repair", n)
           d == [c EXCEPT !.at = "create"]
<1>1. chain(p, c.st, n) /\ start(p, "repair", d)
  BY DEF env_repair
<1>2. "repair" \in Commands /\ Typed
  BY DEF Commands, IInv
<1>3. /\ c \in Cmd /\ c.name = "repair" /\ c.st = disk[Machine(p)] /\ c.n = n
  BY <1>2, Loads
<1> HIDE DEF c
<1>4. ~plan.fresh
  BY <1>1, <1>3, ChainHolds
<1>5. d \in Cmd /\ d.at = "create" /\ d.name = "repair" /\ d.st = disk[Machine(p)] /\ d.n = n
  BY <1>3 DEF Cmd, Labels
<1> HIDE DEF d
<1>6. Shape(d) /\ Reads(d, vaults, record, reborn) /\ Explores(d, acked, reborn)
  BY <1>5 DEF Shape, Reads, Explores
<1> QED BY <1>1, <1>2, <1>4, <1>5, <1>6, Starts

\* A listing begins.
LEMMA KeepsRefresh ==
  ASSUME IInv, NEW p \in Procs, NEW root \in Nodes, refresh(p, root) PROVE IInv'
<1> DEFINE c == load(p, "ls", 1)
           roots == c.st.held \ {root}
           d == discover_from(c, root, roots)
<1>1. root \in c.st.held /\ start(p, "ls", d)
  BY DEF refresh
<1>2. "ls" \in Commands /\ Typed /\ 1 \in Nodes
  BY TreeDown DEF Commands, IInv
<1>3. /\ c \in Cmd /\ c.name = "ls" /\ c.st = disk[Machine(p)]
  BY <1>2, Loads
<1> HIDE DEF c
<1>4. ~plan.fresh
  <2>1. Machine(p) \in Machines
    BY DEF IInv, Typed, Plan, Machine
  <2> QED BY <1>1, <1>3, <2>1 DEF IInv, Fresh
<1>5. roots \in SUBSET Nodes
  BY <1>3 DEF Cmd, State
<1> HIDE DEF roots
<1>6. /\ d \in Cmd /\ d.at = "discover" /\ d.name = "ls" /\ d.st = disk[Machine(p)]
      /\ Explores(d, acked, reborn)
  BY <1>2, <1>3, <1>5, Discovers
<1> HIDE DEF d
<1>7. Shape(d) /\ Reads(d, vaults, record, reborn)
  BY <1>6 DEF Shape, Reads
<1> QED BY <1>1, <1>2, <1>4, <1>6, <1>7, Starts

\* An import begins: the one command that may, before there is a project.
LEMMA KeepsImport ==
  ASSUME IInv, NEW p \in Procs, NEW n \in Nodes, import(p, n) PROVE IInv'
<1> DEFINE c == load(p, "import", n)
           d == discover_from(c, n, {})
<1>1. start(p, "import", d)
  BY DEF import
<1>2. "import" \in Commands /\ Typed /\ {} \in SUBSET Nodes
  BY DEF Commands, IInv
<1>3. /\ c \in Cmd /\ c.name = "import" /\ c.st = disk[Machine(p)]
  BY <1>2, Loads
<1> HIDE DEF c
<1>4. /\ d \in Cmd /\ d.at = "discover" /\ d.name = "import" /\ d.st = disk[Machine(p)]
      /\ Explores(d, acked, reborn) /\ d.root \in d.queue
  BY <1>2, <1>3, Discovers
<1> HIDE DEF d
<1>5. Shape(d) /\ Reads(d, vaults, record, reborn) /\ Finding(d)
  BY <1>4 DEF Shape, Reads, Finding
<1> QED BY <1>1, <1>2, <1>4, <1>5, Starts

\* A use of an environment begins.
LEMMA KeepsUse ==
  ASSUME IInv, NEW p \in Procs, NEW n \in Nodes, use(p, n) PROVE IInv'
<1> DEFINE c == load(p, "use", n)
           d == [c EXCEPT !.at = "open"]
<1>1. chain(p, c.st, n) /\ start(p, "use", d)
  BY DEF use
<1>2. "use" \in Commands /\ Typed
  BY DEF Commands, IInv
<1>3. /\ c \in Cmd /\ c.name = "use" /\ c.st = disk[Machine(p)] /\ c.n = n
  BY <1>2, Loads
<1> HIDE DEF c
<1>4. ~plan.fresh
  BY <1>1, <1>3, ChainHolds
<1>5. d \in Cmd /\ d.at = "open" /\ d.name = "use" /\ d.st = disk[Machine(p)] /\ d.n = n
  BY <1>3 DEF Cmd, Labels
<1> HIDE DEF d
<1>6. Shape(d) /\ Reads(d, vaults, record, reborn) /\ Explores(d, acked, reborn)
  BY <1>5 DEF Shape, Reads, Explores
<1> QED BY <1>1, <1>2, <1>4, <1>5, <1>6, Starts

-----------------------------------------------------------------------------
(* Requests that change nothing on the server but a time. *)

\* A set of natural numbers has a least one.
LEMMA LeastNat ==
  ASSUME NEW T \in SUBSET Nat, T # {}
  PROVE  \E x \in T : \A y \in T : x <= y
<1> DEFINE R == OpToRel(<, Nat)
<1>1. IsWellFoundedOn(R, Nat)
  BY NatLessThanWellFounded
<1>2. \A x, y \in Nat : x < y => <<x, y>> \in R
  BY DEF OpToRel
<1> HIDE DEF R
<1>3. PICK x \in T : \A y \in T : <<y, x>> \notin R
  BY <1>1, WFMin
<1>4. ASSUME NEW y \in T PROVE x <= y
  <2>1. x \in Nat /\ y \in Nat /\ <<y, x>> \notin R
    BY <1>3
  <2>2. ~(y < x)
    BY <1>2, <2>1
  <2> QED BY <2>1, <2>2
<1> QED BY <1>4

\* What is known of a command that runs; only an import runs before the
\* project is made.
LEMMA Runs ==
  ASSUME IInv, NEW p \in Procs, cmd[p].at # "idle"
  PROVE  /\ Typed /\ cmd[p] \in Cmd /\ Shape(cmd[p]) /\ Reads(cmd[p], vaults, record, reborn)
         /\ Explores(cmd[p], acked, reborn)
         /\ plan.fresh => Finding(cmd[p])
BY DEF IInv, Typed, Fresh, Finding

\* The state a command holds, after a node was touched.
Touched(s, n, now, never) == [s EXCEPT !.touched[n] = now, !.no_expiry = never]

\* It holds the same keys.
LEMMA TouchedHolds ==
  ASSUME NEW s \in State, NEW n \in Nodes, NEW now \in Nat, NEW never \in SUBSET Nodes
  PROVE  Touched(s, n, now, never) \in State /\ Touched(s, n, now, never).held = s.held
<1>1. s.touched \in [Nodes -> Int] /\ now \in Int
  BY DEF State
<1>2. [s.touched EXCEPT ![n] = now] \in [Nodes -> Int]
  BY <1>1
<1> QED BY <1>2 DEF Touched, State

\* A use of an environment opens its vault.
LEMMA KeepsOpenOwner ==
  ASSUME IInv, NEW p \in Procs, open_owner(p) PROVE IInv'
<1> DEFINE c == cmd[p]
           line == Up[c.n] \cap Below(held_root_for(c.st, c.n))
           st == [c.st EXCEPT !.touched[c.n] = clock,
                              !.no_expiry = IF expires THEN @ \ line ELSE @ \cup line]
           todo == IF expires THEN line \ {c.n} ELSE {}
           d == [c EXCEPT !.at = "alive", !.st = st, !.todo = todo]
<1>1. /\ c.at = "open"
      /\ Fail(p) \/ (Step(p, d) /\ UNCHANGED spoiled)
      /\ UNCHANGED <<vaults, record, acked, reborn, clock, disk, keys, kept, plan>>
  BY DEF open_owner, server, local
<1>2. /\ Typed /\ c \in Cmd /\ Shape(c) /\ ~plan.fresh
  BY <1>1, Runs DEF Finding
<1>3. line \in SUBSET Nodes /\ todo \in SUBSET Nodes
  BY DEF Below
<1>4. clock \in Nat /\ c.st \in State
  BY <1>2 DEF Typed, Cmd
<1> DEFINE gone == IF expires THEN c.st.no_expiry \ line ELSE c.st.no_expiry \cup line
<1>4a. gone \in SUBSET Nodes /\ st = Touched(c.st, c.n, clock, gone) /\ c.n \in Nodes
  BY <1>2, <1>3, <1>4 DEF State, Touched, Cmd
<1> HIDE DEF line, todo, c, gone, st
<1>5. st \in State /\ st.held = c.st.held
  BY <1>4, <1>4a, TouchedHolds
<1> HIDE DEF st
<1>6. /\ d \in Cmd /\ d.at = "alive" /\ d.name = c.name /\ d.n = c.n /\ d.loaded = c.loaded
      /\ d.st.held = c.st.held /\ d.cut = c.cut
  BY <1>2, <1>3, <1>5 DEF Cmd, Labels
<1> HIDE DEF d
<1>7. Shape(d) /\ Reads(d, vaults, record, reborn) /\ Explores(d, acked, reborn)
  BY <1>2, <1>6 DEF Shape, Reads, Explores
<1>8. CASE Fail(p)
  BY <1>1, <1>8, Fails
<1>9. CASE Step(p, d) /\ UNCHANGED spoiled
  BY <1>1, <1>2, <1>6, <1>7, <1>9, GoesOn DEF c
<1> QED BY <1>1, <1>8, <1>9

\* A command keeps a node above its own alive.
LEMMA KeepsKeepAlive ==
  ASSUME IInv, NEW p \in Procs, keep_alive(p) PROVE IInv'
<1> DEFINE c == cmd[p]
           x == Min(c.todo)
           e == [c EXCEPT !.todo = @ \ {x}]
           f == [e EXCEPT !.st.touched[x] = clock,
                          !.st.no_expiry = IF expires THEN @ ELSE @ \cup {x}]
<1>1. /\ c.at = "alive" /\ c.todo # {}
      /\ Step(p, e) \/ Step(p, f)
      /\ UNCHANGED <<vaults, record, acked, reborn, clock, disk, keys, kept, spoiled, plan>>
  BY DEF keep_alive, server, local, ghosts
<1>2. /\ Typed /\ c \in Cmd /\ Shape(c) /\ ~plan.fresh
  BY <1>1, Runs DEF Finding
<1>3. x \in Nodes
  <2>1. c.todo \subseteq Nodes /\ c.todo \in SUBSET Nat
    BY <1>2, TreeDown DEF Cmd
  <2>2. \E y \in c.todo : \A z \in c.todo : y <= z
    BY <1>1, <2>1, LeastNat
  <2>3. x \in c.todo
    BY <2>2 DEF Min
  <2> QED BY <2>1, <2>3
<1>4. clock \in Nat /\ c.st \in State
  BY <1>2 DEF Typed, Cmd
<1> HIDE DEF x, c
<1>5. /\ e \in Cmd /\ e.at = c.at /\ e.name = c.name /\ e.n = c.n /\ e.loaded = c.loaded
      /\ e.st = c.st /\ e.cut = c.cut
  BY <1>2 DEF Cmd
<1> HIDE DEF e
<1> DEFINE never == IF expires THEN c.st.no_expiry ELSE c.st.no_expiry \cup {x}
           st == Touched(c.st, x, clock, never)
<1>5a. never \in SUBSET Nodes
  BY <1>3, <1>4 DEF State
<1>5b. f = [e EXCEPT !.st = st]
  BY <1>4, <1>5 DEF Cmd, State, Touched
<1> HIDE DEF never
<1>5c. st \in State /\ st.held = c.st.held
  BY <1>3, <1>4, <1>5a, TouchedHolds
<1> HIDE DEF st, f
<1>6. /\ f \in Cmd /\ f.at = c.at /\ f.name = c.name /\ f.n = c.n /\ f.loaded = c.loaded
      /\ f.st.held = c.st.held /\ f.cut = c.cut
  BY <1>5, <1>5b, <1>5c DEF Cmd
<1> HIDE DEF f
<1>7. /\ Shape(e) /\ Reads(e, vaults, record, reborn) /\ Explores(e, acked, reborn)
      /\ Shape(f) /\ Reads(f, vaults, record, reborn) /\ Explores(f, acked, reborn)
  BY <1>1, <1>2, <1>5, <1>6 DEF Shape, Reads, Explores
<1>8. CASE Step(p, e)
  BY <1>1, <1>2, <1>5, <1>7, <1>8, GoesOn DEF c
<1>9. CASE Step(p, f)
  BY <1>1, <1>2, <1>6, <1>7, <1>9, GoesOn DEF c
<1> QED BY <1>1, <1>8, <1>9

\* The nodes above are alive.
LEMMA KeepsKeptAlive ==
  ASSUME IInv, NEW p \in Procs, kept_alive(p) PROVE IInv'
<1> DEFINE c == cmd[p]
           d == [c EXCEPT !.at = IF c.name = "add" THEN "check" ELSE "save"]
<1>1. /\ c.at = "alive" /\ Step(p, d)
      /\ UNCHANGED <<vaults, record, acked, reborn, clock, disk, keys, kept, spoiled, plan>>
  BY DEF kept_alive, server, local, ghosts, time
<1>2. /\ Typed /\ c \in Cmd /\ Shape(c) /\ ~plan.fresh
  BY <1>1, Runs DEF Finding
<1> HIDE DEF c
<1>3. /\ d \in Cmd /\ d.at \in {"check", "save"} /\ (d.at = "check" => c.name = "add")
      /\ d.name = c.name /\ d.n = c.n /\ d.loaded = c.loaded /\ d.st = c.st /\ d.cut = c.cut
  BY <1>2 DEF Cmd, Labels
<1> HIDE DEF d
<1>4. Shape(d) /\ Reads(d, vaults, record, reborn) /\ Explores(d, acked, reborn)
  BY <1>2, <1>3 DEF Shape, Reads, Explores
<1> QED BY <1>1, <1>2, <1>3, <1>4, GoesOn DEF c

\* An addition looks at the parent.
LEMMA KeepsCheck ==
  ASSUME IInv, NEW p \in Procs, check(p) PROVE IInv'
<1> DEFINE c == cmd[p]
           d == [c EXCEPT !.at = "create"]
<1>1. /\ c.at = "check"
      /\ Fail(p) \/ (Step(p, d) /\ UNCHANGED spoiled)
      /\ UNCHANGED <<vaults, record, acked, reborn, clock, disk, keys, kept, plan>>
  BY DEF check, server, local
<1>2. /\ Typed /\ c \in Cmd /\ Shape(c) /\ ~plan.fresh
  BY <1>1, Runs DEF Finding
<1> HIDE DEF c
<1>3. /\ d \in Cmd /\ d.at = "create" /\ d.name = c.name /\ d.n = c.n /\ d.loaded = c.loaded
      /\ d.st = c.st /\ d.cut = c.cut
  BY <1>2 DEF Cmd, Labels
<1> HIDE DEF d
<1>4. Shape(d) /\ Reads(d, vaults, record, reborn) /\ Explores(d, acked, reborn)
  BY <1>1, <1>2, <1>3 DEF Shape, Reads, Explores
<1>5. CASE Fail(p)
  BY <1>1, <1>5, Fails
<1>6. CASE Step(p, d) /\ UNCHANGED spoiled
  BY <1>1, <1>2, <1>3, <1>4, <1>6, GoesOn DEF c
<1> QED BY <1>1, <1>5, <1>6

\* A record is read, to be changed.
LEMMA KeepsChildren ==
  ASSUME IInv, NEW p \in Procs, children(p) PROVE IInv'
<1> DEFINE c == cmd[p]
           d == [c EXCEPT !.at = "write", !.read = record[c.target]]
<1>1. /\ c.at = "read"
      /\ Fail(p) \/ (Step(p, d) /\ UNCHANGED spoiled)
      /\ UNCHANGED <<vaults, record, acked, reborn, clock, disk, keys, kept, plan>>
  BY DEF children, server, local
<1>2. /\ Typed /\ c \in Cmd /\ Shape(c) /\ ~plan.fresh
  BY <1>1, Runs DEF Finding
<1>3. record[c.target] \in Children /\ record[c.target].ver \in Nat
  BY <1>2 DEF Typed, Cmd, Children
<1> HIDE DEF c
<1>4. /\ d \in Cmd /\ d.at = "write" /\ d.name = c.name /\ d.n = c.n /\ d.loaded = c.loaded
      /\ d.st = c.st /\ d.cut = c.cut /\ d.target = c.target /\ d.read = record[c.target]
  BY <1>2, <1>3 DEF Cmd, Labels
<1> HIDE DEF d
<1>5. Shape(d)
  BY <1>1, <1>2, <1>4 DEF Shape
<1>6. Reads(d, vaults, record, reborn) /\ Explores(d, acked, reborn)
  BY <1>3, <1>4 DEF Reads, Explores
<1>7. CASE Fail(p)
  BY <1>1, <1>7, Fails
<1>8. CASE Step(p, d) /\ UNCHANGED spoiled
  BY <1>1, <1>2, <1>4, <1>5, <1>6, <1>8, GoesOn DEF c
<1> QED BY <1>1, <1>7, <1>8

\* A process stops.
LEMMA KeepsInterrupt ==
  ASSUME IInv, NEW p \in Procs, interrupt(p) PROVE IInv'
<1>1. Fail(p) /\ UNCHANGED <<vaults, record, acked, reborn, clock, disk, keys, kept, plan>>
  BY DEF interrupt, server, local, time
<1> QED BY <1>1, Fails

\* A command that has nothing more to do ends.
LEMMA KeepsSaves ==
  ASSUME IInv, NEW p \in Procs, saves(p) PROVE IInv'
<1>1. /\ cmd[p].at = "save" /\ save(p, cmd[p])
      /\ UNCHANGED <<vaults, record, acked, reborn, clock, keys, kept, plan>>
  BY DEF saves, server
<1>2. /\ Typed /\ cmd[p] \in Cmd /\ ~plan.fresh
  BY <1>1, Runs DEF Finding
<1>3. keys' = [keys EXCEPT ![Machine(p)] = @ \cup {}] /\ kept' = [kept EXCEPT ![Machine(p)] = @ \cup {}]
  BY <1>1, <1>2 DEF Typed
<1>4. {} \in SUBSET Nodes /\ cmd[p].st.held = cmd[p].st.held \cup {} /\ cmd[p].at # "idle"
  BY <1>1
<1> QED BY <1>1, <1>2, <1>3, <1>4, Saves

-----------------------------------------------------------------------------
(* Requests that change a vault or its record. *)

\* A step of p that changes the server as Moves allows.
LEMMA ServerStep ==
  ASSUME IInv, NEW p \in Procs, NEW c \in Cmd, Step(p, c), Shape(c),
         Reads(c, vaults', record', reborn'), Explores(c, acked', reborn'), Moves,
         vaults' \subseteq Nodes, record' \in [Nodes -> Children], acked' \in [Nodes -> Int],
         reborn' \in BOOLEAN, UNCHANGED <<clock, plan>>, ~plan.fresh,
         disk' \in [Machines -> State], keys' \in [Machines -> SUBSET Nodes],
         kept' \in [Machines -> SUBSET Nodes], spoiled' \in [Machines -> BOOLEAN],
         Records', \A m \in Machines : Holds(m)'
  PROVE  IInv'
<1>1. /\ cmd' \in [Procs -> Cmd]
      /\ \A q \in Procs : /\ Shape(cmd'[q]) /\ Reads(cmd'[q], vaults', record', reborn')
                          /\ Explores(cmd'[q], acked', reborn')
  BY OthersKeep
<1>2. clock \in Nat /\ plan \in Plan
  BY DEF IInv, Typed
<1>3. Typed'
  BY <1>1, <1>2 DEF Typed
<1>4. Fresh'
  BY DEF Fresh
<1> QED BY <1>1, <1>3, <1>4 DEF IInv

\* A command goes on to change the record of t.
LEMMA Updates ==
  ASSUME NEW c \in Cmd, Shape(c), c.name \in {"add", "rm", "repair"}, NEW t \in Nodes,
         c.name = "add" => t = Parent[c.n], NEW u, u = update_children(c, t)
  PROVE  /\ u \in Cmd /\ u.at = "read" /\ u.st = c.st /\ u.cut = c.cut /\ Shape(u)
         /\ \A vs, rec, again : Reads(u, vs, rec, again)
         /\ \A ack, again : Explores(u, ack, again)
<1>1. /\ u \in Cmd /\ u.at = "read" /\ u.st = c.st /\ u.cut = c.cut /\ u.name = c.name
      /\ u.n = c.n /\ u.loaded = c.loaded /\ u.target = t
  BY DEF update_children, Cmd, Labels
<1>2. Shape(u)
  BY <1>1 DEF Shape
<1> QED BY <1>1, <1>2 DEF Reads, Explores

\* Of the commands that make a vault, an addition changes the parent's record
\* and a repair the vault's own.
LEMMA UpdatesAfterCreate ==
  ASSUME IInv, NEW p \in Procs, cmd[p].at \in {"create", "empty"}, cmd[p].name # "init", NEW u,
         u = update_children(cmd[p], IF cmd[p].name = "add" THEN Parent[cmd[p].n] ELSE cmd[p].n)
  PROVE  /\ u \in Cmd /\ u.at = "read" /\ u.st = cmd[p].st /\ u.cut = cmd[p].cut /\ Shape(u)
         /\ \A vs, rec, again : Reads(u, vs, rec, again)
         /\ \A ack, again : Explores(u, ack, again)
<1> DEFINE c == cmd[p]
           t == IF c.name = "add" THEN Parent[c.n] ELSE c.n
<1>1. c \in Cmd /\ Shape(c)
  BY Runs
<1>2. c.name \in {"add", "repair"} /\ c.n \in Nodes /\ (c.name = "add" => c.n # 1)
  BY <1>1 DEF Shape, Cmd
<1>3. t \in Nodes /\ (c.name = "add" => t = Parent[c.n]) /\ u = update_children(c, t)
  BY <1>2, TreeDown
<1> HIDE DEF c, t
<1>4. /\ u \in Cmd /\ u.at = "read" /\ u.st = c.st /\ u.cut = c.cut /\ Shape(u)
      /\ \A vs, rec, again : Reads(u, vs, rec, again)
      /\ \A ack, again : Explores(u, ack, again)
  BY <1>1, <1>2, <1>3, Updates
<1> QED BY <1>4 DEF c

\* A vault is made: whoever was about to write to one that was there before
\* is told by `reborn`.
LEMMA KeepsCreate ==
  ASSUME IInv, NEW p \in Procs, create(p) PROVE IInv'
<1> DEFINE c == cmd[p]
           d == [c EXCEPT !.at = "empty"]
           u == update_children(c, IF c.name = "add" THEN Parent[c.n] ELSE c.n)
<1>1. /\ c.at = "create" /\ UNCHANGED <<clock, plan, disk, keys, kept, acked>>
  BY DEF create, local
<1>2. /\ Typed /\ c \in Cmd /\ Shape(c) /\ ~plan.fresh
  BY <1>1, Runs DEF Finding
<1>3. CASE c.n \notin vaults
  <2>1. /\ vaults' = vaults \cup {c.n}
        /\ record' = [record EXCEPT ![c.n] = NoRecord]
        /\ reborn' = (reborn \/ \E q \in Procs : cmd[q].at = "write" /\ cmd[q].target = c.n)
        /\ Step(p, d) /\ UNCHANGED spoiled
    BY <1>3 DEF create
  <2>2. c.n \in Nodes /\ vaults \subseteq Nodes /\ record \in [Nodes -> Children] /\ reborn \in BOOLEAN
    BY <1>2 DEF Typed, Cmd
  <2>3. NoRecord \in Children /\ NoRecord.kids = {}
    BY DEF NoRecord, Children
  <2> HIDE DEF c
  <2>4. /\ d \in Cmd /\ d.at = "empty" /\ d.name = c.name /\ d.n = c.n /\ d.loaded = c.loaded
        /\ d.st = c.st /\ d.cut = c.cut
    BY <1>2 DEF Cmd, Labels
  <2> HIDE DEF d
  <2>5. Shape(d) /\ Reads(d, vaults', record', reborn') /\ Explores(d, acked', reborn')
    BY <1>1, <1>2, <2>4 DEF Shape, Reads, Explores
  <2>6. /\ vaults' \subseteq Nodes /\ record' \in [Nodes -> Children] /\ reborn' \in BOOLEAN
        /\ record'[c.n] = NoRecord /\ \A x \in Nodes \ {c.n} : record'[x] = record[x]
    BY <2>1, <2>2, <2>3
  <2>7. Moves
    <3>1. \A x \in Nodes : record[x].ver <= record[x].ver
      BY <2>2 DEF Children
    <3> QED BY <1>1, <2>1, <2>2, <2>6, <3>1 DEF Moves
  <2>8. Records'
    <3>1. AddedStaysListed /\ \A n \in Nodes : record[n].ver = 0 => record[n].kids = {}
      BY DEF IInv, Records
    <3>2. \A n \in 2..N : Parent[n] \in Nodes
      BY TreeDown
    <3>3. AddedStaysListed'
      BY <1>1, <1>3, <2>1, <2>6, <3>1, <3>2 DEF AddedStaysListed
    <3> QED BY <2>3, <2>6, <3>1, <3>3 DEF Records
  <2>9. \A m \in Machines : Holds(m)'
    BY <1>1, <1>2, <2>1, <2>4, HoldsQuiet DEF IInv, c
  <2>10. /\ acked' \in [Nodes -> Int] /\ disk' \in [Machines -> State]
         /\ keys' \in [Machines -> SUBSET Nodes]
         /\ kept' \in [Machines -> SUBSET Nodes] /\ spoiled' \in [Machines -> BOOLEAN]
    BY <1>1, <1>2, <2>1 DEF Typed
  <2> QED BY <1>1, <1>2, <2>1, <2>4, <2>5, <2>6, <2>7, <2>8, <2>9, <2>10, ServerStep
<1>4. CASE c.n \in vaults
  <2>1. /\ UNCHANGED <<vaults, record, reborn>>
        /\ Fail(p) \/ (c.name # "init" /\ Step(p, u) /\ UNCHANGED spoiled)
    BY <1>4 DEF create, server
  <2>2. CASE Fail(p)
    BY <1>1, <2>1, <2>2, Fails
  <2>3. CASE c.name # "init" /\ Step(p, u) /\ UNCHANGED spoiled
    <3>1. /\ u \in Cmd /\ u.at = "read" /\ u.st = c.st /\ u.cut = c.cut /\ Shape(u)
          /\ Reads(u, vaults, record, reborn) /\ Explores(u, acked, reborn)
      BY <1>1, <2>3, UpdatesAfterCreate
    <3> HIDE DEF u
    <3> QED BY <1>1, <1>2, <2>1, <2>3, <3>1, GoesOn
  <2> QED BY <2>1, <2>2, <2>3
<1> QED BY <1>3, <1>4

\* An empty record is put, if there is none; a new project is then stored.
LEMMA KeepsCreateEmpty ==
  ASSUME IInv, NEW p \in Procs, create_empty(p) PROVE IInv'
<1> DEFINE c == cmd[p]
           e == [c EXCEPT !.st.held = {1}, !.st.tree = {1}, !.st.touched[1] = clock]
           u == update_children(c, IF c.name = "add" THEN Parent[c.n] ELSE c.n)
<1>1. /\ c.at = "empty" /\ UNCHANGED <<vaults, clock, plan, acked, reborn>>
  BY DEF create_empty
<1>2. /\ Typed /\ c \in Cmd /\ Shape(c) /\ ~plan.fresh
  BY <1>1, Runs DEF Finding
<1>3. CASE ~Open(c.n)
  <2>1. Fail(p) /\ UNCHANGED <<record, disk, keys, kept>>
    BY <1>3 DEF create_empty, local
  <2> QED BY <1>1, <2>1, Fails
<1>4. CASE Open(c.n)
  <2>1. /\ record' = IF record[c.n].ver = 0 THEN [record EXCEPT ![c.n].ver = 1] ELSE record
        /\ \/ /\ c.name = "init"
              /\ keys' = [keys EXCEPT ![Machine(p)] = @ \cup {1}]
              /\ kept' = [kept EXCEPT ![Machine(p)] = @ \cup {1}]
              /\ save(p, e)
           \/ /\ c.name # "init"
              /\ Step(p, u) /\ UNCHANGED <<disk, keys, kept, spoiled>>
    BY <1>4 DEF create_empty, local
  <2>2. /\ c.n \in Nodes /\ vaults \subseteq Nodes /\ record \in [Nodes -> Children]
        /\ reborn \in BOOLEAN /\ acked \in [Nodes -> Int] /\ clock \in Nat /\ c.st \in State
    BY <1>2 DEF Typed, Cmd
  <2>3. record[c.n] \in Children
    BY <2>2
  <2>4. /\ record' \in [Nodes -> Children]
        /\ \A x \in Nodes : record'[x].kids = record[x].kids
        /\ \A x \in Nodes : record'[x] # record[x] => record[x].ver = 0 /\ record'[x].ver = 1
    <3>1. CASE record[c.n].ver = 0
      <4>1. record' = [record EXCEPT ![c.n] = [record[c.n] EXCEPT !.ver = 1]]
        BY <2>1, <3>1
      <4>2. [record[c.n] EXCEPT !.ver = 1] \in Children
        BY <2>3 DEF Children
      <4>3. record' \in [Nodes -> Children] /\ \A x \in Nodes \ {c.n} : record'[x] = record[x]
        BY <2>2, <4>1, <4>2
      <4>4. record'[c.n].kids = record[c.n].kids /\ record'[c.n].ver = 1
        BY <2>2, <2>3, <4>1 DEF Children
      <4> QED BY <3>1, <4>3, <4>4
    <3>2. CASE record[c.n].ver # 0
      BY <2>1, <2>2, <3>2
    <3> QED BY <3>1, <3>2
  <2>5. Moves
    <3>1. \A x \in Nodes : record[x].ver <= record'[x].ver
      <4>1. \A x \in Nodes : record[x].ver \in Nat
        BY <2>2 DEF Children
      <4> QED BY <2>4, <4>1
    <3>2. \A x \in Nodes : record'[x] \in Children /\ (record'[x].ver = record[x].ver => record'[x] = record[x])
      BY <2>4
    <3> QED BY <1>1, <3>1, <3>2 DEF Moves
  <2>6. Records'
    <3>1. AddedStaysListed /\ \A n \in Nodes : record[n].ver = 0 => record[n].kids = {}
      BY DEF IInv, Records
    <3>2. \A n \in 2..N : Parent[n] \in Nodes
      BY TreeDown
    <3>3. AddedStaysListed'
      BY <1>1, <2>4, <3>1, <3>2 DEF AddedStaysListed
    <3> QED BY <2>4, <3>1, <3>3 DEF Records
  <2>7. CASE c.name # "init"
    <3>1. Step(p, u) /\ UNCHANGED <<disk, keys, kept, spoiled>>
      BY <2>1, <2>7
    <3>2. /\ u \in Cmd /\ u.at = "read" /\ u.st = c.st /\ u.cut = c.cut /\ Shape(u)
          /\ Reads(u, vaults', record', reborn') /\ Explores(u, acked', reborn')
      BY <1>1, <2>7, UpdatesAfterCreate
    <3> HIDE DEF u
    <3>3. \A m \in Machines : Holds(m)'
      BY <1>1, <1>2, <3>1, <3>2, HoldsQuiet DEF IInv
    <3>4. /\ disk' \in [Machines -> State] /\ keys' \in [Machines -> SUBSET Nodes]
          /\ kept' \in [Machines -> SUBSET Nodes] /\ spoiled' \in [Machines -> BOOLEAN]
      BY <1>2, <3>1 DEF Typed
    <3> QED BY <1>1, <1>2, <2>2, <2>4, <2>5, <2>6, <3>1, <3>2, <3>3, <3>4, ServerStep
  <2>8. CASE c.name = "init"
    <3>1. /\ keys' = [keys EXCEPT ![Machine(p)] = @ \cup {1}]
          /\ kept' = [kept EXCEPT ![Machine(p)] = @ \cup {1}]
          /\ save(p, e)
      BY <2>1, <2>8
    <3>2. c.st.held = {} /\ {1} \in SUBSET Nodes
      BY <1>2, <2>8, TreeDown DEF Shape
    <3> HIDE DEF c
    <3>3. e \in Cmd /\ e.st.held = {1} /\ e.st \in State
      <4> DEFINE st == [c.st EXCEPT !.held = {1}, !.tree = {1}, !.touched[1] = clock]
      <4>1. [c.st.touched EXCEPT ![1] = clock] \in [Nodes -> Int]
        <5>1. c.st.touched \in [Nodes -> Int] /\ clock \in Int
          BY <2>2 DEF State
        <5> QED BY <5>1
      <4>2. st \in State /\ st.held = {1}
        BY <2>2, <3>2, <4>1 DEF State
      <4>3. e = [c EXCEPT !.st = st]
        BY <1>2, <2>2 DEF Cmd, State
      <4> HIDE DEF st, e
      <4> QED BY <1>2, <4>2, <4>3 DEF Cmd
    <3> HIDE DEF e
    <3>4. e.st.held = c.st.held \cup {1}
      BY <3>2, <3>3
    <3>5. \A m \in Machines : Holds(m)'
      BY <1>1, <1>2, <3>1, <3>2, <3>3, <3>4, HoldsSave DEF IInv, c
    <3>6. /\ disk' \in [Machines -> State] /\ spoiled' \in [Machines -> BOOLEAN]
      BY <1>2, <3>1, <3>3 DEF Typed, save
    <3>7. keys' \in [Machines -> SUBSET Nodes] /\ kept' \in [Machines -> SUBSET Nodes]
      BY <1>2, <3>1, <3>2 DEF Typed
    <3>8. Step(p, NoCmd)
      BY <3>1 DEF save
    <3>9. /\ NoCmd \in Cmd /\ Shape(NoCmd)
          /\ Reads(NoCmd, vaults', record', reborn') /\ Explores(NoCmd, acked', reborn')
      BY IdleKnows
    <3> QED BY <1>1, <1>2, <2>2, <2>4, <2>5, <2>6, <3>5, <3>6, <3>7, <3>8, <3>9, ServerStep
  <2> QED BY <2>7, <2>8
<1> QED BY <1>3, <1>4

\* A record is written under If-Match: what it lists is what was listed when
\* it was read, changed by this command alone.
LEMMA KeepsPutChildren ==
  ASSUME IInv, NEW p \in Procs, put_children(p) PROVE IInv'
<1> DEFINE c == cmd[p]
           t == c.target
           d == [c EXCEPT !.at = "save",
                          !.st.tree = IF c.name = "add" THEN @ \cup {c.n} ELSE @,
                          !.st.touched[c.n] = IF c.name = "rm" THEN @ ELSE clock]
           again == [c EXCEPT !.at = "read", !.tries = @ + 1]
<1>1. /\ c.at = "write" /\ UNCHANGED <<vaults, clock, plan, disk, keys, kept, reborn>>
  BY DEF put_children, local
<1>2. /\ Typed /\ c \in Cmd /\ Shape(c) /\ Reads(c, vaults, record, reborn) /\ ~plan.fresh
  BY <1>1, Runs DEF Finding
<1>3. /\ c.n \in Nodes /\ t \in Nodes /\ vaults \subseteq Nodes /\ record \in [Nodes -> Children]
      /\ reborn \in BOOLEAN /\ acked \in [Nodes -> Int] /\ clock \in Nat /\ c.st \in State
      /\ c.read \in Children /\ c.tries \in Nat
  BY <1>2 DEF Typed, Cmd
<1>4. /\ c.name \in {"add", "rm", "repair"} /\ (c.name = "add" => t = Parent[c.n] /\ c.n # 1)
  BY <1>1, <1>2 DEF Shape
<1>5. CASE ~(Open(t) /\ Fits(c))
  <2>1. /\ Fail(p) \/ (Step(p, again) /\ UNCHANGED spoiled)
        /\ UNCHANGED <<record, acked>>
    BY <1>5 DEF put_children
  <2>2. CASE Fail(p)
    BY <1>1, <2>1, <2>2, Fails
  <2>3. CASE Step(p, again) /\ UNCHANGED spoiled
    <3> HIDE DEF c
    <3>0. c.tries + 1 \in Nat
      BY <1>3
    <3>1. /\ again \in Cmd /\ again.at = "read" /\ again.name = c.name /\ again.n = c.n
          /\ again.loaded = c.loaded /\ again.st = c.st /\ again.cut = c.cut
          /\ again.target = c.target
      BY <1>2, <3>0 DEF Cmd, Labels
    <3> HIDE DEF again
    <3>2. Shape(again) /\ Reads(again, vaults, record, reborn) /\ Explores(again, acked, reborn)
      BY <1>1, <1>2, <3>1 DEF Shape, Reads, Explores
    <3> QED BY <1>1, <1>2, <2>1, <2>3, <3>1, <3>2, GoesOn DEF c
  <2> QED BY <2>1, <2>2, <2>3
<1>6. CASE Open(t) /\ Fits(c)
  <2>1. /\ record' = [record EXCEPT ![t] = [ver |-> @.ver + 1, kids |-> changed(c)]]
        /\ acked' = CASE c.name = "add" -> [acked EXCEPT ![c.n] = Listed(@)]
                      [] c.name = "rm" -> [acked EXCEPT ![c.n] = Unlisted(@)]
                      [] OTHER -> acked
        /\ Step(p, d) /\ UNCHANGED spoiled
    BY <1>6 DEF put_children
  <2>2. t \in vaults /\ record[t].ver = c.read.ver
    BY <1>6 DEF Open, Fits
  <2>3. ~reborn => c.read.kids = record[t].kids
    BY <1>1, <1>2, <2>2 DEF Reads
  <2> DEFINE kids == changed(c)
             w == [ver |-> record[t].ver + 1, kids |-> kids]
  <2>4. /\ kids \in SUBSET Nodes /\ c.read.kids \ {c.n} \subseteq kids
        /\ c.name # "rm" => c.read.kids \subseteq kids
        /\ c.name = "add" => c.n \in kids
    <3>1. c.read.kids \subseteq Nodes /\ c.st.tree \subseteq Nodes
      BY <1>3 DEF Children, State
    <3> QED BY <1>3, <1>4, <3>1 DEF changed, children_of
  <2> HIDE DEF kids
  <2>5. record[t].ver \in Nat /\ record' = [record EXCEPT ![t] = w]
    BY <1>3, <2>1 DEF Children, kids
  <2>6. /\ w \in Children /\ w.ver = record[t].ver + 1 /\ w.kids = kids
    BY <2>4, <2>5 DEF Children
  <2> HIDE DEF w
  <2>7. /\ record' \in [Nodes -> Children] /\ record'[t] = w
        /\ \A x \in Nodes \ {t} : record'[x] = record[x]
    BY <1>3, <2>5, <2>6
  <2>8. /\ acked' \in [Nodes -> Int] /\ \A k \in Nodes \ {c.n} : acked'[k] = acked[k]
        /\ \/ c.name = "add" /\ acked'[c.n] = Listed(acked[c.n])
           \/ c.name = "rm" /\ acked'[c.n] = Unlisted(acked[c.n])
           \/ c.name = "repair" /\ acked'[c.n] = acked[c.n]
    <3>1. Listed(acked[c.n]) \in Int /\ Unlisted(acked[c.n]) \in Int
      BY <1>3 DEF Listed, Unlisted
    <3> QED BY <1>3, <1>4, <2>1, <3>1
  <2>9. Moves
    <3>1. \A k \in Nodes : acked'[k] \in {acked[k], Listed(acked[k]), Unlisted(acked[k])}
      BY <2>8
    <3>2. \A x \in Nodes : /\ record[x].ver <= record'[x].ver
                           /\ record'[x].ver = record[x].ver => record'[x] = record[x]
      <4>1. \A x \in Nodes : record[x].ver \in Nat
        BY <1>3 DEF Children
      <4>2. w.ver \in Nat /\ record[t].ver <= w.ver /\ w.ver # record[t].ver
        BY <2>5, <2>6
      <4> QED BY <2>7, <4>1, <4>2
    <3> QED BY <1>1, <2>7, <3>1, <3>2 DEF Moves
  <2>10. Records'
    <3>1. AddedStaysListed /\ \A n \in Nodes : record[n].ver = 0 => record[n].kids = {}
      BY DEF IInv, Records
    <3>2. w.ver # 0
      BY <2>5, <2>6
    <3>3. \A n \in Nodes : record'[n].ver = 0 => record'[n].kids = {}
      BY <2>7, <3>1, <3>2
    <3>4. ASSUME NEW n \in 2..N, acked'[n] > 0, ~reborn
          PROVE  Parent[n] \in vaults /\ n \in record'[Parent[n]].kids
      <4>1. n \in Nodes /\ Parent[n] \in Nodes
        BY TreeDown
      <4>2. n = c.n => c.name # "rm"
        BY <1>3, <2>8, <3>4 DEF Unlisted
      <4>3. CASE n = c.n /\ c.name = "add"
        BY <1>4, <2>2, <2>4, <2>6, <2>7, <4>3
      <4>4. CASE ~(n = c.n /\ c.name = "add")
        <5>1. acked[n] > 0
          BY <2>8, <3>4, <4>1, <4>2, <4>4
        <5>2. Parent[n] \in vaults /\ n \in record[Parent[n]].kids
          BY <3>1, <3>4, <5>1 DEF AddedStaysListed
        <5>3. CASE Parent[n] = t
          <6>1. n \in c.read.kids
            BY <2>3, <3>4, <5>2, <5>3
          <6>2. n \in kids
            BY <2>4, <4>2, <6>1
          <6> QED BY <2>6, <2>7, <5>2, <5>3, <6>2
        <5>4. CASE Parent[n] # t
          BY <2>7, <4>1, <5>2, <5>4
        <5> QED BY <5>3, <5>4
      <4> QED BY <4>3, <4>4
    <3> QED BY <1>1, <3>3, <3>4 DEF Records, AddedStaysListed
  <2> HIDE DEF c, t
  <2>11. /\ d \in Cmd /\ d.at = "save" /\ d.name = c.name /\ d.n = c.n /\ d.loaded = c.loaded
         /\ d.st.held = c.st.held /\ d.cut = c.cut
    <3> DEFINE tree == IF c.name = "add" THEN c.st.tree \cup {c.n} ELSE c.st.tree
               touched == [c.st.touched EXCEPT ![c.n] = IF c.name = "rm" THEN @ ELSE clock]
               st == [c.st EXCEPT !.tree = tree, !.touched = touched]
    <3>1. tree \in SUBSET Nodes
      BY <1>3 DEF State
    <3>2. touched \in [Nodes -> Int]
      <4>1. c.st.touched \in [Nodes -> Int] /\ clock \in Int
        BY <1>3 DEF State
      <4> QED BY <1>3, <4>1
    <3>3. d = [c EXCEPT !.at = "save", !.st = st]
      BY <1>2, <1>3 DEF Cmd, State
    <3> HIDE DEF tree, touched, d
    <3>4. st \in State /\ st.held = c.st.held
      BY <1>3, <3>1, <3>2 DEF State
    <3> HIDE DEF st
    <3> QED BY <1>2, <3>3, <3>4 DEF Cmd, Labels
  <2> HIDE DEF d
  <2>12. Shape(d) /\ Reads(d, vaults', record', reborn') /\ Explores(d, acked', reborn')
    BY <1>2, <2>11 DEF Shape, Reads, Explores
  <2>13. \A m \in Machines : Holds(m)'
    BY <1>1, <1>2, <2>1, <2>11, HoldsQuiet DEF IInv, c
  <2>14. /\ disk' \in [Machines -> State] /\ keys' \in [Machines -> SUBSET Nodes]
         /\ kept' \in [Machines -> SUBSET Nodes] /\ spoiled' \in [Machines -> BOOLEAN]
    BY <1>1, <1>2, <2>1 DEF Typed
  <2> QED BY <1>1, <1>2, <1>3, <2>1, <2>7, <2>8, <2>9, <2>10, <2>11, <2>12, <2>13, <2>14, ServerStep
<1> QED BY <1>5, <1>6

-----------------------------------------------------------------------------
(* Discoveries and removals. *)

\* A discovery opens the next vault: the record it reads lists what was added
\* there.
LEMMA KeepsDiscoverNext ==
  ASSUME IInv, NEW p \in Procs, discover_next(p) PROVE IInv'
<1> DEFINE c == cmd[p]
           opened(x) == [c EXCEPT !.queue = queue_next(c, x), !.found = @ \cup {x},
                                  !.st.touched[x] = clock]
           shut(x) == [c EXCEPT !.queue = @ \ {x}, !.found = @ \cup {x}, !.lost = @ \cup {x}]
<1>1. /\ c.at = "discover"
      /\ UNCHANGED <<vaults, record, acked, reborn, clock, disk, keys, kept, plan>>
  BY DEF discover_next, server, local
<1>2. PICK x \in c.queue :
          \/ Open(x) /\ Step(p, opened(x)) /\ UNCHANGED spoiled
          \/ x # c.root /\ Step(p, shut(x)) /\ UNCHANGED spoiled
          \/ Fail(p)
  BY DEF discover_next
<1>3. /\ Typed /\ c \in Cmd /\ Shape(c) /\ Explores(c, acked, reborn)
      /\ plan.fresh => Finding(c)
  BY <1>1, Runs
<1>4. /\ c.queue \subseteq Nodes /\ c.found \subseteq Nodes /\ c.lost \subseteq Nodes
      /\ c.st \in State /\ clock \in Nat /\ x \in Nodes /\ record \in [Nodes -> Children]
  BY <1>2, <1>3 DEF Typed, Cmd
<1>5. /\ c.root \in c.found \cup c.queue /\ c.root \notin c.lost
      /\ \A n \in Nodes : c.known[n] > 0 => acked[n] >= c.known[n] \/ -acked[n] >= c.known[n]
      /\ ~reborn => \A n \in 2..N :
            Parent[n] \in c.found \ c.lost /\ c.known[n] > 0 /\ acked[n] = c.known[n] =>
                n \in c.found \cup c.queue
  BY <1>1, <1>3 DEF Explores
<1>6. CASE Fail(p)
  BY <1>1, <1>6, Fails
<1>7. CASE x # c.root /\ Step(p, shut(x)) /\ UNCHANGED spoiled
  <2> DEFINE d == shut(x)
  <2>1. Step(p, d) /\ UNCHANGED spoiled /\ x # c.root
    BY <1>7
  <2> HIDE DEF c
  <2>2. /\ d \in Cmd /\ d.at = c.at /\ d.name = c.name /\ d.n = c.n /\ d.loaded = c.loaded
        /\ d.st = c.st /\ d.cut = c.cut /\ d.root = c.root /\ d.known = c.known
        /\ d.queue = c.queue \ {x} /\ d.found = c.found \cup {x} /\ d.lost = c.lost \cup {x}
    BY <1>3, <1>4 DEF Cmd
  <2> HIDE DEF d
  <2>3. Shape(d) /\ Reads(d, vaults, record, reborn) /\ (plan.fresh => Finding(d))
    BY <1>1, <1>3, <2>1, <2>2 DEF Shape, Reads, Finding
  <2>4. Explores(d, acked, reborn)
    BY <1>5, <2>1, <2>2 DEF Explores
  <2> QED BY <1>1, <2>1, <2>2, <2>3, <2>4, GoesOn DEF c
<1>8. CASE Open(x) /\ Step(p, opened(x)) /\ UNCHANGED spoiled
  <2> DEFINE d == opened(x)
             queue == queue_next(c, x)
             st == Touched(c.st, x, clock, c.st.no_expiry)
  <2>1. Step(p, d) /\ UNCHANGED spoiled /\ x \in vaults
    BY <1>8 DEF Open
  <2>2. ~plan.fresh
    BY <2>1 DEF IInv, Fresh
  <2>3. queue \in SUBSET Nodes /\ c.queue \ {x} \subseteq queue /\ record[x].kids \subseteq queue
    BY <1>4 DEF queue_next, Children
  <2> HIDE DEF c
  <2>4. d = [c EXCEPT !.queue = queue, !.found = c.found \cup {x}, !.st = st]
    BY <1>3, <1>4 DEF Cmd, State, Touched
  <2>5. c.st.no_expiry \in SUBSET Nodes
    BY <1>4 DEF State
  <2>6. st \in State /\ st.held = c.st.held
    BY <1>4, <2>5, TouchedHolds
  <2> HIDE DEF queue, st, d
  <2>7. /\ d \in Cmd /\ d.at = c.at /\ d.name = c.name /\ d.n = c.n /\ d.loaded = c.loaded
        /\ d.st.held = c.st.held /\ d.cut = c.cut /\ d.root = c.root /\ d.known = c.known
        /\ d.queue = queue /\ d.found = c.found \cup {x} /\ d.lost = c.lost
    BY <1>3, <1>4, <2>3, <2>4, <2>6 DEF Cmd
  <2>8. Shape(d) /\ Reads(d, vaults, record, reborn)
    BY <1>1, <1>3, <2>7 DEF Shape, Reads
  <2>9. Explores(d, acked, reborn)
    <3>1. d.root \in d.found \cup d.queue /\ d.root \notin d.lost
      BY <1>5, <2>3, <2>7
    <3>2. ASSUME NEW n \in 2..N, ~reborn, Parent[n] \in d.found \ d.lost, c.known[n] > 0,
                 acked[n] = c.known[n]
          PROVE  n \in d.found \cup d.queue
      <4>1. CASE Parent[n] = x
        <5>1. acked[n] > 0
          BY <3>2
        <5>2. n \in record[x].kids
          BY <3>2, <4>1, <5>1 DEF IInv, Records, AddedStaysListed
        <5> QED BY <2>3, <2>7, <5>2
      <4>2. CASE Parent[n] # x
        BY <1>5, <2>3, <2>7, <3>2, <4>2
      <4> QED BY <4>1, <4>2
    <3> QED BY <1>5, <2>7, <3>1, <3>2 DEF Explores
  <2> QED BY <1>1, <2>1, <2>2, <2>7, <2>8, <2>9, GoesOn DEF c
<1> QED BY <1>2, <1>6, <1>7, <1>8

\* A discovery ends.
LEMMA KeepsDiscovered ==
  ASSUME IInv, NEW p \in Procs, discovered(p) PROVE IInv'
<1> DEFINE o == cmd[p]
           c == [o EXCEPT !.st.tree = found_tree(o)]
           below == c.st.tree \cap Below(c.n)
           done == [c EXCEPT !.at = "save"]
           stored == [c EXCEPT !.st.held = @ \cup {c.n}]
           removing == [c EXCEPT !.at = "delete", !.todo = below]
<1>1. /\ c.at = "discover" /\ c.queue = {}
      /\ UNCHANGED <<vaults, record, acked, reborn, clock, plan>>
  BY DEF discovered, server, time
<1>2. \/ /\ c.name = "ls" /\ \E r \in c.roots : Step(p, discover_from(c, r, c.roots \ {r}))
         /\ UNCHANGED <<disk, keys, kept, spoiled>>
      \/ /\ c.name = "ls" /\ Step(p, done) /\ UNCHANGED <<disk, keys, kept, spoiled>>
      \/ /\ c.name = "import"
         /\ keys' = [keys EXCEPT ![Machine(p)] = @ \cup {c.n}]
         /\ kept' = [kept EXCEPT ![Machine(p)] = @ \cup {c.n}]
         /\ save(p, stored)
      \/ /\ c.name = "rm" /\ Step(p, removing) /\ UNCHANGED <<disk, keys, kept, spoiled>>
      \/ Fail(p) /\ UNCHANGED <<disk, keys, kept>>
  BY DEF discovered, local
<1>3. c.at = o.at /\ c.queue = o.queue
  <2> HIDE DEF o
  <2>1. o \in Cmd
    BY DEF IInv, Typed, o
  <2> QED BY <2>1 DEF Cmd
<1>4. /\ Typed /\ o \in Cmd /\ Shape(o) /\ ~plan.fresh
  BY <1>1, <1>3, Runs DEF Finding
<1>5. found_tree(o) \in SUBSET Nodes
  BY <1>4 DEF found_tree, Cmd, State
<1> HIDE DEF o
<1>6. /\ c \in Cmd /\ c.name = o.name /\ c.n = o.n /\ c.loaded = o.loaded
      /\ c.st.held = o.st.held /\ c.cut = o.cut
  <2> DEFINE st == [o.st EXCEPT !.tree = found_tree(o)]
  <2>1. st \in State /\ st.held = o.st.held
    BY <1>4, <1>5 DEF Cmd, State
  <2>2. c = [o EXCEPT !.st = st]
    BY <1>4 DEF Cmd
  <2> HIDE DEF st, c
  <2> QED BY <1>4, <2>1, <2>2 DEF Cmd
<1> HIDE DEF c
<1>7. below \in SUBSET Nodes /\ c.n \in Nodes /\ c.roots \in SUBSET Nodes /\ c.st \in State
  BY <1>6 DEF Below, Cmd
<1> HIDE DEF below
<1>8. CASE /\ c.name = "ls" /\ \E r \in c.roots : Step(p, discover_from(c, r, c.roots \ {r}))
           /\ UNCHANGED <<disk, keys, kept, spoiled>>
  <2>1. PICK r \in c.roots : Step(p, discover_from(c, r, c.roots \ {r}))
    BY <1>8
  <2> DEFINE d == discover_from(c, r, c.roots \ {r})
  <2>2. r \in Nodes /\ c.roots \ {r} \in SUBSET Nodes
    BY <1>7, <2>1
  <2>3. /\ d \in Cmd /\ d.at = "discover" /\ d.name = c.name /\ d.n = c.n /\ d.loaded = c.loaded
        /\ d.st = c.st /\ d.cut = c.cut /\ Explores(d, acked, reborn)
    BY <1>4, <1>6, <2>2, Discovers
  <2>4. Step(p, d)
    BY <2>1
  <2> HIDE DEF d
  <2>5. Shape(d) /\ Reads(d, vaults, record, reborn)
    BY <1>8, <2>3 DEF Shape, Reads
  <2>6. d.st.held = cmd[p].st.held /\ d.cut = cmd[p].cut /\ cmd[p].at # "idle"
    BY <1>1, <1>3, <1>6, <2>3 DEF o
  <2> QED BY <1>1, <1>4, <1>8, <2>3, <2>4, <2>5, <2>6, GoesOn
<1>9. CASE c.name = "ls" /\ Step(p, done) /\ UNCHANGED <<disk, keys, kept, spoiled>>
  <2>1. /\ done \in Cmd /\ done.at = "save" /\ done.name = c.name /\ done.n = c.n
        /\ done.loaded = c.loaded /\ done.st = c.st /\ done.cut = c.cut
    BY <1>6 DEF Cmd, Labels
  <2> HIDE DEF done
  <2>2. Shape(done) /\ Reads(done, vaults, record, reborn) /\ Explores(done, acked, reborn)
    BY <1>9, <2>1 DEF Shape, Reads, Explores
  <2>3. done.st.held = cmd[p].st.held /\ done.cut = cmd[p].cut /\ cmd[p].at # "idle"
    BY <1>1, <1>3, <1>6, <2>1 DEF o
  <2> QED BY <1>1, <1>4, <1>9, <2>1, <2>2, <2>3, GoesOn
<1>10. CASE /\ c.name = "import"
            /\ keys' = [keys EXCEPT ![Machine(p)] = @ \cup {c.n}]
            /\ kept' = [kept EXCEPT ![Machine(p)] = @ \cup {c.n}]
            /\ save(p, stored)
  <2>1. stored \in Cmd /\ stored.st.held = c.st.held \cup {c.n}
    <3> DEFINE st == [c.st EXCEPT !.held = @ \cup {c.n}]
    <3>1. st \in State /\ st.held = c.st.held \cup {c.n}
      BY <1>7 DEF State
    <3>2. stored = [c EXCEPT !.st = st]
      BY <1>6 DEF Cmd
    <3> HIDE DEF st, stored
    <3> QED BY <1>6, <3>1, <3>2 DEF Cmd
  <2>2. {c.n} \in SUBSET Nodes
    BY <1>7
  <2> HIDE DEF stored
  <2>3. stored.st.held = cmd[p].st.held \cup {c.n} /\ cmd[p].at # "idle"
    BY <1>1, <1>3, <1>6, <2>1 DEF o
  <2> QED BY <1>1, <1>4, <1>10, <2>1, <2>2, <2>3, Saves
<1>11. CASE c.name = "rm" /\ Step(p, removing) /\ UNCHANGED <<disk, keys, kept, spoiled>>
  <2>1. /\ removing \in Cmd /\ removing.at = "delete" /\ removing.name = c.name
        /\ removing.n = c.n /\ removing.loaded = c.loaded /\ removing.st = c.st
        /\ removing.cut = c.cut
    BY <1>6, <1>7 DEF Cmd, Labels
  <2> HIDE DEF removing
  <2>2. Shape(removing) /\ Reads(removing, vaults, record, reborn)
    BY <1>4, <1>6, <1>11, <2>1 DEF Shape, Reads
  <2>3. Explores(removing, acked, reborn)
    BY <2>1 DEF Explores
  <2>4. removing.st.held = cmd[p].st.held /\ removing.cut = cmd[p].cut /\ cmd[p].at # "idle"
    BY <1>1, <1>3, <1>6, <2>1 DEF o
  <2> QED BY <1>1, <1>4, <1>11, <2>1, <2>2, <2>3, <2>4, GoesOn
<1>12. CASE Fail(p) /\ UNCHANGED <<disk, keys, kept>>
  BY <1>1, <1>12, Fails
<1> QED BY <1>2, <1>8, <1>9, <1>10, <1>11, <1>12

\* A removal forgets a key: in the key store now, in what it will save.
LEMMA HoldsForget ==
  ASSUME Typed, \A m \in Machines : Holds(m), NEW p \in Procs, NEW c \in Cmd, Step(p, c),
         cmd[p].at # "idle", c.at # "idle", NEW x, c.st.held = cmd[p].st.held \ {x},
         c.cut = (cmd[p].cut \/ x \in cmd[p].st.held),
         keys' = [keys EXCEPT ![Machine(p)] = @ \ (cmd[p].st.held \cap {x})],
         kept' = [kept EXCEPT ![Machine(p)] = @ \ {x}],
         UNCHANGED <<disk, spoiled>>, plan'.on = plan.on
  PROVE  \A m \in Machines : Holds(m)'
<1> SUFFICES ASSUME NEW m \in Machines, ~spoiled[m] PROVE Holds(m)'
  BY DEF Holds
<1>1. cmd'[p] = c /\ \A q \in Procs \ {p} : cmd'[q] = cmd[q]
  BY DEF Step, Typed
<1>2. On(m)' = On(m) /\ On(m) \subseteq Procs
  BY <1>1 DEF On, Machine
<1>3. Holds(m)
  OBVIOUS
<1>4. keys \in [Machines -> SUBSET Nodes] /\ kept \in [Machines -> SUBSET Nodes] /\ Machine(p) \in Machines
  BY DEF Typed, Plan, Machine
<1>5. CASE m # Machine(p)
  <2>1. keys'[m] = keys[m] /\ kept'[m] = kept[m] /\ p \notin On(m)
    BY <1>4, <1>5 DEF On
  <2>2. \A q \in On(m) : cmd'[q] = cmd[q]
    BY <1>1, <1>2, <2>1
  <2> QED BY <1>2, <1>3, <2>1, <2>2 DEF Holds
<1>6. CASE m = Machine(p)
  <2>1. keys'[m] = keys[m] \ (cmd[p].st.held \cap {x}) /\ kept'[m] = kept[m] \ {x} /\ p \in On(m)
    BY <1>4, <1>6 DEF On
  <2>2. \A q \in On(m) \ {p} : cmd'[q] = cmd[q]
    BY <1>1, <1>2
  <2>3. /\ kept[m] \subseteq disk[m].held
        /\ \A q \in On(m) : /\ kept[m] \subseteq cmd[q].st.held
                            /\ cmd[q].st.held \subseteq disk[m].held
                            /\ ~cmd[q].cut => cmd[q].st.held = disk[m].held
        /\ \A y \in disk[m].held \ keys[m] : \E q \in On(m) : cmd[q].cut /\ y \notin cmd[q].st.held
    BY <1>3 DEF Holds
  <2>4. kept'[m] \subseteq disk[m].held
    BY <2>1, <2>3
  <2>5. ASSUME NEW q \in On(m)
        PROVE  /\ kept'[m] \subseteq cmd'[q].st.held /\ cmd'[q].st.held \subseteq disk[m].held
               /\ ~cmd'[q].cut => cmd'[q].st.held = disk[m].held
    <3>1. CASE q = p
      <4>1. kept[m] \subseteq cmd[p].st.held /\ cmd[p].st.held \subseteq disk[m].held
        BY <2>1, <2>3
      <4>2. ~c.cut => cmd[p].st.held = disk[m].held /\ x \notin cmd[p].st.held
        BY <2>1, <2>3
      <4> QED BY <1>1, <2>1, <3>1, <4>1, <4>2, ZenonT(30)
    <3>2. CASE q # p
      BY <2>1, <2>2, <2>3, <3>2
    <3> QED BY <3>1, <3>2
  <2>6. ASSUME NEW y \in disk[m].held \ keys'[m]
        PROVE  \E q \in On(m) : cmd'[q].cut /\ y \notin cmd'[q].st.held
    <3>1. CASE y \notin keys[m]
      <4>1. PICK q \in On(m) : cmd[q].cut /\ y \notin cmd[q].st.held
        BY <2>3, <2>6, <3>1
      <4>2. CASE q = p
        BY <1>1, <2>1, <4>1, <4>2
      <4>3. CASE q # p
        BY <2>2, <4>1, <4>3
      <4> QED BY <4>2, <4>3
    <3>2. CASE y \in keys[m]
      <4>1. y = x /\ x \in cmd[p].st.held
        BY <2>1, <2>6, <3>2
      <4> QED BY <1>1, <2>1, <4>1
    <3> QED BY <3>1, <3>2
  <2> QED BY <1>2, <2>4, <2>5, <2>6 DEF Holds
<1> QED BY <1>5, <1>6

\* A removal deletes a vault: what was listed there is listed no more.
LEMMA KeepsDeleteVault ==
  ASSUME IInv, NEW p \in Procs, delete_vault(p) PROVE IInv'
<1> DEFINE c == cmd[p]
<1>1. /\ c.at = "delete" /\ UNCHANGED <<clock, plan, disk, reborn>>
  BY DEF delete_vault, time
<1>2. /\ Typed /\ c \in Cmd /\ Shape(c) /\ ~plan.fresh
  BY <1>1, Runs DEF Finding
<1>3. PICK x : x = Max(c.todo)
  OBVIOUS
<1> DEFINE gone == [c EXCEPT !.todo = @ \ {x}, !.st = removed(c.st, x), !.cut = @ \/ x \in c.st.held]
<1>4. CASE Fail(p) /\ UNCHANGED <<vaults, record, keys, kept, acked>>
  BY <1>1, <1>4, Fails
<1>5. CASE /\ \/ /\ vaults' = vaults \ {x}
                 /\ record' = [record EXCEPT ![x] = NoRecord]
                 /\ acked' = Lost(x)
              \/ UNCHANGED <<vaults, record, acked>>
           /\ keys' = [keys EXCEPT ![Machine(p)] = @ \ (c.st.held \cap {x})]
           /\ kept' = [kept EXCEPT ![Machine(p)] = @ \ {x}]
           /\ Step(p, gone) /\ UNCHANGED spoiled
  <2>1. /\ vaults \subseteq Nodes /\ record \in [Nodes -> Children] /\ acked \in [Nodes -> Int]
        /\ reborn \in BOOLEAN /\ keys \in [Machines -> SUBSET Nodes]
        /\ kept \in [Machines -> SUBSET Nodes] /\ c.st \in State /\ c.cut \in BOOLEAN
    BY <1>2 DEF Typed, Cmd
  <2> HIDE DEF c
  <2>2. /\ gone \in Cmd /\ gone.at = c.at /\ gone.name = c.name /\ gone.n = c.n
        /\ gone.loaded = c.loaded /\ gone.st.held = c.st.held \ {x}
        /\ gone.cut = (c.cut \/ x \in c.st.held)
    <3> DEFINE st == removed(c.st, x)
               cut == c.cut \/ x \in c.st.held
    <3>1. st \in State /\ st.held = c.st.held \ {x}
      BY <2>1 DEF State, removed
    <3>2. cut \in BOOLEAN
      BY <2>1
    <3>3. gone = [c EXCEPT !.todo = c.todo \ {x}, !.st = st, !.cut = cut]
      BY <1>2 DEF Cmd
    <3> HIDE DEF st, gone
    <3>4. gone \in Cmd
      BY <1>2, <3>1, <3>2, <3>3 DEF Cmd
    <3>5. /\ gone.at = c.at /\ gone.name = c.name /\ gone.n = c.n
          /\ gone.loaded = c.loaded /\ gone.st = st
      BY <1>2, <3>3 DEF Cmd
    <3>6. gone.cut = cut
      <4> HIDE DEF cut
      <4> QED BY <1>2, <3>3 DEF Cmd
    <3> QED BY <3>1, <3>4, <3>5, <3>6
  <2>3. Step(p, gone) /\ UNCHANGED spoiled
    BY <1>5
  <2> HIDE DEF gone
  <2>4. Shape(gone) /\ Reads(gone, vaults', record', reborn') /\ Explores(gone, acked', reborn')
    <3>1. c.name = "rm"
      BY <1>1, <1>2 DEF Shape
    <3> QED BY <1>1, <1>2, <2>2, <3>1 DEF Shape, Reads, Explores
  <2>5. \A m \in Machines : Holds(m)'
    <3>1. cmd[p].at # "idle" /\ gone.at # "idle" /\ plan'.on = plan.on
      BY <1>1, <2>2 DEF c
    <3>2. UNCHANGED <<disk, spoiled>>
      BY <1>1, <2>3
    <3>3. /\ gone.st.held = cmd[p].st.held \ {x}
          /\ gone.cut = (cmd[p].cut \/ x \in cmd[p].st.held)
          /\ keys' = [keys EXCEPT ![Machine(p)] = @ \ (cmd[p].st.held \cap {x})]
          /\ kept' = [kept EXCEPT ![Machine(p)] = @ \ {x}]
      BY <1>5, <2>2 DEF c
    <3>4. \A m \in Machines : Holds(m)
      BY DEF IInv
    <3> QED BY <1>2, <2>2, <2>3, <3>1, <3>2, <3>3, <3>4, HoldsForget
  <2>6. /\ keys' \in [Machines -> SUBSET Nodes] /\ kept' \in [Machines -> SUBSET Nodes]
        /\ disk' \in [Machines -> State] /\ spoiled' \in [Machines -> BOOLEAN]
    <3>1. disk \in [Machines -> State] /\ spoiled \in [Machines -> BOOLEAN]
      BY <1>2 DEF Typed
    <3> QED BY <1>1, <1>5, <2>1, <3>1
  <2>7. CASE UNCHANGED <<vaults, record, acked>>
    <3>1. Moves
      BY <1>1, <1>2, <2>7, StillMoves
    <3>2. Records'
      BY <1>1, <2>7 DEF IInv, Records, AddedStaysListed
    <3>3. /\ vaults' \subseteq Nodes /\ record' \in [Nodes -> Children]
          /\ acked' \in [Nodes -> Int] /\ reborn' \in BOOLEAN
      BY <1>1, <2>1, <2>7
    <3> QED BY <1>1, <1>2, <2>2, <2>3, <2>4, <2>5, <2>6, <3>1, <3>2, <3>3, ServerStep
  <2>8. CASE /\ vaults' = vaults \ {x}
             /\ record' = [record EXCEPT ![x] = NoRecord]
             /\ acked' = Lost(x)
    <3>1. NoRecord \in Children /\ NoRecord.kids = {}
      BY DEF NoRecord, Children
    <3>2. /\ record' \in [Nodes -> Children] /\ (x \in Nodes => record'[x] = NoRecord)
          /\ \A y \in Nodes \ {x} : record'[y] = record[y]
      BY <2>1, <2>8, <3>1
    <3>3. /\ acked' \in [Nodes -> Int]
          /\ \A k \in Nodes : \/ acked'[k] = Unlisted(acked[k])
                              \/ acked'[k] = acked[k] /\ (k # 1 => Parent[k] # x)
      <4>1. \A k \in Nodes : Unlisted(acked[k]) \in Int
        BY <2>1 DEF Unlisted
      <4> QED BY <2>1, <2>8, <4>1 DEF Lost
    <3>4. Moves
      <4>1. \A y \in Nodes : record[y].ver <= record[y].ver
        BY <2>1 DEF Children
      <4> QED BY <1>1, <2>8, <3>2, <3>3, <4>1 DEF Moves
    <3>5. Records'
      <4>1. AddedStaysListed /\ \A n \in Nodes : record[n].ver = 0 => record[n].kids = {}
        BY DEF IInv, Records
      <4>2. \A n \in Nodes : record'[n].ver = 0 => record'[n].kids = {}
        BY <3>1, <3>2, <4>1
      <4>3. ASSUME NEW n \in 2..N, acked'[n] > 0, ~reborn
            PROVE  Parent[n] \in vaults' /\ n \in record'[Parent[n]].kids
        <5>1. n \in Nodes /\ n # 1 /\ Parent[n] \in Nodes
          BY TreeDown
        <5>3. acked[n] > 0 /\ Parent[n] # x
          <6>1. acked[n] \in Int
            BY <2>1, <5>1
          <6>2. ~(acked'[n] = Unlisted(acked[n]))
            BY <4>3, <6>1 DEF Unlisted
          <6> QED BY <3>3, <4>3, <5>1, <6>2
        <5>4. Parent[n] \in vaults /\ n \in record[Parent[n]].kids
          BY <4>1, <4>3, <5>3 DEF AddedStaysListed
        <5> QED BY <2>8, <3>2, <5>1, <5>3, <5>4
      <4> QED BY <1>1, <4>2, <4>3 DEF Records, AddedStaysListed
    <3>6. vaults' \subseteq Nodes /\ reborn' \in BOOLEAN
      BY <1>1, <2>1, <2>8
    <3> QED BY <1>1, <1>2, <2>2, <2>3, <2>4, <2>5, <2>6, <3>2, <3>3, <3>4, <3>5, <3>6, ServerStep
  <2> QED BY <1>5, <2>7, <2>8
<1>6. \/ Fail(p) /\ UNCHANGED <<vaults, record, keys, kept, acked>>
      \/ /\ \/ /\ vaults' = vaults \ {x}
               /\ record' = [record EXCEPT ![x] = NoRecord]
               /\ acked' = Lost(x)
            \/ UNCHANGED <<vaults, record, acked>>
         /\ keys' = [keys EXCEPT ![Machine(p)] = @ \ (c.st.held \cap {x})]
         /\ kept' = [kept EXCEPT ![Machine(p)] = @ \ {x}]
         /\ Step(p, gone) /\ UNCHANGED spoiled
  BY <1>3 DEF delete_vault, server
<1> QED BY <1>4, <1>5, <1>6

\* A removal has deleted its vaults: the project itself is listed nowhere, for
\* it is held.
LEMMA KeepsDeleted ==
  ASSUME IInv, NEW p \in Procs, deleted(p) PROVE IInv'
<1> DEFINE c == cmd[p]
           u == update_children(c, Parent[c.n])
           d == [c EXCEPT !.at = "save"]
<1>1. /\ c.at = "delete"
      /\ Step(p, IF held_root_for(c.loaded, c.n) # c.n THEN u ELSE d)
      /\ UNCHANGED <<vaults, record, acked, reborn, clock, disk, keys, kept, spoiled, plan>>
  BY DEF deleted, server, local, time, ghosts
<1>2. /\ Typed /\ c \in Cmd /\ Shape(c) /\ ~plan.fresh
  BY <1>1, Runs DEF Finding
<1>3. c.name = "rm" /\ c.n \in Nodes
  BY <1>1, <1>2 DEF Shape, Cmd
<1>4. CASE held_root_for(c.loaded, c.n) # c.n
  <2>1. c.n # 1
    <3> SUFFICES ASSUME c.n = 1 PROVE FALSE
      OBVIOUS
    <3>1. c.loaded.held \cap Up[1] = {1}
      BY <1>2, <1>3, UpTop DEF Shape
    <3>2. Max({1}) = 1
      BY DEF Max
    <3> QED BY <1>4, <3>1, <3>2 DEF held_root_for
  <2>2. Parent[c.n] \in Nodes /\ Step(p, u)
    BY <1>1, <1>3, <1>4, <2>1, TreeDown
  <2> HIDE DEF c
  <2>3. /\ u \in Cmd /\ u.at = "read" /\ u.st = c.st /\ u.cut = c.cut /\ Shape(u)
        /\ Reads(u, vaults, record, reborn) /\ Explores(u, acked, reborn)
    BY <1>2, <1>3, <2>2, Updates
  <2> HIDE DEF u
  <2> QED BY <1>1, <1>2, <2>2, <2>3, GoesOn DEF c
<1>5. CASE held_root_for(c.loaded, c.n) = c.n
  <2>1. Step(p, d)
    BY <1>1, <1>5
  <2> HIDE DEF c
  <2>2. /\ d \in Cmd /\ d.at = "save" /\ d.name = c.name /\ d.n = c.n /\ d.loaded = c.loaded
        /\ d.st = c.st /\ d.cut = c.cut
    BY <1>2 DEF Cmd, Labels
  <2> HIDE DEF d
  <2>3. Shape(d) /\ Reads(d, vaults, record, reborn) /\ Explores(d, acked, reborn)
    BY <1>2, <1>3, <2>2 DEF Shape, Reads, Explores
  <2> QED BY <1>1, <1>2, <2>1, <2>2, <2>3, GoesOn DEF c
<1> QED BY <1>4, <1>5

-----------------------------------------------------------------------------
(* The invariant. *)

\* Time passes, or the server's policy changes.
LEMMA KeepsTime ==
  ASSUME IInv, clock' \in Nat, plan' \in Plan, plan'.on = plan.on, plan'.fresh = plan.fresh,
         UNCHANGED <<vaults, record, acked, reborn, disk, keys, kept, spoiled, cmd>>
  PROVE  IInv'
<1>1. Typed'
  BY DEF IInv, Typed
<1>2. Records' /\ Fresh'
  BY DEF IInv, Records, AddedStaysListed, Fresh
<1>3. ASSUME NEW m \in Machines PROVE Holds(m)'
  <2>1. On(m)' = On(m) /\ Holds(m)
    BY DEF On, Machine, IInv
  <2> QED BY <2>1 DEF Holds
<1>4. \A p \in Procs : /\ Shape(cmd'[p]) /\ Reads(cmd'[p], vaults', record', reborn')
                       /\ Explores(cmd'[p], acked', reborn')
  BY DEF IInv
<1> QED BY <1>1, <1>2, <1>3, <1>4 DEF IInv

\* A day passes.
LEMMA KeepsTick == ASSUME IInv, tick PROVE IInv'
<1>1. /\ clock' = clock + 1 /\ plan' = [plan EXCEPT !.time = @ - 1] /\ plan.time > 0
      /\ UNCHANGED <<vaults, record, acked, reborn, disk, keys, kept, spoiled, cmd>>
  BY DEF tick, server, local, ghosts
<1>2. clock \in Nat /\ plan \in Plan
  BY DEF IInv, Typed
<1>3. clock' \in Nat /\ plan.time - 1 \in Nat
  BY <1>1, <1>2 DEF Plan
<1>4. plan' \in Plan /\ plan'.on = plan.on /\ plan'.fresh = plan.fresh
  BY <1>1, <1>2, <1>3 DEF Plan
<1> QED BY <1>1, <1>3, <1>4, KeepsTime

\* The server is restarted with an idle window.
LEMMA KeepsExpiryOn == ASSUME IInv, expiry_on PROVE IInv'
<1>1. UNCHANGED <<vaults, record, acked, reborn, disk, keys, kept, spoiled, cmd, clock, plan>>
  BY DEF expiry_on, server, local, ghosts
<1>2. clock \in Nat /\ plan \in Plan
  BY DEF IInv, Typed
<1> QED BY <1>1, <1>2, KeepsTime

\* It holds at first: every workload starts from a whole tree, or from none.
LEMMA InitIInv == Init => IInv
<1> SUFFICES ASSUME Init PROVE IInv
  OBVIOUS
<1>1. plan \in Workloads /\ plan \in Plan
  BY EnvironmentsAssumption DEF Init, Plan
<1>2. /\ plan.nodes \subseteq Nodes /\ \A n \in plan.nodes \ {1} : Parent[n] \in plan.nodes
      /\ plan.fresh => plan.nodes = {} /\ plan.ready = {}
  BY <1>1, EnvironmentsAssumption DEF Plan
<1>3. NoCmd \in Cmd /\ Shape(NoCmd) /\ NoCmd.at = "idle"
  BY IdleKnows
<1>4. /\ cmd \in [Procs -> Cmd] /\ \A p \in Procs : cmd[p] = NoCmd
  BY <1>3 DEF Init
<1>5. NoRecord \in Children /\ NoRecord.kids = {}
  BY DEF NoRecord, Children
<1> DEFINE first(n) == [ver |-> 1, kids |-> {k \in plan.nodes \ {1} : Parent[k] = n}]
<1>6. \A n \in Nodes : /\ first(n) \in Children /\ first(n).ver = 1
                       /\ first(n).kids = {k \in plan.nodes \ {1} : Parent[k] = n}
  BY <1>2 DEF Children
<1>7. record = [n \in Nodes |-> IF n \notin plan.nodes THEN NoRecord ELSE first(n)]
  BY DEF Init
<1> HIDE DEF first
<1>8. /\ record \in [Nodes -> Children]
      /\ \A n \in Nodes : n \notin plan.nodes => record[n] = NoRecord
      /\ \A n \in Nodes : n \in plan.nodes => record[n] = first(n)
  BY <1>5, <1>6, <1>7
<1>9. acked \in [Nodes -> Int] /\ \A n \in Nodes : acked[n] > 0 => n \in plan.nodes \ {1}
  BY DEF Init
<1>10. Records
  <2>1. \A n \in Nodes : record[n].ver = 0 => record[n].kids = {}
    BY <1>5, <1>6, <1>8
  <2>2. AddedStaysListed
    <3> SUFFICES ASSUME NEW n \in 2..N, acked[n] > 0
                 PROVE  Parent[n] \in vaults /\ n \in record[Parent[n]].kids
      BY DEF AddedStaysListed
    <3>1. n \in plan.nodes \ {1} /\ Parent[n] \in Nodes
      BY <1>9, TreeDown
    <3>2. Parent[n] \in plan.nodes /\ vaults = plan.nodes
      BY <1>2, <3>1 DEF Init
    <3> QED BY <1>6, <1>8, <3>1, <3>2
  <2> QED BY <2>1, <2>2 DEF Records
<1>11. /\ disk \in [Machines -> State] /\ \A m \in Machines : m \notin plan.ready => disk[m].held = {}
  <2> DEFINE whole == [Nothing EXCEPT !.held = {1}, !.tree = plan.nodes]
  <2>1. Nothing \in State /\ Nothing.held = {}
    BY DEF Nothing, State
  <2>2. whole \in State
    BY <1>2, <2>1, TreeDown DEF State
  <2>3. disk = [m \in Machines |-> IF m \in plan.ready THEN whole ELSE Nothing]
    BY DEF Init
  <2> HIDE DEF whole
  <2> QED BY <2>1, <2>2, <2>3
<1>12. \A m \in Machines : disk[m].held \in SUBSET Nodes
  BY <1>11 DEF State
<1>13. /\ keys = [m \in Machines |-> disk[m].held] /\ kept = [m \in Machines |-> disk[m].held]
       /\ spoiled = [m \in Machines |-> FALSE]
  BY DEF Init
<1>14. Typed
  <2>1. vaults \subseteq Nodes /\ reborn \in BOOLEAN /\ clock \in Nat
    BY <1>2 DEF Init
  <2>2. /\ keys \in [Machines -> SUBSET Nodes] /\ kept \in [Machines -> SUBSET Nodes]
        /\ spoiled \in [Machines -> BOOLEAN]
    BY <1>12, <1>13
  <2> QED BY <1>1, <1>4, <1>8, <1>9, <1>11, <2>1, <2>2 DEF Typed
<1>15. Fresh
  BY <1>2, <1>3, <1>4, <1>11 DEF Fresh, Init
<1>16. ASSUME NEW m \in Machines PROVE Holds(m)
  <2>1. On(m) = {}
    BY <1>3, <1>4 DEF On
  <2>2. kept[m] = disk[m].held /\ keys[m] = disk[m].held
    BY <1>13
  <2> QED BY <2>1, <2>2 DEF Holds
<1>17. \A p \in Procs : /\ Shape(cmd[p]) /\ Reads(cmd[p], vaults, record, reborn)
                        /\ Explores(cmd[p], acked, reborn)
  BY <1>4, IdleKnows
<1> QED BY <1>10, <1>14, <1>15, <1>16, <1>17 DEF IInv

\* Every step keeps it.
LEMMA NextIInv == IInv /\ [Next]_vars => IInv'
<1> SUFFICES ASSUME IInv, [Next]_vars PROVE IInv'
  OBVIOUS
<1>1. CASE UNCHANGED vars
  <2>1. UNCHANGED <<vaults, record, acked, reborn, disk, keys, kept, spoiled, cmd, clock, plan>>
    BY <1>1 DEF vars, server, local, time, ghosts
  <2>2. clock \in Nat /\ plan \in Plan
    BY DEF IInv, Typed
  <2> QED BY <2>1, <2>2, KeepsTime
<1>2. CASE tick
  BY <1>2, KeepsTick
<1>3. CASE expiry_on
  BY <1>3, KeepsExpiryOn
<1>4. ASSUME NEW p \in Procs, Command(p) PROVE IInv'
  <2>1. CASE begin_init(p)
    BY <2>1, KeepsBeginInit
  <2>2. ASSUME NEW n \in Nodes, \/ env_add(p, n) \/ env_repair(p, n) \/ refresh(p, n)
                                \/ import(p, n) \/ use(p, n)
                                \/ \E recursive \in BOOLEAN : env_remove(p, n, recursive)
        PROVE  IInv'
    BY <2>2, KeepsEnvAdd, KeepsEnvRepair, KeepsRefresh, KeepsImport, KeepsUse, KeepsEnvRemove
  <2> QED BY <1>4, <2>1, <2>2 DEF Command
<1>5. ASSUME NEW p \in Procs, Request(p) PROVE IInv'
  BY <1>5, KeepsOpenOwner, KeepsKeepAlive, KeepsKeptAlive, KeepsCheck, KeepsCreate,
     KeepsCreateEmpty, KeepsChildren, KeepsPutChildren, KeepsDiscoverNext, KeepsDiscovered,
     KeepsDeleteVault, KeepsDeleted, KeepsSaves DEF Request
<1>6. ASSUME NEW p \in Procs, interrupt(p) PROVE IInv'
  BY <1>6, KeepsInterrupt
<1> QED BY <1>1, <1>2, <1>3, <1>4, <1>5, <1>6 DEF Next

\* The inductive invariant holds in every reachable state.
THEOREM EnvironmentsInvariant == Spec => []IInv
BY InitIInv, NextIInv, PTL DEF Spec

-----------------------------------------------------------------------------
(* What follows. *)

\* An addition that reached its parent's record stays listed there until a
\* removal takes it off, whatever any number of clients write meanwhile: the
\* record is only written when it is what was read (Handle::update_children).
THEOREM EnvironmentsAddedStaysListed == Spec => []AddedStaysListed
<1>1. IInv => AddedStaysListed
  BY DEF IInv, Records
<1> QED BY <1>1, EnvironmentsInvariant, PTL

\* A machine on which no two commands overlapped and no removal was cut short
\* can read every key it holds and has lost none, wherever its commands were
\* interrupted.
THEOREM EnvironmentsHeldKept == Spec => []HeldKept
<1>1. ASSUME IInv PROVE HeldKept
  <2> SUFFICES ASSUME NEW m \in Machines, ~spoiled[m],
                      \A p \in Procs : Machine(p) = m => cmd[p].at = "idle"
               PROVE  disk[m].held \subseteq keys[m] /\ kept[m] \subseteq disk[m].held
    BY DEF HeldKept
  <2>1. On(m) = {}
    BY DEF On
  <2>2. Holds(m)
    BY <1>1 DEF IInv
  <2> QED BY <2>1, <2>2 DEF Holds
<1> QED BY <1>1, EnvironmentsInvariant, PTL

\* The way from a node up to its root is found: were one on it missing, the
\* least such would be listed by one that was found.
LEMMA FindsAll ==
  ASSUME Typed, ~reborn, NEW p \in Procs, Explores(cmd[p], acked, reborn),
         cmd[p].at = "discover", cmd[p].queue = {}, NEW n \in Below(cmd[p].root) \ {cmd[p].root},
         \A k \in (Below(cmd[p].root) \cap Up[n]) \ {cmd[p].root} :
             cmd[p].known[k] > 0 /\ acked[k] = cmd[p].known[k] /\ k \notin cmd[p].lost
  PROVE  n \in cmd[p].found
<1> DEFINE c == cmd[p]
           root == c.root
           Way == Below(root) \cap Up[n]
           T == {k \in Way : Up[k] \subseteq Up[n] /\ k \notin c.found}
<1>1. /\ root \in c.found /\ root \notin c.lost
      /\ \A k \in 2..N :
            Parent[k] \in c.found \ c.lost /\ c.known[k] > 0 /\ acked[k] = c.known[k] => k \in c.found
  BY DEF Explores
<1>2. n \in Nodes /\ root \in Up[n] /\ Below(root) \subseteq Nodes
  BY DEF Below
<1>3. n \in Up[n]
  BY <1>2, UpWorks
<1>4. \A k \in Way \ {root} : c.known[k] > 0 /\ acked[k] = c.known[k] /\ k \notin c.lost
  OBVIOUS
<1> HIDE DEF c
<1> SUFFICES ASSUME T # {} PROVE FALSE
  BY <1>2, <1>3 DEF Below, c
<1>5. T \in SUBSET Nat
  BY <1>2, TreeDown
<1>6. PICK k \in T : \A j \in T : k <= j
  BY <1>5, LeastNat
<1>7. k \in Nodes /\ root \in Up[k] /\ k \in Up[n] /\ Up[k] \subseteq Up[n] /\ k \notin c.found
  BY <1>6 DEF Below
<1>8. k # root
  BY <1>1, <1>7
<1>9. k # 1
  BY <1>7, <1>8, UpTop
<1>10. /\ Parent[k] \in Nodes /\ Parent[k] < k /\ k \in 2..N /\ Up[k] = {k} \cup Up[Parent[k]]
  BY <1>7, <1>9, TreeDown, UpWorks
<1>11. Parent[k] \in Up[Parent[k]]
  BY <1>10, UpWorks
<1>12. Parent[k] \in Way /\ Up[Parent[k]] \subseteq Up[n]
  BY <1>7, <1>8, <1>10, <1>11 DEF Below
<1>13. Parent[k] \notin T
  <2>1. k \in Nat /\ Parent[k] \in Nat /\ ~(k <= Parent[k])
    BY <1>7, <1>10, TreeDown
  <2> QED BY <1>6, <2>1
<1>14. Parent[k] \in c.found
  BY <1>12, <1>13
<1>15. Parent[k] \notin c.lost
  BY <1>1, <1>4, <1>12
<1>16. c.known[k] > 0 /\ acked[k] = c.known[k]
  BY <1>4, <1>6, <1>8
<1> QED BY <1>1, <1>7, <1>10, <1>14, <1>15, <1>16

\* A discovery that ends knows every environment below its root that was
\* listed when it began and has stayed, unless something above it was removed
\* or did not open, in a tree of any depth: what a removal deletes is decided
\* on that (Owner::discover_from).
THEOREM EnvironmentsDiscoversListed == Spec => []DiscoversListed
<1>1. ASSUME IInv PROVE DiscoversListed
  <2> SUFFICES ASSUME NEW p \in Procs, cmd[p].at = "discover", cmd[p].queue = {}, ~reborn,
                      NEW n \in Below(cmd[p].root) \ {cmd[p].root},
                      \A k \in (Below(cmd[p].root) \cap Up[n]) \ {cmd[p].root} :
                          cmd[p].known[k] > 0 /\ acked[k] = cmd[p].known[k] /\ k \notin cmd[p].lost
               PROVE  n \in found_tree(cmd[p])
    BY DEF DiscoversListed
  <2>1. Typed /\ Explores(cmd[p], acked, reborn)
    BY <1>1 DEF IInv
  <2>2. n \in cmd[p].found
    BY <2>1, FindsAll
  <2> QED BY <2>2 DEF found_tree
<1> QED BY <1>1, EnvironmentsInvariant, PTL

-----------------------------------------------------------------------------
(* AncestorsOutlive: what the machines remember of the server's times. *)

\* No machine holds the key of an environment that is in daily use, or above
\* one, but the project's: keep_alive reaches no further up than the key held.
RootHeld == \A m \in Machines : disk[m].held \cap Up[plan.daily] \subseteq {1}

\* What a machine noted of x is no newer than what the server has, but for
\* the granularity.
Told(st, x, vs, sn) == x \in vs => st.touched[x] <= sn[x] + Granularity

\* A machine that knows an environment of D knows the one above, and what it
\* noted of that one can be relied upon.
Knows(st, D, vs, sn) ==
    \A k \in (st.tree \cap D) \ {1} : Parent[k] \in st.tree /\ Told(st, Parent[k], vs, sn)

Notes(st, D, vs, sn, t) ==
    Knows(st, D, vs, sn) /\ st.held \cap D \subseteq {1} /\ \A x \in Nodes : st.touched[x] <= t

\* A discovery saw the parent of whatever it found.
Seeks(c, D, vs, sn) ==
    c.at = "discover" =>
        /\ c.roots \cap D \subseteq {1} /\ c.lost \subseteq c.found
        /\ c.root \in D \ {1} => c.root \in c.st.tree \/ (c.name = "import" /\ c.n = c.root)
        /\ \A k \in (c.queue \cup c.found) \ {c.root} :
              k # 1 /\ Parent[k] \in c.found /\ Told(c.st, Parent[k], vs, sn)

\* What a command changes.
Changes(c) ==
    /\ c.at = "delete" => c.st.tree \cap Below(c.n) \subseteq c.todo /\ c.todo \subseteq Below(c.n)
    /\ c.name = "add" /\ c.at \notin {"idle", "save"} => c.n \notin c.st.tree /\ Parent[c.n] \in c.st.tree
    /\ c.name = "repair" /\ c.at \in {"read", "write"} => c.target = c.n
    /\ c.at = "write" => \A k \in c.read.kids : k # 1 /\ Parent[k] = c.target

\* A use of the environment in daily use has seen to what is above it, but
\* for what is left to do.
Late == Day - 1 + Granularity
Uses(c, d, vs, sn, ex, t) ==
    c.name = "use" =>
        /\ c.at \in {"idle", "open", "alive", "save"}
        /\ c.n \in c.st.tree /\ c.st.held \cap Up[c.n] # {}
        /\ c.at = "alive" /\ c.todo # {} =>
              /\ ex /\ c.todo \subseteq Above(c.n) /\ c.todo \cap c.st.no_expiry = {}
        /\ c.at \in {"alive", "save"} /\ c.n = d /\ ex =>
              \A x \in Up[d] \cap vs : (c.at = "alive" /\ x \in c.todo) \/ t <= sn[x] + Late

Minds(c, d, vs, sn, ex, t) ==
    /\ Notes(c.st, Up[d], vs, sn, t) /\ Seeks(c, Up[d], vs, sn) /\ Changes(c)
    /\ Uses(c, d, vs, sn, ex, t)

\* The server's times are in the past.
Times(sn, t) == sn \in [Nodes -> Nat] /\ \A x \in Nodes : sn[x] <= t

\* A children record lists children.
Lists(rec) == \A n \in Nodes : \A k \in rec[n].kids : k # 1 /\ Parent[k] = n

Daily ==
    /\ Times(seen, clock) /\ used \in Nat /\ expires \in BOOLEAN
    /\ used <= clock /\ clock <= used + Day
    /\ expires => \A x \in Up[plan.daily] \cap vaults : used <= seen[x] + Late
    /\ Lists(record)
    /\ \A m \in Machines : Notes(disk[m], Up[plan.daily], vaults, seen, clock)
    /\ \A p \in Procs : Minds(cmd[p], plan.daily, vaults, seen, expires, clock)

\* What is above a node is no greater, and what is above that is above it.
LEMMA UpUp ==
  ASSUME NEW n \in Nodes
  PROVE  /\ n \in Up[n]
         /\ \A m \in Up[n] : m \in Nodes /\ m <= n /\ Up[m] \subseteq Up[n]
<1> DEFINE Good(k) == \A m \in Up[k] : m \in Nodes /\ m <= k /\ Up[m] \subseteq Up[k]
           T == {k \in Nodes : ~Good(k)}
<1>1. n \in Up[n]
  BY UpWorks
<1> SUFFICES ASSUME T # {} PROVE FALSE
  BY <1>1
<1>2. T \in SUBSET Nat
  BY TreeDown
<1>3. PICK k \in T : \A j \in T : k <= j
  BY <1>2, LeastNat
<1>4. k \in Nodes /\ k \in Nat /\ ~Good(k)
  BY <1>3, TreeDown
<1>5. k # 1
  BY <1>4, UpTop, TreeDown
<1>6. /\ Parent[k] \in Nodes /\ Parent[k] \in Nat /\ Parent[k] < k
      /\ Up[k] = {k} \cup Up[Parent[k]]
  BY <1>4, <1>5, TreeDown, UpWorks
<1>7. Good(Parent[k])
  BY <1>3, <1>4, <1>6
<1>8. ASSUME NEW m \in Up[k] PROVE m \in Nodes /\ m <= k /\ Up[m] \subseteq Up[k]
  <2>1. CASE m = k
    BY <1>4, <2>1
  <2>2. CASE m # k
    <3>1. m \in Nodes /\ m <= Parent[k] /\ Up[m] \subseteq Up[Parent[k]]
      BY <1>6, <1>7, <2>2
    <3>2. m \in Nat
      BY <3>1, TreeDown
    <3> QED BY <1>4, <1>6, <3>1, <3>2
  <2> QED BY <2>1, <2>2
<1> QED BY <1>4, <1>8

\* The server goes on: a vault stays with a time no earlier, or is made now.
Goes(vs, sn, vs2, sn2, t) == \A x \in vs2 : (x \in vs /\ sn[x] <= sn2[x]) \/ sn2[x] = t

\* What was noted stays so.
LEMMA ToldKept ==
  ASSUME NEW st \in State, NEW x \in Nodes, NEW vs, NEW sn, NEW vs2 \in SUBSET Nodes, NEW sn2,
         NEW t \in Nat, Times(sn, t), Times(sn2, t), Goes(vs, sn, vs2, sn2, t),
         st.touched[x] <= t, Told(st, x, vs, sn)
  PROVE  Told(st, x, vs2, sn2)
<1>1. st.touched[x] \in Int /\ sn[x] \in Nat /\ sn2[x] \in Nat /\ Granularity \in Nat
  BY EnvironmentsAssumption DEF State, Times
<1> SUFFICES ASSUME x \in vs2 PROVE st.touched[x] <= sn2[x] + Granularity
  BY DEF Told
<1>2. CASE x \in vs /\ sn[x] <= sn2[x]
  BY <1>1, <1>2 DEF Told
<1>3. CASE sn2[x] = t
  BY <1>1, <1>3
<1> QED BY <1>2, <1>3 DEF Goes

LEMMA NotesKept ==
  ASSUME NEW st \in State, NEW D \in SUBSET Nodes, NEW vs, NEW sn, NEW vs2 \in SUBSET Nodes, NEW sn2,
         NEW t \in Nat, Times(sn, t), Times(sn2, t), Goes(vs, sn, vs2, sn2, t),
         Notes(st, D, vs, sn, t)
  PROVE  Notes(st, D, vs2, sn2, t)
<1>1. \A k \in (st.tree \cap D) \ {1} : Parent[k] \in Nodes
  BY TreeDown
<1>2. \A k \in (st.tree \cap D) \ {1} : Told(st, Parent[k], vs2, sn2)
  BY <1>1, ToldKept DEF Notes, Knows
<1> QED BY <1>2 DEF Notes, Knows

\* So does what a command is about.
LEMMA MindsKept ==
  ASSUME NEW c \in Cmd, NEW d \in Nodes, NEW vs, NEW sn, NEW vs2 \in SUBSET Nodes, NEW sn2,
         NEW ex, NEW t \in Nat, Times(sn, t), Times(sn2, t), Goes(vs, sn, vs2, sn2, t),
         Minds(c, d, vs, sn, ex, t)
  PROVE  Minds(c, d, vs2, sn2, ex, t)
<1>1. c.st \in State /\ c.queue \cup c.found \subseteq Nodes
  BY DEF Cmd
<1>2. Up[d] \in SUBSET Nodes
  BY UpUp
<1>3. Notes(c.st, Up[d], vs2, sn2, t)
  BY <1>1, <1>2, NotesKept DEF Minds
<1>4. Seeks(c, Up[d], vs2, sn2)
  <2> SUFFICES ASSUME c.at = "discover" PROVE Seeks(c, Up[d], vs2, sn2)
    BY DEF Seeks
  <2>1. ASSUME NEW k \in (c.queue \cup c.found) \ {c.root}
        PROVE  Told(c.st, Parent[k], vs2, sn2)
    <3>1. k # 1 /\ Told(c.st, Parent[k], vs, sn)
      BY DEF Minds, Seeks
    <3>2. Parent[k] \in Nodes
      BY <1>1, <3>1, TreeDown
    <3>3. c.st.touched[Parent[k]] <= t
      BY <3>2 DEF Minds, Notes
    <3> QED BY <1>1, <3>1, <3>2, <3>3, ToldKept
  <2> QED BY <2>1 DEF Minds, Seeks
<1>5. Uses(c, d, vs2, sn2, ex, t)
  <2>1. ASSUME NEW x \in Up[d] \cap vs2, (x \in vs => t <= sn[x] + Late)
        PROVE  t <= sn2[x] + Late
    <3>1. sn[x] \in Nat /\ sn2[x] \in Nat /\ Late \in Nat
      BY EnvironmentsAssumption DEF Times, Late
    <3> QED BY <2>1, <3>1 DEF Goes
  <2> QED BY <2>1 DEF Minds, Uses
<1> QED BY <1>3, <1>4, <1>5 DEF Minds

\* A request touches a vault.
LEMMA TouchGoes ==
  ASSUME Typed, Times(seen, clock), NEW n \in Nodes, touch(n)
  PROVE  /\ Times(seen', clock) /\ Goes(vaults, seen, vaults, seen', clock)
         /\ clock <= seen'[n] + Granularity
<1>1. seen \in [Nodes -> Nat] /\ clock \in Nat /\ Granularity \in Nat /\ vaults \subseteq Nodes
  BY EnvironmentsAssumption DEF Typed, Times
<1>2. \A x \in Nodes : seen'[x] = IF x = n /\ seen[n] < clock - Granularity THEN clock ELSE seen[x]
  BY <1>1 DEF touch
<1>3. seen' \in [Nodes -> Nat]
  BY <1>1 DEF touch
<1>4. \A x \in Nodes : seen[x] \in Nat /\ seen[x] <= clock
  BY DEF Times
<1>5. Times(seen', clock)
  BY <1>1, <1>2, <1>3, <1>4 DEF Times
<1>6. \A x \in vaults : seen[x] <= seen'[x]
  BY <1>1, <1>2, <1>4
<1>7. clock <= seen'[n] + Granularity
  BY <1>1, <1>2, <1>4
<1> QED BY <1>5, <1>6, <1>7 DEF Goes

\* A command that has ended minds nothing.
LEMMA IdleMinds ==
  ASSUME NEW d \in Nodes, NEW vs, NEW sn, NEW ex, NEW t \in Nat
  PROVE  Minds(NoCmd, d, vs, sn, ex, t)
<1>1. /\ NoCmd.at = "idle" /\ NoCmd.name = "ls" /\ NoCmd.st.tree = {} /\ NoCmd.st.held = {}
      /\ NoCmd.st.touched = [x \in Nodes |-> -1]
  BY DEF NoCmd, Nothing
<1>2. Notes(NoCmd.st, Up[d], vs, sn, t)
  BY <1>1 DEF Notes, Knows
<1> QED BY <1>1, <1>2 DEF Minds, Seeks, Changes, Uses

\* A step of process p, which minds c from then on.
LEMMA DailyStep ==
  ASSUME Typed, Typed', Daily, NEW p \in Procs, NEW c, Step(p, c),
         UNCHANGED <<clock, expires>>, plan'.daily = plan.daily,
         Times(seen', clock), Goes(vaults, seen, vaults', seen', clock), Lists(record'),
         Minds(c, plan.daily, vaults', seen', expires, clock),
         \A m \in Machines : disk'[m] = disk[m]
                             \/ Notes(disk'[m], Up[plan.daily], vaults', seen', clock),
         \/ used' = used
         \/ /\ used' = clock
            /\ expires => \A x \in Up[plan.daily] \cap vaults' : clock <= seen'[x] + Late
  PROVE  Daily'
<1> DEFINE d == plan.daily
<1>1. /\ clock \in Nat /\ d \in Nodes /\ vaults' \in SUBSET Nodes /\ Up[d] \in SUBSET Nodes
      /\ cmd \in [Procs -> Cmd] /\ disk \in [Machines -> State]
  BY UpUp DEF Typed, Plan
<1>2. Times(seen, clock) /\ used \in Nat /\ used <= clock /\ clock <= used + Day /\ Day \in Nat
  BY EnvironmentsAssumption DEF Daily, Times
<1>3. cmd'[p] = c /\ \A q \in Procs \ {p} : cmd'[q] = cmd[q]
  BY <1>1 DEF Step
<1>4. ASSUME NEW q \in Procs PROVE Minds(cmd'[q], d, vaults', seen', expires, clock)
  <2>1. CASE q = p
    BY <1>3, <2>1
  <2>2. CASE q # p
    <3>1. cmd[q] \in Cmd /\ Minds(cmd[q], d, vaults, seen, expires, clock)
      BY <1>1 DEF Daily
    <3>2. Minds(cmd[q], d, vaults', seen', expires, clock)
      BY <1>1, <1>2, <3>1, MindsKept
    <3> QED BY <1>3, <2>2, <3>2
  <2> QED BY <2>1, <2>2
<1>5. ASSUME NEW m \in Machines PROVE Notes(disk'[m], Up[d], vaults', seen', clock)
  <2>1. CASE disk'[m] = disk[m]
    <3>1. disk[m] \in State /\ Notes(disk[m], Up[d], vaults, seen, clock)
      BY <1>1 DEF Daily
    <3>2. Notes(disk[m], Up[d], vaults', seen', clock)
      BY <1>1, <1>2, <3>1, NotesKept
    <3> QED BY <2>1, <3>2
  <2> QED BY <2>1
<1>6. used' \in Nat /\ used' <= clock /\ clock <= used' + Day
  BY <1>1, <1>2
<1>7. ASSUME expires, NEW x \in Up[d] \cap vaults' PROVE used' <= seen'[x] + Late
  <2>1. /\ seen[x] \in Nat /\ seen'[x] \in Nat /\ Late \in Nat
        /\ x \in vaults => used <= seen[x] + Late
    BY <1>1, <1>2, <1>7, EnvironmentsAssumption DEF Times, Late, Daily
  <2>2. CASE used' = used
    <3>1. CASE x \in vaults /\ seen[x] <= seen'[x]
      BY <1>2, <2>1, <2>2, <3>1
    <3>2. CASE seen'[x] = clock
      BY <1>1, <1>2, <2>1, <2>2, <3>2
    <3> QED BY <3>1, <3>2 DEF Goes
  <2>3. CASE used' # used
    BY <1>7, <2>3
  <2> QED BY <2>2, <2>3
<1>8. (expires \in BOOLEAN)'
  BY DEF Daily
<1> QED BY <1>4, <1>5, <1>6, <1>7, <1>8 DEF Daily

-----------------------------------------------------------------------------
(* Commands start. *)

LEMMA DailyStarts ==
  ASSUME Typed, Typed', Daily, NEW p \in Procs, NEW name, NEW c, start(p, name, c),
         c.st = disk[Machine(p)], Seeks(c, Up[plan.daily], vaults, seen), Changes(c),
         Uses(c, plan.daily, vaults, seen, expires, clock)
  PROVE  Daily'
<1>1. /\ UNCHANGED <<vaults, record, seen, clock, expires, used, disk>> /\ Step(p, c)
      /\ plan' = [plan EXCEPT !.commands = @ - 1, !.fresh = @ /\ name # "init"]
  BY DEF start, server, local, time
<1>2. plan'.daily = plan.daily /\ Machine(p) \in Machines
  BY <1>1 DEF Typed, Plan, Machine
<1>3. Times(seen, clock) /\ Lists(record) /\ Notes(c.st, Up[plan.daily], vaults, seen, clock)
  BY <1>2 DEF Daily
<1>4. Minds(c, plan.daily, vaults, seen, expires, clock)
  BY <1>3 DEF Minds
<1>5. Goes(vaults, seen, vaults, seen, clock)
  <2>1. \A x \in vaults : seen[x] \in Nat
    BY <1>3 DEF Times, Typed
  <2> QED BY <2>1 DEF Goes
<1>6. /\ Times(seen', clock) /\ Goes(vaults, seen, vaults', seen', clock) /\ Lists(record')
      /\ Minds(c, plan.daily, vaults', seen', expires, clock)
  BY <1>1, <1>3, <1>4, <1>5
<1>7. used' = used /\ \A m \in Machines : disk'[m] = disk[m]
  BY <1>1
<1> QED BY <1>1, <1>2, <1>6, <1>7, DailyStep

LEMMA DailyBeginInit ==
  ASSUME Typed, Typed', Daily, NEW p \in Procs, begin_init(p) PROVE Daily'
<1> DEFINE c == load(p, "init", 1)
           e == [c EXCEPT !.at = "create"]
<1>1. start(p, "init", e)
  BY DEF begin_init
<1>2. c \in Cmd /\ c.name = "init" /\ c.st = disk[Machine(p)]
  BY Loads, TreeDown DEF Commands
<1> HIDE DEF c
<1>3. e.at = "create" /\ e.name = "init" /\ e.st = disk[Machine(p)]
  BY <1>2 DEF Cmd
<1> HIDE DEF e
<1> QED BY <1>1, <1>3, DailyStarts DEF Seeks, Changes, Uses

LEMMA DailyEnvAdd ==
  ASSUME Typed, Typed', Daily, NEW p \in Procs, NEW n \in Nodes, env_add(p, n) PROVE Daily'
<1> DEFINE c == load(p, "add", n)
           todo == ancestors(c.st, Parent[n])
           e == [c EXCEPT !.at = "alive", !.todo = todo]
<1>1. /\ start(p, "add", e) /\ Parent[n] \in c.st.tree /\ n \notin c.st.tree
  BY DEF env_add, require_known
<1>2. c \in Cmd /\ c.name = "add" /\ c.n = n /\ c.st = disk[Machine(p)]
  BY Loads DEF Commands
<1> HIDE DEF c, todo
<1>3. e.at = "alive" /\ e.name = "add" /\ e.n = n /\ e.st = c.st
  BY <1>2 DEF Cmd
<1> HIDE DEF e
<1> QED BY <1>1, <1>2, <1>3, DailyStarts DEF Seeks, Changes, Uses

LEMMA DailyEnvRepair ==
  ASSUME Typed, Typed', Daily, NEW p \in Procs, NEW n \in Nodes, env_repair(p, n) PROVE Daily'
<1> DEFINE c == load(p, "repair", n)
           e == [c EXCEPT !.at = "create"]
<1>1. start(p, "repair", e)
  BY DEF env_repair
<1>2. c \in Cmd /\ c.name = "repair" /\ c.st = disk[Machine(p)]
  BY Loads DEF Commands
<1> HIDE DEF c
<1>3. e.at = "create" /\ e.name = "repair" /\ e.st = disk[Machine(p)]
  BY <1>2 DEF Cmd
<1> HIDE DEF e
<1> QED BY <1>1, <1>3, DailyStarts DEF Seeks, Changes, Uses

LEMMA DailyUse ==
  ASSUME Typed, Typed', Daily, NEW p \in Procs, NEW n \in Nodes, use(p, n) PROVE Daily'
<1> DEFINE c == load(p, "use", n)
           e == [c EXCEPT !.at = "open"]
<1>1. start(p, "use", e) /\ n \in c.st.tree /\ c.st.held \cap Up[n] # {}
  BY DEF use, require_known, chain
<1>2. c \in Cmd /\ c.name = "use" /\ c.n = n /\ c.st = disk[Machine(p)]
  BY Loads DEF Commands
<1> HIDE DEF c
<1>3. e.at = "open" /\ e.name = "use" /\ e.n = n /\ e.st = c.st
  BY <1>2 DEF Cmd
<1> HIDE DEF e
<1> QED BY <1>1, <1>2, <1>3, DailyStarts DEF Seeks, Changes, Uses

\* A discovery has only its root to look at.
LEMMA SeeksStart ==
  ASSUME Typed, NEW c \in Cmd, NEW root \in Nodes, NEW roots \in SUBSET Nodes, NEW D, NEW vs, NEW sn,
         NEW e, e = discover_from(c, root, roots), roots \cap D \subseteq {1},
         root \in D \ {1} => root \in c.st.tree \/ (c.name = "import" /\ c.n = root)
  PROVE  /\ Seeks(e, D, vs, sn) /\ e.at = "discover" /\ e.name = c.name /\ e.n = c.n /\ e.st = c.st
<1>1. /\ e.at = "discover" /\ e.name = c.name /\ e.n = c.n /\ e.st = c.st
  BY Discovers
<1>2. e.root = root /\ e.roots = roots /\ e.queue = {root} /\ e.found = {} /\ e.lost = {}
  BY DEF discover_from, Cmd
<1> QED BY <1>1, <1>2 DEF Seeks

LEMMA DailyEnvRemove ==
  ASSUME Typed, Typed', Daily, NEW p \in Procs, NEW n \in Nodes, NEW recursive \in BOOLEAN,
         env_remove(p, n, recursive)
  PROVE  Daily'
<1> DEFINE b == load(p, "rm", n)
           c == [b EXCEPT !.recursive = recursive]
           e == discover_from(c, n, {})
<1>1. start(p, "rm", e) /\ n \in c.st.tree
  BY DEF env_remove, require_known
<1>2. b \in Cmd /\ b.name = "rm" /\ b.st = disk[Machine(p)]
  BY Loads DEF Commands
<1> HIDE DEF b
<1>3. c \in Cmd /\ c.name = "rm" /\ c.st = disk[Machine(p)]
  BY <1>2 DEF Cmd
<1> HIDE DEF c
<1>4. /\ Seeks(e, Up[plan.daily], vaults, seen) /\ e.at = "discover" /\ e.name = "rm"
      /\ e.st = disk[Machine(p)]
  BY <1>1, <1>3, SeeksStart
<1> HIDE DEF e
<1> QED BY <1>1, <1>4, DailyStarts DEF Changes, Uses

LEMMA DailyRefresh ==
  ASSUME Typed, Typed', Daily, NEW p \in Procs, NEW n \in Nodes, refresh(p, n) PROVE Daily'
<1> DEFINE c == load(p, "ls", 1)
           e == discover_from(c, n, c.st.held \ {n})
<1>1. start(p, "ls", e) /\ n \in c.st.held
  BY DEF refresh
<1>2. c \in Cmd /\ c.name = "ls" /\ c.st = disk[Machine(p)]
  BY Loads, TreeDown DEF Commands
<1>3. c.st \in State /\ c.st.held \in SUBSET Nodes
  BY <1>2 DEF Cmd, State
<1>4. c.st.held \cap Up[plan.daily] \subseteq {1}
  BY <1>2 DEF Daily, Notes, Typed, Plan, Machine
<1> HIDE DEF c
<1>5. /\ Seeks(e, Up[plan.daily], vaults, seen) /\ e.at = "discover" /\ e.name = "ls"
      /\ e.st = disk[Machine(p)]
  BY <1>1, <1>2, <1>3, <1>4, SeeksStart
<1> HIDE DEF e
<1> QED BY <1>1, <1>5, DailyStarts DEF Changes, Uses

LEMMA DailyImport ==
  ASSUME Typed, Typed', Daily, NEW p \in Procs, NEW n \in Nodes, import(p, n) PROVE Daily'
<1> DEFINE c == load(p, "import", n)
           e == discover_from(c, n, {})
<1>1. start(p, "import", e)
  BY DEF import
<1>2. c \in Cmd /\ c.name = "import" /\ c.n = n /\ c.st = disk[Machine(p)]
  BY Loads DEF Commands
<1> HIDE DEF c
<1>3. /\ Seeks(e, Up[plan.daily], vaults, seen) /\ e.at = "discover" /\ e.name = "import"
      /\ e.st = disk[Machine(p)]
  BY <1>2, SeeksStart
<1> HIDE DEF e
<1> QED BY <1>1, <1>3, DailyStarts DEF Changes, Uses

-----------------------------------------------------------------------------
(* A use keeps what is above it alive. *)

\* The project is above every node.
LEMMA UpOne == ASSUME NEW n \in Nodes PROVE 1 \in Up[n]
<1> DEFINE T == {k \in Nodes : 1 \notin Up[k]}
<1> SUFFICES ASSUME T # {} PROVE FALSE
  OBVIOUS
<1>1. T \in SUBSET Nat
  BY TreeDown
<1>2. PICK k \in T : \A j \in T : k <= j
  BY <1>1, LeastNat
<1>3. k \in Nodes /\ k \in Nat /\ k # 1
  BY <1>2, UpTop, TreeDown
<1>4. Parent[k] \in Nodes /\ Parent[k] \in Nat /\ Parent[k] < k /\ Up[k] = {k} \cup Up[Parent[k]]
  BY <1>3, TreeDown, UpWorks
<1>5. Parent[k] \notin T
  BY <1>2, <1>3, <1>4
<1> QED BY <1>2, <1>4, <1>5

\* What is above a node, other than itself, is the parent of one that is.
LEMMA UpChild ==
  ASSUME NEW n \in Nodes, NEW x \in Up[n] \ {n}
  PROVE  \E j \in Up[n] \ {1} : Parent[j] = x
<1> DEFINE Good(k) == x \in Up[k] \ {k} => \E j \in Up[k] \ {1} : Parent[j] = x
           T == {k \in Nodes : ~Good(k)}
<1> SUFFICES ASSUME T # {} PROVE FALSE
  OBVIOUS
<1>1. T \in SUBSET Nat
  BY TreeDown
<1>2. PICK k \in T : \A j \in T : k <= j
  BY <1>1, LeastNat
<1>3. k \in Nodes /\ k \in Nat /\ x \in Up[k] \ {k} /\ ~\E j \in Up[k] \ {1} : Parent[j] = x
  BY <1>2, TreeDown
<1>4. k # 1
  BY <1>3, UpTop
<1>5. Parent[k] \in Nodes /\ Parent[k] \in Nat /\ Parent[k] < k /\ Up[k] = {k} \cup Up[Parent[k]]
  BY <1>3, <1>4, TreeDown, UpWorks
<1>6. Good(Parent[k])
  BY <1>2, <1>3, <1>5
<1> QED BY <1>3, <1>4, <1>5, <1>6

\* A set of nodes has a greatest one.
LEMMA GreatestNode ==
  ASSUME NEW T \in SUBSET Nodes, T # {}
  PROVE  \E x \in T : \A y \in T : y <= x
<1> DEFINE S == {N - x : x \in T}
<1>1. \A x \in T : x \in Nat /\ N - x \in Nat /\ N \in Nat
  BY EnvironmentsAssumption DEF Nodes
<1>2. S \in SUBSET Nat /\ S # {}
  BY <1>1
<1>3. PICK s \in S : \A r \in S : s <= r
  BY <1>2, LeastNat
<1>4. PICK x \in T : s = N - x
  BY <1>3
<1>5. ASSUME NEW y \in T PROVE y <= x
  <2>1. N - x <= N - y
    BY <1>3, <1>4
  <2> QED BY <1>1, <2>1
<1> QED BY <1>5

\* What a machine noted of all that is above an environment it knows can be
\* relied upon.
LEMMA KnowsUp ==
  ASSUME NEW st, NEW d \in Nodes, NEW vs, NEW sn, Knows(st, Up[d], vs, sn), d \in st.tree,
         NEW x \in Up[d] \ {d}
  PROVE  Told(st, x, vs, sn)
<1> DEFINE T == {k \in Up[d] : ~(k \in st.tree /\ (k # d => Told(st, k, vs, sn)))}
<1> SUFFICES ASSUME T # {} PROVE FALSE
  OBVIOUS
<1>1. T \in SUBSET Nodes
  BY UpUp
<1>2. PICK k \in T : \A j \in T : j <= k
  BY <1>1, GreatestNode
<1>3. k \in Up[d] \ {d}
  BY <1>2
<1>4. PICK j \in Up[d] \ {1} : Parent[j] = k
  BY <1>3, UpChild
<1>5. j \in Nodes /\ j \in Nat /\ k \in Nat /\ k < j
  BY <1>4, UpUp, TreeDown
<1>6. j \notin T
  BY <1>2, <1>5
<1>7. j \in st.tree
  BY <1>4, <1>6
<1>8. k \in st.tree /\ Told(st, k, vs, sn)
  BY <1>4, <1>7 DEF Knows
<1> QED BY <1>2, <1>8

\* What a touch adds to what a machine noted.
LEMMA TouchedNotes ==
  ASSUME NEW st \in State, NEW n \in Nodes, NEW D, NEW vs, NEW sn, NEW t \in Nat,
         NEW never \in SUBSET Nodes, Times(sn, t), t <= sn[n] + Granularity, Notes(st, D, vs, sn, t)
  PROVE  /\ Notes(Touched(st, n, t, never), D, vs, sn, t)
         /\ \A y \in Nodes : Told(st, y, vs, sn) => Told(Touched(st, n, t, never), y, vs, sn)
         /\ Told(Touched(st, n, t, never), n, vs, sn)
<1> DEFINE s == Touched(st, n, t, never)
<1>1. st.touched \in [Nodes -> Int]
  BY DEF State
<1>2. /\ s.tree = st.tree /\ s.held = st.held
      /\ \A y \in Nodes : s.touched[y] = IF y = n THEN t ELSE st.touched[y]
  BY <1>1 DEF Touched, State
<1> HIDE DEF s
<1>3. Told(s, n, vs, sn)
  BY <1>2 DEF Told
<1>4. \A y \in Nodes : Told(st, y, vs, sn) => Told(s, y, vs, sn)
  BY <1>2, <1>3 DEF Told
<1>5. \A k \in (s.tree \cap D) \ {1} : Parent[k] \in Nodes
  BY <1>2, TreeDown DEF State
<1>6. Knows(s, D, vs, sn)
  BY <1>2, <1>4, <1>5 DEF Notes, Knows
<1>7. \A y \in Nodes : s.touched[y] <= t
  BY <1>2 DEF Notes
<1> QED BY <1>2, <1>3, <1>4, <1>6, <1>7 DEF Notes, s

\* A command fails.
LEMMA DailyFails ==
  ASSUME Typed, Typed', Daily, NEW p \in Procs, Fail(p), UNCHANGED <<clock, expires, used, disk, plan>>,
         Times(seen', clock), Goes(vaults, seen, vaults', seen', clock), Lists(record')
  PROVE  Daily'
<1>1. Step(p, NoCmd)
  BY DEF Fail
<1>2. Minds(NoCmd, plan.daily, vaults', seen', expires, clock)
  BY IdleMinds DEF Typed, Plan
<1> QED BY <1>1, <1>2, DailyStep

\* The server as it is, and after it was asked for a vault.
LEMMA StillGoes ==
  ASSUME Typed, Daily PROVE Times(seen, clock) /\ Goes(vaults, seen, vaults, seen, clock) /\ Lists(record)
<1>1. Times(seen, clock) /\ Lists(record)
  BY DEF Daily
<1>2. \A x \in vaults : seen[x] \in Nat
  BY <1>1 DEF Times, Typed
<1> QED BY <1>1, <1>2 DEF Goes

LEMMA AskGoes ==
  ASSUME Typed, Daily, NEW n \in Nodes, touch(n) \/ UNCHANGED seen
  PROVE  Times(seen', clock) /\ Goes(vaults, seen, vaults, seen', clock)
<1>1. CASE touch(n)
  BY <1>1, TouchGoes DEF Daily
<1>2. CASE UNCHANGED seen
  BY <1>2, StillGoes
<1> QED BY <1>1, <1>2

\* What a process minds.
LEMMA Mind ==
  ASSUME Typed, Daily, NEW p \in Procs
  PROVE  /\ cmd[p] \in Cmd /\ Minds(cmd[p], plan.daily, vaults, seen, expires, clock)
         /\ plan.daily \in Nodes /\ clock \in Nat /\ cmd[p].st \in State /\ cmd[p].n \in Nodes
         /\ Times(seen, clock) /\ Lists(record) /\ Up[plan.daily] \in SUBSET Nodes
BY UpUp DEF Typed, Plan, Cmd, Daily

\* It minds it after the server went on.
LEMMA MindStill ==
  ASSUME Typed, Typed', Daily, NEW p \in Procs, Times(seen', clock),
         Goes(vaults, seen, vaults', seen', clock)
  PROVE  Minds(cmd[p], plan.daily, vaults', seen', expires, clock)
<1>1. vaults' \in SUBSET Nodes
  BY DEF Typed
<1> QED BY <1>1, Mind, MindsKept

\* A machine that holds no deeper key has the whole way up.
LEMMA WholeLine ==
  ASSUME NEW st \in State, NEW n \in Nodes, st.held \cap Up[n] # {}, st.held \cap Up[n] \subseteq {1}
  PROVE  Up[n] \cap Below(held_root_for(st, n)) = Up[n]
<1>1. st.held \cap Up[n] = {1}
  OBVIOUS
<1>2. Max({1}) = 1
  BY DEF Max
<1>3. held_root_for(st, n) = 1
  BY <1>1, <1>2 DEF held_root_for
<1>4. \A k \in Up[n] : k \in Nodes /\ 1 \in Up[k]
  BY UpUp, UpOne
<1> QED BY <1>3, <1>4 DEF Below

LEMMA DailyOpenOwner ==
  ASSUME Typed, Typed', Daily, NEW p \in Procs, open_owner(p) PROVE Daily'
<1> DEFINE c == cmd[p]
           d == plan.daily
           line == Up[c.n] \cap Below(held_root_for(c.st, c.n))
           st == [c.st EXCEPT !.touched[c.n] = clock,
                              !.no_expiry = IF expires THEN @ \ line ELSE @ \cup line]
           todo == IF expires THEN line \ {c.n} ELSE {}
           e == [c EXCEPT !.at = "alive", !.st = st, !.todo = todo]
<1>1. /\ c.at = "open"
      /\ (Fail(p) /\ UNCHANGED seen) \/ (touch(c.n) /\ Step(p, e))
      /\ UNCHANGED <<vaults, record, clock, expires, used, disk, plan>>
  BY DEF open_owner, server, local
<1>2. /\ c \in Cmd /\ d \in Nodes /\ clock \in Nat /\ c.st \in State /\ c.n \in Nodes
      /\ Times(seen, clock) /\ Lists(record)
  BY Mind
<1>3. Times(seen', clock) /\ Goes(vaults, seen, vaults, seen', clock)
  BY <1>1, <1>2, AskGoes
<1>4. CASE Fail(p) /\ UNCHANGED seen
  BY <1>1, <1>2, <1>3, <1>4, DailyFails
<1>5. CASE touch(c.n) /\ Step(p, e)
  <2>1. clock <= seen'[c.n] + Granularity
    BY <1>2, <1>5, TouchGoes
  <2>2. Minds(c, d, vaults, seen', expires, clock)
    BY <1>1, <1>3, MindStill
  <2> DEFINE gone == IF expires THEN c.st.no_expiry \ line ELSE c.st.no_expiry \cup line
  <2>3. gone \in SUBSET Nodes /\ st = Touched(c.st, c.n, clock, gone) /\ todo \in SUBSET Nodes
    BY <1>2 DEF State, Touched, Below
  <2>4. /\ todo # {} => expires /\ todo \subseteq Above(c.n) /\ todo \cap gone = {}
    BY DEF Above
  <2>5. Notes(st, Up[d], vaults, seen', clock)
    BY <1>2, <1>3, <2>1, <2>2, <2>3, TouchedNotes DEF Minds
  <2>6. st \in State /\ st.tree = c.st.tree /\ st.held = c.st.held /\ st.no_expiry = gone
    BY <1>2, <2>3, TouchedHolds DEF Touched, State
  <2>7. ASSUME c.name = "use", c.n = d, expires, NEW x \in Up[d] \cap vaults
        PROVE  x \in todo \/ clock <= seen'[x] + Late
    <3>1. c.st.held \cap Up[c.n] # {}
      BY <2>2, <2>7 DEF Minds, Uses
    <3>2. c.st.held \cap Up[c.n] \subseteq {1}
      BY <2>2, <2>7 DEF Minds, Notes
    <3>3. line = Up[d]
      BY <1>2, <2>7, <3>1, <3>2, WholeLine
    <3>4. CASE x = c.n
      <4>1. seen'[x] \in Nat /\ Granularity \in Nat /\ Day \in Nat \ {0}
        BY <1>2, <1>3, <3>4, EnvironmentsAssumption DEF Times
      <4> QED BY <1>2, <2>1, <3>4, <4>1 DEF Late
    <3> QED BY <2>7, <3>3, <3>4
  <2> HIDE DEF c, st, todo, gone
  <2>8. e.at = "alive" /\ e.name = c.name /\ e.n = c.n /\ e.st = st /\ e.todo = todo
    BY <1>2, <2>3, <2>6 DEF Cmd
  <2> HIDE DEF e
  <2>9. Changes(e)
    BY <1>1, <2>2, <2>6, <2>8 DEF Minds, Changes
  <2>10. Uses(e, d, vaults, seen', expires, clock)
    <3> SUFFICES ASSUME c.name = "use" PROVE Uses(e, d, vaults, seen', expires, clock)
      BY <2>8 DEF Uses
    <3>1. c.n \in c.st.tree /\ c.st.held \cap Up[c.n] # {}
      BY <2>2 DEF Minds, Uses
    <3> QED BY <2>4, <2>6, <2>7, <2>8, <3>1 DEF Uses
  <2>11. Minds(e, d, vaults, seen', expires, clock)
    BY <2>5, <2>8, <2>9, <2>10 DEF Minds, Seeks
  <2> QED BY <1>1, <1>2, <1>3, <1>5, <2>11, DailyStep
<1> QED BY <1>1, <1>4, <1>5

\* Nothing above the environment in daily use has expired.
LEMMA AllOpen ==
  ASSUME Typed, Daily, NEW x \in Up[plan.daily] \cap vaults PROVE Open(x)
<1>1. /\ seen[x] \in Nat /\ clock \in Nat /\ used \in Nat /\ Day \in Nat \ {0} /\ Granularity \in Nat
      /\ clock <= used + Day /\ Idle \in Nat /\ Idle >= 2 * Day - 1 + Granularity
  BY Mind, EnvironmentsAssumption, IdleAssumption DEF Daily, Times, Typed
<1>2. expires => used <= seen[x] + (Day - 1 + Granularity)
  BY DEF Daily, Late
<1>3. expires => seen[x] + Idle >= clock
  BY <1>1, <1>2
<1> QED BY <1>3 DEF Open

LEMMA DailyKeepAlive ==
  ASSUME Typed, Typed', Daily, NEW p \in Procs, keep_alive(p) PROVE Daily'
<1> DEFINE c == cmd[p]
           d == plan.daily
           x == Min(c.todo)
           e == [c EXCEPT !.todo = @ \ {x}]
           f == [e EXCEPT !.st.touched[x] = clock,
                          !.st.no_expiry = IF expires THEN @ ELSE @ \cup {x}]
<1>1. /\ c.at = "alive" /\ c.todo # {}
      /\ \/ (recent(c.st, x) \/ ~Open(x)) /\ Step(p, e) /\ UNCHANGED seen
         \/ touch(x) /\ Step(p, f)
      /\ UNCHANGED <<vaults, record, clock, expires, used, disk, plan>>
  BY DEF keep_alive, server, local
<1>2. /\ c \in Cmd /\ d \in Nodes /\ clock \in Nat /\ c.st \in State /\ c.n \in Nodes
      /\ Times(seen, clock) /\ Lists(record)
  BY Mind
<1>3. x \in c.todo /\ x \in Nodes
  <2>1. c.todo \subseteq Nodes /\ c.todo \in SUBSET Nat
    BY <1>2, TreeDown DEF Cmd
  <2>2. \E y \in c.todo : \A z \in c.todo : y <= z
    BY <1>1, <2>1, LeastNat
  <2>3. x \in c.todo
    BY <2>2 DEF Min
  <2> QED BY <2>1, <2>3
<1>4. Times(seen', clock) /\ Goes(vaults, seen, vaults, seen', clock)
  BY <1>1, <1>3, StillGoes, AskGoes
<1>5. Minds(c, d, vaults, seen', expires, clock)
  BY <1>1, <1>4, MindStill
<1>6. Minds(c, d, vaults, seen, expires, clock)
  BY Mind
<1>7. /\ Granularity \in Nat /\ Day \in Nat \ {0} /\ seen[x] \in Nat /\ seen'[x] \in Nat
      /\ c.st.touched[x] \in Int
  BY <1>2, <1>3, <1>4, EnvironmentsAssumption DEF Times, State
<1>8. ASSUME c.name = "use"
      PROVE  /\ expires /\ c.todo \subseteq Above(c.n) /\ c.todo \cap c.st.no_expiry = {}
             /\ c.n \in c.st.tree /\ c.st.held \cap Up[c.n] # {}
  BY <1>1, <1>6, <1>8 DEF Minds, Uses
<1>9. CASE (recent(c.st, x) \/ ~Open(x)) /\ Step(p, e) /\ UNCHANGED seen
  <2>1. ASSUME c.name = "use", c.n = d, x \in vaults PROVE clock <= seen[x] + Late
    <3>1. x \in Up[d] \ {d} /\ x \notin c.st.no_expiry /\ d \in c.st.tree
      BY <1>3, <1>8, <2>1 DEF Above
    <3>2. Open(x)
      BY <2>1, <3>1, AllOpen
    <3>3. clock - c.st.touched[x] < Day
      BY <1>9, <3>1, <3>2 DEF recent
    <3>4. Told(c.st, x, vaults, seen)
      BY <1>2, <1>6, <3>1, KnowsUp DEF Minds, Notes
    <3>5. c.st.touched[x] <= seen[x] + Granularity
      BY <2>1, <3>4 DEF Told
    <3> QED BY <1>2, <1>7, <3>3, <3>5 DEF Late
  <2> HIDE DEF x, c
  <2>2. e.at = "alive" /\ e.name = c.name /\ e.n = c.n /\ e.st = c.st /\ e.todo = c.todo \ {x}
    BY <1>1, <1>2 DEF Cmd
  <2> HIDE DEF e
  <2>3. Changes(e)
    BY <1>1, <1>6, <2>2 DEF Minds, Changes
  <2>4. Uses(e, d, vaults, seen, expires, clock)
    <3> SUFFICES ASSUME c.name = "use" PROVE Uses(e, d, vaults, seen, expires, clock)
      BY <2>2 DEF Uses
    <3>1. ASSUME c.n = d, NEW y \in Up[d] \cap vaults PROVE y \in e.todo \/ clock <= seen[y] + Late
      <4>1. y \in c.todo \/ clock <= seen[y] + Late
        BY <1>1, <1>6, <1>8, <3>1 DEF Minds, Uses
      <4> QED BY <2>1, <2>2, <3>1, <4>1
    <3> QED BY <1>8, <2>2, <3>1 DEF Uses
  <2>5. Minds(e, d, vaults, seen, expires, clock)
    BY <1>6, <2>2, <2>3, <2>4 DEF Minds, Seeks
  <2>6. Minds(e, d, vaults, seen', expires, clock)
    BY <1>9, <2>5
  <2> QED BY <1>1, <1>2, <1>4, <1>9, <2>6, DailyStep
<1>10. CASE touch(x) /\ Step(p, f)
  <2>1. clock <= seen'[x] + Granularity
    BY <1>2, <1>3, <1>10, TouchGoes
  <2> DEFINE never == IF expires THEN c.st.no_expiry ELSE c.st.no_expiry \cup {x}
             st == Touched(c.st, x, clock, never)
  <2>2. never \in SUBSET Nodes
    BY <1>2, <1>3 DEF State
  <2> HIDE DEF x, c
  <2>3. e \in Cmd /\ e.at = "alive" /\ e.name = c.name /\ e.n = c.n /\ e.st = c.st /\ e.todo = c.todo \ {x}
    BY <1>1, <1>2 DEF Cmd
  <2> HIDE DEF e
  <2>4. f = [e EXCEPT !.st = st]
    BY <1>2, <2>3 DEF Cmd, State, Touched
  <2>5. Notes(st, Up[d], vaults, seen', clock)
    BY <1>2, <1>3, <1>4, <1>5, <2>1, <2>2, TouchedNotes DEF Minds
  <2>6. st \in State /\ st.tree = c.st.tree /\ st.held = c.st.held /\ st.no_expiry = never
    BY <1>2, <1>3, <2>2, TouchedHolds DEF Touched, State
  <2> HIDE DEF st, f
  <2>7. f.at = "alive" /\ f.name = c.name /\ f.n = c.n /\ f.st = st /\ f.todo = c.todo \ {x}
    BY <2>3, <2>4, <2>6 DEF Cmd
  <2>8. Changes(f)
    BY <1>1, <1>6, <2>6, <2>7 DEF Minds, Changes
  <2>9. Uses(f, d, vaults, seen', expires, clock)
    <3> SUFFICES ASSUME c.name = "use" PROVE Uses(f, d, vaults, seen', expires, clock)
      BY <2>7 DEF Uses
    <3>1. ASSUME c.n = d, NEW y \in Up[d] \cap vaults PROVE y \in f.todo \/ clock <= seen'[y] + Late
      <4>1. y \in c.todo \/ clock <= seen'[y] + Late
        BY <1>1, <1>5, <1>8, <3>1 DEF Minds, Uses
      <4>2. clock <= seen'[x] + Late
        BY <1>2, <1>7, <2>1 DEF Late
      <4> QED BY <2>7, <4>1, <4>2
    <3> QED BY <1>8, <2>6, <2>7, <3>1 DEF Uses, never
  <2>10. Minds(f, d, vaults, seen', expires, clock)
    BY <2>5, <2>7, <2>8, <2>9 DEF Minds, Seeks
  <2> QED BY <1>1, <1>2, <1>4, <1>10, <2>10, DailyStep
<1> QED BY <1>1, <1>9, <1>10

LEMMA DailyKeptAlive ==
  ASSUME Typed, Typed', Daily, NEW p \in Procs, kept_alive(p) PROVE Daily'
<1> DEFINE c == cmd[p]
           at == IF c.name = "add" THEN "check" ELSE "save"
           e == [c EXCEPT !.at = at]
<1>1. /\ c.at = "alive" /\ c.todo = {} /\ Step(p, e)
      /\ UNCHANGED <<vaults, record, seen, clock, expires, used, disk, plan>>
  BY DEF kept_alive, server, local, time
<1>2. c \in Cmd /\ Minds(c, plan.daily, vaults, seen, expires, clock)
  BY Mind
<1> HIDE DEF c
<1>3. e.at = at /\ e.name = c.name /\ e.n = c.n /\ e.st = c.st /\ e.todo = {}
  BY <1>1, <1>2 DEF Cmd
<1> HIDE DEF e
<1>4. Changes(e)
  BY <1>1, <1>2, <1>3 DEF Minds, Changes
<1>5. Uses(e, plan.daily, vaults, seen, expires, clock)
  BY <1>1, <1>2, <1>3 DEF Minds, Uses
<1>6. Minds(e, plan.daily, vaults, seen, expires, clock)
  BY <1>2, <1>3, <1>4, <1>5 DEF Minds, Seeks
<1>7. Minds(e, plan.daily, vaults', seen', expires, clock)
  BY <1>1, <1>6
<1>8. Times(seen', clock) /\ Goes(vaults, seen, vaults', seen', clock) /\ Lists(record')
  BY <1>1, StillGoes
<1> QED BY <1>1, <1>7, <1>8, DailyStep

-----------------------------------------------------------------------------
(* The other requests. *)

\* A command that adds, removes or repairs goes on with the state it has.
LEMMA DailyMoves ==
  ASSUME Typed, Typed', Daily, NEW p \in Procs, NEW c, Step(p, c), c.st = cmd[p].st,
         c.name # "use", c.at # "discover", Changes(c),
         UNCHANGED <<clock, expires, used, disk, plan>>,
         Times(seen', clock), Goes(vaults, seen, vaults', seen', clock), Lists(record')
  PROVE  Daily'
<1>1. Minds(cmd[p], plan.daily, vaults', seen', expires, clock)
  BY MindStill
<1>2. Minds(c, plan.daily, vaults', seen', expires, clock)
  BY <1>1 DEF Minds, Seeks, Uses
<1> QED BY <1>2, DailyStep

LEMMA DailyCheck ==
  ASSUME Typed, Typed', Daily, NEW p \in Procs, Shape(cmd[p]), check(p) PROVE Daily'
<1> DEFINE c == cmd[p]
           e == [c EXCEPT !.at = "create"]
<1>1. /\ c.at = "check" /\ (touch(Parent[c.n]) \/ UNCHANGED seen) /\ (Step(p, e) \/ Fail(p))
      /\ UNCHANGED <<vaults, record, clock, expires, used, disk, plan>>
  BY DEF check, server, local
<1>2. c \in Cmd /\ c.n \in Nodes /\ Changes(c) /\ Lists(record) /\ c.name = "add" /\ c.n # 1
  BY <1>1, Mind DEF Minds, Shape
<1>3. Times(seen', clock) /\ Goes(vaults, seen, vaults', seen', clock) /\ Lists(record')
  BY <1>1, <1>2, AskGoes, TreeDown
<1>4. CASE Fail(p)
  BY <1>1, <1>3, <1>4, DailyFails
<1>5. CASE Step(p, e)
  <2> HIDE DEF c
  <2>1. e.at = "create" /\ e.name = c.name /\ e.n = c.n /\ e.st = c.st
    BY <1>2 DEF Cmd
  <2>2. Changes(e)
    BY <1>1, <1>2, <2>1 DEF Changes
  <2> HIDE DEF e
  <2> QED BY <1>1, <1>2, <1>3, <1>5, <2>1, <2>2, DailyMoves DEF c
<1> QED BY <1>1, <1>4, <1>5

\* update_children begins.
LEMMA ChangesUpdates ==
  ASSUME NEW c \in Cmd, c.at \in {"create", "empty"}, Changes(c), NEW e,
         e = update_children(c, IF c.name = "add" THEN Parent[c.n] ELSE c.n)
  PROVE  Changes(e) /\ e.at = "read" /\ e.name = c.name /\ e.st = c.st
<1> DEFINE y == IF c.name = "add" THEN Parent[c.n] ELSE c.n
<1>1. e.at = "read" /\ e.name = c.name /\ e.n = c.n /\ e.st = c.st /\ e.target = y
  BY DEF update_children, Cmd
<1> QED BY <1>1 DEF Changes

LEMMA DailyCreate ==
  ASSUME Typed, Typed', Daily, NEW p \in Procs, Shape(cmd[p]), create(p) PROVE Daily'
<1> DEFINE c == cmd[p]
           e == [c EXCEPT !.at = "empty"]
           f == update_children(c, IF c.name = "add" THEN Parent[c.n] ELSE c.n)
<1>1. /\ c.at = "create"
      /\ \/ /\ vaults' = vaults \cup {c.n} /\ record' = [record EXCEPT ![c.n] = NoRecord]
            /\ seen' = [seen EXCEPT ![c.n] = clock] /\ Step(p, e)
         \/ UNCHANGED <<vaults, record, seen>> /\ (Fail(p) \/ Step(p, f))
      /\ UNCHANGED <<clock, expires, used, disk, plan>>
  BY DEF create, server, local
<1>2. /\ c \in Cmd /\ c.n \in Nodes /\ Changes(c) /\ Lists(record) /\ Times(seen, clock)
      /\ clock \in Nat /\ c.name # "use"
  BY <1>1, Mind DEF Minds, Shape
<1>3. CASE UNCHANGED <<vaults, record, seen>> /\ (Fail(p) \/ Step(p, f))
  <2>1. Times(seen', clock) /\ Goes(vaults, seen, vaults', seen', clock) /\ Lists(record')
    BY <1>3, StillGoes
  <2>2. Changes(f) /\ f.at = "read" /\ f.name = c.name /\ f.st = c.st
    BY <1>1, <1>2, ChangesUpdates
  <2> HIDE DEF f
  <2> QED BY <1>1, <1>2, <1>3, <2>1, <2>2, DailyFails, DailyMoves
<1>4. CASE /\ vaults' = vaults \cup {c.n} /\ record' = [record EXCEPT ![c.n] = NoRecord]
           /\ seen' = [seen EXCEPT ![c.n] = clock] /\ Step(p, e)
  <2>1. seen \in [Nodes -> Nat] /\ record \in [Nodes -> Children] /\ vaults \subseteq Nodes
    BY <1>2 DEF Times, Typed
  <2>2. \A y \in Nodes : seen'[y] = IF y = c.n THEN clock ELSE seen[y]
    BY <1>4, <2>1
  <2>3. seen' \in [Nodes -> Nat] /\ \A y \in Nodes : seen[y] \in Nat /\ seen[y] <= clock
    BY <1>2, <1>4, <2>1 DEF Times
  <2>4. Times(seen', clock) /\ Goes(vaults, seen, vaults', seen', clock)
    BY <1>2, <1>4, <2>1, <2>2, <2>3 DEF Times, Goes
  <2>5. NoRecord.kids = {}
    BY DEF NoRecord
  <2>6. Lists(record')
    BY <1>2, <1>4, <2>1, <2>5 DEF Lists
  <2> HIDE DEF c
  <2>7. e.at = "empty" /\ e.name = c.name /\ e.n = c.n /\ e.st = c.st
    BY <1>2 DEF Cmd
  <2>8. Changes(e)
    BY <1>1, <1>2, <2>7 DEF Changes
  <2> HIDE DEF e
  <2> QED BY <1>1, <1>2, <1>4, <2>4, <2>6, <2>7, <2>8, DailyMoves DEF c
<1> QED BY <1>1, <1>3, <1>4

LEMMA DailyChildren ==
  ASSUME Typed, Typed', Daily, NEW p \in Procs, Shape(cmd[p]), children(p) PROVE Daily'
<1> DEFINE c == cmd[p]
           e == [c EXCEPT !.at = "write", !.read = record[c.target]]
<1>1. /\ c.at = "read" /\ (touch(c.target) \/ UNCHANGED seen) /\ (Step(p, e) \/ Fail(p))
      /\ UNCHANGED <<vaults, record, clock, expires, used, disk, plan>>
  BY DEF children, server, local
<1>2. c \in Cmd /\ c.target \in Nodes /\ Changes(c) /\ Lists(record) /\ c.name # "use"
  BY <1>1, Mind DEF Minds, Shape, Cmd
<1>3. Times(seen', clock) /\ Goes(vaults, seen, vaults', seen', clock) /\ Lists(record')
  BY <1>1, <1>2, AskGoes
<1>4. CASE Fail(p)
  BY <1>1, <1>3, <1>4, DailyFails
<1>5. CASE Step(p, e)
  <2> HIDE DEF c
  <2>1. /\ e.at = "write" /\ e.name = c.name /\ e.n = c.n /\ e.st = c.st /\ e.target = c.target
        /\ e.read = record[c.target]
    BY <1>2 DEF Cmd
  <2>2. \A k \in e.read.kids : k # 1 /\ Parent[k] = e.target
    BY <1>2, <2>1 DEF Lists
  <2>3. Changes(e)
    BY <1>1, <1>2, <2>1, <2>2 DEF Changes
  <2> HIDE DEF e
  <2> QED BY <1>1, <1>2, <1>3, <1>5, <2>1, <2>3, DailyMoves DEF c
<1> QED BY <1>1, <1>4, <1>5

LEMMA DailyInterrupt ==
  ASSUME Typed, Typed', Daily, NEW p \in Procs, interrupt(p) PROVE Daily'
<1>1. Fail(p) /\ UNCHANGED <<vaults, record, seen, clock, expires, used, disk, plan>>
  BY DEF interrupt, server, local, time
<1>2. Times(seen', clock) /\ Goes(vaults, seen, vaults', seen', clock) /\ Lists(record')
  BY <1>1, StillGoes
<1> QED BY <1>1, <1>2, DailyFails

\* A command saves.
LEMMA DailySaved ==
  ASSUME Typed, Typed', Daily, NEW p \in Procs, NEW c, save(p, c),
         Notes(c.st, Up[plan.daily], vaults', seen', clock), UNCHANGED <<clock, expires, plan>>,
         Times(seen', clock), Goes(vaults, seen, vaults', seen', clock), Lists(record'),
         \/ used' = used
         \/ /\ used' = clock
            /\ expires => \A x \in Up[plan.daily] \cap vaults' : clock <= seen'[x] + Late
  PROVE  Daily'
<1>1. Step(p, NoCmd) /\ disk' = [disk EXCEPT ![Machine(p)] = c.st]
  BY DEF save
<1>2. Minds(NoCmd, plan.daily, vaults', seen', expires, clock)
  BY IdleMinds DEF Typed, Plan
<1>3. \A m \in Machines : disk'[m] = disk[m]
                          \/ Notes(disk'[m], Up[plan.daily], vaults', seen', clock)
  BY <1>1 DEF Typed
<1> QED BY <1>1, <1>2, <1>3, DailyStep

LEMMA DailySaves ==
  ASSUME Typed, Typed', Daily, NEW p \in Procs, saves(p) PROVE Daily'
<1>1. /\ cmd[p].at = "save" /\ save(p, cmd[p])
      /\ used' = IF cmd[p].name = "use" /\ cmd[p].n = plan.daily THEN clock ELSE used
      /\ UNCHANGED <<vaults, record, seen, clock, expires, plan>>
  BY DEF saves, server
<1>2. Minds(cmd[p], plan.daily, vaults, seen, expires, clock)
  BY Mind
<1>3. Notes(cmd[p].st, Up[plan.daily], vaults', seen', clock)
  BY <1>1, <1>2 DEF Minds
<1>4. Times(seen', clock) /\ Goes(vaults, seen, vaults', seen', clock) /\ Lists(record')
  BY <1>1, StillGoes
<1>5. \/ used' = used
      \/ /\ used' = clock
         /\ expires => \A x \in Up[plan.daily] \cap vaults' : clock <= seen'[x] + Late
  BY <1>1, <1>2 DEF Minds, Uses
<1> QED BY <1>1, <1>3, <1>4, <1>5, DailySaved

LEMMA DailyCreateEmpty ==
  ASSUME Typed, Typed', Daily, NEW p \in Procs, Shape(cmd[p]), create_empty(p) PROVE Daily'
<1> DEFINE c == cmd[p]
           e == [c EXCEPT !.st.held = {1}, !.st.tree = {1}, !.st.touched[1] = clock]
           f == update_children(c, IF c.name = "add" THEN Parent[c.n] ELSE c.n)
<1>1. /\ c.at = "empty"
      /\ \/ Fail(p) /\ UNCHANGED <<record, seen, disk>>
         \/ /\ touch(c.n)
            /\ record' = IF record[c.n].ver = 0 THEN [record EXCEPT ![c.n].ver = 1] ELSE record
            /\ save(p, e) \/ (Step(p, f) /\ UNCHANGED disk)
      /\ UNCHANGED <<vaults, clock, expires, used, plan>>
  BY DEF create_empty, local
<1>2. /\ c \in Cmd /\ c.n \in Nodes /\ Changes(c) /\ Lists(record) /\ Times(seen, clock)
      /\ clock \in Nat /\ c.name # "use" /\ c.st \in State /\ record \in [Nodes -> Children]
      /\ Notes(c.st, Up[plan.daily], vaults, seen, clock)
  BY <1>1, Mind DEF Minds, Shape, Typed
<1>3. CASE Fail(p) /\ UNCHANGED <<record, seen, disk>>
  <2>1. Times(seen', clock) /\ Goes(vaults, seen, vaults', seen', clock) /\ Lists(record')
    BY <1>1, <1>3, StillGoes
  <2> QED BY <1>1, <1>3, <2>1, DailyFails
<1>4. CASE /\ touch(c.n)
           /\ record' = IF record[c.n].ver = 0 THEN [record EXCEPT ![c.n].ver = 1] ELSE record
           /\ save(p, e) \/ (Step(p, f) /\ UNCHANGED disk)
  <2>1. Times(seen', clock) /\ Goes(vaults, seen, vaults', seen', clock)
    BY <1>1, <1>2, <1>4, AskGoes
  <2>2. \A n \in Nodes : record'[n].kids = record[n].kids
    BY <1>2, <1>4 DEF Children
  <2>3. Lists(record')
    BY <1>2, <2>2 DEF Lists
  <2>4. CASE save(p, e)
    <3>1. c.st.touched \in [Nodes -> Int]
      BY <1>2 DEF State
    <3> HIDE DEF c
    <3>2. e.st.held = {1} /\ e.st.tree = {1} /\ e.st.touched = [c.st.touched EXCEPT ![1] = clock]
      BY <1>2 DEF Cmd, State
    <3> HIDE DEF e
    <3>3. \A x \in Nodes : e.st.touched[x] <= clock
      BY <1>2, <3>1, <3>2 DEF Notes
    <3>4. Notes(e.st, Up[plan.daily], vaults', seen', clock)
      BY <3>2, <3>3 DEF Notes, Knows
    <3> QED BY <1>1, <2>1, <2>3, <2>4, <3>4, DailySaved
  <2>5. CASE Step(p, f) /\ UNCHANGED disk
    <3>1. Changes(f) /\ f.at = "read" /\ f.name = c.name /\ f.st = c.st
      BY <1>1, <1>2, ChangesUpdates
    <3> HIDE DEF f
    <3> QED BY <1>1, <1>2, <2>1, <2>3, <2>5, <3>1, DailyMoves
  <2> QED BY <1>4, <2>4, <2>5
<1> QED BY <1>1, <1>3, <1>4

\* An addition is noted with what is above it, which was just read; a repair
\* is of a vault that was just written.
LEMMA ChangedNotes ==
  ASSUME NEW c \in Cmd, NEW D, NEW vs, NEW sn, NEW t \in Nat, Times(sn, t), Shape(c), Changes(c),
         c.at = "write", t <= sn[c.target] + Granularity, Notes(c.st, D, vs, sn, t),
         NEW st, st.held = c.st.held,
         st.tree = (IF c.name = "add" THEN c.st.tree \cup {c.n} ELSE c.st.tree),
         st.touched = (IF c.name = "rm" THEN c.st.touched ELSE [c.st.touched EXCEPT ![c.n] = t])
  PROVE  Notes(st, D, vs, sn, t)
<1>1. /\ c.st \in State /\ c.st.touched \in [Nodes -> Int] /\ c.n \in Nodes /\ c.st.tree \subseteq Nodes
      /\ c.name \in {"add", "rm", "repair"}
  BY DEF Cmd, State, Shape
<1>2. \A x \in Nodes : st.touched[x] = IF x = c.n /\ c.name # "rm" THEN t ELSE c.st.touched[x]
  BY <1>1
<1>3. \A x \in Nodes : st.touched[x] <= t /\ c.st.touched[x] <= t
  BY <1>2 DEF Notes
<1>4. ASSUME NEW k \in (st.tree \cap D) \ {1}
      PROVE  Parent[k] \in st.tree /\ Told(st, Parent[k], vs, sn)
  <2>1. k \in Nodes /\ Parent[k] \in Nodes /\ Parent[k] # k
    BY <1>1, TreeDown
  <2>2. CASE k \in c.st.tree
    <3>1. Parent[k] \in c.st.tree /\ Told(c.st, Parent[k], vs, sn)
      BY <2>2 DEF Notes, Knows
    <3>2. CASE Parent[k] = c.n /\ c.name # "rm"
      <4>1. c.name = "repair" /\ c.target = c.n
        BY <1>1, <3>1, <3>2 DEF Changes
      <4> QED BY <1>1, <1>2, <3>1, <3>2, <4>1 DEF Told
    <3>3. CASE ~(Parent[k] = c.n /\ c.name # "rm")
      <4>1. st.touched[Parent[k]] = c.st.touched[Parent[k]]
        BY <1>2, <2>1, <3>3
      <4> QED BY <3>1, <4>1 DEF Told
    <3> QED BY <3>2, <3>3
  <2>3. CASE k \notin c.st.tree
    <3>1. c.name = "add" /\ k = c.n
      BY <2>3
    <3>2. Parent[k] \in c.st.tree /\ c.target = Parent[k]
      BY <3>1 DEF Changes, Shape
    <3>3. sn[Parent[k]] \in Nat /\ c.st.touched[Parent[k]] \in Int /\ Granularity \in Nat
      BY <1>1, <2>1, EnvironmentsAssumption DEF Times
    <3>3a. st.touched[Parent[k]] = c.st.touched[Parent[k]]
      BY <1>2, <2>1, <3>1
    <3>4. st.touched[Parent[k]] <= sn[Parent[k]] + Granularity
      BY <1>3, <2>1, <3>2, <3>3, <3>3a
    <3> QED BY <3>1, <3>2, <3>4 DEF Told
  <2> QED BY <2>2, <2>3
<1> QED BY <1>3, <1>4 DEF Notes, Knows

LEMMA DailyPutChildren ==
  ASSUME Typed, Typed', Daily, NEW p \in Procs, Shape(cmd[p]), put_children(p) PROVE Daily'
<1> DEFINE c == cmd[p]
           e == [c EXCEPT !.at = "save",
                          !.st.tree = IF c.name = "add" THEN @ \cup {c.n} ELSE @,
                          !.st.touched[c.n] = IF c.name = "rm" THEN @ ELSE clock]
           f == [c EXCEPT !.at = "read", !.tries = @ + 1]
<1>1. /\ c.at = "write"
      /\ \/ /\ touch(c.target) /\ Step(p, e)
            /\ record' = [record EXCEPT ![c.target] = [ver |-> @.ver + 1, kids |-> changed(c)]]
         \/ /\ touch(c.target) \/ UNCHANGED seen
            /\ UNCHANGED record /\ (Step(p, f) \/ Fail(p))
      /\ UNCHANGED <<vaults, clock, expires, used, disk, plan>>
  BY DEF put_children, local
<1>2. /\ c \in Cmd /\ c.n \in Nodes /\ c.target \in Nodes /\ Changes(c) /\ Lists(record)
      /\ Times(seen, clock) /\ clock \in Nat /\ c.name \in {"add", "rm", "repair"} /\ c.st \in State
      /\ record \in [Nodes -> Children] /\ plan.daily \in Nodes /\ Up[plan.daily] \in SUBSET Nodes
  BY <1>1, Mind DEF Minds, Shape, Typed, Cmd
<1>3. Times(seen', clock) /\ Goes(vaults, seen, vaults', seen', clock)
  BY <1>1, <1>2, AskGoes
<1>4. Minds(c, plan.daily, vaults', seen', expires, clock)
  BY <1>3, MindStill
<1>5. CASE UNCHANGED record /\ (Step(p, f) \/ Fail(p))
  <2> HIDE DEF c
  <2>1. f.at = "read" /\ f.name = c.name /\ f.n = c.n /\ f.st = c.st /\ f.target = c.target
    BY <1>2 DEF Cmd
  <2> HIDE DEF f
  <2>2. Changes(f)
    BY <1>1, <1>2, <2>1 DEF Changes
  <2>3. Lists(record')
    BY <1>2, <1>5
  <2> QED BY <1>1, <1>2, <1>3, <1>5, <2>1, <2>2, <2>3, DailyFails, DailyMoves DEF c
<1>6. CASE /\ touch(c.target) /\ Step(p, e)
           /\ record' = [record EXCEPT ![c.target] = [ver |-> @.ver + 1, kids |-> changed(c)]]
  <2>1. clock <= seen'[c.target] + Granularity
    BY <1>2, <1>6, TouchGoes
  <2>2. \A k \in changed(c) : k # 1 /\ Parent[k] = c.target
    <3>1. \A k \in c.read.kids : k # 1 /\ Parent[k] = c.target
      BY <1>1, <1>2 DEF Changes
    <3>2. CASE c.name = "add"
      BY <1>1, <3>1, <3>2 DEF changed, Shape
    <3>3. CASE c.name = "rm"
      BY <3>1, <3>3 DEF changed
    <3>4. CASE c.name = "repair"
      BY <1>1, <1>2, <3>1, <3>4 DEF changed, children_of, Changes
    <3> QED BY <1>2, <3>2, <3>3, <3>4
  <2>3. Lists(record')
    BY <1>2, <1>6, <2>2 DEF Lists
  <2> HIDE DEF c
  <2>4. c.st.touched \in [Nodes -> Int] /\ [c.st.touched EXCEPT ![c.n] = c.st.touched[c.n]] = c.st.touched
    BY <1>2 DEF State
  <2>5. /\ e.at = "save" /\ e.name = c.name /\ e.n = c.n /\ e.st.held = c.st.held
        /\ e.st.tree = (IF c.name = "add" THEN c.st.tree \cup {c.n} ELSE c.st.tree)
    BY <1>2 DEF Cmd, State
  <2>6. e.st.touched = [c.st.touched EXCEPT ![c.n] = IF c.name = "rm" THEN c.st.touched[c.n] ELSE clock]
    BY <1>2 DEF Cmd, State
  <2> HIDE DEF e
  <2>7. e.st.touched = IF c.name = "rm" THEN c.st.touched ELSE [c.st.touched EXCEPT ![c.n] = clock]
    BY <2>4, <2>6
  <2>8. Notes(c.st, Up[plan.daily], vaults', seen', clock)
    BY <1>4 DEF Minds
  <2>9. Notes(e.st, Up[plan.daily], vaults', seen', clock)
    BY <1>1, <1>2, <1>3, <2>1, <2>5, <2>7, <2>8, ChangedNotes DEF c
  <2>10. Minds(e, plan.daily, vaults', seen', expires, clock)
    BY <1>2, <2>5, <2>9 DEF Minds, Seeks, Changes, Uses
  <2> QED BY <1>1, <1>3, <1>6, <2>3, <2>10, DailyStep
<1> QED BY <1>1, <1>5, <1>6

-----------------------------------------------------------------------------
(* Discovery and removal. *)

LEMMA DailyDiscoverNext ==
  ASSUME Typed, Typed', Daily, NEW p \in Procs, discover_next(p) PROVE Daily'
<1> DEFINE c == cmd[p]
           d == plan.daily
           e(x) == [c EXCEPT !.queue = queue_next(c, x), !.found = @ \cup {x}, !.st.touched[x] = clock]
           f(x) == [c EXCEPT !.queue = @ \ {x}, !.found = @ \cup {x}, !.lost = @ \cup {x}]
<1>1. /\ c.at = "discover" /\ UNCHANGED <<vaults, record, clock, expires, used, disk, plan>>
  BY DEF discover_next, server, local
<1>2. PICK x \in c.queue : \/ touch(x) /\ Step(p, e(x))
                           \/ Step(p, f(x)) /\ UNCHANGED seen
                           \/ Fail(p) /\ UNCHANGED seen
  BY DEF discover_next
<1>3. /\ c \in Cmd /\ x \in Nodes /\ Lists(record) /\ Times(seen, clock) /\ clock \in Nat
      /\ c.st \in State /\ d \in Nodes /\ Up[d] \in SUBSET Nodes /\ c.queue \cup c.found \subseteq Nodes
      /\ record \in [Nodes -> Children]
  BY <1>2, Mind DEF Cmd, Typed
<1>4. Times(seen', clock) /\ Goes(vaults, seen, vaults', seen', clock) /\ Lists(record')
  BY <1>1, <1>2, <1>3, AskGoes
<1>5. Minds(c, d, vaults', seen', expires, clock) /\ c.name # "use"
  BY <1>1, <1>4, MindStill DEF Minds, Uses
<1> HIDE DEF c
<1>6. CASE Fail(p)
  BY <1>1, <1>4, <1>6, DailyFails
<1>7. CASE Step(p, f(x))
  <2> DEFINE g == f(x)
  <2>1. /\ g.at = "discover" /\ g.name = c.name /\ g.n = c.n /\ g.st = c.st /\ g.root = c.root
        /\ g.roots = c.roots /\ g.queue = c.queue \ {x} /\ g.found = c.found \cup {x}
        /\ g.lost = c.lost \cup {x}
    BY <1>1, <1>3 DEF Cmd
  <2>2. Step(p, g)
    BY <1>7
  <2> HIDE DEF g
  <2>3. Seeks(g, Up[d], vaults', seen')
    BY <1>1, <1>2, <1>5, <2>1 DEF Minds, Seeks
  <2>4. Minds(g, d, vaults', seen', expires, clock)
    BY <1>1, <1>5, <2>1, <2>3 DEF Minds, Changes, Uses
  <2> QED BY <1>1, <1>4, <2>2, <2>4, DailyStep
<1>8. CASE touch(x) /\ Step(p, e(x))
  <2>1. clock <= seen'[x] + Granularity
    BY <1>3, <1>8, TouchGoes
  <2> DEFINE g == e(x)
             st == Touched(c.st, x, clock, c.st.no_expiry)
  <2>2. st = [c.st EXCEPT !.touched[x] = clock] /\ c.st.no_expiry \in SUBSET Nodes
    BY <1>3 DEF Touched, State
  <2>3. /\ Notes(st, Up[d], vaults', seen', clock)
        /\ \A y \in Nodes : Told(c.st, y, vaults', seen') => Told(st, y, vaults', seen')
        /\ Told(st, x, vaults', seen')
    BY <1>3, <1>4, <1>5, <2>1, <2>2, TouchedNotes DEF Minds
  <2>4. st.tree = c.st.tree
    BY <1>3 DEF Touched, State
  <2>5. /\ g.at = "discover" /\ g.name = c.name /\ g.n = c.n /\ g.st = st /\ g.root = c.root
        /\ g.roots = c.roots /\ g.queue = queue_next(c, x) /\ g.found = c.found \cup {x}
        /\ g.lost = c.lost
    BY <1>1, <1>3, <2>2 DEF Cmd
  <2>6. Step(p, g)
    BY <1>8
  <2> HIDE DEF g, st
  <2>7. ASSUME NEW k \in (g.queue \cup g.found) \ {g.root}
        PROVE  k # 1 /\ Parent[k] \in g.found /\ Told(st, Parent[k], vaults', seen')
    <3>1. CASE k \in c.queue \cup c.found
      <4>1. k # 1 /\ Parent[k] \in c.found /\ Told(c.st, Parent[k], vaults', seen')
        BY <1>1, <1>5, <2>5, <2>7, <3>1 DEF Minds, Seeks
      <4> QED BY <1>3, <2>3, <2>5, <4>1
    <3>2. CASE k \notin c.queue \cup c.found
      <4>1. k \in record[x].kids
        BY <1>2, <2>5, <2>7, <3>2 DEF queue_next
      <4>2. k # 1 /\ Parent[k] = x
        BY <1>3, <4>1 DEF Lists
      <4> QED BY <2>3, <2>5, <4>2
    <3> QED BY <3>1, <3>2
  <2>8. Seeks(g, Up[d], vaults', seen')
    BY <1>1, <1>5, <2>4, <2>5, <2>7 DEF Minds, Seeks
  <2>9. Minds(g, d, vaults', seen', expires, clock)
    BY <1>1, <1>5, <2>3, <2>4, <2>5, <2>8 DEF Minds, Changes, Uses
  <2> QED BY <1>1, <1>4, <2>6, <2>9, DailyStep
<1> QED BY <1>2, <1>6, <1>7, <1>8

\* The tree a discovery ends with has the way up from whatever is in it.
LEMMA FoundNotes ==
  ASSUME NEW c \in Cmd, NEW D, NEW vs, NEW sn, NEW t, c.at = "discover", c.queue = {},
         Seeks(c, D, vs, sn), Notes(c.st, D, vs, sn, t), c.root \in D \ {1} => c.root \in c.st.tree,
         NEW st, st = [c.st EXCEPT !.tree = found_tree(c)]
  PROVE  Notes(st, D, vs, sn, t)
<1>1. /\ c.st \in State /\ c.root \in Nodes /\ c.st.tree \subseteq Nodes /\ c.found \subseteq Nodes
      /\ c.lost \subseteq c.found
  BY DEF Cmd, State, Seeks
<1>2. st.tree = found_tree(c) /\ st.held = c.st.held /\ st.touched = c.st.touched
  BY <1>1 DEF State
<1> DEFINE Keeps(k) == k \in c.st.tree
                       /\ (k \notin Below(c.root) \/ \E u \in c.lost : k # u /\ k \in Below(u))
<1>3. \A k : k \in st.tree <=> Keeps(k) \/ k \in c.found
  BY <1>2 DEF found_tree
<1>4. ASSUME NEW k \in (st.tree \cap D) \ {1}
      PROVE  Parent[k] \in st.tree /\ Told(c.st, Parent[k], vs, sn)
  <2>1. k \in Nodes /\ Parent[k] \in Nodes /\ Up[k] = {k} \cup Up[Parent[k]] /\ Parent[k] < k
    BY <1>1, <1>3, TreeDown, UpWorks
  <2>2. CASE k \in c.found /\ k # c.root
    BY <1>3, <2>2 DEF Seeks
  <2>3. CASE k = c.root
    <3>1. Parent[k] \in c.st.tree /\ Told(c.st, Parent[k], vs, sn)
      BY <2>3 DEF Notes, Knows
    <3>2. k \notin Up[Parent[k]]
      <4>1. k \in Nat /\ Parent[k] \in Nat /\ ~(k <= Parent[k])
        BY <2>1, TreeDown
      <4> QED BY <2>1, <4>1, UpUp
    <3>3. Parent[k] \notin Below(c.root)
      BY <2>3, <3>2 DEF Below
    <3> QED BY <1>3, <3>1, <3>3
  <2>4. CASE Keeps(k) /\ k # c.root
    <3>1. Parent[k] \in c.st.tree /\ Told(c.st, Parent[k], vs, sn)
      BY <2>4 DEF Notes, Knows
    <3>2. CASE k \notin Below(c.root)
      <4>1. Parent[k] \notin Below(c.root)
        BY <2>1, <3>2 DEF Below
      <4> QED BY <1>3, <3>1, <4>1
    <3>3. ASSUME NEW u \in c.lost, k # u, k \in Below(u) PROVE Parent[k] \in st.tree
      <4>1. u \in Up[Parent[k]]
        BY <2>1, <3>3 DEF Below
      <4>2. CASE Parent[k] = u
        BY <1>1, <1>3, <4>2
      <4>3. CASE Parent[k] # u
        BY <1>3, <2>1, <3>1, <4>1, <4>3 DEF Below
      <4> QED BY <4>2, <4>3
    <3> QED BY <2>4, <3>1, <3>2, <3>3
  <2> QED BY <1>3, <2>2, <2>3, <2>4
<1>5. \A k \in (st.tree \cap D) \ {1} : Told(st, Parent[k], vs, sn)
  BY <1>2, <1>4 DEF Told
<1> QED BY <1>2, <1>4, <1>5 DEF Notes, Knows

\* A discovery ends.  A machine that comes to hold a key of the way up to the
\* environment in daily use, other than the project's, is out of the claim.
LEMMA DailyDiscovered ==
  ASSUME Typed, Typed', Daily, RootHeld', NEW p \in Procs, discovered(p) PROVE Daily'
<1> DEFINE b == cmd[p]
           d == plan.daily
           c == [b EXCEPT !.st.tree = found_tree(b)]
           st == [b.st EXCEPT !.tree = found_tree(b)]
           below == c.st.tree \cap Below(c.n)
           e(r) == discover_from(c, r, c.roots \ {r})
           f == [c EXCEPT !.at = "save"]
           g == [c EXCEPT !.st.held = @ \cup {c.n}]
           h == [c EXCEPT !.at = "delete", !.todo = below]
<1>1. /\ UNCHANGED <<vaults, record, seen, clock, expires, used, plan>>
      /\ c.at = "discover" /\ c.queue = {}
      /\ \/ c.name = "ls" /\ (\E r \in c.roots : Step(p, e(r))) /\ UNCHANGED disk
         \/ c.name = "ls" /\ Step(p, f) /\ UNCHANGED disk
         \/ c.name = "import" /\ save(p, g)
         \/ c.name = "rm" /\ Step(p, h) /\ UNCHANGED disk
         \/ c.name = "rm" /\ Fail(p) /\ UNCHANGED disk
  BY DEF discovered, server, local, time
<1>2. /\ b \in Cmd /\ d \in Nodes /\ clock \in Nat /\ b.st \in State /\ b.n \in Nodes
      /\ Minds(b, d, vaults, seen, expires, clock) /\ b.found \subseteq Nodes
  BY Mind DEF Cmd
<1>3. found_tree(b) \in SUBSET Nodes
  BY <1>2 DEF found_tree, Cmd, State
<1>4. st \in State /\ st.held = b.st.held /\ st.tree = found_tree(b) /\ st.touched = b.st.touched
  BY <1>2, <1>3 DEF State
<1> HIDE DEF b
<1>5. c = [b EXCEPT !.st = st]
  BY <1>2 DEF Cmd, State
<1> HIDE DEF st
<1>6. /\ c \in Cmd /\ c.at = b.at /\ c.name = b.name /\ c.n = b.n /\ c.st = st /\ c.root = b.root
      /\ c.roots = b.roots /\ c.queue = b.queue
  BY <1>2, <1>4, <1>5 DEF Cmd
<1> HIDE DEF c
<1>7. /\ Times(seen', clock) /\ Goes(vaults, seen, vaults', seen', clock) /\ Lists(record')
  BY <1>1, StillGoes
<1>8. ASSUME b.root \in Up[d] \ {1} => b.root \in b.st.tree
      PROVE  Notes(c.st, Up[d], vaults, seen, clock)
  BY <1>1, <1>2, <1>6, <1>8, FoundNotes DEF Minds, st
<1>9. /\ b.root \in Up[d] \ {1} => b.root \in b.st.tree \/ (b.name = "import" /\ b.n = b.root)
      /\ b.roots \cap Up[d] \subseteq {1} /\ b.roots \subseteq Nodes
  BY <1>1, <1>2, <1>6 DEF Minds, Seeks, Cmd
<1>10. CASE c.name = "ls" /\ (\E r \in c.roots : Step(p, e(r))) /\ UNCHANGED disk
  <2>1. PICK r \in c.roots : Step(p, e(r))
    BY <1>10
  <2>2. r \in Nodes /\ c.roots \ {r} \in SUBSET Nodes /\ (r \in Up[d] => r = 1)
    BY <1>6, <1>9
  <2>3. Notes(c.st, Up[d], vaults, seen, clock)
    BY <1>6, <1>8, <1>9, <1>10
  <2> DEFINE a == e(r)
  <2>4. /\ Seeks(a, Up[d], vaults, seen) /\ a.at = "discover" /\ a.name = "ls" /\ a.st = c.st
    BY <1>6, <1>9, <1>10, <2>2, SeeksStart
  <2>5. Step(p, a)
    BY <2>1
  <2> HIDE DEF a
  <2>6. Minds(a, d, vaults, seen, expires, clock)
    BY <2>3, <2>4 DEF Minds, Changes, Uses
  <2>7. Minds(a, d, vaults', seen', expires, clock)
    BY <1>1, <2>6
  <2> QED BY <1>1, <1>7, <1>10, <2>5, <2>7, DailyStep
<1>11. CASE c.name = "ls" /\ Step(p, f) /\ UNCHANGED disk
  <2>1. Notes(c.st, Up[d], vaults, seen, clock)
    BY <1>6, <1>8, <1>9, <1>11
  <2>2. f.at = "save" /\ f.name = "ls" /\ f.st = c.st
    BY <1>6, <1>11 DEF Cmd
  <2> HIDE DEF f
  <2>3. Minds(f, d, vaults, seen, expires, clock)
    BY <2>1, <2>2 DEF Minds, Changes, Uses, Seeks
  <2>4. Minds(f, d, vaults', seen', expires, clock)
    BY <1>1, <2>3
  <2> QED BY <1>1, <1>7, <1>11, <2>4, DailyStep
<1>12. CASE c.name = "import" /\ save(p, g)
  <2>1. g.st.held = c.st.held \cup {c.n} /\ g.st.tree = c.st.tree /\ g.st.touched = c.st.touched
    BY <1>4, <1>6 DEF Cmd, State
  <2>2. Machine(p) \in Machines /\ disk' = [disk EXCEPT ![Machine(p)] = g.st]
    BY <1>12 DEF save, Typed, Plan, Machine
  <2>3. disk'[Machine(p)] = g.st
    BY <2>2 DEF Typed
  <2>4. g.st.held \cap Up[d] \subseteq {1}
    BY <1>1, <2>2, <2>3 DEF RootHeld
  <2>5. Notes(c.st, Up[d], vaults, seen, clock)
    BY <1>6, <1>8, <1>9, <2>1, <2>4
  <2> HIDE DEF g
  <2>6. Notes(g.st, Up[d], vaults, seen, clock)
    BY <2>1, <2>4, <2>5 DEF Notes, Knows, Told
  <2>7. Notes(g.st, Up[d], vaults', seen', clock)
    BY <1>1, <2>6
  <2> QED BY <1>1, <1>7, <1>12, <2>7, DailySaved
<1>13. CASE c.name = "rm" /\ Step(p, h) /\ UNCHANGED disk
  <2>1. Notes(c.st, Up[d], vaults, seen, clock)
    BY <1>6, <1>8, <1>9, <1>13
  <2>2. below \in SUBSET Nodes
    BY DEF Below
  <2>3. h.at = "delete" /\ h.name = "rm" /\ h.st = c.st /\ h.n = c.n /\ h.todo = below
    BY <1>6, <1>13, <2>2 DEF Cmd
  <2> HIDE DEF h
  <2>4. Changes(h)
    BY <2>3 DEF Changes
  <2>5. Minds(h, d, vaults, seen, expires, clock)
    BY <2>1, <2>3, <2>4 DEF Minds, Uses, Seeks
  <2>6. Minds(h, d, vaults', seen', expires, clock)
    BY <1>1, <2>5
  <2> QED BY <1>1, <1>7, <1>13, <2>6, DailyStep
<1>14. CASE c.name = "rm" /\ Fail(p) /\ UNCHANGED disk
  BY <1>1, <1>7, <1>14, DailyFails
<1> QED BY <1>1, <1>10, <1>11, <1>12, <1>13, <1>14

LEMMA DailyDeleteVault ==
  ASSUME Typed, Typed', Daily, NEW p \in Procs, Shape(cmd[p]), delete_vault(p) PROVE Daily'
<1> DEFINE c == cmd[p]
           d == plan.daily
           x == Max(c.todo)
           gone == [c EXCEPT !.todo = @ \ {x}, !.st = removed(c.st, x), !.cut = @ \/ x \in c.st.held]
<1>1. /\ c.at = "delete" /\ c.todo # {}
      /\ \/ Fail(p) /\ UNCHANGED <<vaults, record>>
         \/ /\ \/ vaults' = vaults \ {x} /\ record' = [record EXCEPT ![x] = NoRecord]
               \/ UNCHANGED <<vaults, record>>
            /\ Step(p, gone)
      /\ UNCHANGED <<seen, clock, expires, used, disk, plan>>
  BY DEF delete_vault, server, time
<1>2. /\ c \in Cmd /\ c.n \in Nodes /\ Changes(c) /\ Lists(record) /\ Times(seen, clock)
      /\ c.name = "rm" /\ c.st \in State /\ record \in [Nodes -> Children] /\ c.todo \in SUBSET Nodes
      /\ c.st.tree \subseteq Nodes
  BY <1>1, Mind DEF Minds, Shape, Typed, Cmd, State
<1>3. x \in c.todo /\ x \in Nodes /\ \A y \in c.todo : y <= x
  <2>1. \E y \in c.todo : \A z \in c.todo : z <= y
    BY <1>1, <1>2, GreatestNode
  <2>2. x \in c.todo /\ \A y \in c.todo : y <= x
    BY <2>1 DEF Max
  <2> QED BY <1>2, <2>2
<1>4. Times(seen', clock) /\ Goes(vaults, seen, vaults', seen', clock)
  <2>1. vaults' \subseteq vaults
    BY <1>1
  <2> QED BY <1>1, <1>2, <2>1, StillGoes DEF Goes
<1>5. Lists(record')
  <2>1. NoRecord.kids = {}
    BY DEF NoRecord
  <2> QED BY <1>1, <1>2, <1>3, <2>1 DEF Lists
<1>6. CASE Fail(p)
  BY <1>1, <1>4, <1>5, <1>6, DailyFails
<1>7. CASE Step(p, gone)
  <2>1. Minds(c, d, vaults', seen', expires, clock)
    BY <1>4, MindStill
  <2> HIDE DEF x, c
  <2> DEFINE st == removed(c.st, x)
  <2>2. st.tree = c.st.tree \ {x} /\ st.held = c.st.held \ {x} /\ st.touched = c.st.touched
    BY <1>2 DEF removed, State
  <2> HIDE DEF st
  <2>3. gone.at = "delete" /\ gone.name = "rm" /\ gone.n = c.n /\ gone.st = st /\ gone.todo = c.todo \ {x}
    BY <1>1, <1>2 DEF Cmd, st
  <2> HIDE DEF gone
  <2>4. ASSUME NEW k \in (st.tree \cap Up[d]) \ {1}
        PROVE  Parent[k] \in st.tree /\ Told(st, Parent[k], vaults', seen')
    <3>1. Parent[k] \in c.st.tree /\ Told(c.st, Parent[k], vaults', seen')
      BY <2>1, <2>2, <2>4 DEF Minds, Notes, Knows
    <3>2. k \in Nodes /\ Parent[k] \in Nodes /\ Parent[k] < k /\ Up[k] = {k} \cup Up[Parent[k]]
      BY <1>2, <2>2, <2>4, TreeDown, UpWorks
    <3>3. Parent[k] # x
      <4> SUFFICES ASSUME Parent[k] = x PROVE FALSE
        OBVIOUS
      <4>1. k \in Below(c.n)
        BY <1>1, <1>2, <1>3, <3>2 DEF Changes, Below
      <4>2. k \in c.todo
        BY <1>1, <1>2, <2>2, <2>4, <4>1 DEF Changes
      <4>3. k \in Nat /\ x \in Nat /\ k <= x /\ x < k
        BY <1>3, <3>2, <4>2, TreeDown
      <4> QED BY <4>3
    <3> QED BY <2>2, <3>1, <3>3 DEF Told
  <2>5. Notes(st, Up[d], vaults', seen', clock)
    BY <2>1, <2>2, <2>4 DEF Minds, Notes, Knows
  <2>6. Changes(gone)
    BY <1>1, <1>2, <2>2, <2>3 DEF Changes
  <2>7. Minds(gone, d, vaults', seen', expires, clock)
    BY <2>3, <2>5, <2>6 DEF Minds, Seeks, Uses
  <2> QED BY <1>1, <1>4, <1>5, <1>7, <2>7, DailyStep
<1> QED BY <1>1, <1>6, <1>7

LEMMA DailyDeleted ==
  ASSUME Typed, Typed', Daily, NEW p \in Procs, Shape(cmd[p]), deleted(p) PROVE Daily'
<1> DEFINE c == cmd[p]
           e == update_children(c, Parent[c.n])
           f == [c EXCEPT !.at = "save"]
<1>1. /\ c.at = "delete" /\ (Step(p, e) \/ Step(p, f))
      /\ UNCHANGED <<vaults, record, seen, clock, expires, used, disk, plan>>
  BY DEF deleted, server, local, time
<1>2. c \in Cmd /\ c.name = "rm"
  BY <1>1, Mind DEF Shape
<1>3. Times(seen', clock) /\ Goes(vaults, seen, vaults', seen', clock) /\ Lists(record')
  BY <1>1, StillGoes
<1> HIDE DEF c
<1>4. e.at = "read" /\ e.name = "rm" /\ e.st = c.st /\ f.at = "save" /\ f.name = "rm" /\ f.st = c.st
  BY <1>2 DEF update_children, Cmd
<1> HIDE DEF e, f
<1>5. Changes(e) /\ Changes(f)
  BY <1>4 DEF Changes
<1> QED BY <1>1, <1>3, <1>4, <1>5, DailyMoves DEF c

-----------------------------------------------------------------------------
(* Time, and the whole. *)

\* Time passes only while no command runs, and no day without a use.
LEMMA DailyTick ==
  ASSUME Typed, Daily, tick PROVE Daily'
<1>1. /\ \A p \in Procs : cmd[p].at = "idle"
      /\ clock - used < Day /\ clock' = clock + 1 /\ plan'.daily = plan.daily
      /\ UNCHANGED <<vaults, record, seen, expires, used, disk, cmd>>
  BY DEF tick, server, local, Typed, Plan
<1>2. /\ clock \in Nat /\ clock' \in Nat /\ used \in Nat /\ Day \in Nat /\ Times(seen, clock)
      /\ plan.daily \in Nodes /\ used <= clock
  BY <1>1, EnvironmentsAssumption DEF Typed, Plan, Daily
<1>3. used <= clock' /\ clock' <= used + Day
  BY <1>1, <1>2
<1>4. Times(seen', clock')
  <2>1. \A x \in Nodes : seen[x] \in Nat /\ seen[x] <= clock
    BY <1>2 DEF Times
  <2>2. \A x \in Nodes : seen[x] <= clock'
    BY <1>1, <1>2, <2>1
  <2> QED BY <1>1, <1>2, <2>2 DEF Times
<1>5. ASSUME NEW st \in State, Notes(st, Up[plan.daily], vaults, seen, clock)
      PROVE  Notes(st, Up[plan.daily], vaults, seen, clock')
  <2>1. \A x \in Nodes : st.touched[x] \in Int /\ st.touched[x] <= clock
    BY <1>5 DEF State, Notes
  <2>2. \A x \in Nodes : st.touched[x] <= clock'
    BY <1>1, <1>2, <2>1
  <2> QED BY <1>5, <2>2 DEF Notes
<1>6. ASSUME NEW p \in Procs PROVE Minds(cmd[p], plan.daily, vaults, seen, expires, clock')
  <2>1. Minds(cmd[p], plan.daily, vaults, seen, expires, clock) /\ cmd[p].st \in State
    BY Mind
  <2>2. Notes(cmd[p].st, Up[plan.daily], vaults, seen, clock')
    BY <1>5, <2>1 DEF Minds
  <2> QED BY <1>1, <2>1, <2>2 DEF Minds, Uses
<1>7. \A m \in Machines : Notes(disk[m], Up[plan.daily], vaults, seen, clock')
  BY <1>5 DEF Daily, Typed
<1> QED BY <1>1, <1>2, <1>3, <1>4, <1>6, <1>7 DEF Daily

\* A server that begins to expire has vaults used within a day only.
LEMMA DailyExpiryOn ==
  ASSUME Typed, Daily, expiry_on PROVE Daily'
<1>1. /\ ~expires /\ expires' = TRUE /\ \A n \in vaults : clock - seen[n] < Day
      /\ UNCHANGED <<vaults, record, seen, clock, used, disk, cmd, plan>>
  BY DEF expiry_on, server, local
<1>2. /\ clock \in Nat /\ used \in Nat /\ used <= clock /\ Times(seen, clock) /\ plan.daily \in Nodes
      /\ Day \in Nat \ {0} /\ Granularity \in Nat
  BY EnvironmentsAssumption DEF Typed, Plan, Daily
<1>3. ASSUME NEW x \in vaults PROVE clock <= seen[x] + Late /\ used <= seen[x] + Late
  <2>1. seen[x] \in Nat /\ clock - seen[x] < Day
    BY <1>1, <1>2 DEF Times, Typed
  <2> QED BY <1>2, <2>1 DEF Late
<1>4. ASSUME NEW p \in Procs PROVE Minds(cmd[p], plan.daily, vaults, seen, TRUE, clock)
  <2>1. Minds(cmd[p], plan.daily, vaults, seen, expires, clock)
    BY Mind
  <2>2. Uses(cmd[p], plan.daily, vaults, seen, TRUE, clock)
    BY <1>1, <1>3, <2>1 DEF Minds, Uses
  <2> QED BY <2>1, <2>2 DEF Minds
<1> QED BY <1>1, <1>3, <1>4 DEF Daily

LEMMA DailyInit == ASSUME Init, Typed PROVE Daily
<1>1. /\ vaults = plan.nodes /\ seen = [n \in Nodes |-> 0] /\ clock = 0 /\ used = 0
      /\ expires = plan.expires /\ cmd = [p \in Procs |-> NoCmd] /\ plan \in Plan
  BY DEF Init, Typed
<1>2. /\ Day \in Nat \ {0} /\ Granularity \in Nat /\ plan.daily \in Nodes /\ plan.expires \in BOOLEAN
      /\ \A n \in plan.nodes \ {1} : Parent[n] \in plan.nodes
  BY <1>1, EnvironmentsAssumption DEF Plan, Init
<1>3. Times(seen, clock) /\ used <= clock /\ clock <= used + Day
  BY <1>1, <1>2 DEF Times
<1>4. \A x \in Nodes : used <= seen[x] + Late
  BY <1>1, <1>2 DEF Late
<1>5. Lists(record)
  <2>1. ASSUME NEW n \in Nodes, NEW k \in record[n].kids PROVE k # 1 /\ Parent[k] = n
    BY <2>1 DEF Init, NoRecord
  <2> QED BY <2>1 DEF Lists
<1>6. \A p \in Procs : Minds(cmd[p], plan.daily, vaults, seen, expires, clock)
  BY <1>1, <1>2, IdleMinds
<1>7. ASSUME NEW m \in Machines PROVE Notes(disk[m], Up[plan.daily], vaults, seen, clock)
  <2>1. /\ disk[m].tree \in {{}, plan.nodes} /\ disk[m].held \in {{}, {1}}
        /\ disk[m].touched = [n \in Nodes |-> -1]
    BY DEF Init, Nothing
  <2>2. ASSUME NEW k \in disk[m].tree \ {1}
        PROVE  Parent[k] \in disk[m].tree /\ Told(disk[m], Parent[k], vaults, seen)
    <3>1. k \in plan.nodes /\ Parent[k] \in plan.nodes /\ Parent[k] \in Nodes
      BY <1>1, <1>2, <2>1, TreeDown DEF Plan
    <3>2. disk[m].touched[Parent[k]] = -1 /\ seen[Parent[k]] = 0
      BY <1>1, <2>1, <3>1
    <3>3. -1 <= 0 + Granularity
      BY <1>2
    <3> QED BY <2>1, <2>2, <3>1, <3>2, <3>3 DEF Told
  <2>3. \A x \in Nodes : disk[m].touched[x] <= clock
    BY <1>1, <2>1
  <2> QED BY <2>1, <2>2, <2>3 DEF Notes, Knows
<1>8. used \in Nat /\ expires \in BOOLEAN
  BY <1>1, <1>2
<1>9. \A x \in Up[plan.daily] \cap vaults : used <= seen[x] + Late
  BY <1>4 DEF Typed
<1> QED BY <1>3, <1>5, <1>6, <1>7, <1>8, <1>9 DEF Daily

LEMMA DailyNext ==
  ASSUME IInv, IInv', Daily, RootHeld', [Next]_vars PROVE Daily'
<1>1. Typed /\ Typed' /\ \A p \in Procs : Shape(cmd[p])
  BY DEF IInv
<1>2. CASE UNCHANGED vars
  <2>1. UNCHANGED <<vaults, record, seen, clock, expires, used, disk, cmd, plan>>
    BY <1>2 DEF vars, server, local, time, ghosts
  <2> QED BY <2>1 DEF Daily
<1>3. CASE tick
  BY <1>1, <1>3, DailyTick
<1>4. CASE expiry_on
  BY <1>1, <1>4, DailyExpiryOn
<1>5. ASSUME NEW p \in Procs, Command(p) PROVE Daily'
  <2>1. CASE begin_init(p)
    BY <1>1, <2>1, DailyBeginInit
  <2>2. ASSUME NEW n \in Nodes, \/ env_add(p, n) \/ env_repair(p, n) \/ refresh(p, n)
                                \/ import(p, n) \/ use(p, n)
                                \/ \E recursive \in BOOLEAN : env_remove(p, n, recursive)
        PROVE  Daily'
    BY <1>1, <2>2, DailyEnvAdd, DailyEnvRepair, DailyRefresh, DailyImport, DailyUse, DailyEnvRemove
  <2> QED BY <1>5, <2>1, <2>2 DEF Command
<1>6. ASSUME NEW p \in Procs, Request(p) PROVE Daily'
  BY <1>1, <1>6, DailyOpenOwner, DailyKeepAlive, DailyKeptAlive, DailyCheck, DailyCreate,
     DailyCreateEmpty, DailyChildren, DailyPutChildren, DailyDiscoverNext, DailyDiscovered,
     DailyDeleteVault, DailyDeleted, DailySaves DEF Request
<1>7. ASSUME NEW p \in Procs, interrupt(p) PROVE Daily'
  BY <1>1, <1>7, DailyInterrupt
<1> QED BY <1>2, <1>3, <1>4, <1>5, <1>6, <1>7 DEF Next

\* An environment that is used every day keeps everything above it from
\* expiring, for any tree and any commands of any number of machines meanwhile,
\* a server that begins to expire included, as long as no machine holds the key
\* of the environment itself, or of one between it and the project
\* (Owner::keep_alive goes up to the key held and no further).
THEOREM EnvironmentsAncestorsOutlive == Spec /\ []RootHeld => []AncestorsOutlive
<1>1. Init => IInv /\ Daily
  BY InitIInv, DailyInit DEF IInv
<1>2. IInv /\ Daily /\ RootHeld' /\ [Next]_vars => (IInv /\ Daily)'
  BY NextIInv, DailyNext
<1>3. IInv /\ Daily => AncestorsOutlive
  BY AllOpen DEF IInv, AncestorsOutlive
<1> QED BY <1>1, <1>2, <1>3, PTL DEF Spec

=============================================================================
