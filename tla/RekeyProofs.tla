---------------------------- MODULE RekeyProofs ----------------------------
(***************************************************************************)
(* Proofs about Rekey, for every tree, machine, workload and number of     *)
(* rekeys and interruptions.                                               *)
(*                                                                         *)
(* Keeps: what is on disk and on the server is well formed, and a plan's   *)
(* keys are in the key store wherever a command stops. PlanKept needs no   *)
(* more.                                                                   *)
(*                                                                         *)
(* Flow: what a command knows of the recorded plan at each of its steps.   *)
(*                                                                         *)
(* Places: whose keys the vaults and the children records name, whatever   *)
(* other machines do. An entry this machine reaches leads to the node's    *)
(* key of now, to the new key of the plan in progress, or to a key under   *)
(* which nothing is left; and a link nobody waits for is too late, names a *)
(* key that is gone, or links the rekey in progress. A rekey therefore     *)
(* retires only what discovery no longer reaches (RetiresUnreached).       *)
(*                                                                         *)
(* Quiet: where everything is while the machine is alone. Every node's     *)
(* vault is under the key its parent lists, with its whole record, and the *)
(* copy of a node has as much of it as the step says. The tree is then     *)
(* whole (TreeWhole).                                                      *)
(***************************************************************************)
EXTENDS Rekey, FiniteSetTheorems, NaturalsInduction, WellFoundedInduction, TLAPS

-----------------------------------------------------------------------------
(* The tree. *)

\* Below the project every node has a parent, and it has a smaller number.
LEMMA TreeDown ==
  /\ 1 \in Node /\ 2..N = Node \ {1} /\ Node \subseteq Nat \ {0}
  /\ \A n \in Node \ {1} : Parent[n] \in Node /\ Parent[n] < n
BY RekeyAssumption DEF Node

\* A set of naturals that is not empty has a least member.
LEMMA LeastNat ==
  ASSUME NEW T \in SUBSET Nat, T # {}
  PROVE  \E x \in T : \A y \in T : x <= y
<1> DEFINE R == OpToRel(<, Nat)
<1>1. IsWellFoundedOn(R, Nat)
  BY NatLessThanWellFounded
<1>2. \A x, y \in Nat : x < y => <<x, y>> \in R
  BY DEF OpToRel
<1> HIDE DEF R
<1>3. PICK x \in T : \A y \in T : <<y, x>> \notin R
  BY <1>1, WFMin
<1>4. ASSUME NEW y \in T PROVE x <= y
  <2>1. x \in Nat /\ y \in Nat /\ <<y, x>> \notin R
    BY <1>3
  <2>2. ~(y < x)
    BY <1>2, <2>1
  <2> QED BY <2>1, <2>2
<1> QED BY <1>4

\* A set of naturals below a bound that is not empty has a greatest member,
\* and Max is it.
LEMMA MaxIn ==
  ASSUME NEW T \in SUBSET Nat, T # {}, NEW b \in Nat, \A x \in T : x <= b
  PROVE  Max(T) \in T /\ \A y \in T : y <= Max(T)
<1> DEFINE D == {b - x : x \in T}
<1>0. \A x \in T : b - x \in Nat
  <2> TAKE x \in T
  <2>1. x \in Nat /\ x <= b
    OBVIOUS
  <2> QED BY <2>1
<1>1. D \in SUBSET Nat /\ D # {}
  BY <1>0
<1>2. PICK d \in D : \A y \in D : d <= y
  BY <1>1, LeastNat
<1>3. PICK x \in T : d = b - x
  BY <1>2
<1>4. \A y \in T : y <= x
  <2> TAKE y \in T
  <2>1. d <= b - y
    BY <1>2
  <2> QED BY <1>3, <2>1
<1>5. x \in T /\ \A y \in T : x >= y
  BY <1>3, <1>4
<1>6. Max(T) \in T /\ \A y \in T : Max(T) >= y
  BY <1>5 DEF Max
<1>7. Max(T) \in Nat /\ \A y \in T : y \in Nat
  BY <1>6
<1> QED BY <1>6, <1>7

LEMMA DeepestIn == ASSUME left \subseteq Node, left # {} PROVE deepest \in left
<1>1. left \in SUBSET Nat /\ N \in Nat /\ \A x \in left : x <= N
  BY RekeyAssumption DEF Node
<1> QED BY <1>1, MaxIn DEF deepest

\* There is a function that takes a value at the project and at every other
\* node what F makes of its value at the parent.
TreeFunction(g, b, F) == g[1] = b /\ \A n \in Node \ {1} : g[n] = F[<<n, g[Parent[n]]>>]

LEMMA TreeRecursion ==
  ASSUME NEW V, NEW b \in V, NEW F \in [Node \X V -> V]
  PROVE  \E g \in [Node -> V] : TreeFunction(g, b, F)
<1> DEFINE Good(i, g) == \A n \in 1..i : /\ n = 1 => g[n] = b
                                         /\ n # 1 => g[n] = F[<<n, g[Parent[n]]>>]
           T == {i \in 0..N : ~\E g \in [1..i -> V] : Good(i, g)}
<1>0. N \in Nat \ {0}
  BY RekeyAssumption
<1>1. ASSUME T # {} PROVE FALSE
  <2>1. T \in SUBSET Nat
    BY <1>0
  <2>2. PICK i \in T : \A j \in T : i <= j
    BY <1>1, <2>1, LeastNat
  <2>3. i \in 0..N /\ ~\E g \in [1..i -> V] : Good(i, g)
    BY <2>2
  <2>4. i # 0
    <3>1. [x \in 1..0 |-> b] \in [1..0 -> V] /\ Good(0, [x \in 1..0 |-> b])
      OBVIOUS
    <3> HIDE DEF Good
    <3> QED BY <2>3, <3>1
  <2>5. i - 1 \in 0..N /\ ~(i <= i - 1)
    BY <1>0, <2>3, <2>4
  <2>6. i - 1 \notin T
    BY <2>2, <2>5
  <2>7. PICK g \in [1..(i - 1) -> V] : Good(i - 1, g)
    BY <2>5, <2>6
  <2> DEFINE x == IF i = 1 THEN b ELSE F[<<i, g[Parent[i]]>>]
             h == [n \in 1..i |-> IF n = i THEN x ELSE g[n]]
  <2>8. i \in Node /\ (i # 1 => Parent[i] \in 1..(i - 1))
    BY <1>0, <2>3, <2>4, TreeDown DEF Node
  <2>9. x \in V
    BY <2>7, <2>8
  <2>10. h \in [1..i -> V]
    <3> HIDE DEF x
    <3> QED BY <2>3, <2>7, <2>9
  <2>11. ASSUME NEW n \in 1..i PROVE (n = 1 => h[n] = b) /\ (n # 1 => h[n] = F[<<n, h[Parent[n]]>>])
    <3>1. n \in Node /\ (n # 1 => Parent[n] \in 1..(n - 1))
      BY <1>0, <2>3, TreeDown DEF Node
    <3>2. CASE n = i
      <4>1. n # 1 => h[Parent[n]] = g[Parent[n]]
        <5> HIDE DEF x
        <5> QED BY <2>3, <3>1, <3>2
      <4>2. h[n] = x
        <5> HIDE DEF x
        <5> QED BY <3>2
      <4> QED BY <3>2, <4>1, <4>2
    <3>3. CASE n # i
      <4>1. n \in 1..(i - 1) /\ h[n] = g[n] /\ (n # 1 => h[Parent[n]] = g[Parent[n]])
        <5> HIDE DEF x
        <5> QED BY <2>3, <3>1, <3>3
      <4> HIDE DEF h
      <4> QED BY <2>7, <4>1
    <3> QED BY <3>2, <3>3
  <2>12. Good(i, h)
    <3> HIDE DEF h
    <3> QED BY <2>11
  <2> HIDE DEF h, Good
  <2> QED BY <2>3, <2>10, <2>12
<1>2. N \notin T
  BY <1>1
<1>3. PICK g \in [1..N -> V] : Good(N, g)
  BY <1>0, <1>2
<1>4. g \in [Node -> V]
  BY <1>3 DEF Node
<1>5. g[1] = b /\ \A n \in Node \ {1} : g[n] = F[<<n, g[Parent[n]]>>]
  <2>1. \A n \in Node : (n = 1 => g[n] = b) /\ (n # 1 => g[n] = F[<<n, g[Parent[n]]>>])
    BY <1>3, Zenon DEF Node
  <2>2. g[1] = b
    <3>1. 1 \in Node
      BY TreeDown
    <3> QED BY <2>1, <3>1, Zenon
  <2>3. \A n \in Node \ {1} : g[n] = F[<<n, g[Parent[n]]>>]
    BY <2>1, Zenon
  <2> QED BY <2>2, <2>3, Zenon
<1> QED BY <1>4, <1>5, Zenon DEF TreeFunction

\* Above is the function its definition describes.
LEMMA AboveWorks ==
  /\ Above \in [Node -> SUBSET Node]
  /\ \A n \in Node : Above[n] = {n} \cup (IF n = 1 THEN {} ELSE Above[Parent[n]])
<1> DEFINE V == SUBSET Node
           F == [x \in Node \X V |-> {x[1]} \cup x[2]]
<1>1. F \in [Node \X V -> V]
  OBVIOUS
<1>2. {1} \in V
  BY TreeDown
<1>3. \A n \in Node, S \in V : F[<<n, S>>] = {n} \cup S
  OBVIOUS
<1> HIDE DEF F, V
<1>3a. PICK g \in [Node -> V] : TreeFunction(g, {1}, F)
  BY <1>1, <1>2, TreeRecursion
<1>4. g[1] = {1} /\ \A n \in Node \ {1} : g[n] = F[<<n, g[Parent[n]]>>]
  BY <1>3a DEF TreeFunction
<1>5. ASSUME NEW n \in Node PROVE g[n] = {n} \cup (IF n = 1 THEN {} ELSE g[Parent[n]])
  <2>1. CASE n = 1
    BY <1>4, <2>1
  <2>2. CASE n # 1
    <3>1. Parent[n] \in Node
      BY <2>2, TreeDown
    <3>2. g[Parent[n]] \in V
      BY <1>3a, <3>1
    <3> QED BY <1>3, <1>4, <2>2, <3>2
  <2> QED BY <2>1, <2>2
<1>6. g = [n \in Node |-> g[n]]
  BY <1>3a
<1>7. g = [n \in Node |-> {n} \cup (IF n = 1 THEN {} ELSE g[Parent[n]])]
  BY <1>5, <1>6
<1>8. Above = [n \in Node |-> {n} \cup (IF n = 1 THEN {} ELSE Above[Parent[n]])]
  BY <1>7 DEF Above
<1>9. \A n \in Node : Above[n] = {n} \cup (IF n = 1 THEN {} ELSE Above[Parent[n]])
  BY <1>8
<1>10. ASSUME NEW n \in Node PROVE Above[n] \subseteq Node
  <2> DEFINE T == {m \in Node : ~(Above[m] \subseteq Node)}
  <2>1. ASSUME T # {} PROVE FALSE
    <3>1. PICK m \in T : \A y \in T : m <= y
      BY <2>1, LeastNat, TreeDown
    <3>2. m \in Node
      BY <3>1
    <3>3. CASE m = 1
      BY <1>9, <3>1, <3>2, <3>3
    <3>4. CASE m # 1
      <4>1. Parent[m] \in Node /\ ~(m <= Parent[m])
        BY <3>2, <3>4, TreeDown
      <4>2. Above[Parent[m]] \subseteq Node
        BY <3>1, <4>1
      <4> QED BY <1>9, <3>1, <3>2, <3>4, <4>2
    <3> QED BY <3>3, <3>4
  <2> QED BY <2>1
<1>11. Above = [n \in Node |-> Above[n]]
  BY <1>8
<1>12. Above \in [Node -> SUBSET Node]
  BY <1>10, <1>11
<1> QED BY <1>9, <1>12

LEMMA AboveStep == /\ Above[1] = {1}
                   /\ \A n \in Node : n \in Above[n]
                   /\ \A n \in Node \ {1} : Above[n] = {n} \cup Above[Parent[n]]
BY AboveWorks, TreeDown

\* What is above a node has no greater number.
LEMMA AboveSmaller == ASSUME NEW n \in Node PROVE \A m \in Above[n] : m \in Node /\ m <= n
<1> DEFINE T == {k \in Node : ~\A m \in Above[k] : m \in Node /\ m <= k}
<1>1. ASSUME T # {} PROVE FALSE
  <2>1. PICK k \in T : \A y \in T : k <= y
    BY <1>1, LeastNat, TreeDown
  <2>2. k \in Node /\ k \in Nat
    BY <2>1, TreeDown
  <2>3. CASE k = 1
    BY <2>1, <2>2, <2>3, AboveStep
  <2>4. CASE k # 1
    <3>1. Parent[k] \in Node /\ Parent[k] \in Nat /\ Parent[k] < k
      BY <2>2, <2>4, TreeDown
    <3>2. Parent[k] \notin T
      BY <2>1, <2>2, <3>1
    <3>3. \A m \in Above[Parent[k]] : m \in Node /\ m <= Parent[k]
      BY <3>1, <3>2
    <3>4. \A m \in Above[k] : m = k \/ m \in Above[Parent[k]]
      BY <2>2, <2>4, AboveStep
    <3>5. \A m \in Above[k] : m \in Node /\ m <= k
      <4> TAKE m \in Above[k]
      <4>1. CASE m = k
        BY <2>2, <4>1
      <4>2. CASE m \in Above[Parent[k]]
        <5>1. m \in Node /\ m \in Nat /\ m <= Parent[k]
          BY <3>3, <4>2, TreeDown
        <5> QED BY <2>2, <3>1, <5>1
      <4> QED BY <3>4, <4>1, <4>2
    <3> QED BY <2>1, <3>5
  <2> QED BY <2>3, <2>4
<1> QED BY <1>1

\* What is above something above a node is above the node.
LEMMA AboveTransitive ==
  ASSUME NEW n \in Node, NEW m \in Above[n] PROVE Above[m] \subseteq Above[n]
<1> DEFINE T == {k \in Node : ~\A x \in Above[k] : Above[x] \subseteq Above[k]}
<1>1. ASSUME T # {} PROVE FALSE
  <2>1. PICK k \in T : \A y \in T : k <= y
    BY <1>1, LeastNat, TreeDown
  <2>2. k \in Node /\ k \in Nat
    BY <2>1, TreeDown
  <2>3. CASE k = 1
    BY <2>1, <2>2, <2>3, AboveStep
  <2>4. CASE k # 1
    <3>1. Parent[k] \in Node /\ Parent[k] \in Nat /\ Parent[k] < k
      BY <2>2, <2>4, TreeDown
    <3>2. Parent[k] \notin T
      BY <2>1, <2>2, <3>1
    <3>3. \A x \in Above[Parent[k]] : Above[x] \subseteq Above[Parent[k]]
      BY <3>1, <3>2
    <3>4. Above[k] = {k} \cup Above[Parent[k]]
      BY <2>2, <2>4, AboveStep
    <3> QED BY <2>1, <3>3, <3>4
  <2> QED BY <2>3, <2>4
<1> QED BY <1>1

\* Of two nodes above another, one is above the other.
LEMMA AboveLinear ==
  ASSUME NEW n \in Node, NEW x \in Above[n], NEW y \in Above[n], y <= x PROVE y \in Above[x]
<1> DEFINE P(k) == \A a, b \in Above[k] : b <= a => b \in Above[a]
           T == {k \in Node : ~P(k)}
<1>1. ASSUME T # {} PROVE FALSE
  <2>1. PICK k \in T : \A z \in T : k <= z
    BY <1>1, LeastNat, TreeDown
  <2>2. k \in Node /\ k \in Nat /\ ~P(k)
    BY <2>1, TreeDown
  <2>3. CASE k = 1
    BY <2>2, <2>3, AboveStep
  <2>4. CASE k # 1
    <3>1. Parent[k] \in Node /\ Parent[k] \in Nat /\ Parent[k] < k
      BY <2>2, <2>4, TreeDown
    <3>2. P(Parent[k])
      BY <2>1, <2>2, <3>1
    <3>3. Above[k] = {k} \cup Above[Parent[k]]
      BY <2>2, <2>4, AboveStep
    <3>4. ASSUME NEW a \in Above[k], NEW b \in Above[k], b <= a PROVE b \in Above[a]
      <4>1. CASE a = k
        BY <4>1
      <4>2. CASE a \in Above[Parent[k]] /\ b = k
        <5>1. a \in Node /\ a <= Parent[k] /\ a \in Nat
          BY <3>1, <4>2, AboveSmaller, TreeDown
        <5> QED BY <2>2, <3>1, <3>4, <4>2, <5>1
      <4>3. CASE a \in Above[Parent[k]] /\ b \in Above[Parent[k]]
        BY <3>2, <3>4, <4>3
      <4> QED BY <3>3, <4>1, <4>2, <4>3
    <3> QED BY <2>2, <3>4
  <2> QED BY <2>3, <2>4
<1>2. P(n)
  BY <1>1
<1> QED BY <1>2

-----------------------------------------------------------------------------
(* The type invariant, and the keys a recorded plan needs. *)

Starting == {"keep_old", "keep_new", "record_plan"}
Ending == {"drop_below", "drop_old", "drop_new"}
Running == {"run_rekey", "create", "create_children", "open_old", "copy_from",
            "copy_version", "link_parent", "linked", "open_retired", "retire",
            "store_key", "finish", "save_state", "abort"}

\* The plan a process works on, and the recorded one.
Agrees(j, q) == /\ j.path = q.path /\ j.nodes = q.nodes /\ j.old = q.old
                /\ j.new = q.new /\ j.step = q.step

\* A command works on the recorded plan, except before it records it and
\* after it has forgotten it.
Control ==
    /\ at \in {"idle"} \cup Starting \cup Running \cup Ending
    /\ at = "idle" => job = NoPlan
    /\ at # "idle" => job \in Plan
    /\ at \in Starting \cup Ending => plan = NoPlan
    /\ at \in Running => plan \in Plan /\ Agrees(job, plan)
    /\ at \in {"keep_new", "record_plan"} => store.rekeyOld[job.path] = job.old[job.path]
    /\ at = "record_plan" => store.rekeyNew[job.path] = job.new

\* A node whose key is sealed in its parent's record is held.
SealedHeld == \A n \in Node : tree[n].sealed => n \in held

Record(r) == DOMAIN r \subseteq Node /\ Range(r) \subseteq Key

ServerOK ==
    /\ Vaults \subseteq Key \X Node
    /\ \A v \in Vaults : recs[v] \in Seq(Version) /\ Len(recs[v]) <= MaxVersions
    /\ DOMAIN kids = Vaults /\ DOMAIN kver = Vaults
    /\ \A v \in Vaults : Record(kids[v]) /\ kver[v] \in Nat

LocalOK ==
    /\ held \subseteq Node /\ tree \in [Node -> TreeNode] /\ store \in Store

ProcessOK ==
    /\ {plan, job} \subseteq {NoPlan} \cup Plan
    /\ left \subseteq Node /\ used \in Key /\ fails \in 0..MaxFail /\ written \in Nat
    /\ late \in {NoPut} \cup Put

LEMMA TypeParts == (TypeOK /\ written \in Nat) <=> (ServerOK /\ LocalOK /\ ProcessOK)
BY DEF TypeOK, ServerOK, LocalOK, ProcessOK, Record

Keeps == ServerOK /\ LocalOK /\ ProcessOK /\ KeysKept /\ Control /\ SealedHeld

\* Constants.
LEMMA Numbers ==
  /\ N \in Nat \ {0} /\ MaxKey \in Nat \ {0} /\ MaxVersions \in Nat \ {0}
  /\ MaxFail \in Nat /\ MaxWrite \in Nat
  /\ First \subseteq Node
BY RekeyAssumption

LEMMA PlanNotNone == NoPlan \notin Plan
<1>1. NoPlan.path = 0 /\ \A j \in Plan : j.path \in Node
  BY DEF NoPlan, Plan
<1>2. 0 \notin Node
  BY DEF Node
<1> QED BY <1>1, <1>2

LEMMA PutNotNone == NoPut \notin Put
<1>1. DOMAIN NoPut = {"version"} /\ \A j \in Put : DOMAIN j = {"vault", "version", "child", "key"}
  BY DEF NoPut, Put
<1>2. "vault" \notin {"version"}
  OBVIOUS
<1> QED BY <1>1, <1>2

\* The fields of a plan, and of one whose step or link is another.
LEMMA PlanFields ==
  ASSUME NEW j \in Plan
  PROVE  /\ j.path \in Node /\ j.nodes \subseteq Node /\ j.old \in [Node -> 0..MaxKey]
         /\ j.new \in Key /\ j.step \in Step
BY DEF Plan

LEMMA PlanStep ==
  ASSUME NEW j \in Plan, NEW s \in Step
  PROVE  LET k == [j EXCEPT !.step = s]
         IN  /\ k \in Plan /\ k.path = j.path /\ k.nodes = j.nodes /\ k.old = j.old
             /\ k.new = j.new /\ k.step = s /\ k.linked = j.linked
BY DEF Plan

LEMMA PlanLinked ==
  ASSUME NEW j \in Plan
  PROVE  LET k == [j EXCEPT !.linked = TRUE]
         IN  k \in Plan /\ Agrees(k, j) /\ k.linked
BY DEF Plan, Agrees

-----------------------------------------------------------------------------
(* The keys a machine has. *)

\* The nearest held node at or above a node.
LEMMA HeldRoot ==
  ASSUME NEW n \in Node
  PROVE  /\ held_root_for(n) \in Nat
         /\ held_root_for(n) = 0 <=> held \cap Above[n] = {}
         /\ held_root_for(n) # 0 => held_root_for(n) \in held \cap Above[n]
         /\ n \in held => held_root_for(n) = n
         /\ n # 1 /\ n \notin held => held_root_for(n) = held_root_for(Parent[n])
<1> DEFINE T == {0} \cup (held \cap Above[n])
<1>1. T \in SUBSET Nat /\ T # {} /\ N \in Nat /\ \A x \in T : x <= N
  <2>1. \A x \in Above[n] : x \in Node
    BY AboveSmaller
  <2>2. \A x \in Node : x \in Nat /\ x <= N
    BY Numbers DEF Node
  <2>3. 0 <= N
    BY Numbers
  <2> QED BY <2>1, <2>2, <2>3, Numbers
<1>2. Max(T) \in T /\ \A y \in T : y <= Max(T)
  BY <1>1, MaxIn
<1>3. held_root_for(n) = Max(T)
  BY DEF held_root_for
<1>4. held_root_for(n) \in T /\ \A y \in T : y <= held_root_for(n)
  BY <1>2, <1>3
<1>5. held_root_for(n) \in Nat
  BY <1>1, <1>4
<1>6. held_root_for(n) # 0 => held_root_for(n) \in held \cap Above[n]
  BY <1>4
<1>7. held_root_for(n) = 0 <=> held \cap Above[n] = {}
  <2>1. ASSUME held_root_for(n) = 0, NEW y \in held \cap Above[n] PROVE FALSE
    <3>1. y \in Node /\ y <= 0
      BY <1>4, <2>1, AboveSmaller
    <3> QED BY <3>1, TreeDown
  <2> QED BY <1>6, <2>1
<1>8. ASSUME n \in held PROVE held_root_for(n) = n
  <2>1. n \in T
    BY <1>8, AboveStep
  <2>2. n <= held_root_for(n) /\ n \in Nat /\ n # 0
    BY <1>4, <2>1, TreeDown
  <2>3. held_root_for(n) \in Above[n]
    BY <1>5, <1>6, <2>2
  <2> QED BY <1>5, <2>2, <2>3, AboveSmaller
<1>9. ASSUME n # 1, n \notin held PROVE held_root_for(n) = held_root_for(Parent[n])
  <2>1. held \cap Above[n] = held \cap Above[Parent[n]]
    BY <1>9, AboveStep
  <2> QED BY <2>1 DEF held_root_for
<1> QED BY <1>5, <1>6, <1>7, <1>8, <1>9

\* The key a machine has for a node: that of the nearest held node.
Own(n) == store.node[held_root_for(n)]

LEMMA OwnKey ==
  ASSUME LocalOK, NEW n \in Node, held_root_for(n) # 0
  PROVE  Own(n) \in 0..MaxKey
<1>1. held_root_for(n) \in Node
  BY HeldRoot DEF LocalOK
<1> QED BY <1>1 DEF Own, LocalOK, Store

\* So far as this machine knows, no key on the way is sealed.
LEMMA ChainIs ==
  ASSUME ServerOK, LocalOK, SealedHeld, NEW p \in Node
  PROVE  chain(p) = IF held_root_for(p) = 0 THEN 0 ELSE Own(p)
<1>0. SUFFICES ASSUME held_root_for(p) # 0 PROVE chain(p) = Own(p)
  BY DEF chain
<1> DEFINE r == held_root_for(p)
           V == 0..MaxKey
           G(n, above) == LET v == <<above, Parent[n]>>
                          IN  CASE above = 0 -> 0
                                [] above # 0 /\ ~tree[n].sealed -> above
                                [] OTHER -> IF v \in Vaults /\ n \in DOMAIN children(v)
                                            THEN children(v)[n] ELSE 0
           H(n, above) == CASE n < r -> 0
                            [] n = r -> store.node[r]
                            [] OTHER -> G(n, above)
           F == [x \in Node \X V |-> H(x[1], x[2])]
<1>1. r \in Node /\ r \in held
  BY <1>0, HeldRoot DEF LocalOK
<1>2. store.node[r] \in V
  BY <1>1 DEF LocalOK, Store
<1>3. \A n \in Node, a \in V : G(n, a) \in V
  <2> TAKE n \in Node, a \in V
  <2>1. 0 \in V /\ Key \subseteq V
    BY Numbers DEF Key
  <2>2. <<a, Parent[n]>> \in Vaults /\ n \in DOMAIN children(<<a, Parent[n]>>)
           => children(<<a, Parent[n]>>)[n] \in Key
    BY DEF ServerOK, Record, children, Range
  <2> HIDE DEF V
  <2> QED BY <2>1, <2>2
<1> HIDE DEF G
<1>4. \A n \in Node, a \in V : H(n, a) \in V
  <2>1. 0 \in V
    BY Numbers
  <2> HIDE DEF V, r
  <2> QED BY <1>2, <1>3, <2>1
<1> HIDE DEF H
<1>5. F \in [Node \X V -> V]
  <2> HIDE DEF V
  <2> QED BY <1>4
<1>6. \A n \in Node, a \in V : F[<<n, a>>] = H(n, a)
  <2> HIDE DEF V
  <2> QED OBVIOUS
<1> DEFINE b == IF 1 = r THEN store.node[r] ELSE 0
<1>7. b \in V /\ \A x : H(1, x) = b
  <2>1. 0 \in V
    BY Numbers
  <2>2. 1 < r \/ 1 = r
    BY <1>1, TreeDown
  <2> HIDE DEF V, r
  <2> QED BY <1>2, <2>1, <2>2 DEF H
<1> HIDE DEF F, V, b
<1>8. PICK g \in [Node -> V] : TreeFunction(g, b, F)
  BY <1>5, <1>7, TreeRecursion
<1>9. \A n \in Node : g[n] = H(n, g[Parent[n]])
  <2> TAKE n \in Node
  <2>1. CASE n = 1
    BY <1>7, <1>8, <2>1 DEF TreeFunction
  <2>2. CASE n # 1
    <3>1. g[Parent[n]] \in V
      BY <1>8, <2>2, TreeDown
    <3> QED BY <1>6, <1>8, <2>2, <3>1 DEF TreeFunction
  <2> QED BY <2>1, <2>2
<1>10. g = [n \in Node |-> H(n, g[Parent[n]])]
  BY <1>8, <1>9
<1> DEFINE key == CHOOSE f : f = [n \in Node |-> H(n, f[Parent[n]])]
<1>11. key = [n \in Node |-> H(n, key[Parent[n]])]
  BY <1>10
<1>12. \A n \in Node : key[n] = H(n, key[Parent[n]])
  BY <1>11
<1>13. chain(p) = key[p]
  BY <1>0 DEF chain, H, G
<1> HIDE DEF key
<1> DEFINE T == {k \in Node : held_root_for(k) = r /\ key[k] # store.node[r]}
<1>14. ASSUME T # {} PROVE FALSE
  <2>1. PICK k \in T : \A y \in T : k <= y
    BY <1>14, LeastNat, TreeDown
  <2>2. k \in Node /\ k \in Nat /\ held_root_for(k) = r /\ key[k] # store.node[r]
    BY <2>1, TreeDown
  <2>3. CASE k \in held
    <3>1. k = r
      BY <2>2, <2>3, HeldRoot
    <3>2. key[k] = store.node[r]
      BY <1>12, <2>2, <3>1 DEF H
    <3> QED BY <2>2, <3>2
  <2>4. CASE k \notin held
    <3>1. k # 1
      <4>1. ASSUME k = 1 PROVE FALSE
        <5>1. held \cap Above[k] = {}
          BY <2>4, <4>1, AboveStep
        <5> QED BY <1>0, <2>2, <5>1, HeldRoot
      <4> QED BY <4>1
    <3>2. Parent[k] \in Node /\ Parent[k] \in Nat /\ ~(k <= Parent[k])
      BY <2>2, <3>1, TreeDown
    <3>3. held_root_for(Parent[k]) = r
      BY <2>2, <2>4, <3>1, HeldRoot
    <3>4. key[Parent[k]] = store.node[r]
      BY <2>1, <3>2, <3>3
    <3>5. r \in Nat /\ ~(k < r) /\ k # r
      <4>1. r \in Above[k]
        BY <1>0, <2>2, HeldRoot
      <4>2. r <= k
        BY <2>2, <4>1, AboveSmaller
      <4> QED BY <1>1, <2>2, <2>4, <4>2, TreeDown
    <3>6. key[k] = G(k, store.node[r])
      <4> HIDE DEF r
      <4> QED BY <1>12, <2>2, <3>4, <3>5 DEF H
    <3>7. ~tree[k].sealed
      BY <2>2, <2>4 DEF SealedHeld
    <3>8. G(k, store.node[r]) = store.node[r]
      <4> HIDE DEF r
      <4> QED BY <3>7 DEF G
    <3> QED BY <2>2, <3>6, <3>8
  <2> QED BY <2>3, <2>4
<1>15. key[p] = store.node[r]
  BY <1>14
<1> QED BY <1>13, <1>15 DEF Own

\* The subtree through the children records.
ListedIs(key, p, root) ==
    /\ key \in [Node -> 0..MaxKey]
    /\ key[p] = root
    /\ \A n \in Node \ Below(p) : n # p => key[n] = 0
    /\ \A n \in Below(p) \ {p} :
          LET v == <<key[Parent[n]], Parent[n]>>
          IN  key[n] = IF v \in Vaults /\ n \in DOMAIN kids[v] THEN kids[v][n] ELSE 0

LEMMA ListedWorks ==
  ASSUME ServerOK, NEW p \in Node, NEW root \in 0..MaxKey PROVE ListedIs(listed(p, root), p, root)
<1> DEFINE V == 0..MaxKey
           G(n, above) == LET v == <<above, Parent[n]>>
                          IN  IF v \in Vaults /\ n \in DOMAIN children(v)
                              THEN children(v)[n] ELSE 0
           H(n, above) == CASE n = p -> root
                            [] n \notin Below(p) -> 0
                            [] OTHER -> G(n, above)
           F == [x \in Node \X V |-> H(x[1], x[2])]
<1>2. p \in Below(p)
  BY AboveStep DEF Below
<1>3. \A n \in Node, a \in V : G(n, a) \in V
  <2> TAKE n \in Node, a \in V
  <2>1. 0 \in V /\ Key \subseteq V
    BY Numbers DEF Key
  <2>2. <<a, Parent[n]>> \in Vaults /\ n \in DOMAIN children(<<a, Parent[n]>>)
           => children(<<a, Parent[n]>>)[n] \in Key
    BY DEF ServerOK, Record, children, Range
  <2> HIDE DEF V
  <2> QED BY <2>1, <2>2
<1> HIDE DEF G
<1>4. \A n \in Node, a \in V : H(n, a) \in V
  <2>1. 0 \in V /\ root \in V
    BY Numbers
  <2> HIDE DEF V
  <2> QED BY <1>3, <2>1
<1> HIDE DEF H
<1>5. F \in [Node \X V -> V]
  <2> HIDE DEF V
  <2> QED BY <1>4
<1>6. \A n \in Node, a \in V : F[<<n, a>>] = H(n, a)
  <2> HIDE DEF V
  <2> QED OBVIOUS
<1> DEFINE b == IF 1 = p THEN root ELSE 0
<1>7. b \in V /\ \A x : H(1, x) = b
  <2>1. 0 \in V /\ root \in V
    BY Numbers
  <2>2. 1 # p => 1 \notin Below(p)
    BY AboveStep DEF Below
  <2> HIDE DEF V
  <2> QED BY <1>2, <2>1, <2>2 DEF H
<1> HIDE DEF F, V, b
<1>8. PICK g \in [Node -> V] : TreeFunction(g, b, F)
  BY <1>5, <1>7, TreeRecursion
<1>9. \A n \in Node : g[n] = H(n, g[Parent[n]])
  <2> TAKE n \in Node
  <2>1. CASE n = 1
    BY <1>7, <1>8, <2>1 DEF TreeFunction
  <2>2. CASE n # 1
    <3>1. g[Parent[n]] \in V
      BY <1>8, <2>2, TreeDown
    <3> QED BY <1>6, <1>8, <2>2, <3>1 DEF TreeFunction
  <2> QED BY <2>1, <2>2
<1>10. g = [n \in Node |-> H(n, g[Parent[n]])]
  BY <1>8, <1>9
<1> DEFINE key == CHOOSE f : f = [n \in Node |-> H(n, f[Parent[n]])]
<1>11. key = [n \in Node |-> H(n, key[Parent[n]])]
  BY <1>10
<1>12. \A n \in Node : key[n] = H(n, key[Parent[n]])
  BY <1>11
<1>13. listed(p, root) = key
  BY DEF listed, H, G
<1>13a. DOMAIN key = Node /\ key = [n \in Node |-> key[n]]
  BY <1>11
<1> HIDE DEF key
<1>14. key[p] = root
  BY <1>2, <1>12 DEF H
<1>15. \A n \in Node \ Below(p) : n # p => key[n] = 0
  BY <1>12 DEF H
<1>16. \A n \in Below(p) \ {p} : key[n] = G(n, key[Parent[n]])
  BY <1>12 DEF H, Below
<1>17. ASSUME NEW n \in Node PROVE key[n] \in V
  <2> DEFINE T == {k \in Node : key[k] \notin V}
  <2>1. ASSUME T # {} PROVE FALSE
    <3>1. PICK k \in T : \A y \in T : k <= y
      BY <2>1, LeastNat, TreeDown
    <3>2. k \in Node /\ k \in Nat /\ key[k] \notin V
      BY <3>1, TreeDown
    <3>3. 0 \in V /\ root \in V
      BY Numbers DEF V
    <3>4. k # p /\ k \in Below(p)
      BY <1>14, <1>15, <3>2, <3>3
    <3>5. k # 1
      BY <3>4, AboveStep DEF Below
    <3>6. Parent[k] \in Node /\ Parent[k] \in Nat /\ ~(k <= Parent[k])
      BY <3>2, <3>5, TreeDown
    <3>7. key[Parent[k]] \in V
      BY <3>1, <3>6
    <3> QED BY <1>3, <1>16, <3>2, <3>4, <3>7
  <2> QED BY <2>1
<1>18. key \in [Node -> V]
  BY <1>13a, <1>17
<1> QED BY <1>13, <1>14, <1>15, <1>16, <1>18 DEF G, V, children, ListedIs

-----------------------------------------------------------------------------
(* What requests do to the types of the server's state. *)

LEMMA ServerStill == ASSUME ServerOK, UNCHANGED <<recs, kids, kver>> PROVE ServerOK'
BY DEF ServerOK, Vaults, Record

LEMMA ServerPut ==
  ASSUME ServerOK, NEW v, NEW r, Record(r), put_children(v, r), UNCHANGED recs
  PROVE  ServerOK'
BY DEF ServerOK, Vaults, put_children

LEMMA ServerDelete == ASSUME ServerOK, NEW v, delete_vault(v) PROVE ServerOK'
BY DEF ServerOK, Vaults, delete_vault, Without, Restrict

LEMMA NoRecord == Record(<<>>)
BY DEF Record, Range

LEMMA ServerCreate ==
  ASSUME ServerOK, NEW v \in Key \X Node,
         recs' = With(recs, v, <<>>), kids' = With(kids, v, <<>>), kver' = With(kver, v, 0)
  PROVE  ServerOK'
<1>1. <<>> \in Seq(Version) /\ Len(<<>>) <= MaxVersions /\ Record(<<>>)
  BY Numbers, NoRecord
<1> QED BY <1>1 DEF ServerOK, Vaults, With

\* The newest versions of a record are one that a vault retains.
LEMMA PrunedWorks ==
  ASSUME NEW S, NEW s \in Seq(S)
  PROVE  /\ pruned(s) \in Seq(S) /\ Len(pruned(s)) <= MaxVersions
         /\ Len(s) <= MaxVersions => pruned(s) = s
<1> DEFINE d == Len(s) - MaxVersions + 1
           m == Max({1, d})
<1>1. Len(s) \in Nat /\ MaxVersions \in Nat \ {0}
  BY Numbers
<1>2. d \in Int
  BY <1>1
<1>3. m \in {1, d} /\ m >= 1 /\ m >= d
  <2> HIDE DEF d
  <2>1. 1 >= d \/ d >= 1
    BY <1>2
  <2>2. \E x \in {1, d} : \A y \in {1, d} : x >= y
    BY <1>2, <2>1
  <2> QED BY <2>2 DEF Max
<1>4. m \in Nat /\ m >= 1 /\ m >= Len(s) - MaxVersions + 1
  BY <1>2, <1>3
<1>5. Len(s) <= MaxVersions => m = 1
  BY <1>1, <1>3
<1>6. pruned(s) = SubSeq(s, m, Len(s))
  BY DEF pruned
<1> HIDE DEF m, d
<1>7. pruned(s) \in Seq(S)
  BY <1>1, <1>4, <1>6
<1>8. Len(pruned(s)) = IF m <= Len(s) THEN Len(s) - m + 1 ELSE 0
  BY <1>1, <1>4, <1>6
<1>9. Len(pruned(s)) <= MaxVersions
  BY <1>1, <1>4, <1>8
<1>10. ASSUME Len(s) <= MaxVersions PROVE pruned(s) = s
  BY <1>1, <1>5, <1>6, <1>10
<1> QED BY <1>7, <1>9, <1>10

LEMMA ServerAppend ==
  ASSUME ServerOK, NEW v, NEW x \in Version,
         recs' = [recs EXCEPT ![v] = pruned(Append(@, x))], UNCHANGED <<kids, kver>>
  PROVE  ServerOK'
<1>1. ASSUME v \in Vaults
      PROVE  pruned(Append(recs[v], x)) \in Seq(Version) /\ Len(pruned(Append(recs[v], x))) <= MaxVersions
  <2>1. recs[v] \in Seq(Version)
    BY <1>1 DEF ServerOK
  <2>2. Append(recs[v], x) \in Seq(Version)
    BY <2>1
  <2> QED BY <2>2, PrunedWorks
<1> QED BY <1>1 DEF ServerOK, Vaults

LEMMA EntryOK ==
  ASSUME ServerOK, NEW v \in Vaults
  PROVE  /\ v \in Key \X Node /\ v[1] \in Key /\ v[2] \in Node
         /\ DOMAIN kids[v] \subseteq Node /\ \A n \in DOMAIN kids[v] : kids[v][n] \in Key
BY DEF ServerOK, Record, Range

LEMMA RecordWith ==
  ASSUME NEW r, Record(r), NEW n \in Node, NEW k \in Key PROVE Record(With(r, n, k))
BY DEF Record, With, Range

LEMMA RecordWithout == ASSUME NEW r, Record(r), NEW S PROVE Record(Without(r, S))
BY DEF Record, Without, Restrict, Range

-----------------------------------------------------------------------------
(* PlanKept. *)

\* A function of a finite set takes finitely many values.
LEMMA FiniteRange ==
  ASSUME NEW S, NEW T, NEW f \in [S -> T], IsFiniteSet(S) PROVE IsFiniteSet(Range(f))
<1>1. f \in Surjection(S, Range(f))
  BY DEF Surjection, Range
<1> QED BY <1>1, FS_Surjection

LEMMA KeepsInit == Init => Keeps /\ load \in Workloads
<1> SUFFICES ASSUME Init PROVE Keeps /\ load \in Workloads
  OBVIOUS
<1>1. 1 \in Key /\ First \subseteq Node /\ 1 \in 0..MaxKey /\ 0 \in 0..MaxKey /\ 0 \in 0..MaxFail
  BY Numbers DEF Key
<1>2. ServerOK
  <2>1. Vaults = {1} \X First /\ DOMAIN kids = Vaults /\ DOMAIN kver = Vaults
    BY DEF Init, Vaults
  <2>2. \A v \in Vaults : v[2] \in First
    BY <2>1
  <2>3. \A v \in Vaults : recs[v] = Written[v[2]]
    BY <2>1 DEF Init
  <2>4. \A n \in First : Written[n] \in Seq(Version) /\ Len(Written[n]) <= MaxVersions
    BY RekeyAssumption
  <2>5. ASSUME NEW v \in Vaults PROVE Record(kids[v]) /\ kver[v] \in Nat
    <3>1. kids[v] = [n \in {m \in First \ {1} : Parent[m] = v[2]} |-> 1] /\ kver[v] = 1
      BY <2>1 DEF Init
    <3> QED BY <1>1, <3>1 DEF Record, Range
  <2>6. Vaults \subseteq Key \X Node
    BY <1>1, <2>1
  <2> QED BY <2>1, <2>2, <2>3, <2>4, <2>5, <2>6 DEF ServerOK
<1>3. LocalOK /\ SealedHeld
  <2>1. PICK h \in load.held :
          /\ held = {h}
          /\ tree = [n \in Node |-> [vault |-> IF n \in First \cap Below(h) THEN 1 ELSE 0,
                                     sealed |-> FALSE]]
          /\ store = [node |-> [n \in Node |-> IF n = h THEN 1 ELSE 0],
                      rekeyOld |-> [n \in Node |-> 0], rekeyNew |-> [n \in Node |-> 0]]
    BY DEF Init
  <2>2. load \in Workloads
    BY DEF Init
  <2>3. h \in Node
    BY <1>1, <2>1, <2>2, RekeyAssumption
  <2>4. store \in Store
    BY <1>1, <2>1 DEF Store
  <2>5. tree \in [Node -> TreeNode]
    BY <1>1, <2>1 DEF TreeNode
  <2>6. SealedHeld
    BY <2>1 DEF SealedHeld
  <2> QED BY <2>1, <2>3, <2>4, <2>5, <2>6 DEF LocalOK
<1>4. written \in Nat
  <2>1. IsFiniteSet(First)
    <3>1. IsFiniteSet(1..N)
      BY Numbers, FS_Interval
    <3> QED BY <1>1, <3>1, FS_Subset DEF Node
  <2>2. \A n \in First : IsFiniteSet(Range(Written[n]))
    <3> TAKE n \in First
    <3>1. Written[n] \in Seq(Version)
      BY RekeyAssumption
    <3>2. Written[n] \in [1..Len(Written[n]) -> Version] /\ Len(Written[n]) \in Nat
      BY <3>1
    <3>3. IsFiniteSet(1..Len(Written[n]))
      BY <3>2, FS_Interval
    <3> QED BY <3>2, <3>3, FiniteRange
  <2> DEFINE R == [n \in First |-> Range(Written[n])]
             U == {Range(Written[n]) : n \in First}
  <2>3. IsFiniteSet(U)
    <3>1. U = Range(R) /\ R \in [First -> U]
      BY DEF Range
    <3> HIDE DEF R, U
    <3> QED BY <2>1, <3>1, FiniteRange
  <2>4. \A S \in U : IsFiniteSet(S)
    BY <2>2
  <2> HIDE DEF U
  <2>5. IsFiniteSet(UNION U)
    BY <2>3, <2>4, FS_UNION
  <2>6. Cardinality(UNION U) \in Nat
    BY <2>5, FS_CardinalityType
  <2> QED BY <2>6 DEF Init, U
<1>5. ProcessOK
  BY <1>1, <1>4 DEF Init, ProcessOK
<1>6. KeysKept /\ Control /\ load \in Workloads
  BY DEF Init, KeysKept, Control, Starting, Ending, Running
<1> QED BY <1>2, <1>3, <1>5, <1>6 DEF Keeps

\* What a step of a command keeps that only goes on, or ends: the plan, the
\* key store and the files are left alone.
LEMMA StepOn ==
  ASSUME Keeps, job' = job, UNCHANGED <<plan, held, tree, store>>, ServerOK',
         left' \subseteq Node, UNCHANGED <<used, written>>, fails' \in 0..MaxFail,
         late' \in {NoPut} \cup Put,
         at \in Running, at' \in Running
  PROVE  Keeps'
<1>1. ServerOK' /\ LocalOK' /\ KeysKept' /\ SealedHeld'
  BY DEF Keeps, LocalOK, KeysKept, SealedHeld
<1>2. ProcessOK'
  BY DEF Keeps, ProcessOK
<1>3. Control'
  BY DEF Keeps, Control, Starting, Ending, Running
<1> QED BY <1>1, <1>2, <1>3 DEF Keeps

LEMMA StepEnds ==
  ASSUME Keeps, End, UNCHANGED <<plan, held, tree>>, ServerOK', LocalOK', KeysKept',
         UNCHANGED <<used, written>>, fails' \in 0..MaxFail,
         late' \in {NoPut} \cup Put
  PROVE  Keeps'
<1>1. SealedHeld' /\ Control'
  BY DEF Keeps, SealedHeld, Control, Starting, Ending, Running, End
<1>2. ProcessOK'
  BY DEF Keeps, ProcessOK, End
<1> QED BY <1>1, <1>2 DEF Keeps

\* What others do leaves the process and its files alone.
LEMMA OthersKeep ==
  ASSUME Keeps, UNCHANGED <<local, process>>, ServerOK', written' \in Nat,
         UNCHANGED <<used, fails>>, late' \in {NoPut} \cup Put
  PROVE  Keeps'
<1>1. LocalOK' /\ SealedHeld' /\ KeysKept' /\ Control'
  BY DEF Keeps, SealedHeld, LocalOK, KeysKept, Control, local, process
<1>2. ProcessOK'
  BY DEF Keeps, ProcessOK, local, process
<1> QED BY <1>1, <1>2 DEF Keeps

LEMMA Typed ==
  ASSUME Keeps
  PROVE  /\ ServerOK /\ LocalOK /\ ProcessOK /\ KeysKept /\ Control /\ SealedHeld
         /\ late \in {NoPut} \cup Put /\ fails \in 0..MaxFail /\ left \subseteq Node /\ written \in Nat
         /\ used \in Key
         /\ plan \in {NoPlan} \cup Plan /\ (plan # NoPlan => plan \in Plan)
         /\ job \in {NoPlan} \cup Plan /\ (at # "idle" => job \in Plan)
BY DEF Keeps, ProcessOK, Control

LEMMA KeepsBegin ==
  ASSUME Keeps, load \in Workloads, NEW p \in Node, begin_rekey(p) PROVE Keeps'
<1> DEFINE root == chain(p)
           found == listed(p, root)
           nodes == {n \in Node : found[n] # 0}
<1>1. root \in 0..MaxKey
  <2>1. ServerOK /\ LocalOK /\ SealedHeld
    BY Typed
  <2>2. 0 \in 0..MaxKey
    BY Numbers
  <2> QED BY <2>1, <2>2, ChainIs, OwnKey
<1>2. job' = [path |-> p, nodes |-> nodes, old |-> found, new |-> used + 1,
              step |-> "planned", linked |-> FALSE]
  BY DEF begin_rekey
<1>3. found \in [Node -> 0..MaxKey]
  <2>1. ServerOK
    BY Typed
  <2> HIDE DEF root
  <2> QED BY <1>1, <2>1, ListedWorks DEF ListedIs
<1>4. used + 1 \in Key /\ used' = used + 1
  <2>1. load.keys \in 1..MaxKey /\ used < load.keys /\ used \in 1..MaxKey /\ MaxKey \in Nat
    BY RekeyAssumption, Typed DEF begin_rekey, Key
  <2>2. used + 1 \in 1..MaxKey
    BY <2>1
  <2> QED BY <2>2 DEF begin_rekey, Key
<1>5. nodes \subseteq Node
  OBVIOUS
<1> HIDE DEF nodes, found, root
<1>6. job' \in Plan
  <2>1. used + 1 \in Key /\ found \in [Node -> 0..MaxKey] /\ nodes \in SUBSET Node
    BY <1>3, <1>4, <1>5
  <2> QED BY <1>2, <2>1 DEF Plan, Step
<1>7. ServerOK' /\ LocalOK' /\ KeysKept' /\ SealedHeld'
  BY Typed, ServerStill DEF begin_rekey, local, server, LocalOK, KeysKept, SealedHeld
<1>8. ProcessOK'
  BY <1>4, <1>6, Typed DEF begin_rekey, local, server, ProcessOK
<1>9. plan = NoPlan /\ plan' = NoPlan /\ at' = "keep_old"
  BY DEF begin_rekey, local, Goto
<1>10. Control'
  BY <1>6, <1>9, PlanNotNone DEF Control, Starting, Ending, Running
<1> QED BY <1>7, <1>8, <1>10 DEF Keeps

LEMMA KeyNumbers == Key \subseteq 0..MaxKey /\ 0 \in 0..MaxKey
BY Numbers DEF Key

LEMMA JobFields ==
  ASSUME Keeps, at # "idle"
  PROVE  /\ job \in Plan /\ job.path \in Node /\ job.nodes \subseteq Node
         /\ job.old \in [Node -> 0..MaxKey]
         /\ job.new \in Key /\ job.new \in 0..MaxKey /\ job.old[job.path] \in 0..MaxKey
         /\ job.step \in Step
BY Typed, PlanFields, KeyNumbers

LEMMA KeepsKeepOld == ASSUME Keeps, keep_old PROVE Keeps'
<1>1. at = "keep_old" /\ at' = "keep_new" /\ job' = job /\ plan' = plan /\ plan = NoPlan
  BY Typed DEF keep_old, Goto, Control, Starting
<1>2. job \in Plan /\ job.path \in Node /\ job.old[job.path] \in 0..MaxKey
  BY <1>1, JobFields
<1>3. store' \in Store /\ store'.rekeyOld[job.path] = job.old[job.path]
  <2>1. store \in Store /\ store' = [store EXCEPT !.rekeyOld[job.path] = job.old[job.path]]
    BY Typed DEF keep_old, LocalOK
  <2> QED BY <1>2, <2>1 DEF Store
<1>4. ServerOK' /\ LocalOK' /\ KeysKept' /\ SealedHeld'
  BY <1>1, <1>3, Typed, ServerStill DEF keep_old, server, LocalOK, KeysKept, SealedHeld
<1>5. ProcessOK'
  BY Typed DEF keep_old, ProcessOK, server, ghosts
<1>6. Control'
  BY <1>1, <1>2, <1>3 DEF Control, Starting, Ending, Running
<1> QED BY <1>4, <1>5, <1>6 DEF Keeps

LEMMA KeepsKeepNew == ASSUME Keeps, keep_new PROVE Keeps'
<1>1. at = "keep_new" /\ at' = "record_plan" /\ job' = job /\ plan' = plan /\ plan = NoPlan
  BY Typed DEF keep_new, Goto, Control, Starting
<1>2. job \in Plan /\ job.path \in Node /\ job.new \in 0..MaxKey
      /\ store.rekeyOld[job.path] = job.old[job.path]
  BY <1>1, JobFields, Typed DEF Control
<1>3. store' \in Store /\ store'.rekeyNew[job.path] = job.new /\ store'.rekeyOld = store.rekeyOld
  <2>1. store \in Store /\ store' = [store EXCEPT !.rekeyNew[job.path] = job.new]
    BY Typed DEF keep_new, LocalOK
  <2> QED BY <1>2, <2>1 DEF Store
<1>4. ServerOK' /\ LocalOK' /\ KeysKept' /\ SealedHeld'
  BY <1>1, <1>3, Typed, ServerStill DEF keep_new, server, LocalOK, KeysKept, SealedHeld
<1>5. ProcessOK'
  BY Typed DEF keep_new, ProcessOK, server, ghosts
<1>6. Control'
  BY <1>1, <1>2, <1>3 DEF Control, Starting, Ending, Running
<1> QED BY <1>4, <1>5, <1>6 DEF Keeps

LEMMA KeepsRecordPlan == ASSUME Keeps, record_plan PROVE Keeps'
<1>1. at = "record_plan" /\ at' = "run_rekey" /\ job' = job /\ plan' = job /\ store' = store
  BY DEF record_plan, Goto
<1>2. job \in Plan /\ store.rekeyOld[job.path] = job.old[job.path]
      /\ store.rekeyNew[job.path] = job.new
  BY <1>1, JobFields, Typed DEF Control
<1>3. ServerOK' /\ LocalOK' /\ KeysKept' /\ SealedHeld'
  BY <1>1, <1>2, Typed, ServerStill DEF record_plan, server, LocalOK, KeysKept, SealedHeld
<1>4. ProcessOK'
  BY <1>1, <1>2, Typed DEF record_plan, ProcessOK, server
<1>5. Control'
  BY <1>1, <1>2, PlanNotNone DEF Control, Starting, Ending, Running, Agrees
<1> QED BY <1>3, <1>4, <1>5 DEF Keeps

LEMMA KeepsResume == ASSUME Keeps, rekey_resume \/ abort_rekey PROVE Keeps'
<1>1. /\ at = "idle" /\ at' \in {"run_rekey", "abort"} /\ job' = plan /\ plan' = plan
      /\ plan # NoPlan /\ UNCHANGED <<recs, kids, kver, late, held, tree, store, used, written, fails>>
      /\ left' \in {left, plan.nodes}
  BY DEF rekey_resume, abort_rekey, Goto, server, local, ghosts
<1>2. plan \in Plan /\ plan.nodes \subseteq Node
  BY <1>1, Typed, PlanFields
<1>3. ServerOK' /\ LocalOK' /\ KeysKept' /\ SealedHeld'
  BY <1>1, Typed, ServerStill DEF LocalOK, KeysKept, SealedHeld
<1>4. ProcessOK'
  BY <1>1, <1>2, Typed DEF ProcessOK
<1>5. Control'
  BY <1>1, <1>2, PlanNotNone DEF Control, Starting, Ending, Running, Agrees
<1> QED BY <1>3, <1>4, <1>5 DEF Keeps

\* The plan is recorded with its next step.
LEMMA KeepsAdvance ==
  ASSUME Keeps, NEW step \in Step, NEW next \in Running, at \in Running, advance(step, next),
         UNCHANGED <<server, held, tree, store, ghosts>>
  PROVE  Keeps'
<1>1. plan' = [job EXCEPT !.step = step] /\ job' = plan' /\ at' = next /\ left' = job.nodes
      /\ UNCHANGED <<recs, kids, kver, late, held, tree, store, used, written, fails>>
  BY DEF advance, Goto, server, ghosts
<1>2. job \in Plan /\ at # "idle" /\ plan \in Plan /\ Agrees(job, plan)
  BY Typed DEF Control, Running
<1>3. /\ plan' \in Plan /\ plan'.path = job.path /\ plan'.old = job.old /\ plan'.new = job.new
      /\ job.nodes \subseteq Node
  BY <1>1, <1>2, PlanStep, PlanFields
<1>4. plan # NoPlan
  BY <1>2, PlanNotNone
<1>5. KeysKept'
  BY <1>1, <1>2, <1>3, <1>4, Typed DEF KeysKept, Agrees
<1>6. ServerOK' /\ LocalOK' /\ SealedHeld'
  BY <1>1, Typed, ServerStill DEF LocalOK, SealedHeld
<1>7. ProcessOK'
  BY <1>1, <1>3, Typed DEF ProcessOK
<1>8. Control'
  BY <1>1, <1>3, PlanNotNone DEF Control, Starting, Ending, Running, Agrees
<1> QED BY <1>5, <1>6, <1>7, <1>8 DEF Keeps

\* A step that runs on, or ends, and leaves the server and the files alone.
LEMMA KeepsGoes ==
  ASSUME Keeps, at \in Running, UNCHANGED <<server, local, ghosts>>,
         \/ End
         \/ at' \in Running /\ job' = job /\ left' \in {left, job.nodes}
  PROVE  Keeps'
<1>1. UNCHANGED <<recs, kids, kver, late, plan, held, tree, store, used, written, fails>>
  BY DEF server, local, ghosts
<1>2. ServerOK' /\ LocalOK' /\ KeysKept'
  BY <1>1, Typed, ServerStill DEF LocalOK, KeysKept
<1>3. late' \in {NoPut} \cup Put /\ fails' \in 0..MaxFail /\ at # "idle"
  BY <1>1, Typed DEF Running
<1>4. CASE End
  BY <1>1, <1>2, <1>3, <1>4, StepEnds
<1>5. CASE at' \in Running /\ job' = job /\ left' \in {left, job.nodes}
  <2>1. left' \subseteq Node
    BY <1>3, <1>5, Typed, JobFields
  <2> QED BY <1>1, <1>2, <1>3, <1>5, <2>1, StepOn
<1> QED BY <1>4, <1>5

LEMMA KeepsRunRekey == ASSUME Keeps, run_rekey PROVE Keeps'
<1>1. at \in Running /\ UNCHANGED <<server, local, ghosts>> /\ at # "idle"
  BY DEF run_rekey, Running
<1>2. job.step \in Step
  BY <1>1, JobFields
<1>3. \/ End
      \/ at' \in Running /\ job' = job /\ left' \in {left, job.nodes}
  BY <1>2 DEF run_rekey, Goto, Running, Step
<1> QED BY <1>1, <1>3, KeepsGoes

LEMMA KeepsOpenOld == ASSUME Keeps, open_old PROVE Keeps'
<1>1. at \in Running /\ UNCHANGED <<server, local, ghosts>>
  BY DEF open_old, Running
<1>2. \/ End
      \/ at' \in Running /\ job' = job /\ left' \in {left, job.nodes}
  BY DEF open_old, Goto, Running
<1> QED BY <1>1, <1>2, KeepsGoes

LEMMA KeepsCopyFrom == ASSUME Keeps, copy_from \/ detached PROVE Keeps'
<1>1. at \in Running /\ UNCHANGED <<server, local, ghosts>>
  BY DEF copy_from, detached, Running
<1>2. \/ End
      \/ at' \in Running /\ job' = job /\ left' \in {left, job.nodes}
  BY DEF copy_from, detached, Goto, Running
<1> QED BY <1>1, <1>2, KeepsGoes

LEMMA KeepsAdvances == ASSUME Keeps, created \/ migrated \/ linked \/ retired PROVE Keeps'
<1>1. at \in Running /\ UNCHANGED <<server, held, tree, store, ghosts>>
  BY DEF created, migrated, linked, retired, Running
<1>2. PICK s \in Step, l \in Running : advance(s, l)
  <2>1. \A l \in {"open_old", "link_parent", "open_retired", "store_key"} : l \in Running
    BY DEF Running
  <2>2. \A s \in {"created", "migrated", "linked", "retired"} : s \in Step
    BY DEF Step
  <2> QED BY <2>1, <2>2 DEF created, migrated, linked, retired
<1> QED BY <1>1, <1>2, KeepsAdvance

LEMMA KeepsCreate == ASSUME Keeps, create_vault PROVE Keeps'
<1> DEFINE v == <<job.new, deepest>>
<1>1. /\ at = "create" /\ left # {} /\ job' = job /\ left' \subseteq left
      /\ at' \in {"create", "create_children"}
      /\ UNCHANGED <<late, plan, held, tree, store, used, written, fails>>
  BY DEF create_vault, Goto, server, local, ghosts
<1>2. v \in Key \X Node
  BY <1>1, JobFields, DeepestIn, Typed
<1>3. ServerOK'
  <2>1. CASE v \in Vaults
    BY <2>1, Typed, ServerStill DEF create_vault, server
  <2>2. CASE v \notin Vaults
    BY <1>2, <2>2, Typed, ServerCreate DEF create_vault
  <2> QED BY <2>1, <2>2
<1>4. at \in Running /\ at' \in Running
  BY <1>1 DEF Running
<1> QED BY <1>1, <1>3, <1>4, Typed, StepOn

LEMMA KeepsCreateChildren == ASSUME Keeps, create_children PROVE Keeps'
<1>1. /\ at = "create_children" /\ job' = job /\ left' \subseteq left /\ at' = "create"
      /\ UNCHANGED <<recs, late, plan, held, tree, store, used, written, fails>>
  BY DEF create_children, Goto, local, ghosts
<1>2. put_children(<<job.new, deepest>>, <<>>)
  BY DEF create_children
<1>3. ServerOK'
  BY <1>1, <1>2, Typed, ServerPut, NoRecord
<1>4. at \in Running /\ at' \in Running
  BY <1>1 DEF Running
<1> QED BY <1>1, <1>3, <1>4, Typed, StepOn

LEMMA KeepsCopyVersion == ASSUME Keeps, copy_version PROVE Keeps'
<1> DEFINE old == <<keys[deepest], deepest>>
           new == <<job.new, deepest>>
           able == {old, new} \subseteq Vaults /\ Head(todo) \in Range(recs[old])
<1>1. /\ at = "copy_version"
      /\ UNCHANGED <<kids, kver, late, plan, held, tree, store, used, written, fails>>
  BY DEF copy_version, local, ghosts
<1>2. CASE able
  <2>1. /\ recs' = [recs EXCEPT ![new] = pruned(Append(@, Head(todo)))]
        /\ UNCHANGED <<at, job, left, keys>>
    BY <1>2 DEF copy_version
  <2>2. Head(todo) \in Version
    <3>1. recs[old] \in Seq(Version)
      BY <1>2, Typed DEF ServerOK
    <3>2. \A x \in Range(recs[old]) : x \in Version
      BY <3>1 DEF Range
    <3> QED BY <1>2, <3>2
  <2>3. ServerOK'
    BY <1>1, <2>1, <2>2, Typed, ServerAppend
  <2>4. at \in Running /\ at' \in Running
    BY <1>1, <2>1 DEF Running
  <2> QED BY <1>1, <2>1, <2>3, <2>4, Typed, StepOn
<1>3. CASE ~able
  <2>1. End /\ recs' = recs
    BY <1>3 DEF copy_version
  <2>2. ServerOK' /\ LocalOK' /\ KeysKept'
    BY <1>1, <2>1, Typed, ServerStill DEF LocalOK, KeysKept
  <2> QED BY <1>1, <2>1, <2>2, Typed, StepEnds
<1> QED BY <1>2, <1>3

LEMMA KeepsListChildren == ASSUME Keeps, list_children PROVE Keeps'
<1> DEFINE new == <<job.new, deepest>>
           below == direct_children(job.nodes, deepest)
           record == [n \in below \cup DOMAIN children(new) |->
                         IF n \in DOMAIN children(new) THEN children(new)[n] ELSE job.new]
<1>1. /\ at = "copy_version"
      /\ UNCHANGED <<recs, late, plan, held, tree, store, used, written, fails>>
  BY DEF list_children, local, ghosts
<1>2. job.new \in Key /\ job.nodes \subseteq Node
  BY <1>1, JobFields
<1>3. CASE new \in Vaults
  <2>1. /\ put_children(new, record) \/ UNCHANGED <<kids, kver>>
        /\ left' = left \ {deepest} /\ at' = "copy_from" /\ job' = job
    BY <1>3 DEF list_children, Goto
  <2>2. Record(record)
    <3>1. below \subseteq Node
      BY <1>2 DEF direct_children
    <3>2. DOMAIN children(new) \subseteq Node /\ \A n \in DOMAIN children(new) : children(new)[n] \in Key
      BY <1>3, Typed, EntryOK DEF children
    <3> HIDE DEF below, new
    <3>3. \A n \in below \cup DOMAIN children(new) : record[n] \in Key
      BY <1>2, <3>2
    <3> QED BY <3>1, <3>2, <3>3 DEF Record, Range
  <2>3. ServerOK'
    <3> HIDE DEF record, new
    <3> QED BY <1>1, <2>1, <2>2, Typed, ServerPut, ServerStill
  <2>4. at \in Running /\ at' \in Running /\ left' \subseteq Node
    BY <1>1, <2>1, Typed DEF Running
  <2> QED BY <1>1, <2>1, <2>3, <2>4, Typed, StepOn
<1>4. CASE new \notin Vaults
  <2>1. End /\ UNCHANGED <<kids, kver>>
    BY <1>4 DEF list_children
  <2>2. ServerOK' /\ LocalOK' /\ KeysKept'
    BY <1>1, <2>1, Typed, ServerStill DEF LocalOK, KeysKept
  <2> QED BY <1>1, <2>1, <2>2, Typed, StepEnds
<1> QED BY <1>3, <1>4

LEMMA KeepsSealChild == ASSUME Keeps, seal_child PROVE Keeps'
<1> DEFINE v == parent_vault(job.path)
           record == With(children(v), job.path, job.new)
<1>1. /\ at = "link_parent"
      /\ UNCHANGED <<recs, late, plan, held, tree, store, used, written, fails>>
  BY DEF seal_child, local, ghosts
<1>2. job \in Plan /\ job.new \in Key /\ job.path \in Node /\ plan \in Plan /\ Agrees(job, plan)
  BY <1>1, JobFields, Typed DEF Control, Running
<1>3. CASE v \in Vaults
  <2>1. /\ put_children(v, record) /\ job' = [job EXCEPT !.linked = TRUE]
        /\ left' = left /\ at' = "linked"
    BY <1>3 DEF seal_child, Goto
  <2>2. Record(record)
    <3>1. Record(children(v))
      BY <1>3, Typed DEF ServerOK, children
    <3> HIDE DEF v
    <3> QED BY <1>2, <3>1, RecordWith
  <2>3. ServerOK'
    <3> HIDE DEF record, v
    <3> QED BY <1>1, <2>1, <2>2, Typed, ServerPut
  <2>4. job' \in Plan /\ Agrees(job', job)
    BY <1>2, <2>1, PlanLinked
  <2>5. Control'
    BY <1>1, <1>2, <2>1, <2>4 DEF Control, Starting, Ending, Running, Agrees
  <2>6. ProcessOK' /\ LocalOK' /\ KeysKept' /\ SealedHeld'
    BY <1>1, <2>1, <2>4, Typed DEF ProcessOK, LocalOK, KeysKept, SealedHeld
  <2> QED BY <2>3, <2>5, <2>6 DEF Keeps
<1>4. CASE v \notin Vaults
  <2>1. End /\ UNCHANGED <<kids, kver>>
    BY <1>4 DEF seal_child
  <2>2. ServerOK' /\ LocalOK' /\ KeysKept'
    BY <1>1, <2>1, Typed, ServerStill DEF LocalOK, KeysKept
  <2> QED BY <1>1, <2>1, <2>2, Typed, StepEnds
<1> QED BY <1>3, <1>4

LEMMA KeepsSealLate == ASSUME Keeps, seal_child_late PROVE Keeps'
<1> DEFINE v == parent_vault(job.path)
<1>1. /\ at = "link_parent" /\ fails < MaxFail /\ fails' = fails + 1 /\ End /\ v \in Vaults
      /\ UNCHANGED <<recs, kids, kver, plan, held, tree, store, used, written>>
      /\ late' = [vault |-> v, version |-> kver[v], child |-> job.path, key |-> job.new]
  BY DEF seal_child_late, local
<1>2. ServerOK' /\ LocalOK' /\ KeysKept'
  BY <1>1, Typed, ServerStill DEF LocalOK, KeysKept
<1>3. fails' \in 0..MaxFail
  BY <1>1, Typed, Numbers
<1>4. v \in Key \X Node /\ kver[v] \in Nat /\ job.path \in Node /\ job.new \in Key
  BY <1>1, Typed, JobFields DEF ServerOK
<1>5. late' \in Put
  <2> HIDE DEF v
  <2> QED BY <1>1, <1>4 DEF Put
<1> QED BY <1>1, <1>2, <1>3, <1>5, StepEnds

LEMMA KeepsRetire == ASSUME Keeps, retire \/ abort_vault PROVE Keeps'
<1>1. /\ at \in {"retire", "abort"} /\ job' = job /\ left' \subseteq left /\ at' = at
      /\ UNCHANGED <<late, plan, held, tree, store, used, written, fails>>
  BY DEF retire, abort_vault, local, ghosts
<1>2. UNCHANGED <<recs, kids, kver>> \/ \E v : delete_vault(v)
  BY DEF retire, abort_vault
<1>3. ServerOK'
  BY <1>2, Typed, ServerStill, ServerDelete
<1>4. at \in Running /\ at' \in Running
  BY <1>1 DEF Running
<1> QED BY <1>1, <1>3, <1>4, Typed, StepOn

LEMMA KeepsStoreKey == ASSUME Keeps, store_key PROVE Keeps'
<1>1. /\ at = "store_key" /\ at' = "finish"
      /\ store' = [store EXCEPT !.node[job.path] = job.new]
      /\ UNCHANGED <<recs, kids, kver, late, plan, held, tree, job, left, used, written, fails>>
  BY DEF store_key, Goto, server, ghosts
<1>2. job \in Plan /\ job.path \in Node /\ job.new \in 0..MaxKey /\ store \in Store
  BY <1>1, JobFields, Typed DEF LocalOK
<1>3. /\ store' \in Store /\ store'.rekeyNew = store.rekeyNew /\ store'.rekeyOld = store.rekeyOld
  BY <1>1, <1>2 DEF Store
<1>4. ServerOK' /\ LocalOK' /\ KeysKept' /\ SealedHeld' /\ ProcessOK'
  BY <1>1, <1>3, Typed, ServerStill DEF LocalOK, KeysKept, SealedHeld, ProcessOK
<1>5. Control'
  BY <1>1, Typed DEF Control, Starting, Ending, Running
<1> QED BY <1>4, <1>5 DEF Keeps

LEMMA KeepsFinish == ASSUME Keeps, finish_rekey PROVE Keeps'
<1> DEFINE p == job.path
           new == [n \in Node |-> IF n \notin Below(p) THEN tree[n]
                                  ELSE [vault |-> IF n \in job.nodes THEN job.new ELSE 0,
                                        sealed |-> n = p /\ job.linked]]
<1>1. /\ at = "finish" /\ at' = "save_state" /\ left' = (held \cap Below(p)) \ {p}
      /\ held' = (held \ Below(p)) \cup {p} /\ tree' = new
      /\ UNCHANGED <<recs, kids, kver, late, plan, store, job, used, written, fails>>
  BY DEF finish_rekey, Goto, server, ghosts
<1>2. job \in Plan /\ p \in Node /\ job.new \in 0..MaxKey /\ 0 \in 0..MaxKey
  BY <1>1, JobFields, KeyNumbers
<1>3. left' \subseteq Node /\ held' \subseteq Node
  BY <1>1, <1>2, Typed DEF LocalOK
<1>4. tree' \in [Node -> TreeNode]
  <2>1. \A n \in Node : tree[n] \in TreeNode
    BY Typed DEF LocalOK
  <2>2. \A n \in Node : [vault |-> IF n \in job.nodes THEN job.new ELSE 0,
                         sealed |-> n = p /\ job.linked] \in TreeNode
    <3> TAKE n \in Node
    <3>1. (IF n \in job.nodes THEN job.new ELSE 0) \in 0..MaxKey
      BY <1>2
    <3>2. (n = p /\ job.linked) \in BOOLEAN
      BY Zenon
    <3> QED BY <3>1, <3>2, Zenon DEF TreeNode
  <2> QED BY <1>1, <2>1, <2>2
<1>5. SealedHeld'
  <2>1. ASSUME NEW n \in Node, tree'[n].sealed PROVE n \in held'
    <3>1. CASE n \notin Below(p)
      <4>1. tree'[n] = tree[n]
        BY <1>1, <3>1
      <4>2. n \in held
        BY <2>1, <4>1, Typed DEF SealedHeld
      <4> QED BY <1>1, <3>1, <4>2
    <3>2. CASE n \in Below(p)
      <4>1. tree'[n].sealed = (n = p /\ job.linked)
        BY <1>1, <3>2
      <4>2. n = p
        BY <2>1, <4>1, Zenon
      <4> QED BY <1>1, <4>2
    <3> QED BY <3>1, <3>2
  <2> QED BY <2>1 DEF SealedHeld
<1>6. ServerOK' /\ KeysKept' /\ ProcessOK'
  BY <1>1, <1>3, Typed, ServerStill DEF KeysKept, ProcessOK
<1>7. LocalOK'
  BY <1>1, <1>3, <1>4, Typed DEF LocalOK
<1>8. Control'
  BY <1>1, Typed DEF Control, Starting, Ending, Running
<1> QED BY <1>5, <1>6, <1>7, <1>8 DEF Keeps

LEMMA KeepsForgets == ASSUME Keeps, save_state \/ forget_plan PROVE Keeps'
<1>1. /\ at \in {"save_state", "abort"} /\ at' \in {"drop_below", "drop_old"} /\ plan' = NoPlan
      /\ UNCHANGED <<recs, kids, kver, late, held, tree, store, job, left, used, written, fails>>
  BY DEF save_state, forget_plan, Goto, server, ghosts
<1>2. ServerOK' /\ LocalOK' /\ KeysKept' /\ SealedHeld' /\ ProcessOK'
  BY <1>1, Typed, ServerStill DEF LocalOK, KeysKept, SealedHeld, ProcessOK
<1>3. Control'
  BY <1>1, Typed DEF Control, Starting, Ending, Running
<1> QED BY <1>2, <1>3 DEF Keeps

LEMMA KeepsDrops == ASSUME Keeps, drop_below \/ drop_old \/ drop_new PROVE Keeps'
<1>1. /\ at \in Ending /\ UNCHANGED <<recs, kids, kver, late, plan, held, tree, used, written, fails>>
  BY DEF drop_below, drop_old, drop_new, Ending, server, ghosts
<1>2. plan = NoPlan /\ job.path \in Node /\ store \in Store /\ at # "idle" /\ job \in Plan
  BY <1>1, Typed, JobFields DEF Control, LocalOK, Ending
<1>3. store' \in Store
  BY <1>2, KeyNumbers DEF drop_below, drop_old, drop_new, Store
<1>4. ServerOK' /\ LocalOK' /\ KeysKept' /\ SealedHeld'
  BY <1>1, <1>2, <1>3, Typed, ServerStill DEF LocalOK, KeysKept, SealedHeld
<1>5. CASE drop_new
  BY <1>1, <1>4, <1>5, Typed, StepEnds DEF drop_new
<1>6. CASE drop_below \/ drop_old
  <2>1. at' \in Ending /\ job' = job /\ left' \subseteq left
    BY <1>6 DEF drop_below, drop_old, Goto, Ending
  <2>2. ProcessOK'
    BY <1>1, <2>1, Typed DEF ProcessOK
  <2>3. Control'
    BY <1>1, <1>2, <2>1 DEF Control, Starting, Ending, Running
  <2> QED BY <1>4, <2>2, <2>3 DEF Keeps
<1> QED BY <1>5, <1>6

LEMMA KeepsInterrupt == ASSUME Keeps, Interrupt PROVE Keeps'
<1>1. /\ fails < MaxFail /\ fails' = fails + 1 /\ End
      /\ UNCHANGED <<recs, kids, kver, late, plan, held, tree, store, used, written>>
  BY DEF Interrupt, End, server, local
<1>2. ServerOK' /\ LocalOK' /\ KeysKept'
  BY <1>1, Typed, ServerStill DEF LocalOK, KeysKept
<1>3. fails' \in 0..MaxFail
  BY <1>1, Typed, Numbers
<1> QED BY <1>1, <1>2, <1>3, Typed, StepEnds

LEMMA KeepsWrite == ASSUME Keeps, write PROVE Keeps'
<1> DEFINE version == [at |-> written + 1, tombstone |-> FALSE]
<1>1. PICK v \in Vaults : recs' = [recs EXCEPT ![v] = pruned(Append(@, version))]
  BY DEF write
<1>2. /\ written < MaxWrite /\ written' = written + 1
      /\ UNCHANGED <<kids, kver, late, local, process, used, fails>>
  BY DEF write
<1>3. version \in Version
  <2>1. written + 1 \in 1..MaxWrite
    BY <1>2, Typed, Numbers
  <2> QED BY <2>1 DEF Version
<1>4. ServerOK'
  <2> HIDE DEF version
  <2> QED BY <1>1, <1>2, <1>3, Typed, ServerAppend
<1>5. written' \in Nat
  BY <1>2, Typed
<1> QED BY <1>2, <1>4, <1>5, Typed, OthersKeep

LEMMA KeepsEnvAdd == ASSUME Keeps, NEW n \in Node \ {1}, env_add(n) PROVE Keeps'
<1>1. PICK k \in Key :
         LET v == <<k, Parent[n]>>
             new == <<k, n>>
             kept == new \in Vaults
         IN  /\ v \in Vaults /\ Known(k) /\ n \notin DOMAIN children(v)
             /\ recs' = IF kept THEN recs ELSE With(recs, new, <<>>)
             /\ kids' = With(IF kept THEN kids ELSE With(kids, new, <<>>), v,
                             With(children(v), n, k))
             /\ kver' = With(IF kept THEN kver ELSE With(kver, new, 1), v, kver[v] + 1)
  BY DEF env_add
<1> DEFINE v == <<k, Parent[n]>>
           new == <<k, n>>
           r == With(children(v), n, k)
<1>2. UNCHANGED <<late, local, process, written, used, fails>>
  BY DEF env_add
<1>3. v \in Vaults /\ new \in Key \X Node
  BY <1>1
<1>4. Record(r) /\ kver[v] + 1 \in Nat /\ Record(<<>>)
  <2>1. Record(children(v)) /\ kver[v] \in Nat
    BY <1>3, Typed DEF ServerOK, children
  <2> HIDE DEF v
  <2> QED BY <2>1, RecordWith, NoRecord
<1>5. <<>> \in Seq(Version) /\ Len(<<>>) <= MaxVersions
  BY Numbers
<1>6. /\ recs' = IF new \in Vaults THEN recs ELSE With(recs, new, <<>>)
      /\ kids' = With(IF new \in Vaults THEN kids ELSE With(kids, new, <<>>), v, r)
      /\ kver' = With(IF new \in Vaults THEN kver ELSE With(kver, new, 1), v, kver[v] + 1)
  BY <1>1
<1> HIDE DEF v, new, r
<1>7. ServerOK'
  <2>1. ServerOK
    BY Typed
  <2>2. DOMAIN recs' = Vaults \cup {new} /\ DOMAIN kids' = Vaults \cup {new}
        /\ DOMAIN kver' = Vaults \cup {new}
    BY <1>3, <1>6, <2>1 DEF ServerOK, Vaults, With
  <2>3. \A w \in Vaults \cup {new} :
           /\ recs'[w] = IF w \in Vaults THEN recs[w] ELSE <<>>
           /\ kids'[w] = IF w = v THEN r ELSE IF w \in Vaults THEN kids[w] ELSE <<>>
           /\ kver'[w] = IF w = v THEN kver[v] + 1 ELSE IF w \in Vaults THEN kver[w] ELSE 1
    BY <1>3, <1>6, <2>1 DEF ServerOK, Vaults, With
  <2>4. \A w \in Vaults \cup {new} :
           /\ recs'[w] \in Seq(Version) /\ Len(recs'[w]) <= MaxVersions
           /\ Record(kids'[w]) /\ kver'[w] \in Nat
    <3> TAKE w \in Vaults \cup {new}
    <3>1. recs'[w] \in Seq(Version) /\ Len(recs'[w]) <= MaxVersions
      BY <1>5, <2>1, <2>3 DEF ServerOK
    <3>2. Record(kids'[w])
      BY <1>4, <2>1, <2>3 DEF ServerOK
    <3>3. kver'[w] \in Nat
      BY <1>4, <2>1, <2>3 DEF ServerOK
    <3> QED BY <3>1, <3>2, <3>3
  <2>5. Vaults \cup {new} \subseteq Key \X Node
    BY <1>3, <2>1 DEF ServerOK
  <2> QED BY <2>2, <2>4, <2>5 DEF ServerOK, Vaults, Record
<1> QED BY <1>2, <1>7, Typed, OthersKeep

LEMMA KeepsEnvRemove == ASSUME Keeps, NEW n \in Node \ {1}, env_remove(n) PROVE Keeps'
<1>1. PICK k \in Key :
         LET v == <<k, Parent[n]>>
             gone == <<children(v)[n], n>>
         IN  /\ v \in Vaults /\ Known(k) /\ n \in DOMAIN children(v)
             /\ gone \in Vaults /\ children(gone) = <<>>
             /\ recs' = Without(recs, {gone})
             /\ kids' = With(Without(kids, {gone}), v, Without(children(v), {n}))
             /\ kver' = With(Without(kver, {gone}), v, kver[v] + 1)
  BY DEF env_remove
<1> DEFINE v == <<k, Parent[n]>>
           gone == <<children(v)[n], n>>
           r == Without(children(v), {n})
<1>2. UNCHANGED <<late, local, process, written, used, fails>>
  BY DEF env_remove
<1>3. v \in Vaults /\ v # gone
  <2>1. Parent[n] # n
    BY TreeDown
  <2> QED BY <1>1, <2>1
<1>4. Record(r) /\ kver[v] + 1 \in Nat
  <2>1. Record(children(v)) /\ kver[v] \in Nat
    BY <1>3, Typed DEF ServerOK, children
  <2> HIDE DEF v
  <2> QED BY <2>1, RecordWithout
<1>6. /\ recs' = Without(recs, {gone})
      /\ kids' = With(Without(kids, {gone}), v, r)
      /\ kver' = With(Without(kver, {gone}), v, kver[v] + 1)
  BY <1>1
<1> HIDE DEF v, gone, r
<1>7. ServerOK'
  <2>1. ServerOK
    BY Typed
  <2>2. DOMAIN recs' = Vaults \ {gone} /\ DOMAIN kids' = Vaults \ {gone}
        /\ DOMAIN kver' = Vaults \ {gone}
    BY <1>3, <1>6, <2>1 DEF ServerOK, Vaults, With, Without, Restrict
  <2>3. \A w \in Vaults \ {gone} :
           /\ recs'[w] = recs[w]
           /\ kids'[w] = IF w = v THEN r ELSE kids[w]
           /\ kver'[w] = IF w = v THEN kver[v] + 1 ELSE kver[w]
    BY <1>3, <1>6, <2>1 DEF ServerOK, Vaults, With, Without, Restrict
  <2>4. \A w \in Vaults \ {gone} :
           /\ recs'[w] \in Seq(Version) /\ Len(recs'[w]) <= MaxVersions
           /\ Record(kids'[w]) /\ kver'[w] \in Nat
    BY <1>4, <2>1, <2>3 DEF ServerOK
  <2>5. Vaults \ {gone} \subseteq Key \X Node
    BY <2>1 DEF ServerOK
  <2> QED BY <2>2, <2>4, <2>5 DEF ServerOK, Vaults, Record
<1> QED BY <1>2, <1>7, Typed, OthersKeep

LEMMA KeepsPutLands == ASSUME Keeps, put_lands PROVE Keeps'
<1>1. late # NoPut /\ late' = NoPut /\ UNCHANGED <<recs, local, process, ghosts>>
  BY DEF put_lands
<1>2. late \in Put /\ late.child \in Node /\ late.key \in Key
  BY <1>1, Typed DEF Put
<1>3. ServerOK'
  <2>1. CASE late.vault \in Vaults /\ kver[late.vault] = late.version
    <3>1. put_children(late.vault, With(children(late.vault), late.child, late.key))
      BY <2>1 DEF put_lands
    <3>2. Record(children(late.vault))
      BY <2>1, Typed DEF ServerOK, children
    <3> QED BY <1>1, <1>2, <3>1, <3>2, Typed, RecordWith, ServerPut
  <2>2. CASE ~(late.vault \in Vaults /\ kver[late.vault] = late.version)
    BY <1>1, <2>2, Typed, ServerStill DEF put_lands
  <2> QED BY <2>1, <2>2
<1> QED BY <1>1, <1>3, Typed, OthersKeep DEF ghosts

LEMMA KeepsStutter == ASSUME Keeps, UNCHANGED vars PROVE Keeps'
BY DEF Keeps, vars, server, local, process, ghosts, ServerOK, LocalOK, ProcessOK, KeysKept,
       Control, SealedHeld, Record, Vaults

LEMMA KeepsNext == ASSUME Keeps, load \in Workloads, [Next]_vars PROVE Keeps'
<1>1. CASE \E p \in Node : begin_rekey(p)
  BY <1>1, KeepsBegin
<1>2. CASE rekey_resume \/ abort_rekey
  BY <1>2, KeepsResume
<1>3. CASE RunNext
  BY <1>3, KeepsKeepOld, KeepsKeepNew, KeepsRecordPlan, KeepsRunRekey, KeepsCreate,
     KeepsCreateChildren, KeepsAdvances, KeepsOpenOld, KeepsCopyFrom, KeepsCopyVersion,
     KeepsListChildren, KeepsSealChild, KeepsRetire, KeepsStoreKey, KeepsFinish, KeepsForgets,
     KeepsDrops DEF RunNext
<1>4. CASE seal_child_late \/ Interrupt
  BY <1>4, KeepsSealLate, KeepsInterrupt
<1>5. CASE OthersNext
  <2>1. 2..N = Node \ {1}
    BY TreeDown
  <2> QED BY <1>5, <2>1, KeepsWrite, KeepsEnvAdd, KeepsEnvRemove, KeepsPutLands DEF OthersNext
<1>6. CASE UNCHANGED vars
  BY <1>6, KeepsStutter
<1> QED BY <1>1, <1>2, <1>3, <1>4, <1>5, <1>6 DEF Next

\* What state.toml and the key store hold is well formed whenever a process
\* stops, and a recorded plan finds its keys there: Owner::rekey_resume and
\* Owner::abort_rekey can go on from any interruption.
THEOREM PlanIsKept == Spec => []PlanKept
<1>1. Init => Keeps /\ load \in Workloads
  BY KeepsInit
<1>2. (Keeps /\ load \in Workloads) /\ [Next]_vars => (Keeps /\ load \in Workloads)'
  <2> SUFFICES ASSUME Keeps, load \in Workloads, [Next]_vars
               PROVE  (Keeps /\ load \in Workloads)'
    OBVIOUS
  <2>1. load' \in Workloads
    BY DEF Next, vars
  <2> QED BY <2>1, KeepsNext
<1>3. Keeps => PlanKept
  BY TypeParts DEF Keeps, PlanKept, ProcessOK
<1> QED BY <1>1, <1>2, <1>3, PTL DEF Spec

-----------------------------------------------------------------------------
(* Where a command is. *)

\* The recorded step a command is at work after, what its loops have still to
\* do, the old keys it has opened, and what it has saved of its end.
Flow ==
    /\ at \in Starting => job.step = "planned"
    /\ at \in {"create", "create_children"} => job.step = "planned"
    /\ at \in {"open_old", "copy_from", "copy_version"} => job.step = "created"
    /\ at \in {"link_parent", "linked"} => job.step = "migrated"
    /\ at \in {"open_retired", "retire"} => job.step = "linked"
    /\ at \in {"store_key", "finish", "save_state"} => job.step = "retired"
    /\ at = "abort" => Rank[job.step] < Rank["linked"]
    /\ at \in {"create", "create_children", "open_old", "copy_from", "copy_version",
               "open_retired", "retire", "abort"} => left \subseteq job.nodes
    /\ at \in {"create_children", "copy_version"} => left # {}
    /\ at \in {"copy_from", "copy_version", "retire"} =>
         \A n \in job.nodes : keys[n] \in {0, job.old[n]}
    /\ at \in {"finish", "save_state"} => store.node[job.path] = job.new
    /\ at = "save_state" => held \cap Below(job.path) = {job.path}
    /\ at \in {"save_state", "drop_below"} => left \cap held = {}

Ranks == Rank["planned"] = 0 /\ Rank["created"] = 1 /\ Rank["migrated"] = 2 /\ Rank["linked"] = 3
         /\ Rank["retired"] = 4

LEMMA RankValues == Ranks /\ \A s \in Step : Rank[s] \in 0..4
BY DEF Rank, Step, Ranks

LEMMA FlowEnds == ASSUME End PROVE Flow'
BY DEF End, Flow, Starting

LEMMA FlowStill == ASSUME Flow, UNCHANGED <<process, held, store>> PROVE Flow'
BY DEF Flow, process

LEMMA FlowStarts ==
  ASSUME Keeps, Flow, (\E p \in Node : begin_rekey(p)) \/ keep_old \/ keep_new \/ record_plan
  PROVE  Flow'
BY DEF Flow, Starting, begin_rekey, keep_old, keep_new, record_plan, Goto

LEMMA FlowResumes == ASSUME Keeps, Flow, rekey_resume \/ abort_rekey PROVE Flow'
BY DEF Flow, Starting, rekey_resume, abort_rekey, may_abort, Goto

LEMMA FlowRun == ASSUME Keeps, Flow, run_rekey PROVE Flow'
<1>1. job.step \in Step
  BY JobFields DEF run_rekey
<1>2. CASE End
  BY <1>2, FlowEnds
<1>3. CASE ~End
  BY <1>1, <1>3 DEF Flow, Starting, run_rekey, Goto, Step
<1> QED BY <1>2, <1>3

LEMMA FlowCreate == ASSUME Keeps, Flow, create_vault \/ create_children \/ created PROVE Flow'
<1>1. at # "idle"
  BY DEF create_vault, create_children, created
<1>2. job \in Plan
  BY <1>1, JobFields
<1>3. CASE create_vault \/ create_children
  BY <1>3 DEF Flow, Starting, create_vault, create_children, Goto
<1>4. CASE created
  <2>1. job' = [job EXCEPT !.step = "created"] /\ left' = job.nodes /\ at' = "open_old"
    BY <1>4 DEF created, advance, Goto
  <2>2. job'.step = "created" /\ job'.nodes = job.nodes
    BY <1>2, <2>1, PlanStep DEF Step
  <2> QED BY <2>1, <2>2 DEF Flow, Starting
<1> QED BY <1>3, <1>4

LEMMA FlowOpens == ASSUME Keeps, Flow, open_old PROVE Flow'
<1>1. CASE End
  BY <1>1, FlowEnds
<1>2. CASE ~End
  <2>1. /\ keys' = old_keys(job.path, job.nodes, store.rekeyOld[job.path])
        /\ \A n \in job.nodes : keys'[n] \in {0, job.old[n]}
    BY <1>2 DEF open_old, opens
  <2>2. UNCHANGED <<job, left, held, store>> /\ at \in {"open_old", "open_retired"}
        /\ at' = IF at = "open_old" THEN "copy_from" ELSE "retire"
    BY <1>2 DEF open_old, Goto, local
  <2> QED BY <2>1, <2>2 DEF Flow, Starting
<1> QED BY <1>1, <1>2

LEMMA FlowCopies == ASSUME Keeps, Flow, copy_from \/ copy_version \/ list_children PROVE Flow'
<1>1. CASE End
  BY <1>1, FlowEnds
<1>2. CASE ~End
  BY <1>2 DEF Flow, Starting, copy_from, copy_version, list_children, Goto
<1> QED BY <1>1, <1>2

LEMMA FlowAdvances == ASSUME Keeps, Flow, migrated \/ linked \/ retired PROVE Flow'
<1>1. at # "idle"
  BY DEF migrated, linked, retired
<1>2. job \in Plan
  BY <1>1, JobFields
<1>3. PICK s \in {"migrated", "linked", "retired"} :
         /\ job' = [job EXCEPT !.step = s] /\ left' = job.nodes
         /\ at' = CASE s = "migrated" -> "link_parent" [] s = "linked" -> "open_retired"
                    [] s = "retired" -> "store_key"
  BY DEF migrated, linked, retired, advance, Goto
<1>4. job'.step = s /\ job'.nodes = job.nodes
  BY <1>2, <1>3, PlanStep DEF Step
<1> QED BY <1>3, <1>4 DEF Flow, Starting

LEMMA FlowLinks == ASSUME Keeps, Flow, detached \/ seal_child PROVE Flow'
<1>1. CASE End
  BY <1>1, FlowEnds
<1>2. CASE ~End
  <2>1. at = "link_parent" /\ at' = "linked" /\ job \in Plan
    BY <1>2, JobFields DEF detached, seal_child, Goto
  <2>2. job' \in {job, [job EXCEPT !.linked = TRUE]}
    BY <1>2 DEF detached, seal_child
  <2>3. job'.step = job.step
    BY <2>1, <2>2, PlanLinked DEF Agrees
  <2> QED BY <2>1, <2>3 DEF Flow, Starting
<1> QED BY <1>1, <1>2

LEMMA FlowRetires == ASSUME Keeps, Flow, retire \/ abort_vault \/ forget_plan PROVE Flow'
BY DEF Flow, Starting, retire, abort_vault, forget_plan, Goto, local

LEMMA FlowFinishes ==
  ASSUME Keeps, Flow, store_key \/ finish_rekey \/ save_state \/ drop_below \/ drop_old \/ drop_new
  PROVE  Flow'
<1>1. CASE store_key
  <2>1. job.path \in Node /\ store \in Store
    BY <1>1, JobFields, Typed DEF store_key, LocalOK
  <2>2. store'.node[job.path] = job.new
    BY <1>1, <2>1 DEF store_key, Store
  <2> QED BY <1>1, <2>2 DEF Flow, Starting, store_key, Goto
<1>2. CASE finish_rekey
  <2>1. job.path \in Below(job.path)
    BY <1>2, JobFields, AboveStep DEF finish_rekey, Below
  <2> QED BY <1>2, <2>1 DEF Flow, Starting, finish_rekey, Goto
<1>3. CASE save_state \/ drop_below \/ drop_old
  BY <1>3 DEF Flow, Starting, save_state, drop_below, drop_old, Goto
<1>4. CASE drop_new
  BY <1>4, FlowEnds DEF drop_new
<1> QED BY <1>1, <1>2, <1>3, <1>4

LEMMA FlowNext == ASSUME Keeps, Flow, [Next]_vars PROVE Flow'
<1>1. CASE (\E p \in Node : begin_rekey(p)) \/ rekey_resume \/ abort_rekey
  BY <1>1, FlowStarts, FlowResumes
<1>2. CASE RunNext
  BY <1>2, FlowStarts, FlowRun, FlowCreate, FlowOpens, FlowCopies, FlowAdvances, FlowLinks,
     FlowRetires, FlowFinishes DEF RunNext
<1>3. CASE seal_child_late \/ Interrupt
  BY <1>3, FlowEnds DEF seal_child_late, Interrupt, End
<1>4. CASE OthersNext \/ UNCHANGED vars
  <2>1. UNCHANGED <<process, held, store>>
    BY <1>4 DEF OthersNext, write, env_add, env_remove, put_lands, vars, local
  <2> QED BY <2>1, FlowStill
<1> QED BY <1>1, <1>2, <1>3, <1>4 DEF Next

LEMMA FlowInit == Init => Flow
BY DEF Init, Flow, Starting

-----------------------------------------------------------------------------
(* Whose keys the vaults and the children records name. *)

\* The environments that exist, or did.
Grown == First \cup DOMAIN truth

\* The key of a rekey that is neither finished nor given up.
Current(k) == \/ plan # NoPlan /\ k = plan.new
              \/ at \in Starting /\ k = job.new

\* A key that no vault derives from, and that none will.
Gone(k) == ~Current(k) /\ \A v \in Vaults : v[1] # k

Before == plan # NoPlan /\ Rank[plan.step] < Rank["linked"]

\* The vault this machine finds a node's parent in.
above(n) == <<Own(Parent[n]), Parent[n]>>

SoundPlan(x) == /\ x.path \in x.nodes /\ x.nodes \subseteq Below(x.path) \cap Grown
                /\ x.new <= used /\ \A n \in Node : x.old[n] < x.new

\* A plan names nodes below its own, and a key younger than the old ones.
PlansSound == /\ plan # NoPlan => SoundPlan(plan)
              /\ job # NoPlan => SoundPlan(job)

\* Every key in use has been generated.
KeysBound ==
    /\ \A v \in Vaults : v[1] <= used /\ \A n \in DOMAIN kids[v] : kids[v][n] <= used
    /\ \A n \in Node : store.node[n] <= used
    /\ late # NoPut => late.vault[1] <= used /\ late.key <= used

\* Every node in use is one that exists, or did.
NodesGrown ==
    /\ \A v \in Vaults : v[2] \in Grown /\ DOMAIN kids[v] \subseteq Grown
    /\ held \subseteq Grown
    /\ \A n \in Node : tree[n].vault # 0 => n \in Grown
    /\ late # NoPut => late.child \in Grown /\ late.vault[2] \in Grown

\* The new key of a rekey is not the machine's own before its end, and has
\* no vault before the plan is recorded.
NewUnused ==
    /\ at \in Starting => /\ \A v \in Vaults : v[1] # job.new
                          /\ \A n \in Node : store.node[n] # job.new
    /\ plan # NoPlan => \A n \in Node : store.node[n] = plan.new => n = plan.path /\ plan.step = "retired"

\* The new subtree is derived throughout, and before it is linked nobody
\* adds to it.
NewTree ==
    plan # NoPlan => \A v \in Vaults : v[1] = plan.new =>
        /\ \A n \in DOMAIN kids[v] : kids[v][n] = plan.new
        /\ Before => v[2] \in plan.nodes

\* An abort has still to delete what is left of it.
AbortLeft == at = "abort" => \A v \in Vaults : v[1] = job.new => v[2] \in left

Stale(l) == l.vault \in Vaults => l.version < kver[l.vault]

\* A PUT that links node p to a rekey's key.
Links(l, p) == l.child = p /\ parent_held(p) /\ l.vault = above(p)

\* A PUT nobody waits for is too late, or names a key that is gone, or links
\* the rekey in progress.
Harmless(l) ==
    /\ ~Current(l.vault[1])
    /\ l.vault \in Vaults => l.version <= kver[l.vault]
    /\ \/ Gone(l.key) \/ Stale(l)
       \/ plan # NoPlan /\ l.key = plan.new /\ Links(l, plan.path)
LateHarmless == late # NoPut => Harmless(late)

Joined == plan # NoPlan /\ (Rank[plan.step] >= Rank["linked"] \/ at = "linked")

\* The parent's record names key k at node p, if the node at all, and no PUT
\* is under way that would take it back.
Linked(p, k) ==
    /\ above(p) \in Vaults /\ p \in DOMAIN kids[above(p)] => kids[above(p)][p] = k
    /\ late # NoPut /\ late.vault = above(p) => Stale(late)

\* So it is once a rekey is linked.
LinkStays == Joined /\ parent_held(plan.path) => Linked(plan.path, plan.new)

\* Where an entry of the record above a node may lead.
Leads(n, e) == \/ e = Own(n) \/ Gone(e)
               \/ plan # NoPlan /\ n = plan.path /\ e = plan.new

\* The nodes below a rekey's, whose keys are about to be forgotten.
Skipped(n) == plan # NoPlan /\ plan.step = "retired" /\ n \in Below(plan.path) /\ n # plan.path

Entry(w, n, e) == w \in Vaults /\ n \in DOMAIN kids[w] /\ e = kids[w][n]

\* A record this machine reaches leads to the key it has.
Lists ==
    \A n \in Node \ {1} : ~Skipped(n) /\ held_root_for(Parent[n]) # 0 =>
        \A w, e : w = above(n) /\ Entry(w, n, e) => Leads(n, e)

Places == /\ PlansSound /\ KeysBound /\ NodesGrown /\ NewUnused /\ NewTree /\ AbortLeft
          /\ LateHarmless /\ LinkStays /\ Lists

Whole == Keeps /\ load \in Workloads /\ Flow /\ Places

-----------------------------------------------------------------------------
(* What a step may do to the vaults and records: vaults of A are added,    *)
(* entries of E are written, and versions only grow.                       *)

Moves(A, E) ==
    /\ DOMAIN recs' \subseteq Vaults \cup A
    /\ \A w \in DOMAIN recs' : \A n \in DOMAIN kids'[w] :
          \/ w \in Vaults /\ n \in DOMAIN kids[w] /\ kids'[w][n] = kids[w][n]
          \/ <<w, n, kids'[w][n]>> \in E
    /\ \A w \in Vaults \cap DOMAIN recs' : kver[w] <= kver'[w]

LEMMA MovesNone ==
  ASSUME ServerOK, DOMAIN recs' = DOMAIN recs, UNCHANGED <<kids, kver>> PROVE Moves({}, {})
BY DEF Moves, ServerOK, Vaults

LEMMA MovesDelete == ASSUME ServerOK, NEW v, delete_vault(v) PROVE Moves({}, {})
BY DEF Moves, ServerOK, Vaults, delete_vault, Without, Restrict

LEMMA MovesCreate ==
  ASSUME ServerOK, NEW v, v \notin Vaults,
         recs' = With(recs, v, <<>>), kids' = With(kids, v, <<>>), kver' = With(kver, v, 0)
  PROVE  Moves({v}, {})
BY DEF Moves, ServerOK, Vaults, With

LEMMA MovesPut ==
  ASSUME ServerOK, NEW v, NEW r, NEW E, put_children(v, r), UNCHANGED recs,
         v \in Vaults => \A n \in DOMAIN r :
            \/ n \in DOMAIN kids[v] /\ r[n] = kids[v][n]
            \/ <<v, n, r[n]>> \in E
  PROVE  Moves({}, E)
<1>1. \A w \in Vaults : /\ kids'[w] = IF w = v THEN r ELSE kids[w]
                        /\ kver'[w] = IF w = v THEN kver[w] + 1 ELSE kver[w]
                        /\ kver[w] \in Nat
  BY DEF ServerOK, Vaults, put_children
<1>2. \A w \in Vaults : kver[w] <= kver'[w]
  BY <1>1
<1> QED BY <1>1, <1>2 DEF Moves, Vaults

-----------------------------------------------------------------------------
(* What a step keeps that goes on with the same plan and the same keys. *)

Steady ==
    /\ UNCHANGED <<held, tree, used>> /\ store'.node = store.node
    /\ Grown \subseteq Grown' /\ late' \in {late, NoPut}
    /\ \/ plan = NoPlan /\ plan' = NoPlan
       \/ /\ plan # NoPlan /\ plan' # NoPlan
          /\ plan'.path = plan.path /\ plan'.new = plan.new /\ plan'.nodes = plan.nodes
          /\ Rank[plan.step] <= Rank[plan'.step]
    /\ at' \in Starting => at \in Starting /\ job' = job

\* The vaults a step may add, and the entries it may write.
MayAdd(A) ==
    \A a \in A : /\ a[1] <= used /\ a[2] \in Grown' /\ ~Gone(a[1])
                 /\ at \in Starting => a[1] # job.new
                 /\ plan # NoPlan /\ a[1] = plan.new => (Before => a[2] \in plan.nodes)
                 /\ late # NoPut => a # late.vault

MayWrite(E) ==
    \A w, n, e : <<w, n, e>> \in E =>
        /\ e <= used /\ n \in Grown'
        /\ plan # NoPlan /\ w[1] = plan.new => e = plan.new
        /\ w = above(n) /\ held_root_for(Parent[n]) # 0 => Leads(n, e)

LEMMA OwnSame ==
  ASSUME store'.node = store.node, held' = held, NEW n
  PROVE  /\ held_root_for(n)' = held_root_for(n) /\ Own(n)' = Own(n)
         /\ parent_held(n)' = parent_held(n)
BY DEF held_root_for, Own, parent_held

LEMMA AboveSame ==
  ASSUME store'.node = store.node, held' = held, NEW n
  PROVE  above(n)' = above(n)
BY DEF held_root_for, Own, above

LEMMA CurrentSame == ASSUME Steady, NEW k, Current(k)' PROVE Current(k)
BY DEF Steady, Current

LEMMA GoneStays ==
  ASSUME Steady, NEW A, NEW E, Moves(A, E), MayAdd(A), NEW k, Gone(k)
  PROVE  Gone(k)'
<1>1. ~Current(k)'
  BY CurrentSame DEF Gone
<1>2. ASSUME NEW v \in DOMAIN recs' PROVE v[1] # k
  <2>1. CASE v \in Vaults
    BY <2>1 DEF Gone
  <2>2. CASE v \in A
    BY <2>2 DEF MayAdd
  <2> QED BY <1>2, <2>1, <2>2 DEF Moves
<1> QED BY <1>1, <1>2 DEF Gone, Vaults

LEMMA BoundKept ==
  ASSUME KeysBound, Steady, NEW A, NEW E, Moves(A, E), MayAdd(A), MayWrite(E) PROVE KeysBound'
<1>1. ASSUME NEW v \in DOMAIN recs' PROVE v[1] <= used
  BY <1>1 DEF Moves, MayAdd, KeysBound
<1>2. ASSUME NEW v \in DOMAIN recs', NEW n \in DOMAIN kids'[v] PROVE kids'[v][n] <= used
  <2>1. CASE v \in Vaults /\ n \in DOMAIN kids[v] /\ kids'[v][n] = kids[v][n]
    BY <2>1 DEF KeysBound
  <2>2. CASE <<v, n, kids'[v][n]>> \in E
    BY <2>2 DEF MayWrite
  <2> QED BY <1>2, <2>1, <2>2 DEF Moves
<1>3. (\A n \in Node : store'.node[n] <= used) /\ used' = used
  BY DEF Steady, KeysBound
<1>4. late' # NoPut => late'.vault[1] <= used /\ late'.key <= used
  BY DEF Steady, KeysBound
<1> QED BY <1>1, <1>2, <1>3, <1>4 DEF KeysBound, Vaults

LEMMA GrownKept ==
  ASSUME NodesGrown, Steady, NEW A, NEW E, Moves(A, E), MayAdd(A), MayWrite(E) PROVE NodesGrown'
<1>1. Grown \subseteq Grown' /\ held' = held /\ tree' = tree /\ late' \in {late, NoPut}
  BY DEF Steady
<1>2. ASSUME NEW v \in DOMAIN recs' PROVE v[2] \in Grown'
  BY <1>1, <1>2 DEF Moves, MayAdd, NodesGrown
<1>3. ASSUME NEW v \in DOMAIN recs', NEW n \in DOMAIN kids'[v] PROVE n \in Grown'
  <2>1. CASE v \in Vaults /\ n \in DOMAIN kids[v] /\ kids'[v][n] = kids[v][n]
    BY <1>1, <2>1 DEF NodesGrown
  <2>2. CASE <<v, n, kids'[v][n]>> \in E
    BY <2>2 DEF MayWrite
  <2> QED BY <1>3, <2>1, <2>2 DEF Moves
<1>4. held' \subseteq Grown' /\ \A n \in Node : tree'[n].vault # 0 => n \in Grown'
  BY <1>1 DEF NodesGrown
<1>5. late' # NoPut => late'.child \in Grown' /\ late'.vault[2] \in Grown'
  BY <1>1 DEF NodesGrown
<1> HIDE DEF Grown
<1> QED BY <1>2, <1>3, <1>4, <1>5 DEF NodesGrown, Vaults

LEMMA BeforeKept ==
  ASSUME Steady, {plan, plan'} \subseteq {NoPlan} \cup Plan, Before' PROVE Before
<1>1. /\ plan # NoPlan /\ plan' # NoPlan /\ Rank[plan.step] <= Rank[plan'.step]
      /\ Rank[plan'.step] < Rank["linked"]
  BY DEF Steady, Before
<1>2. plan.step \in Step /\ plan'.step \in Step
  BY <1>1, PlanFields
<1> QED BY <1>1, <1>2, RankValues DEF Before, Ranks

LEMMA UnusedKept ==
  ASSUME NewUnused, Steady, {plan, plan'} \subseteq {NoPlan} \cup Plan,
         NEW A, NEW E, Moves(A, E), MayAdd(A)
  PROVE  NewUnused'
<1>1. ASSUME at' \in Starting
      PROVE  (\A v \in DOMAIN recs' : v[1] # job'.new) /\ (\A n \in Node : store'.node[n] # job'.new)
  BY <1>1 DEF Steady, NewUnused, Moves, MayAdd, Vaults
<1>2. ASSUME plan' # NoPlan, NEW n \in Node, store'.node[n] = plan'.new
      PROVE  n = plan'.path /\ plan'.step = "retired"
  <2>1. /\ plan # NoPlan /\ plan'.path = plan.path /\ plan'.new = plan.new
        /\ Rank[plan.step] <= Rank[plan'.step]
    BY <1>2 DEF Steady
  <2>2. n = plan.path /\ plan.step = "retired"
    BY <1>2, <2>1 DEF Steady, NewUnused
  <2>3. plan'.step \in Step
    BY <1>2, PlanFields
  <2>4. plan'.step = "retired"
    BY <2>1, <2>2, <2>3, RankValues DEF Step, Ranks
  <2> QED BY <2>1, <2>2, <2>4
<1> QED BY <1>1, <1>2 DEF NewUnused, Vaults

LEMMA NewTreeKept ==
  ASSUME NewTree, Steady, {plan, plan'} \subseteq {NoPlan} \cup Plan,
         NEW A, NEW E, Moves(A, E), MayAdd(A), MayWrite(E)
  PROVE  NewTree'
<1> SUFFICES ASSUME plan' # NoPlan, NEW v \in DOMAIN recs', v[1] = plan'.new
             PROVE  /\ \A n \in DOMAIN kids'[v] : kids'[v][n] = plan'.new
                    /\ Before' => v[2] \in plan'.nodes
  BY DEF NewTree, Vaults
<1>1. plan # NoPlan /\ plan'.new = plan.new /\ plan'.nodes = plan.nodes
  BY DEF Steady
<1>2. ASSUME NEW n \in DOMAIN kids'[v] PROVE kids'[v][n] = plan'.new
  <2>1. CASE v \in Vaults /\ n \in DOMAIN kids[v] /\ kids'[v][n] = kids[v][n]
    BY <1>1, <2>1 DEF NewTree
  <2>2. CASE <<v, n, kids'[v][n]>> \in E
    BY <1>1, <2>2 DEF MayWrite
  <2> QED BY <1>2, <2>1, <2>2 DEF Moves
<1>3. ASSUME Before' PROVE v[2] \in plan'.nodes
  <2>1. Before
    BY <1>3, BeforeKept
  <2>2. CASE v \in Vaults
    BY <1>1, <2>1, <2>2 DEF NewTree
  <2>3. CASE v \in A
    BY <1>1, <2>1, <2>3 DEF MayAdd
  <2> QED BY <2>2, <2>3 DEF Moves
<1> QED BY <1>2, <1>3

LEMMA LateKept ==
  ASSUME LateHarmless, Steady, NEW A, NEW E, Moves(A, E), MayAdd(A), ServerOK, ServerOK',
         late \in {NoPut} \cup Put
  PROVE  LateHarmless'
<1> SUFFICES ASSUME late' # NoPut PROVE LateHarmless'
  BY DEF LateHarmless
<1>1. late' = late /\ late # NoPut
  BY DEF Steady
<1>2. PICK l \in Put : l = late
  BY <1>1
<1>3. Harmless(l) /\ l.version \in Nat
  BY <1>1, <1>2 DEF LateHarmless, Put
<1>4. ~Current(l.vault[1])'
  <2>1. PICK k : k = l.vault[1]
    OBVIOUS
  <2> QED BY <1>3, <2>1, CurrentSame DEF Harmless
<1>5. l.vault \in DOMAIN recs' => l.vault \in Vaults
  BY <1>1, <1>2 DEF Moves, MayAdd
<1>6. l.vault \in DOMAIN recs' => /\ kver[l.vault] <= kver'[l.vault]
                                  /\ kver[l.vault] \in Nat /\ kver'[l.vault] \in Nat
  BY <1>5 DEF Moves, ServerOK, Vaults
<1>7. l.vault \in DOMAIN recs' => l.version <= kver'[l.vault]
  BY <1>3, <1>5, <1>6 DEF Harmless
<1>8. Stale(l) => Stale(l)'
  BY <1>3, <1>5, <1>6 DEF Stale, Vaults
<1>9. Gone(l.key) => Gone(l.key)'
  <2>1. PICK k : k = l.key
    OBVIOUS
  <2> QED BY <2>1, GoneStays
<1>10. ASSUME plan # NoPlan, l.key = plan.new, Links(l, plan.path)
       PROVE  plan' # NoPlan /\ l.key = plan'.new /\ Links(l, plan.path)'
  <2>1. plan' # NoPlan /\ plan'.new = plan.new /\ plan'.path = plan.path
    BY <1>10 DEF Steady
  <2>2. PICK p : p = plan.path
    OBVIOUS
  <2>3. parent_held(p)' /\ above(p)' = above(p)
    BY <1>10, <2>2, OwnSame, AboveSame DEF Steady, Links
  <2>4. Links(l, p)'
    BY <1>10, <2>2, <2>3 DEF Links
  <2>5. Links(l, plan.path)'
    BY <2>1, <2>2, <2>4
  <2> QED BY <1>10, <2>1, <2>5
<1>11. Harmless(l)'
  BY <1>3, <1>4, <1>7, <1>8, <1>9, <1>10 DEF Harmless, Vaults
<1> QED BY <1>1, <1>2, <1>11 DEF LateHarmless

LEMMA LeadsStays ==
  ASSUME Steady, NEW A, NEW E, Moves(A, E), MayAdd(A), NEW n, NEW e, Leads(n, e)
  PROVE  Leads(n, e)'
<1>1. CASE e = Own(n)
  BY <1>1, OwnSame DEF Steady, Leads
<1>2. CASE Gone(e)
  BY <1>2, GoneStays DEF Leads
<1>3. CASE plan # NoPlan /\ n = plan.path /\ e = plan.new
  BY <1>3 DEF Steady, Leads
<1> QED BY <1>1, <1>2, <1>3 DEF Leads

LEMMA EntryMoves ==
  ASSUME NEW A, NEW E, Moves(A, E), NEW w, NEW n, NEW e, Entry(w, n, e)'
  PROVE  Entry(w, n, e) \/ <<w, n, e>> \in E
BY DEF Moves, Entry, Vaults

LEMMA SkippedStays ==
  ASSUME Steady, {plan, plan'} \subseteq {NoPlan} \cup Plan, NEW n, Skipped(n) PROVE Skipped(n)'
<1>1. plan # NoPlan /\ plan.step = "retired" /\ n \in Below(plan.path) /\ n # plan.path
  BY DEF Skipped
<1>2. plan' # NoPlan /\ plan'.path = plan.path /\ Rank[plan.step] <= Rank[plan'.step]
  BY <1>1 DEF Steady
<1>3. plan'.step \in Step
  BY <1>2, PlanFields
<1>4. plan'.step = "retired"
  BY <1>1, <1>2, <1>3, RankValues DEF Step, Ranks
<1> QED BY <1>1, <1>2, <1>4 DEF Skipped, Below

LEMMA ListsKept ==
  ASSUME Lists, Steady, {plan, plan'} \subseteq {NoPlan} \cup Plan,
         NEW A, NEW E, Moves(A, E), MayAdd(A), MayWrite(E)
  PROVE  Lists'
<1>1. ASSUME NEW n \in Node \ {1}, ~Skipped(n)', held_root_for(Parent[n])' # 0,
             NEW w, NEW e, w = above(n)', Entry(w, n, e)'
      PROVE  Leads(n, e)'
  <2>1. ~Skipped(n)
    BY <1>1, SkippedStays
  <2>2. w = above(n) /\ held_root_for(Parent[n]) # 0
    <3>1. PICK m : m = Parent[n]
      OBVIOUS
    <3>2. held_root_for(m)' = held_root_for(m)
      BY OwnSame DEF Steady
    <3> QED BY <1>1, <3>1, <3>2, AboveSame DEF Steady
  <2>3. Leads(n, e)
    <3>1. CASE Entry(w, n, e)
      BY <2>1, <2>2, <3>1 DEF Lists
    <3>2. CASE <<w, n, e>> \in E
      BY <2>2, <3>2 DEF MayWrite
    <3> QED BY <1>1, <3>1, <3>2, EntryMoves
  <2> QED BY <2>3, LeadsStays
<1> QED BY <1>1 DEF Lists

\* No entry is written over the link of a rekey but the link itself.
NoUndo(E) ==
    Joined /\ parent_held(plan.path) =>
        \A w, n, e : <<w, n, e>> \in E /\ n = plan.path /\ w = above(n) => e = plan.new

LEMMA LinkKept ==
  ASSUME LinkStays, Joined' => Joined, Steady, NEW A, NEW E, Moves(A, E), MayAdd(A), NoUndo(E),
         ServerOK, ServerOK', late \in {NoPut} \cup Put
  PROVE  LinkStays'
<1> SUFFICES ASSUME Joined', parent_held(plan.path)' PROVE Linked(plan.path, plan.new)'
  BY DEF LinkStays
<1>1. plan # NoPlan /\ plan' # NoPlan /\ plan'.path = plan.path /\ plan'.new = plan.new
  BY DEF Steady, Joined
<1>2. PICK p, k : p = plan.path /\ k = plan.new
  OBVIOUS
<1>3. parent_held(p)' /\ p = plan'.path /\ k = plan'.new
  BY <1>1, <1>2
<1>4. parent_held(p) /\ above(p)' = above(p)
  BY <1>3, OwnSame, AboveSame DEF Steady
<1>5. Linked(p, k)
  BY <1>2, <1>4 DEF LinkStays
<1>6. PICK v : v = above(p)
  OBVIOUS
<1>7. ASSUME v \in DOMAIN recs', p \in DOMAIN kids'[v] PROVE kids'[v][p] = k
  <2>1. CASE v \in Vaults /\ p \in DOMAIN kids[v] /\ kids'[v][p] = kids[v][p]
    BY <1>5, <1>6, <2>1 DEF Linked
  <2>2. CASE <<v, p, kids'[v][p]>> \in E
    BY <1>1, <1>2, <1>4, <1>6, <2>2 DEF NoUndo
  <2> QED BY <1>7, <2>1, <2>2 DEF Moves
<1>8. ASSUME late' # NoPut, late'.vault = v PROVE Stale(late)'
  <2>1. late' = late /\ late # NoPut /\ late \in Put
    BY <1>8 DEF Steady
  <2>2. Stale(late) /\ late.version \in Nat
    BY <1>5, <1>6, <1>8, <2>1 DEF Linked, Put
  <2>3. v \in DOMAIN recs' => v \in Vaults
    BY <1>8, <2>1 DEF Moves, MayAdd
  <2>4. v \in DOMAIN recs' => /\ kver[v] <= kver'[v]
                              /\ kver[v] \in Nat /\ kver'[v] \in Nat
    BY <2>3 DEF Moves, ServerOK, Vaults
  <2> QED BY <1>8, <2>1, <2>2, <2>3, <2>4 DEF Stale, Vaults
<1>9. Linked(p, k)'
  BY <1>4, <1>6, <1>7, <1>8 DEF Linked, Vaults
<1> QED BY <1>3, <1>9

\* Whom the next plans inherit from.
SamePlan(x, y) == x.path = y.path /\ x.nodes = y.nodes /\ x.old = y.old /\ x.new = y.new

LEMMA PlansKept ==
  ASSUME PlansSound, used' = used, Grown \subseteq Grown',
         plan' # NoPlan => \E y \in {plan, job} : y # NoPlan /\ SamePlan(plan', y),
         job' # NoPlan => \E y \in {plan, job} : y # NoPlan /\ SamePlan(job', y)
  PROVE  PlansSound'
<1>1. ASSUME NEW x, NEW y, SoundPlan(y), SamePlan(x, y) PROVE SoundPlan(x)'
  <2> HIDE DEF Grown
  <2> QED BY <1>1 DEF SoundPlan, SamePlan, Below
<1>2. \A y \in {plan, job} : y # NoPlan => SoundPlan(y)
  BY DEF PlansSound
<1>3. plan' # NoPlan => SoundPlan(plan)'
  <2> SUFFICES ASSUME plan' # NoPlan PROVE SoundPlan(plan)'
    OBVIOUS
  <2>1. PICK x, y : x = plan' /\ SamePlan(x, y) /\ SoundPlan(y)
    BY <1>2
  <2>2. SoundPlan(x)'
    BY <1>1, <2>1
  <2> QED BY <2>1, <2>2
<1>4. job' # NoPlan => SoundPlan(job)'
  <2> SUFFICES ASSUME job' # NoPlan PROVE SoundPlan(job)'
    OBVIOUS
  <2>1. PICK x, y : x = job' /\ SamePlan(x, y) /\ SoundPlan(y)
    BY <1>2
  <2>2. SoundPlan(x)'
    BY <1>1, <2>1
  <2> QED BY <2>1, <2>2
<1> QED BY <1>3, <1>4 DEF PlansSound

-----------------------------------------------------------------------------
(* One action after another. *)

\* The plan goes on, recorded or not.
Follows == /\ plan' # NoPlan => \E y \in {plan, job} : y # NoPlan /\ SamePlan(plan', y)
           /\ job' # NoPlan => \E y \in {plan, job} : y # NoPlan /\ SamePlan(job', y)

LEMMA StepPlaces ==
  ASSUME Whole, Keeps', Steady, Follows, NEW A, NEW E, Moves(A, E), MayAdd(A), MayWrite(E),
         LinkStays', AbortLeft'
  PROVE  Places'
<1>1. Places /\ Keeps
  BY DEF Whole
<1>2. ServerOK /\ ServerOK' /\ {plan, plan'} \subseteq {NoPlan} \cup Plan /\ late \in {NoPut} \cup Put
  BY <1>1 DEF Keeps, ProcessOK
<1>3. used' = used /\ Grown \subseteq Grown'
  BY DEF Steady
<1>4. PlansSound'
  BY <1>1, <1>3, PlansKept DEF Places, Follows
<1>5. KeysBound' /\ NodesGrown' /\ NewUnused' /\ NewTree'
  BY <1>1, <1>2, BoundKept, GrownKept, UnusedKept, NewTreeKept DEF Places
<1>6. LateHarmless' /\ Lists'
  BY <1>1, <1>2, LateKept, ListsKept DEF Places
<1> QED BY <1>4, <1>5, <1>6 DEF Places

LEMMA NothingAdded == MayAdd({}) /\ MayWrite({}) /\ NoUndo({})
BY DEF MayAdd, MayWrite, NoUndo

\* The link stays where it is not made anew.
LEMMA StepLink ==
  ASSUME Whole, Keeps', Steady, Joined' => Joined, NEW A, NEW E, Moves(A, E), MayAdd(A), NoUndo(E)
  PROVE  LinkStays'
<1>1. ServerOK /\ ServerOK' /\ late \in {NoPut} \cup Put /\ LinkStays
  BY DEF Whole, Keeps, Places, ProcessOK
<1> QED BY <1>1, LinkKept

LEMMA NotAborting == ASSUME at' # "abort" PROVE AbortLeft'
BY DEF AbortLeft

\* A step that changes neither the vaults there are nor the records.
LEMMA PlacesStill ==
  ASSUME Whole, Keeps', Steady, Follows, DOMAIN recs' = DOMAIN recs, UNCHANGED <<kids, kver>>,
         Joined' => Joined, AbortLeft'
  PROVE  Places'
<1>1. ServerOK
  BY DEF Whole, Keeps
<1>2. Moves({}, {})
  BY <1>1, MovesNone
<1>3. LinkStays'
  BY <1>2, NothingAdded, StepLink
<1> QED BY <1>2, <1>3, NothingAdded, StepPlaces

\* Nothing that these facts are about has changed.
Unmoved == UNCHANGED <<held, tree, used, plan, late, truth>> /\ store'.node = store.node

LEMMA UnmovedSteady ==
  ASSUME Unmoved, at' \in Starting => at \in Starting /\ job' = job, plan \in {NoPlan} \cup Plan
  PROVE  Steady
<1>1. Grown' = Grown
  BY DEF Unmoved, Grown
<1>2. plan # NoPlan => Rank[plan.step] <= Rank[plan'.step]
  <2>1. plan # NoPlan => Rank[plan.step] \in 0..4
    BY PlanFields, RankValues
  <2> QED BY <2>1 DEF Unmoved
<1> QED BY <1>1, <1>2 DEF Unmoved, Steady

LEMMA UnmovedJoined == ASSUME Unmoved, at' # "linked" \/ at = "linked" PROVE Joined' => Joined
BY DEF Unmoved, Joined

\* A command that ends, or goes on with its plan, and asks nothing of the server.
LEMMA PlacesGoes ==
  ASSUME Whole, Keeps', Unmoved, DOMAIN recs' = DOMAIN recs, UNCHANGED <<kids, kver>>,
         at' # "abort", at' # "linked" \/ at = "linked",
         at' \in Starting => at \in Starting /\ job' = job,
         job' = NoPlan \/ (\E y \in {plan, job} : y # NoPlan /\ SamePlan(job', y))
  PROVE  Places'
<1>1. plan \in {NoPlan} \cup Plan
  BY DEF Whole, Keeps, ProcessOK
<1>2. Steady
  BY <1>1, UnmovedSteady
<1>3. Follows
  BY DEF Follows, Unmoved, SamePlan
<1> QED BY <1>2, <1>3, UnmovedJoined, NotAborting, PlacesStill

LEMMA JobStill == ASSUME Whole, at # "idle" PROVE job # NoPlan /\ job \in Plan /\ SamePlan(job, job)
<1>1. job \in Plan
  BY Typed DEF Whole
<1> QED BY <1>1, PlanNotNone DEF SamePlan

LEMMA PlacesKeepKeys == ASSUME Whole, Keeps', keep_old \/ keep_new PROVE Places'
<1>1. at # "idle" /\ at \in Starting /\ at' \in {"keep_new", "record_plan"} /\ job' = job
      /\ UNCHANGED <<recs, kids, kver, late, plan, held, tree, used, truth>>
  BY DEF keep_old, keep_new, Goto, Starting, server, ghosts
<1>2. store'.node = store.node
  <2>1. store \in Store
    BY DEF Whole, Keeps, LocalOK
  <2> QED BY <2>1 DEF Store, keep_old, keep_new
<1> QED BY <1>1, <1>2, JobStill, PlacesGoes DEF Unmoved

LEMMA PlacesDrop == ASSUME Whole, Keeps', drop_old \/ drop_new PROVE Places'
<1>1. at # "idle" /\ at' \in {"drop_new", "idle"} /\ job' \in {job, NoPlan}
      /\ UNCHANGED <<recs, kids, kver, late, plan, held, tree, used, truth>>
  BY DEF drop_old, drop_new, Goto, End, server, ghosts
<1>2. store'.node = store.node
  <2>1. store \in Store
    BY DEF Whole, Keeps, LocalOK
  <2> QED BY <2>1 DEF Store, drop_old, drop_new
<1> QED BY <1>1, <1>2, JobStill, PlacesGoes DEF Unmoved, Starting

LEMMA PlacesResume == ASSUME Whole, Keeps', rekey_resume PROVE Places'
<1>1. at' = "run_rekey" /\ job' = plan /\ plan # NoPlan
      /\ UNCHANGED <<recs, kids, kver, late, plan, held, tree, store, used, truth>>
  BY DEF rekey_resume, Goto, server, local, ghosts
<1> QED BY <1>1, PlacesGoes DEF Unmoved, Starting, SamePlan

LEMMA PlacesRuns ==
  ASSUME Whole, Keeps', run_rekey \/ open_old \/ copy_from \/ copy_version \/ Interrupt
  PROVE  Places'
<1>1. at # "idle" /\ UNCHANGED <<kids, kver, late, plan, held, tree, store, used, truth>>
  BY DEF run_rekey, open_old, copy_from, copy_version, Interrupt, server, local, ghosts
<1>2. DOMAIN recs' = DOMAIN recs
  BY DEF run_rekey, open_old, copy_from, copy_version, Interrupt, server
<1>3. \/ End
      \/ job' = job /\ at' \in Running \ {"abort", "linked"}
  <2>1. job.step \in Step
    BY <1>1, JobFields DEF Whole
  <2> QED BY <2>1 DEF run_rekey, open_old, copy_from, copy_version, Interrupt, Goto, End, Running, Step
<1>4. CASE End
  BY <1>1, <1>2, <1>4, PlacesGoes DEF Unmoved, End, Starting
<1>5. CASE job' = job /\ at' \in Running \ {"abort", "linked"}
  BY <1>1, <1>2, <1>5, JobStill, PlacesGoes DEF Unmoved, Running, Starting
<1> QED BY <1>3, <1>4, <1>5

LEMMA PlacesAbort == ASSUME Whole, Keeps', abort_rekey PROVE Places'
<1>1. at' = "abort" /\ job' = plan /\ plan # NoPlan /\ left' = plan.nodes /\ Rank[plan.step] < Rank["linked"]
      /\ UNCHANGED <<recs, kids, kver, late, plan, held, tree, store, used, truth>>
  BY DEF abort_rekey, may_abort, Goto, server, local
<1>2. plan \in Plan
  BY <1>1 DEF Whole, Keeps, ProcessOK
<1>3. Steady /\ (Joined' => Joined)
  BY <1>1, <1>2, UnmovedSteady, UnmovedJoined DEF Unmoved, Starting
<1>4. Follows
  BY <1>1 DEF Follows, SamePlan
<1>5. AbortLeft'
  BY <1>1 DEF AbortLeft, Whole, Places, NewTree, Before, Vaults
<1> QED BY <1>1, <1>3, <1>4, <1>5, PlacesStill

\* The plan in hand is the recorded one.
LEMMA PlanIs ==
  ASSUME Whole, at \in Running
  PROVE  /\ plan # NoPlan /\ plan \in Plan /\ job # NoPlan /\ job \in Plan /\ at # "idle"
         /\ plan.path = job.path /\ plan.nodes = job.nodes /\ plan.old = job.old
         /\ plan.new = job.new /\ plan.step = job.step
         /\ SamePlan(plan, job) /\ SamePlan(job, plan)
         /\ SoundPlan(job) /\ SoundPlan(plan) /\ Current(job.new)
         /\ job.path \in Node /\ job.nodes \subseteq Node /\ job.new \in Key
<1>1. plan \in Plan /\ Agrees(job, plan) /\ at # "idle"
  BY DEF Whole, Keeps, Control, Running
<1>2. job \in Plan
  BY <1>1, JobStill
<1>3. plan # NoPlan /\ job # NoPlan
  BY <1>1, <1>2, PlanNotNone
<1>4. SoundPlan(job) /\ SoundPlan(plan)
  BY <1>3 DEF Whole, Places, PlansSound
<1>5. Current(job.new)
  BY <1>1, <1>3 DEF Current, Agrees
<1> QED BY <1>1, <1>2, <1>3, <1>4, <1>5, PlanFields DEF Agrees, SamePlan

LEMMA PlacesAdvances ==
  ASSUME Whole, Keeps', created \/ migrated \/ linked \/ retired PROVE Places'
<1>1. at \in Running /\ UNCHANGED <<recs, kids, kver, late, held, tree, store, used, truth>>
  BY DEF created, migrated, linked, retired, Running, server, ghosts
<1>2. PICK s \in Step, t \in Running : advance(s, t)
           /\ \/ s = "created" /\ t = "open_old" /\ at = "create"
              \/ s = "migrated" /\ t = "link_parent" /\ at = "copy_from"
              \/ s = "linked" /\ t = "open_retired" /\ at = "linked"
              \/ s = "retired" /\ t = "store_key" /\ at = "retire"
  BY DEF created, migrated, linked, retired, Running, Step
<1>3. /\ plan' \in Plan /\ plan'.path = job.path /\ plan'.nodes = job.nodes /\ plan'.old = job.old
      /\ plan'.new = job.new /\ plan'.step = s /\ job' = plan' /\ at' = t
  BY <1>1, <1>2, PlanIs, PlanStep DEF advance, Goto
<1>4. plan' # NoPlan
  BY <1>3, PlanNotNone
<1>5. \/ s = "created" /\ plan.step = "planned"
      \/ s = "migrated" /\ plan.step = "created"
      \/ s = "linked" /\ plan.step = "migrated"
      \/ s = "retired" /\ plan.step = "linked"
  BY <1>1, <1>2, PlanIs DEF Whole, Flow
<1>6. Rank[plan.step] <= Rank[s]
  BY <1>5, RankValues DEF Ranks
<1>7. Steady
  <2>1. Grown' = Grown
    BY <1>1 DEF Grown
  <2>2. at' \notin Starting
    BY <1>2, <1>3 DEF Starting
  <2> HIDE DEF Grown
  <2> QED BY <1>1, <1>3, <1>4, <1>6, <2>1, <2>2, PlanIs DEF Steady
<1>8. Follows
  BY <1>1, <1>3, <1>4, PlanIs DEF Follows, SamePlan
<1>9. ASSUME Joined' PROVE Joined
  <2>1. Rank[s] >= Rank["linked"]
    BY <1>2, <1>3, <1>9 DEF Joined
  <2>2. s \in {"linked", "retired"}
    BY <1>5, <2>1, RankValues DEF Ranks
  <2>3. at = "linked" \/ plan.step = "linked"
    BY <1>2, <1>5, <2>2
  <2>4. Rank["linked"] >= Rank["linked"]
    BY RankValues DEF Ranks
  <2> QED BY <1>1, <2>3, <2>4, PlanIs DEF Joined
<1>10. AbortLeft'
  BY <1>2, <1>3, NotAborting
<1> QED BY <1>1, <1>7, <1>8, <1>9, <1>10, PlacesStill

\* A command that goes on with its plan, and changes vaults or records.
LEMMA PlacesRequest ==
  ASSUME Whole, Keeps', Unmoved, at \in Running, at' \in Running, SamePlan(job', job),
         NEW A, NEW E, Moves(A, E), MayAdd(A), MayWrite(E),
         LinkStays' \/ (at' # "linked" /\ NoUndo(E)), AbortLeft'
  PROVE  Places'
<1>1. Steady
  <2>1. at' \notin Starting
    BY DEF Running, Starting
  <2> QED BY <2>1, PlanIs, UnmovedSteady
<1>2. Follows
  BY PlanIs DEF Follows, SamePlan, Unmoved
<1>3. LinkStays'
  BY <1>1, UnmovedJoined, StepLink
<1> QED BY <1>1, <1>2, <1>3, StepPlaces

LEMMA PlacesCreate == ASSUME Whole, Keeps', create_vault PROVE Places'
<1> DEFINE v == <<job.new, deepest>>
<1>1. /\ at = "create" /\ at' \in {"create", "create_children"} /\ job' = job /\ left # {}
      /\ UNCHANGED <<late, plan, held, tree, store, used, truth>>
  BY DEF create_vault, Goto, server, local, ghosts
<1>2. at \in Running /\ at' \in Running /\ AbortLeft' /\ at' # "linked"
  BY <1>1, NotAborting DEF Running
<1>3. CASE v \in Vaults
  <2>1. UNCHANGED <<recs, kids, kver>>
    BY <1>3 DEF create_vault, server
  <2> QED BY <1>1, <1>2, <2>1, JobStill, PlacesGoes DEF Unmoved, Running, Starting
<1>4. CASE v \notin Vaults
  <2>1. recs' = With(recs, v, <<>>) /\ kids' = With(kids, v, <<>>) /\ kver' = With(kver, v, 0)
    BY <1>4 DEF create_vault
  <2>2. ServerOK
    BY DEF Whole, Keeps
  <2>3. Moves({v}, {})
    <3> HIDE DEF v
    <3> QED BY <1>4, <2>1, <2>2, MovesCreate
  <2>4. deepest \in left /\ left \subseteq job.nodes
    BY <1>1, DeepestIn, Typed DEF Whole, Flow
  <2>5. MayAdd({v})
    <3>1. v[1] = job.new /\ v[2] = deepest
      OBVIOUS
    <3>2. job.new <= used /\ deepest \in Grown'
      BY <1>1, <1>2, <2>4, PlanIs DEF SoundPlan, Grown
    <3>3. ~Gone(job.new) /\ at \notin Starting /\ deepest \in plan.nodes
      BY <1>1, <1>2, <2>4, PlanIs DEF Gone, Starting
    <3>4. ASSUME late # NoPut, late.vault = v PROVE FALSE
      <4>1. ~Current(late.vault[1])
        BY <3>4 DEF Whole, Places, LateHarmless, Harmless
      <4> QED BY <1>2, <3>1, <3>4, <4>1, PlanIs
    <3> HIDE DEF v
    <3> QED BY <3>1, <3>2, <3>3, <3>4 DEF MayAdd
  <2> HIDE DEF v
  <2>6. SamePlan(job', job)
    BY <1>1 DEF SamePlan
  <2> QED BY <1>1, <1>2, <2>3, <2>5, <2>6, NothingAdded, PlacesRequest DEF Unmoved
<1> QED BY <1>3, <1>4

LEMMA PlacesCreateChildren == ASSUME Whole, Keeps', create_children PROVE Places'
<1>1. /\ at = "create_children" /\ at' = "create" /\ job' = job
      /\ UNCHANGED <<recs, late, plan, held, tree, store, used, truth>>
  BY DEF create_children, Goto, local, ghosts
<1>2. at \in Running /\ at' \in Running /\ AbortLeft' /\ at' # "linked"
  BY <1>1, NotAborting DEF Running
<1>3. Moves({}, {})
  <2>1. ServerOK
    BY DEF Whole, Keeps
  <2>2. put_children(<<job.new, deepest>>, <<>>) /\ DOMAIN <<>> = {}
    BY DEF create_children
  <2> QED BY <1>1, <2>1, <2>2, MovesPut
<1>4. SamePlan(job', job)
  BY <1>1 DEF SamePlan
<1> QED BY <1>1, <1>2, <1>3, <1>4, NothingAdded, PlacesRequest DEF Unmoved

LEMMA PlacesListChildren == ASSUME Whole, Keeps', list_children PROVE Places'
<1> DEFINE new == <<job.new, deepest>>
           below == direct_children(job.nodes, deepest)
           record == [n \in below \cup DOMAIN children(new) |->
                         IF n \in DOMAIN children(new) THEN children(new)[n] ELSE job.new]
           E == {<<new, n, job.new>> : n \in below}
<1>1. /\ at = "copy_version"
      /\ UNCHANGED <<recs, late, plan, held, tree, store, used, truth>>
  BY DEF list_children, local, ghosts
<1>2. at \in Running
  BY <1>1 DEF Running
<1>3. CASE new \notin Vaults
  <2>1. End /\ UNCHANGED <<kids, kver>>
    BY <1>3 DEF list_children
  <2> QED BY <1>1, <2>1, PlacesGoes DEF Unmoved, End, Starting
<1>4. CASE new \in Vaults
  <2>1. /\ put_children(new, record) \/ UNCHANGED <<kids, kver>>
        /\ at' = "copy_from" /\ job' = job
    BY <1>4 DEF list_children, Goto
  <2>2. ServerOK
    BY DEF Whole, Keeps
  <2>3. \A n \in DOMAIN record : \/ n \in DOMAIN kids[new] /\ record[n] = kids[new][n]
                                 \/ <<new, n, record[n]>> \in E
    BY DEF children
  <2>4. below \subseteq job.nodes
    BY DEF direct_children
  <2> HIDE DEF new, below, record
  <2>5. Moves({}, E)
    <3>1. CASE put_children(new, record)
      <4> HIDE DEF E
      <4> QED BY <1>1, <2>2, <2>3, <3>1, MovesPut
    <3>2. CASE UNCHANGED <<kids, kver>>
      <4>1. Moves({}, {})
        BY <1>1, <2>2, <3>2, MovesNone
      <4> QED BY <4>1 DEF Moves
    <3> QED BY <2>1, <3>1, <3>2
  <2>6. plan.step = "created"
    BY <1>1, <1>2, PlanIs DEF Whole, Flow
  <2>7. MayWrite(E)
    <3>1. ASSUME NEW w, NEW n, NEW e, <<w, n, e>> \in E
          PROVE  /\ e <= used /\ n \in Grown'
                 /\ plan # NoPlan /\ w[1] = plan.new => e = plan.new
                 /\ w = above(n) /\ held_root_for(Parent[n]) # 0 => Leads(n, e)
      <4>1. w = new /\ n \in below /\ e = job.new /\ w[1] = job.new /\ w[2] = deepest
        BY <3>1 DEF new
      <4>2. e <= used /\ n \in Grown' /\ e = plan.new
        BY <1>1, <1>2, <2>4, <4>1, PlanIs DEF SoundPlan, Grown
      <4>3. ASSUME w = above(n), held_root_for(Parent[n]) # 0 PROVE FALSE
        <5>1. Own(Parent[n]) = plan.new
          BY <1>2, <4>1, <4>3, PlanIs DEF above
        <5>2. n \in Node \ {1}
          BY <1>2, <2>4, <4>1, PlanIs DEF below, direct_children
        <5>3. held_root_for(Parent[n]) \in Node
          <6>1. Parent[n] \in Node /\ held \subseteq Node
            BY <5>2, TreeDown DEF Whole, Keeps, LocalOK
          <6> QED BY <4>3, <6>1, HeldRoot
        <5>4. plan.step = "retired"
          BY <1>2, <5>1, <5>3, PlanIs DEF Whole, Places, NewUnused, Own
        <5> QED BY <2>6, <5>4
      <4> QED BY <4>2, <4>3
    <3> HIDE DEF E
    <3> QED BY <3>1 DEF MayWrite
  <2>8. NoUndo(E)
    <3>1. ~Joined
      BY <1>1, <2>6, RankValues DEF Joined, Ranks
    <3> QED BY <3>1 DEF NoUndo
  <2>9. at' \in Running /\ AbortLeft' /\ at' # "linked" /\ SamePlan(job', job)
    BY <2>1, NotAborting DEF Running, SamePlan
  <2> HIDE DEF E
  <2> QED BY <1>1, <1>2, <2>5, <2>7, <2>8, <2>9, NothingAdded, PlacesRequest DEF Unmoved
<1> QED BY <1>3, <1>4

LEMMA PlacesDetached == ASSUME Whole, Keeps', detached PROVE Places'
<1>1. /\ at = "link_parent" /\ at' = "linked" /\ job' = job /\ ~parent_held(job.path)
      /\ UNCHANGED <<recs, kids, kver, late, plan, held, tree, store, used, truth>>
  BY DEF detached, Goto, server, local, ghosts
<1>2. at \in Running /\ at' \in Running /\ AbortLeft' /\ SamePlan(job', job)
  BY <1>1, NotAborting DEF Running, SamePlan
<1>3. Moves({}, {})
  BY <1>1, MovesNone DEF Whole, Keeps
<1>4. LinkStays'
  <2>1. PICK p : p = job.path
    OBVIOUS
  <2>2. ~parent_held(p)' /\ p = plan'.path
    BY <1>1, <1>2, <2>1, PlanIs, OwnSame
  <2> QED BY <2>2 DEF LinkStays
<1> QED BY <1>1, <1>2, <1>3, <1>4, NothingAdded, PlacesRequest DEF Unmoved

\* The record that names a node is the one this machine finds above it.
LEMMA ParentVault ==
  ASSUME Whole, NEW p \in Node, parent_held(p)
  PROVE  p # 1 /\ Parent[p] \in Node /\ parent_vault(p) = above(p) /\ held_root_for(Parent[p]) # 0
<1>1. p # 1 /\ held_root_for(Parent[p]) # 0
  BY DEF parent_held
<1>2. Parent[p] \in Node
  BY <1>1, TreeDown
<1>3. chain(Parent[p]) = Own(Parent[p])
  BY <1>1, <1>2, ChainIs DEF Whole, Keeps
<1> QED BY <1>1, <1>2, <1>3 DEF parent_vault, above

LEMMA PlacesSealChild == ASSUME Whole, Keeps', seal_child PROVE Places'
<1>1. /\ at = "link_parent" /\ parent_held(job.path)
      /\ UNCHANGED <<recs, late, plan, held, tree, store, used, truth>>
  BY DEF seal_child, local, ghosts
<1>2. at \in Running
  BY <1>1 DEF Running
<1>3. PICK p, k, v : p = job.path /\ k = job.new /\ v = above(p)
  OBVIOUS
<1>4. p \in Node /\ p = plan.path /\ k = plan.new /\ plan # NoPlan /\ job \in Plan /\ SoundPlan(job)
  BY <1>2, <1>3, PlanIs
<1>5. parent_vault(job.path) = v /\ p # 1 /\ held_root_for(Parent[p]) # 0
  BY <1>1, <1>3, <1>4, ParentVault
<1>6. CASE v \notin Vaults
  <2>1. End /\ UNCHANGED <<kids, kver>>
    BY <1>5, <1>6 DEF seal_child
  <2> QED BY <1>1, <2>1, PlacesGoes DEF Unmoved, End, Starting
<1>7. CASE v \in Vaults
  <2>1. /\ put_children(v, With(kids[v], p, k)) /\ job' = [job EXCEPT !.linked = TRUE] /\ at' = "linked"
    BY <1>3, <1>5, <1>7 DEF seal_child, Goto, children
  <2>2. ServerOK
    BY DEF Whole, Keeps
  <2>3. Moves({}, {<<v, p, k>>})
    <3>1. \A n \in DOMAIN With(kids[v], p, k) :
             \/ n \in DOMAIN kids[v] /\ With(kids[v], p, k)[n] = kids[v][n]
             \/ <<v, n, With(kids[v], p, k)[n]>> \in {<<v, p, k>>}
      BY DEF With
    <3> QED BY <1>1, <2>1, <2>2, <3>1, MovesPut
  <2>4. Leads(p, k)
    BY <1>4 DEF Leads
  <2>5. MayWrite({<<v, p, k>>})
    <3>1. k <= used /\ p \in Grown'
      BY <1>1, <1>3, <1>4 DEF SoundPlan, Grown
    <3> HIDE DEF Leads
    <3> QED BY <1>4, <2>4, <3>1 DEF MayWrite
  <2>6. at' \in Running /\ AbortLeft' /\ SamePlan(job', job)
    <3>1. Agrees(job', job)
      BY <1>4, <2>1, PlanLinked
    <3> QED BY <2>1, <3>1, NotAborting DEF Running, SamePlan, Agrees
  <2>7. LinkStays'
    <3>1. above(p)' = v
      BY <1>1, <1>3, AboveSame
    <3>2. kids'[v][p] = k /\ kver'[v] = kver[v] + 1 /\ kver[v] \in Nat
      BY <1>7, <2>1, <2>2 DEF put_children, ServerOK, With
    <3>3. ASSUME late # NoPut, late.vault = v PROVE late.version < kver'[v]
      <4>1. late.version <= kver[v]
        BY <1>7, <3>3 DEF Whole, Places, LateHarmless, Harmless
      <4>2. late.version \in Nat
        BY <3>3 DEF Whole, Keeps, ProcessOK, Put
      <4> QED BY <3>2, <4>1, <4>2
    <3>4. Linked(p, k)'
      BY <1>1, <3>1, <3>2, <3>3 DEF Linked, Stale
    <3>5. p = plan'.path /\ k = plan'.new
      BY <1>1, <1>4
    <3> QED BY <3>4, <3>5 DEF LinkStays
  <2> QED BY <1>1, <1>2, <2>3, <2>5, <2>6, <2>7, NothingAdded, PlacesRequest DEF Unmoved
<1> QED BY <1>6, <1>7

LEMMA PlacesSealLate == ASSUME Whole, Keeps', seal_child_late PROVE Places'
<1>1. /\ at = "link_parent" /\ parent_held(job.path) /\ late = NoPut /\ End
      /\ parent_vault(job.path) \in Vaults
      /\ late' = [vault |-> parent_vault(job.path), version |-> kver[parent_vault(job.path)],
                  child |-> job.path, key |-> job.new]
      /\ UNCHANGED <<recs, kids, kver, plan, held, tree, store, used, truth>>
  BY DEF seal_child_late, local
<1>2. at \in Running
  BY <1>1 DEF Running
<1>3. PICK p, k, v : p = job.path /\ k = job.new /\ v = above(p)
  OBVIOUS
<1>4. /\ p \in Node /\ p = plan.path /\ k = plan.new /\ plan # NoPlan /\ SoundPlan(job) /\ plan \in Plan
      /\ plan.step = job.step
  BY <1>2, <1>3, PlanIs
<1>5. /\ parent_vault(job.path) = v /\ p # 1 /\ held_root_for(Parent[p]) # 0 /\ Parent[p] \in Node
      /\ parent_held(p)
  BY <1>1, <1>3, <1>4, ParentVault
<1>6. v \in Vaults /\ v[1] = Own(Parent[p]) /\ v[2] = Parent[p] /\ v[1] <= used /\ v[2] \in Grown
      /\ kver[v] \in Nat
  BY <1>1, <1>3, <1>5 DEF above, Whole, Places, KeysBound, NodesGrown, Keeps, ServerOK
<1>7. at' = "idle" /\ job' = NoPlan
  BY <1>1 DEF End
<1>8. PICK l : l = late'
  OBVIOUS
<1>9. l.vault = v /\ l.version = kver[v] /\ l.child = p /\ l.key = k
  BY <1>1, <1>3, <1>5, <1>8
<1>10. k <= used /\ p \in Grown
  BY <1>3, <1>4 DEF SoundPlan
<1>11. PlansSound' /\ AbortLeft' /\ NewTree'
  <2>1. Grown' = Grown
    BY <1>1 DEF Grown
  <2>2. SoundPlan(plan)' <=> SoundPlan(plan)
    <3> HIDE DEF Grown
    <3> QED BY <1>1, <2>1 DEF SoundPlan, Below
  <2> QED BY <1>1, <1>7, <2>2 DEF Whole, Places, PlansSound, AbortLeft, NewTree, Before, Vaults
<1>12. KeysBound'
  BY <1>1, <1>6, <1>8, <1>9, <1>10 DEF Whole, Places, KeysBound, Vaults
<1>13. NodesGrown'
  BY <1>1, <1>6, <1>8, <1>9, <1>10 DEF Whole, Places, NodesGrown, Vaults, Grown
<1>14. NewUnused'
  BY <1>1, <1>7 DEF Whole, Places, NewUnused, Vaults, Starting
<1>15. LateHarmless'
  <2>1. ~Current(v[1])
    <3>1. ASSUME Own(Parent[p]) = plan.new PROVE FALSE
      <4>1. held_root_for(Parent[p]) \in Node
        BY <1>5, HeldRoot DEF Whole, Keeps, LocalOK
      <4>2. plan.step = "retired"
        BY <1>4, <3>1, <4>1 DEF Whole, Places, NewUnused, Own
      <4> QED BY <1>1, <1>4, <4>2 DEF Whole, Flow
    <3>2. at \notin Starting
      BY <1>1 DEF Starting
    <3> QED BY <1>6, <3>1, <3>2 DEF Current
  <2>2. ~Current(v[1])'
    BY <1>1, <1>7, <2>1 DEF Current, Starting
  <2>3. above(p)' = v /\ parent_held(p)'
    BY <1>1, <1>3, <1>5, AboveSame, OwnSame
  <2>4. Links(l, p)'
    BY <1>9, <2>3 DEF Links
  <2>5. plan' # NoPlan /\ l.key = plan'.new /\ Links(l, plan.path)'
    BY <1>1, <1>4, <1>9, <2>4
  <2>6. Harmless(l)'
    BY <1>1, <1>6, <1>9, <2>2, <2>5 DEF Harmless
  <2> QED BY <1>8, <2>6 DEF LateHarmless
<1>16. LinkStays'
  <2>1. ~Joined'
    <3>1. plan'.step = "migrated"
      BY <1>1, <1>4 DEF Whole, Flow
    <3> QED BY <1>7, <3>1, RankValues DEF Joined, Ranks
  <2> QED BY <2>1 DEF LinkStays
<1>17. Lists'
  <2>1. ASSUME NEW n \in Node \ {1}, ~Skipped(n)', held_root_for(Parent[n])' # 0,
               NEW w, NEW e, w = above(n)', Entry(w, n, e)'
        PROVE  Leads(n, e)'
    <3>1. ~Skipped(n) /\ held_root_for(Parent[n]) # 0 /\ w = above(n) /\ Entry(w, n, e)
      BY <1>1, <2>1 DEF Skipped, Below, held_root_for, above, Own, Entry, Vaults
    <3>2. Leads(n, e)
      BY <3>1 DEF Whole, Places, Lists
    <3>3. Gone(e) => Gone(e)'
      BY <1>1, <1>7 DEF Gone, Current, Vaults, Starting
    <3>4. Own(n)' = Own(n)
      BY <1>1, OwnSame
    <3> QED BY <1>1, <3>2, <3>3, <3>4 DEF Leads
  <2> QED BY <2>1 DEF Lists
<1> QED BY <1>11, <1>12, <1>13, <1>14, <1>15, <1>16, <1>17 DEF Places

LEMMA PlacesRetire == ASSUME Whole, Keeps', retire \/ abort_vault PROVE Places'
<1>1. /\ at \in {"retire", "abort"} /\ at' = at /\ job' = job
      /\ UNCHANGED <<late, plan, held, tree, store, used, truth>>
  BY DEF retire, abort_vault, local, ghosts
<1>2. at \in Running /\ at' \in Running /\ at' # "linked" /\ SamePlan(job', job)
  BY <1>1 DEF Running, SamePlan
<1>3. UNCHANGED <<recs, kids, kver>> \/ \E v : delete_vault(v)
  BY DEF retire, abort_vault
<1>4. Moves({}, {})
  BY <1>3, MovesNone, MovesDelete DEF Whole, Keeps
<1>5. AbortLeft'
  <2>1. CASE retire
    BY <2>1, NotAborting DEF retire
  <2>2. CASE abort_vault
    <3>1. /\ DOMAIN recs' = Vaults \ {<<job.new, deepest>>} /\ left' = left \ {deepest} /\ at = "abort"
      BY <2>2 DEF abort_vault, delete_vault, Without, Restrict, Vaults
    <3>2. \A v \in Vaults : v = <<v[1], v[2]>> /\ (v[1] = job.new => v[2] \in left)
      BY <3>1 DEF Whole, Keeps, ServerOK, Places, AbortLeft
    <3>3. ASSUME NEW v \in DOMAIN recs', v[1] = job.new PROVE v[2] \in left'
      BY <3>1, <3>2, <3>3
    <3> QED BY <1>1, <3>3 DEF AbortLeft, Vaults
  <2> QED BY <2>1, <2>2
<1> QED BY <1>1, <1>2, <1>4, <1>5, NothingAdded, PlacesRequest DEF Unmoved

\* What others do.
LEMMA PlacesOthers ==
  ASSUME Whole, Keeps', UNCHANGED <<local, process, used>>, Grown \subseteq Grown',
         late' \in {late, NoPut}, NEW A, NEW E, Moves(A, E), MayAdd(A), MayWrite(E), NoUndo(E),
         at = "abort" => \A a \in A : a[1] # job.new
  PROVE  Places'
<1>1. UNCHANGED <<plan, held, tree, store, at, job, left, keys, todo, used>>
  BY DEF local, process
<1>2. plan # NoPlan => Rank[plan.step] <= Rank[plan'.step]
  <2>1. plan # NoPlan => Rank[plan.step] \in 0..4
    BY PlanFields, RankValues DEF Whole, Keeps, ProcessOK
  <2> QED BY <1>1, <2>1
<1>3. Steady
  <2> HIDE DEF Grown
  <2> QED BY <1>1, <1>2 DEF Steady
<1>4. Follows
  BY <1>1 DEF Follows, SamePlan
<1>5. Joined' => Joined
  BY <1>1 DEF Joined
<1>6. AbortLeft'
  <2>1. ASSUME at = "abort", NEW v \in DOMAIN recs', v[1] = job.new PROVE v[2] \in left
    <3>1. v \in Vaults
      BY <2>1 DEF Moves
    <3> QED BY <2>1, <3>1 DEF Whole, Places, AbortLeft
  <2> QED BY <1>1, <2>1 DEF AbortLeft, Vaults
<1>7. LinkStays'
  BY <1>3, <1>5, StepLink
<1> QED BY <1>3, <1>4, <1>6, <1>7, StepPlaces

LEMMA PlacesStutter == ASSUME Whole, Keeps', UNCHANGED vars PROVE Places'
<1>1. UNCHANGED <<local, process, used, recs, kids, kver, late, truth>>
  BY DEF vars, server, local, process, ghosts
<1>2. Moves({}, {})
  BY <1>1, MovesNone DEF Whole, Keeps
<1>3. Grown \subseteq Grown'
  BY <1>1 DEF Grown
<1> QED BY <1>1, <1>2, <1>3, NothingAdded, PlacesOthers

LEMMA PlacesWrite == ASSUME Whole, Keeps', write PROVE Places'
<1>1. UNCHANGED <<local, process, used, kids, kver, late>>
  BY DEF write
<1>2. DOMAIN recs' = DOMAIN recs /\ DOMAIN truth' = DOMAIN truth
  BY DEF write
<1>3. Moves({}, {})
  BY <1>1, <1>2, MovesNone DEF Whole, Keeps
<1>4. Grown \subseteq Grown'
  BY <1>2 DEF Grown
<1> QED BY <1>1, <1>3, <1>4, NothingAdded, PlacesOthers

LEMMA PlacesEnvRemove == ASSUME Whole, Keeps', NEW n \in Node \ {1}, env_remove(n) PROVE Places'
<1>1. PICK k \in Key :
         LET v == <<k, Parent[n]>>
             gone == <<children(v)[n], n>>
         IN  /\ v \in Vaults
             /\ recs' = Without(recs, {gone})
             /\ kids' = With(Without(kids, {gone}), v, Without(children(v), {n}))
             /\ kver' = With(Without(kver, {gone}), v, kver[v] + 1)
  BY DEF env_remove
<1>2. PICK v, gone : /\ v \in Vaults /\ v # gone
             /\ recs' = Without(recs, {gone})
             /\ kids' = With(Without(kids, {gone}), v, Without(kids[v], {n}))
             /\ kver' = With(Without(kver, {gone}), v, kver[v] + 1)
  <2>1. Parent[n] # n
    BY TreeDown
  <2> QED BY <1>1, <2>1 DEF children
<1>3. UNCHANGED <<local, process, used, late>> /\ truth' = Without(truth, {n}) /\ n \in First
  BY DEF env_remove
<1>4. Moves({}, {})
  <2>1. ServerOK
    BY DEF Whole, Keeps
  <2>2. DOMAIN recs' = Vaults \ {gone}
    BY <1>2, <2>1 DEF ServerOK, Vaults, Without, Restrict
  <2>3. \A w \in Vaults \ {gone} :
           /\ kids'[w] = IF w = v THEN Without(kids[v], {n}) ELSE kids[w]
           /\ kver'[w] = IF w = v THEN kver[v] + 1 ELSE kver[w]
    BY <1>2, <2>1 DEF ServerOK, Vaults, With, Without, Restrict
  <2>4. \A w \in Vaults \ {gone} : \A m \in DOMAIN kids'[w] : m \in DOMAIN kids[w] /\ kids'[w][m] = kids[w][m]
    BY <2>3 DEF Without, Restrict
  <2>5. \A w \in Vaults \ {gone} : kver[w] <= kver'[w]
    BY <2>1, <2>3 DEF ServerOK
  <2> QED BY <2>2, <2>4, <2>5 DEF Moves
<1>5. Grown \subseteq Grown'
  BY <1>3 DEF Grown, Without, Restrict
<1> QED BY <1>3, <1>4, <1>5, NothingAdded, PlacesOthers

LEMMA PlacesEnvAdd == ASSUME Whole, Keeps', NEW n \in Node \ {1}, env_add(n) PROVE Places'
<1>1. PICK k \in Key :
         LET v == <<k, Parent[n]>>
             new == <<k, n>>
             kept == new \in Vaults
         IN  /\ v \in Vaults /\ Known(k) /\ n \notin DOMAIN children(v)
             /\ recs' = IF kept THEN recs ELSE With(recs, new, <<>>)
             /\ kids' = With(IF kept THEN kids ELSE With(kids, new, <<>>), v,
                             With(children(v), n, k))
             /\ kver' = With(IF kept THEN kver ELSE With(kver, new, 1), v, kver[v] + 1)
             /\ truth' = With(truth, n, recs'[new])
  BY DEF env_add
<1> DEFINE v == <<k, Parent[n]>>
           new == <<k, n>>
           r == With(kids[v], n, k)
<1>2. /\ v \in Vaults /\ Known(k)
      /\ recs' = IF new \in Vaults THEN recs ELSE With(recs, new, <<>>)
      /\ kids' = With(IF new \in Vaults THEN kids ELSE With(kids, new, <<>>), v, r)
      /\ kver' = With(IF new \in Vaults THEN kver ELSE With(kver, new, 1), v, kver[v] + 1)
  BY <1>1 DEF children
<1>2a. v = <<k, Parent[n]>> /\ v[1] = k /\ v[2] = Parent[n] /\ new[1] = k /\ new[2] = n
  OBVIOUS
<1>2b. \A m \in DOMAIN r : (m \in DOMAIN kids[v] /\ r[m] = kids[v][m]) \/ (m = n /\ r[m] = k)
  BY DEF With
<1> HIDE DEF v, new, r
<1>3. UNCHANGED <<local, process, used, late>> /\ n \notin Grown
  BY DEF env_add, Grown
<1>4. Grown \subseteq Grown' /\ n \in Grown'
  BY <1>1 DEF Grown, With
<1>5. Moves({new}, {<<v, n, k>>})
  <2>1. ServerOK
    BY DEF Whole, Keeps
  <2>2. DOMAIN recs' = Vaults \cup {new}
    BY <1>2, <2>1 DEF ServerOK, Vaults, With
  <2>3. \A w \in Vaults \cup {new} :
           /\ kids'[w] = IF w = v THEN r ELSE IF w \in Vaults THEN kids[w] ELSE <<>>
           /\ kver'[w] = IF w = v THEN kver[v] + 1 ELSE IF w \in Vaults THEN kver[w] ELSE 1
    BY <1>2, <2>1 DEF ServerOK, Vaults, With
  <2>4. ASSUME NEW w \in Vaults \cup {new}, NEW m \in DOMAIN kids'[w]
        PROVE  \/ w \in Vaults /\ m \in DOMAIN kids[w] /\ kids'[w][m] = kids[w][m]
               \/ <<w, m, kids'[w][m]>> \in {<<v, n, k>>}
    <3>1. CASE w = v
      BY <1>2, <1>2b, <2>3, <2>4, <3>1
    <3>2. CASE w # v /\ w \in Vaults
      BY <2>3, <2>4, <3>2
    <3>3. CASE w # v /\ w \notin Vaults
      BY <2>3, <2>4, <3>3
    <3> QED BY <3>1, <3>2, <3>3
  <2>5. \A w \in Vaults : kver[w] <= kver'[w]
    BY <2>1, <2>3 DEF ServerOK
  <2> QED BY <2>2, <2>4, <2>5 DEF Moves
<1>6. v[1] = k /\ v[2] = Parent[n] /\ new[1] = k /\ new[2] = n /\ k <= used
  BY <1>2, <1>2a DEF Whole, Places, KeysBound
<1>7. Before => k # plan.new
  BY <1>2 DEF Known, Before
<1>8. MayAdd({new})
  <2>1. ~Gone(k)
    BY <1>2, <1>6 DEF Gone
  <2>2. at \in Starting => k # job.new
    BY <1>2, <1>6 DEF Whole, Places, NewUnused
  <2>3. late # NoPut => new # late.vault
    BY <1>3, <1>6 DEF Whole, Places, NodesGrown
  <2> HIDE DEF Grown
  <2> QED BY <1>4, <1>6, <1>7, <2>1, <2>2, <2>3 DEF MayAdd
<1>9. MayWrite({<<v, n, k>>})
  <2>1. ASSUME v = above(n), held_root_for(Parent[n]) # 0 PROVE Leads(n, k)
    <3>1. n \notin held
      BY <1>3 DEF Whole, Places, NodesGrown
    <3>2. Own(n) = Own(Parent[n])
      BY <3>1, HeldRoot DEF Own
    <3> QED BY <1>2a, <2>1, <3>2 DEF above, Leads
  <2> HIDE DEF Grown
  <2> QED BY <1>4, <1>6, <2>1 DEF MayWrite
<1>10. NoUndo({<<v, n, k>>})
  <2>1. plan # NoPlan => plan.path \in Grown
    BY DEF Whole, Places, PlansSound, SoundPlan
  <2> QED BY <1>3, <2>1 DEF NoUndo, Joined
<1>11. at = "abort" => \A a \in {new} : a[1] # job.new
  <2>1. ASSUME at = "abort" PROVE k # job.new
    <3>1. at \in Running
      BY <2>1 DEF Running
    <3>2. Before
      BY <2>1, <3>1, PlanIs DEF Whole, Flow, Before
    <3> QED BY <1>7, <3>1, <3>2, PlanIs
  <2> QED BY <1>6, <2>1
<1> HIDE DEF Grown
<1> QED BY <1>3, <1>4, <1>5, <1>8, <1>9, <1>10, <1>11, PlacesOthers

LEMMA PlacesPutLands == ASSUME Whole, Keeps', put_lands PROVE Places'
<1>1. late # NoPut /\ late' = NoPut /\ UNCHANGED <<recs, local, process, used, truth>>
  BY DEF put_lands, ghosts
<1>2. Grown \subseteq Grown'
  BY <1>1 DEF Grown
<1>3. CASE ~(late.vault \in Vaults /\ kver[late.vault] = late.version)
  <2>1. UNCHANGED <<kids, kver>>
    BY <1>3 DEF put_lands
  <2>2. Moves({}, {})
    BY <1>1, <2>1, MovesNone DEF Whole, Keeps
  <2> QED BY <1>1, <1>2, <2>2, NothingAdded, PlacesOthers
<1>4. CASE late.vault \in Vaults /\ kver[late.vault] = late.version
  <2>1. PICK v, n, k : v = late.vault /\ n = late.child /\ k = late.key
    OBVIOUS
  <2>2. put_children(v, With(kids[v], n, k)) /\ v \in Vaults
    BY <1>4, <2>1 DEF put_lands, children
  <2>3. ServerOK
    BY DEF Whole, Keeps
  <2>4. Moves({}, {<<v, n, k>>})
    <3>1. \A m \in DOMAIN With(kids[v], n, k) :
             \/ m \in DOMAIN kids[v] /\ With(kids[v], n, k)[m] = kids[v][m]
             \/ <<v, m, With(kids[v], n, k)[m]>> \in {<<v, n, k>>}
      BY DEF With
    <3> QED BY <1>1, <2>2, <2>3, <3>1, MovesPut
  <2>5. ~Stale(late)
    <3>1. kver[v] \in Nat
      BY <2>2, <2>3 DEF ServerOK
    <3> QED BY <1>4, <2>1, <3>1 DEF Stale
  <2>6. /\ ~Current(v[1])
        /\ Gone(k) \/ (plan # NoPlan /\ k = plan.new /\ n = plan.path)
    BY <1>1, <2>1, <2>5 DEF Whole, Places, LateHarmless, Harmless, Links
  <2>7. k <= used /\ n \in Grown'
    BY <1>1, <1>2, <2>1 DEF Whole, Places, KeysBound, NodesGrown
  <2>8. MayWrite({<<v, n, k>>})
    <3>1. plan # NoPlan => v[1] # plan.new
      BY <2>6 DEF Current
    <3>2. Leads(n, k)
      BY <2>6 DEF Leads
    <3> QED BY <2>7, <3>1, <3>2 DEF MayWrite
  <2>9. NoUndo({<<v, n, k>>})
    <3>1. ASSUME Joined, parent_held(plan.path), v = above(plan.path) PROVE FALSE
      <4>1. Linked(plan.path, plan.new)
        BY <3>1 DEF Whole, Places, LinkStays
      <4> QED BY <1>1, <2>1, <2>5, <3>1, <4>1 DEF Linked
    <3> QED BY <3>1 DEF NoUndo
  <2> QED BY <1>1, <1>2, <2>4, <2>8, <2>9, NothingAdded, PlacesOthers
<1> QED BY <1>3, <1>4

\* Where what has changed is only the plan that is current.
LEMMA PlacesListed ==
  ASSUME Lists, UNCHANGED <<recs, kids, held>>, store'.node = store.node,
         \A n \in Node \ {1} : Skipped(n) => Skipped(n)',
         \A n, e : \A w \in Vaults : n \in DOMAIN kids[w] /\ e = kids[w][n] /\ Leads(n, e) => Leads(n, e)'
  PROVE  Lists'
<1>1. ASSUME NEW n \in Node \ {1}, ~Skipped(n)', held_root_for(Parent[n])' # 0,
             NEW w, NEW e, w = above(n)', Entry(w, n, e)'
      PROVE  Leads(n, e)'
  <2>1. ~Skipped(n) /\ held_root_for(Parent[n]) # 0 /\ w = above(n) /\ Entry(w, n, e)
    <3>1. PICK m : m = Parent[n]
      OBVIOUS
    <3>2. held_root_for(m)' = held_root_for(m) /\ above(n)' = above(n)
      BY OwnSame, AboveSame
    <3>3. Entry(w, n, e)
      BY <1>1 DEF Entry, Vaults
    <3> QED BY <1>1, <3>1, <3>2, <3>3
  <2>2. Leads(n, e)
    BY <2>1 DEF Lists
  <2> QED BY <2>1, <2>2 DEF Entry
<1> QED BY <1>1 DEF Lists

LEMMA PlacesBegin ==
  ASSUME Whole, Keeps', NEW p \in Node, begin_rekey(p) PROVE Places'
<1> DEFINE root == chain(p)
           found == listed(p, root)
           nodes == {n \in Node : found[n] # 0}
<1>1. /\ at = "idle" /\ plan = NoPlan /\ tree[p].vault # 0 /\ root # 0
      /\ job' = [path |-> p, nodes |-> nodes, old |-> found, new |-> used + 1,
                 step |-> "planned", linked |-> FALSE]
      /\ used' = used + 1 /\ at' = "keep_old"
      /\ UNCHANGED <<recs, kids, kver, late, plan, held, tree, store, truth>>
  BY DEF begin_rekey, Goto, server, local
<1>2. ServerOK /\ LocalOK /\ SealedHeld /\ used \in Key /\ used \in Nat
  <2>1. used \in Key /\ Key \subseteq Nat
    BY Typed DEF Whole, Key
  <2> QED BY <2>1, Typed DEF Whole
<1>3. root \in 0..MaxKey /\ root <= used
  <2>1. held_root_for(p) # 0 /\ root = Own(p)
    BY <1>1, <1>2, ChainIs
  <2>2. held_root_for(p) \in Node
    BY <1>2, <2>1, HeldRoot DEF LocalOK
  <2> QED BY <1>2, <2>1, <2>2, OwnKey DEF Whole, Places, KeysBound, Own
<1> HIDE DEF root
<1>4. /\ found \in [Node -> 0..MaxKey]
      /\ found[p] = root
      /\ \A n \in Node \ Below(p) : n # p => found[n] = 0
      /\ \A n \in Below(p) \ {p} :
            LET v == <<found[Parent[n]], Parent[n]>>
            IN  found[n] = IF v \in Vaults /\ n \in DOMAIN kids[v] THEN kids[v][n] ELSE 0
  <2>1. ListedIs(found, p, root)
    BY <1>2, <1>3, ListedWorks
  <2> HIDE DEF found
  <2> QED BY <2>1 DEF ListedIs
<1> HIDE DEF found
<1>5. ASSUME NEW n \in Node
      PROVE  found[n] <= used /\ (found[n] # 0 => n \in Below(p) /\ n \in Grown)
  <2>1. CASE n = p
    BY <1>1, <1>3, <1>4, <2>1, AboveStep DEF Whole, Places, NodesGrown, Below
  <2>2. CASE n # p /\ n \in Below(p)
    <3>1. PICK v : v = <<found[Parent[n]], Parent[n]>>
      OBVIOUS
    <3>2. found[n] = IF v \in Vaults /\ n \in DOMAIN kids[v] THEN kids[v][n] ELSE 0
      BY <1>4, <2>2, <3>1
    <3>3. CASE v \in Vaults /\ n \in DOMAIN kids[v]
      BY <2>2, <3>2, <3>3 DEF Whole, Places, KeysBound, NodesGrown
    <3>4. CASE ~(v \in Vaults /\ n \in DOMAIN kids[v])
      BY <1>2, <3>2, <3>4
    <3> QED BY <3>3, <3>4
  <2>3. CASE n # p /\ n \notin Below(p)
    BY <1>2, <1>4, <2>3
  <2> QED BY <2>1, <2>2, <2>3
<1>6. p \in nodes /\ nodes \subseteq Below(p) \cap Grown
  BY <1>1, <1>4, <1>5
<1> HIDE DEF nodes
<1>7. /\ job'.path = p /\ job'.nodes = nodes /\ job'.old = found /\ job'.new = used + 1
  BY <1>1
<1>8. \A n \in Node : found[n] < used + 1
  <2> TAKE n \in Node
  <2>1. found[n] \in Nat /\ found[n] <= used
    BY <1>4, <1>5
  <2> QED BY <1>2, <2>1
<1>9. SoundPlan(job)'
  BY <1>1, <1>2, <1>6, <1>7, <1>8 DEF SoundPlan, Grown, Below
<1>10. PlansSound'
  BY <1>1, <1>9 DEF PlansSound
<1>11. KeysBound'
  <2>1. \A x \in Key : x <= used => x <= used + 1 /\ x # used + 1
    BY <1>2 DEF Key
  <2>2. \A v \in Vaults : v[1] \in Key /\ \A n \in DOMAIN kids[v] : kids[v][n] \in Key
    BY <1>2, EntryOK
  <2>3. \A n \in Node : store.node[n] \in 0..MaxKey
    BY <1>2 DEF LocalOK, Store
  <2>4. \A n \in Node : store.node[n] <= used + 1
    BY <1>2, <2>3 DEF Whole, Places, KeysBound
  <2>5. late # NoPut => late.vault[1] \in Key /\ late.key \in Key
    BY Typed DEF Whole, Put
  <2> QED BY <1>1, <2>1, <2>2, <2>4, <2>5 DEF Whole, Places, KeysBound, Vaults
<1>12. NodesGrown' /\ NewTree' /\ AbortLeft' /\ LinkStays'
  BY <1>1 DEF Whole, Places, NodesGrown, NewTree, AbortLeft, LinkStays, Joined, Vaults, Grown
<1>13. NewUnused'
  <2>1. \A v \in Vaults : v[1] # used + 1
    <3>1. \A v \in Vaults : v[1] \in Nat /\ v[1] <= used
      BY <1>2, EntryOK DEF Key, Whole, Places, KeysBound
    <3> QED BY <1>2, <3>1
  <2>2. \A n \in Node : store.node[n] # used + 1
    <3>1. \A n \in Node : store.node[n] \in Nat /\ store.node[n] <= used
      BY <1>2 DEF LocalOK, Store, Whole, Places, KeysBound
    <3> QED BY <1>2, <3>1
  <2> QED BY <1>1, <1>7, <2>1, <2>2 DEF NewUnused, Vaults
<1>14. ASSUME NEW k \in Key, k <= used PROVE ~Current(k)' /\ (Gone(k) => Gone(k)')
  <2>1. k # used + 1
    BY <1>2, <1>14 DEF Key
  <2>2. ~Current(k)'
    BY <1>1, <1>7, <2>1 DEF Current
  <2> QED BY <1>1, <2>2 DEF Gone, Vaults
<1>15. LateHarmless'
  <2> SUFFICES ASSUME late # NoPut PROVE LateHarmless'
    BY <1>1 DEF LateHarmless
  <2>1. PICK l : l = late
    OBVIOUS
  <2>2. /\ l.vault[1] \in Key /\ l.key \in Key /\ l.vault[1] <= used /\ l.key <= used
        /\ Harmless(l)
    BY <2>1, Typed DEF Whole, Places, KeysBound, LateHarmless, Put
  <2>3. PICK a, k : a = l.vault[1] /\ k = l.key
    OBVIOUS
  <2>4. ~Current(a)' /\ (Gone(k) => Gone(k)')
    BY <1>14, <2>2, <2>3
  <2>5. Stale(l) => Stale(l)'
    BY <1>1 DEF Stale, Vaults
  <2>6. Harmless(l)'
    BY <1>1, <2>2, <2>3, <2>4, <2>5 DEF Harmless, Vaults
  <2> QED BY <1>1, <2>1, <2>6 DEF LateHarmless
<1>16. Lists'
  <2>1. ASSUME NEW n, NEW e, NEW w \in Vaults, n \in DOMAIN kids[w], e = kids[w][n], Leads(n, e)
        PROVE  Leads(n, e)'
    <3>1. e \in Key /\ e <= used
      BY <1>2, <2>1, EntryOK DEF Whole, Places, KeysBound
    <3>2. Own(n)' = Own(n)
      BY <1>1, OwnSame
    <3> QED BY <1>1, <1>14, <2>1, <3>1, <3>2 DEF Leads
  <2>2. \A n \in Node \ {1} : Skipped(n) => Skipped(n)'
    BY <1>1 DEF Skipped
  <2>3. Lists
    BY DEF Whole, Places
  <2> QED BY <1>1, <2>1, <2>2, <2>3, PlacesListed
<1> QED BY <1>10, <1>11, <1>12, <1>13, <1>15, <1>16 DEF Places

LEMMA PlacesRecord == ASSUME Whole, Keeps', record_plan PROVE Places'
<1>1. /\ at = "record_plan" /\ at' = "run_rekey" /\ job' = job /\ plan' = job
      /\ UNCHANGED <<recs, kids, kver, late, held, tree, store, used, truth>>
  BY DEF record_plan, Goto, server
<1>2. at \in Starting /\ at' \notin Starting /\ at # "idle"
  BY <1>1 DEF Starting
<1>3. plan = NoPlan /\ job # NoPlan /\ job.step = "planned"
  BY <1>2, JobStill DEF Whole, Keeps, Control, Flow
<1>4. PlansSound'
  <2>1. PICK x : x = job
    OBVIOUS
  <2>2. SoundPlan(x)
    BY <1>3, <2>1 DEF Whole, Places, PlansSound
  <2>3. SoundPlan(x)'
    BY <1>1, <2>2 DEF SoundPlan, Grown, Below
  <2> QED BY <1>1, <2>1, <2>3 DEF PlansSound
<1>5. KeysBound' /\ NodesGrown' /\ AbortLeft'
  BY <1>1 DEF Whole, Places, KeysBound, NodesGrown, AbortLeft, Vaults, Grown
<1>6. /\ \A v \in Vaults : v[1] # job.new
      /\ \A n \in Node : store.node[n] # job.new
  BY <1>2 DEF Whole, Places, NewUnused
<1>7. NewUnused' /\ NewTree'
  BY <1>1, <1>2, <1>6 DEF NewUnused, NewTree, Vaults
<1>8. LinkStays' /\ \A n \in Node \ {1} : ~Skipped(n)
  BY <1>1, <1>3, RankValues DEF LinkStays, Joined, Ranks, Skipped
<1>9. ASSUME NEW k PROVE (Current(k)' <=> Current(k)) /\ (Gone(k) => Gone(k)')
  <2>1. Current(k)' <=> Current(k)
    BY <1>1, <1>2, <1>3 DEF Current
  <2> QED BY <1>1, <2>1 DEF Gone, Vaults
<1>10. LateHarmless'
  <2> SUFFICES ASSUME late # NoPut PROVE LateHarmless'
    BY <1>1 DEF LateHarmless
  <2>1. PICK l : l = late
    OBVIOUS
  <2>2. Harmless(l)
    BY <2>1 DEF Whole, Places, LateHarmless
  <2>3. PICK a, k : a = l.vault[1] /\ k = l.key
    OBVIOUS
  <2>4. (Current(a)' <=> Current(a)) /\ (Gone(k) => Gone(k)')
    BY <1>9
  <2>5. Stale(l) => Stale(l)'
    BY <1>1 DEF Stale, Vaults
  <2>6. Harmless(l)'
    BY <1>1, <1>3, <2>2, <2>3, <2>4, <2>5 DEF Harmless, Vaults
  <2> QED BY <1>1, <2>1, <2>6 DEF LateHarmless
<1>11. Lists'
  <2>1. ASSUME NEW n, NEW e, Leads(n, e) PROVE Leads(n, e)'
    <3>1. Own(n)' = Own(n)
      BY <1>1, OwnSame
    <3> QED BY <1>3, <1>9, <2>1, <3>1 DEF Leads
  <2>2. Lists
    BY DEF Whole, Places
  <2> QED BY <1>1, <1>8, <2>1, <2>2, PlacesListed
<1> QED BY <1>4, <1>5, <1>7, <1>8, <1>10, <1>11 DEF Places

LEMMA PlacesForget == ASSUME Whole, Keeps', forget_plan PROVE Places'
<1>1. /\ at = "abort" /\ at' = "drop_old" /\ left = {} /\ plan' = NoPlan
      /\ UNCHANGED <<recs, kids, kver, late, held, tree, store, used, truth, job>>
  BY DEF forget_plan, Goto, server, ghosts
<1>2. at \in Running /\ at \notin Starting /\ at' \notin Starting
  BY <1>1 DEF Running, Starting
<1>3. \A v \in Vaults : v[1] # plan.new
  BY <1>1, <1>2, PlanIs DEF Whole, Places, AbortLeft
<1>4. PlansSound'
  BY <1>1 DEF Whole, Places, PlansSound, SoundPlan, Grown, Below
<1>5. KeysBound' /\ NodesGrown' /\ AbortLeft' /\ NewUnused' /\ NewTree' /\ LinkStays'
  BY <1>1, <1>2 DEF Whole, Places, KeysBound, NodesGrown, AbortLeft, NewUnused, NewTree, LinkStays,
                    Joined, Vaults, Grown
<1>6. \A n \in Node \ {1} : ~Skipped(n)
  BY <1>1, <1>2, PlanIs, RankValues DEF Whole, Flow, Skipped, Ranks
<1>7. ASSUME NEW k PROVE ~Current(k)' /\ (Gone(k) \/ k = plan.new => Gone(k)')
  <2>1. ~Current(k)'
    BY <1>1, <1>2 DEF Current
  <2> QED BY <1>1, <1>3, <2>1 DEF Gone, Vaults
<1>8. LateHarmless'
  <2> SUFFICES ASSUME late # NoPut PROVE LateHarmless'
    BY <1>1 DEF LateHarmless
  <2>1. PICK l : l = late
    OBVIOUS
  <2>2. Harmless(l)
    BY <2>1 DEF Whole, Places, LateHarmless
  <2>3. PICK a, k : a = l.vault[1] /\ k = l.key
    OBVIOUS
  <2>4. ~Current(a)' /\ (Gone(k) \/ k = plan.new => Gone(k)')
    BY <1>7
  <2>5. Stale(l) => Stale(l)'
    BY <1>1 DEF Stale, Vaults
  <2>6. Harmless(l)'
    BY <1>1, <2>2, <2>3, <2>4, <2>5 DEF Harmless, Vaults
  <2> QED BY <1>1, <2>1, <2>6 DEF LateHarmless
<1>9. Lists'
  <2>1. ASSUME NEW n, NEW e, Leads(n, e) PROVE Leads(n, e)'
    <3>1. Own(n)' = Own(n)
      BY <1>1, OwnSame
    <3> QED BY <1>7, <2>1, <3>1 DEF Leads
  <2>2. Lists
    BY DEF Whole, Places
  <2> QED BY <1>1, <1>6, <2>1, <2>2, PlacesListed
<1> QED BY <1>4, <1>5, <1>8, <1>9 DEF Places

\* Outside a subtree the machine has the keys it had.
OutsideSame(p) ==
    \A m \in Node \ Below(p) : /\ held_root_for(m)' = held_root_for(m)
                               /\ held_root_for(m) # 0 => Own(m)' = Own(m)

LEMMA ParentOutside ==
  ASSUME NEW p \in Node, NEW n \in Node \ {1}, n \notin Below(p) \/ n = p
  PROVE  Parent[n] \in Node \ Below(p)
<1>1. Parent[n] \in Node /\ Parent[n] \in Nat /\ n \in Nat /\ Parent[n] < n
  BY TreeDown
<1>2. ASSUME p \in Above[Parent[n]] PROVE FALSE
  <2>1. p <= Parent[n] /\ p \in Nat
    BY <1>1, <1>2, AboveSmaller, TreeDown
  <2>2. n # p
    BY <1>1, <2>1
  <2>3. p \in Above[n]
    BY <1>2, AboveStep
  <2> QED BY <2>2, <2>3 DEF Below
<1> QED BY <1>1, <1>2 DEF Below

\* The end of a rekey replaces keys at and below its node alone.
LEMMA PlacesEnds ==
  ASSUME Whole, at \in Running, at' \in Running, at' # "abort", plan.step = "retired",
         UNCHANGED <<recs, kids, kver, late, plan, job, used, truth>>,
         OutsideSame(plan.path), KeysBound', NodesGrown', NewUnused'
  PROVE  Places'
<1>1. PICK p, k : p = plan.path /\ k = plan.new
  OBVIOUS
<1>2. p \in Node /\ plan # NoPlan /\ p = plan'.path /\ k = plan'.new
  BY <1>1, PlanIs
<1>3. at' \notin Starting /\ at \notin Starting
  BY DEF Running, Starting
<1>4. PlansSound' /\ NewTree' /\ AbortLeft'
  <2>1. Grown' = Grown
    BY DEF Grown
  <2>2. (SoundPlan(plan)' <=> SoundPlan(plan)) /\ (SoundPlan(job)' <=> SoundPlan(job))
    <3> HIDE DEF Grown
    <3> QED BY <2>1 DEF SoundPlan, Below
  <2> QED BY <2>2 DEF Whole, Places, PlansSound, NewTree, AbortLeft, Before, Vaults
<1>5. Joined
  BY <1>2, RankValues DEF Joined, Ranks
<1>6. ASSUME NEW n \in Node \ {1}, n \notin Below(p) \/ n = p
      PROVE  /\ held_root_for(Parent[n])' = held_root_for(Parent[n])
             /\ held_root_for(Parent[n]) # 0 => above(n)' = above(n)
  <2>1. Parent[n] \in Node \ Below(p)
    BY <1>2, <1>6, ParentOutside
  <2>2. PICK m : m = Parent[n]
    OBVIOUS
  <2>3. held_root_for(m)' = held_root_for(m) /\ (held_root_for(m) # 0 => Own(m)' = Own(m))
    BY <1>1, <2>1, <2>2 DEF OutsideSame
  <2> QED BY <2>2, <2>3 DEF above
<1>7. (parent_held(p)' <=> parent_held(p)) /\ (parent_held(p) => above(p)' = above(p))
  <2>1. CASE p = 1
    BY <2>1 DEF parent_held
  <2>2. CASE p # 1
    BY <1>2, <1>6, <2>2 DEF parent_held
  <2> QED BY <2>1, <2>2
<1>8. Linked(p, k)' \/ ~parent_held(p)
  <2>1. ASSUME parent_held(p) PROVE Linked(p, k)'
    <3>1. Linked(p, k) /\ above(p)' = above(p)
      BY <1>1, <1>5, <1>7, <2>1 DEF Whole, Places, LinkStays
    <3> QED BY <3>1 DEF Linked, Stale, Vaults
  <2> QED BY <2>1
<1>9. LinkStays'
  BY <1>2, <1>7, <1>8 DEF LinkStays
<1>10. ASSUME NEW x PROVE (Current(x)' <=> Current(x)) /\ (Gone(x)' <=> Gone(x))
  BY <1>3 DEF Current, Gone, Vaults
<1>11. LateHarmless'
  <2> SUFFICES ASSUME late # NoPut PROVE LateHarmless'
    BY DEF LateHarmless
  <2>1. PICK l : l = late
    OBVIOUS
  <2>2. Harmless(l)
    BY <2>1 DEF Whole, Places, LateHarmless
  <2>3. PICK a, x : a = l.vault[1] /\ x = l.key
    OBVIOUS
  <2>4. (Current(a)' <=> Current(a)) /\ (Gone(x)' <=> Gone(x))
    BY <1>10
  <2>5. Stale(l) => Stale(l)'
    BY DEF Stale, Vaults
  <2>6. Links(l, p) => Links(l, p)'
    BY <1>7 DEF Links
  <2>7. Links(l, plan.path) => Links(l, plan.path)'
    BY <1>1, <2>6
  <2>8. Harmless(l)'
    BY <2>2, <2>3, <2>4, <2>5, <2>7 DEF Harmless, Vaults
  <2> QED BY <2>1, <2>8 DEF LateHarmless
<1>12. Lists'
  <2>1. ASSUME NEW n \in Node \ {1}, ~Skipped(n)', held_root_for(Parent[n])' # 0,
               NEW w, NEW e, w = above(n)', Entry(w, n, e)'
        PROVE  Leads(n, e)'
    <3>1. ~Skipped(n) /\ (n \notin Below(p) \/ n = p)
      BY <1>1, <1>2, <2>1 DEF Skipped, Below
    <3>2. held_root_for(Parent[n]) # 0 /\ w = above(n) /\ Entry(w, n, e)
      BY <1>6, <2>1, <3>1 DEF Entry, Vaults
    <3>3. CASE n = p
      <4>1. parent_held(p)
        BY <2>1, <3>2, <3>3 DEF parent_held
      <4>2. Linked(p, k)
        BY <1>1, <1>5, <4>1 DEF Whole, Places, LinkStays
      <4>3. e = k
        BY <3>2, <3>3, <4>2 DEF Linked, Entry
      <4> QED BY <1>2, <3>3, <4>3 DEF Leads
    <3>4. CASE n \notin Below(p)
      <4>1. Leads(n, e)
        BY <3>1, <3>2 DEF Whole, Places, Lists
      <4>2. n # p
        BY <1>2, <3>4, AboveStep DEF Below
      <4>3. held_root_for(n) # 0
        <5>1. n \in held => n # 0 /\ held_root_for(n) = n
          BY <2>1, HeldRoot, TreeDown
        <5> QED BY <2>1, <3>2, <5>1, HeldRoot
      <4>4. Own(n)' = Own(n)
        BY <1>1, <2>1, <3>4, <4>3 DEF OutsideSame
      <4>5. e = Own(n) \/ Gone(e)
        BY <1>1, <4>1, <4>2 DEF Leads
      <4> QED BY <1>10, <4>4, <4>5 DEF Leads
    <3> QED BY <3>1, <3>3, <3>4
  <2> QED BY <2>1 DEF Lists
<1> QED BY <1>4, <1>9, <1>11, <1>12 DEF Places

\* What the end of a rekey does to the keys of a machine.
LEMMA StoreKeyDoes ==
  ASSUME Whole, store_key
  PROVE  /\ plan.path \in Node /\ plan.path = job.path /\ plan # NoPlan /\ plan.step = "retired"
         /\ plan.new <= used /\ at \in Running /\ at' \in Running /\ at' # "abort"
         /\ \A n \in Node : store'.node[n] = IF n = plan.path THEN plan.new ELSE store.node[n]
         /\ OutsideSame(plan.path)
<1>1. /\ at = "store_key" /\ at' = "finish" /\ held' = held
      /\ store' = [store EXCEPT !.node[job.path] = job.new]
  BY DEF store_key, Goto
<1>2. at \in Running /\ at' \in Running /\ at' # "abort"
  BY <1>1 DEF Running
<1>3. PICK p, k : p = plan.path /\ k = plan.new
  OBVIOUS
<1>4. p \in Node /\ p = job.path /\ k = job.new /\ plan # NoPlan /\ plan.step = "retired" /\ k <= used
  BY <1>1, <1>2, <1>3, PlanIs DEF Whole, Flow, SoundPlan
<1>5. store'.node = [store.node EXCEPT ![p] = k] /\ DOMAIN store.node = Node
  <2>1. store \in Store
    BY DEF Whole, Keeps, LocalOK
  <2> QED BY <1>1, <1>4, <2>1 DEF Store
<1>6. \A n \in Node : store'.node[n] = IF n = p THEN k ELSE store.node[n]
  BY <1>5
<1>7. OutsideSame(p)
  <2>1. ASSUME NEW m \in Node \ Below(p)
        PROVE  held_root_for(m)' = held_root_for(m) /\ (held_root_for(m) # 0 => Own(m)' = Own(m))
    <3>1. held_root_for(m)' = held_root_for(m)
      BY <1>1 DEF held_root_for
    <3>2. ASSUME held_root_for(m) # 0 PROVE Own(m)' = Own(m)
      <4>1. held_root_for(m) \in Above[m] /\ held_root_for(m) \in Node
        BY <3>2, HeldRoot, AboveSmaller
      <4>2. held_root_for(m) # p
        BY <4>1 DEF Below
      <4> QED BY <1>6, <3>1, <4>1, <4>2 DEF Own
    <3> QED BY <3>1, <3>2
  <2> QED BY <2>1 DEF OutsideSame
<1> QED BY <1>2, <1>3, <1>4, <1>6, <1>7

LEMMA PlacesStoreKey == ASSUME Whole, Keeps', store_key PROVE Places'
<1>1. UNCHANGED <<recs, kids, kver, late, plan, held, tree, job, used, truth>>
  BY DEF store_key, server, ghosts
<1>2. /\ plan.path \in Node /\ plan # NoPlan /\ plan.step = "retired" /\ plan.new <= used
      /\ at \in Running /\ at' \in Running /\ at' # "abort" /\ OutsideSame(plan.path)
      /\ \A n \in Node : store'.node[n] = IF n = plan.path THEN plan.new ELSE store.node[n]
  BY StoreKeyDoes
<1>3. at \notin Starting /\ at' \notin Starting
  BY <1>2 DEF Running, Starting
<1>4. KeysBound' /\ NodesGrown'
  BY <1>1, <1>2 DEF Whole, Places, KeysBound, NodesGrown, Vaults, Grown
<1>5. NewUnused'
  BY <1>1, <1>2, <1>3 DEF Whole, Places, NewUnused, Vaults
<1> QED BY <1>1, <1>2, <1>4, <1>5, PlacesEnds

LEMMA FinishDoes ==
  ASSUME Whole, finish_rekey
  PROVE  /\ plan.path \in Node /\ plan.path = job.path /\ plan # NoPlan /\ plan.step = "retired"
         /\ at \in Running /\ at' \in Running /\ at' # "abort" /\ SoundPlan(job)
         /\ held' = (held \ Below(plan.path)) \cup {plan.path}
         /\ OutsideSame(plan.path)
<1>1. /\ at = "finish" /\ at' = "save_state" /\ store' = store
      /\ held' = (held \ Below(job.path)) \cup {job.path}
  BY DEF finish_rekey, Goto
<1>2. at \in Running /\ at' \in Running /\ at' # "abort"
  BY <1>1 DEF Running
<1>3. PICK p, k : p = plan.path /\ k = plan.new
  OBVIOUS
<1>4. p \in Node /\ p = job.path /\ k = job.new /\ plan # NoPlan /\ plan.step = "retired" /\ SoundPlan(job)
  BY <1>1, <1>2, <1>3, PlanIs DEF Whole, Flow
<1>5. OutsideSame(p)
  <2>1. ASSUME NEW m \in Node \ Below(p)
        PROVE  held_root_for(m)' = held_root_for(m) /\ (held_root_for(m) # 0 => Own(m)' = Own(m))
    <3>1. \A x \in Above[m] : x \notin Below(p) /\ x # p
      <4> TAKE x \in Above[m]
      <4>1. Above[x] \subseteq Above[m] /\ x \in Node
        BY AboveTransitive, AboveSmaller
      <4>2. p \notin Above[m] /\ p \in Above[p]
        BY <1>4, AboveStep DEF Below
      <4> QED BY <4>1, <4>2 DEF Below
    <3>2. held' \cap Above[m] = held \cap Above[m]
      BY <1>1, <1>4, <3>1
    <3>3. held_root_for(m)' = held_root_for(m)
      BY <3>2 DEF held_root_for
    <3> QED BY <1>1, <3>3 DEF Own
  <2> QED BY <2>1 DEF OutsideSame
<1> QED BY <1>1, <1>2, <1>3, <1>4, <1>5

LEMMA PlacesFinish == ASSUME Whole, Keeps', finish_rekey PROVE Places'
<1>1. /\ held' = (held \ Below(job.path)) \cup {job.path}
      /\ tree' = [n \in Node |-> IF n \notin Below(job.path) THEN tree[n]
                                 ELSE [vault |-> IF n \in job.nodes THEN job.new ELSE 0,
                                       sealed |-> n = job.path /\ job.linked]]
      /\ UNCHANGED <<recs, kids, kver, late, plan, store, job, used, truth>>
  BY DEF finish_rekey, server, ghosts
<1>2. /\ plan.step = "retired" /\ SoundPlan(job) /\ OutsideSame(plan.path)
      /\ at \in Running /\ at' \in Running /\ at' # "abort"
  BY FinishDoes
<1>3. at \notin Starting /\ at' \notin Starting
  BY <1>2 DEF Running, Starting
<1>6. KeysBound' /\ NewUnused'
  BY <1>1, <1>3 DEF Whole, Places, KeysBound, NewUnused, Vaults
<1>7. NodesGrown'
  <2>1. Grown' = Grown
    BY <1>1 DEF Grown
  <2>2. held' \subseteq Grown
    BY <1>1, <1>2 DEF SoundPlan, Whole, Places, NodesGrown
  <2>3. \A n \in Node : tree'[n].vault # 0 => n \in Grown
    <3> TAKE n \in Node
    <3>1. CASE n \notin Below(job.path)
      BY <1>1, <3>1 DEF Whole, Places, NodesGrown
    <3>2. CASE n \in Below(job.path)
      BY <1>1, <1>2, <3>2 DEF SoundPlan
    <3> QED BY <3>1, <3>2
  <2> HIDE DEF Grown
  <2> QED BY <1>1, <2>1, <2>2, <2>3 DEF Whole, Places, NodesGrown, Vaults
<1> QED BY <1>1, <1>2, <1>6, <1>7, PlacesEnds

\* Below a node that is the only one held there, it is the nearest.
LEMMA RootBelow ==
  ASSUME NEW p \in Node, held \cap Below(p) = {p}, held \subseteq Node, NEW n \in Below(p)
  PROVE  held_root_for(n) = p
<1>1. n \in Node /\ p \in Above[n] /\ p \in held
  BY DEF Below
<1>2. held_root_for(n) # 0
  BY <1>1, HeldRoot
<1>3. PICK r : r = held_root_for(n)
  OBVIOUS
<1>4. r \in held /\ r \in Above[n] /\ r \in Node
  BY <1>1, <1>2, <1>3, HeldRoot
<1>5. CASE p <= r
  <2>1. p \in Above[r]
    BY <1>1, <1>4, <1>5, AboveLinear
  <2> QED BY <1>3, <1>4, <2>1 DEF Below
<1>6. CASE ~(p <= r)
  <2>1. p \in {0} \cup (held \cap Above[n])
    BY <1>1
  <2>2. \A x \in {0} \cup (held \cap Above[n]) : x <= r
    <3> DEFINE T == {0} \cup (held \cap Above[n])
    <3>1. T \in SUBSET Nat /\ T # {} /\ N \in Nat /\ \A x \in T : x <= N
      <4>1. \A x \in Node : x \in Nat /\ x <= N
        BY Numbers DEF Node
      <4>2. 0 <= N
        BY Numbers
      <4> QED BY <4>1, <4>2, Numbers
    <3>2. \A y \in T : y <= Max(T)
      BY <3>1, MaxIn
    <3> QED BY <1>3, <3>2 DEF held_root_for
  <2> QED BY <1>6, <2>1, <2>2
<1> QED BY <1>5, <1>6

LEMMA PlacesSave == ASSUME Whole, Keeps', save_state PROVE Places'
<1>1. /\ at = "save_state" /\ at' = "drop_below" /\ plan' = NoPlan
      /\ UNCHANGED <<recs, kids, kver, late, held, tree, store, used, truth, job>>
  BY DEF save_state, Goto, server, ghosts
<1>2. at \in Running /\ at \notin Starting /\ at' \notin Starting
  BY <1>1 DEF Running, Starting
<1>3. PICK p, k : p = plan.path /\ k = plan.new
  OBVIOUS
<1>4. /\ p \in Node /\ plan # NoPlan /\ plan.step = "retired" /\ store.node[p] = k
      /\ held \cap Below(p) = {p} /\ held \subseteq Node
  BY <1>1, <1>2, <1>3, PlanIs DEF Whole, Flow, Keeps, LocalOK
<1>5. Joined
  BY <1>4, RankValues DEF Joined, Ranks
<1>6. PlansSound'
  BY <1>1 DEF Whole, Places, PlansSound, SoundPlan, Grown, Below
<1>7. KeysBound' /\ NodesGrown' /\ AbortLeft' /\ NewUnused' /\ NewTree' /\ LinkStays'
  BY <1>1, <1>2 DEF Whole, Places, KeysBound, NodesGrown, AbortLeft, NewUnused, NewTree, LinkStays,
                    Joined, Vaults, Grown
<1>8. ASSUME NEW x PROVE ~Current(x)' /\ (Gone(x) => Gone(x)')
  <2>1. ~Current(x)'
    BY <1>1, <1>2 DEF Current
  <2> QED BY <1>1, <2>1 DEF Gone, Vaults
<1>9. LateHarmless'
  <2> SUFFICES ASSUME late # NoPut PROVE LateHarmless'
    BY <1>1 DEF LateHarmless
  <2>1. PICK l : l = late
    OBVIOUS
  <2>2. Harmless(l)
    BY <2>1 DEF Whole, Places, LateHarmless
  <2>3. PICK a, x : a = l.vault[1] /\ x = l.key
    OBVIOUS
  <2>4. ~Current(a)' /\ (Gone(x) => Gone(x)')
    BY <1>8
  <2>5. Stale(l) => Stale(l)'
    BY <1>1 DEF Stale, Vaults
  <2>6. Links(l, plan.path) => Stale(l)
    <3>1. ASSUME Links(l, plan.path) PROVE Stale(l)
      <4>1. parent_held(plan.path) /\ late.vault = above(plan.path)
        BY <2>1, <3>1 DEF Links
      <4>2. Linked(plan.path, plan.new)
        BY <1>5, <4>1 DEF Whole, Places, LinkStays
      <4> QED BY <2>1, <4>1, <4>2 DEF Linked
    <3> QED BY <3>1
  <2>7. Harmless(l)'
    BY <1>1, <2>2, <2>3, <2>4, <2>5, <2>6 DEF Harmless, Vaults
  <2> QED BY <1>1, <2>1, <2>7 DEF LateHarmless
<1>10. \A n \in Below(p) : held_root_for(n) = p /\ Own(n) = k
  BY <1>4, RootBelow DEF Own
<1>11. Lists'
  <2>1. ASSUME NEW n \in Node \ {1}, ~Skipped(n)', held_root_for(Parent[n])' # 0,
               NEW w, NEW e, w = above(n)', Entry(w, n, e)'
        PROVE  Leads(n, e)'
    <3>1. PICK m : m = Parent[n]
      OBVIOUS
    <3>2. /\ held_root_for(m)' = held_root_for(m) /\ above(n)' = above(n) /\ Own(n)' = Own(n)
      BY <1>1, OwnSame, AboveSame
    <3>3. held_root_for(Parent[n]) # 0 /\ w = above(n) /\ Entry(w, n, e)
      BY <1>1, <2>1, <3>1, <3>2 DEF Entry, Vaults
    <3>4. p \in Below(p)
      BY <1>4, AboveStep DEF Below
    <3>5. CASE Skipped(n)
      <4>1. n \in Below(p) /\ n # p
        BY <1>3, <3>5 DEF Skipped
      <4>2. Parent[n] \in Below(p)
        <5>1. p \in Above[Parent[n]] /\ Parent[n] \in Node
          BY <4>1, AboveStep, TreeDown DEF Below
        <5> QED BY <5>1 DEF Below
      <4>3. w[1] = k
        BY <1>10, <3>3, <4>2 DEF above
      <4>4. e = k
        BY <1>3, <1>4, <3>3, <4>3 DEF Whole, Places, NewTree, Entry
      <4> QED BY <1>10, <3>2, <4>1, <4>4 DEF Leads
    <3>6. CASE ~Skipped(n)
      <4>1. Leads(n, e)
        BY <3>3, <3>6 DEF Whole, Places, Lists
      <4>2. e = Own(n) \/ Gone(e)
        BY <1>3, <1>10, <3>4, <4>1 DEF Leads
      <4> QED BY <1>8, <3>2, <4>2 DEF Leads
    <3> QED BY <3>5, <3>6
  <2> QED BY <2>1 DEF Lists
<1> QED BY <1>6, <1>7, <1>9, <1>11 DEF Places

LEMMA DropBelowDoes ==
  ASSUME Whole, drop_below
  PROVE  /\ plan = NoPlan
         /\ \A n \in Node : store'.node[n] = IF n \in left THEN 0 ELSE store.node[n]
         /\ \A n \in Node : /\ held_root_for(n)' = held_root_for(n)
                            /\ held_root_for(n) # 0 => Own(n)' = Own(n)
<1>1. /\ at = "drop_below" /\ held' = held
      /\ store' = [store EXCEPT !.node = [n \in Node |-> IF n \in left THEN 0 ELSE @[n]]]
  BY DEF drop_below
<1>2. at \in Ending
  BY <1>1 DEF Ending
<1>3. plan = NoPlan /\ left \cap held = {} /\ held \subseteq Node
  BY <1>1, <1>2 DEF Whole, Keeps, Control, Flow, LocalOK
<1>4. \A n \in Node : store'.node[n] = IF n \in left THEN 0 ELSE store.node[n]
  <2>1. store \in Store
    BY DEF Whole, Keeps, LocalOK
  <2> QED BY <1>1, <2>1 DEF Store
<1>5. ASSUME NEW n \in Node
      PROVE  held_root_for(n)' = held_root_for(n) /\ (held_root_for(n) # 0 => Own(n)' = Own(n))
  <2>1. held_root_for(n)' = held_root_for(n)
    BY <1>1 DEF held_root_for
  <2>2. ASSUME held_root_for(n) # 0 PROVE Own(n)' = Own(n)
    <3>1. held_root_for(n) \in held
      BY <2>2, HeldRoot
    <3> QED BY <1>3, <1>4, <2>1, <3>1 DEF Own
  <2> QED BY <2>1, <2>2
<1> QED BY <1>3, <1>4, <1>5

LEMMA PlacesDropBelow == ASSUME Whole, Keeps', drop_below PROVE Places'
<1>1. /\ at = "drop_below" /\ at' = "drop_old"
      /\ UNCHANGED <<recs, kids, kver, late, plan, held, tree, job, used, truth>>
  BY DEF drop_below, Goto, server, ghosts
<1>2. at \in Ending /\ at \notin Starting /\ at' \notin Starting
  BY <1>1 DEF Ending, Starting
<1>3. plan = NoPlan /\ used \in Nat
  <2>1. used \in Key /\ Key \subseteq Nat
    BY Typed DEF Whole, Key
  <2> QED BY <2>1, DropBelowDoes
<1>4. \A n \in Node : store'.node[n] = IF n \in left THEN 0 ELSE store.node[n]
  BY DropBelowDoes
<1>5. \A n \in Node : held_root_for(n)' = held_root_for(n) /\ (held_root_for(n) # 0 => Own(n)' = Own(n))
  BY DropBelowDoes
<1>6. PlansSound'
  BY <1>1 DEF Whole, Places, PlansSound, SoundPlan, Grown, Below
<1>7. NodesGrown' /\ AbortLeft' /\ NewUnused' /\ NewTree' /\ LinkStays'
  BY <1>1, <1>2, <1>3 DEF Whole, Places, NodesGrown, AbortLeft, NewUnused, NewTree, LinkStays,
                    Joined, Vaults, Grown
<1>8. KeysBound'
  BY <1>1, <1>3, <1>4 DEF Whole, Places, KeysBound, Vaults
<1>9. ASSUME NEW x PROVE (Current(x)' <=> Current(x)) /\ (Gone(x)' <=> Gone(x))
  BY <1>1, <1>2 DEF Current, Gone, Vaults
<1>10. LateHarmless'
  <2> SUFFICES ASSUME late # NoPut PROVE LateHarmless'
    BY <1>1 DEF LateHarmless
  <2>1. PICK l : l = late
    OBVIOUS
  <2>2. Harmless(l)
    BY <2>1 DEF Whole, Places, LateHarmless
  <2>3. PICK a, x : a = l.vault[1] /\ x = l.key
    OBVIOUS
  <2>4. (Current(a)' <=> Current(a)) /\ (Gone(x)' <=> Gone(x))
    BY <1>9
  <2>5. Stale(l) => Stale(l)'
    BY <1>1 DEF Stale, Vaults
  <2>6. Harmless(l)'
    BY <1>1, <1>3, <2>2, <2>3, <2>4, <2>5 DEF Harmless, Vaults
  <2> QED BY <1>1, <2>1, <2>6 DEF LateHarmless
<1>11. Lists'
  <2>1. ASSUME NEW n \in Node \ {1}, ~Skipped(n)', held_root_for(Parent[n])' # 0,
               NEW w, NEW e, w = above(n)', Entry(w, n, e)'
        PROVE  Leads(n, e)'
    <3>1. PICK m : m = Parent[n]
      OBVIOUS
    <3>2. m \in Node
      BY <2>1, <3>1, TreeDown
    <3>3. held_root_for(m)' = held_root_for(m) /\ (held_root_for(m) # 0 => Own(m)' = Own(m))
      BY <1>5, <3>2
    <3>4. held_root_for(Parent[n]) # 0 /\ w = above(n)
      BY <2>1, <3>1, <3>3 DEF above
    <3>5. Entry(w, n, e) /\ ~Skipped(n)
      BY <1>1, <1>3, <2>1 DEF Entry, Vaults, Skipped
    <3>6. Leads(n, e)
      BY <3>4, <3>5 DEF Whole, Places, Lists
    <3>7. held_root_for(n) # 0
      <4>1. n \in held => n # 0 /\ held_root_for(n) = n
        BY HeldRoot, TreeDown
      <4> QED BY <3>4, <4>1, HeldRoot
    <3>8. Own(n)' = Own(n)
      BY <1>5, <3>7
    <3> QED BY <1>3, <1>9, <3>6, <3>8 DEF Leads
  <2> QED BY <2>1 DEF Lists
<1> QED BY <1>6, <1>7, <1>8, <1>10, <1>11 DEF Places

LEMMA PlacesInit == Init => Places
<1> SUFFICES ASSUME Init PROVE Places
  OBVIOUS
<1>1. PICK h \in load.held :
        /\ held = {h}
        /\ tree = [n \in Node |-> [vault |-> IF n \in First \cap Below(h) THEN 1 ELSE 0,
                                   sealed |-> FALSE]]
        /\ store = [node |-> [n \in Node |-> IF n = h THEN 1 ELSE 0],
                    rekeyOld |-> [n \in Node |-> 0], rekeyNew |-> [n \in Node |-> 0]]
  BY DEF Init
<1>1a. store.node = [n \in Node |-> IF n = h THEN 1 ELSE 0]
  BY <1>1
<1>2. h \in First /\ First \subseteq Node /\ h \in Node
  BY <1>1, RekeyAssumption DEF Init
<1>3. /\ Vaults = {1} \X First /\ plan = NoPlan /\ job = NoPlan /\ late = NoPut /\ at = "idle" /\ used = 1
      /\ kids = [v \in {1} \X First |-> [n \in {m \in First \ {1} : Parent[m] = v[2]} |-> 1]]
  BY DEF Init, Vaults
<1>4. \A v \in Vaults : /\ v[1] = 1 /\ v[2] \in First /\ DOMAIN kids[v] \subseteq First
                        /\ \A n \in DOMAIN kids[v] : kids[v][n] = 1
  BY <1>3
<1>5. KeysBound
  BY <1>1a, <1>3, <1>4 DEF KeysBound
<1>6. NodesGrown
  BY <1>1, <1>2, <1>3, <1>4 DEF NodesGrown, Grown
<1>7. PlansSound /\ NewUnused /\ NewTree /\ AbortLeft /\ LateHarmless /\ LinkStays
  BY <1>3 DEF PlansSound, NewUnused, NewTree, AbortLeft, LateHarmless, LinkStays, Joined, Starting
<1>8. Lists
  <2>1. ASSUME NEW n \in Node \ {1}, held_root_for(Parent[n]) # 0, NEW w, NEW e, Entry(w, n, e)
        PROVE  Leads(n, e)
    <3>1. e = 1
      BY <1>4, <2>1 DEF Entry
    <3>2. held_root_for(n) # 0
      <4>1. n \in held => n # 0 /\ held_root_for(n) = n
        BY HeldRoot, TreeDown
      <4> QED BY <2>1, <4>1, HeldRoot
    <3>3. held_root_for(n) = h
      BY <1>1, <3>2, HeldRoot
    <3>4. Own(n) = 1
      BY <1>1a, <1>2, <3>3 DEF Own
    <3> QED BY <3>1, <3>4 DEF Leads
  <2> QED BY <2>1 DEF Lists
<1> QED BY <1>5, <1>6, <1>7, <1>8 DEF Places

LEMMA PlacesNext == ASSUME Whole, Keeps', [Next]_vars PROVE Places'
<1>1. CASE (\E p \in Node : begin_rekey(p)) \/ rekey_resume \/ abort_rekey
  BY <1>1, PlacesBegin, PlacesResume, PlacesAbort
<1>2. CASE RunNext
  BY <1>2, PlacesKeepKeys, PlacesRecord, PlacesRuns, PlacesCreate, PlacesCreateChildren,
     PlacesAdvances, PlacesListChildren, PlacesDetached, PlacesSealChild, PlacesRetire,
     PlacesStoreKey, PlacesFinish, PlacesSave, PlacesDropBelow, PlacesDrop, PlacesForget DEF RunNext
<1>3. CASE seal_child_late \/ Interrupt
  BY <1>3, PlacesSealLate, PlacesRuns
<1>4. CASE OthersNext
  <2>1. 2..N = Node \ {1}
    BY TreeDown
  <2> QED BY <1>4, <2>1, PlacesWrite, PlacesEnvAdd, PlacesEnvRemove, PlacesPutLands DEF OthersNext
<1>5. CASE UNCHANGED vars
  BY <1>5, PlacesStutter
<1> QED BY <1>1, <1>2, <1>3, <1>4, <1>5 DEF Next

LEMMA WholeInit == Init => Whole
BY KeepsInit, FlowInit, PlacesInit DEF Whole

LEMMA WholeNext == Whole /\ [Next]_vars => Whole'
<1> SUFFICES ASSUME Whole, [Next]_vars PROVE Whole'
  OBVIOUS
<1>1. Keeps /\ load \in Workloads /\ Flow
  BY DEF Whole
<1>2. load' \in Workloads
  BY <1>1 DEF Next, vars
<1>3. Keeps' /\ Flow'
  BY <1>1, KeepsNext, FlowNext
<1> QED BY <1>2, <1>3, PlacesNext DEF Whole

-----------------------------------------------------------------------------
(* What discovery finds. *)

LEMMA RootKeys == ASSUME Keeps PROVE Roots \subseteq (0..MaxKey) \X Node
<1>1. \A n \in Node : store.node[n] \in 0..MaxKey /\ store.rekeyNew[n] \in 0..MaxKey
  BY DEF Keeps, LocalOK, Store
<1>2. held \subseteq Node
  BY DEF Keeps, LocalOK
<1>3. plan # NoPlan => plan.path \in Node
  BY PlanFields DEF Keeps, ProcessOK
<1> QED BY <1>1, <1>2, <1>3 DEF Roots

\* A key is discovered that is a root, or that the record of a vault
\* discovered above names.
LEMMA DiscoveredWorks ==
  ASSUME Keeps
  PROVE  /\ Discovered \subseteq (0..MaxKey) \X Node
         /\ \A n \in Node : \A k : <<k, n>> \in Discovered <=>
               \/ <<k, n>> \in Roots
               \/ n # 1 /\ \E g : <<g, Parent[n]>> \in Discovered /\ Entry(<<g, Parent[n]>>, n, k)
<1> DEFINE V == SUBSET (0..MaxKey)
           R(n) == {r[1] : r \in {x \in Roots : x[2] = n}}
           G(n, S) == {children(v)[n] : v \in {w \in S \X {Parent[n]} :
                                                 w \in Vaults /\ n \in DOMAIN children(w)}}
           H(n, S) == R(n) \cup (IF n = 1 THEN {} ELSE G(n, S))
           F == [x \in Node \X V |-> H(x[1], x[2])]
<1>1. \A n \in Node : R(n) \in V
  BY RootKeys
<1>2. \A n \in Node, S \in V : G(n, S) \in V
  <2> TAKE n \in Node, S \in V
  <2>1. \A v \in Vaults : n \in DOMAIN children(v) => children(v)[n] \in 0..MaxKey
    BY EntryOK, KeyNumbers DEF Keeps, children
  <2> QED BY <2>1
<1>2a. \A n, k : k \in R(n) <=> \E r \in Roots : r[2] = n /\ k = r[1]
  OBVIOUS
<1>2b. \A n, S, k : k \in G(n, S) <=> \E g \in S : Entry(<<g, Parent[n]>>, n, k)
  <2> TAKE n, S, k
  <2>1. ASSUME k \in G(n, S) PROVE \E g \in S : Entry(<<g, Parent[n]>>, n, k)
    <3>1. PICK v \in S \X {Parent[n]} : v \in Vaults /\ n \in DOMAIN children(v) /\ k = children(v)[n]
      BY <2>1
    <3>2. v = <<v[1], Parent[n]>> /\ v[1] \in S
      BY <3>1
    <3>3. Entry(<<v[1], Parent[n]>>, n, k)
      BY <3>1, <3>2 DEF Entry, children
    <3> QED BY <3>2, <3>3
  <2>2. ASSUME NEW g \in S, Entry(<<g, Parent[n]>>, n, k) PROVE k \in G(n, S)
    <3>1. <<g, Parent[n]>> \in S \X {Parent[n]}
      OBVIOUS
    <3> QED BY <2>2, <3>1 DEF Entry, children
  <2> QED BY <2>1, <2>2
<1> HIDE DEF R, G
<1>3. \A n \in Node, S \in V : H(n, S) \in V
  BY <1>1, <1>2
<1> HIDE DEF H
<1>4. F \in [Node \X V -> V] /\ \A n \in Node, S \in V : F[<<n, S>>] = H(n, S)
  <2> HIDE DEF V
  <2> QED BY <1>3
<1>5. R(1) \in V /\ \A S : H(1, S) = R(1)
  BY <1>1, TreeDown DEF H
<1> HIDE DEF F, V
<1>6. PICK f \in [Node -> V] : TreeFunction(f, R(1), F)
  BY <1>4, <1>5, TreeRecursion
<1>7. \A n \in Node : f[n] = H(n, f[Parent[n]])
  <2> TAKE n \in Node
  <2>1. CASE n = 1
    BY <1>5, <1>6, <2>1 DEF TreeFunction
  <2>2. CASE n # 1
    <3>1. f[Parent[n]] \in V
      BY <1>6, <2>2, TreeDown
    <3> QED BY <1>4, <1>6, <2>2, <3>1 DEF TreeFunction
  <2> QED BY <2>1, <2>2
<1>8. f = [n \in Node |-> H(n, f[Parent[n]])]
  BY <1>6, <1>7
<1> DEFINE found == CHOOSE x : x = [n \in Node |-> H(n, x[Parent[n]])]
<1>9. found = [n \in Node |-> H(n, found[Parent[n]])]
  BY <1>8
<1>10. \A n \in Node : found[n] = H(n, found[Parent[n]])
  BY <1>9
<1>11. Discovered = {v \in (0..MaxKey) \X Node : v[1] \in found[v[2]]}
  BY DEF Discovered, H, R, G
<1> HIDE DEF found
<1>12. ASSUME NEW n \in Node PROVE found[n] \in V
  <2> DEFINE T == {m \in Node : found[m] \notin V}
  <2>1. ASSUME T # {} PROVE FALSE
    <3>1. PICK m \in T : \A y \in T : m <= y
      BY <2>1, LeastNat, TreeDown
    <3>2. m \in Node /\ m \in Nat /\ found[m] \notin V
      BY <3>1, TreeDown
    <3>3. CASE m = 1
      BY <1>5, <1>10, <3>2, <3>3
    <3>4. CASE m # 1
      <4>1. Parent[m] \in Node /\ Parent[m] \in Nat /\ ~(m <= Parent[m])
        BY <3>2, <3>4, TreeDown
      <4>2. found[Parent[m]] \in V
        BY <3>1, <4>1
      <4> QED BY <1>3, <1>10, <3>2, <4>2
    <3> QED BY <3>3, <3>4
  <2> QED BY <2>1
<1>13. \A n \in Node : \A k : <<k, n>> \in Discovered <=> k \in found[n]
  BY <1>11, <1>12 DEF V
<1>14. ASSUME NEW n \in Node, NEW k PROVE k \in R(n) <=> <<k, n>> \in Roots
  <2>1. \A r \in Roots : r = <<r[1], r[2]>>
    BY RootKeys
  <2> QED BY <1>2a, <2>1
<1>15. ASSUME NEW n \in Node, NEW k
       PROVE  <<k, n>> \in Discovered <=>
               \/ <<k, n>> \in Roots
               \/ n # 1 /\ \E g : <<g, Parent[n]>> \in Discovered /\ Entry(<<g, Parent[n]>>, n, k)
  <2>1. k \in found[n] <=> k \in R(n) \/ (n # 1 /\ k \in G(n, found[Parent[n]]))
    BY <1>10 DEF H
  <2>2. n # 1 => Parent[n] \in Node
    BY TreeDown
  <2>3. n # 1 => (k \in G(n, found[Parent[n]]) <=>
            \E g : <<g, Parent[n]>> \in Discovered /\ Entry(<<g, Parent[n]>>, n, k))
    BY <1>2b, <1>13, <2>2
  <2> QED BY <1>13, <1>14, <2>1, <2>3
<1> QED BY <1>11, <1>15

-----------------------------------------------------------------------------
(* RetiresUnreached. *)

\* While the old vaults are deleted, discovery finds no vault of the subtree
\* but the new ones, and none outside it but this machine's own.
LEMMA FoundAtRetire ==
  ASSUME Whole, at = "retire", NEW n \in Node, NEW k, <<k, n>> \in Discovered \cap Vaults
  PROVE  n \in Below(plan.path) => k = plan.new
<1>1. at \in Running
  BY DEF Running
<1>2. PICK p, new : p = plan.path /\ new = plan.new
  OBVIOUS
<1>3. /\ plan # NoPlan /\ p \in Node /\ plan.step = "linked" /\ Keeps
      /\ store.rekeyNew[p] = new /\ Joined /\ held \subseteq Node
  <2>1. plan # NoPlan /\ plan.step = "linked"
    BY <1>1, PlanIs DEF Whole, Flow
  <2>2. Joined
    BY <2>1, RankValues DEF Joined, Ranks
  <2> QED BY <1>1, <1>2, <2>1, <2>2, PlanIs DEF Whole, Keeps, KeysKept, LocalOK
<1>4. Roots = {<<store.node[m], m>> : m \in held \ Below(p)} \cup {<<new, p>>}
  <2>1. Rank[plan.step] >= Rank["linked"]
    BY <1>3, RankValues DEF Ranks
  <2> QED BY <1>2, <1>3, <2>1 DEF Roots
<1> DEFINE Good(m, g) == /\ m \in Below(p) => g = new
                         /\ m \notin Below(p) => held_root_for(m) # 0 /\ g = Own(m)
           T == {m \in Node : \E g : <<m, g>> \in {<<m, x>> : x \in 0..MaxKey}
                                     /\ <<g, m>> \in Discovered \cap Vaults /\ ~Good(m, g)}
<1>5. \A m \in Node : m \in T <=> \E g : <<g, m>> \in Discovered \cap Vaults /\ ~Good(m, g)
  <2>1. \A m \in Node : \A g : <<g, m>> \in Discovered => g \in 0..MaxKey
    BY <1>3, DiscoveredWorks
  <2> HIDE DEF Good
  <2> QED BY <2>1
<1>6. T \in SUBSET Node
  OBVIOUS
<1> HIDE DEF T
<1>7. ASSUME T # {} PROVE FALSE
  <2>1. PICK m \in T : \A y \in T : m <= y
    BY <1>6, <1>7, LeastNat, TreeDown
  <2>2. m \in Node /\ m \in Nat
    BY <1>6, <2>1, TreeDown
  <2>3. PICK g : <<g, m>> \in Discovered /\ <<g, m>> \in Vaults /\ ~Good(m, g)
    BY <1>5, <2>1, <2>2
  <2>4. CASE <<g, m>> \in Roots
    <3>1. CASE m = p /\ g = new
      BY <1>3, <2>3, <3>1, AboveStep DEF Below
    <3>2. CASE m \in held \ Below(p) /\ g = store.node[m]
      <4>1. held_root_for(m) = m /\ m # 0
        BY <2>2, <3>2, HeldRoot, TreeDown
      <4> QED BY <2>3, <3>2, <4>1 DEF Own
    <3> QED BY <1>4, <2>4, <3>1, <3>2
  <2>5. CASE m # 1 /\ \E x : <<x, Parent[m]>> \in Discovered /\ Entry(<<x, Parent[m]>>, m, g)
    <3>1. PICK x : <<x, Parent[m]>> \in Discovered /\ Entry(<<x, Parent[m]>>, m, g)
      BY <2>5
    <3>2. PICK w : w = <<x, Parent[m]>>
      OBVIOUS
    <3>3. Parent[m] \in Node /\ Parent[m] \in Nat /\ ~(m <= Parent[m]) /\ m \in Node \ {1}
      BY <2>2, <2>5, TreeDown
    <3>4. Parent[m] \notin T
      BY <2>1, <3>3
    <3>5. w \in Vaults /\ Good(Parent[m], x) /\ Entry(w, m, g) /\ w[1] = x
      <4> HIDE DEF Good
      <4> QED BY <1>5, <3>1, <3>2, <3>3, <3>4 DEF Entry
    <3>6. CASE m \in Below(p) /\ m # p
      <4>1. Parent[m] \in Below(p)
        BY <3>3, <3>6, AboveStep DEF Below
      <4>2. g = new
        BY <1>2, <1>3, <3>5, <4>1 DEF Whole, Places, NewTree, Entry
      <4> QED BY <2>3, <3>6, <4>2
    <3>7. CASE m \notin Below(p) \/ m = p
      <4>1. Parent[m] \in Node \ Below(p)
        BY <1>3, <3>3, <3>7, ParentOutside
      <4>2. held_root_for(Parent[m]) # 0 /\ w = above(m)
        BY <3>2, <3>5, <4>1 DEF above
      <4>3. CASE m = p
        <5>1. parent_held(p)
          BY <3>3, <4>2, <4>3 DEF parent_held
        <5>2. Linked(p, new)
          BY <1>2, <1>3, <5>1 DEF Whole, Places, LinkStays
        <5>3. g = new /\ m \in Below(p)
          BY <1>3, <3>5, <4>2, <4>3, <5>2, AboveStep DEF Linked, Entry, Below
        <5> QED BY <2>3, <5>3
      <4>4. CASE m \notin Below(p)
        <5>1. ~Skipped(m)
          BY <1>3 DEF Skipped
        <5>2. Leads(m, g)
          BY <3>3, <3>5, <4>2, <5>1 DEF Whole, Places, Lists
        <5>3. ~Gone(g)
          BY <2>3 DEF Gone
        <5>4. m # p
          BY <1>3, <4>4, AboveStep DEF Below
        <5>5. g = Own(m)
          BY <1>2, <5>2, <5>3, <5>4 DEF Leads
        <5>6. held_root_for(m) # 0
          <6>1. m \in held => m # 0 /\ held_root_for(m) = m
            BY <2>2, HeldRoot, TreeDown
          <6> QED BY <2>2, <3>3, <4>2, <6>1, HeldRoot
        <5> QED BY <2>3, <4>4, <5>5, <5>6
      <4> QED BY <3>7, <4>3, <4>4
    <3> QED BY <3>6, <3>7
  <2> QED BY <1>3, <2>2, <2>3, <2>4, <2>5, DiscoveredWorks
<1>8. Good(n, k)
  <2> HIDE DEF Good
  <2> QED BY <1>5, <1>7
<1> QED BY <1>2, <1>8

LEMMA RetireStep ==
  ASSUME Whole, [Next]_vars, at = "retire", left' # left, NEW v \in Vaults \ DOMAIN recs'
  PROVE  v \notin Discovered
<1>1. DOMAIN recs' # DOMAIN recs
  BY DEF Vaults
<1>2. retire
  <2>1. ~OthersNext /\ ~UNCHANGED vars
    BY DEF OthersNext, write, env_add, env_remove, put_lands, process, vars
  <2>2. ~seal_child_late /\ ~Interrupt /\ ~rekey_resume /\ ~abort_rekey
        /\ ~\E p \in Node : begin_rekey(p)
    BY <1>1 DEF seal_child_late, Interrupt, rekey_resume, abort_rekey, begin_rekey, server
  <2>3. RunNext
    BY <2>1, <2>2 DEF Next
  <2>4. ~retired
    BY <1>1 DEF retired, server
  <2> QED BY <2>3, <2>4 DEF RunNext, keep_old, keep_new, record_plan, run_rekey, create_vault,
        create_children, created, open_old, copy_from, copy_version, list_children, migrated, detached,
        seal_child, linked, store_key, finish_rekey, save_state, drop_below, drop_old, drop_new,
        abort_vault, forget_plan
<1>3. at \in Running
  BY DEF Running
<1>4. v = <<keys[deepest], deepest>>
  BY <1>1, <1>2 DEF retire, delete_vault, Without, Restrict, Vaults
<1>5. keys[deepest] # 0 /\ left # {}
  BY <1>1, <1>2 DEF retire
<1>6. deepest \in left /\ left \subseteq job.nodes
  BY <1>5, DeepestIn, Typed DEF Whole, Flow
<1>7. deepest \in Node /\ deepest \in Below(plan.path) /\ keys[deepest] = job.old[deepest]
  BY <1>3, <1>5, <1>6, PlanIs DEF Whole, Flow, SoundPlan
<1>8. keys[deepest] # plan.new
  <2>1. job.old[deepest] < job.new /\ job.new \in Key /\ plan.new = job.new
    BY <1>3, <1>7, PlanIs DEF SoundPlan
  <2>2. job.new \in Nat
    BY <2>1 DEF Key
  <2> QED BY <1>7, <2>1, <2>2
<1> QED BY <1>4, <1>7, <1>8, FoundAtRetire

\* A rekey never deletes a vault that discovery still reaches: whatever other
\* machines do meanwhile, however often it was interrupted, and though a link
\* whose sender gave up on it may land at any time.
THEOREM RetiresOnlyUnreached == Spec => RetiresUnreached
<1>1. Whole /\ [Next]_vars =>
        [at = "retire" /\ left' # left => \A v \in Vaults \ DOMAIN recs' : v \notin Discovered]_vars
  BY RetireStep
<1> QED BY <1>1, WholeInit, WholeNext, PTL DEF Spec, RetiresUnreached

-----------------------------------------------------------------------------
(* TreeWhole: records and their copies. *)

LEMMA SourceWorks ==
  ASSUME NEW s \in Seq(Version)
  PROVE  /\ source(s) \in Seq(Version) /\ Len(source(s)) <= Len(s)
         /\ source(source(s)) = source(s)
<1> DEFINE live(u) == {n \in DOMAIN u : ~u[n].tombstone}
<1>1. Len(s) \in Nat /\ DOMAIN s = 1..Len(s)
  OBVIOUS
<1>2. CASE live(s) = {}
  <2>1. source(s) = <<>>
    BY <1>2 DEF source
  <2>2. source(<<>>) = <<>>
    <3>1. DOMAIN <<>> = {}
      OBVIOUS
    <3> QED BY <3>1 DEF source
  <2> QED BY <1>1, <2>1, <2>2
<1>3. CASE live(s) # {}
  <2> DEFINE m == Min(live(s))
  <2>1. live(s) \in SUBSET Nat
    BY <1>1
  <2>2. m \in live(s)
    <3>1. \E x \in live(s) : \A y \in live(s) : x <= y
      BY <1>3, <2>1, LeastNat
    <3> HIDE DEF live
    <3> QED BY <3>1 DEF Min
  <2>3. m \in 1..Len(s) /\ ~s[m].tombstone
    BY <1>1, <2>2
  <2>4. source(s) = SubSeq(s, m, Len(s))
    BY <1>3 DEF source
  <2> HIDE DEF m, live
  <2> DEFINE t == SubSeq(s, m, Len(s))
  <2>5. /\ t \in Seq(Version) /\ Len(t) = Len(s) - m + 1 /\ t[1] = s[m] /\ DOMAIN t = 1..Len(t)
        /\ Len(t) \in Nat \ {0} /\ Len(t) <= Len(s)
    BY <1>1, <2>3
  <2> HIDE DEF t
  <2>6. 1 \in live(t) /\ live(t) \in SUBSET Nat /\ \A y \in live(t) : 1 <= y
    BY <2>3, <2>5 DEF live
  <2>7. Min(live(t)) = 1
    <3>1. \E x \in live(t) : \A y \in live(t) : x <= y
      BY <2>6
    <3>2. Min(live(t)) \in live(t) /\ \A y \in live(t) : Min(live(t)) <= y
      BY <3>1 DEF Min
    <3> QED BY <2>6, <3>2
  <2>8. source(t) = SubSeq(t, 1, Len(t))
    BY <2>6, <2>7 DEF source, live
  <2>9. SubSeq(t, 1, Len(t)) = t
    BY <2>5
  <2> QED BY <2>4, <2>5, <2>8, <2>9 DEF t
<1> QED BY <1>2, <1>3

\* The copy s has the first versions of t, and u is the rest of t.
Part(s, t) == s \in Seq(Version) /\ Len(s) <= Len(t) /\ \A i \in 1..Len(s) : s[i] = t[i]
Rest(u, s, t) == /\ u \in Seq(Version) /\ Len(u) = Len(t) - Len(s)
                 /\ \A i \in 1..Len(u) : u[i] = t[Len(s) + i]

LEMMA PartNone == ASSUME NEW t \in Seq(Version) PROVE Part(<<>>, t)
BY DEF Part

LEMMA PartStart ==
  ASSUME NEW t \in Seq(Version), NEW s, Part(s, t)
  PROVE  Rest(SubSeq(t, Len(s) + 1, Len(t)), s, t)
<1>1. Len(s) \in Nat /\ Len(t) \in Nat /\ Len(s) <= Len(t)
  BY DEF Part
<1> DEFINE u == SubSeq(t, Len(s) + 1, Len(t))
<1>2. u \in Seq(Version)
  BY <1>1
<1>3. Len(u) = Len(t) - Len(s)
  BY <1>1
<1>4. \A i \in 1..Len(u) : u[i] = t[Len(s) + i]
  BY <1>1, <1>3
<1> QED BY <1>2, <1>3, <1>4 DEF Rest

LEMMA PartNext ==
  ASSUME NEW t \in Seq(Version), NEW s, NEW u, Part(s, t), Rest(u, s, t), u # <<>>
  PROVE  /\ Part(Append(s, Head(u)), t) /\ Rest(Tail(u), Append(s, Head(u)), t)
         /\ Len(Append(s, Head(u))) <= Len(t)
<1>1. /\ s \in Seq(Version) /\ u \in Seq(Version) /\ Len(s) \in Nat /\ Len(t) \in Nat
      /\ Len(u) = Len(t) - Len(s) /\ Len(u) \in Nat
  BY DEF Part, Rest
<1>2. Len(u) > 0 /\ Head(u) = u[1] /\ Head(u) \in Version /\ Tail(u) \in Seq(Version)
  BY <1>1
<1>2a. u[1] = t[Len(s) + 1]
  BY <1>1, <1>2 DEF Rest
<1> DEFINE a == Append(s, Head(u))
<1>3. a \in Seq(Version) /\ Len(a) = Len(s) + 1
  BY <1>1, <1>2
<1>4. \A i \in 1..Len(a) : a[i] = IF i <= Len(s) THEN s[i] ELSE Head(u)
  BY <1>1, <1>2
<1>5. Len(a) <= Len(t)
  BY <1>1, <1>2, <1>3
<1>6. Len(Tail(u)) = Len(u) - 1 /\ \A i \in 1..(Len(u) - 1) : Tail(u)[i] = u[i + 1]
  BY <1>1, <1>2
<1> HIDE DEF a
<1>7. \A i \in 1..Len(a) : a[i] = t[i]
  <2> TAKE i \in 1..Len(a)
  <2>1. CASE i <= Len(s)
    BY <1>3, <1>4, <2>1 DEF Part
  <2>2. CASE ~(i <= Len(s))
    <3>1. i = Len(s) + 1
      BY <1>1, <1>3, <2>2
    <3> QED BY <1>2, <1>2a, <1>4, <2>2, <3>1
  <2> QED BY <2>1, <2>2
<1>8. Part(a, t)
  BY <1>3, <1>5, <1>7 DEF Part
<1>9. Rest(Tail(u), a, t)
  <2>1. Len(Tail(u)) = Len(t) - Len(a)
    BY <1>1, <1>3, <1>6
  <2>2. ASSUME NEW i \in 1..Len(Tail(u)) PROVE Tail(u)[i] = t[Len(a) + i]
    <3>1. i + 1 \in 1..Len(u) /\ Tail(u)[i] = u[i + 1]
      BY <1>1, <1>6
    <3>2. u[i + 1] = t[Len(s) + (i + 1)]
      BY <3>1 DEF Rest
    <3>3. Len(s) + (i + 1) = Len(a) + i
      BY <1>1, <1>3
    <3> QED BY <3>1, <3>2, <3>3
  <2> QED BY <1>2, <2>1, <2>2 DEF Rest
<1> QED BY <1>5, <1>8, <1>9 DEF a

LEMMA PartAll ==
  ASSUME NEW t \in Seq(Version), NEW s, Part(s, t), Rest(<<>>, s, t) PROVE s = t
<1>1. s \in Seq(Version) /\ Len(s) = Len(t) /\ \A i \in 1..Len(s) : s[i] = t[i]
  BY DEF Part, Rest
<1> QED BY <1>1

-----------------------------------------------------------------------------
(* TreeWhole: where everything is, while this machine is alone. *)

Kids(n) == {c \in DOMAIN truth \ {1} : Parent[c] = n}

Moved == plan # NoPlan /\ Rank[plan.step] >= Rank["linked"]

\* The key under which a node is found.
Home(n) == IF Moved /\ n \in Below(plan.path) THEN plan.new ELSE Own(n)

\* The link to the new subtree may have been written, and is not recorded.
Landing == plan # NoPlan /\ ~aborted /\ plan.step = "migrated"

\* What this machine reaches, and what its plans are about.
Reached ==
    /\ \E h \in First : h \in held /\ held \subseteq DOMAIN truth /\ DOMAIN truth = First \cap Below(h)
    /\ \A n \in DOMAIN truth : truth[n] \in Seq(Version) /\ Len(truth[n]) <= MaxVersions

PlansReach ==
    /\ plan # NoPlan => plan.nodes = DOMAIN truth \cap Below(plan.path)
    /\ job # NoPlan => job.nodes = DOMAIN truth \cap Below(job.path)
    /\ Before => \A n \in plan.nodes : plan.old[n] = Own(n)
    /\ at \in Starting => \A n \in job.nodes : job.old[n] = Own(n)

\* An abort that has begun ends.
AbortGoes ==
    /\ aborted /\ plan # NoPlan => at \in {"idle", "abort"} /\ Before
    /\ at = "abort" => aborted
    /\ at = "open_old" => left = job.nodes

Placed(n, v) == /\ v \in Vaults /\ source(recs[v]) = source(truth[n])
                /\ DOMAIN kids[v] = Kids(n)

LeadsHome(c, e) == e = Home(c) \/ (Landing /\ c = plan.path /\ e = plan.new)

\* Each node's vault has its record, and names its children's keys.
Tree ==
    \A n \in DOMAIN truth : \A v : v = <<Home(n), n>> =>
        /\ Placed(n, v)
        /\ \A c \in Kids(n) : \A e : e = kids[v][c] => LeadsHome(c, e)

Created(n) == \/ Rank[plan.step] >= Rank["created"]
              \/ at \in {"create", "create_children"} /\ n \notin left
Done(n) == \/ Rank[plan.step] >= Rank["migrated"]
           \/ at \in {"copy_from", "copy_version"} /\ n \notin left

\* How far the copy of a node has come.
Copied(n, v) ==
    /\ Created(n) => v \in Vaults
    /\ v \in Vaults => Part(recs[v], source(truth[n])) /\ DOMAIN kids[v] \subseteq Kids(n)
    /\ Done(n) => v \in Vaults /\ recs[v] = source(truth[n]) /\ DOMAIN kids[v] = Kids(n)
    /\ at = "create_children" /\ n = deepest => v \in Vaults
    /\ at = "copy_version" /\ n = deepest => v \in Vaults /\ Rest(todo, recs[v], source(truth[n]))

Copy ==
    plan # NoPlan /\ ~aborted =>
        \A n \in plan.nodes : \A v : v = <<plan.new, n>> => Copied(n, v)

Quiet == late = NoPut /\ Reached /\ PlansReach /\ AbortGoes /\ Tree /\ Copy

\* A node this machine reaches has a key, and so has its parent unless it is
\* where the machine's tree begins.
LEMMA ReachedNode ==
  ASSUME Reached, held \subseteq Node, NEW n \in DOMAIN truth
  PROVE  /\ n \in Node /\ held_root_for(n) # 0
         /\ n \notin held => n # 1 /\ Parent[n] \in DOMAIN truth
         /\ \A p \in DOMAIN truth : n \in Below(p) /\ n # p =>
               n # 1 /\ Parent[n] \in DOMAIN truth /\ Parent[n] \in Below(p)
<1>1. PICK h \in First : h \in held /\ held \subseteq DOMAIN truth /\ DOMAIN truth = First \cap Below(h)
  BY DEF Reached
<1>2. n \in First /\ n \in Node /\ h \in Above[n] /\ h \in Node
  BY <1>1, Numbers DEF Below
<1>3. held_root_for(n) # 0
  BY <1>1, <1>2, HeldRoot
<1>4. ASSUME n # h PROVE n # 1 /\ Parent[n] \in DOMAIN truth
  <2>1. n # 1
    BY <1>2, <1>4, AboveStep
  <2>2. Parent[n] \in First /\ Parent[n] \in Node
    BY <1>2, <2>1, RekeyAssumption, TreeDown
  <2>3. h \in Above[Parent[n]]
    BY <1>2, <1>4, <2>1, AboveStep
  <2> QED BY <1>1, <2>1, <2>2, <2>3 DEF Below
<1>5. ASSUME NEW p \in DOMAIN truth, n \in Below(p), n # p
      PROVE  n # 1 /\ Parent[n] \in DOMAIN truth /\ Parent[n] \in Below(p)
  <2>1. p \in Node /\ h \in Above[p] /\ p \in Above[n]
    BY <1>1, <1>5, Numbers DEF Below
  <2>2. n # h
    <3>1. h <= p /\ p <= n
      BY <1>2, <2>1, AboveSmaller
    <3> QED BY <1>2, <1>5, <2>1, <3>1, TreeDown
  <2>3. n # 1 /\ Parent[n] \in DOMAIN truth
    BY <1>4, <2>2
  <2>4. p \in Above[Parent[n]] /\ Parent[n] \in Node
    BY <1>2, <1>5, <2>1, <2>3, AboveStep, TreeDown
  <2> QED BY <2>3, <2>4 DEF Below
<1> QED BY <1>1, <1>2, <1>3, <1>4, <1>5

\* Above a reached node with a held node above its parent is a reached one.
LEMMA ReachedParent ==
  ASSUME Reached, held \subseteq Node, NEW n \in DOMAIN truth, n # 1, held_root_for(Parent[n]) # 0
  PROVE  Parent[n] \in DOMAIN truth /\ n \in Kids(Parent[n])
<1>1. PICK h \in First : h \in held /\ held \subseteq DOMAIN truth /\ DOMAIN truth = First \cap Below(h)
  BY DEF Reached
<1>2. n \in First /\ n \in Node
  BY <1>1, Numbers
<1>3. Parent[n] \in First /\ Parent[n] \in Node
  BY <1>2, RekeyAssumption, TreeDown
<1>4. PICK x : x \in held /\ x \in Above[Parent[n]]
  BY <1>3, HeldRoot
<1>5. h \in Above[x] /\ x \in Node
  BY <1>1, <1>4 DEF Below
<1>6. h \in Above[Parent[n]]
  BY <1>3, <1>4, <1>5, AboveTransitive
<1> QED BY <1>1, <1>3, <1>6 DEF Below, Kids

LEMMA ReachedBelow ==
  ASSUME Reached, held \subseteq Node, NEW n \in First, held_root_for(n) # 0
  PROVE  n \in DOMAIN truth
<1>1. PICK h \in First : h \in held /\ held \subseteq DOMAIN truth /\ DOMAIN truth = First \cap Below(h)
  BY DEF Reached
<1>2. n \in Node
  BY Numbers
<1>4. PICK x : x \in held /\ x \in Above[n]
  BY <1>2, HeldRoot
<1>5. h \in Above[x] /\ x \in Node
  BY <1>1, <1>4 DEF Below
<1>6. h \in Above[n]
  BY <1>2, <1>4, <1>5, AboveTransitive
<1> QED BY <1>1, <1>2, <1>6 DEF Below

\* The keys a reached node may be found under: its own, or the new one.
FoundAt(n, g) == g = Home(n) \/ (Landing /\ n \in Below(plan.path) /\ g = plan.new)

LEMMA LoneTyped ==
  ASSUME Whole, Quiet
  PROVE  /\ Keeps /\ held \subseteq Node /\ Reached /\ DOMAIN truth \subseteq Node
         /\ plan # NoPlan => plan \in Plan /\ plan.path \in DOMAIN truth /\ plan.path \in Node
                             /\ plan.nodes = DOMAIN truth \cap Below(plan.path) /\ plan.step \in Step
<1>1. Keeps /\ held \subseteq Node /\ Reached
  BY DEF Whole, Keeps, LocalOK, Quiet
<1>2. DOMAIN truth \subseteq Node
  BY <1>1, ReachedNode
<1>3. ASSUME plan # NoPlan
      PROVE  plan \in Plan /\ plan.path \in DOMAIN truth /\ plan.path \in Node
             /\ plan.nodes = DOMAIN truth \cap Below(plan.path) /\ plan.step \in Step
  <2>1. plan \in Plan
    BY <1>3 DEF Whole, Keeps, ProcessOK
  <2>2. plan.path \in plan.nodes /\ plan.nodes = DOMAIN truth \cap Below(plan.path)
    BY <1>3 DEF Whole, Places, PlansSound, SoundPlan, Quiet, PlansReach
  <2> QED BY <2>1, <2>2, PlanFields
<1> QED BY <1>1, <1>2, <1>3

LEMMA FoundVault ==
  ASSUME Whole, Quiet, NEW n \in DOMAIN truth, NEW g, FoundAt(n, g)
  PROVE  /\ <<g, n>> \in Vaults /\ source(recs[<<g, n>>]) = source(truth[n])
         /\ DOMAIN kids[<<g, n>>] = Kids(n)
         /\ \A c \in Kids(n) : FoundAt(c, kids[<<g, n>>][c])
<1>1. PICK v : v = <<g, n>>
  OBVIOUS
<1>2. CASE g = Home(n)
  <2>1. Placed(n, v) /\ \A c \in Kids(n) : LeadsHome(c, kids[v][c])
    BY <1>1, <1>2 DEF Quiet, Tree
  <2>2. \A c \in Kids(n) : FoundAt(c, kids[v][c])
    <3> TAKE c \in Kids(n)
    <3>1. CASE kids[v][c] = Home(c)
      BY <3>1 DEF FoundAt
    <3>2. CASE Landing /\ c = plan.path /\ kids[v][c] = plan.new
      <4>1. c \in Below(plan.path)
        <5>1. c \in Node
          BY LoneTyped DEF Kids
        <5> QED BY <3>2, <5>1, AboveStep DEF Below
      <4> QED BY <3>2, <4>1 DEF FoundAt
    <3> QED BY <2>1, <3>1, <3>2 DEF LeadsHome
  <2> QED BY <1>1, <2>1, <2>2 DEF Placed
<1>3. CASE Landing /\ n \in Below(plan.path) /\ g = plan.new
  <2>1. plan # NoPlan /\ ~aborted /\ plan.step = "migrated"
    BY <1>3 DEF Landing
  <2>2. n \in plan.nodes
    BY <1>3, <2>1, LoneTyped
  <2>3. Done(n)
    BY <2>1, RankValues DEF Done, Ranks
  <2>4. v \in Vaults /\ recs[v] = source(truth[n]) /\ DOMAIN kids[v] = Kids(n)
    BY <1>1, <1>3, <2>1, <2>2, <2>3 DEF Quiet, Copy, Copied
  <2>5. source(recs[v]) = source(truth[n])
    <3>1. truth[n] \in Seq(Version)
      BY LoneTyped DEF Reached
    <3> QED BY <2>4, <3>1, SourceWorks
  <2>6. ASSUME NEW c \in Kids(n) PROVE FoundAt(c, kids[v][c])
    <3>1. kids[v][c] = plan.new
      BY <1>1, <1>3, <2>1, <2>4 DEF Whole, Places, NewTree
    <3>2. c \in Node \ {1} /\ Parent[c] = n
      BY LoneTyped DEF Kids
    <3>3. c \in Below(plan.path)
      BY <1>3, <3>2, AboveStep DEF Below
    <3> QED BY <1>3, <3>1, <3>3 DEF FoundAt
  <2> QED BY <1>1, <2>4, <2>5, <2>6
<1> QED BY <1>2, <1>3 DEF FoundAt

LEMMA FoundRoots ==
  ASSUME Whole, Quiet, NEW n, NEW g
  PROVE  <<g, n>> \in Roots <=>
           \/ n \in held /\ ~(Moved /\ n \in Below(plan.path)) /\ g = store.node[n]
           \/ Moved /\ n = plan.path /\ g = plan.new
<1>1. Moved => store.rekeyNew[plan.path] = plan.new
  BY DEF Whole, Keeps, KeysKept, Moved
<1>2. Roots = {<<store.node[p], p>> : p \in IF Moved THEN held \ Below(plan.path) ELSE held}
                 \cup (IF Moved THEN {<<store.rekeyNew[plan.path], plan.path>>} ELSE {})
  BY DEF Roots, Moved
<1> HIDE DEF Moved
<1> QED BY <1>1, <1>2

LEMMA FoundOnly ==
  ASSUME Whole, Quiet, NEW n \in Node, NEW g, <<g, n>> \in Discovered
  PROVE  n \in DOMAIN truth /\ FoundAt(n, g)
<1>1. Keeps /\ held \subseteq Node /\ Reached /\ held \subseteq DOMAIN truth
  BY LoneTyped DEF Reached
<1> DEFINE Good(m, x) == m \in DOMAIN truth /\ FoundAt(m, x)
           T == {m \in Node : \E x \in 0..MaxKey : <<x, m>> \in Discovered /\ ~Good(m, x)}
<1>2. \A m \in Node : m \in T <=> \E x : <<x, m>> \in Discovered /\ ~Good(m, x)
  <2>1. \A m \in Node : \A x : <<x, m>> \in Discovered => x \in 0..MaxKey
    BY <1>1, DiscoveredWorks
  <2> HIDE DEF Good
  <2> QED BY <2>1
<1>3. T \in SUBSET Node
  OBVIOUS
<1> HIDE DEF T
<1>4. ASSUME T # {} PROVE FALSE
  <2>1. PICK m \in T : \A y \in T : m <= y
    BY <1>3, <1>4, LeastNat, TreeDown
  <2>2. m \in Node /\ m \in Nat
    BY <1>3, <2>1, TreeDown
  <2>3. PICK x : <<x, m>> \in Discovered /\ ~Good(m, x)
    BY <1>2, <2>1, <2>2
  <2>4. CASE <<x, m>> \in Roots
    <3>1. CASE m \in held /\ ~(Moved /\ m \in Below(plan.path)) /\ x = store.node[m]
      <4>1. held_root_for(m) = m
        BY <2>2, <3>1, HeldRoot
      <4>2. x = Home(m)
        BY <3>1, <4>1 DEF Home, Own
      <4> QED BY <1>1, <2>3, <3>1, <4>2 DEF FoundAt
    <3>2. CASE Moved /\ m = plan.path /\ x = plan.new
      <4>1. m \in DOMAIN truth /\ m \in Below(plan.path)
        BY <2>2, <3>2, LoneTyped, AboveStep DEF Moved, Below
      <4>2. x = Home(m)
        BY <3>2, <4>1 DEF Home
      <4> QED BY <2>3, <4>1, <4>2 DEF FoundAt
    <3> QED BY <2>4, <3>1, <3>2, FoundRoots
  <2>5. CASE m # 1 /\ \E y : <<y, Parent[m]>> \in Discovered /\ Entry(<<y, Parent[m]>>, m, x)
    <3>1. PICK y : <<y, Parent[m]>> \in Discovered /\ Entry(<<y, Parent[m]>>, m, x)
      BY <2>5
    <3>3. Parent[m] \in Node /\ Parent[m] \in Nat /\ ~(m <= Parent[m])
      BY <2>2, <2>5, TreeDown
    <3>4. Good(Parent[m], y)
      <4>1. Parent[m] \notin T
        BY <2>1, <3>3
      <4> HIDE DEF Good
      <4> QED BY <1>2, <3>1, <3>3, <4>1
    <3>5. m \in Kids(Parent[m]) /\ x = kids[<<y, Parent[m]>>][m]
      BY <3>1, <3>4, FoundVault DEF Entry
    <3>6. FoundAt(m, x) /\ m \in DOMAIN truth
      BY <3>4, <3>5, FoundVault DEF Kids
    <3> QED BY <2>3, <3>6
  <2> QED BY <1>1, <2>2, <2>3, <2>4, <2>5, DiscoveredWorks
<1> QED BY <1>2, <1>4

LEMMA FoundAll ==
  ASSUME Whole, Quiet, NEW n \in DOMAIN truth
  PROVE  \E g : <<g, n>> \in Discovered /\ FoundAt(n, g)
<1>1. Keeps /\ held \subseteq Node /\ Reached /\ DOMAIN truth \subseteq Node
  BY LoneTyped
<1> DEFINE Good(m) == \E g : <<g, m>> \in Discovered /\ FoundAt(m, g)
           T == {m \in DOMAIN truth : ~Good(m)}
<1>2. ASSUME T # {} PROVE FALSE
  <2>1. PICK m \in T : \A y \in T : m <= y
    BY <1>1, <1>2, LeastNat, TreeDown
  <2>2. m \in DOMAIN truth /\ m \in Node /\ m \in Nat /\ ~Good(m)
    BY <1>1, <2>1, TreeDown
  <2>3. CASE m \in held /\ ~(Moved /\ m \in Below(plan.path))
    <3>1. held_root_for(m) = m
      BY <2>2, <2>3, HeldRoot
    <3>2. Own(m) = Home(m) /\ Own(m) = store.node[m]
      BY <2>3, <3>1 DEF Home, Own
    <3>3. <<Own(m), m>> \in Roots
      BY <2>3, <3>2, FoundRoots
    <3>4. <<Own(m), m>> \in Discovered
      BY <1>1, <2>2, <3>3, DiscoveredWorks
    <3> QED BY <2>2, <3>2, <3>4 DEF FoundAt
  <2>4. CASE Moved /\ m = plan.path
    <3>1. plan.new = Home(m)
      BY <2>2, <2>4, AboveStep DEF Home, Below
    <3>2. <<plan.new, m>> \in Roots
      BY <2>4, FoundRoots
    <3>3. <<plan.new, m>> \in Discovered
      BY <1>1, <2>2, <3>2, DiscoveredWorks
    <3> QED BY <2>2, <3>1, <3>3 DEF FoundAt
  <2>5. CASE m \notin held \/ (Moved /\ m \in Below(plan.path) /\ m # plan.path)
    <3>1. m # 1 /\ Parent[m] \in DOMAIN truth
      <4>1. Moved => plan.path \in DOMAIN truth
        BY LoneTyped DEF Moved
      <4> QED BY <1>1, <2>2, <2>5, <4>1, ReachedNode
    <3>2. Parent[m] \in Node /\ Parent[m] \in Nat /\ ~(m <= Parent[m])
      BY <2>2, <3>1, TreeDown
    <3>3. Good(Parent[m])
      BY <2>1, <3>1, <3>2
    <3>4. PICK y : <<y, Parent[m]>> \in Discovered /\ FoundAt(Parent[m], y)
      BY <3>3
    <3>5. m \in Kids(Parent[m])
      BY <2>2, <3>1 DEF Kids
    <3>6. PICK x : x = kids[<<y, Parent[m]>>][m]
      OBVIOUS
    <3>7. FoundAt(m, x) /\ Entry(<<y, Parent[m]>>, m, x)
      BY <3>1, <3>4, <3>5, <3>6, FoundVault DEF Entry
    <3>8. <<x, m>> \in Discovered
      BY <1>1, <2>2, <3>1, <3>4, <3>7, DiscoveredWorks
    <3> QED BY <2>2, <3>7, <3>8
  <2> QED BY <2>3, <2>4, <2>5
<1> QED BY <1>2

LEMMA QuietWhole == ASSUME Whole, Quiet PROVE TreeWhole
<1>1. NothingLost
  <2>1. ASSUME NEW n \in DOMAIN truth
        PROVE  \E v \in Discovered \cap Vaults : v[2] = n /\ source(recs[v]) = source(truth[n])
    <3>1. PICK g : <<g, n>> \in Discovered /\ FoundAt(n, g)
      BY FoundAll
    <3>2. <<g, n>> \in Vaults /\ source(recs[<<g, n>>]) = source(truth[n])
      BY <3>1, FoundVault
    <3> QED BY <3>1, <3>2
  <2> QED BY <2>1 DEF NothingLost
<1>2. NothingDangles
  <2>1. ASSUME NEW v \in Discovered PROVE v \in Vaults
    <3>1. v \in (0..MaxKey) \X Node
      BY LoneTyped, DiscoveredWorks
    <3>2. PICK g \in 0..MaxKey, n \in Node : v = <<g, n>>
      BY <3>1
    <3>3. n \in DOMAIN truth /\ FoundAt(n, g)
      BY <3>2, FoundOnly
    <3> QED BY <3>2, <3>3, FoundVault
  <2> QED BY <2>1 DEF NothingDangles
<1> QED BY <1>1, <1>2 DEF TreeWhole

-----------------------------------------------------------------------------
(* What a step leaves where it is. *)

\* Before a rekey is linked, a node is found under the machine's own key.
LEMMA HomeBefore ==
  ASSUME Whole, Quiet, Before, NEW n \in DOMAIN truth
  PROVE  ~Moved /\ Home(n) = Own(n) /\ Home(n) # plan.new
<1>1. plan \in Plan /\ plan.step \in Step /\ plan # NoPlan
  BY LoneTyped DEF Before
<1>2. Rank[plan.step] \in 0..4 /\ Rank["linked"] = 3 /\ Rank["retired"] = 4
  BY <1>1, RankValues DEF Ranks
<1>3. ~Moved
  BY <1>2 DEF Moved, Before
<1>4. held_root_for(n) \in Node
  BY LoneTyped, ReachedNode, HeldRoot
<1>5. plan.step # "retired"
  BY <1>2 DEF Before
<1>6. Own(n) # plan.new
  BY <1>1, <1>4, <1>5 DEF Own, Whole, Places, NewUnused
<1> QED BY <1>3, <1>6 DEF Home

LEMMA HomeSame ==
  ASSUME UNCHANGED <<held, plan>>, store'.node = store.node, NEW n
  PROVE  Home(n)' = Home(n) /\ (Moved' <=> Moved)
<1>1. Own(n)' = Own(n)
  BY OwnSame
<1> QED BY <1>1 DEF Home, Moved, Below

LEMMA TreeKept ==
  ASSUME Tree, truth' = truth,
         \A n \in DOMAIN truth : Home(n)' = Home(n),
         \A n \in DOMAIN truth : \A v : v = <<Home(n), n>> /\ v \in Vaults =>
             v \in DOMAIN recs' /\ recs'[v] = recs[v] /\ kids'[v] = kids[v],
         Landing => Landing' /\ plan'.path = plan.path /\ plan'.new = plan.new
  PROVE  Tree'
<1>1. ASSUME NEW n \in DOMAIN truth, NEW v, v = <<Home(n)', n>>
      PROVE  /\ Placed(n, v)'
             /\ \A c \in Kids(n)' : \A e : e = kids'[v][c] => LeadsHome(c, e)'
  <2>1. v = <<Home(n), n>>
    BY <1>1
  <2>2. Placed(n, v) /\ \A c \in Kids(n) : \A e : e = kids[v][c] => LeadsHome(c, e)
    BY <2>1 DEF Tree
  <2>3. v \in DOMAIN recs' /\ recs'[v] = recs[v] /\ kids'[v] = kids[v]
    BY <2>1, <2>2 DEF Placed
  <2>4. Kids(n)' = Kids(n)
    BY DEF Kids
  <2>5. Placed(n, v)'
    BY <2>2, <2>3, <2>4 DEF Placed, Vaults
  <2>6. ASSUME NEW c \in Kids(n), NEW e, e = kids[v][c] PROVE LeadsHome(c, e)'
    <3>1. LeadsHome(c, e) /\ c \in DOMAIN truth
      BY <2>2, <2>6 DEF Kids
    <3>2. Home(c)' = Home(c)
      BY <3>1
    <3> HIDE DEF Landing
    <3> QED BY <3>1, <3>2 DEF LeadsHome
  <2> QED BY <2>3, <2>4, <2>5, <2>6
<1>2. DOMAIN truth' = DOMAIN truth
  OBVIOUS
<1> QED BY <1>1, <1>2 DEF Tree

LEMMA ReachKept ==
  ASSUME PlansReach, UNCHANGED <<held, truth>>, store'.node = store.node, Follows,
         Before' => Before /\ SamePlan(plan', plan),
         at' \in Starting => at \in Starting /\ job' = job
  PROVE  PlansReach'
<1>1. \A n : Own(n)' = Own(n)
  BY OwnSame
<1>2. plan' # NoPlan => plan'.nodes = DOMAIN truth' \cap Below(plan'.path)
  BY DEF PlansReach, Follows, SamePlan
<1>3. job' # NoPlan => job'.nodes = DOMAIN truth' \cap Below(job'.path)
  BY DEF PlansReach, Follows, SamePlan
<1>4. Before' => \A n \in plan'.nodes : plan'.old[n] = Own(n)'
  <2> HIDE DEF Before
  <2> QED BY <1>1 DEF PlansReach, SamePlan
<1>5. at' \in Starting => \A n \in job'.nodes : job'.old[n] = Own(n)'
  BY <1>1 DEF PlansReach
<1>6. Below(plan.path)' = Below(plan'.path) /\ Below(job.path)' = Below(job'.path)
  BY DEF Below
<1> QED BY <1>2, <1>3, <1>4, <1>5, <1>6 DEF PlansReach

\* A command that asks nothing of the server, and goes on or ends.
LEMMA QuietStill ==
  ASSUME Whole, Quiet, Follows, AbortGoes',
         UNCHANGED <<recs, kids, late, plan, held, truth, aborted>>, store'.node = store.node,
         at' \in Starting => at \in Starting /\ job' = job,
         plan # NoPlan => at' \notin {"create_children", "copy_version"},
         plan # NoPlan => \A n \in plan.nodes : at' \in {"create", "copy_from"} => n \in left'
  PROVE  Quiet'
<1>1. Reached'
  BY DEF Quiet, Reached, Below
<1>2. PlansReach'
  <2>1. Before' => Before /\ SamePlan(plan', plan)
    BY DEF Before, SamePlan
  <2> QED BY <2>1, ReachKept DEF Quiet
<1>3. Tree'
  <2>1. \A n \in DOMAIN truth : Home(n)' = Home(n)
    BY HomeSame
  <2>2. Landing => Landing'
    BY DEF Landing
  <2>3. Tree
    BY DEF Quiet
  <2> QED BY <2>1, <2>2, <2>3, TreeKept DEF Vaults
<1>4. Copy'
  <2> SUFFICES ASSUME plan # NoPlan, ~aborted, NEW n \in plan.nodes, NEW v, v = <<plan.new, n>>
               PROVE  Copied(n, v)'
    BY DEF Copy
  <2>1. Copied(n, v)
    BY DEF Quiet, Copy
  <2>2. Kids(n)' = Kids(n) /\ Vaults' = Vaults
    BY DEF Kids, Vaults
  <2>3. Created(n)' => Created(n)
    BY DEF Created
  <2>4. Done(n)' => Done(n)
    BY DEF Done
  <2> QED BY <2>1, <2>2, <2>3, <2>4 DEF Copied
<1> QED BY <1>1, <1>2, <1>3, <1>4 DEF Quiet

LEMMA Going == ASSUME Whole, Quiet, at \in Running, at # "abort" PROVE ~aborted
<1>1. plan # NoPlan /\ at # "idle"
  BY PlanIs
<1> QED BY <1>1 DEF Quiet, AbortGoes

LEMMA QuietEnds ==
  ASSUME Whole, Quiet, End, UNCHANGED <<recs, kids, late, plan, held, truth, aborted>>,
         store'.node = store.node
  PROVE  Quiet'
<1>1. Follows
  BY DEF Follows, SamePlan, End
<1>2. AbortGoes'
  BY DEF AbortGoes, Quiet, End, Before
<1>3. at' = "idle"
  BY DEF End
<1> QED BY <1>1, <1>2, <1>3, QuietStill DEF Starting

\* A command that goes on with its plan, and asks nothing of the server.
LEMMA QuietGoes ==
  ASSUME Whole, Quiet, at \in Running, at # "abort", at' \in Running,
         at' \notin {"abort", "create_children", "copy_version"}, job' = job,
         at' \in {"create", "open_old", "copy_from"} => left' = job.nodes,
         UNCHANGED <<recs, kids, late, plan, held, truth, aborted>>, store'.node = store.node
  PROVE  Quiet'
<1>1. Follows
  BY PlanIs DEF Follows, SamePlan
<1>2. AbortGoes'
  BY Going DEF AbortGoes
<1>3. at' \notin Starting
  BY DEF Running, Starting
<1>4. \A n \in plan.nodes : at' \in {"create", "copy_from"} => n \in left'
  BY PlanIs
<1> QED BY <1>1, <1>2, <1>3, <1>4, QuietStill

LEMMA QuietKeepKeys == ASSUME Whole, Quiet, keep_old \/ keep_new PROVE Quiet'
<1>1. /\ at # "idle" /\ at \in Starting /\ at' \in {"keep_new", "record_plan"} /\ job' = job
      /\ UNCHANGED <<recs, kids, late, plan, held, truth, aborted>>
  BY DEF keep_old, keep_new, Goto, Starting, server, ghosts
<1>2. store'.node = store.node
  <2>1. store \in Store
    BY DEF Whole, Keeps, LocalOK
  <2> QED BY <2>1 DEF Store, keep_old, keep_new
<1>3. plan = NoPlan
  BY <1>1 DEF Whole, Keeps, Control
<1>4. Follows
  BY <1>1, <1>3, JobStill DEF Follows
<1>5. AbortGoes'
  BY <1>1, <1>3 DEF AbortGoes
<1> QED BY <1>1, <1>2, <1>3, <1>4, <1>5, QuietStill

LEMMA QuietDrop == ASSUME Whole, Quiet, drop_old \/ drop_new PROVE Quiet'
<1>1. /\ at # "idle" /\ at \in Ending /\ at' \in {"drop_new", "idle"} /\ job' \in {job, NoPlan}
      /\ UNCHANGED <<recs, kids, late, plan, held, truth, aborted>>
  BY DEF drop_old, drop_new, Goto, End, Ending, server, ghosts
<1>2. store'.node = store.node
  <2>1. store \in Store
    BY DEF Whole, Keeps, LocalOK
  <2> QED BY <2>1 DEF Store, drop_old, drop_new
<1>3. plan = NoPlan
  BY <1>1 DEF Whole, Keeps, Control
<1>4. Follows
  BY <1>1, <1>3, JobStill DEF Follows
<1>5. AbortGoes'
  BY <1>1, <1>3 DEF AbortGoes
<1> QED BY <1>1, <1>2, <1>3, <1>4, <1>5, QuietStill DEF Starting

LEMMA QuietResume ==
  ASSUME Whole, Quiet, "resume_aborted" \notin load.others, rekey_resume PROVE Quiet'
<1>1. /\ at' = "run_rekey" /\ job' = plan /\ plan # NoPlan /\ ~aborted
      /\ UNCHANGED <<recs, kids, late, plan, held, truth, aborted, store>>
  BY DEF rekey_resume, Goto, server, local, ghosts
<1>2. Follows
  BY <1>1 DEF Follows, SamePlan
<1>3. AbortGoes'
  BY <1>1 DEF AbortGoes
<1> QED BY <1>1, <1>2, <1>3, QuietStill DEF Starting

LEMMA QuietRuns == ASSUME Whole, Quiet, run_rekey \/ open_old \/ detached \/ Interrupt PROVE Quiet'
<1>1. at # "idle" /\ UNCHANGED <<recs, kids, late, plan, held, truth, aborted, store>>
  BY DEF run_rekey, open_old, detached, Interrupt, server, local, ghosts
<1>2. CASE End
  BY <1>1, <1>2, QuietEnds
<1>3. CASE ~End
  <2>1. at \in {"run_rekey", "open_old", "open_retired", "link_parent"} /\ job' = job
    BY <1>3 DEF run_rekey, open_old, detached, Interrupt, End
  <2>2. at \in Running /\ at # "abort"
    BY <2>1 DEF Running
  <2>3. job.step \in Step
    BY <1>1, JobFields DEF Whole
  <2>4. at' \in {"create", "open_old", "link_parent", "open_retired", "store_key", "copy_from",
                 "retire", "linked"}
    BY <1>3, <2>3 DEF run_rekey, open_old, detached, Interrupt, End, Goto, Step
  <2>5. at' \in {"create", "open_old", "copy_from"} => left' = job.nodes
    BY <1>3, <2>3 DEF run_rekey, open_old, detached, Interrupt, End, Goto, Quiet, AbortGoes
  <2> QED BY <1>1, <2>1, <2>2, <2>4, <2>5, QuietGoes DEF Running
<1> QED BY <1>2, <1>3

-----------------------------------------------------------------------------
(* The new subtree is built beside the old one. *)

LEMMA QuietNew ==
  ASSUME Whole, Quiet, Before, at \in Running, at' \in Running, SamePlan(job', job),
         UNCHANGED <<late, plan, held, truth, aborted>>, store'.node = store.node,
         \A v \in Vaults : v[1] # plan.new =>
             v \in DOMAIN recs' /\ recs'[v] = recs[v] /\ kids'[v] = kids[v],
         AbortGoes', Copy'
  PROVE  Quiet'
<1>1. Reached'
  BY DEF Quiet, Reached, Below
<1>2. PlansReach'
  <2>1. Before' => Before /\ SamePlan(plan', plan)
    BY DEF Before, SamePlan
  <2>2. Follows
    BY PlanIs DEF Follows, SamePlan
  <2>3. at' \notin Starting
    BY DEF Running, Starting
  <2> QED BY <2>1, <2>2, <2>3, ReachKept DEF Quiet
<1>3. Tree'
  <2>1. \A n \in DOMAIN truth : Home(n)' = Home(n)
    BY HomeSame
  <2>2. Landing => Landing'
    BY DEF Landing
  <2>3. Tree
    BY DEF Quiet
  <2>4. ASSUME NEW n \in DOMAIN truth, NEW v, v = <<Home(n), n>>, v \in Vaults
        PROVE  v \in DOMAIN recs' /\ recs'[v] = recs[v] /\ kids'[v] = kids[v]
    <3>1. v[1] # plan.new
      BY <2>4, HomeBefore
    <3> QED BY <2>4, <3>1
  <2> QED BY <2>1, <2>2, <2>3, <2>4, TreeKept
<1> QED BY <1>1, <1>2, <1>3 DEF Quiet

\* While the new subtree is built its plan is not linked, and not aborted.
LEMMA Building ==
  ASSUME Whole, Quiet, at \in {"create", "create_children", "copy_from", "copy_version"}
  PROVE  /\ at \in Running /\ ~aborted /\ Before /\ plan # NoPlan
         /\ plan.step = IF at \in {"create", "create_children"} THEN "planned" ELSE "created"
         /\ left \subseteq plan.nodes /\ plan.nodes = DOMAIN truth \cap Below(plan.path)
         /\ \A n \in plan.nodes : truth[n] \in Seq(Version) /\ Len(truth[n]) <= MaxVersions
                                  /\ source(truth[n]) \in Seq(Version)
                                  /\ Len(source(truth[n])) <= MaxVersions
<1>1. at \in Running /\ at # "abort"
  BY DEF Running
<1>2. ~aborted /\ plan # NoPlan
  BY <1>1, Going, PlanIs
<1>3. plan.step = IF at \in {"create", "create_children"} THEN "planned" ELSE "created"
  BY <1>1, PlanIs DEF Whole, Flow
<1>4. Before
  BY <1>2, <1>3, RankValues DEF Before, Ranks
<1>5. left \subseteq plan.nodes
  BY <1>1, PlanIs DEF Whole, Flow
<1>6. plan.nodes = DOMAIN truth \cap Below(plan.path)
  BY <1>2, LoneTyped
<1>7. ASSUME NEW n \in plan.nodes
      PROVE  truth[n] \in Seq(Version) /\ Len(truth[n]) <= MaxVersions
             /\ source(truth[n]) \in Seq(Version) /\ Len(source(truth[n])) <= MaxVersions
  <2>1. truth[n] \in Seq(Version) /\ Len(truth[n]) <= MaxVersions
    BY <1>6 DEF Quiet, Reached
  <2>2. source(truth[n]) \in Seq(Version) /\ Len(source(truth[n])) <= Len(truth[n])
    BY <2>1, SourceWorks
  <2>3. Len(truth[n]) \in Nat /\ Len(source(truth[n])) \in Nat /\ MaxVersions \in Nat
    BY <2>1, <2>2, Numbers
  <2> QED BY <2>1, <2>2, <2>3
<1> QED BY <1>1, <1>2, <1>3, <1>4, <1>5, <1>6, <1>7

LEMMA QuietCreate == ASSUME Whole, Quiet, create_vault PROVE Quiet'
<1>1. /\ at = "create" /\ at' \in {"create", "create_children"} /\ job' = job /\ left # {}
      /\ UNCHANGED <<late, plan, held, store, truth, aborted>>
  BY DEF create_vault, Goto, server, local, ghosts
<1>2. PICK d, w : d = deepest /\ w = <<job.new, d>>
  OBVIOUS
<1>3. /\ ~aborted /\ Before /\ plan # NoPlan /\ plan.step = "planned" /\ at \in Running
      /\ left \subseteq plan.nodes
  BY <1>1, Building
<1>4. d \in left /\ d \in plan.nodes /\ w = <<plan.new, d>>
  BY <1>1, <1>2, <1>3, DeepestIn, PlanIs, Typed DEF Whole
<1>5. \/ w \in Vaults /\ left' = left \ {d} /\ at' = "create" /\ UNCHANGED <<recs, kids>>
      \/ /\ w \notin Vaults /\ left' = left /\ at' = "create_children"
         /\ recs' = With(recs, w, <<>>) /\ kids' = With(kids, w, <<>>)
  BY <1>1, <1>2 DEF create_vault, server, Goto
<1>6. ServerOK
  BY DEF Whole, Keeps
<1>7. \A v \in Vaults : v \in DOMAIN recs' /\ recs'[v] = recs[v] /\ kids'[v] = kids[v]
  BY <1>5, <1>6 DEF With, Vaults, ServerOK
<1>8. DOMAIN recs' \subseteq Vaults \cup {w} /\ w \in DOMAIN recs'
      /\ (w \notin Vaults => recs'[w] = <<>> /\ kids'[w] = <<>>)
  BY <1>5, <1>6 DEF With, Vaults, ServerOK
<1>9. Copy'
  <2> SUFFICES ASSUME NEW n \in plan.nodes, NEW v, v = <<plan.new, n>> PROVE Copied(n, v)'
    BY <1>1 DEF Copy
  <2>1. Copied(n, v)
    BY <1>3 DEF Quiet, Copy
  <2>2. Kids(n)' = Kids(n) /\ source(truth[n]) \in Seq(Version)
    BY <1>1, Building DEF Kids
  <2>3. Rank["planned"] = 0 /\ Rank["created"] = 1 /\ Rank["migrated"] = 2
    BY RankValues DEF Ranks
  <2>4. ~Done(n)'
    BY <1>1, <1>3, <2>3 DEF Done
  <2>5. Created(n)' => n \notin left'
    BY <1>1, <1>3, <2>3 DEF Created
  <2>6. n # d /\ Created(n)' => Created(n)
    BY <1>1, <1>5, <2>5 DEF Created
  <2>7. CASE n = d
    <3>1. v = w
      BY <1>4, <2>7
    <3>2. v \in DOMAIN recs' /\ Part(recs'[v], source(truth[n])) /\ DOMAIN kids'[v] \subseteq Kids(n)
      <4>1. CASE v \in Vaults
        BY <1>7, <2>1, <4>1 DEF Copied
      <4>2. CASE v \notin Vaults
        <5>1. recs'[v] = <<>> /\ kids'[v] = <<>> /\ DOMAIN <<>> = {}
          BY <1>8, <3>1, <4>2
        <5>2. v \in DOMAIN recs' /\ Part(<<>>, source(truth[n]))
          BY <1>8, <2>2, <3>1, PartNone
        <5> QED BY <5>1, <5>2
      <4> QED BY <4>1, <4>2
    <3> QED BY <1>1, <2>2, <2>4, <3>2 DEF Copied, Vaults
  <2>8. CASE n # d
    <3>1. v # w
      BY <1>4, <2>8
    <3>2. v \in DOMAIN recs' <=> v \in Vaults
      BY <1>7, <1>8, <3>1
    <3>3. ~(at' = "create_children" /\ n = deepest')
      BY <1>2, <1>5, <2>8 DEF deepest
    <3> QED BY <1>1, <1>7, <2>1, <2>2, <2>4, <2>6, <2>8, <3>2, <3>3 DEF Copied, Vaults
  <2> QED BY <2>7, <2>8
<1>10. AbortGoes'
  BY <1>1, <1>3 DEF AbortGoes
<1>11. at' \in Running /\ SamePlan(job', job)
  BY <1>1 DEF Running, SamePlan
<1> QED BY <1>1, <1>3, <1>7, <1>9, <1>10, <1>11, QuietNew

LEMMA QuietCreateChildren == ASSUME Whole, Quiet, create_children PROVE Quiet'
<1>1. /\ at = "create_children" /\ at' = "create" /\ job' = job
      /\ UNCHANGED <<recs, late, plan, held, store, truth, aborted>>
  BY DEF create_children, Goto, local, ghosts
<1>2. PICK d, w : d = deepest /\ w = <<job.new, d>>
  OBVIOUS
<1>3. /\ ~aborted /\ Before /\ plan # NoPlan /\ plan.step = "planned" /\ at \in Running
      /\ left \subseteq plan.nodes
  BY <1>1, Building
<1>4. left' = left \ {d} /\ w = <<plan.new, d>> /\ kids' = [kids EXCEPT ![w] = <<>>]
  BY <1>2, <1>3, PlanIs DEF create_children, put_children
<1>5. DOMAIN kids = Vaults
  BY DEF Whole, Keeps, ServerOK
<1>6. \A v \in Vaults : kids'[v] = IF v = w THEN <<>> ELSE kids[v]
  BY <1>4, <1>5
<1>7. \A v \in Vaults : v[1] # plan.new =>
          v \in DOMAIN recs' /\ recs'[v] = recs[v] /\ kids'[v] = kids[v]
  BY <1>1, <1>4, <1>6 DEF Vaults
<1>8. Copy'
  <2> SUFFICES ASSUME NEW n \in plan.nodes, NEW v, v = <<plan.new, n>> PROVE Copied(n, v)'
    BY <1>1 DEF Copy
  <2>1. Copied(n, v)
    BY <1>3 DEF Quiet, Copy
  <2>2. Kids(n)' = Kids(n) /\ Vaults' = Vaults
    BY <1>1 DEF Kids, Vaults
  <2>3. Rank["planned"] = 0 /\ Rank["created"] = 1 /\ Rank["migrated"] = 2
    BY RankValues DEF Ranks
  <2>4. ~Done(n)'
    BY <1>1, <1>3, <2>3 DEF Done
  <2>5. Created(n)' => v \in Vaults
    <3>1. Created(n)' => n \notin left'
      BY <1>1, <1>3, <2>3 DEF Created
    <3>2. n # d /\ Created(n)' => Created(n)
      BY <1>1, <1>4, <3>1 DEF Created
    <3> QED BY <1>1, <1>2, <2>1, <3>2 DEF Copied
  <2>6. v \in Vaults => DOMAIN kids'[v] \subseteq Kids(n)
    <3>1. DOMAIN <<>> = {}
      OBVIOUS
    <3> QED BY <1>6, <2>1, <3>1 DEF Copied
  <2> QED BY <1>1, <2>1, <2>2, <2>4, <2>5, <2>6 DEF Copied
<1>9. AbortGoes'
  BY <1>1, <1>3 DEF AbortGoes
<1>10. at' \in Running /\ SamePlan(job', job)
  BY <1>1 DEF Running, SamePlan
<1> QED BY <1>1, <1>3, <1>7, <1>8, <1>9, <1>10, QuietNew

\* The old vault a node is copied from has its record.
LEMMA CopiesHome ==
  ASSUME Whole, Quiet, at \in {"copy_from", "copy_version"}, NEW d \in plan.nodes,
         NEW v, v = <<keys[d], d>>, v \in Vaults
  PROVE  v[1] # plan.new /\ source(recs[v]) = source(truth[d])
<1>1. Before /\ at \in Running /\ d \in DOMAIN truth /\ d \in Node
  BY Building, LoneTyped
<1>2. keys[d] \in {0, job.old[d]} /\ d \in job.nodes
  BY <1>1, PlanIs DEF Whole, Flow
<1>3. keys[d] \in Key
  <2>1. v[1] \in Key
    BY EntryOK DEF Whole, Keeps
  <2> QED BY <2>1
<1>4. keys[d] = plan.old[d]
  <2>1. 0 \notin Key
    BY DEF Key
  <2> QED BY <1>1, <1>2, <1>3, <2>1, PlanIs
<1>5. plan.old[d] = Own(d)
  BY <1>1 DEF Quiet, PlansReach
<1>6. v = <<Home(d), d>> /\ Home(d) # plan.new
  BY <1>1, <1>4, <1>5, HomeBefore
<1> QED BY <1>1, <1>6 DEF Quiet, Tree, Placed

LEMMA QuietCopyFrom == ASSUME Whole, Quiet, copy_from PROVE Quiet'
<1>1. /\ at = "copy_from" /\ left # {}
      /\ UNCHANGED <<recs, kids, late, plan, held, store, truth, aborted>>
  BY DEF copy_from, server, local, ghosts
<1>2. CASE End
  BY <1>1, <1>2, QuietEnds
<1>3. CASE ~End
  <2>1. PICK d, v, w : d = deepest /\ v = <<keys[d], d>> /\ w = <<job.new, d>>
    OBVIOUS
  <2>2. /\ v \in Vaults /\ w \in Vaults /\ at' = "copy_version" /\ job' = job /\ left' = left
        /\ todo' = SubSeq(source(recs[v]), Len(recs[w]) + 1, Len(source(recs[v])))
    BY <1>3, <2>1 DEF copy_from, Goto
  <2>3. ~aborted /\ Before /\ plan # NoPlan /\ plan.step = "created" /\ at \in Running
        /\ left \subseteq plan.nodes
    BY <1>1, Building
  <2>4. d \in left /\ d \in plan.nodes /\ w = <<plan.new, d>>
    BY <1>1, <2>1, <2>3, DeepestIn, PlanIs, Typed DEF Whole
  <2>5. source(recs[v]) = source(truth[d]) /\ source(truth[d]) \in Seq(Version)
    BY <1>1, <2>1, <2>2, <2>4, CopiesHome, Building
  <2>6. Part(recs[w], source(truth[d]))
    BY <2>2, <2>3, <2>4 DEF Quiet, Copy, Copied
  <2>7. Rest(todo', recs[w], source(truth[d]))
    BY <2>2, <2>5, <2>6, PartStart
  <2>8. Copy'
    <3> SUFFICES ASSUME NEW n \in plan.nodes, NEW x, x = <<plan.new, n>> PROVE Copied(n, x)'
      BY <1>1 DEF Copy
    <3>1. Copied(n, x)
      BY <2>3 DEF Quiet, Copy
    <3>2. Kids(n)' = Kids(n) /\ Vaults' = Vaults /\ deepest' = d
      BY <1>1, <2>1, <2>2 DEF Kids, Vaults, deepest
    <3>3. (Created(n)' => Created(n)) /\ (Done(n)' => Done(n))
      BY <1>1, <2>2 DEF Created, Done
    <3>4. n = d => x = w
      BY <2>4
    <3> QED BY <1>1, <2>2, <2>7, <3>1, <3>2, <3>3, <3>4 DEF Copied
  <2>9. AbortGoes'
    BY <1>1, <2>2, <2>3 DEF AbortGoes
  <2>10. at' \in Running /\ SamePlan(job', job)
    BY <2>2 DEF Running, SamePlan
  <2>11. \A y \in Vaults : y \in DOMAIN recs' /\ recs'[y] = recs[y] /\ kids'[y] = kids[y]
    BY <1>1 DEF Vaults
  <2> QED BY <1>1, <2>3, <2>8, <2>9, <2>10, <2>11, QuietNew
<1> QED BY <1>2, <1>3

LEMMA QuietCopyVersion == ASSUME Whole, Quiet, copy_version PROVE Quiet'
<1>1. /\ at = "copy_version" /\ left # {} /\ todo # <<>>
      /\ UNCHANGED <<kids, late, plan, held, store, truth, aborted>>
  BY DEF copy_version, server, local, ghosts, Whole, Flow
<1>2. CASE End
  <2>1. UNCHANGED recs
    BY <1>1, <1>2 DEF copy_version, End
  <2> QED BY <1>1, <1>2, <2>1, QuietEnds
<1>3. CASE ~End
  <2>1. PICK d, w : d = deepest /\ w = <<job.new, d>>
    OBVIOUS
  <2>2. /\ w \in Vaults /\ at' = "copy_version" /\ job' = job /\ left' = left
        /\ recs' = [recs EXCEPT ![w] = pruned(Append(@, Head(todo)))] /\ todo' = Tail(todo)
    BY <1>1, <1>3, <2>1 DEF copy_version
  <2>3. ~aborted /\ Before /\ plan # NoPlan /\ plan.step = "created" /\ at \in Running
        /\ left \subseteq plan.nodes
    BY <1>1, Building
  <2>4. d \in left /\ d \in plan.nodes /\ w = <<plan.new, d>>
    BY <1>1, <2>1, <2>3, DeepestIn, PlanIs, Typed DEF Whole
  <2>5. PICK t : t = source(truth[d])
    OBVIOUS
  <2>6. t \in Seq(Version) /\ Len(t) <= MaxVersions
    BY <1>1, <2>4, <2>5, Building
  <2>7. Part(recs[w], t) /\ Rest(todo, recs[w], t)
    BY <1>1, <2>1, <2>2, <2>3, <2>4, <2>5 DEF Quiet, Copy, Copied
  <2>8. PICK a : a = Append(recs[w], Head(todo))
    OBVIOUS
  <2>9. Part(a, t) /\ Rest(Tail(todo), a, t) /\ Len(a) <= Len(t)
    BY <1>1, <2>6, <2>7, <2>8, PartNext
  <2>10. pruned(a) = a
    <3>1. a \in Seq(Version)
      BY <2>9 DEF Part
    <3>2. Len(a) \in Nat /\ Len(t) \in Nat /\ MaxVersions \in Nat
      BY <2>6, <3>1, Numbers
    <3>3. Len(a) <= MaxVersions
      BY <2>6, <2>9, <3>2
    <3> QED BY <3>1, <3>3, PrunedWorks
  <2>11. /\ DOMAIN recs' = Vaults
         /\ \A y \in Vaults : recs'[y] = IF y = w THEN a ELSE recs[y]
    BY <2>2, <2>8, <2>10 DEF Vaults
  <2>12. Copy'
    <3> SUFFICES ASSUME NEW n \in plan.nodes, NEW x, x = <<plan.new, n>> PROVE Copied(n, x)'
      BY <1>1 DEF Copy
    <3>1. Copied(n, x)
      BY <2>3 DEF Quiet, Copy
    <3>2. Kids(n)' = Kids(n) /\ Vaults' = Vaults /\ deepest' = d
      BY <1>1, <2>1, <2>2, <2>11 DEF Kids, Vaults, deepest
    <3>3. (Created(n)' => Created(n)) /\ (Done(n)' => Done(n))
      BY <1>1, <2>2 DEF Created, Done
    <3>4. CASE n = d
      <4>1. x = w /\ recs'[x] = a
        BY <2>2, <2>4, <2>11, <3>4
      <4>2. ~Done(n)'
        BY <1>1, <2>2, <2>3, <2>4, <3>4, RankValues DEF Done, Ranks
      <4> QED BY <1>1, <2>2, <2>5, <2>9, <3>1, <3>2, <3>3, <3>4, <4>1, <4>2 DEF Copied
    <3>5. CASE n # d
      <4>1. x # w
        BY <2>4, <3>5
      <4> QED BY <1>1, <2>2, <2>11, <3>1, <3>2, <3>3, <3>5, <4>1 DEF Copied
    <3> QED BY <3>4, <3>5
  <2>13. AbortGoes'
    BY <1>1, <2>2, <2>3 DEF AbortGoes
  <2>14. at' \in Running /\ SamePlan(job', job)
    BY <2>2 DEF Running, SamePlan
  <2>15. \A y \in Vaults : y[1] # plan.new =>
             y \in DOMAIN recs' /\ recs'[y] = recs[y] /\ kids'[y] = kids[y]
    BY <1>1, <2>4, <2>11
  <2> QED BY <1>1, <2>3, <2>12, <2>13, <2>14, <2>15, QuietNew
<1> QED BY <1>2, <1>3

LEMMA QuietListChildren == ASSUME Whole, Quiet, list_children PROVE Quiet'
<1>1. /\ at = "copy_version" /\ left # {} /\ todo = <<>>
      /\ UNCHANGED <<recs, late, plan, held, store, truth, aborted>>
  BY DEF list_children, local, ghosts, Whole, Flow
<1>2. PICK d, w : d = deepest /\ w = <<job.new, d>>
  OBVIOUS
<1>3. CASE w \notin Vaults
  <2>1. End /\ UNCHANGED kids
    BY <1>2, <1>3 DEF list_children
  <2> QED BY <1>1, <2>1, QuietEnds
<1>4. CASE w \in Vaults
  <2> DEFINE below == direct_children(job.nodes, d)
             record == [n \in below \cup DOMAIN children(w) |->
                           IF n \in DOMAIN children(w) THEN children(w)[n] ELSE job.new]
  <2>1. /\ at' = "copy_from" /\ job' = job /\ left' = left \ {d}
        /\ IF below # {} THEN put_children(w, record) ELSE UNCHANGED <<kids, kver>>
    BY <1>2, <1>4 DEF list_children, Goto
  <2>2. ~aborted /\ Before /\ plan # NoPlan /\ plan.step = "created" /\ at \in Running
        /\ left \subseteq plan.nodes /\ plan.nodes = DOMAIN truth \cap Below(plan.path)
    BY <1>1, Building
  <2>3. d \in left /\ d \in plan.nodes /\ w = <<plan.new, d>> /\ job.nodes = plan.nodes
    BY <1>1, <1>2, <2>2, DeepestIn, PlanIs, Typed DEF Whole
  <2>4. below = Kids(d)
    <3>1. d \in Below(plan.path) /\ DOMAIN truth \subseteq Node
      BY <2>2, <2>3, LoneTyped
    <3>2. ASSUME NEW c \in Kids(d) PROVE c \in Below(plan.path)
      <4>1. c \in Node \ {1} /\ Parent[c] = d
        BY <3>1, <3>2 DEF Kids
      <4> QED BY <3>1, <4>1, AboveStep DEF Below
    <3> QED BY <2>2, <2>3, <3>1, <3>2 DEF direct_children, Kids
  <2>5. DOMAIN record = below \cup DOMAIN kids[w]
    BY DEF children
  <2> HIDE DEF below, record
  <2>6. Copied(d, w)
    BY <2>2, <2>3 DEF Quiet, Copy
  <2>7. Part(recs[w], source(truth[d])) /\ DOMAIN kids[w] \subseteq Kids(d)
        /\ Rest(<<>>, recs[w], source(truth[d]))
    BY <1>1, <1>2, <1>4, <2>6 DEF Copied
  <2>8. recs[w] = source(truth[d])
    BY <1>1, <2>3, <2>7, Building, PartAll
  <2>9. DOMAIN kids = Vaults
    BY DEF Whole, Keeps, ServerOK
  <2>10. DOMAIN kids'[w] = Kids(d) /\ \A y \in Vaults : y # w => kids'[y] = kids[y]
    <3>1. CASE below # {}
      <4>1. kids' = [kids EXCEPT ![w] = record]
        BY <2>1, <3>1 DEF put_children
      <4> QED BY <1>4, <2>4, <2>5, <2>7, <2>9, <4>1
    <3>2. CASE below = {}
      BY <2>1, <2>4, <2>7, <3>2
    <3> QED BY <3>1, <3>2
  <2>11. Copy'
    <3> SUFFICES ASSUME NEW n \in plan.nodes, NEW x, x = <<plan.new, n>> PROVE Copied(n, x)'
      BY <1>1 DEF Copy
    <3>1. Copied(n, x)
      BY <2>2 DEF Quiet, Copy
    <3>2. Kids(n)' = Kids(n) /\ Vaults' = Vaults
      BY <1>1 DEF Kids, Vaults
    <3>3. CASE n = d
      <4>1. x = w
        BY <2>3, <3>3
      <4> QED BY <1>1, <1>4, <2>1, <2>7, <2>8, <2>10, <3>2, <3>3, <4>1 DEF Copied
    <3>4. CASE n # d
      <4>1. x # w
        BY <2>3, <3>4
      <4>2. (Created(n)' => Created(n)) /\ (Done(n)' => Done(n))
        BY <1>1, <2>1, <3>4 DEF Created, Done
      <4> QED BY <1>1, <2>1, <2>10, <3>1, <3>2, <4>1, <4>2 DEF Copied
    <3> QED BY <3>3, <3>4
  <2>12. AbortGoes'
    BY <1>1, <2>1, <2>2 DEF AbortGoes
  <2>13. at' \in Running /\ SamePlan(job', job)
    BY <2>1 DEF Running, SamePlan
  <2>14. \A y \in Vaults : y[1] # plan.new =>
             y \in DOMAIN recs' /\ recs'[y] = recs[y] /\ kids'[y] = kids[y]
    BY <1>1, <2>3, <2>10 DEF Vaults
  <2> QED BY <1>1, <2>2, <2>11, <2>12, <2>13, <2>14, QuietNew
<1> QED BY <1>3, <1>4

LEMMA DeleteWorks ==
  ASSUME ServerOK, NEW v, delete_vault(v)
  PROVE  /\ DOMAIN recs' = Vaults \ {v}
         /\ \A w \in Vaults \ {v} : recs'[w] = recs[w] /\ kids'[w] = kids[w]
BY DEF ServerOK, Vaults, delete_vault, Without, Restrict

LEMMA QuietAbortVault == ASSUME Whole, Quiet, abort_vault PROVE Quiet'
<1>1. /\ at = "abort" /\ at' = "abort" /\ job' = job
      /\ UNCHANGED <<late, plan, held, store, truth, aborted>>
      /\ delete_vault(<<job.new, deepest>>)
  BY DEF abort_vault, local, ghosts
<1>2. at \in Running /\ at' \in Running /\ SamePlan(job', job)
  BY <1>1 DEF Running, SamePlan
<1>3. aborted
  BY <1>1 DEF Quiet, AbortGoes
<1>4. Before
  BY <1>1, <1>2, PlanIs DEF Before, Whole, Flow
<1>5. \A v \in Vaults : v[1] # plan.new =>
          v \in DOMAIN recs' /\ recs'[v] = recs[v] /\ kids'[v] = kids[v]
  <2>1. PICK w : w = <<job.new, deepest>>
    OBVIOUS
  <2>2. \A v \in Vaults : v # w =>
          v \in DOMAIN recs' /\ recs'[v] = recs[v] /\ kids'[v] = kids[v]
    BY <1>1, <2>1, DeleteWorks DEF Whole, Keeps
  <2>3. w[1] = plan.new
    BY <1>2, <2>1, PlanIs
  <2> QED BY <2>2, <2>3
<1>6. Copy'
  BY <1>1, <1>3 DEF Copy
<1>7. AbortGoes'
  BY <1>1, <1>3, <1>4 DEF AbortGoes, Before
<1> QED BY <1>1, <1>2, <1>4, <1>5, <1>6, <1>7, QuietNew

-----------------------------------------------------------------------------
(* The recorded step. *)

LEMMA HomeAdvanced ==
  ASSUME held' = held, store'.node = store.node, SamePlan(plan', plan),
         plan # NoPlan, plan' # NoPlan, Moved' <=> Moved, NEW n
  PROVE  Home(n)' = Home(n)
<1>1. Own(n)' = Own(n)
  BY OwnSame
<1>2. Below(plan.path)' = Below(plan.path) /\ plan'.new = plan.new
  BY DEF SamePlan, Below
<1> HIDE DEF Moved
<1> QED BY <1>1, <1>2 DEF Home

\* What an advance does.
LEMMA Advances ==
  ASSUME Whole, Quiet, created \/ migrated \/ linked \/ retired
  PROVE  /\ at \in Running /\ at # "abort" /\ at' \in Running /\ at' # "abort" /\ at' \notin Starting
         /\ UNCHANGED <<recs, kids, late, held, store, truth, aborted>> /\ ~aborted
         /\ plan # NoPlan /\ plan' # NoPlan /\ SamePlan(plan', plan) /\ job' = plan' /\ Follows
         /\ left' = plan.nodes
         /\ Reached' /\ AbortGoes' /\ late' = NoPut /\ (Before' => Before)
         /\ \/ created /\ plan.step = "planned" /\ plan'.step = "created" /\ at' = "open_old"
            \/ migrated /\ plan.step = "created" /\ plan'.step = "migrated" /\ at' = "link_parent"
            \/ linked /\ plan.step = "migrated" /\ plan'.step = "linked" /\ at' = "open_retired"
            \/ retired /\ plan.step = "linked" /\ plan'.step = "retired" /\ at' = "store_key"
<1>1. at \in Running /\ at # "abort" /\ UNCHANGED <<recs, kids, late, held, store, truth, aborted>>
  BY DEF created, migrated, linked, retired, Running, server, ghosts
<1>2. PICK s \in Step, t \in Running : advance(s, t)
           /\ \/ created /\ s = "created" /\ t = "open_old" /\ at = "create"
              \/ migrated /\ s = "migrated" /\ t = "link_parent" /\ at = "copy_from"
              \/ linked /\ s = "linked" /\ t = "open_retired" /\ at = "linked"
              \/ retired /\ s = "retired" /\ t = "store_key" /\ at = "retire"
  BY DEF created, migrated, linked, retired, Running, Step
<1>3. /\ plan' \in Plan /\ plan'.path = job.path /\ plan'.nodes = job.nodes /\ plan'.old = job.old
      /\ plan'.new = job.new /\ plan'.step = s /\ job' = plan' /\ at' = t /\ left' = job.nodes
  BY <1>1, <1>2, PlanIs, PlanStep DEF advance, Goto
<1>4. plan' # NoPlan /\ plan # NoPlan /\ SamePlan(plan', plan) /\ left' = plan.nodes
  BY <1>1, <1>3, PlanIs, PlanNotNone DEF SamePlan
<1>5. \/ created /\ plan.step = "planned" /\ plan'.step = "created" /\ at' = "open_old"
      \/ migrated /\ plan.step = "created" /\ plan'.step = "migrated" /\ at' = "link_parent"
      \/ linked /\ plan.step = "migrated" /\ plan'.step = "linked" /\ at' = "open_retired"
      \/ retired /\ plan.step = "linked" /\ plan'.step = "retired" /\ at' = "store_key"
  BY <1>1, <1>2, <1>3, PlanIs DEF Whole, Flow
<1>6. Before' => Before
  BY <1>4, <1>5, RankValues DEF Before, Ranks
<1>7. Follows
  BY <1>3, <1>4 DEF Follows, SamePlan
<1>8. Reached' /\ late' = NoPut
  BY <1>1 DEF Quiet, Reached, Below
<1>9. ~aborted
  BY <1>1, Going
<1>10. AbortGoes'
  BY <1>1, <1>3, <1>4, <1>5, <1>9 DEF AbortGoes
<1>11. at' \notin Starting /\ at' \in Running /\ at' # "abort"
  BY <1>5 DEF Starting, Running
<1> QED BY <1>1, <1>3, <1>4, <1>5, <1>6, <1>7, <1>8, <1>9, <1>10, <1>11

LEMMA QuietAdvances == ASSUME Whole, Quiet, created \/ migrated \/ retired PROVE Quiet'
<1>1. /\ UNCHANGED <<recs, kids, late, held, store, truth, aborted>> /\ ~aborted
      /\ plan # NoPlan /\ plan' # NoPlan /\ SamePlan(plan', plan) /\ Follows
      /\ Reached' /\ AbortGoes' /\ late' = NoPut /\ (Before' => Before) /\ at' \notin Starting
  BY Advances
<1>2. \/ created /\ plan.step = "planned" /\ plan'.step = "created" /\ at' = "open_old"
      \/ migrated /\ plan.step = "created" /\ plan'.step = "migrated" /\ at' = "link_parent"
      \/ retired /\ plan.step = "linked" /\ plan'.step = "retired" /\ at' = "store_key"
  BY Advances DEF created, migrated, retired, linked
<1>3. Moved' <=> Moved
  BY <1>1, <1>2, RankValues DEF Moved, Ranks
<1>4. PlansReach'
  BY <1>1, ReachKept DEF Quiet
<1>5. Tree'
  <2>1. \A n \in DOMAIN truth : Home(n)' = Home(n)
    BY <1>1, <1>3, HomeAdvanced
  <2>2. ~Landing
    BY <1>2 DEF Landing
  <2>3. Tree
    BY DEF Quiet
  <2>4. \A n \in DOMAIN truth : \A v : v = <<Home(n), n>> /\ v \in Vaults =>
             v \in DOMAIN recs' /\ recs'[v] = recs[v] /\ kids'[v] = kids[v]
    BY <1>1 DEF Vaults
  <2> QED BY <1>1, <2>1, <2>2, <2>3, <2>4, TreeKept
<1>6. Copy'
  <2> SUFFICES ASSUME NEW n \in plan.nodes, NEW v, v = <<plan.new, n>> PROVE Copied(n, v)'
    BY <1>1 DEF Copy, SamePlan
  <2>1. Copied(n, v)
    BY <1>1 DEF Quiet, Copy
  <2>2. Kids(n)' = Kids(n) /\ Vaults' = Vaults
    BY <1>1 DEF Kids, Vaults
  <2>3. Created(n)' => Created(n)
    BY <1>2, RankValues DEF Created, Ranks, created
  <2>4. Done(n)' => Done(n)
    BY <1>2, RankValues DEF Done, Ranks, migrated
  <2> QED BY <1>1, <1>2, <2>1, <2>2, <2>3, <2>4 DEF Copied
<1> QED BY <1>1, <1>4, <1>5, <1>6 DEF Quiet

LEMMA QuietRetire == ASSUME Whole, Quiet, retire PROVE Quiet'
<1>1. /\ at = "retire" /\ at' = "retire" /\ job' = job /\ left # {}
      /\ UNCHANGED <<late, plan, held, store, truth, aborted>>
  BY DEF retire, local, ghosts
<1>2. PICK d, w : d = deepest /\ w = <<keys[d], d>>
  OBVIOUS
<1>3. at \in Running /\ at' \in Running /\ at' \notin Starting
  BY <1>1 DEF Running, Starting
<1>4. plan # NoPlan /\ plan.step = "linked" /\ ~aborted /\ plan.new \in Key
      /\ plan.nodes = DOMAIN truth \cap Below(plan.path)
  BY <1>1, <1>3, PlanIs, Going, LoneTyped DEF Whole, Flow
<1>5. d \in plan.nodes /\ d \in Node
  <2>1. d \in left
    BY <1>1, <1>2, DeepestIn, Typed DEF Whole
  <2> QED BY <1>1, <1>3, <2>1, PlanIs DEF Whole, Flow
<1>6. keys[d] # 0 => keys[d] # plan.new
  <2>1. keys[d] \in {0, plan.old[d]}
    BY <1>1, <1>3, <1>5, PlanIs DEF Whole, Flow
  <2>2. plan.old[d] < plan.new /\ plan.old[d] \in 0..MaxKey /\ plan.new \in Nat
    BY <1>3, <1>4, <1>5, PlanIs, PlanFields DEF SoundPlan, Key
  <2> QED BY <2>1, <2>2
<1>7. \A v : \A n \in DOMAIN truth : v \in Vaults /\ n = v[2] /\ (n \in plan.nodes => v[1] = plan.new) =>
          v \in DOMAIN recs' /\ recs'[v] = recs[v] /\ kids'[v] = kids[v]
  <2>1. CASE keys[d] = 0
    BY <1>2, <2>1 DEF retire, Vaults
  <2>2. CASE keys[d] # 0
    <3>1. delete_vault(w)
      BY <1>2, <2>2 DEF retire
    <3>2. \A v \in Vaults : v # w => v \in DOMAIN recs' /\ recs'[v] = recs[v] /\ kids'[v] = kids[v]
      BY <3>1, DeleteWorks DEF Whole, Keeps
    <3> QED BY <1>2, <1>5, <1>6, <2>2, <3>2
  <2> QED BY <2>1, <2>2
<1>8. PlansReach'
  <2>1. Before' => Before /\ SamePlan(plan', plan)
    BY <1>1 DEF Before, SamePlan
  <2>2. Follows
    BY <1>1, <1>3, PlanIs DEF Follows, SamePlan
  <2> QED BY <1>1, <1>3, <2>1, <2>2, ReachKept DEF Quiet
<1>9. Moved
  BY <1>4, RankValues DEF Moved, Ranks
<1>10. Tree'
  <2>1. \A n \in DOMAIN truth : Home(n)' = Home(n)
    BY <1>1, HomeSame
  <2>2. ~Landing
    BY <1>4 DEF Landing
  <2>3. Tree
    BY DEF Quiet
  <2>4. ASSUME NEW n \in DOMAIN truth, NEW v, v = <<Home(n), n>>, v \in Vaults
        PROVE  v \in DOMAIN recs' /\ recs'[v] = recs[v] /\ kids'[v] = kids[v]
    <3>1. n \in plan.nodes => v[1] = plan.new
      BY <1>4, <1>9, <2>4 DEF Home
    <3>2. n = v[2]
      BY <2>4
    <3> QED BY <1>7, <2>4, <3>1, <3>2
  <2> QED BY <1>1, <2>1, <2>2, <2>3, <2>4, TreeKept
<1>11. Copy'
  <2> SUFFICES ASSUME NEW n \in plan.nodes, NEW v, v = <<plan.new, n>> PROVE Copied(n, v)'
    BY <1>1 DEF Copy
  <2>1. Copied(n, v) /\ Done(n)
    BY <1>4, RankValues DEF Quiet, Copy, Done, Ranks
  <2>2. v \in Vaults /\ n \in DOMAIN truth /\ v[1] = plan.new /\ v[2] = n
    BY <1>4, <2>1 DEF Copied
  <2>3. v \in DOMAIN recs' /\ recs'[v] = recs[v] /\ kids'[v] = kids[v]
    BY <1>7, <2>2
  <2>4. Kids(n)' = Kids(n)
    BY <1>1 DEF Kids
  <2> QED BY <1>1, <2>1, <2>3, <2>4 DEF Copied, Vaults
<1>12. Reached' /\ AbortGoes'
  BY <1>1, <1>4 DEF Quiet, Reached, AbortGoes, Below
<1> QED BY <1>1, <1>8, <1>10, <1>11, <1>12 DEF Quiet

-----------------------------------------------------------------------------
(* The link. *)

\* The record above a reached node, if this machine reaches the parent.
LEMMA AboveHome ==
  ASSUME Whole, Quiet, Before, NEW n \in DOMAIN truth, NEW p \in Kids(n)
  PROVE  p \in Node /\ parent_held(p) /\ above(p) = <<Home(n), n>> /\ parent_vault(p) = above(p)
<1>1. p \in Node /\ p # 1 /\ Parent[p] = n
  BY LoneTyped DEF Kids
<1>2. parent_held(p)
  BY <1>1, LoneTyped, ReachedNode DEF parent_held
<1>3. above(p) = <<Home(n), n>>
  BY <1>1, HomeBefore DEF above
<1> QED BY <1>1, <1>2, <1>3, ParentVault

LEMMA QuietSealChild == ASSUME Whole, Quiet, seal_child PROVE Quiet'
<1>1. /\ at = "link_parent" /\ parent_held(job.path)
      /\ UNCHANGED <<recs, late, plan, held, store, truth, aborted>>
  BY DEF seal_child, local, ghosts
<1>2. at \in Running /\ at # "abort"
  BY <1>1 DEF Running
<1>3. PICK p, k, w : p = job.path /\ k = job.new /\ w = above(p)
  OBVIOUS
<1>4. p = plan.path /\ k = plan.new /\ plan # NoPlan /\ job \in Plan /\ plan.step = "migrated"
      /\ ~aborted /\ p \in DOMAIN truth /\ p \in Node
  BY <1>1, <1>2, <1>3, PlanIs, Going, LoneTyped DEF Whole, Flow
<1>5. parent_vault(job.path) = w /\ p # 1 /\ held_root_for(Parent[p]) # 0
  BY <1>1, <1>3, <1>4, ParentVault
<1>6. CASE w \notin Vaults
  <2>1. End /\ UNCHANGED kids
    BY <1>5, <1>6 DEF seal_child
  <2> QED BY <1>1, <2>1, QuietEnds
<1>7. CASE w \in Vaults
  <2>1. /\ put_children(w, With(kids[w], p, k)) /\ job' = [job EXCEPT !.linked = TRUE] /\ at' = "linked"
    BY <1>3, <1>5, <1>7 DEF seal_child, Goto, children
  <2>2. PICK q : q = Parent[p]
    OBVIOUS
  <2>3. q \in DOMAIN truth /\ p \in Kids(q)
    BY <1>4, <1>5, <2>2, ReachedParent, LoneTyped
  <2>4. Before
    BY <1>4, RankValues DEF Before, Ranks
  <2>5. w = <<Home(q), q>> /\ Home(q) # k
    BY <1>3, <1>4, <2>3, <2>4, AboveHome, HomeBefore
  <2>6. DOMAIN kids[w] = Kids(q)
    BY <2>3, <2>5 DEF Quiet, Tree, Placed
  <2>7. /\ \A v \in Vaults : v # w => kids'[v] = kids[v]
        /\ DOMAIN kids'[w] = Kids(q) /\ kids'[w][p] = k
        /\ \A c \in Kids(q) : c # p => kids'[w][c] = kids[w][c]
    <3>1. DOMAIN kids = Vaults
      BY DEF Whole, Keeps, ServerOK
    <3>2. kids' = [kids EXCEPT ![w] = With(kids[w], p, k)]
      BY <2>1 DEF put_children
    <3>3. kids'[w] = With(kids[w], p, k)
      BY <1>7, <3>1, <3>2
    <3> QED BY <2>3, <2>6, <3>1, <3>2, <3>3 DEF With
  <2>8. Landing /\ Landing'
    BY <1>1, <1>4 DEF Landing
  <2>9. SamePlan(job', job) /\ job \in Plan
    <3>1. Agrees(job', job)
      BY <1>4, <2>1, PlanLinked
    <3> QED BY <1>4, <3>1 DEF SamePlan, Agrees
  <2>10. PlansReach'
    <3>1. Before' => Before /\ SamePlan(plan', plan)
      BY <1>1 DEF Before, SamePlan
    <3>2. Follows
      BY <1>1, <1>2, <2>9, PlanIs DEF Follows, SamePlan
    <3> QED BY <1>1, <2>1, <3>1, <3>2, ReachKept DEF Quiet, Starting
  <2>11. Tree'
    <3>1. ASSUME NEW n \in DOMAIN truth, NEW v, v = <<Home(n)', n>>
          PROVE  /\ Placed(n, v)'
                 /\ \A c \in Kids(n)' : \A e : e = kids'[v][c] => LeadsHome(c, e)'
      <4>1. v = <<Home(n), n>>
        BY <1>1, <3>1, HomeSame
      <4>2. Placed(n, v) /\ \A c \in Kids(n) : \A e : e = kids[v][c] => LeadsHome(c, e)
        BY <4>1 DEF Quiet, Tree
      <4>3. Kids(n)' = Kids(n)
        BY <1>1 DEF Kids
      <4>4. DOMAIN kids'[v] = DOMAIN kids[v]
        BY <2>6, <2>7, <4>2 DEF Placed
      <4>5. ASSUME NEW c \in Kids(n), NEW e, e = kids'[v][c] PROVE LeadsHome(c, e)'
        <5>1. CASE v = w /\ c = p
          BY <1>1, <1>4, <2>7, <2>8, <4>5, <5>1 DEF LeadsHome
        <5>2. CASE ~(v = w /\ c = p)
          <6>1. v = w => n = q
            BY <2>5, <4>1
          <6>2. e = kids[v][c]
            BY <2>7, <4>2, <4>5, <5>2, <6>1 DEF Placed
          <6>3. LeadsHome(c, e) /\ Home(c)' = Home(c)
            BY <1>1, <4>2, <6>2, HomeSame
          <6> QED BY <1>1, <2>8, <6>3 DEF LeadsHome
        <5> QED BY <5>1, <5>2
      <4> QED BY <1>1, <4>2, <4>3, <4>4, <4>5 DEF Placed, Vaults
    <3>2. DOMAIN truth' = DOMAIN truth
      BY <1>1
    <3> QED BY <3>1, <3>2 DEF Tree
  <2>12. Copy'
    <3> SUFFICES ASSUME NEW n \in plan.nodes, NEW v, v = <<plan.new, n>> PROVE Copied(n, v)'
      BY <1>1 DEF Copy
    <3>1. Copied(n, v)
      BY <1>4 DEF Quiet, Copy
    <3>2. Kids(n)' = Kids(n) /\ Vaults' = Vaults
      BY <1>1 DEF Kids, Vaults
    <3>3. v # w
      BY <1>4, <2>5
    <3>4. (Created(n)' => Created(n)) /\ (Done(n)' => Done(n))
      BY <1>1, <2>1 DEF Created, Done
    <3> QED BY <1>1, <2>1, <2>7, <3>1, <3>2, <3>3, <3>4 DEF Copied
  <2>13. Reached' /\ AbortGoes'
    BY <1>1, <1>4, <2>1 DEF Quiet, Reached, AbortGoes, Below
  <2> QED BY <1>1, <2>10, <2>11, <2>12, <2>13 DEF Quiet
<1> QED BY <1>6, <1>7

LEMMA QuietLinked == ASSUME Whole, Quiet, linked PROVE Quiet'
<1>1. /\ UNCHANGED <<recs, kids, late, held, store, truth, aborted>> /\ ~aborted
      /\ plan # NoPlan /\ plan' # NoPlan /\ SamePlan(plan', plan) /\ Follows
      /\ Reached' /\ AbortGoes' /\ late' = NoPut /\ (Before' => Before) /\ at' \notin Starting
      /\ at = "linked" /\ plan.step = "migrated" /\ plan'.step = "linked" /\ at' = "open_retired"
  BY Advances DEF created, migrated, retired, linked
<1>2. PICK p, k : p = plan.path /\ k = plan.new
  OBVIOUS
<1>3. p = plan'.path /\ k = plan'.new /\ p \in Node /\ p \in DOMAIN truth
      /\ plan.nodes = DOMAIN truth \cap Below(p) /\ plan'.nodes = plan.nodes
  BY <1>1, <1>2, LoneTyped DEF SamePlan
<1>4. ~Moved /\ Moved' /\ Before /\ Joined
  BY <1>1, RankValues DEF Moved, Before, Joined, Ranks
<1>5. ASSUME NEW n
      PROVE  /\ n \in Below(p) => Home(n)' = k
             /\ n \notin Below(p) => Home(n)' = Home(n)
  <2>1. Own(n)' = Own(n) /\ Home(n) = Own(n)
    BY <1>1, <1>4, OwnSame DEF Home
  <2>2. Below(plan.path)' = Below(p)
    BY <1>3 DEF Below
  <2> HIDE DEF Moved
  <2> QED BY <1>3, <1>4, <2>1, <2>2 DEF Home
<1>6. ASSUME NEW n \in plan.nodes, NEW v, v = <<k, n>>
      PROVE  v \in Vaults /\ recs[v] = source(truth[n]) /\ DOMAIN kids[v] = Kids(n) /\ Copied(n, v)
  <2>1. Done(n)
    BY <1>1, RankValues DEF Done, Ranks
  <2>2. Copied(n, v)
    BY <1>1, <1>2, <1>6 DEF Quiet, Copy
  <2> QED BY <2>1, <2>2 DEF Copied
<1>7. Tree'
  <2>1. ASSUME NEW n \in DOMAIN truth, NEW v, v = <<Home(n)', n>>
        PROVE  /\ Placed(n, v)'
               /\ \A c \in Kids(n)' : \A e : e = kids'[v][c] => LeadsHome(c, e)'
    <3>1. Kids(n)' = Kids(n) /\ Vaults' = Vaults
      BY <1>1 DEF Kids, Vaults
    <3>2. CASE n \in Below(p)
      <4>1. v = <<k, n>> /\ n \in plan.nodes
        BY <1>3, <1>5, <2>1, <3>2
      <4>2. v \in Vaults /\ recs[v] = source(truth[n]) /\ DOMAIN kids[v] = Kids(n)
        BY <1>6, <4>1
      <4>3. source(recs[v]) = source(truth[n])
        <5>1. truth[n] \in Seq(Version)
          BY DEF Quiet, Reached
        <5> QED BY <4>2, <5>1, SourceWorks
      <4>4. ASSUME NEW c \in Kids(n), NEW e, e = kids[v][c] PROVE e = Home(c)'
        <5>1. e = k
          BY <1>1, <1>2, <4>1, <4>2, <4>4 DEF Whole, Places, NewTree
        <5>2. c \in Node \ {1} /\ Parent[c] = n
          BY LoneTyped DEF Kids
        <5>3. c \in Below(p)
          BY <3>2, <5>2, AboveStep DEF Below
        <5> QED BY <1>5, <5>1, <5>3
      <4> QED BY <1>1, <3>1, <4>2, <4>3, <4>4 DEF Placed, LeadsHome
    <3>3. CASE n \notin Below(p)
      <4>1. v = <<Home(n), n>>
        BY <1>5, <2>1, <3>3
      <4>2. Placed(n, v) /\ \A c \in Kids(n) : \A e : e = kids[v][c] => LeadsHome(c, e)
        BY <4>1 DEF Quiet, Tree
      <4>3. ASSUME NEW c \in Kids(n), NEW e, e = kids[v][c] PROVE e = Home(c)'
        <5>1. c \in Node \ {1} /\ Parent[c] = n
          BY LoneTyped DEF Kids
        <5>2. CASE c = p
          <6>1. parent_held(p) /\ above(p) = v
            BY <1>4, <4>1, <5>2, AboveHome
          <6>2. Linked(p, k)
            BY <1>2, <1>4, <6>1 DEF Whole, Places, LinkStays
          <6>3. e = k
            BY <4>2, <4>3, <5>2, <6>1, <6>2 DEF Linked, Placed
          <6>4. p \in Below(p)
            BY <1>3, AboveStep DEF Below
          <6> QED BY <1>5, <5>2, <6>3, <6>4
        <5>3. CASE c # p
          <6>1. c \notin Below(p)
            BY <3>3, <5>1, <5>3, AboveStep, TreeDown DEF Below
          <6>2. e = Home(c)
            BY <1>2, <4>2, <4>3, <5>3 DEF LeadsHome
          <6> QED BY <1>5, <6>1, <6>2
        <5> QED BY <5>2, <5>3
      <4> QED BY <1>1, <3>1, <4>2, <4>3 DEF Placed, LeadsHome
    <3> QED BY <3>2, <3>3
  <2>2. DOMAIN truth' = DOMAIN truth
    BY <1>1
  <2> QED BY <2>1, <2>2 DEF Tree
<1>8. Copy'
  <2> SUFFICES ASSUME NEW n \in plan.nodes, NEW v, v = <<k, n>> PROVE Copied(n, v)'
    BY <1>3 DEF Copy
  <2>1. v \in Vaults /\ recs[v] = source(truth[n]) /\ DOMAIN kids[v] = Kids(n) /\ Copied(n, v)
    BY <1>6
  <2>2. Kids(n)' = Kids(n) /\ Vaults' = Vaults
    BY <1>1 DEF Kids, Vaults
  <2> QED BY <1>1, <2>1, <2>2 DEF Copied
<1>9. PlansReach'
  BY <1>1, ReachKept DEF Quiet
<1> QED BY <1>1, <1>7, <1>8, <1>9 DEF Quiet

-----------------------------------------------------------------------------
(* Beginning, giving up and ending. *)

LEMMA QuietAbort == ASSUME Whole, Quiet, abort_rekey PROVE Quiet'
<1>1. /\ at' = "abort" /\ job' = plan /\ plan # NoPlan /\ aborted' = TRUE
      /\ Rank[plan.step] < Rank["linked"] /\ may_abort(plan)
      /\ UNCHANGED <<recs, kids, late, plan, held, store, truth>>
  BY DEF abort_rekey, may_abort, Goto, server, local
<1>2. Before
  BY <1>1 DEF Before
<1>3. PlansReach'
  <2>1. Before' => Before /\ SamePlan(plan', plan)
    BY <1>1 DEF Before, SamePlan
  <2>2. Follows
    BY <1>1 DEF Follows, SamePlan
  <2> QED BY <1>1, <2>1, <2>2, ReachKept DEF Quiet, Starting
<1>4. Tree'
  <2>1. ASSUME NEW n \in DOMAIN truth, NEW v, v = <<Home(n)', n>>
        PROVE  /\ Placed(n, v)'
               /\ \A c \in Kids(n)' : \A e : e = kids'[v][c] => LeadsHome(c, e)'
    <3>1. v = <<Home(n), n>>
      BY <1>1, <2>1, HomeSame
    <3>2. Kids(n)' = Kids(n) /\ Vaults' = Vaults
      BY <1>1 DEF Kids, Vaults
    <3>3. Placed(n, v) /\ \A c \in Kids(n) : \A e : e = kids[v][c] => LeadsHome(c, e)
      BY <3>1 DEF Quiet, Tree
    <3>4. ASSUME NEW c \in Kids(n), NEW e, e = kids[v][c] PROVE e = Home(c)'
      <4>1. ASSUME c = plan.path, e = plan.new PROVE FALSE
        <5>1. parent_held(c) /\ parent_vault(c) = v
          BY <1>2, <3>1, AboveHome
        <5>2. ~link_landed(plan)
          BY <1>1, <4>1, <5>1 DEF may_abort
        <5> QED BY <3>3, <3>4, <4>1, <5>1, <5>2 DEF link_landed, children, Placed
      <4>2. e = Home(c)
        BY <3>3, <3>4, <4>1 DEF LeadsHome
      <4> QED BY <1>1, <4>2, HomeSame
    <3> QED BY <1>1, <3>2, <3>3, <3>4 DEF Placed, LeadsHome
  <2>2. DOMAIN truth' = DOMAIN truth
    BY <1>1
  <2> QED BY <2>1, <2>2 DEF Tree
<1>5. Copy'
  BY <1>1 DEF Copy
<1>6. Reached' /\ AbortGoes'
  BY <1>1 DEF Quiet, Reached, AbortGoes, Below, Before
<1> QED BY <1>1, <1>3, <1>4, <1>5, <1>6 DEF Quiet

LEMMA QuietForget == ASSUME Whole, Quiet, forget_plan PROVE Quiet'
<1>1. /\ at = "abort" /\ at' = "drop_old" /\ job' = job /\ plan' = NoPlan
      /\ UNCHANGED <<recs, kids, late, held, store, truth, aborted>>
  BY DEF forget_plan, Goto, server, ghosts
<1>2. at \in Running /\ at' \notin Starting
  BY <1>1 DEF Running, Starting
<1>3. plan # NoPlan /\ job # NoPlan /\ aborted /\ Before
  BY <1>1, <1>2, PlanIs DEF Quiet, AbortGoes
<1>4. PlansReach'
  <2>1. Follows /\ ~Before'
    BY <1>1, <1>3 DEF Follows, SamePlan, Before
  <2> QED BY <1>1, <1>2, <2>1, ReachKept DEF Quiet
<1>5. Tree'
  <2>1. ASSUME NEW n \in DOMAIN truth PROVE Home(n)' = Home(n)
    <3>1. Own(n)' = Own(n) /\ Home(n) = Own(n)
      BY <1>1, <1>3, OwnSame, HomeBefore
    <3>2. ~Moved'
      BY <1>1 DEF Moved
    <3> QED BY <3>1, <3>2 DEF Home
  <2>2. ~Landing /\ Tree
    BY <1>3 DEF Landing, Quiet
  <2> QED BY <1>1, <2>1, <2>2, TreeKept DEF Vaults
<1>6. Copy' /\ Reached' /\ AbortGoes'
  BY <1>1 DEF Copy, Quiet, Reached, AbortGoes, Below
<1> QED BY <1>1, <1>4, <1>5, <1>6 DEF Quiet

LEMMA QuietRecord == ASSUME Whole, Quiet, record_plan PROVE Quiet'
<1>1. /\ at = "record_plan" /\ at' = "run_rekey" /\ job' = job /\ plan' = job /\ aborted' = FALSE
      /\ UNCHANGED <<recs, kids, late, held, store, truth>>
  BY DEF record_plan, Goto, server
<1>2. at \in Starting /\ at' \notin Starting /\ at # "idle"
  BY <1>1 DEF Starting
<1>3. plan = NoPlan /\ job # NoPlan /\ job.step = "planned"
  BY <1>1, <1>2, JobStill DEF Whole, Keeps, Control, Flow
<1>4. ~Moved /\ ~Moved' /\ ~Landing
  BY <1>1, <1>3, RankValues DEF Moved, Landing, Ranks
<1>5. PlansReach'
  <2>1. \A n : Own(n)' = Own(n)
    BY <1>1, OwnSame
  <2>2. Below(job.path)' = Below(job.path) /\ Below(plan.path)' = Below(job.path)
    BY <1>1 DEF Below
  <2> QED BY <1>1, <1>2, <1>3, <2>1, <2>2 DEF Quiet, PlansReach
<1>6. Tree'
  <2>1. ASSUME NEW n \in DOMAIN truth PROVE Home(n)' = Home(n)
    <3>1. Own(n)' = Own(n)
      BY <1>1, OwnSame
    <3> HIDE DEF Moved
    <3> QED BY <1>4, <3>1 DEF Home
  <2>2. Tree
    BY DEF Quiet
  <2> QED BY <1>1, <1>4, <2>1, <2>2, TreeKept DEF Vaults
<1>7. Copy'
  <2> SUFFICES ASSUME NEW n \in plan'.nodes, NEW v, v = <<plan'.new, n>> PROVE Copied(n, v)'
    BY DEF Copy
  <2>1. v \notin DOMAIN recs'
    BY <1>1, <1>2 DEF Whole, Places, NewUnused, Vaults
  <2>2. ~Created(n)' /\ ~Done(n)'
    BY <1>1, <1>3, RankValues DEF Created, Done, Ranks
  <2> QED BY <1>1, <2>1, <2>2 DEF Copied, Vaults
<1>8. Reached' /\ AbortGoes'
  BY <1>1 DEF Quiet, Reached, AbortGoes, Below
<1> QED BY <1>1, <1>5, <1>6, <1>7, <1>8 DEF Quiet

LEMMA QuietSave == ASSUME Whole, Quiet, save_state PROVE Quiet'
<1>1. /\ at = "save_state" /\ at' = "drop_below" /\ plan' = NoPlan /\ job' = job
      /\ UNCHANGED <<recs, kids, late, held, store, truth, aborted>>
  BY DEF save_state, Goto, server, ghosts
<1>2. at \in Running /\ at' \notin Starting
  BY <1>1 DEF Running, Starting
<1>3. PICK p, k : p = plan.path /\ k = plan.new
  OBVIOUS
<1>4. /\ p \in Node /\ plan # NoPlan /\ job # NoPlan /\ plan.step = "retired" /\ store.node[p] = k
      /\ held \cap Below(p) = {p} /\ held \subseteq Node
  BY <1>1, <1>2, <1>3, PlanIs DEF Whole, Flow, Keeps, LocalOK
<1>5. PlansReach'
  <2>1. Follows /\ ~Before'
    BY <1>1, <1>4 DEF Follows, SamePlan, Before
  <2> QED BY <1>1, <1>2, <2>1, ReachKept DEF Quiet
<1>6. Tree'
  <2>1. ASSUME NEW n \in DOMAIN truth PROVE Home(n)' = Home(n)
    <3>1. Own(n)' = Own(n)
      BY <1>1, OwnSame
    <3>2. n \in Below(p) => Own(n) = k
      BY <1>4, RootBelow DEF Own
    <3>3. ~Moved'
      BY <1>1 DEF Moved
    <3> QED BY <1>3, <3>1, <3>2, <3>3 DEF Home
  <2>2. ~Landing /\ Tree
    BY <1>4 DEF Landing, Quiet
  <2> QED BY <1>1, <2>1, <2>2, TreeKept DEF Vaults
<1>7. Copy' /\ Reached' /\ AbortGoes'
  BY <1>1 DEF Copy, Quiet, Reached, AbortGoes, Below
<1> QED BY <1>1, <1>5, <1>6, <1>7 DEF Quiet

\* The end of a rekey replaces keys at and below its node alone.
LEMMA QuietFinishing ==
  ASSUME Whole, Quiet, at \in Running, at' \in {"finish", "save_state"}, plan.step = "retired",
         UNCHANGED <<recs, kids, late, plan, job, truth, aborted>>,
         OutsideSame(plan.path), Reached'
  PROVE  Quiet'
<1>1. plan # NoPlan /\ job # NoPlan /\ at' \notin Starting
  BY PlanIs DEF Starting
<1>2. Moved /\ ~Before /\ ~Landing
  BY <1>1, RankValues DEF Moved, Before, Landing, Ranks
<1>3. PlansReach'
  <2>1. ~Before'
    BY <1>2 DEF Before
  <2>2. Below(plan.path)' = Below(plan.path) /\ Below(job.path)' = Below(job.path)
    BY DEF Below
  <2> HIDE DEF Before
  <2> QED BY <1>1, <2>1, <2>2 DEF Quiet, PlansReach
<1>4. Tree'
  <2>1. ASSUME NEW n \in DOMAIN truth PROVE Home(n)' = Home(n)
    <3>1. n \in Node /\ held_root_for(n) # 0
      BY LoneTyped, ReachedNode
    <3>2. n \notin Below(plan.path) => Own(n)' = Own(n)
      BY <3>1 DEF OutsideSame
    <3>3. Moved' /\ Below(plan.path)' = Below(plan.path)
      BY <1>2 DEF Moved, Below
    <3> HIDE DEF Moved
    <3> QED BY <1>2, <3>2, <3>3 DEF Home
  <2>2. Tree
    BY DEF Quiet
  <2> QED BY <1>2, <2>1, <2>2, TreeKept DEF Vaults
<1>5. Copy'
  <2> SUFFICES ASSUME ~aborted, NEW n \in plan.nodes, NEW v, v = <<plan.new, n>> PROVE Copied(n, v)'
    BY DEF Copy
  <2>1. Copied(n, v)
    BY <1>1 DEF Quiet, Copy
  <2>2. Kids(n)' = Kids(n) /\ Vaults' = Vaults
    BY DEF Kids, Vaults
  <2>3. Created(n) /\ Done(n)
    BY RankValues DEF Created, Done, Ranks
  <2> QED BY <2>1, <2>2, <2>3 DEF Copied
<1>6. AbortGoes'
  BY <1>1, <1>2 DEF Quiet, AbortGoes
<1> QED BY <1>3, <1>4, <1>5, <1>6 DEF Quiet

LEMMA QuietStoreKey == ASSUME Whole, Quiet, store_key PROVE Quiet'
<1>1. /\ at' = "finish" /\ UNCHANGED <<recs, kids, late, plan, held, job, truth, aborted>>
  BY DEF store_key, Goto, server, ghosts
<1>2. Reached'
  BY <1>1 DEF Quiet, Reached, Below
<1> QED BY <1>1, <1>2, StoreKeyDoes, QuietFinishing

LEMMA QuietFinish == ASSUME Whole, Quiet, finish_rekey PROVE Quiet'
<1>1. /\ at' = "save_state" /\ UNCHANGED <<recs, kids, late, plan, job, truth, aborted>>
  BY DEF finish_rekey, Goto, server, ghosts
<1>2. PICK p : p = plan.path
  OBVIOUS
<1>3. p \in Node /\ p \in DOMAIN truth /\ held' = (held \ Below(p)) \cup {p}
  BY <1>2, FinishDoes, LoneTyped
<1>4. PICK h \in First : h \in held /\ held \subseteq DOMAIN truth /\ DOMAIN truth = First \cap Below(h)
  BY DEF Quiet, Reached
<1>5. h \in held'
  <2>1. CASE h \in Below(p)
    <3>1. h \in Node /\ p \in Above[h] /\ h \in Above[p]
      BY <1>3, <1>4, <2>1 DEF Below
    <3>2. p <= h /\ h <= p /\ p \in Nat /\ h \in Nat
      BY <1>3, <3>1, AboveSmaller, TreeDown
    <3> QED BY <1>3, <3>2
  <2>2. CASE h \notin Below(p)
    BY <1>3, <1>4, <2>2
  <2> QED BY <2>1, <2>2
<1>6. held' \subseteq DOMAIN truth
  BY <1>3, <1>4
<1>7. Reached'
  BY <1>1, <1>4, <1>5, <1>6 DEF Quiet, Reached, Below
<1> QED BY <1>1, <1>7, FinishDoes, QuietFinishing

LEMMA QuietDropBelow == ASSUME Whole, Quiet, drop_below PROVE Quiet'
<1>1. /\ at = "drop_below" /\ at' = "drop_old"
      /\ UNCHANGED <<recs, kids, late, plan, held, job, truth, aborted>>
  BY DEF drop_below, Goto, server, ghosts
<1>2. at' \notin Starting /\ plan = NoPlan
  BY <1>1, DropBelowDoes DEF Starting
<1>3. PlansReach'
  BY <1>1, <1>2 DEF Quiet, PlansReach, Before, Below
<1>4. Tree'
  <2>1. ASSUME NEW n \in DOMAIN truth PROVE Home(n)' = Home(n)
    <3>1. n \in Node /\ held_root_for(n) # 0
      BY LoneTyped, ReachedNode
    <3>2. Own(n)' = Own(n)
      BY <3>1, DropBelowDoes
    <3>3. ~Moved /\ ~Moved'
      BY <1>1, <1>2 DEF Moved
    <3> QED BY <3>2, <3>3 DEF Home
  <2>2. Tree /\ ~Landing
    BY <1>2 DEF Quiet, Landing
  <2> QED BY <1>1, <2>1, <2>2, TreeKept DEF Vaults
<1>5. Copy' /\ Reached' /\ AbortGoes'
  BY <1>1, <1>2 DEF Copy, Quiet, Reached, AbortGoes, Below
<1> QED BY <1>1, <1>3, <1>4, <1>5 DEF Quiet

\* A rekey lists the nodes this machine reaches, each under its own key.
LEMMA ListsHome ==
  ASSUME Whole, Quiet, plan = NoPlan, NEW p \in DOMAIN truth, NEW found, ListedIs(found, p, Own(p)),
         NEW n \in Node
  PROVE  found[n] = IF n \in DOMAIN truth \cap Below(p) THEN Own(n) ELSE 0
<1> DEFINE Good(m) == found[m] = IF m \in DOMAIN truth \cap Below(p) THEN Own(m) ELSE 0
           T == {m \in Node : ~Good(m)}
<1>1. ASSUME T # {} PROVE FALSE
  <2>1. PICK m \in T : \A y \in T : m <= y
    BY <1>1, LeastNat, TreeDown
  <2>2. m \in Node /\ m \in Nat /\ ~Good(m) /\ p \in Node
    BY <2>1, TreeDown, LoneTyped
  <2>3. CASE m = p
    <3>1. p \in Below(p) /\ found[p] = Own(p)
      BY <2>2, AboveStep DEF Below, ListedIs
    <3> QED BY <2>2, <2>3, <3>1
  <2>4. CASE m # p /\ m \notin Below(p)
    BY <2>2, <2>4 DEF ListedIs
  <2>5. CASE m # p /\ m \in Below(p)
    <3>1. PICK q, v : q = Parent[m] /\ v = <<found[q], q>>
      OBVIOUS
    <3>2. found[m] = IF v \in Vaults /\ m \in DOMAIN kids[v] THEN kids[v][m] ELSE 0
      BY <2>5, <3>1 DEF ListedIs
    <3>3. m # 1
      <4>1. p <= m /\ p \in Nat /\ p # 0
        BY <2>2, <2>5, AboveSmaller, TreeDown DEF Below
      <4> QED BY <2>2, <2>5, <4>1
    <3>4. q \in Node /\ q \in Nat /\ ~(m <= q) /\ q \in Below(p)
      <4>1. q \in Node /\ q \in Nat /\ ~(m <= q)
        BY <2>2, <3>1, <3>3, TreeDown
      <4>2. p \in Above[q]
        BY <2>2, <2>5, <3>1, <3>3, AboveStep DEF Below
      <4> QED BY <4>1, <4>2 DEF Below
    <3>5. Good(q)
      BY <2>1, <3>4
    <3>6. ~Moved /\ ~Landing
      BY DEF Moved, Landing
    <3>7. CASE q \in DOMAIN truth
      <4>1. v = <<Home(q), q>>
        BY <3>1, <3>4, <3>5, <3>6, <3>7 DEF Home
      <4>2. v \in Vaults /\ DOMAIN kids[v] = Kids(q) /\ \A c \in Kids(q) : LeadsHome(c, kids[v][c])
        BY <3>7, <4>1 DEF Quiet, Tree, Placed
      <4>3. m \in Kids(q) <=> m \in DOMAIN truth
        BY <3>1, <3>3 DEF Kids
      <4>4. m \in DOMAIN truth => kids[v][m] = Own(m)
        BY <3>6, <4>2, <4>3 DEF LeadsHome, Home
      <4> QED BY <2>2, <2>5, <3>2, <4>2, <4>3, <4>4
    <3>8. CASE q \notin DOMAIN truth
      <4>1. m \notin DOMAIN truth
        BY <2>5, <3>1, <3>8, LoneTyped, ReachedNode
      <4>2. v \notin Vaults
        <5>1. v[1] = 0 /\ 0 \notin Key
          BY <3>1, <3>5, <3>8 DEF Key
        <5> QED BY <5>1, EntryOK DEF Whole, Keeps
      <4> QED BY <2>2, <3>2, <4>1, <4>2
    <3> QED BY <3>7, <3>8
  <2> QED BY <2>3, <2>4, <2>5
<1> QED BY <1>1

LEMMA QuietBegin == ASSUME Whole, Quiet, NEW p \in Node, begin_rekey(p) PROVE Quiet'
<1> DEFINE root == chain(p)
           found == listed(p, root)
           nodes == {n \in Node : found[n] # 0}
<1>1. /\ at = "idle" /\ plan = NoPlan /\ tree[p].vault # 0 /\ root # 0
      /\ job' = [path |-> p, nodes |-> nodes, old |-> found, new |-> used + 1,
                 step |-> "planned", linked |-> FALSE]
      /\ at' = "keep_old"
      /\ UNCHANGED <<recs, kids, late, plan, held, store, truth, aborted>>
  BY DEF begin_rekey, Goto, server, local
<1>2. held_root_for(p) # 0 /\ root = Own(p) /\ root \in 0..MaxKey
  <2>1. ServerOK /\ LocalOK /\ SealedHeld
    BY DEF Whole, Keeps
  <2>2. held_root_for(p) # 0 /\ root = Own(p)
    BY <1>1, <2>1, ChainIs
  <2> QED BY <2>1, <2>2, OwnKey
<1>3. p \in DOMAIN truth
  <2>1. DOMAIN truth \subseteq First
    BY DEF Quiet, Reached
  <2>2. p \in First
    BY <1>1, <2>1 DEF Whole, Places, NodesGrown, Grown
  <2> QED BY <1>2, <2>2, LoneTyped, ReachedBelow
<1>4. ListedIs(found, p, Own(p))
  <2>1. ServerOK
    BY DEF Whole, Keeps
  <2> HIDE DEF root
  <2> QED BY <1>2, <2>1, ListedWorks
<1> HIDE DEF root, found
<1>5. \A n \in Node : found[n] = IF n \in DOMAIN truth \cap Below(p) THEN Own(n) ELSE 0
  BY <1>1, <1>3, <1>4, ListsHome
<1>6. \A n \in DOMAIN truth : Own(n) # 0 /\ n \in Node
  <2> TAKE n \in DOMAIN truth
  <2>1. n \in Node
    BY LoneTyped
  <2>2. PICK v : v = <<Home(n), n>>
    OBVIOUS
  <2>3. v \in Vaults /\ v[1] = Own(n)
    BY <1>1, <2>2 DEF Quiet, Tree, Placed, Home, Moved
  <2>4. v[1] \in Key /\ 0 \notin Key
    BY <2>3, EntryOK DEF Whole, Keeps, Key
  <2> QED BY <2>1, <2>3, <2>4
<1>7. nodes = DOMAIN truth \cap Below(p)
  <2> HIDE DEF Own
  <2> QED BY <1>5, <1>6
<1> HIDE DEF nodes
<1>8. job'.path = p /\ job'.nodes = DOMAIN truth \cap Below(p) /\ job'.old = found
  BY <1>1, <1>7
<1>9. PlansReach'
  <2>1. \A n : Own(n)' = Own(n)
    BY <1>1, OwnSame
  <2>2. \A n \in job'.nodes : job'.old[n] = Own(n)'
    BY <1>5, <1>6, <1>8, <2>1
  <2>3. Below(job.path)' = Below(p)
    BY <1>8 DEF Below
  <2> QED BY <1>1, <1>8, <2>2, <2>3 DEF PlansReach, Before
<1>10. Tree'
  <2>1. \A n \in DOMAIN truth : Home(n)' = Home(n)
    BY <1>1, HomeSame
  <2>2. ~Landing /\ Tree
    BY <1>1 DEF Landing, Quiet
  <2> QED BY <1>1, <2>1, <2>2, TreeKept DEF Vaults
<1>11. Copy' /\ Reached' /\ AbortGoes'
  BY <1>1 DEF Copy, Quiet, Reached, AbortGoes, Below
<1> QED BY <1>1, <1>9, <1>10, <1>11 DEF Quiet

LEMMA QuietStutter == ASSUME Whole, Quiet, UNCHANGED vars PROVE Quiet'
<1>1. UNCHANGED <<recs, kids, late, plan, held, store, truth, aborted, at, job, left, todo>>
  BY DEF vars, server, local, process, ghosts
<1>2. Reached' /\ AbortGoes'
  BY <1>1 DEF Quiet, Reached, AbortGoes, Below, Before
<1>3. PlansReach'
  <2>1. Follows /\ (Before' => Before /\ SamePlan(plan', plan))
    BY <1>1 DEF Follows, SamePlan, Before
  <2> QED BY <1>1, <2>1, ReachKept DEF Quiet
<1>4. Tree'
  <2>1. \A n \in DOMAIN truth : Home(n)' = Home(n)
    BY <1>1, HomeSame
  <2>2. (Landing => Landing') /\ Tree
    BY <1>1 DEF Landing, Quiet
  <2> QED BY <1>1, <2>1, <2>2, TreeKept DEF Vaults
<1>5. Copy'
  <2> SUFFICES ASSUME plan # NoPlan, ~aborted, NEW n \in plan.nodes, NEW v, v = <<plan.new, n>>
               PROVE  Copied(n, v)'
    BY <1>1 DEF Copy
  <2>1. Copied(n, v)
    BY DEF Quiet, Copy
  <2> QED BY <1>1, <2>1 DEF Copied, Created, Done, Kids, Vaults, deepest
<1> QED BY <1>1, <1>2, <1>3, <1>4, <1>5 DEF Quiet

LEMMA QuietNext == ASSUME Whole, load.others = {}, Quiet, [Next]_vars PROVE Quiet'
<1>1. CASE (\E p \in Node : begin_rekey(p)) \/ rekey_resume \/ abort_rekey
  BY <1>1, QuietBegin, QuietResume, QuietAbort
<1>2. CASE RunNext
  <2>1. CASE keep_old \/ keep_new \/ record_plan \/ run_rekey \/ open_old \/ detached
    BY <2>1, QuietKeepKeys, QuietRecord, QuietRuns
  <2>2. CASE create_vault \/ create_children \/ copy_from \/ copy_version \/ list_children
    BY <2>2, QuietCreate, QuietCreateChildren, QuietCopyFrom, QuietCopyVersion, QuietListChildren
  <2>3. CASE created \/ migrated \/ retired \/ linked
    BY <2>3, QuietAdvances, QuietLinked
  <2>4. CASE seal_child \/ retire \/ abort_vault \/ forget_plan
    BY <2>4, QuietSealChild, QuietRetire, QuietAbortVault, QuietForget
  <2>5. CASE store_key \/ finish_rekey \/ save_state \/ drop_below \/ drop_old \/ drop_new
    BY <2>5, QuietStoreKey, QuietFinish, QuietSave, QuietDropBelow, QuietDrop
  <2> QED BY <1>2, <2>1, <2>2, <2>3, <2>4, <2>5 DEF RunNext
<1>3. ~seal_child_late /\ ~OthersNext
  <2>1. late = NoPut
    BY DEF Quiet
  <2> QED BY <2>1 DEF seal_child_late, OthersNext, write, env_add, env_remove, put_lands
<1> QED BY <1>1, <1>2, <1>3, QuietRuns, QuietStutter DEF Next

LEMMA QuietInit == Init => Quiet
<1> SUFFICES ASSUME Init PROVE Quiet
  OBVIOUS
<1>1. PICK h \in load.held :
        /\ held = {h} /\ truth = Restrict(Written, First \cap Below(h))
        /\ store = [node |-> [n \in Node |-> IF n = h THEN 1 ELSE 0],
                    rekeyOld |-> [n \in Node |-> 0], rekeyNew |-> [n \in Node |-> 0]]
  BY DEF Init
<1>2. /\ recs = [v \in {1} \X First |-> Written[v[2]]]
      /\ kids = [v \in {1} \X First |-> [n \in {m \in First \ {1} : Parent[m] = v[2]} |-> 1]]
      /\ late = NoPut /\ plan = NoPlan /\ job = NoPlan /\ at = "idle" /\ load \in Workloads
  BY DEF Init
<1>3. store.node = [n \in Node |-> IF n = h THEN 1 ELSE 0]
  BY <1>1
<1>4. h \in First /\ First \subseteq Node /\ h \in Node
  BY <1>2, RekeyAssumption
<1>5. /\ DOMAIN truth = First \cap Below(h)
      /\ \A n \in First \cap Below(h) : truth[n] = Written[n] /\ Written[n] \in Seq(Version)
                                        /\ Len(Written[n]) <= MaxVersions
  BY <1>1, RekeyAssumption DEF Restrict
<1>6. h \in Below(h)
  BY <1>4, AboveStep DEF Below
<1>7. Reached
  BY <1>1, <1>4, <1>5, <1>6 DEF Reached
<1>8. ASSUME NEW n \in DOMAIN truth PROVE Home(n) = 1
  <2>1. held_root_for(n) = h
    BY <1>1, <1>4, <1>5, <1>6, RootBelow
  <2> QED BY <1>2, <1>3, <1>4, <2>1 DEF Home, Moved, Own
<1>9. Tree
  <2>1. ASSUME NEW n \in DOMAIN truth, NEW v, v = <<Home(n), n>>
        PROVE  Placed(n, v) /\ \A c \in Kids(n) : \A e : e = kids[v][c] => LeadsHome(c, e)
    <3>1. v = <<1, n>> /\ n \in First /\ n \in Below(h) /\ v \in {1} \X First /\ v[2] = n
      BY <1>5, <1>8, <2>1
    <3>2. v \in Vaults /\ recs[v] = truth[n]
      BY <1>2, <1>5, <3>1 DEF Vaults
    <3>3. kids[v] = [c \in {m \in First \ {1} : Parent[m] = n} |-> 1]
      BY <1>2, <3>1
    <3>4. {m \in First \ {1} : Parent[m] = n} = Kids(n)
      <4>1. ASSUME NEW m \in First \ {1}, Parent[m] = n PROVE m \in Below(h)
        BY <1>4, <3>1, <4>1, AboveStep DEF Below
      <4> QED BY <1>5, <4>1 DEF Kids
    <3>5. ASSUME NEW c \in Kids(n) PROVE LeadsHome(c, kids[v][c])
      <4>1. c \in DOMAIN truth
        BY DEF Kids
      <4> QED BY <1>8, <3>3, <3>4, <4>1 DEF LeadsHome
    <3> QED BY <3>2, <3>3, <3>4, <3>5 DEF Placed
  <2> QED BY <2>1 DEF Tree
<1>10. PlansReach /\ AbortGoes /\ Copy
  BY <1>2 DEF PlansReach, AbortGoes, Copy, Before, Starting
<1> QED BY <1>2, <1>7, <1>9, <1>10 DEF Quiet

\* Wherever a rekey or its abort is interrupted, every record is found, every
\* retained version of it, and every entry discovery follows leads to a
\* vault, unless other machines change the subtree meanwhile or the owner
\* resumes a rekey whose abort has begun to delete.
THEOREM TreeIsWhole == Spec => []("resume_aborted" \notin load.others => TreeWhole)
<1> DEFINE I == Whole /\ (load.others = {} => Quiet)
<1>1. Init => I
  BY WholeInit, QuietInit
<1>2. I /\ [Next]_vars => I'
  <2> SUFFICES ASSUME Whole, load.others = {} => Quiet, [Next]_vars PROVE I'
    OBVIOUS
  <2>1. Whole' /\ load' = load
    BY WholeNext DEF Next, vars
  <2> QED BY <2>1, QuietNext
<1>3. I => ("resume_aborted" \notin load.others => TreeWhole)
  <2> SUFFICES ASSUME Whole, load.others = {} => Quiet, "resume_aborted" \notin load.others
               PROVE  TreeWhole
    OBVIOUS
  <2>1. CASE load.others = {}
    BY <2>1, QuietWhole
  <2>2. CASE load.others # {}
    <3>1. ~Undisturbed
      BY <2>2 DEF Undisturbed
    <3> QED BY <3>1 DEF TreeWhole, NothingLost, NothingDangles
  <2> QED BY <2>1, <2>2
<1> QED BY <1>1, <1>2, <1>3, PTL DEF Spec

=============================================================================
