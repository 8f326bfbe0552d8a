------------------------- MODULE VaultHandleProofs -------------------------
(***************************************************************************)
(* Proofs about VaultHandle, for any number of threads, any workload and   *)
(* any page size: the handle's view is sound, what was seen is never       *)
(* unseen, a confirmed "not found" is true and every alarm has a cause.    *)
(* They rest on one invariant, IInv, kept by every action; first come the  *)
(* facts about chains of hashes that it needs.                             *)
(***************************************************************************)
EXTENDS VaultHandle, NaturalsInduction, WellFoundedInduction, TLAPS

\* A set of natural numbers has a least one.
LEMMA LeastOf ==
  ASSUME NEW T \in SUBSET Nat, T # {}
  PROVE  \E x \in T : \A y \in T : ~(y < x)
<1> DEFINE Less == OpToRel(<, Nat)
<1>1. IsWellFoundedOn(Less, Nat)
  BY NatLessThanWellFounded
<1>2. \A x, y \in Nat : y < x => <<y, x>> \in Less
  BY DEF OpToRel
<1> HIDE DEF Less
<1>3. PICK x \in T : \A y \in T : <<y, x>> \notin Less
  BY <1>1, WFMin
<1>4. ASSUME NEW y \in T, y < x PROVE FALSE
  <2>1. x \in Nat /\ y \in Nat
    BY <1>4
  <2> QED BY <1>2, <1>3, <1>4, <2>1
<1> QED BY <1>3, <1>4

-----------------------------------------------------------------------------
(* Chains: each identity names an earlier one, or 0. *)

Chained(prev) == prev \in Seq(Nat) /\ \A i \in 1..Len(prev) : prev[i] \in 0..(i - 1)

\* Ancestry satisfies the equation that defines it.
LEMMA AncestryWorks ==
  ASSUME NEW prev, Chained(prev)
  PROVE  \A i \in 0..Len(prev) :
            Ancestry(prev)[i] = IF i = 0 THEN {0} ELSE {i} \cup Ancestry(prev)[prev[i]]
<1> DEFINE Ids == 0..Len(prev)
           Down(S) == \A j \in S \ {0} : prev[j] \in S
           F == [i \in Ids |-> {k \in Ids : \A S \in SUBSET Ids : i \in S /\ Down(S) => k \in S}]
<1>0. Len(prev) \in Nat /\ 0 \in Ids /\ \A i \in Ids : i # 0 => prev[i] \in Ids
  BY DEF Chained
<1> HIDE DEF Ids
<1>1. ASSUME NEW i \in Ids PROVE F[i] = IF i = 0 THEN {0} ELSE {i} \cup F[prev[i]]
  <2>1. CASE i = 0
    <3>1. Down({0}) /\ {0} \in SUBSET Ids
      BY <1>0
    <3>2. \A k \in F[i] : k \in {0}
      BY <2>1, <3>1
    <3>3. 0 \in F[i]
      BY <2>1, <1>0
    <3>4. F[i] = {0}
      <4> HIDE DEF F
      <4> QED BY <3>2, <3>3
    <3> QED BY <2>1, <3>4
  <2>2. CASE i # 0
    <3>1. prev[i] \in Ids
      BY <2>2, <1>0
    <3>2. ASSUME NEW k \in F[prev[i]] PROVE k \in F[i]
      BY <2>2, <3>1
    <3>3. ASSUME NEW k \in F[i], k # i PROVE k \in F[prev[i]]
      <4>1. SUFFICES ASSUME NEW S \in SUBSET Ids, prev[i] \in S, Down(S) PROVE k \in S
        BY <3>1
      <4>2. Down(S \cup {i}) /\ S \cup {i} \in SUBSET Ids
        BY <2>2, <4>1
      <4>3. k \in S \cup {i}
        BY <4>2
      <4> QED BY <3>3, <4>3
    <3>4. i \in F[i]
      OBVIOUS
    <3>5. \A a, b : /\ \A k \in b : k \in a
                    /\ \A k \in a : k # i => k \in b
                    /\ i \in a
                    => a = {i} \cup b
      OBVIOUS
    <3>6. F[i] = {i} \cup F[prev[i]]
      <4> HIDE DEF F
      <4> QED BY <3>2, <3>3, <3>4, <3>5
    <3> QED BY <2>2, <3>6
  <2> QED BY <2>1, <2>2
<1>2. F = [i \in Ids |-> F[i]]
  OBVIOUS
<1> HIDE DEF F
<1>3. F = [i \in Ids |-> IF i = 0 THEN {0} ELSE {i} \cup F[prev[i]]]
  BY <1>1, <1>2
<1>4. Ancestry(prev) = [i \in Ids |-> IF i = 0 THEN {0} ELSE {i} \cup Ancestry(prev)[prev[i]]]
  BY <1>3 DEF Ancestry, Ids
<1> HIDE DEF Ids
<1>5. \A i \in Ids : Ancestry(prev)[i] = IF i = 0 THEN {0} ELSE {i} \cup Ancestry(prev)[prev[i]]
  BY <1>4
<1> QED BY <1>5 DEF Ids

\* What a row or a descriptor descends from: itself, and what its predecessor
\* descends from.
LEMMA AncestryStep ==
  ASSUME NEW prev, Chained(prev)
  PROVE  /\ Ancestry(prev)[0] = {0}
         /\ \A i \in 1..Len(prev) : /\ Ancestry(prev)[i] = {i} \cup Ancestry(prev)[prev[i]]
                                    /\ prev[i] \in 0..Len(prev) /\ prev[i] < i
<1>1. Len(prev) \in Nat /\ \A i \in 1..Len(prev) : prev[i] \in 0..Len(prev) /\ prev[i] < i
  BY DEF Chained
<1>2. Ancestry(prev)[0] = {0}
  <2>1. 0 \in 0..Len(prev)
    BY <1>1
  <2> QED BY <2>1, AncestryWorks
<1>3. ASSUME NEW i \in 1..Len(prev) PROVE Ancestry(prev)[i] = {i} \cup Ancestry(prev)[prev[i]]
  <2>1. i \in 0..Len(prev) /\ i # 0
    BY <1>1
  <2> QED BY <2>1, AncestryWorks
<1> QED BY <1>1, <1>2, <1>3

\* Everything descends from itself, and from 0.
LEMMA AncestrySelf ==
  ASSUME NEW prev, Chained(prev), NEW i \in 0..Len(prev)
  PROVE  i \in Ancestry(prev)[i] /\ 0 \in Ancestry(prev)[i]
<1>1. i \in Ancestry(prev)[i]
  <2>1. i = 0 \/ i \in 1..Len(prev)
    BY DEF Chained
  <2> QED BY <2>1, AncestryStep
<1> DEFINE T == {j \in 0..Len(prev) : 0 \notin Ancestry(prev)[j]}
<1>2. T = {}
  <2>1. SUFFICES ASSUME T # {} PROVE FALSE
    OBVIOUS
  <2>2. T \in SUBSET Nat
    BY DEF Chained
  <2>3. PICK j \in T : \A k \in T : ~(k < j)
    BY <2>1, <2>2, LeastOf
  <2>4. j \in 1..Len(prev) /\ 0 \notin Ancestry(prev)[j]
    BY AncestryStep
  <2>5. prev[j] \in 0..Len(prev) /\ prev[j] < j
    BY <2>4, AncestryStep
  <2>6. 0 \notin Ancestry(prev)[prev[j]]
    BY <2>4, AncestryStep
  <2> QED BY <2>3, <2>5, <2>6
<1> QED BY <1>1, <1>2

\* What a descendant's ancestor descends from is its ancestor.
LEMMA AncestryTransitive ==
  ASSUME NEW prev, Chained(prev), NEW i \in 0..Len(prev), NEW j \in Ancestry(prev)[i],
         j \in 0..Len(prev), NEW k \in Ancestry(prev)[j]
  PROVE  k \in Ancestry(prev)[i]
<1> DEFINE T == {x \in 0..Len(prev) : j \in Ancestry(prev)[x] /\ k \notin Ancestry(prev)[x]}
<1>1. SUFFICES ASSUME T # {} PROVE FALSE
  OBVIOUS
<1>2. T \in SUBSET Nat
  BY DEF Chained
<1>3. PICK x \in T : \A y \in T : ~(y < x)
  BY <1>1, <1>2, LeastOf
<1>4. x \in 0..Len(prev) /\ j \in Ancestry(prev)[x] /\ k \notin Ancestry(prev)[x] /\ x # j
  OBVIOUS
<1>5. x \in 1..Len(prev)
  BY <1>4, AncestryStep
<1>6. j \in Ancestry(prev)[prev[x]] /\ k \notin Ancestry(prev)[prev[x]]
  BY <1>4, <1>5, AncestryStep
<1>7. prev[x] \in 0..Len(prev) /\ prev[x] < x
  BY <1>5, AncestryStep
<1> QED BY <1>3, <1>6, <1>7

\* What is appended later changes no ancestry.
LEMMA AncestryAppend ==
  ASSUME NEW prev, Chained(prev), NEW x \in 0..Len(prev)
  PROVE  /\ Chained(Append(prev, x)) /\ Len(Append(prev, x)) = Len(prev) + 1
         /\ \A i \in 0..Len(prev) : Ancestry(Append(prev, x))[i] = Ancestry(prev)[i]
<1> DEFINE next == Append(prev, x)
<1>1. Len(next) = Len(prev) + 1 /\ next \in Seq(Nat) /\ \A i \in 1..Len(prev) : next[i] = prev[i]
  BY DEF Chained
<1>2. next[Len(prev) + 1] = x /\ Len(prev) \in Nat
  BY DEF Chained
<1> HIDE DEF next
<1>3. Chained(next)
  <2>1. ASSUME NEW i \in 1..Len(next) PROVE next[i] \in 0..(i - 1)
    <3>1. i \in 1..Len(prev) \/ i = Len(prev) + 1
      BY <1>1, <1>2
    <3> QED BY <1>1, <1>2, <3>1 DEF Chained
  <2> QED BY <1>1, <2>1 DEF Chained
<1> DEFINE T == {i \in 0..Len(prev) : Ancestry(next)[i] # Ancestry(prev)[i]}
<1>4. T = {}
  <2>1. SUFFICES ASSUME T # {} PROVE FALSE
    OBVIOUS
  <2>2. T \in SUBSET Nat
    BY <1>2
  <2>3. PICK i \in T : \A k \in T : ~(k < i)
    BY <2>1, <2>2, LeastOf
  <2>4. i \in 0..Len(prev) /\ i \in 0..Len(next) /\ Ancestry(next)[i] # Ancestry(prev)[i]
    BY <1>1, <1>2
  <2>5. i # 0
    BY <1>3, <2>4, AncestryWorks
  <2>6. prev[i] \in 0..Len(prev) /\ prev[i] < i /\ next[i] = prev[i]
    BY <1>1, <2>4, <2>5, SMTT(30) DEF Chained
  <2>7. /\ Ancestry(next)[i] = {i} \cup Ancestry(next)[next[i]]
        /\ Ancestry(prev)[i] = {i} \cup Ancestry(prev)[prev[i]]
    BY <1>3, <2>4, <2>5, AncestryWorks
  <2>8. Ancestry(next)[prev[i]] # Ancestry(prev)[prev[i]]
    BY <2>4, <2>6, <2>7
  <2> QED BY <2>3, <2>6, <2>8
<1> QED BY <1>1, <1>3, <1>4 DEF next

\* The end of a run of identities, each chained to the one before it, descends
\* from where the run began.
LEMMA AncestryRun ==
  ASSUME NEW prev, Chained(prev), NEW n \in Nat, NEW run,
         \A i \in 0..n : run[i] \in 0..Len(prev),
         \A i \in 1..n : run[i] # 0 /\ prev[run[i]] = run[i - 1]
  PROVE  run[0] \in Ancestry(prev)[run[n]]
<1> DEFINE T == {i \in 0..n : run[0] \notin Ancestry(prev)[run[i]]}
<1>1. SUFFICES ASSUME T # {} PROVE FALSE
  OBVIOUS
<1>2. T \in SUBSET Nat
  OBVIOUS
<1>3. PICK i \in T : \A k \in T : ~(k < i)
  BY <1>1, <1>2, LeastOf
<1>4. i \in 0..n /\ run[0] \notin Ancestry(prev)[run[i]]
  OBVIOUS
<1>5. i # 0
  BY <1>4, AncestrySelf
<1>6. i - 1 \in 0..n /\ i - 1 < i /\ i \in 1..n
  BY <1>4, <1>5
<1>7. run[i] \in 1..Len(prev) /\ prev[run[i]] = run[i - 1]
  BY <1>4, <1>6 DEF Chained
<1>8. Ancestry(prev)[run[i]] = {run[i]} \cup Ancestry(prev)[run[i - 1]]
  BY <1>7, AncestryStep
<1> QED BY <1>3, <1>4, <1>6, <1>8

-----------------------------------------------------------------------------
(***************************************************************************)
(* The invariant.  A server's descriptors and rows are chained, whatever   *)
(* copy was put back.  Until one is, all that a handle or the owner's      *)
(* state remembers, and all that an answer under way carries, is still on  *)
(* the server, at the place it was read from.  Once one is, what was       *)
(* verified before still holds: every view, pin and head descends from     *)
(* what was remembered, and no version seen is above the one pinned.       *)
(***************************************************************************)

\* The descriptors and the rows that were ever made, at some place.
Made == [gen : 1..MaxDescs, id : 1..Len(descPrev)]
Rows == [seq : 1..MaxRows, id : 1..Len(rowPrev)]

Family(d) == Ancestry(descPrev)[d.id]
History(r) == Ancestry(rowPrev)[r.id]

\* A server's chains.
Whole(s) ==
    /\ s \in Servers
    /\ Len(s.descs) \in 1..Len(descPrev) /\ Len(s.log) \in 1..Len(rowPrev)
    /\ \A g \in 1..Len(s.descs) : s.descs[g] \in 1..Len(descPrev)
    /\ \A g \in 2..Len(s.descs) : descPrev[s.descs[g]] = s.descs[g - 1]
    /\ \A q \in 1..Len(s.log) : s.log[q] \in 1..Len(rowPrev)
    /\ rowPrev[s.log[1]] = 0
    /\ \A q \in 2..Len(s.log) : rowPrev[s.log[q]] = s.log[q - 1]
    /\ s.live => s.ver > 0

Stored ==
    /\ Chained(descPrev) /\ Len(descPrev) <= MaxDescs
    /\ Chained(rowPrev) /\ Len(rowPrev) <= MaxRows
    /\ Whole(srv)
    /\ bak = <<>> \/ (Len(bak) = 1 /\ Whole(bak[1]))
    /\ restored \in BOOLEAN /\ plan \in Workloads

\* Still on the server, where it was read.
OnChain(d) == d.gen \in 1..Len(srv.descs) /\ srv.descs[d.gen] = d.id
InLog(r) == r = GENESIS \/ (r.seq \in 1..Len(srv.log) /\ srv.log[r.seq] = r.id)
Reached(vers) == \A i \in DescIds : vers[i] <= srv.ver

SeenPinned(p) == \A i \in DescIds : p.seen[i] <= p.vers[i]

\* What the owner remembers.
Remembered(m) ==
    /\ m \in LocalStates
    /\ m.pin = NoDesc \/ m.pin \in Made
    /\ m.head = GENESIS \/ m.head \in Rows
    /\ SeenPinned(m)
    /\ ~restored => /\ m.pin = NoDesc \/ OnChain(m.pin)
                    /\ Reached(m.vers) /\ InLog(m.head)

\* The handle.
Handled ==
    /\ h \in [at : {"closed", "opening", "open"}, view : Descs, pin : Descs,
              vers : VersionPins, seen : VersionPins,
              out : {"none", "generation_rollback", "binding_mismatch"}]
    /\ SeenPinned(h)
    /\ h.at # "closed" => h.view \in Made /\ h.pin \in Made
    /\ h.at = "opening" => h.pin = h.view /\ mem.pin # NoDesc /\ mem.pin.gen < h.view.gen
    /\ h.at = "open" => mem.pin.id \in Family(h.view) /\ mem.pin.id \in Family(h.pin)
    /\ ~restored => /\ h.out = "none" /\ Reached(h.vers)
                    /\ h.at # "closed" => OnChain(h.view) /\ OnChain(h.pin)

\* A listing's one item.
Item(i) == i = <<>> \/ (Len(i) = 1 /\ i[1].ver \in 0..MaxVer /\ i[1].desc \in Made)
ItemServed(i) == i # <<>> => i[1].ver <= srv.ver /\ OnChain(i[1].desc)

\* Rows fetched after the head, in order and as logged.
Served(rows, after) ==
    \A i \in 1..Len(rows) : /\ rows[i].seq = after + i /\ after + i <= Len(srv.log)
                            /\ rows[i].id = srv.log[after + i]

\* What a call under way carries.
Reading(c, lag) ==
    CASE c.at \in {"fetched", "wrote"} ->
            /\ c.view \in Made /\ c.ver \in 0..MaxVer
            /\ c.at = "fetched" => c.floor \in 0..MaxVer /\ c.floor <= h.seen[c.view.id]
            /\ ~restored => /\ c.ver <= srv.ver
                            /\ ~lag => h.vers[c.view.id] <= c.ver
      [] c.at = "missed" ->
            /\ c.view \in Made /\ c.absent \in BOOLEAN
            /\ ~restored /\ ~c.absent => c.view.gen < Len(srv.descs)
      [] c.at = "listed" ->
            /\ c.view \in Made /\ Item(c.item)
            /\ ~restored => /\ OnChain(c.view) /\ ItemServed(c.item)
                            /\ ~lag /\ c.item # <<>> => h.vers[c.view.id] <= c.item[1].ver
      [] c.at = "write" -> c.ver \in 0..MaxVer /\ c.live \in BOOLEAN
      [] c.at = "conflict" -> c.view \in Made /\ (~restored => OnChain(c.view))

Refreshing(c, lag) ==
    CASE c.at = "refresh" ->
            /\ c.d \in Made
            /\ ~restored => /\ OnChain(c.d)
                            /\ ~lag => h.pin.gen <= c.d.gen
      [] c.at = "chain" ->
            /\ c.d \in Made /\ c.pin \in Made /\ c.pin.gen < c.d.gen
            /\ mem.pin.id \in Family(c.pin)
            /\ ~restored => OnChain(c.d) /\ OnChain(c.pin)
      [] c.at \in {"adopt", "repin"} ->
            /\ c.d \in Made /\ mem.pin.id \in Family(c.d)
            /\ ~restored => OnChain(c.d)

Verifying(c, lag) ==
    CASE c.at = "audit_rows" ->
            /\ c.rows \in Seq(Rows)
            /\ ~restored => Served(c.rows, mem.head.seq)
      [] c.at = "audit_head" ->
            /\ c.rows \in Seq(Rows) /\ c.page \in Seq(Rows) /\ Len(c.page) <= Page
            /\ c.fmt \in 0..MaxRows
            /\ ~restored =>
                  /\ Served(c.rows, mem.head.seq) /\ Served(c.page, mem.head.seq + Len(c.rows))
                  /\ ~lag /\ Len(c.page) < Page =>
                        Len(srv.log) = mem.head.seq + Len(c.rows) + Len(c.page)
      [] c.at \in {"audit_before", "audit_names", "audit_done"} ->
            /\ c.head = GENESIS \/ c.head \in Rows
            /\ mem.head.id \in History(c.head)
            /\ ~restored => InLog(c.head)
            /\ c.at = "audit_before" => mem.head # GENESIS
            /\ c.at = "audit_done" => /\ c.view \in Made /\ Item(c.item)
                                      /\ ~restored => ItemServed(c.item)

ReadAts == {"fetched", "missed", "listed", "write", "wrote", "conflict"}
RefreshAts == {"refresh", "chain", "adopt", "repin"}

Runs(c, lag) ==
    \/ c.at = "idle" /\ c.out \in Outs
    \/ c.at \in ReadAts /\ h.at = "open" /\ Reading(c, lag)
    \/ c.at \in RefreshAts /\ h.at = "open" /\ Refreshing(c, lag)
    \/ c.at \in Auditing /\ h.at = "open" /\ Verifying(c, lag)

\* Who may audit, and refresh.
Exclusive == \A t, u \in Threads : op[t].at \in Auditing /\ op[u].at \in Auditing => t = u
Asked == \A t \in Threads : op[t].at \in RefreshAts => "refresh" \in plan.calls[t]

\* What a handle that one thread refreshes keeps between the two locks.
OneRefreshes == \E t \in Threads : \A u \in Threads \ {t} : "refresh" \notin plan.calls[u]
Follows(c) ==
    /\ c.at = "chain" => c.pin = h.pin
    /\ c.at = "adopt" => h.pin.gen <= c.d.gen
    /\ c.at = "repin" => h.view = c.d /\ h.pin.gen <= c.d.gen
InOrder ==
    /\ \A t \in Threads : Follows(op[t])
    /\ (\A t \in Threads : op[t].at # "repin") => h.view = h.pin

Sound ==
    /\ Stored
    /\ Remembered(mem) /\ Remembered(disk)
    /\ Handled
    /\ late \in [Threads -> BOOLEAN]
    /\ \A t \in Threads : Runs(op[t], late[t])
    /\ Exclusive /\ Asked

IInv == Sound /\ (OneRefreshes => InOrder)

-----------------------------------------------------------------------------
(* What a step of the server keeps. *)

\* The server's chains only grow, unless a copy is put back.
Grows ==
    /\ Stored' /\ plan' = plan
    /\ restored => restored'
    /\ Len(descPrev) <= Len(descPrev') /\ Len(rowPrev) <= Len(rowPrev')
    /\ \A i \in 0..Len(descPrev) : Ancestry(descPrev)'[i] = Ancestry(descPrev)[i]
    /\ \A i \in 0..Len(rowPrev) : Ancestry(rowPrev)'[i] = Ancestry(rowPrev)[i]
    /\ ~restored' => /\ srv.ver <= srv'.ver
                     /\ Len(srv.descs) <= Len(srv'.descs) /\ Len(srv.log) <= Len(srv'.log)
                     /\ \A g \in 1..Len(srv.descs) : srv'.descs[g] = srv.descs[g]
                     /\ \A q \in 1..Len(srv.log) : srv'.log[q] = srv.log[q]

\* The types of a whole server's parts.
LEMMA WholeTypes ==
  ASSUME Stored, NEW s, Whole(s)
  PROVE  /\ s.ver \in 0..MaxVer /\ s.live \in BOOLEAN /\ s.fmt \in 0..MaxRows
         /\ s.descs \in Seq(DescIds) /\ s.log \in Seq(1..MaxRows)
         /\ Len(s.descs) \in Nat /\ Len(s.log) \in Nat
         /\ Len(descPrev) \in Nat /\ Len(rowPrev) \in Nat
         /\ Len(s.descs) \in 1..MaxDescs /\ Len(s.log) \in 1..MaxRows
<1>1. s \in Servers /\ Len(descPrev) \in Nat /\ Len(rowPrev) \in Nat
  BY DEF Stored, Whole, Chained
<1>2. s.descs \in Seq(DescIds) /\ s.log \in Seq(1..MaxRows)
  BY <1>1 DEF Servers
<1>3. s.ver \in 0..MaxVer /\ s.fmt \in 0..MaxRows
  BY <1>1 DEF Servers
<1>4. s.live \in BOOLEAN
  BY <1>1 DEF Servers
<1>5. Len(s.descs) \in 1..MaxDescs /\ Len(s.log) \in 1..MaxRows
  BY <1>1, VaultHandleAssumption, SMTT(30) DEF Stored, Whole
<1> QED BY <1>1, <1>2, <1>3, <1>4, <1>5

\* A workload's bounds.
LEMMA PlanTypes ==
  ASSUME Stored
  PROVE  /\ plan.descs \in Nat /\ plan.descs <= MaxDescs
         /\ plan.vers \in Nat /\ plan.vers <= MaxVer
         /\ plan.rows \in Nat /\ plan.rows <= MaxRows
         /\ MaxDescs \in Nat /\ MaxVer \in Nat /\ MaxRows \in Nat
BY VaultHandleAssumption DEF Stored

\* A server is as whole after more identities were made.
LEMMA StillWhole ==
  ASSUME NEW s, Whole(s), Stored,
         Len(descPrev) <= Len(descPrev'), Len(rowPrev) <= Len(rowPrev'),
         Len(descPrev') \in Nat, Len(rowPrev') \in Nat,
         \A i \in 1..Len(descPrev) : descPrev'[i] = descPrev[i],
         \A i \in 1..Len(rowPrev) : rowPrev'[i] = rowPrev[i]
  PROVE  Whole(s)'
<1>1. Len(s.descs) \in Nat /\ Len(s.log) \in Nat /\ Len(descPrev) \in Nat /\ Len(rowPrev) \in Nat
  BY WholeTypes
<1>2. s \in Servers
  BY DEF Whole
<1>3. Len(s.descs) \in 1..Len(descPrev') /\ Len(s.log) \in 1..Len(rowPrev')
  BY <1>1 DEF Whole
<1>4. \A g \in 1..Len(s.descs) : s.descs[g] \in 1..Len(descPrev')
  BY <1>1 DEF Whole
<1>5. \A q \in 1..Len(s.log) : s.log[q] \in 1..Len(rowPrev')
  BY <1>1 DEF Whole
<1>6. ASSUME NEW g \in 2..Len(s.descs) PROVE descPrev'[s.descs[g]] = s.descs[g - 1]
  <2>1. g \in 1..Len(s.descs)
    BY <1>1
  <2> QED BY <2>1 DEF Whole
<1>7. ASSUME NEW q \in 2..Len(s.log) PROVE rowPrev'[s.log[q]] = s.log[q - 1]
  <2>1. q \in 1..Len(s.log)
    BY <1>1
  <2> QED BY <2>1 DEF Whole
<1>8. rowPrev'[s.log[1]] = 0
  <2>1. 1 \in 1..Len(s.log)
    BY <1>1 DEF Whole
  <2> QED BY <2>1 DEF Whole
<1> QED BY <1>2, <1>3, <1>4, <1>5, <1>6, <1>7, <1>8 DEF Whole

\* So is the copy that was taken of it.
LEMMA BackupWhole ==
  ASSUME Stored, bak' = bak,
         Len(descPrev) <= Len(descPrev'), Len(rowPrev) <= Len(rowPrev'),
         Len(descPrev') \in Nat, Len(rowPrev') \in Nat,
         \A i \in 1..Len(descPrev) : descPrev'[i] = descPrev[i],
         \A i \in 1..Len(rowPrev) : rowPrev'[i] = rowPrev[i]
  PROVE  (bak = <<>> \/ (Len(bak) = 1 /\ Whole(bak[1])))'
<1>1. CASE bak = <<>>
  BY <1>1
<1>2. CASE bak # <<>>
  <2>1. PICK s : s = bak[1]
    OBVIOUS
  <2>2. Whole(s) /\ Len(bak) = 1
    BY <1>2, <2>1 DEF Stored
  <2>3. Whole(s)'
    BY <2>2, StillWhole
  <2>4. s = bak'[1]
    BY <2>1
  <2> QED BY <2>2, <2>3, <2>4
<1> QED BY <1>1, <1>2

\* A step that leaves the server alone.
LEMMA StillGrows ==
  ASSUME Stored, UNCHANGED <<server, plan>>
  PROVE  Grows
<1>1. UNCHANGED <<srv, bak, restored, descPrev, rowPrev, plan>>
  BY DEF server, store
<1>2. Stored'
  BY <1>1 DEF Stored, Whole
<1>3. Len(srv.descs) \in Nat /\ Len(srv.log) \in Nat /\ srv.ver \in Nat
      /\ Len(descPrev) \in Nat /\ Len(rowPrev) \in Nat
  BY WholeTypes, VaultHandleAssumption DEF Stored
<1> QED BY <1>1, <1>2, <1>3 DEF Grows

\* A row is appended, or none is kept, and the server becomes `s`.
LEMMA AppendAudit ==
  ASSUME Stored, NEW s \in Servers, append_audit(s), s.log = srv.log
  PROVE  /\ srv'.descs = s.descs /\ srv'.ver = s.ver /\ srv'.live = s.live /\ srv' \in Servers
         /\ Chained(rowPrev') /\ Len(rowPrev') <= MaxRows
         /\ Len(rowPrev) <= Len(rowPrev') /\ Len(rowPrev') \in Nat
         /\ \A i \in 0..Len(rowPrev) : Ancestry(rowPrev')[i] = Ancestry(rowPrev)[i]
         /\ \A i \in 1..Len(rowPrev) : rowPrev'[i] = rowPrev[i]
         /\ Len(srv.log) <= Len(srv'.log) /\ Len(srv'.log) \in 1..Len(rowPrev')
         /\ \A q \in 1..Len(srv.log) : srv'.log[q] = srv.log[q]
         /\ \A q \in 1..Len(srv'.log) : srv'.log[q] \in 1..Len(rowPrev')
         /\ rowPrev'[srv'.log[1]] = 0
         /\ \A q \in 2..Len(srv'.log) : rowPrev'[srv'.log[q]] = srv'.log[q - 1]
<1>1. /\ srv.log \in Seq(1..MaxRows) /\ srv.fmt \in 0..MaxRows /\ Len(srv.log) \in Nat
      /\ Len(rowPrev) \in Nat /\ Len(srv.log) \in 1..Len(rowPrev) /\ Whole(srv)
      /\ Chained(rowPrev) /\ Len(rowPrev) <= MaxRows /\ MaxRows \in Nat
  BY WholeTypes, PlanTypes DEF Stored, Whole
<1>2. /\ \A q \in 1..Len(srv.log) : srv.log[q] \in 1..Len(rowPrev)
      /\ rowPrev[srv.log[1]] = 0
      /\ \A q \in 2..Len(srv.log) : rowPrev[srv.log[q]] = srv.log[q - 1]
  BY <1>1 DEF Whole
<1>3. s \in Servers
  OBVIOUS
<1>4. CASE srv' = s /\ UNCHANGED rowPrev
  <2>1. /\ srv'.descs = s.descs /\ srv'.ver = s.ver /\ srv'.live = s.live /\ srv' \in Servers
        /\ srv'.log = srv.log /\ rowPrev' = rowPrev
    BY <1>3, <1>4
  <2>2. /\ Chained(rowPrev') /\ Len(rowPrev') <= MaxRows
        /\ Len(rowPrev) <= Len(rowPrev') /\ Len(rowPrev') \in Nat
        /\ \A i \in 0..Len(rowPrev) : Ancestry(rowPrev')[i] = Ancestry(rowPrev)[i]
        /\ Len(srv.log) <= Len(srv'.log) /\ Len(srv'.log) \in 1..Len(rowPrev')
    BY <1>1, <2>1
  <2>3. /\ \A q \in 1..Len(srv'.log) : srv'.log[q] \in 1..Len(rowPrev')
        /\ rowPrev'[srv'.log[1]] = 0
        /\ \A q \in 2..Len(srv'.log) : rowPrev'[srv'.log[q]] = srv'.log[q - 1]
    BY <1>2, <2>1
  <2> QED BY <2>1, <2>2, <2>3
<1>5. CASE /\ Len(rowPrev) < plan.rows
           /\ srv' = [s EXCEPT !.log = Append(@, Len(rowPrev) + 1)]
           /\ rowPrev' = Append(rowPrev, LogHead.id)
  <2> DEFINE n == Len(rowPrev)
             last == LogHead.id
             log == Append(srv.log, n + 1)
  <2>1. last \in 1..n /\ last = srv.log[Len(srv.log)]
    BY <1>1, <1>2 DEF LogHead
  <2>2. n + 1 \in 1..MaxRows /\ n \in Nat
    BY <1>1, <1>5, PlanTypes
  <2>3. /\ Len(log) = Len(srv.log) + 1 /\ log \in Seq(1..MaxRows)
        /\ \A q \in 1..Len(srv.log) : log[q] = srv.log[q]
        /\ log[Len(srv.log) + 1] = n + 1
    BY <1>1, <2>2
  <2>4. /\ srv'.log = log /\ srv'.descs = s.descs /\ srv'.ver = s.ver /\ srv'.live = s.live
        /\ srv' \in Servers
    <3> HIDE DEF log
    <3>1. srv' = [s EXCEPT !.log = log]
      BY <1>5 DEF log
    <3> QED BY <1>3, <2>3, <3>1 DEF Servers
  <2>5. /\ Chained(rowPrev') /\ Len(rowPrev') = n + 1
        /\ \A i \in 0..n : Ancestry(rowPrev')[i] = Ancestry(rowPrev)[i]
    BY <1>1, <1>5, <2>1, AncestryAppend
  <2>6. /\ \A i \in 1..n : rowPrev'[i] = rowPrev[i]
        /\ rowPrev'[n + 1] = last
    BY <1>1, <1>5 DEF Chained
  <2> HIDE DEF n, last, log
  <2>7. ASSUME NEW q \in 1..Len(log) PROVE log[q] \in 1..Len(rowPrev')
    <3>1. q \in 1..Len(srv.log) \/ q = Len(srv.log) + 1
      BY <1>1, <2>3
    <3> QED BY <1>2, <2>2, <2>3, <2>5, <3>1, SMTT(30) DEF n
  <2>8. ASSUME NEW q \in 2..Len(log) PROVE rowPrev'[log[q]] = log[q - 1]
    <3>1. CASE q \in 2..Len(srv.log)
      <4>1. q \in 1..Len(srv.log) /\ q - 1 \in 1..Len(srv.log)
        BY <1>1, <3>1
      <4> QED BY <1>2, <2>3, <2>6, <3>1, <4>1 DEF n
    <3>2. CASE q = Len(srv.log) + 1
      <4>1. q - 1 = Len(srv.log) /\ Len(srv.log) \in 1..Len(srv.log)
        BY <1>1, <3>2
      <4>2. log[q] = n + 1 /\ log[q - 1] = srv.log[Len(srv.log)]
        BY <2>3, <3>2, <4>1
      <4> QED BY <2>1, <2>6, <4>2
    <3>3. q \in 2..Len(srv.log) \/ q = Len(srv.log) + 1
      <4>1. Len(srv.log) \in Nat /\ Len(log) = Len(srv.log) + 1
        BY <1>1, <2>3
      <4> QED BY <2>8, <4>1
    <3> QED BY <3>1, <3>2, <3>3
  <2>9. rowPrev'[log[1]] = 0
    <3>1. 1 \in 1..Len(srv.log)
      BY <1>1
    <3> QED BY <1>2, <2>3, <2>6, <3>1 DEF n
  <2>10. /\ Len(rowPrev') <= MaxRows /\ Len(rowPrev) <= Len(rowPrev') /\ Len(rowPrev') \in Nat
         /\ Len(srv.log) <= Len(log) /\ Len(log) \in 1..Len(rowPrev')
    <3>1. n = Len(rowPrev) /\ n <= MaxRows /\ n \in Nat /\ n + 1 <= MaxRows
      BY <1>1, <2>2 DEF n
    <3>2. Len(srv.log) <= n /\ Len(srv.log) \in Nat /\ Len(log) = Len(srv.log) + 1
      BY <1>1, <2>3, <3>1
    <3>3. Len(rowPrev') = n + 1
      BY <2>5
    <3> QED BY <3>1, <3>2, <3>3
  <2> QED BY <2>3, <2>4, <2>5, <2>6, <2>7, <2>8, <2>9, <2>10 DEF n
<1> QED BY <1>4, <1>5 DEF append_audit

\* A request that may change the record, and is audited.
LEMMA RecordGrows ==
  ASSUME Stored, NEW s \in Servers, append_audit(s), s.log = srv.log, s.descs = srv.descs,
         srv.ver <= s.ver, s.live => s.ver > 0, UNCHANGED <<descPrev, store, plan>>
  PROVE  Grows /\ srv'.descs = srv.descs /\ srv'.ver = s.ver /\ srv'.live = s.live
<1>1. srv.descs \in Seq(DescIds) /\ Whole(srv) /\ Len(srv.descs) \in Nat /\ Len(descPrev) \in Nat
  BY WholeTypes DEF Stored
<1>2. UNCHANGED <<bak, restored>>
  BY DEF store
<1>3. /\ srv'.descs = s.descs /\ srv'.ver = s.ver /\ srv'.live = s.live /\ srv' \in Servers
      /\ Chained(rowPrev') /\ Len(rowPrev') <= MaxRows
      /\ Len(rowPrev) <= Len(rowPrev') /\ Len(rowPrev') \in Nat
      /\ \A i \in 0..Len(rowPrev) : Ancestry(rowPrev')[i] = Ancestry(rowPrev)[i]
      /\ \A i \in 1..Len(rowPrev) : rowPrev'[i] = rowPrev[i]
      /\ Len(srv.log) <= Len(srv'.log) /\ Len(srv'.log) \in 1..Len(rowPrev')
      /\ \A q \in 1..Len(srv.log) : srv'.log[q] = srv.log[q]
  BY <1>1, AppendAudit
<1>4. /\ \A q \in 1..Len(srv'.log) : srv'.log[q] \in 1..Len(rowPrev')
      /\ rowPrev'[srv'.log[1]] = 0
      /\ \A q \in 2..Len(srv'.log) : rowPrev'[srv'.log[q]] = srv'.log[q - 1]
  BY <1>1, AppendAudit
<1>5. /\ Len(srv.descs) \in 1..Len(descPrev)
      /\ \A g \in 1..Len(srv.descs) : srv.descs[g] \in 1..Len(descPrev)
      /\ \A g \in 2..Len(srv.descs) : descPrev[srv.descs[g]] = srv.descs[g - 1]
  BY <1>1 DEF Whole
<1>6. Whole(srv)'
  BY <1>3, <1>4, <1>5 DEF Whole
<1>7. (bak = <<>> \/ (Len(bak) = 1 /\ Whole(bak[1])))'
  BY <1>2, <1>3, <1>1, BackupWhole
<1>8. Stored'
  BY <1>2, <1>3, <1>6, <1>7 DEF Stored
<1> QED BY <1>1, <1>2, <1>3, <1>8 DEF Grows

\* Another client's put or delete.
LEMMA PutGrows == ASSUME Stored, put_record PROVE Grows
<1>1. PICK live \in BOOLEAN : /\ live \/ srv.live
                              /\ append_audit([srv EXCEPT !.ver = @ + 1, !.live = live])
  BY DEF put_record
<1> DEFINE s == [srv EXCEPT !.ver = @ + 1, !.live = live]
<1>2. /\ srv \in Servers /\ srv.ver \in 0..MaxVer /\ srv.ver < plan.vers
      /\ plan.vers \in Nat /\ plan.vers <= MaxVer /\ MaxVer \in Nat
  BY WholeTypes, PlanTypes DEF put_record, Stored, Whole
<1>3. srv.ver + 1 \in 0..MaxVer /\ srv.ver <= srv.ver + 1 /\ srv.ver + 1 > 0
  BY <1>2
<1>4. /\ s \in Servers /\ s.log = srv.log /\ s.descs = srv.descs /\ s.live = live
      /\ s.ver = srv.ver + 1
  BY <1>2, <1>3 DEF Servers
<1> HIDE DEF s
<1>5. UNCHANGED <<descPrev, store, plan>>
  BY DEF put_record, client
<1>6. append_audit(s)
  BY <1>1 DEF s
<1> QED BY <1>3, <1>4, <1>5, <1>6, RecordGrows

\* Another owner's rotation.
LEMMA RotationGrows == ASSUME Stored, apply_rotation PROVE Grows
<1> DEFINE n == Len(descPrev)
           descs == Append(srv.descs, n + 1)
           s == [srv EXCEPT !.descs = Append(@, Len(descPrev) + 1)]
<1>1. /\ Whole(srv) /\ srv \in Servers /\ srv.descs \in Seq(DescIds) /\ srv.ver \in 0..MaxVer
      /\ srv.live \in BOOLEAN /\ n \in Nat /\ Len(srv.descs) \in Nat
      /\ MaxVer \in Nat /\ Chained(descPrev)
  BY WholeTypes, PlanTypes DEF Stored, Whole
<1>2. n + 1 \in DescIds
  BY <1>1, PlanTypes DEF apply_rotation, DescIds
<1>3. /\ descs \in Seq(DescIds) /\ Len(descs) = Len(srv.descs) + 1
      /\ \A g \in 1..Len(srv.descs) : descs[g] = srv.descs[g]
      /\ descs[Len(srv.descs) + 1] = n + 1
  BY <1>1, <1>2
<1>4. /\ s.log = srv.log /\ s.descs = descs /\ s.live = srv.live /\ s.ver = srv.ver
      /\ s \in Servers
  <2>1. s = [srv EXCEPT !.descs = descs]
    BY <1>1
  <2> HIDE DEF s, descs
  <2> QED BY <1>1, <1>3, <2>1 DEF Servers
<1>5. append_audit(s) /\ UNCHANGED <<bak, restored, plan>>
  BY DEF apply_rotation, store, client
<1>6. /\ Len(srv.descs) \in 1..n
      /\ \A g \in 1..Len(srv.descs) : srv.descs[g] \in 1..n
      /\ \A g \in 2..Len(srv.descs) : descPrev[srv.descs[g]] = srv.descs[g - 1]
  BY <1>1 DEF Whole
<1>7. Current.id \in 1..n /\ Current.id = srv.descs[Len(srv.descs)]
  BY <1>1, <1>6 DEF Current
<1>8. /\ Chained(descPrev') /\ Len(descPrev') = n + 1
      /\ \A i \in 0..n : Ancestry(descPrev')[i] = Ancestry(descPrev)[i]
  BY <1>1, <1>7, AncestryAppend DEF apply_rotation
<1>9. /\ \A i \in 1..n : descPrev'[i] = descPrev[i]
      /\ descPrev'[n + 1] = Current.id
  BY <1>1 DEF apply_rotation, Chained
<1>10. n = Len(descPrev)
  OBVIOUS
<1> HIDE DEF s, descs, n
<1>11. /\ srv'.descs = s.descs /\ srv'.ver = s.ver /\ srv'.live = s.live /\ srv' \in Servers
       /\ Chained(rowPrev') /\ Len(rowPrev') <= MaxRows
       /\ Len(rowPrev) <= Len(rowPrev') /\ Len(rowPrev') \in Nat
       /\ \A i \in 0..Len(rowPrev) : Ancestry(rowPrev')[i] = Ancestry(rowPrev)[i]
       /\ \A i \in 1..Len(rowPrev) : rowPrev'[i] = rowPrev[i]
       /\ Len(srv.log) <= Len(srv'.log) /\ Len(srv'.log) \in 1..Len(rowPrev')
       /\ \A q \in 1..Len(srv.log) : srv'.log[q] = srv.log[q]
  BY <1>1, <1>3, <1>4, <1>5, AppendAudit
<1>12. /\ \A q \in 1..Len(srv'.log) : srv'.log[q] \in 1..Len(rowPrev')
       /\ rowPrev'[srv'.log[1]] = 0
       /\ \A q \in 2..Len(srv'.log) : rowPrev'[srv'.log[q]] = srv'.log[q - 1]
  BY <1>1, <1>3, <1>4, <1>5, AppendAudit
<1>13. ASSUME NEW g \in 1..Len(descs) PROVE descs[g] \in 1..Len(descPrev')
  <2>1. g \in 1..Len(srv.descs) \/ g = Len(srv.descs) + 1
    BY <1>1, <1>3
  <2> QED BY <1>1, <1>3, <1>6, <1>8, <2>1, SMTT(30)
<1>14. ASSUME NEW g \in 2..Len(descs) PROVE descPrev'[descs[g]] = descs[g - 1]
  <2>1. g \in 2..Len(srv.descs) \/ g = Len(srv.descs) + 1
    BY <1>1, <1>3
  <2>2. CASE g \in 2..Len(srv.descs)
    <3>1. g \in 1..Len(srv.descs) /\ g - 1 \in 1..Len(srv.descs)
      BY <1>1, <2>2
    <3> QED BY <1>3, <1>6, <1>9, <2>2, <3>1
  <2>3. CASE g = Len(srv.descs) + 1
    <3>1. g - 1 = Len(srv.descs) /\ Len(srv.descs) \in 1..Len(srv.descs)
      BY <1>1, <1>6, <2>3
    <3>2. descs[g] = n + 1 /\ descs[g - 1] = srv.descs[Len(srv.descs)]
      BY <1>3, <2>3, <3>1
    <3> QED BY <1>7, <1>9, <3>2
  <2> QED BY <2>1, <2>2, <2>3
<1>15. Len(descs) \in 1..Len(descPrev') /\ Len(descPrev') <= MaxDescs /\ Len(descPrev') \in Nat
       /\ Len(descPrev) <= Len(descPrev') /\ Len(srv.descs) <= Len(descs)
  BY <1>1, <1>2, <1>3, <1>6, <1>8, <1>10 DEF DescIds
<1>16. srv'.live => srv'.ver > 0
  BY <1>1, <1>4, <1>11 DEF Whole
<1>17. Whole(srv)'
  BY <1>4, <1>11, <1>12, <1>13, <1>14, <1>15, <1>16 DEF Whole
<1>18. (bak = <<>> \/ (Len(bak) = 1 /\ Whole(bak[1])))'
  BY <1>5, <1>9, <1>10, <1>11, <1>15, BackupWhole
<1>19. Stored'
  BY <1>5, <1>8, <1>11, <1>15, <1>17, <1>18 DEF Stored
<1>20. srv.ver <= srv'.ver /\ srv'.descs = descs
  BY <1>1, <1>4, <1>11
<1> QED BY <1>3, <1>5, <1>8, <1>10, <1>11, <1>15, <1>19, <1>20 DEF Grows

\* The operator's copy, its return, and the upgrade.
LEMMA OperatorGrows == ASSUME Stored, Backup \/ Restore \/ Upgrade PROVE Grows
<1>1. UNCHANGED <<descPrev, rowPrev, plan>>
  BY DEF Backup, Restore, Upgrade, client
<1>2. /\ Whole(srv) /\ Len(srv.descs) \in Nat /\ Len(srv.log) \in Nat /\ srv.ver \in 0..MaxVer
      /\ Len(descPrev) \in Nat /\ Len(rowPrev) \in Nat /\ MaxVer \in Nat
  BY WholeTypes, PlanTypes DEF Stored
<1>3. CASE Backup
  <2>1. srv' = srv /\ restored' = restored /\ bak' = <<srv>>
    BY <1>3 DEF Backup
  <2>2. Len(bak') = 1 /\ bak'[1] = srv'
    BY <2>1
  <2>3. Whole(srv)' /\ Whole(bak[1])'
    BY <1>1, <1>2, <2>1, <2>2 DEF Whole
  <2>4. Stored'
    BY <1>1, <2>1, <2>2, <2>3 DEF Stored
  <2> QED BY <1>1, <1>2, <2>1, <2>4 DEF Grows
<1>4. CASE Restore
  <2>1. bak # <<>> /\ srv' = bak[1] /\ restored' = TRUE /\ bak' = bak
    BY <1>4 DEF Restore
  <2>2. Len(bak') = 1 /\ bak'[1] = srv' /\ Whole(bak[1])
    BY <2>1 DEF Stored
  <2>3. Whole(srv)' /\ Whole(bak[1])'
    BY <1>1, <2>1, <2>2 DEF Whole
  <2>4. Stored'
    BY <1>1, <2>1, <2>2, <2>3 DEF Stored
  <2> QED BY <1>1, <1>2, <2>1, <2>4 DEF Grows
<1>5. CASE Upgrade
  <2>1. srv' = [srv EXCEPT !.fmt = Len(srv.log)] /\ UNCHANGED <<bak, restored>>
    BY <1>5 DEF Upgrade, store
  <2>2. Len(srv.log) \in 0..MaxRows /\ srv \in Servers
    <3>1. Whole(srv)
      BY DEF Stored
    <3>2. Len(srv.log) \in 1..MaxRows
      BY <3>1, WholeTypes
    <3>3. srv \in Servers
      BY <3>1 DEF Whole
    <3> QED BY <3>2, <3>3
  <2>3. /\ srv' \in Servers /\ srv'.descs = srv.descs /\ srv'.log = srv.log
        /\ srv'.ver = srv.ver /\ srv'.live = srv.live
    BY <2>1, <2>2 DEF Servers
  <2>4. Whole(srv)'
    BY <1>1, <1>2, <2>3 DEF Whole
  <2>5. (bak = <<>> \/ (Len(bak) = 1 /\ Whole(bak[1])))'
    BY <1>1, <1>2, <2>1, BackupWhole
  <2>6. Stored'
    BY <1>1, <2>1, <2>4, <2>5 DEF Stored
  <2> QED BY <1>1, <1>2, <2>1, <2>3, <2>6 DEF Grows
<1> QED BY <1>3, <1>4, <1>5

\* What is on a server stays there as it grows, and what was made stays made.
LEMMA KeptFacts ==
  ASSUME Stored, Grows
  PROVE  /\ \A d \in Made : d \in Made' /\ Family(d)' = Family(d)
         /\ \A r \in Rows : r \in Rows'
         /\ \A r : r = GENESIS \/ r \in Rows => History(r)' = History(r)
         /\ ~restored' =>
               /\ ~restored /\ srv.ver <= srv'.ver
               /\ Len(srv.descs) <= Len(srv'.descs) /\ Len(srv.log) <= Len(srv'.log)
               /\ \A d : OnChain(d) => OnChain(d)'
               /\ \A r : InLog(r) => InLog(r)'
<1>1. /\ Len(srv.descs) \in Nat /\ Len(srv.log) \in Nat /\ srv.ver \in 0..MaxVer
      /\ Len(descPrev) \in Nat /\ Len(rowPrev) \in Nat /\ MaxVer \in Nat
  BY WholeTypes, PlanTypes DEF Stored
<1>2. Stored'
  BY DEF Grows
<1>3. /\ Len(srv'.descs) \in Nat /\ Len(srv'.log) \in Nat /\ srv'.ver \in 0..MaxVer
      /\ Len(descPrev') \in Nat /\ Len(rowPrev') \in Nat
  <2>2. Whole(srv)'
    BY <1>2 DEF Stored
  <2>3. (srv \in Servers)' /\ Len(srv'.descs) \in 1..Len(descPrev') /\ Len(srv'.log) \in 1..Len(rowPrev')
    BY <2>2 DEF Whole
  <2>4. Chained(descPrev') /\ Chained(rowPrev')
    BY <1>2 DEF Stored
  <2> QED BY <2>3, <2>4 DEF Servers, Chained
<1>4. Len(descPrev) <= Len(descPrev') /\ Len(rowPrev) <= Len(rowPrev')
  BY DEF Grows
<1>5. ASSUME NEW d \in Made PROVE d \in Made' /\ Family(d)' = Family(d)
  <2>1. d.id \in 1..Len(descPrev) /\ d.id \in 0..Len(descPrev)
    BY <1>1, <1>5 DEF Made
  <2>2. d \in Made'
    BY <1>1, <1>3, <1>4, <1>5 DEF Made
  <2> QED BY <2>1, <2>2 DEF Grows, Family
<1>6. ASSUME NEW r \in Rows PROVE r \in Rows'
  BY <1>1, <1>3, <1>4 DEF Rows
<1>7. ASSUME NEW r, r = GENESIS \/ r \in Rows PROVE History(r)' = History(r)
  <2>1. r.id \in 0..Len(rowPrev)
    BY <1>1, <1>7 DEF Rows, GENESIS
  <2> QED BY <2>1 DEF Grows, History
<1>8. ASSUME ~restored'
      PROVE  /\ ~restored /\ srv.ver <= srv'.ver
             /\ Len(srv.descs) <= Len(srv'.descs) /\ Len(srv.log) <= Len(srv'.log)
             /\ \A g \in 1..Len(srv.descs) : srv'.descs[g] = srv.descs[g]
             /\ \A q \in 1..Len(srv.log) : srv'.log[q] = srv.log[q]
  BY <1>8 DEF Grows
<1>9. ASSUME ~restored', NEW d, OnChain(d) PROVE OnChain(d)'
  BY <1>1, <1>3, <1>8, <1>9, SMTT(30) DEF OnChain
<1>10. ASSUME ~restored', NEW r, InLog(r) PROVE InLog(r)'
  BY <1>1, <1>3, <1>8, <1>10 DEF InLog
<1> QED BY <1>5, <1>6, <1>7, <1>8, <1>9, <1>10

\* What the owner remembers stays so.
LEMMA RememberedKept ==
  ASSUME Stored, Grows, NEW m, Remembered(m)
  PROVE  Remembered(m)'
<1>1. /\ m \in LocalStates
      /\ m.pin = NoDesc \/ m.pin \in Made
      /\ m.head = GENESIS \/ m.head \in Rows
      /\ SeenPinned(m)
  BY DEF Remembered
<1>2. /\ m.pin = NoDesc \/ m.pin \in Made'
      /\ m.head = GENESIS \/ m.head \in Rows'
  BY <1>1, KeptFacts
<1>3. ASSUME ~restored' PROVE (m.pin = NoDesc \/ OnChain(m.pin)') /\ InLog(m.head)'
  BY <1>3, KeptFacts DEF Remembered
<1>4. ASSUME ~restored' PROVE Reached(m.vers)'
  <2>1. Reached(m.vers) /\ srv.ver <= srv'.ver
    BY <1>4, KeptFacts DEF Remembered
  <2>2. srv.ver \in Int /\ srv'.ver \in Int
    <3>1. srv \in Servers /\ (srv \in Servers)'
      BY DEF Stored, Grows, Whole
    <3> QED BY <3>1 DEF Servers
  <2>3. \A i \in DescIds : m.vers[i] \in Int
    BY <1>1 DEF LocalStates, VersionPins
  <2> QED BY <2>1, <2>2, <2>3 DEF Reached
<1>5. SeenPinned(m)'
  BY <1>1 DEF SeenPinned
<1> QED BY <1>1, <1>2, <1>3, <1>4, <1>5 DEF Remembered

\* So does what a handle that is left alone has.
LEMMA HandledKept ==
  ASSUME Stored, Grows, Handled, h' = h, mem'.pin = mem.pin
  PROVE  Handled'
<1> DEFINE HandleType == [at : {"closed", "opening", "open"}, view : Descs, pin : Descs,
                          vers : VersionPins, seen : VersionPins,
                          out : {"none", "generation_rollback", "binding_mismatch"}]
<1>1. h \in HandleType /\ SeenPinned(h)
  BY DEF Handled
<1>2. h.at # "closed" => h.view \in Made' /\ h.pin \in Made'
  BY KeptFacts DEF Handled
<1>3. h.at = "open" => mem.pin.id \in Family(h.view)' /\ mem.pin.id \in Family(h.pin)'
  BY KeptFacts DEF Handled, Family
<1>4. ASSUME ~restored'
      PROVE  /\ h.out = "none"
             /\ h.at # "closed" => OnChain(h.view)' /\ OnChain(h.pin)'
  BY <1>4, KeptFacts DEF Handled, OnChain
<1>5. ASSUME ~restored' PROVE Reached(h.vers)'
  <2>1. Reached(h.vers) /\ srv.ver <= srv'.ver
    BY <1>5, KeptFacts DEF Handled
  <2>2. srv.ver \in Int /\ srv'.ver \in Int
    <3>1. srv \in Servers /\ (srv \in Servers)'
      BY DEF Stored, Grows, Whole
    <3> QED BY <3>1 DEF Servers
  <2>3. \A i \in DescIds : h.vers[i] \in Int
    BY <1>1 DEF VersionPins
  <2> QED BY <2>1, <2>2, <2>3 DEF Reached
<1>6. h.at = "opening" => h.pin = h.view /\ mem.pin # NoDesc /\ mem.pin.gen < h.view.gen
  BY DEF Handled
<1> QED BY <1>1, <1>2, <1>3, <1>4, <1>5, <1>6 DEF Handled, SeenPinned

-----------------------------------------------------------------------------
(* A call under way is as sound after another's step. *)

\* Numbers of the two states that are compared.
LEMMA Numbers ==
  ASSUME Stored, Grows
  PROVE  /\ srv.ver \in Nat /\ srv'.ver \in Nat
         /\ Len(srv.descs) \in Nat /\ Len(srv'.descs) \in Nat
         /\ Len(srv.log) \in Nat /\ Len(srv'.log) \in Nat
<1>1. srv \in Servers /\ (srv \in Servers)' /\ MaxVer \in Nat
  BY PlanTypes DEF Stored, Grows, Whole
<1>2. /\ srv.descs \in Seq(DescIds) /\ srv.log \in Seq(1..MaxRows)
      /\ srv'.descs \in Seq(DescIds) /\ srv'.log \in Seq(1..MaxRows)
  BY <1>1 DEF Servers
<1>3. srv.ver \in 0..MaxVer /\ srv'.ver \in 0..MaxVer
  BY <1>1 DEF Servers
<1> QED BY <1>1, <1>2, <1>3

\* Listed items are still on the server.
LEMMA ItemKept ==
  ASSUME Stored, Grows, NEW i, Item(i)
  PROVE  Item(i)' /\ (~restored' /\ ItemServed(i) => ItemServed(i)')
<1>1. Item(i)'
  BY KeptFacts DEF Item
<1>2. ASSUME ~restored', ItemServed(i), i # <<>> PROVE i[1].ver <= srv'.ver /\ OnChain(i[1].desc)'
  <2>1. i[1].ver \in Int
    BY <1>2 DEF Item
  <2>2. i[1].ver <= srv.ver /\ srv.ver <= srv'.ver /\ OnChain(i[1].desc)
    BY <1>2, KeptFacts DEF ItemServed
  <2>3. OnChain(i[1].desc)'
    BY <1>2, <2>2, KeptFacts
  <2> QED BY <2>1, <2>2, <2>3, Numbers
<1> QED BY <1>1, <1>2 DEF ItemServed

\* Fetched rows are still in the log.
LEMMA ServedKept ==
  ASSUME Stored, Grows, ~restored', NEW rows \in Seq(Rows), NEW after \in Nat, Served(rows, after)
  PROVE  Served(rows, after)'
<1>1. /\ Len(rows) \in Nat /\ Len(srv.log) <= Len(srv'.log)
      /\ \A q \in 1..Len(srv.log) : srv'.log[q] = srv.log[q]
  BY DEF Grows
<1>2. SUFFICES ASSUME NEW i \in 1..Len(rows)
               PROVE  /\ rows[i].seq = after + i /\ after + i <= Len(srv'.log)
                      /\ rows[i].id = srv'.log[after + i]
  BY DEF Served
<1>3. rows[i].seq = after + i /\ after + i <= Len(srv.log) /\ rows[i].id = srv.log[after + i]
  BY DEF Served
<1>4. after + i \in 1..Len(srv.log) /\ after + i <= Len(srv'.log)
  BY <1>1, <1>3, Numbers
<1> QED BY <1>1, <1>3, <1>4

\* Rows that were made stay made.
LEMMA RowsKept ==
  ASSUME Stored, Grows, NEW rows \in Seq(Rows)
  PROVE  rows \in Seq(Rows')
<1>1. \A i \in 1..Len(rows) : rows[i] \in Rows'
  BY KeptFacts
<1> QED BY <1>1

\* A reading call.
LEMMA ReadingKept ==
  ASSUME Stored, Grows, Handled, Handled', NEW c, NEW lag \in BOOLEAN, NEW lag2 \in BOOLEAN,
         c.at \in ReadAts, Reading(c, lag),
         \A i \in DescIds : h.seen[i] <= h'.seen[i],
         lag => lag2, lag2 \/ h'.vers = h.vers
  PROVE  Reading(c, lag2)'
<1>1. /\ \A i \in DescIds : /\ h.seen[i] \in 0..MaxVer /\ h'.seen[i] \in 0..MaxVer
                            /\ h.vers[i] \in 0..MaxVer /\ h'.vers[i] \in 0..MaxVer
      /\ MaxVer \in Nat
  <2>1. h.seen \in VersionPins /\ h.vers \in VersionPins
    BY DEF Handled
  <2>2. h'.seen \in VersionPins /\ h'.vers \in VersionPins
    BY DEF Handled
  <2> QED BY <2>1, <2>2, PlanTypes DEF VersionPins
<1>2. \A d \in Made : d.id \in DescIds
  BY PlanTypes, WholeTypes DEF Made, DescIds, Stored
<1>3. CASE c.at \in {"fetched", "wrote"}
  <2>1. /\ c.view \in Made /\ c.ver \in 0..MaxVer
        /\ c.at = "fetched" => c.floor \in 0..MaxVer /\ c.floor <= h.seen[c.view.id]
        /\ ~restored => /\ c.ver <= srv.ver
                        /\ ~lag => h.vers[c.view.id] <= c.ver
    BY <1>3 DEF Reading
  <2>2. c.view \in Made' /\ c.view.id \in DescIds
    BY <1>2, <2>1, KeptFacts
  <2>3. c.at = "fetched" => c.floor \in 0..MaxVer /\ c.floor <= h'.seen[c.view.id]
    BY <1>1, <2>1, <2>2
  <2>4. ~restored' => /\ c.ver <= srv'.ver
                      /\ ~lag2 => h'.vers[c.view.id] <= c.ver
    BY <1>1, <2>1, <2>2, KeptFacts, Numbers
  <2> QED BY <1>3, <2>1, <2>2, <2>3, <2>4 DEF Reading
<1>4. CASE c.at = "missed"
  <2>1. /\ c.view \in Made /\ c.absent \in BOOLEAN
        /\ ~restored /\ ~c.absent => c.view.gen < Len(srv.descs)
    BY <1>4 DEF Reading
  <2>2. c.view \in Made' /\ c.view.gen \in Nat
    BY <2>1, KeptFacts DEF Made
  <2>3. ~restored' /\ ~c.absent => c.view.gen < Len(srv'.descs)
    BY <2>1, <2>2, KeptFacts, Numbers
  <2> QED BY <1>4, <2>1, <2>2, <2>3 DEF Reading
<1>5. CASE c.at = "listed"
  <2>1. /\ c.view \in Made /\ Item(c.item)
        /\ ~restored => /\ OnChain(c.view) /\ ItemServed(c.item)
                        /\ ~lag /\ c.item # <<>> => h.vers[c.view.id] <= c.item[1].ver
    BY <1>5 DEF Reading
  <2>2. c.view \in Made' /\ c.view.id \in DescIds /\ Item(c.item)'
    BY <1>2, <2>1, KeptFacts, ItemKept
  <2>3. ~restored' => OnChain(c.view)' /\ ItemServed(c.item)'
    BY <2>1, KeptFacts, ItemKept
  <2>4. ~restored' /\ ~lag2 /\ c.item # <<>> => h'.vers[c.view.id] <= c.item[1].ver
    BY <2>1, KeptFacts
  <2> QED BY <1>5, <2>2, <2>3, <2>4 DEF Reading
<1>6. CASE c.at = "write"
  BY <1>6 DEF Reading
<1>7. CASE c.at = "conflict"
  BY <1>7, KeptFacts DEF Reading
<1> QED BY <1>3, <1>4, <1>5, <1>6, <1>7 DEF ReadAts

\* A refresh.
LEMMA RefreshingKept ==
  ASSUME Stored, Grows, NEW c, NEW lag \in BOOLEAN, NEW lag2 \in BOOLEAN,
         c.at \in RefreshAts, Refreshing(c, lag), mem'.pin = mem.pin,
         lag => lag2, lag2 \/ h'.pin = h.pin
  PROVE  Refreshing(c, lag2)'
<1>1. CASE c.at = "refresh"
  <2>1. /\ c.d \in Made
        /\ ~restored => /\ OnChain(c.d)
                        /\ ~lag => h.pin.gen <= c.d.gen
    BY <1>1 DEF Refreshing
  <2>2. c.d \in Made' /\ (~restored' => OnChain(c.d)')
    BY <2>1, KeptFacts
  <2>3. ~restored' /\ ~lag2 => h'.pin.gen <= c.d.gen
    BY <2>1, KeptFacts
  <2> QED BY <1>1, <2>2, <2>3 DEF Refreshing
<1>2. CASE c.at = "chain"
  <2>1. /\ c.d \in Made /\ c.pin \in Made /\ c.pin.gen < c.d.gen
        /\ mem.pin.id \in Family(c.pin)
        /\ ~restored => OnChain(c.d) /\ OnChain(c.pin)
    BY <1>2 DEF Refreshing
  <2>2. /\ c.d \in Made' /\ c.pin \in Made' /\ mem'.pin.id \in Family(c.pin)'
        /\ ~restored' => OnChain(c.d)' /\ OnChain(c.pin)'
    BY <2>1, KeptFacts
  <2> QED BY <1>2, <2>1, <2>2 DEF Refreshing
<1>3. CASE c.at \in {"adopt", "repin"}
  <2>1. /\ c.d \in Made /\ mem.pin.id \in Family(c.d)
        /\ ~restored => OnChain(c.d)
    BY <1>3 DEF Refreshing
  <2>2. /\ c.d \in Made' /\ mem'.pin.id \in Family(c.d)'
        /\ ~restored' => OnChain(c.d)'
    BY <2>1, KeptFacts
  <2> QED BY <1>3, <2>2 DEF Refreshing
<1> QED BY <1>1, <1>2, <1>3 DEF RefreshAts

\* A verification of the audit log.
LEMMA VerifyingKept ==
  ASSUME Stored, Grows, Remembered(mem), NEW c, NEW lag \in BOOLEAN, NEW lag2 \in BOOLEAN,
         c.at \in Auditing, Verifying(c, lag), mem'.head = mem.head,
         lag => lag2, c.at = "audit_head" => lag2 \/ srv'.log = srv.log
  PROVE  Verifying(c, lag2)'
<1>1. mem.head.seq \in Nat
  BY PlanTypes DEF Remembered, LocalStates, Heads
<1>2. CASE c.at = "audit_rows"
  <2>1. c.rows \in Seq(Rows) /\ (~restored => Served(c.rows, mem.head.seq))
    BY <1>2 DEF Verifying
  <2>2. c.rows \in Seq(Rows')
    BY <2>1, RowsKept
  <2>3. ~restored' => Served(c.rows, mem.head.seq)'
    <3>1. PICK after : after = mem.head.seq
      OBVIOUS
    <3>2. ~restored' => Served(c.rows, after)'
      BY <1>1, <2>1, <3>1, KeptFacts, ServedKept
    <3>3. after = mem'.head.seq
      BY <3>1
    <3> QED BY <3>2, <3>3
  <2> QED BY <1>2, <2>2, <2>3 DEF Verifying
<1>3. CASE c.at = "audit_head"
  <2>1. /\ c.rows \in Seq(Rows) /\ c.page \in Seq(Rows) /\ Len(c.page) <= Page
        /\ c.fmt \in 0..MaxRows
        /\ ~restored =>
              /\ Served(c.rows, mem.head.seq) /\ Served(c.page, mem.head.seq + Len(c.rows))
              /\ ~lag /\ Len(c.page) < Page =>
                    Len(srv.log) = mem.head.seq + Len(c.rows) + Len(c.page)
    BY <1>3 DEF Verifying
  <2>2. c.rows \in Seq(Rows') /\ c.page \in Seq(Rows')
    BY <2>1, RowsKept
  <2>3. ~restored' => Served(c.rows, mem.head.seq)' /\ Served(c.page, mem.head.seq + Len(c.rows))'
    <3>1. PICK after, more : after = mem.head.seq /\ more = mem.head.seq + Len(c.rows)
      OBVIOUS
    <3>2. after \in Nat /\ more \in Nat
      BY <1>1, <2>1, <3>1
    <3>3. ~restored' => Served(c.rows, after)' /\ Served(c.page, more)'
      BY <2>1, <3>1, <3>2, KeptFacts, ServedKept
    <3>4. after = mem'.head.seq /\ more = mem'.head.seq + Len(c.rows)
      BY <3>1
    <3> QED BY <3>3, <3>4
  <2>4. ~restored' /\ ~lag2 /\ Len(c.page) < Page =>
           Len(srv'.log) = mem'.head.seq + Len(c.rows) + Len(c.page)
    BY <1>3, <2>1, KeptFacts
  <2> QED BY <1>3, <2>1, <2>2, <2>3, <2>4 DEF Verifying
<1>4. CASE c.at \in {"audit_before", "audit_names", "audit_done"}
  <2>1. /\ c.head = GENESIS \/ c.head \in Rows
        /\ mem.head.id \in History(c.head)
        /\ ~restored => InLog(c.head)
        /\ c.at = "audit_before" => mem.head # GENESIS
        /\ c.at = "audit_done" => /\ c.view \in Made /\ Item(c.item)
                                  /\ ~restored => ItemServed(c.item)
    BY <1>4 DEF Verifying
  <2>2. /\ c.head = GENESIS \/ c.head \in Rows'
        /\ mem'.head.id \in History(c.head)'
        /\ ~restored' => InLog(c.head)'
    BY <2>1, KeptFacts
  <2>3. c.at = "audit_done" => /\ c.view \in Made' /\ Item(c.item)'
                               /\ ~restored' => ItemServed(c.item)'
    BY <2>1, KeptFacts, ItemKept
  <2> QED BY <1>4, <2>1, <2>2, <2>3 DEF Verifying
<1> QED BY <1>2, <1>3, <1>4 DEF Auditing

\* Any call under way.
LEMMA RunsKept ==
  ASSUME Stored, Grows, Handled, Handled', Remembered(mem),
         NEW c, NEW lag \in BOOLEAN, NEW lag2 \in BOOLEAN, Runs(c, lag),
         c.at = "idle" \/ (h'.at = "open" /\ mem'.pin = mem.pin),
         c.at \in Auditing => mem'.head = mem.head,
         \A i \in DescIds : h.seen[i] <= h'.seen[i],
         lag => lag2, c.at # "idle" => lag2 \/ (h'.vers = h.vers /\ h'.pin = h.pin),
         c.at = "audit_head" => lag2 \/ srv'.log = srv.log
  PROVE  Runs(c, lag2)'
<1>1. CASE c.at = "idle"
  BY <1>1 DEF Runs, ReadAts, RefreshAts, Auditing
<1>2. CASE c.at \in ReadAts
  <2>1. Reading(c, lag) /\ c.at # "idle"
    BY <1>2 DEF Runs, ReadAts, RefreshAts, Auditing
  <2>2. Reading(c, lag2)'
    BY <1>2, <2>1, ReadingKept
  <2> QED BY <1>2, <2>1, <2>2 DEF Runs
<1>3. CASE c.at \in RefreshAts
  <2>1. Refreshing(c, lag) /\ c.at # "idle"
    BY <1>3 DEF Runs, ReadAts, RefreshAts, Auditing
  <2>2. Refreshing(c, lag2)'
    BY <1>3, <2>1, RefreshingKept
  <2> QED BY <1>3, <2>1, <2>2 DEF Runs
<1>4. CASE c.at \in Auditing
  <2>1. Verifying(c, lag) /\ c.at # "idle"
    BY <1>4 DEF Runs, ReadAts, RefreshAts, Auditing
  <2>2. Verifying(c, lag2)'
    BY <1>4, <2>1, VerifyingKept
  <2> QED BY <1>4, <2>1, <2>2 DEF Runs
<1> QED BY <1>1, <1>2, <1>3, <1>4 DEF Runs

-----------------------------------------------------------------------------
(* A thread's step keeps the invariant, if what its own call goes on with   *)
(* is sound.                                                               *)

\* What the ghost says of the other threads.
Lags(t) ==
    /\ late' \in [Threads -> BOOLEAN]
    /\ \A u \in Threads \ {t} :
          /\ late[u] => late'[u]
          /\ op[u].at # "idle" => late'[u] \/ h' = h
          /\ op[u].at = "audit_head" => late'[u] \/ srv'.log = srv.log

\* What a call of a thread leaves to the others.
LEMMA Calls ==
  ASSUME NEW t \in Threads, NEW c, Call(t, c)
  PROVE  /\ op'[t] = c
         /\ \A u \in Threads \ {t} : op'[u] = IF op[u].at = "idle" THEN Idle("none") ELSE op[u]
BY DEF Call

\* A thread's step: its own call is as it should be, and what it changed leaves
\* the calls of the others as they were.
LEMMA Assemble ==
  ASSUME Sound, Grows, NEW t \in Threads, NEW c, Call(t, c), Lags(t),
         NEW lag, lag = late'[t], Runs(c, lag)',
         Handled', h'.at = h.at, \A i \in DescIds : h.seen[i] <= h'.seen[i],
         Remembered(mem)', disk' = disk, mem'.pin = mem.pin,
         mem'.head = mem.head \/ op[t].at \in Auditing,
         c.at \in Auditing => op[t].at \in Auditing \/ \A u \in Threads : op[u].at \notin Auditing,
         c.at \in RefreshAts => "refresh" \in plan.calls[t]
  PROVE  Sound'
<1>1. op'[t] = c /\ \A u \in Threads \ {t} : op'[u] = IF op[u].at = "idle" THEN Idle("none") ELSE op[u]
  BY Calls
<1>2. Stored' /\ plan' = plan
  BY DEF Grows
<1>3. Remembered(disk)'
  <2>1. PICK m : m = disk
    OBVIOUS
  <2>2. Remembered(m)'
    BY <2>1, RememberedKept DEF Sound
  <2>3. m = disk'
    BY <2>1
  <2> QED BY <2>2, <2>3
<1>4. late' \in [Threads -> BOOLEAN]
  BY DEF Lags
<1>5. ASSUME NEW u \in Threads PROVE Runs(op[u], late[u])'
  <2>1. CASE u = t
    BY <1>1, <2>1
  <2>2. CASE u # t /\ op[u].at = "idle"
    <3>1. op'[u] = Idle("none")
      BY <1>1, <2>2
    <3>2. op'[u].at = "idle" /\ op'[u].out \in Outs
      BY <3>1 DEF Idle, Outs
    <3> QED BY <3>2 DEF Runs
  <2>3. CASE u # t /\ op[u].at # "idle"
    <3>1. PICK b, was, lag2 : b = op[u] /\ was = late[u] /\ lag2 = late'[u]
      OBVIOUS
    <3>2. op'[u] = b
      BY <1>1, <2>3, <3>1
    <3>3. was \in BOOLEAN /\ lag2 \in BOOLEAN /\ Runs(b, was) /\ Handled /\ Remembered(mem) /\ Stored
      BY <1>4, <3>1 DEF Sound
    <3>4. h.at = "open"
      BY <2>3, <3>1, <3>3 DEF Runs
    <3>5. b.at \in Auditing => mem'.head = mem.head
      BY <2>3, <3>1 DEF Sound, Exclusive
    <3>6. /\ was => lag2
          /\ lag2 \/ h' = h
          /\ b.at = "audit_head" => lag2 \/ srv'.log = srv.log
      BY <2>3, <3>1 DEF Lags
    <3>7. Runs(b, lag2)'
      BY <3>3, <3>4, <3>5, <3>6, RunsKept
    <3> QED BY <3>1, <3>2, <3>7
  <2> QED BY <2>1, <2>2, <2>3
<1>6. "idle" \notin Auditing /\ "idle" \notin RefreshAts /\ Idle("none").at = "idle"
  BY DEF Auditing, RefreshAts, Idle
<1>7. \A u \in Threads \ {t} : /\ op'[u].at \in Auditing => op[u].at \in Auditing
                               /\ op'[u].at \in RefreshAts => op[u].at \in RefreshAts
  BY <1>1, <1>6
<1>8. Exclusive'
  BY <1>1, <1>7 DEF Sound, Exclusive
<1>9. Asked'
  BY <1>1, <1>2, <1>7 DEF Sound, Asked
<1> QED BY <1>2, <1>3, <1>4, <1>5, <1>8, <1>9 DEF Sound

\* A step that leaves the view and the pin alone keeps the order of a refresh
\* under way, if its own call does.
LEMMA OrderNext ==
  ASSUME NEW t \in Threads, NEW c, Call(t, c), op[t].at # "repin", c.at # "repin",
         h'.view = h.view, h'.pin = h.pin, plan' = plan, OneRefreshes => InOrder,
         OneRefreshes /\ InOrder => Follows(c)
  PROVE  (OneRefreshes => InOrder)'
<1>1. op'[t] = c /\ \A u \in Threads \ {t} : op'[u] = IF op[u].at = "idle" THEN Idle("none") ELSE op[u]
  BY Calls
<1>2. SUFFICES ASSUME OneRefreshes' PROVE InOrder'
  OBVIOUS
<1>3. InOrder /\ Follows(c)
  BY <1>2 DEF OneRefreshes
<1>4. Idle("none").at = "idle"
  BY DEF Idle
<1>5. \A b : Follows(b)' = Follows(b)
  BY DEF Follows
<1>6. ASSUME NEW u \in Threads PROVE Follows(op[u])'
  <2>1. PICK b : b = op'[u]
    OBVIOUS
  <2>2. Follows(b)
    <3>1. CASE u = t
      BY <1>1, <1>3, <2>1, <3>1
    <3>2. CASE u # t /\ op[u].at = "idle"
      <4>1. b.at = "idle"
        BY <1>1, <1>4, <2>1, <3>2
      <4> QED BY <4>1 DEF Follows
    <3>3. CASE u # t /\ op[u].at # "idle"
      <4>1. b = op[u]
        BY <1>1, <2>1, <3>3
      <4> QED BY <1>3, <4>1 DEF InOrder
    <3> QED BY <3>1, <3>2, <3>3
  <2> QED BY <1>5, <2>1, <2>2
<1>7. \A u \in Threads : op[u].at = "repin" => op'[u].at = "repin"
  BY <1>1, <1>4
<1>8. (\A u \in Threads : op'[u].at # "repin") => h'.view = h'.pin
  BY <1>3, <1>7 DEF InOrder
<1> QED BY <1>6, <1>8 DEF InOrder

\* In particular one that is no step of a refresh.
LEMMA OrderKept ==
  ASSUME NEW t \in Threads, NEW c, Call(t, c), op[t].at # "repin", c.at \notin RefreshAts,
         h'.view = h.view, h'.pin = h.pin, plan' = plan, OneRefreshes => InOrder
  PROVE  (OneRefreshes => InOrder)'
<1>1. Follows(c) /\ c.at # "repin"
  BY DEF Follows, RefreshAts
<1> QED BY <1>1, OrderNext

\* What is as it was before a step that leaves the server and the client alone.
LEMMA Unmoved ==
  ASSUME UNCHANGED <<server, client>>
  PROVE  /\ UNCHANGED <<srv, bak, restored, descPrev, rowPrev, h, mem, disk, plan>>
         /\ \A c, lag : Runs(c, lag)' = Runs(c, lag)
<1>1. UNCHANGED <<srv, bak, restored, descPrev, rowPrev, h, mem, disk, plan>>
  BY DEF server, store, client
<1>2. ASSUME NEW c, NEW lag PROVE Runs(c, lag)' = Runs(c, lag)
  <2>1. Reading(c, lag)' = Reading(c, lag)
    BY <1>1 DEF Reading, Made, OnChain, Item, ItemServed
  <2>2. Refreshing(c, lag)' = Refreshing(c, lag)
    BY <1>1 DEF Refreshing, Made, OnChain, Family
  <2>3. Verifying(c, lag)' = Verifying(c, lag)
    BY <1>1 DEF Verifying, Rows, Made, Served, History, InLog, Item, ItemServed, OnChain
  <2> QED BY <1>1, <2>1, <2>2, <2>3 DEF Runs
<1> QED BY <1>1, <1>2

\* A step that only moves a thread's own call on.
LEMMA QuietStep ==
  ASSUME IInv, NEW t \in Threads, NEW c, NEW lag \in BOOLEAN, Call(t, c),
         UNCHANGED <<server, client>>, late' = [late EXCEPT ![t] = lag], Runs(c, lag),
         c.at \in Auditing => op[t].at \in Auditing \/ \A u \in Threads : op[u].at \notin Auditing,
         c.at \in RefreshAts => "refresh" \in plan.calls[t]
  PROVE  /\ Sound'
         /\ c.at \notin RefreshAts /\ op[t].at # "repin" => IInv'
<1>1. UNCHANGED <<srv, bak, restored, descPrev, rowPrev, h, mem, disk, plan>> /\ Runs(c, lag)'
  BY Unmoved
<1>2. Grows
  BY <1>1, StillGrows DEF IInv, Sound, server, store
<1>3. Handled' /\ Remembered(mem)'
  <2>1. Handled'
    BY <1>1, <1>2, HandledKept DEF IInv, Sound
  <2>2. PICK m : m = mem
    OBVIOUS
  <2>3. Remembered(m)'
    BY <1>2, <2>2, RememberedKept DEF IInv, Sound
  <2>4. m = mem'
    BY <1>1, <2>2
  <2> QED BY <2>1, <2>3, <2>4
<1>4. Lags(t) /\ lag = late'[t]
  <2>1. late \in [Threads -> BOOLEAN]
    BY DEF IInv, Sound
  <2> QED BY <1>1, <2>1 DEF Lags
<1>5. \A i \in DescIds : h.seen[i] <= h'.seen[i]
  <2>1. h.seen \in VersionPins
    BY DEF IInv, Sound, Handled
  <2> QED BY <1>1, <2>1, VaultHandleAssumption DEF VersionPins
<1>6. Sound'
  BY <1>1, <1>2, <1>3, <1>4, <1>5, Assemble DEF IInv
<1>7. c.at \notin RefreshAts /\ op[t].at # "repin" => (OneRefreshes => InOrder)'
  BY <1>1, OrderKept DEF IInv
<1> QED BY <1>6, <1>7 DEF IInv

\* What the invariant says of a thread that calls, and of one that may start.
LEMMA Running ==
  ASSUME IInv, NEW t \in Threads
  PROVE  /\ Stored /\ Handled /\ Remembered(mem) /\ Remembered(disk) /\ late[t] \in BOOLEAN
         /\ late \in [Threads -> BOOLEAN]
         /\ op[t].at \in ReadAts => Reading(op[t], late[t]) /\ h.at = "open" /\ op[t].at \notin RefreshAts
         /\ op[t].at \in RefreshAts => /\ Refreshing(op[t], late[t]) /\ h.at = "open"
                                       /\ "refresh" \in plan.calls[t]
         /\ op[t].at \in Auditing => Verifying(op[t], late[t]) /\ h.at = "open" /\ op[t].at \notin RefreshAts
<1>1. Runs(op[t], late[t])
  BY DEF IInv, Sound
<1> QED BY <1>1 DEF IInv, Sound, Runs, Asked, ReadAts, RefreshAts, Auditing

\* The server's own descriptor, and the head of its log.
LEMMA CurrentMade ==
  ASSUME Stored
  PROVE  /\ Current \in Made /\ OnChain(Current) /\ Current.gen = Len(srv.descs)
         /\ LogHead \in Rows /\ InLog(LogHead) /\ LogHead.seq = Len(srv.log)
<1>1. /\ Len(srv.descs) \in 1..MaxDescs /\ Len(srv.log) \in 1..MaxRows
      /\ Len(srv.descs) \in 1..Len(srv.descs) /\ Len(srv.log) \in 1..Len(srv.log)
  BY WholeTypes DEF Stored
<1>2. srv.descs[Len(srv.descs)] \in 1..Len(descPrev) /\ srv.log[Len(srv.log)] \in 1..Len(rowPrev)
  BY <1>1 DEF Stored, Whole
<1> QED BY <1>1, <1>2 DEF Current, LogHead, Made, Rows, OnChain, InLog

\* An open handle's view was made, and its index is a descriptor's.
LEMMA Viewed ==
  ASSUME Stored, Handled, h.at = "open"
  PROVE  /\ h.view \in Made /\ h.pin \in Made
         /\ h.vers \in VersionPins /\ h.seen \in VersionPins
         /\ ~restored => OnChain(h.view) /\ OnChain(h.pin) /\ Reached(h.vers)
         /\ \A d \in Made : d.id \in DescIds /\ d.gen \in Nat /\ d.id \in Nat
<1>1. \A d \in Made : d.id \in DescIds /\ d.gen \in Nat /\ d.id \in Nat
  BY PlanTypes, WholeTypes DEF Made, DescIds, Stored
<1> QED BY <1>1 DEF Handled

\* An outcome ends a call.
LEMMA EndsOK ==
  ASSUME NEW out \in Outs, NEW lag
  PROVE  Runs(Idle(out), lag) /\ Idle(out).at = "idle" /\ "idle" \notin Auditing
         /\ "idle" \notin RefreshAts
BY DEF Runs, Idle, Auditing, RefreshAts

-----------------------------------------------------------------------------
(* The steps of a thread that change neither the server nor the handle. *)

\* A call ends and nothing else changes.
LEMMA EndStep ==
  ASSUME IInv, NEW t \in Threads, NEW out \in Outs, Return(t, out), UNCHANGED <<server, client>>,
         Answered(t) \/ Kept(t)
  PROVE  Sound' /\ (op[t].at # "repin" => IInv')
<1>1. PICK c : c = Idle(out)
  OBVIOUS
<1>2. Call(t, c) /\ c.at = "idle" /\ c.at \notin Auditing /\ c.at \notin RefreshAts /\ Runs(c, FALSE)
  BY <1>1, EndsOK DEF Return
<1>3. late' = [late EXCEPT ![t] = FALSE]
  <2>1. op'[t] = c /\ late[t] \in BOOLEAN
    BY <1>2, Calls, Running
  <2>2. CASE Answered(t)
    BY <2>2 DEF Answered
  <2>3. CASE Kept(t)
    <3>1. (op'[t].at # "idle" /\ late[t]) = FALSE
      BY <1>2, <2>1
    <3> QED BY <2>3, <3>1 DEF Kept
  <2> QED BY <2>2, <2>3
<1> QED BY <1>2, <1>3, QuietStep

\* The item of a listing.
LEMMA ListedItem ==
  ASSUME Stored
  PROVE  /\ Item(ListItem) /\ ItemServed(ListItem)
         /\ ListItem # <<>> => ListItem[1].ver = srv.ver
<1>1. srv.ver \in 0..MaxVer /\ MaxVer \in Nat /\ Current \in Made /\ OnChain(Current)
  BY WholeTypes, PlanTypes, CurrentMade DEF Stored
<1>2. CASE srv.ver = 0
  BY <1>2 DEF ListItem, Item, ItemServed
<1>3. CASE srv.ver # 0
  <2>1. PICK i : i = [ver |-> srv.ver, desc |-> Current]
    OBVIOUS
  <2>2. ListItem = <<i>> /\ i.ver = srv.ver /\ i.desc = Current
    BY <1>3, <2>1 DEF ListItem
  <2>3. Len(ListItem) = 1 /\ ListItem[1] = i /\ ListItem # <<>>
    BY <2>2
  <2> QED BY <1>1, <2>2, <2>3 DEF Item, ItemServed
<1> QED BY <1>2, <1>3

\* list_kind: the answer holds the server's version, which is at least the pin.
LEMMA ListStep == ASSUME IInv, NEW t \in Threads, list_kind(t) PROVE IInv'
<1>1. /\ h.at = "open" /\ op[t].at = "idle" /\ UNCHANGED <<server, client>>
      /\ late' = [late EXCEPT ![t] = FALSE] /\ Stored /\ Handled
  BY Running DEF list_kind, Starts, Answered
<1>2. PICK c : c = [at |-> "listed", view |-> h.view, item |-> ListItem]
  OBVIOUS
<1>3. Call(t, c) /\ c.at = "listed" /\ c.view = h.view /\ c.item = ListItem
  BY <1>2 DEF list_kind
<1>4. c.view \in Made /\ Item(c.item)
  BY <1>1, <1>3, Viewed, ListedItem
<1>5. ~restored => /\ OnChain(c.view) /\ ItemServed(c.item)
                   /\ c.item # <<>> => h.vers[c.view.id] <= c.item[1].ver
  BY <1>1, <1>3, Viewed, ListedItem DEF Reached
<1>6. Runs(c, FALSE)
  BY <1>1, <1>3, <1>4, <1>5 DEF Runs, Reading, ReadAts
<1>7. c.at \notin Auditing /\ c.at \notin RefreshAts /\ op[t].at \notin RefreshAts
  BY <1>1, <1>3 DEF Auditing, RefreshAts
<1> QED BY <1>1, <1>3, <1>6, <1>7, QuietStep

\* A call that goes on to write.
LEMMA WriteNext ==
  ASSUME IInv, NEW t \in Threads, NEW c, Call(t, c), c.at = "write", c.ver \in 0..MaxVer,
         c.live \in BOOLEAN, UNCHANGED <<server, client>>, Answered(t), h.at = "open",
         op[t].at \notin RefreshAts
  PROVE  IInv'
<1>1. Runs(c, FALSE)
  BY DEF Runs, Reading, ReadAts
<1>2. c.at \notin Auditing /\ c.at \notin RefreshAts /\ op[t].at # "repin"
  BY DEF Auditing, RefreshAts
<1> QED BY <1>1, <1>2, QuietStep DEF Answered

\* A call that missed: what it looked for was deleted, or its keys are older
\* than the server's.
LEMMA MissNext ==
  ASSUME IInv, NEW t \in Threads, NEW c, Call(t, c), c.at = "missed", c.view \in Made,
         ~restored => OnChain(c.view),
         c.absent = ~srv.live, ~Indexed(c.view) \/ ~srv.live,
         UNCHANGED <<server, client>>, Answered(t), h.at = "open",
         op[t].at \notin RefreshAts
  PROVE  IInv'
<1>1. Stored /\ Len(srv.descs) \in Nat /\ srv.live \in BOOLEAN
  BY Running, WholeTypes DEF Stored
<1>2. ~restored /\ ~c.absent => c.view.gen < Len(srv.descs)
  <2>1. SUFFICES ASSUME ~restored, srv.live PROVE c.view.gen < Len(srv.descs)
    BY <1>1
  <2>2. c.view.gen \in 1..Len(srv.descs) /\ srv.descs[c.view.gen] = c.view.id
    BY <2>1 DEF OnChain
  <2>3. srv.descs[Len(srv.descs)] # c.view.id
    BY <2>1 DEF Indexed, Current
  <2> QED BY <1>1, <2>2, <2>3
<1>3. Runs(c, FALSE)
  BY <1>1, <1>2 DEF Runs, Reading, ReadAts
<1>4. c.at \notin Auditing /\ c.at \notin RefreshAts /\ op[t].at # "repin"
  BY DEF Auditing, RefreshAts
<1> QED BY <1>3, <1>4, QuietStep DEF Answered

\* moved_on keeps the invariant: a miss ends the call, or a put goes on to
\* create the record.
LEMMA MovedOnStep == ASSUME IInv, NEW t \in Threads, moved_on(t) PROVE IInv'
<1>1. /\ op[t].at = "missed" /\ UNCHANGED <<server, client>> /\ Answered(t) /\ h.at = "open"
      /\ op[t].at \notin RefreshAts
  BY Running DEF moved_on, ReadAts
<1>2. CASE \E out \in {"stale", "conflict", "not_found", "not_found_unconfirmed"} : Return(t, out)
  <2>1. PICK out \in {"stale", "conflict", "not_found", "not_found_unconfirmed"} : Return(t, out)
    BY <1>2
  <2>2. out \in Outs
    BY DEF Outs
  <2> QED BY <1>1, <2>1, <2>2, EndStep
<1>3. CASE Call(t, [at |-> "write", what |-> "put", ver |-> 0, live |-> FALSE])
  <2>1. PICK c : c = [at |-> "write", what |-> "put", ver |-> 0, live |-> FALSE]
    OBVIOUS
  <2>2. c.at = "write" /\ c.ver \in 0..MaxVer /\ c.live \in BOOLEAN
    BY <2>1, VaultHandleAssumption
  <2> QED BY <1>1, <1>3, <2>1, <2>2, WriteNext
<1>4. PICK told \in BOOLEAN :
        LET c == op[t] IN
        CASE told /\ Current.gen # c.view.gen -> Return(t, "stale")
          [] ~(told /\ Current.gen # c.view.gen) /\ c.then = "put" ->
                Call(t, [at |-> "write", what |-> "put", ver |-> 0, live |-> FALSE])
          [] ~(told /\ Current.gen # c.view.gen) /\ c.then = "conflict" -> Return(t, "conflict")
          [] OTHER -> Return(t, IF told THEN "not_found" ELSE "not_found_unconfirmed")
  BY DEF moved_on
<1> QED BY <1>2, <1>3, <1>4

\* current keeps it: a write's precondition is what the server holds, and a miss
\* of a record that is live means that the vault was rotated.
LEMMA CurrentStep == ASSUME IInv, NEW t \in Threads, current(t) PROVE IInv'
<1>1. PICK what \in {"put", "delete"} :
        /\ Starts(t, what)
        /\ LET v == h.view IN
           CASE ~Indexed(v) \/ srv.ver = 0 ->
                  Call(t, [at |-> "missed", view |-> v, then |-> what, absent |-> ~srv.live])
             [] Indexed(v) /\ srv.ver > 0 /\ (what = "put" \/ srv.live) ->
                  Call(t, [at |-> "write", what |-> what, ver |-> srv.ver, live |-> srv.live])
             [] OTHER -> Return(t, "not_found")
        /\ Answered(t)
        /\ UNCHANGED <<server, client>>
  BY DEF current
<1>2. /\ h.at = "open" /\ op[t].at = "idle" /\ op[t].at \notin RefreshAts /\ Stored /\ Handled
      /\ srv.ver \in 0..MaxVer /\ srv.live \in BOOLEAN /\ (srv.live => srv.ver > 0)
  BY <1>1, Running, WholeTypes DEF Starts, RefreshAts, Stored, Whole
<1>3. CASE /\ ~Indexed(h.view) \/ srv.ver = 0
           /\ Call(t, [at |-> "missed", view |-> h.view, then |-> what, absent |-> ~srv.live])
  <2>1. PICK c : c = [at |-> "missed", view |-> h.view, then |-> what, absent |-> ~srv.live]
    OBVIOUS
  <2>2. c.at = "missed" /\ c.view = h.view /\ c.absent = ~srv.live
    BY <2>1
  <2>3. c.view \in Made /\ (~restored => OnChain(c.view))
    BY <1>2, <2>2, Viewed
  <2>4. ~Indexed(c.view) \/ ~srv.live
    BY <1>2, <1>3, <2>2, VaultHandleAssumption
  <2> QED BY <1>1, <1>2, <1>3, <2>1, <2>2, <2>3, <2>4, MissNext
<1>4. CASE Call(t, [at |-> "write", what |-> what, ver |-> srv.ver, live |-> srv.live])
  <2>1. PICK c : c = [at |-> "write", what |-> what, ver |-> srv.ver, live |-> srv.live]
    OBVIOUS
  <2>2. c.at = "write" /\ c.ver \in 0..MaxVer /\ c.live \in BOOLEAN
    BY <1>2, <2>1
  <2> QED BY <1>1, <1>2, <1>4, <2>1, <2>2, WriteNext
<1>5. CASE Return(t, "not_found")
  <2>1. "not_found" \in Outs
    BY DEF Outs
  <2> QED BY <1>1, <1>2, <1>5, <2>1, EndStep
<1> QED BY <1>1, <1>3, <1>4, <1>5

\* conflict keeps it: what the history shows after a lost race is a conflict or
\* a miss.
LEMMA ConflictStep == ASSUME IInv, NEW t \in Threads, conflict(t) PROVE IInv'
<1>1. /\ op[t].at = "conflict" /\ UNCHANGED <<server, client>> /\ Answered(t) /\ h.at = "open"
      /\ op[t].at \notin RefreshAts /\ Stored
      /\ op[t].view \in Made /\ (~restored => OnChain(op[t].view))
  BY Running DEF conflict, ReadAts, Reading
<1>2. srv.ver \in 0..MaxVer /\ srv.live \in BOOLEAN /\ (srv.live => srv.ver > 0)
  BY <1>1, WholeTypes DEF Stored, Whole
<1>3. CASE ~Indexed(op[t].view) \/ srv.ver = 0
  <2>1. PICK c : c = [at |-> "missed", view |-> op[t].view, then |-> "conflict", absent |-> ~srv.live]
    OBVIOUS
  <2>2. Call(t, c) /\ c.at = "missed" /\ c.view = op[t].view /\ c.absent = ~srv.live
    BY <1>3, <2>1 DEF conflict
  <2>3. ~Indexed(c.view) \/ ~srv.live
    BY <1>2, <1>3, <2>2, VaultHandleAssumption
  <2> QED BY <1>1, <2>2, <2>3, MissNext
<1>4. CASE ~(~Indexed(op[t].view) \/ srv.ver = 0)
  <2>1. Return(t, "conflict") /\ "conflict" \in Outs
    BY <1>4 DEF conflict, Outs
  <2> QED BY <1>1, <2>1, EndStep
<1> QED BY <1>3, <1>4

-----------------------------------------------------------------------------
(* The steps of a refresh that change nothing yet. *)

\* What check_descriptor_pin accepts descends from the pin.
LEMMA ChainDescends ==
  ASSUME Stored, NEW pin \in Made, NEW d \in Made, pin.gen < d.gen, check_descriptor_chain(pin, d)
  PROVE  pin.id \in Family(d)
<1> DEFINE n == d.gen - pin.gen
           run == [i \in 0..n |-> IF i = 0 THEN pin.id ELSE srv.descs[pin.gen + i]]
<1>1. /\ pin.gen \in Nat /\ d.gen \in Nat /\ pin.id \in 1..Len(descPrev) /\ Len(descPrev) \in Nat
      /\ Len(srv.descs) \in Nat
  BY WholeTypes DEF Made, Stored
<1>2. n \in Nat /\ n > 0 /\ pin.gen + n = d.gen
  BY <1>1
<1>3. /\ d.gen <= Len(srv.descs) /\ descPrev[srv.descs[pin.gen + 1]] = pin.id
      /\ \A g \in pin.gen + 2 .. d.gen : descPrev[srv.descs[g]] = srv.descs[g - 1]
      /\ srv.descs[d.gen] = d.id
  BY DEF check_descriptor_chain, check_follows
<1>4. \A g \in 1..Len(srv.descs) : srv.descs[g] \in 1..Len(descPrev)
  BY DEF Stored, Whole
<1> HIDE DEF n
<1>5. run[0] = pin.id /\ \A i \in 1..n : run[i] = srv.descs[pin.gen + i]
  BY <1>2
<1> HIDE DEF run
<1>6. ASSUME NEW i \in 1..n PROVE run[i] \in 1..Len(descPrev) /\ descPrev[run[i]] = run[i - 1]
  <2>1. pin.gen + i \in 1..Len(srv.descs)
    <3>1. d.gen <= Len(srv.descs)
      BY <1>3
    <3> QED BY <1>1, <1>2, <3>1, SMTT(30)
  <2>2. run[i] \in 1..Len(descPrev)
    BY <1>4, <1>5, <2>1
  <2>3. CASE i = 1
    <3>1. i - 1 = 0 /\ run[i] = srv.descs[pin.gen + 1]
      BY <1>5, <2>3
    <3> QED BY <1>3, <1>5, <2>2, <3>1
  <2>4. CASE i # 1
    <3>1. PICK g \in pin.gen + 2 .. d.gen : g = pin.gen + i
      BY <1>1, <1>2, <2>4, SMTT(30)
    <3>2. descPrev[srv.descs[g]] = srv.descs[g - 1]
      BY <1>3
    <3>3. g - 1 = pin.gen + (i - 1) /\ i - 1 \in 1..n
      <4>1. i \in Nat /\ i - 1 \in 1..n
        BY <1>2, <2>4
      <4>2. PICK x \in Nat : x = pin.gen
        BY <1>1
      <4>3. g = x + i
        BY <3>1, <4>2
      <4>4. g - 1 = x + (i - 1)
        BY <4>1, <4>3
      <4> QED BY <4>1, <4>2, <4>4
    <3>4. run[i] = srv.descs[g] /\ run[i - 1] = srv.descs[g - 1]
      BY <1>5, <3>1, <3>3
    <3> QED BY <2>2, <3>2, <3>4
  <2> QED BY <2>3, <2>4
<1>7. /\ \A i \in 0..n : run[i] \in 0..Len(descPrev)
      /\ \A i \in 1..n : run[i] # 0 /\ descPrev[run[i]] = run[i - 1]
  <2>1. ASSUME NEW i \in 0..n PROVE run[i] \in 0..Len(descPrev)
    <3>1. i = 0 \/ i \in 1..n
      BY <1>2
    <3> QED BY <1>1, <1>5, <1>6, <3>1
  <2> QED BY <1>1, <1>6, <2>1
<1>8. run[0] \in Ancestry(descPrev)[run[n]]
  BY <1>2, <1>7, AncestryRun DEF Stored
<1>9. run[n] = d.id
  BY <1>2, <1>3, <1>5
<1> QED BY <1>5, <1>8, <1>9 DEF Family

\* The descent of a pin's descendant.
LEMMA FamilyThrough ==
  ASSUME Stored, NEW k, NEW pin \in Made, NEW d \in Made, pin.id \in Family(d), k \in Family(pin)
  PROVE  k \in Family(d)
<1>1. pin.id \in 0..Len(descPrev) /\ d.id \in 0..Len(descPrev) /\ Chained(descPrev)
  BY WholeTypes DEF Made, Stored
<1> QED BY <1>1, AncestryTransitive DEF Family

\* refresh keeps it: the descriptor it starts from is the server's current one.
LEMMA RefreshStep == ASSUME IInv, NEW t \in Threads, refresh(t) PROVE IInv'
<1>1. /\ h.at = "open" /\ op[t].at = "idle" /\ "refresh" \in plan.calls[t]
      /\ UNCHANGED <<server, client>>
      /\ late' = [late EXCEPT ![t] = FALSE] /\ Stored /\ Handled
  BY Running DEF refresh, Starts, Answered
<1>2. PICK c : c = [at |-> "refresh", d |-> Current]
  OBVIOUS
<1>3. Call(t, c) /\ c.at = "refresh" /\ c.d = Current
  BY <1>2 DEF refresh
<1>4. c.d \in Made /\ OnChain(c.d) /\ c.d.gen = Len(srv.descs)
  BY <1>1, <1>3, CurrentMade
<1>5. ~restored => h.pin.gen <= c.d.gen
  BY <1>1, <1>4, Viewed, WholeTypes DEF OnChain, Stored
<1>6. Runs(c, FALSE)
  BY <1>1, <1>3, <1>4, <1>5 DEF Runs, Refreshing, RefreshAts
<1>7. c.at \notin Auditing /\ Follows(c) /\ c.at # "repin"
  BY <1>3 DEF Auditing, Follows
<1>8. Sound'
  BY <1>1, <1>3, <1>6, <1>7, QuietStep
<1>9. (OneRefreshes => InOrder)'
  BY <1>1, <1>3, <1>7, OrderNext, Unmoved DEF IInv
<1> QED BY <1>8, <1>9 DEF IInv

\* A refresh that goes on.
LEMMA RefreshNext ==
  ASSUME IInv, NEW t \in Threads, NEW c, Call(t, c), op[t].at \in RefreshAts, op[t].at # "repin",
         c.at \in {"chain", "adopt"}, UNCHANGED <<server, client>>, Kept(t),
         Refreshing(c, late[t]), OneRefreshes /\ InOrder => Follows(c)
  PROVE  IInv'
<1>1. late[t] \in BOOLEAN /\ h.at = "open" /\ "refresh" \in plan.calls[t] /\ op'[t] = c
  BY Running, Calls
<1>2. PICK lag : lag = late[t]
  OBVIOUS
<1>3. late' = [late EXCEPT ![t] = lag]
  <2>1. (op'[t].at # "idle" /\ late[t]) = lag
    BY <1>1, <1>2
  <2> QED BY <2>1 DEF Kept
<1>4. c.at \in RefreshAts /\ c.at \notin Auditing /\ c.at # "repin"
  BY DEF RefreshAts, Auditing
<1>5. Runs(c, lag)
  BY <1>1, <1>2, <1>4 DEF Runs
<1>6. Sound'
  BY <1>1, <1>2, <1>3, <1>4, <1>5, QuietStep
<1>7. (OneRefreshes => InOrder)'
  BY <1>4, OrderNext, Unmoved DEF IInv
<1> QED BY <1>6, <1>7 DEF IInv

\* refresh_pin keeps it: a descriptor that is not newer than the pin is the
\* pinned one, and a newer one is checked from the pin on.
LEMMA RefreshPinStep == ASSUME IInv, NEW t \in Threads, refresh_pin(t) PROVE IInv'
<1>1. /\ op[t].at = "refresh" /\ op[t].at \in RefreshAts
      /\ UNCHANGED <<server, client>> /\ Kept(t) /\ Stored /\ Handled /\ h.at = "open"
      /\ op[t].d \in Made /\ (~restored => OnChain(op[t].d))
  BY Running DEF refresh_pin, RefreshAts, Refreshing
<1>2. /\ h.pin \in Made /\ h.pin.gen \in Nat /\ op[t].d.gen \in Nat
      /\ ~restored => OnChain(h.pin)
  BY <1>1, Viewed
<1>3. mem.pin.id \in Family(h.pin)
  BY <1>1 DEF Handled
<1>4. CASE compare_pin(h.pin, op[t].d) = "rollback"
  <2>1. Return(t, "generation_rollback") /\ "generation_rollback" \in Outs
    BY <1>4 DEF refresh_pin, Outs
  <2> QED BY <1>1, <2>1, EndStep
<1>5. CASE compare_pin(h.pin, op[t].d) = "ok"
  <2>1. PICK c : c = [at |-> "adopt", d |-> op[t].d]
    OBVIOUS
  <2>2. Call(t, c) /\ c.at = "adopt" /\ c.d = op[t].d
    BY <1>5, <2>1 DEF refresh_pin
  <2>3. op[t].d.gen = h.pin.gen /\ op[t].d.id = h.pin.id
    BY <1>2, <1>5 DEF compare_pin
  <2>4. mem.pin.id \in Family(c.d)
    BY <1>3, <2>2, <2>3 DEF Family
  <2>5. Refreshing(c, late[t]) /\ Follows(c)
    BY <1>1, <1>2, <2>2, <2>3, <2>4 DEF Refreshing, Follows
  <2> QED BY <1>1, <2>2, <2>5, RefreshNext
<1>6. CASE compare_pin(h.pin, op[t].d) \notin {"rollback", "ok"}
  <2>1. PICK c : c = [at |-> "chain", d |-> op[t].d, pin |-> h.pin]
    OBVIOUS
  <2>2. Call(t, c) /\ c.at = "chain" /\ c.d = op[t].d /\ c.pin = h.pin
    BY <1>6, <2>1 DEF refresh_pin
  <2>3. h.pin.gen < op[t].d.gen
    BY <1>2, <1>6 DEF compare_pin
  <2>4. Refreshing(c, late[t]) /\ Follows(c)
    BY <1>1, <1>2, <1>3, <2>2, <2>3 DEF Refreshing, Follows
  <2> QED BY <1>1, <2>2, <2>4, RefreshNext
<1> QED BY <1>4, <1>5, <1>6

\* refresh_chain keeps it: a chain that verifies descends from the pin, and so
\* from what was remembered.
LEMMA RefreshChainStep == ASSUME IInv, NEW t \in Threads, refresh_chain(t) PROVE IInv'
<1>1. /\ op[t].at = "chain" /\ op[t].at \in RefreshAts
      /\ UNCHANGED <<server, client>> /\ Kept(t) /\ Stored
      /\ op[t].d \in Made /\ op[t].pin \in Made /\ op[t].pin.gen < op[t].d.gen
      /\ mem.pin.id \in Family(op[t].pin) /\ (~restored => OnChain(op[t].d))
  BY Running DEF refresh_chain, RefreshAts, Refreshing
<1>2. CASE check_descriptor_chain(op[t].pin, op[t].d)
  <2>1. PICK c : c = [at |-> "adopt", d |-> op[t].d]
    OBVIOUS
  <2>2. Call(t, c) /\ c.at = "adopt" /\ c.d = op[t].d
    BY <1>2, <2>1 DEF refresh_chain
  <2>3. mem.pin.id \in Family(c.d)
    BY <1>1, <1>2, <2>2, ChainDescends, FamilyThrough
  <2>4. OneRefreshes /\ InOrder => Follows(c)
    <3>1. SUFFICES ASSUME InOrder PROVE Follows(c)
      OBVIOUS
    <3>2. op[t].pin = h.pin
      BY <1>1, <3>1 DEF InOrder, Follows
    <3>3. h.pin.gen <= c.d.gen
      BY <1>1, <2>2, <3>2 DEF Made
    <3> QED BY <2>2, <3>3 DEF Follows
  <2>5. Refreshing(c, late[t])
    BY <1>1, <2>2, <2>3 DEF Refreshing
  <2> QED BY <1>1, <2>2, <2>4, <2>5, RefreshNext
<1>3. CASE ~check_descriptor_chain(op[t].pin, op[t].d)
  <2>1. Return(t, "binding_mismatch") /\ "binding_mismatch" \in Outs
    BY <1>3 DEF refresh_chain, Outs
  <2> QED BY <1>1, <2>1, EndStep
<1> QED BY <1>2, <1>3

\* An answer that never arrives keeps it.
LEMMA UnreachableStep == ASSUME IInv, NEW t \in Threads, unreachable(t) PROVE IInv'
<1>1. op[t].at # "repin" /\ "unreachable" \in Outs
  BY DEF unreachable, Outs
<1> QED BY <1>1, EndStep DEF unreachable

-----------------------------------------------------------------------------
(* The steps of a verification of the audit log. *)

\* A row's place and identity.
LEMMA RowParts ==
  \A r \in Rows : r.seq \in Nat /\ r.seq \in 1..MaxRows /\ r.id \in 1..Len(rowPrev)
BY DEF Rows

\* Rows served one after the other are served together.
LEMMA ServedConcat ==
  ASSUME NEW a \in Seq(Rows), NEW b \in Seq(Rows), NEW k \in Nat,
         Served(a, k), Served(b, k + Len(a))
  PROVE  a \o b \in Seq(Rows) /\ Served(a \o b, k) /\ Len(a \o b) = Len(a) + Len(b)
<1>1. /\ a \o b \in Seq(Rows) /\ Len(a \o b) = Len(a) + Len(b) /\ Len(a) \in Nat /\ Len(b) \in Nat
      /\ \A i \in 1..Len(a) : (a \o b)[i] = a[i]
      /\ \A i \in 1..Len(b) : (a \o b)[Len(a) + i] = b[i]
  OBVIOUS
<1> DEFINE ab == a \o b
<1> HIDE DEF ab
<1>2. SUFFICES ASSUME NEW i \in 1..Len(ab)
               PROVE  /\ ab[i].seq = k + i /\ k + i <= Len(srv.log)
                      /\ ab[i].id = srv.log[k + i]
  BY <1>1 DEF Served, ab
<1>3. i \in 1..Len(a) \/ \E j \in 1..Len(b) : i = Len(a) + j
  <2>1. CASE i <= Len(a)
    BY <1>1, <2>1 DEF ab
  <2>2. CASE ~(i <= Len(a))
    <3>1. i - Len(a) \in 1..Len(b) /\ i = Len(a) + (i - Len(a))
      BY <1>1, <2>2 DEF ab
    <3> QED BY <3>1
  <2> QED BY <2>1, <2>2
<1>4. CASE i \in 1..Len(a)
  BY <1>1, <1>4 DEF Served, ab
<1>5. ASSUME NEW j \in 1..Len(b), i = Len(a) + j
      PROVE  ab[i].seq = k + i /\ k + i <= Len(srv.log) /\ ab[i].id = srv.log[k + i]
  <2>1. b[j].seq = k + Len(a) + j /\ k + Len(a) + j <= Len(srv.log) /\ b[j].id = srv.log[k + Len(a) + j]
    BY DEF Served
  <2>2. k + Len(a) + j = k + i /\ ab[i] = b[j]
    BY <1>1, <1>5 DEF ab
  <2> QED BY <2>1, <2>2
<1> QED BY <1>3, <1>4, <1>5

\* read_rows keeps the beginning of a page; all of it, if no row stopped it.
LEMMA ReadRows ==
  ASSUME MaxRows \in Nat, NEW page \in Seq(Rows), NEW fmt \in 0..MaxRows
  PROVE  /\ read_rows(page, fmt) \in Seq(Rows)
         /\ Len(read_rows(page, fmt)) \in 0..Len(page)
         /\ Len(read_rows(page, fmt)) = Len(page) => read_rows(page, fmt) = page
         /\ \A after \in Nat : Served(page, after) => Served(read_rows(page, fmt), after)
<1> DEFINE P(n) == /\ \A i \in 1..n : page[i].seq <= fmt
                   /\ n < Len(page) => page[n + 1].seq > fmt
           T == {i \in 1..Len(page) : page[i].seq > fmt}
<1>1. Len(page) \in Nat /\ \A i \in 1..Len(page) : page[i] \in Rows /\ page[i].seq \in Nat
  BY RowParts
<1>2. \E n \in 0..Len(page) : P(n)
  <2>1. CASE T = {}
    <3>1. P(Len(page)) /\ Len(page) \in 0..Len(page)
      BY <1>1, <2>1
    <3> QED BY <3>1
  <2>2. CASE T # {}
    <3>1. T \in SUBSET Nat
      OBVIOUS
    <3>2. PICK x \in T : \A y \in T : ~(y < x)
      BY <2>2, <3>1, LeastOf
    <3>3. x \in 1..Len(page) /\ page[x].seq > fmt
      OBVIOUS
    <3>4. x - 1 \in 0..Len(page) /\ (x - 1) + 1 = x
      BY <1>1, <3>3
    <3>5. ASSUME NEW i \in 1..(x - 1) PROVE page[i].seq <= fmt
      <4>1. i \in 1..Len(page) /\ i < x
        BY <1>1, <3>3
      <4>2. i \notin T
        BY <3>2, <4>1
      <4> QED BY <1>1, <4>1, <4>2
    <3> QED BY <3>3, <3>4, <3>5
  <2> QED BY <2>1, <2>2
<1> HIDE DEF T
<1>3. PICK n \in 0..Len(page) : read_rows(page, fmt) = SubSeq(page, 1, n)
  <2>1. read_rows(page, fmt) = SubSeq(page, 1, CHOOSE n \in 0..Len(page) : P(n))
    BY DEF read_rows
  <2> HIDE DEF P
  <2>2. (CHOOSE n \in 0..Len(page) : P(n)) \in 0..Len(page)
    BY <1>2
  <2> QED BY <2>1, <2>2
<1> HIDE DEF P
<1> DEFINE kept == SubSeq(page, 1, n)
<1>4. /\ kept \in Seq(Rows) /\ Len(kept) = n
      /\ \A i \in 1..n : kept[i] = page[i]
  BY <1>1
<1>5. n = Len(page) => kept = page
  BY <1>1, <1>4
<1> HIDE DEF kept
<1>6. ASSUME NEW after \in Nat, Served(page, after) PROVE Served(kept, after)
  <2>1. \A i \in 1..n : i \in 1..Len(page)
    BY <1>1
  <2> QED BY <1>4, <1>6, <2>1 DEF Served
<1>7. read_rows(page, fmt) = kept
  BY <1>3 DEF kept
<1> QED BY <1>1, <1>4, <1>5, <1>6, <1>7

\* What verify_chain accepts descends from the head it starts at.
LEMMA ChainHistory ==
  ASSUME Stored, NEW known, known = GENESIS \/ known \in Rows, NEW rows \in Seq(Rows),
         verify_chain(known, rows)
  PROVE  /\ chain_head(known, rows) = GENESIS \/ chain_head(known, rows) \in Rows
         /\ known.id \in History(chain_head(known, rows))
<1> DEFINE n == Len(rows)
           run == [i \in 0..n |-> IF i = 0 THEN known.id ELSE rows[i].id]
<1>1. n \in Nat /\ Len(rowPrev) \in Nat /\ Chained(rowPrev) /\ known.id \in 0..Len(rowPrev)
  BY WholeTypes DEF Stored, Rows, GENESIS
<1>2. \A i \in 1..n : rows[i] \in Rows /\ rows[i].id \in 1..Len(rowPrev)
  BY RowParts
<1>3. ASSUME NEW i \in 1..n
      PROVE  rowPrev[rows[i].id] = IF i = 1 THEN known.id ELSE rows[i - 1].id
  BY DEF verify_chain
<1>4. run[0] = known.id /\ \A i \in 1..n : run[i] = rows[i].id
  BY <1>1
<1> HIDE DEF run, n
<1>5. ASSUME NEW i \in 1..n PROVE run[i] \in 1..Len(rowPrev) /\ rowPrev[run[i]] = run[i - 1]
  <2>1. CASE i = 1
    <3>1. i - 1 = 0
      BY <2>1
    <3> QED BY <1>2, <1>3, <1>4, <2>1, <3>1
  <2>2. CASE i # 1
    <3>1. i - 1 \in 1..n
      BY <1>1, <2>2
    <3> QED BY <1>2, <1>3, <1>4, <2>2, <3>1
  <2> QED BY <2>1, <2>2
<1>6. /\ \A i \in 0..n : run[i] \in 0..Len(rowPrev)
      /\ \A i \in 1..n : run[i] # 0 /\ rowPrev[run[i]] = run[i - 1]
  <2>1. ASSUME NEW i \in 0..n PROVE run[i] \in 0..Len(rowPrev)
    <3>1. i = 0 \/ i \in 1..n
      BY <1>1
    <3> QED BY <1>1, <1>4, <1>5, <3>1
  <2> QED BY <1>1, <1>5, <2>1
<1>7. run[0] \in Ancestry(rowPrev)[run[n]]
  BY <1>1, <1>6, AncestryRun
<1>8. CASE rows = <<>>
  <2>1. n = 0 /\ chain_head(known, rows) = known
    BY <1>8 DEF chain_head, n
  <2> QED BY <1>4, <1>7, <2>1 DEF History
<1>9. CASE rows # <<>>
  <2>1. n \in 1..n /\ chain_head(known, rows) = rows[n]
    BY <1>1, <1>9 DEF chain_head, n
  <2> QED BY <1>2, <1>4, <1>7, <2>1 DEF History
<1> QED BY <1>8, <1>9

\* The head reached through served rows is in the log, after as many rows.
LEMMA ServedHead ==
  ASSUME Stored, ~restored, NEW known, known = GENESIS \/ known \in Rows, InLog(known),
         NEW rows \in Seq(Rows), Served(rows, known.seq)
  PROVE  /\ InLog(chain_head(known, rows))
         /\ chain_head(known, rows).seq = known.seq + Len(rows)
<1>1. Len(rows) \in Nat /\ known.seq \in Nat
  BY PlanTypes DEF Rows, GENESIS
<1>2. CASE rows = <<>>
  BY <1>1, <1>2 DEF chain_head
<1>3. CASE rows # <<>>
  <2>1. Len(rows) \in 1..Len(rows) /\ chain_head(known, rows) = rows[Len(rows)]
    BY <1>1, <1>3 DEF chain_head
  <2> DEFINE r == rows[Len(rows)]
  <2>2. /\ r.seq = known.seq + Len(rows) /\ known.seq + Len(rows) <= Len(srv.log)
        /\ r.id = srv.log[known.seq + Len(rows)]
    BY <2>1 DEF Served
  <2> HIDE DEF r
  <2>3. r.seq \in 1..Len(srv.log)
    BY <1>1, <2>1, <2>2, WholeTypes DEF Stored
  <2> QED BY <2>1, <2>2, <2>3 DEF InLog, r
<1> QED BY <1>2, <1>3

\* An audit that goes on.
LEMMA AuditNext ==
  ASSUME IInv, NEW t \in Threads, NEW c, Call(t, c), c.at \in Auditing, NEW lag \in BOOLEAN,
         Verifying(c, lag), late' = [late EXCEPT ![t] = lag], UNCHANGED <<server, client>>,
         h.at = "open", op[t].at # "repin",
         op[t].at \in Auditing \/ \A u \in Threads : op[u].at \notin Auditing
  PROVE  IInv'
<1>1. Runs(c, lag)
  BY DEF Runs
<1>2. c.at \notin RefreshAts
  BY DEF RefreshAts, Auditing
<1> QED BY <1>1, <1>2, QuietStep

\* Where the recorded head is.
LEMMA HeadKnown ==
  ASSUME Stored, Remembered(mem)
  PROVE  /\ mem.head = GENESIS \/ mem.head \in Rows
         /\ mem.head.seq \in Nat /\ mem.head.id \in Nat /\ mem.head.id \in 0..Len(rowPrev)
         /\ mem.head.seq = 0 => mem.head = GENESIS
         /\ mem.head.id \in History(mem.head)
         /\ ~restored => InLog(mem.head) /\ mem.head.seq <= Len(srv.log)
<1>1. mem.head = GENESIS \/ mem.head \in Rows
  BY DEF Remembered
<1>2. /\ Len(rowPrev) \in Nat /\ Chained(rowPrev) /\ Len(srv.log) \in Nat /\ GENESIS.seq = 0
      /\ GENESIS.id = 0
  BY WholeTypes DEF Stored, GENESIS
<1>3. mem.head.seq \in Nat /\ mem.head.id \in 0..Len(rowPrev) /\ (mem.head.seq = 0 => mem.head = GENESIS)
  BY <1>1, <1>2, RowParts
<1>4. mem.head.id \in History(mem.head)
  BY <1>2, <1>3, AncestrySelf DEF History
<1>5. ~restored => InLog(mem.head)
  BY DEF Remembered
<1>6. ~restored => mem.head.seq <= Len(srv.log)
  BY <1>2, <1>5 DEF InLog
<1> QED BY <1>1, <1>2, <1>3, <1>4, <1>5, <1>6

\* verify_audit keeps it: one audit runs at a time, from the recorded head.
LEMMA VerifyAuditStep == ASSUME IInv, NEW t \in Threads, verify_audit(t) PROVE IInv'
<1>1. /\ h.at = "open" /\ op[t].at = "idle" /\ \A u \in Threads : op[u].at \notin Auditing
      /\ UNCHANGED <<server, client>> /\ late' = [late EXCEPT ![t] = FALSE]
  BY DEF verify_audit, Starts, Answered
<1>2. PICK earlier \in BOOLEAN : Call(t, [at |-> "audit_rows", rows |-> <<>>, earlier |-> earlier])
  BY DEF verify_audit
<1>3. PICK c : c = [at |-> "audit_rows", rows |-> <<>>, earlier |-> earlier]
  OBVIOUS
<1>4. c.at = "audit_rows" /\ c.rows = <<>> /\ Call(t, c) /\ c.at \in Auditing
  BY <1>2, <1>3 DEF Auditing
<1>5. c.rows \in Seq(Rows) /\ Served(c.rows, mem.head.seq)
  BY <1>4 DEF Served
<1>6. Verifying(c, FALSE)
  BY <1>4, <1>5 DEF Verifying
<1> QED BY <1>1, <1>4, <1>6, AuditNext

\* The rows after `after` that fit a page.
LEMMA PageServed ==
  ASSUME Stored, NEW after \in Nat, NEW n \in Nat, n <= Page, n = 0 \/ after + n <= Len(srv.log),
         NEW page, page = [i \in 1..n |-> [seq |-> after + i, id |-> srv.log[after + i]]]
  PROVE  page \in Seq(Rows) /\ Len(page) = n /\ Served(page, after)
<1>1. /\ Len(srv.log) \in Nat /\ Len(srv.log) <= MaxRows /\ MaxRows \in Nat
      /\ \A q \in 1..Len(srv.log) : srv.log[q] \in 1..Len(rowPrev)
  <2>1. Whole(srv) /\ MaxRows \in Nat
    BY PlanTypes DEF Stored
  <2>2. Len(srv.log) \in 1..MaxRows /\ Len(srv.log) \in Nat
    BY <2>1, WholeTypes
  <2>3. \A q \in 1..Len(srv.log) : srv.log[q] \in 1..Len(rowPrev)
    BY <2>1 DEF Whole
  <2> QED BY <2>1, <2>2, <2>3
<1>2. ASSUME NEW i \in 1..n
      PROVE  /\ page[i].seq = after + i /\ after + i <= Len(srv.log)
             /\ page[i].id = srv.log[after + i] /\ page[i] \in Rows
  <2>1. after + i \in 1..Len(srv.log) /\ after + i \in 1..MaxRows
    BY <1>1
  <2>2. page[i] = [seq |-> after + i, id |-> srv.log[after + i]]
    OBVIOUS
  <2> QED BY <1>1, <2>1, <2>2 DEF Rows
<1>3. page \in [1..n -> Rows]
  BY <1>2
<1>4. page \in Seq(Rows) /\ Len(page) = n
  <2>1. \A S : \A f \in [1..n -> S] : f \in Seq(S) /\ Len(f) = n
    OBVIOUS
  <2> QED BY <1>3, <2>1
<1> QED BY <1>2, <1>4 DEF Served

\* audit_after's first read keeps it: the page is a run of the server's log.
LEMMA AuditAfterStep == ASSUME IInv, NEW t \in Threads, audit_after(t) PROVE IInv'
<1>1. /\ op[t].at = "audit_rows" /\ op[t].at \in Auditing /\ h.at = "open" /\ Stored
      /\ Remembered(mem)
      /\ UNCHANGED <<server, client>> /\ late' = [late EXCEPT ![t] = FALSE]
      /\ op[t].rows \in Seq(Rows) /\ (~restored => Served(op[t].rows, mem.head.seq))
  BY Running DEF audit_after, Auditing, Verifying, Answered
<1> DEFINE rows == op[t].rows
           after == IF rows = <<>> THEN mem.head.seq ELSE rows[Len(rows)].seq
           left == Len(srv.log) - after
           n == IF left > Page THEN Page ELSE IF left < 0 THEN 0 ELSE left
           page == [i \in 1..n |-> [seq |-> after + i, id |-> srv.log[after + i]]]
           c == [at |-> "audit_head", rows |-> rows, earlier |-> op[t].earlier,
                 page |-> page, fmt |-> srv.fmt]
<1>2. Call(t, c)
  BY DEF audit_after
<1>3. mem.head.seq \in Nat /\ (~restored => mem.head.seq <= Len(srv.log)) /\ Len(rows) \in Nat
  BY <1>1, HeadKnown
<1>4. rows # <<>> => Len(rows) \in 1..Len(rows) /\ rows[Len(rows)] \in Rows
  BY <1>1
<1>5. Len(srv.log) \in Nat /\ Page \in Nat /\ Page > 0 /\ srv.fmt \in 0..MaxRows
  BY <1>1, WholeTypes, VaultHandleAssumption DEF Stored
<1> HIDE DEF rows
<1>6. after \in Nat
  BY <1>3, <1>4, RowParts
<1>7. ~restored => after = mem.head.seq + Len(rows) /\ after <= Len(srv.log)
  <2>1. CASE rows = <<>>
    BY <1>3, <2>1
  <2>2. CASE rows # <<>>
    BY <1>1, <1>3, <1>4, <2>2 DEF Served, rows
  <2> QED BY <2>1, <2>2
<1> HIDE DEF after
<1>8. /\ n \in Nat /\ n <= Page /\ (n = 0 \/ after + n <= Len(srv.log))
      /\ n < Page /\ after <= Len(srv.log) => after + n = Len(srv.log)
  BY <1>5, <1>6
<1> HIDE DEF n
<1>9. page \in Seq(Rows) /\ Len(page) = n /\ Served(page, after)
  BY <1>1, <1>6, <1>8, PageServed
<1> HIDE DEF page
<1>10. /\ c.at = "audit_head" /\ c.at \in Auditing /\ c.rows = rows /\ c.page = page
       /\ c.fmt = srv.fmt
  BY DEF Auditing
<1> HIDE DEF c
<1>11. ~restored => /\ Served(rows, mem.head.seq) /\ Served(page, mem.head.seq + Len(rows))
                    /\ Len(page) < Page => Len(srv.log) = mem.head.seq + Len(rows) + Len(page)
  BY <1>1, <1>7, <1>8, <1>9 DEF rows
<1>12. Verifying(c, FALSE)
  BY <1>1, <1>5, <1>8, <1>9, <1>10, <1>11 DEF Verifying, rows
<1> QED BY <1>1, <1>2, <1>10, <1>12, AuditNext

\* The rows an audit has when a page is read, and what they lead to.
LEMMA AuditRead ==
  ASSUME IInv, NEW t \in Threads, op[t].at = "audit_head"
  PROVE  LET kept == read_rows(op[t].page, op[t].fmt)
             rows == op[t].rows \o kept
         IN  /\ kept \in Seq(Rows) /\ rows \in Seq(Rows)
             /\ Len(kept) \in 0..Len(op[t].page) /\ Len(op[t].page) \in Nat
             /\ Len(op[t].page) <= Page
             /\ Len(kept) = Len(op[t].page) => kept = op[t].page
             /\ ~restored => Served(rows, mem.head.seq) /\ Len(rows) = Len(op[t].rows) + Len(kept)
             /\ ~restored /\ ~late[t] /\ Len(op[t].page) < Page =>
                   Len(srv.log) = mem.head.seq + Len(op[t].rows) + Len(op[t].page)
<1>1. /\ op[t].rows \in Seq(Rows) /\ op[t].page \in Seq(Rows) /\ Len(op[t].page) <= Page
      /\ op[t].fmt \in 0..MaxRows
      /\ ~restored =>
            /\ Served(op[t].rows, mem.head.seq)
            /\ Served(op[t].page, mem.head.seq + Len(op[t].rows))
            /\ ~late[t] /\ Len(op[t].page) < Page =>
                  Len(srv.log) = mem.head.seq + Len(op[t].rows) + Len(op[t].page)
  BY Running DEF Auditing, Verifying
<1> DEFINE page == op[t].page
           fmt == op[t].fmt
           old == op[t].rows
           kept == read_rows(page, fmt)
<1>2. mem.head.seq \in Nat /\ MaxRows \in Nat /\ Len(old) \in Nat /\ Len(page) \in Nat
  <2>1. Stored /\ Remembered(mem)
    BY Running
  <2>2. mem.head.seq \in Nat /\ MaxRows \in Nat
    BY <2>1, HeadKnown, PlanTypes
  <2>3. Len(old) \in Nat /\ Len(page) \in Nat
    BY <1>1
  <2> QED BY <2>2, <2>3
<1> HIDE DEF page, fmt, old
<1>3. /\ kept \in Seq(Rows) /\ Len(kept) \in 0..Len(page)
      /\ Len(kept) = Len(page) => kept = page
      /\ \A after \in Nat : Served(page, after) => Served(kept, after)
  BY <1>1, <1>2, ReadRows DEF page, fmt
<1> HIDE DEF kept
<1>4. mem.head.seq + Len(old) \in Nat
  BY <1>2
<1>5. ~restored => Served(old \o kept, mem.head.seq) /\ Len(old \o kept) = Len(old) + Len(kept)
  BY <1>1, <1>2, <1>3, <1>4, ServedConcat DEF page, old
<1>6. old \o kept \in Seq(Rows)
  BY <1>1, <1>3 DEF old
<1> QED BY <1>1, <1>2, <1>3, <1>5, <1>6 DEF page, fmt, old, kept

\* A page read: more is asked for, the head is verified, or the audit fails.
LEMMA AuditRowsCases ==
  ASSUME NEW t \in Threads, audit_rows(t)
  PROVE  LET kept == read_rows(op[t].page, op[t].fmt)
             stop == Len(kept) < Len(op[t].page)
             rows == op[t].rows \o kept
             verdict == verify_rows(mem.head, rows, LogHead, stop)
             full == ~stop /\ Len(kept) = Page
         IN  \/ full /\ Call(t, [at |-> "audit_rows", rows |-> rows, earlier |-> op[t].earlier])
             \/ ~full /\ verdict = "ok" /\
                   Call(t, [at |-> IF op[t].earlier /\ mem.head # GENESIS
                                   THEN "audit_before" ELSE "audit_names",
                            head |-> chain_head(mem.head, rows)])
             \/ ~full /\ verdict # "ok" /\ Return(t, verdict)
BY DEF audit_rows

\* audit_rows keeps it: rows that verify extend the recorded head, even when a
\* copy was put back between two pages.
LEMMA AuditRowsStep == ASSUME IInv, NEW t \in Threads, audit_rows(t) PROVE IInv'
<1> DEFINE kept == read_rows(op[t].page, op[t].fmt)
           stop == Len(kept) < Len(op[t].page)
           rows == op[t].rows \o kept
           verdict == verify_rows(mem.head, rows, LogHead, stop)
           more == [at |-> "audit_rows", rows |-> rows, earlier |-> op[t].earlier]
           done == [at |-> IF op[t].earlier /\ mem.head # GENESIS
                           THEN "audit_before" ELSE "audit_names",
                    head |-> chain_head(mem.head, rows)]
<1>1. /\ op[t].at = "audit_head" /\ op[t].at \in Auditing /\ op[t].at # "repin"
      /\ h.at = "open" /\ Stored /\ Remembered(mem) /\ late[t] \in BOOLEAN
      /\ UNCHANGED <<server, client>> /\ Kept(t)
  BY Running DEF audit_rows, Auditing
<1>2. rows \in Seq(Rows) /\ (~restored => Served(rows, mem.head.seq))
  BY <1>1, AuditRead
<1>3. Call(t, more) \/ (verdict = "ok" /\ Call(t, done)) \/ Return(t, verdict)
  BY AuditRowsCases
<1> HIDE DEF kept, stop, rows
<1>4. ASSUME NEW c, Call(t, c), c.at # "idle" PROVE late' = [late EXCEPT ![t] = late[t]]
  <2>1. op'[t].at # "idle"
    BY <1>4, Calls
  <2>2. (op'[t].at # "idle" /\ late[t]) = late[t]
    BY <1>1, <2>1
  <2> QED BY <1>1, <2>2 DEF Kept
<1>5. CASE Call(t, more)
  <2>1. more.at = "audit_rows" /\ more.rows = rows /\ more.at \in Auditing
    BY DEF Auditing
  <2> HIDE DEF more
  <2>2. Verifying(more, late[t])
    BY <1>2, <2>1 DEF Verifying
  <2>3. late' = [late EXCEPT ![t] = late[t]]
    BY <1>4, <1>5, <2>1
  <2> QED BY <1>1, <1>5, <2>1, <2>2, <2>3, AuditNext
<1>6. CASE verdict = "ok" /\ Call(t, done)
  <2> DEFINE head == chain_head(mem.head, rows)
  <2>1. verify_chain(mem.head, rows)
    BY <1>6 DEF verify_rows
  <2>2. /\ mem.head = GENESIS \/ mem.head \in Rows
        /\ ~restored => InLog(mem.head)
    BY <1>1, HeadKnown
  <2>3. /\ head = GENESIS \/ head \in Rows
        /\ mem.head.id \in History(head)
    BY <1>1, <1>2, <2>1, <2>2, ChainHistory
  <2>4. ~restored => InLog(head)
    BY <1>1, <1>2, <2>2, ServedHead
  <2>5. /\ done.head = head
        /\ done.at = IF op[t].earlier /\ mem.head # GENESIS THEN "audit_before" ELSE "audit_names"
    OBVIOUS
  <2> HIDE DEF head, done
  <2>6. /\ done.at \in {"audit_before", "audit_names"} /\ done.at \in Auditing
        /\ done.at = "audit_before" => mem.head # GENESIS
    BY <2>5 DEF Auditing
  <2>7. Verifying(done, late[t])
    BY <2>3, <2>4, <2>5, <2>6 DEF Verifying
  <2>8. late' = [late EXCEPT ![t] = late[t]]
    BY <1>4, <1>6, <2>6
  <2> QED BY <1>1, <1>6, <2>6, <2>7, <2>8, AuditNext
<1>7. CASE Return(t, verdict)
  <2>1. verdict \in Outs
    BY DEF verify_rows, Outs
  <2> QED BY <1>1, <1>7, <2>1, EndStep
<1> QED BY <1>3, <1>5, <1>6, <1>7

\* audit_before keeps it: the row fetched again changes nothing that is known.
LEMMA AuditBeforeStep == ASSUME IInv, NEW t \in Threads, audit_before(t) PROVE IInv'
<1>1. /\ op[t].at = "audit_before" /\ op[t].at \in Auditing /\ op[t].at # "repin" /\ h.at = "open"
      /\ UNCHANGED <<server, client>> /\ Answered(t)
      /\ op[t].head = GENESIS \/ op[t].head \in Rows
      /\ mem.head.id \in History(op[t].head) /\ (~restored => InLog(op[t].head))
  BY Running DEF audit_before, Auditing, Verifying
<1>2. CASE Return(t, "binding_mismatch")
  <2>1. "binding_mismatch" \in Outs
    BY DEF Outs
  <2> QED BY <1>1, <1>2, <2>1, EndStep
<1>3. CASE Call(t, [at |-> "audit_names", head |-> op[t].head])
  <2> DEFINE c == [at |-> "audit_names", head |-> op[t].head]
  <2>1. c.at = "audit_names" /\ c.head = op[t].head /\ c.at \in Auditing /\ Call(t, c)
    BY <1>3 DEF Auditing
  <2> HIDE DEF c
  <2>2. Verifying(c, FALSE)
    BY <1>1, <2>1 DEF Verifying
  <2> QED BY <1>1, <2>1, <2>2, AuditNext DEF Answered
<1> QED BY <1>2, <1>3 DEF audit_before

\* audit_names keeps it: the listing is the server's.
LEMMA AuditNamesStep == ASSUME IInv, NEW t \in Threads, audit_names(t) PROVE IInv'
<1>1. /\ op[t].at = "audit_names" /\ op[t].at \in Auditing /\ op[t].at # "repin" /\ h.at = "open"
      /\ UNCHANGED <<server, client>> /\ Answered(t) /\ Stored /\ Handled
      /\ op[t].head = GENESIS \/ op[t].head \in Rows
      /\ mem.head.id \in History(op[t].head) /\ (~restored => InLog(op[t].head))
  BY Running DEF audit_names, Auditing, Verifying
<1> DEFINE c == [at |-> "audit_done", head |-> op[t].head, view |-> h.view, item |-> ListItem]
<1>2. /\ c.at = "audit_done" /\ c.head = op[t].head /\ c.view = h.view /\ c.item = ListItem
      /\ c.at \in Auditing /\ Call(t, c)
  BY DEF Auditing, audit_names
<1> HIDE DEF c
<1>3. c.view \in Made /\ Item(c.item) /\ ItemServed(c.item)
  BY <1>1, <1>2, Viewed, ListedItem
<1>4. Verifying(c, FALSE)
  BY <1>1, <1>2, <1>3 DEF Verifying
<1> QED BY <1>1, <1>2, <1>4, AuditNext DEF Answered

-----------------------------------------------------------------------------
(* The steps of a thread that the server answers and audits. *)

\* A request that is audited: it may append a row, and its call goes on.
LEMMA WireStep ==
  ASSUME IInv, NEW t \in Threads, NEW c, Call(t, c), Grows, UNCHANGED client, Appended(t),
         Runs(c, FALSE)', op[t].at # "repin", c.at \notin RefreshAts, c.at \notin Auditing
  PROVE  IInv'
<1>1. UNCHANGED <<h, mem, disk, plan>>
  BY DEF client
<1>2. PICK lag : lag = FALSE
  OBVIOUS
<1>3. Lags(t) /\ lag = late'[t]
  <2>1. late \in [Threads -> BOOLEAN]
    BY DEF IInv, Sound
  <2>2. late' = [u \in Threads |-> u # t /\ (late[u] \/ op[u].at = "audit_head")]
    BY DEF Appended
  <2>3. late'[t] = FALSE /\ \A u \in Threads \ {t} : late'[u] = (late[u] \/ op[u].at = "audit_head")
    BY <2>2
  <2>4. late' \in [Threads -> BOOLEAN]
    BY <2>2
  <2> QED BY <1>1, <1>2, <2>3, <2>4 DEF Lags
<1>4. Handled' /\ Remembered(mem)'
  <2>1. Handled'
    BY <1>1, HandledKept DEF IInv, Sound
  <2>2. PICK m : m = mem
    OBVIOUS
  <2>3. Remembered(m)'
    BY <2>2, RememberedKept DEF IInv, Sound
  <2>4. m = mem'
    BY <1>1, <2>2
  <2> QED BY <2>1, <2>3, <2>4
<1>5. \A i \in DescIds : h.seen[i] <= h'.seen[i]
  <2>1. h.seen \in VersionPins
    BY DEF IInv, Sound, Handled
  <2> QED BY <1>1, <2>1, VaultHandleAssumption DEF VersionPins
<1>6. Sound'
  BY <1>1, <1>2, <1>3, <1>4, <1>5, Assemble DEF IInv
<1>7. (OneRefreshes => InOrder)'
  BY <1>1, OrderKept DEF IInv
<1> QED BY <1>6, <1>7 DEF IInv

\* A request that leaves the records as they are.
LEMMA AuditedGrows ==
  ASSUME Stored, append_audit(srv), UNCHANGED <<descPrev, store, plan>>
  PROVE  Grows /\ srv'.descs = srv.descs /\ srv'.ver = srv.ver
<1>1. /\ srv \in Servers /\ srv.ver <= srv.ver /\ (srv.live => srv.ver > 0)
  <2>1. Whole(srv)
    BY DEF Stored
  <2>2. srv.ver \in Nat
    BY <2>1, WholeTypes
  <2> QED BY <2>1, <2>2 DEF Whole
<1> QED BY <1>1, RecordGrows

\* fetch keeps it: a record served has a version at least the pinned one, and a
\* live record that is missed means that the vault was rotated.
LEMMA FetchStep == ASSUME IInv, NEW t \in Threads, fetch(t) PROVE IInv'
<1>1. /\ h.at = "open" /\ op[t].at = "idle" /\ op[t].at # "repin" /\ op[t].at \notin RefreshAts
      /\ UNCHANGED <<descPrev, store, client>> /\ Stored /\ Handled /\ Remembered(mem)
  BY Running DEF fetch, Starts, RefreshAts
<1>2. /\ h.view \in Made /\ h.view.id \in DescIds /\ h.seen \in VersionPins
      /\ ~restored => OnChain(h.view) /\ Reached(h.vers)
      /\ srv.ver \in 0..MaxVer /\ srv.live \in BOOLEAN /\ MaxVer \in Nat
  BY <1>1, Viewed, WholeTypes, PlanTypes DEF Stored
<1>3. CASE Indexed(h.view) /\ srv.live
  <2>1. PICK c : c = [at |-> "fetched", view |-> h.view, ver |-> srv.ver, floor |-> h.seen[h.view.id]]
    OBVIOUS
  <2>2. /\ append_audit(srv) /\ Call(t, c) /\ Appended(t)
        /\ c.at = "fetched" /\ c.view = h.view /\ c.ver = srv.ver /\ c.floor = h.seen[h.view.id]
    BY <1>3, <2>1 DEF fetch
  <2>3. Grows /\ UNCHANGED <<h, mem, disk, plan>>
    BY <1>1, <2>2, AuditedGrows DEF client
  <2>4. c.floor \in 0..MaxVer /\ c.floor <= h.seen[c.view.id]
    BY <1>2, <2>2 DEF VersionPins
  <2>5. ~restored => c.ver <= srv.ver /\ h.vers[c.view.id] <= c.ver
    BY <1>2, <2>2 DEF Reached
  <2>6. Runs(c, FALSE)
    BY <1>1, <1>2, <2>2, <2>4, <2>5 DEF Runs, Reading, ReadAts
  <2>7. Handled'
    BY <1>1, <2>3, HandledKept
  <2>8. \A i \in DescIds : h.seen[i] <= h'.seen[i]
    BY <1>2, <2>3 DEF VersionPins
  <2>9. c.at \notin Auditing /\ c.at \notin RefreshAts /\ c.at # "audit_head"
    BY <2>2 DEF Auditing, RefreshAts
  <2>10. Runs(c, FALSE)'
    BY <1>1, <2>3, <2>6, <2>7, <2>8, <2>9, RunsKept
  <2> QED BY <1>1, <2>2, <2>3, <2>9, <2>10, WireStep
<1>4. CASE ~(Indexed(h.view) /\ srv.live)
  <2>1. PICK c : c = [at |-> "missed", view |-> h.view, then |-> "fetch", absent |-> ~srv.live]
    OBVIOUS
  <2>2. /\ Call(t, c) /\ Answered(t) /\ UNCHANGED <<srv, rowPrev>>
        /\ c.at = "missed" /\ c.view = h.view /\ c.absent = ~srv.live
    BY <1>4, <2>1 DEF fetch
  <2>3. UNCHANGED <<server, client>>
    BY <1>1, <2>2 DEF server
  <2> QED BY <1>1, <1>2, <1>4, <2>2, <2>3, MissNext
<1> QED BY <1>3, <1>4

\* send_write keeps it: the version written is the one after the server's.
LEMMA SendWriteStep == ASSUME IInv, NEW t \in Threads, send_write(t) PROVE IInv'
<1>1. /\ op[t].at = "write" /\ h.at = "open" /\ op[t].at # "repin"
      /\ UNCHANGED <<descPrev, store, client>> /\ Appended(t) /\ Stored /\ Handled
      /\ op[t].ver \in 0..MaxVer
  BY Running DEF send_write, ReadAts, Reading
<1>2. /\ h.view \in Made /\ h.view.id \in DescIds /\ h.vers \in VersionPins
      /\ ~restored => OnChain(h.view) /\ Reached(h.vers)
      /\ srv \in Servers /\ srv.ver \in 0..MaxVer /\ MaxVer \in Nat
      /\ plan.vers \in Nat /\ plan.vers <= MaxVer
  BY <1>1, Viewed, WholeTypes, PlanTypes DEF Stored, Whole
<1> DEFINE fits == srv.live = op[t].live /\ srv.ver = op[t].ver
<1>3. CASE Indexed(h.view) /\ fits
  <2> DEFINE live == op[t].what = "put"
             s == [srv EXCEPT !.ver = @ + 1, !.live = live]
  <2>1. PICK c : c = [at |-> "wrote", view |-> h.view, ver |-> op[t].ver + 1]
    OBVIOUS
  <2>2. /\ srv.ver < plan.vers /\ append_audit(s) /\ Call(t, c)
        /\ c.at = "wrote" /\ c.view = h.view /\ c.ver = srv.ver + 1
    BY <1>3, <2>1 DEF send_write
  <2>3. srv.ver + 1 \in 0..MaxVer /\ srv.ver <= srv.ver + 1 /\ srv.ver + 1 > 0
    BY <1>2, <2>2
  <2>4. /\ s \in Servers /\ s.log = srv.log /\ s.descs = srv.descs /\ s.ver = srv.ver + 1
    BY <1>2, <2>3 DEF Servers
  <2>5. UNCHANGED <<h, mem, disk, plan>>
    BY <1>1 DEF client
  <2> HIDE DEF s
  <2>6. Grows /\ srv'.ver = s.ver
    BY <1>1, <2>2, <2>3, <2>4, <2>5, RecordGrows
  <2>7. c.view \in Made' /\ c.ver \in 0..MaxVer /\ c.ver <= srv'.ver
    BY <1>1, <1>2, <2>2, <2>3, <2>4, <2>6, KeptFacts
  <2>8. ~restored' => h'.vers[c.view.id] <= c.ver
    <3>1. SUFFICES ASSUME ~restored' PROVE h.vers[c.view.id] <= c.ver
      BY <2>5
    <3>2. h.vers[c.view.id] <= srv.ver /\ h.vers[c.view.id] \in 0..MaxVer
      BY <1>1, <1>2, <2>2, <2>6, <3>1, KeptFacts DEF Reached, VersionPins
    <3> QED BY <1>2, <2>2, <3>2
  <2>9. Runs(c, FALSE)'
    BY <1>1, <2>2, <2>5, <2>7, <2>8 DEF Runs, Reading, ReadAts
  <2>10. c.at \notin Auditing /\ c.at \notin RefreshAts
    BY <2>2 DEF Auditing, RefreshAts
  <2> QED BY <1>1, <2>2, <2>6, <2>9, <2>10, WireStep
<1>4. CASE ~(Indexed(h.view) /\ fits)
  <2>1. append_audit(srv) /\ UNCHANGED <<h, mem, disk, plan>>
    BY <1>1, <1>4 DEF send_write, client
  <2>2. Grows
    BY <1>1, <2>1, AuditedGrows
  <2>3. CASE Indexed(h.view)
    <3>1. PICK c : c = [at |-> "conflict", view |-> h.view]
      OBVIOUS
    <3>2. Call(t, c) /\ c.at = "conflict" /\ c.view = h.view
      BY <1>4, <2>3, <3>1 DEF send_write
    <3>3. c.view \in Made' /\ (~restored' => OnChain(c.view)')
      BY <1>1, <1>2, <2>2, <3>2, KeptFacts
    <3>4. Runs(c, FALSE)'
      BY <1>1, <2>1, <3>2, <3>3 DEF Runs, Reading, ReadAts
    <3>5. c.at \notin Auditing /\ c.at \notin RefreshAts
      BY <3>2 DEF Auditing, RefreshAts
    <3> QED BY <1>1, <2>2, <3>2, <3>4, <3>5, WireStep
  <2>4. CASE ~Indexed(h.view)
    <3>1. PICK out \in {"stale", "refused"} : Return(t, out)
      BY <1>4, <2>4 DEF send_write
    <3>2. PICK c : c = Idle(out)
      OBVIOUS
    <3>3. Call(t, c) /\ c.at = "idle" /\ c.out \in Outs
      BY <3>1, <3>2 DEF Return, Idle, Outs
    <3>4. Runs(c, FALSE)'
      BY <3>3 DEF Runs
    <3>5. c.at \notin Auditing /\ c.at \notin RefreshAts
      BY <3>3 DEF Auditing, RefreshAts
    <3> QED BY <1>1, <2>2, <3>3, <3>4, <3>5, WireStep
  <2> QED BY <2>3, <2>4
<1> QED BY <1>3, <1>4

-----------------------------------------------------------------------------
(* The steps of a thread that change the handle. *)

\* The handle is changed as it may be, or left alone, and the call goes on.
LEMMA HandleStep ==
  ASSUME IInv, NEW t \in Threads, NEW c, Call(t, c), UNCHANGED <<server, disk, plan>>,
         Moved(t) \/ (h' = h /\ Answered(t)), Handled', h'.at = h.at,
         \A i \in DescIds : h.seen[i] <= h'.seen[i],
         Remembered(mem)', mem'.pin = mem.pin, mem'.head = mem.head \/ op[t].at \in Auditing,
         NEW lag, lag = late'[t], Runs(c, lag)', c.at \notin Auditing,
         c.at \in RefreshAts => op[t].at \in RefreshAts
  PROVE  Sound' /\ plan' = plan
<1>1. Grows /\ UNCHANGED <<srv, bak, restored, descPrev, rowPrev, plan>>
  BY StillGrows DEF IInv, Sound, server, store
<1>2. Lags(t)
  <2>1. late \in [Threads -> BOOLEAN]
    BY DEF IInv, Sound
  <2>2. CASE h' = h /\ Answered(t)
    BY <1>1, <2>1, <2>2 DEF Lags, Answered
  <2>3. CASE Moved(t)
    <3>1. \A u \in Threads \ {t} : late'[u] = (late[u] \/ (op[u].at # "idle" /\ h' # h))
      BY <2>3 DEF Moved
    <3>2. late' \in [Threads -> BOOLEAN]
      BY <2>1, <2>3 DEF Moved
    <3> QED BY <1>1, <3>1, <3>2 DEF Lags
  <2> QED BY <2>2, <2>3
<1>3. c.at \in RefreshAts => "refresh" \in plan.calls[t]
  BY Running
<1> QED BY <1>1, <1>2, <1>3, Assemble DEF IInv

\* A version pinned is at least the one pinned before.
LEMMA PinVersion ==
  ASSUME Stored, Handled, h.at = "open", NEW v \in Made, NEW got \in 0..MaxVer,
         got >= h.vers[v.id], ~restored => got <= srv.ver, pin_version(v, got),
         UNCHANGED server, mem'.pin = mem.pin
  PROVE  /\ Handled' /\ h'.at = h.at /\ h'.view = h.view /\ h'.pin = h.pin
         /\ \A i \in DescIds : h.seen[i] <= h'.seen[i]
<1>1. UNCHANGED <<srv, restored, descPrev, rowPrev>>
  BY DEF server, store
<1>2. /\ h.vers \in VersionPins /\ h.seen \in VersionPins /\ v.id \in DescIds /\ MaxVer \in Nat
      /\ \A i \in DescIds : h.seen[i] <= h.vers[i]
  BY Viewed, PlanTypes DEF Handled, SeenPinned
<1>3. PICK old : old = h.seen[v.id] /\ old \in 0..MaxVer /\ old <= got
  BY <1>2 DEF VersionPins
<1>4. PICK top : /\ top = (IF got > old THEN got ELSE old) /\ top = got /\ top \in 0..MaxVer
                 /\ old <= top
  BY <1>2, <1>3
<1> DEFINE vers == [h.vers EXCEPT ![v.id] = got]
           seen == [h.seen EXCEPT ![v.id] = top]
<1>5. h' = [h EXCEPT !.vers = vers, !.seen = seen]
  BY <1>3, <1>4 DEF pin_version
<1>6. /\ vers \in VersionPins /\ seen \in VersionPins
      /\ vers[v.id] = got /\ seen[v.id] = top
      /\ \A i \in DescIds \ {v.id} : vers[i] = h.vers[i] /\ seen[i] = h.seen[i]
  BY <1>2, <1>4 DEF VersionPins
<1> HIDE DEF vers, seen
<1> DEFINE HandleType == [at : {"closed", "opening", "open"}, view : Descs, pin : Descs,
                          vers : VersionPins, seen : VersionPins,
                          out : {"none", "generation_rollback", "binding_mismatch"}]
<1>7. h \in HandleType
  BY DEF Handled
<1>8. /\ h' \in HandleType /\ h'.at = h.at /\ h'.view = h.view /\ h'.pin = h.pin
      /\ h'.vers = vers /\ h'.seen = seen /\ h'.out = h.out
  BY <1>5, <1>6, <1>7
<1>9. \A i \in DescIds : seen[i] <= vers[i] /\ h.seen[i] <= seen[i]
  <2>1. ASSUME NEW i \in DescIds PROVE seen[i] <= vers[i] /\ h.seen[i] <= seen[i]
    <3>1. CASE i = v.id
      BY <1>3, <1>4, <1>6, <3>1
    <3>2. CASE i # v.id
      <4>1. seen[i] = h.seen[i] /\ vers[i] = h.vers[i] /\ h.seen[i] \in 0..MaxVer
        BY <1>2, <1>6, <3>2 DEF VersionPins
      <4> QED BY <1>2, <4>1
    <3> QED BY <3>1, <3>2
  <2> QED BY <2>1
<1>10. ~restored => \A i \in DescIds : vers[i] <= srv.ver
  BY <1>6 DEF Handled, Reached
<1>11. Handled'
  <2>1. /\ h.view \in Made' /\ h.pin \in Made' /\ Family(h.view)' = Ancestry(descPrev)[h'.view.id]
        /\ Family(h.pin)' = Ancestry(descPrev)[h'.pin.id]
    BY <1>1, <1>8, Viewed DEF Made, Family
  <2>2. mem'.pin.id \in Family(h.view)' /\ mem'.pin.id \in Family(h.pin)'
    BY <1>8, <2>1 DEF Handled, Family
  <2>3. ~restored' => /\ h'.out = "none" /\ Reached(h.vers)'
                      /\ OnChain(h.view)' /\ OnChain(h.pin)'
    BY <1>1, <1>8, <1>10 DEF Handled, Reached, OnChain
  <2>4. SeenPinned(h)'
    BY <1>8, <1>9 DEF SeenPinned
  <2> QED BY <1>1, <1>8, <2>1, <2>2, <2>3, <2>4 DEF Handled
<1> QED BY <1>8, <1>9, <1>11

\* A step in which an outcome is returned and the handle may have pinned.
LEMMA PinnedStep ==
  ASSUME IInv, NEW t \in Threads, NEW out \in Outs, Return(t, out),
         UNCHANGED <<server, disk, plan>>, Moved(t) \/ (h' = h /\ Answered(t)),
         Handled', h'.at = h.at, h'.view = h.view, h'.pin = h.pin,
         \A i \in DescIds : h.seen[i] <= h'.seen[i],
         Remembered(mem)', mem'.pin = mem.pin, mem'.head = mem.head \/ op[t].at \in Auditing,
         op[t].at # "repin"
  PROVE  IInv'
<1>1. PICK c : c = Idle(out)
  OBVIOUS
<1>2. Call(t, c) /\ c.at = "idle" /\ c.out \in Outs
  BY <1>1 DEF Return, Idle
<1>3. c.at \notin Auditing /\ c.at \notin RefreshAts
  BY <1>2 DEF Auditing, RefreshAts
<1>4. PICK lag : lag = late'[t]
  OBVIOUS
<1>5. Runs(c, lag)'
  BY <1>2 DEF Runs
<1>6. Sound' /\ plan' = plan
  BY <1>2, <1>3, <1>4, <1>5, HandleStep
<1>7. (OneRefreshes => InOrder)'
  BY <1>2, <1>3, <1>6, OrderKept DEF IInv
<1> QED BY <1>6, <1>7 DEF IInv

\* An answer's version is pinned, or refused.
LEMMA TakeVersion ==
  ASSUME IInv, NEW t \in Threads, NEW v \in Made, NEW got \in 0..MaxVer,
         ~restored => got <= srv.ver, take_version(t, v, got), h.at = "open",
         UNCHANGED <<server, mem, disk, plan>>, op[t].at # "repin"
  PROVE  IInv'
<1>1. Stored /\ Handled /\ Remembered(mem) /\ h.vers \in VersionPins /\ h.seen \in VersionPins
  BY Running, Viewed
<1>2. Grows
  BY <1>1, StillGrows
<1>3. Remembered(mem)'
  <2>1. PICK m : m = mem
    OBVIOUS
  <2>2. Remembered(m)'
    BY <1>1, <1>2, <2>1, RememberedKept
  <2> QED BY <2>1, <2>2
<1>4. CASE check_version(v, got)
  <2>1. pin_version(v, got) /\ Return(t, "ok") /\ Moved(t) /\ got >= h.vers[v.id]
    BY <1>4 DEF take_version, check_version
  <2>2. "ok" \in Outs
    BY DEF Outs
  <2>3. /\ Handled' /\ h'.at = h.at /\ h'.view = h.view /\ h'.pin = h.pin
        /\ \A i \in DescIds : h.seen[i] <= h'.seen[i]
    BY <1>1, <2>1, PinVersion
  <2> QED BY <1>3, <2>1, <2>2, <2>3, PinnedStep
<1>5. CASE ~check_version(v, got)
  <2>1. Return(t, "version_rollback") /\ Answered(t) /\ h' = h
    BY <1>5 DEF take_version
  <2>2. "version_rollback" \in Outs
    BY DEF Outs
  <2>3. Handled'
    BY <1>1, <1>2, <2>1, HandledKept
  <2>4. \A i \in DescIds : h.seen[i] <= h'.seen[i]
    BY <1>1, <2>1, VaultHandleAssumption DEF VersionPins
  <2> QED BY <1>3, <2>1, <2>2, <2>3, <2>4, PinnedStep
<1> QED BY <1>4, <1>5

\* fetched and wrote keep it: the version they carry is pinned or refused.
LEMMA FetchedStep == ASSUME IInv, NEW t \in Threads, fetched(t) \/ wrote(t) PROVE IInv'
<1>1. /\ op[t].at \in {"fetched", "wrote"} /\ h.at = "open" /\ op[t].view \in Made
      /\ op[t].ver \in 0..MaxVer /\ (~restored => op[t].ver <= srv.ver) /\ op[t].at # "repin"
  BY Running DEF fetched, wrote, ReadAts, Reading
<1>2. take_version(t, op[t].view, op[t].ver) /\ UNCHANGED <<server, mem, disk, plan>>
  BY DEF fetched, wrote
<1>3. PICK v, got : v = op[t].view /\ got = op[t].ver
  OBVIOUS
<1>4. take_version(t, v, got) /\ v \in Made /\ got \in 0..MaxVer /\ (~restored => got <= srv.ver)
  BY <1>1, <1>2, <1>3
<1> QED BY <1>1, <1>2, <1>4, TakeVersion

\* listed keeps it: an item under the view's keys is pinned or refused.
LEMMA ListedStep == ASSUME IInv, NEW t \in Threads, listed(t) PROVE IInv'
<1>1. /\ op[t].at = "listed" /\ h.at = "open" /\ op[t].view \in Made /\ Item(op[t].item)
      /\ op[t].at # "repin" /\ (~restored => ItemServed(op[t].item))
      /\ UNCHANGED <<server, mem, disk, plan>> /\ Stored /\ Handled
  BY Running DEF listed, ReadAts, Reading
<1> DEFINE item == op[t].item
           v == op[t].view
<1>2. CASE item # <<>> /\ verify_listed(v, item[1]) = "ok"
  <2>1. take_version(t, v, item[1].ver)
    BY <1>2 DEF listed
  <2>2. PICK x, got : x = v /\ got = item[1].ver
    OBVIOUS
  <2>3. take_version(t, x, got) /\ x \in Made /\ got \in 0..MaxVer /\ (~restored => got <= srv.ver)
    BY <1>1, <1>2, <2>1, <2>2 DEF Item, ItemServed
  <2> QED BY <1>1, <2>3, TakeVersion
<1>3. CASE ~(item # <<>> /\ verify_listed(v, item[1]) = "ok")
  <2>1. PICK out : out = IF item = <<>> THEN "ok" ELSE verify_listed(v, item[1])
    OBVIOUS
  <2>2. Return(t, out) /\ Answered(t) /\ h' = h
    BY <1>3, <2>1 DEF listed
  <2>3. out \in Outs
    BY <2>1 DEF verify_listed, Outs
  <2>4. UNCHANGED <<server, client>>
    BY <1>1, <2>2 DEF client
  <2> QED BY <1>1, <2>2, <2>3, <2>4, EndStep
<1> QED BY <1>2, <1>3

\* The verified head is recorded: it is on the server's log, as the known head was.
LEMMA VerifyRecordedStep == ASSUME IInv, NEW t \in Threads, verify_recorded(t) PROVE IInv'
<1> DEFINE item == op[t].item
           v == op[t].view
           head == op[t].head
<1>1. op[t].at = "audit_done" /\ op[t].at \in Auditing
  BY DEF verify_recorded, Auditing
<1>2. /\ h.at = "open" /\ v \in Made /\ Item(item) /\ (~restored => ItemServed(item))
      /\ head = GENESIS \/ head \in Rows
      /\ ~restored => InLog(head)
      /\ Stored /\ Handled /\ Remembered(mem) /\ op[t].at # "repin"
  BY <1>1, Running DEF Verifying
<1>3. /\ UNCHANGED <<server, disk, plan>> /\ Return(t, "ok") /\ mem' = [mem EXCEPT !.head = head]
  BY DEF verify_recorded
<1>4. Grows /\ UNCHANGED <<srv, restored, descPrev, rowPrev>>
  BY <1>2, <1>3, StillGrows DEF server, store
<1>5. mem \in LocalStates /\ head \in Heads
  <2>1. Len(rowPrev) \in Nat /\ Len(rowPrev) <= MaxRows /\ MaxRows \in Nat
    BY <1>2, PlanTypes, WholeTypes DEF Stored
  <2>2. CASE head = GENESIS
    BY <1>2, <2>1, <2>2 DEF Heads, GENESIS, Remembered
  <2>3. CASE head \in Rows
    BY <1>2, <2>1, <2>3 DEF Heads, Rows, Remembered
  <2> QED BY <1>2, <2>2, <2>3
<1>6. /\ mem' \in LocalStates /\ mem'.pin = mem.pin /\ mem'.vers = mem.vers /\ mem'.seen = mem.seen
      /\ mem'.head = head
  <2> HIDE DEF head
  <2> QED BY <1>3, <1>5 DEF LocalStates
<1>7. Remembered(mem)'
  <2>1. (mem.pin = NoDesc \/ mem.pin \in Made)' /\ (mem.head = GENESIS \/ mem.head \in Rows)'
    BY <1>2, <1>4, <1>6 DEF Remembered, Made, Rows
  <2>2. SeenPinned(mem)'
    BY <1>2, <1>6 DEF Remembered, SeenPinned
  <2>3. ~restored' => /\ mem'.pin = NoDesc \/ OnChain(mem.pin)'
                      /\ Reached(mem.vers)' /\ InLog(mem.head)'
    BY <1>2, <1>4, <1>6 DEF Remembered, OnChain, Reached, InLog
  <2> QED BY <1>6, <2>1, <2>2, <2>3 DEF Remembered
<1>8. "ok" \in Outs /\ (h.vers \in VersionPins /\ h.seen \in VersionPins)
  BY <1>2, Viewed DEF Outs
<1>9. CASE item # <<>> /\ verify_listed(v, item[1]) = "ok" /\ check_version(v, item[1].ver)
  <2>1. PICK x, got : x = v /\ got = item[1].ver
    OBVIOUS
  <2>2. pin_version(x, got) /\ Moved(t) /\ got >= h.vers[x.id]
    BY <1>9, <2>1 DEF verify_recorded, check_version
  <2>3. x \in Made /\ got \in 0..MaxVer /\ (~restored => got <= srv.ver)
    BY <1>2, <1>9, <2>1 DEF Item, ItemServed
  <2>4. UNCHANGED server
    BY <1>3
  <2>5. /\ Handled' /\ h'.at = h.at /\ h'.view = h.view /\ h'.pin = h.pin
        /\ \A i \in DescIds : h.seen[i] <= h'.seen[i]
    BY <1>2, <1>6, <2>2, <2>3, <2>4, PinVersion
  <2> QED BY <1>1, <1>2, <1>3, <1>6, <1>7, <1>8, <2>2, <2>5, PinnedStep
<1>10. CASE ~(item # <<>> /\ verify_listed(v, item[1]) = "ok" /\ check_version(v, item[1].ver))
  <2>1. Answered(t) /\ h' = h
    BY <1>10 DEF verify_recorded
  <2>2. Handled'
    BY <1>2, <1>4, <1>6, <2>1, HandledKept
  <2>3. \A i \in DescIds : h.seen[i] <= h'.seen[i]
    BY <1>8, <2>1, VaultHandleAssumption DEF VersionPins
  <2> QED BY <1>1, <1>2, <1>3, <1>6, <1>7, <1>8, <2>1, <2>2, <2>3, PinnedStep
<1> QED BY <1>9, <1>10

\* The view, or the pin, is moved to a descriptor that descends from the one
\* remembered.
LEMMA Adopted ==
  ASSUME Stored, Handled, h.at = "open", NEW d \in Made, mem.pin.id \in Family(d),
         ~restored => OnChain(d), UNCHANGED <<server, mem>>,
         h' = [h EXCEPT !.view = d] \/ h' = [h EXCEPT !.pin = d]
  PROVE  /\ Handled' /\ h'.at = h.at /\ h'.vers = h.vers /\ h'.seen = h.seen
         /\ \A i \in DescIds : h.seen[i] <= h'.seen[i]
<1>1. UNCHANGED <<srv, restored, descPrev, rowPrev, mem>>
  BY DEF server, store
<1> DEFINE HandleType == [at : {"closed", "opening", "open"}, view : Descs, pin : Descs,
                          vers : VersionPins, seen : VersionPins,
                          out : {"none", "generation_rollback", "binding_mismatch"}]
<1>2. h \in HandleType /\ d \in Descs
  <2>1. Len(descPrev) \in Nat /\ Len(descPrev) <= MaxDescs /\ MaxDescs \in Nat
    BY PlanTypes, WholeTypes DEF Stored
  <2>2. d \in Descs
    BY <2>1 DEF Descs, Made
  <2> QED BY <2>2 DEF Handled
<1>3. /\ h' \in HandleType /\ h'.at = h.at /\ h'.vers = h.vers /\ h'.seen = h.seen /\ h'.out = h.out
      /\ h'.view \in {h.view, d} /\ h'.pin \in {h.pin, d}
  BY <1>2
<1>4. \A i \in DescIds : h.seen[i] <= h'.seen[i]
  BY <1>2, <1>3, VaultHandleAssumption DEF VersionPins
<1>5. /\ h.view \in Made /\ h.pin \in Made /\ mem.pin.id \in Family(h.view)
      /\ mem.pin.id \in Family(h.pin) /\ SeenPinned(h)
      /\ ~restored => h.out = "none" /\ Reached(h.vers) /\ OnChain(h.view) /\ OnChain(h.pin)
  BY DEF Handled
<1>6. (SeenPinned(h) /\ h.view \in Made /\ h.pin \in Made)'
  BY <1>1, <1>3, <1>5 DEF SeenPinned, Made
<1>7. (mem.pin.id \in Family(h.view) /\ mem.pin.id \in Family(h.pin))'
  BY <1>1, <1>3, <1>5 DEF Family
<1>8. (~restored => /\ h.out = "none" /\ Reached(h.vers) /\ OnChain(h.view) /\ OnChain(h.pin))'
  BY <1>1, <1>3, <1>5 DEF OnChain, Reached
<1>9. Handled'
  BY <1>3, <1>6, <1>7, <1>8 DEF Handled
<1> QED BY <1>3, <1>4, <1>9

\* Only one thread of a handle that one thread refreshes is refreshing.
LEMMA OnlyRefresher ==
  ASSUME Asked, OneRefreshes, NEW t \in Threads, op[t].at \in RefreshAts
  PROVE  \A u \in Threads \ {t} : op[u].at \notin RefreshAts
BY DEF Asked, OneRefreshes

\* The descriptor that was checked becomes the view, under the view's lock.
LEMMA AdoptViewStep == ASSUME IInv, NEW t \in Threads, adopt_view(t) PROVE IInv'
<1>1. op[t].at = "adopt" /\ op[t].at \in RefreshAts
  BY DEF adopt_view, RefreshAts
<1>2. PICK d : d = op[t].d
  OBVIOUS
<1>3. /\ d \in Made /\ mem.pin.id \in Family(d) /\ (~restored => OnChain(d))
      /\ h.at = "open" /\ Stored /\ Handled /\ Remembered(mem)
  BY <1>1, <1>2, Running DEF Refreshing
<1>4. /\ h' = [h EXCEPT !.view = d] /\ UNCHANGED <<server, mem, disk, plan>> /\ Moved(t)
      /\ Call(t, [at |-> "repin", d |-> d])
  BY <1>2 DEF adopt_view
<1>5. PICK c : c = [at |-> "repin", d |-> d]
  OBVIOUS
<1>6. /\ Handled' /\ h'.at = h.at /\ \A i \in DescIds : h.seen[i] <= h'.seen[i]
  BY <1>3, <1>4, Adopted
<1>7. Grows /\ UNCHANGED <<srv, restored, descPrev, rowPrev, mem, disk, plan>>
  BY <1>3, <1>4, StillGrows DEF server, store
<1>8. Remembered(mem)'
  <2>1. PICK m : m = mem
    OBVIOUS
  <2>2. Remembered(m)'
    BY <1>3, <1>7, <2>1, RememberedKept
  <2> QED BY <1>7, <2>1, <2>2
<1>9. PICK lag : lag = late'[t]
  OBVIOUS
<1>10. Call(t, c) /\ c.at = "repin" /\ c.d = d
  BY <1>4, <1>5
<1>11. Refreshing(c, lag)'
  BY <1>3, <1>7, <1>10 DEF Refreshing, Made, Family, OnChain
<1>12. Runs(c, lag)' /\ c.at \in RefreshAts /\ c.at \notin Auditing
  BY <1>3, <1>6, <1>10, <1>11 DEF Runs, RefreshAts, Auditing
<1>13. Sound' /\ plan' = plan
  BY <1>1, <1>4, <1>6, <1>7, <1>8, <1>9, <1>10, <1>12, HandleStep
<1>14. ASSUME OneRefreshes PROVE InOrder'
  <2>1. InOrder /\ Asked
    BY <1>14 DEF IInv, Sound
  <2>2. h'.view = d /\ h'.pin = h.pin /\ h.pin.gen <= d.gen
    <3>1. h.pin.gen <= d.gen
      BY <1>1, <1>2, <2>1 DEF InOrder, Follows
    <3>2. h'.view = d /\ h'.pin = h.pin
      BY <1>4 DEF Handled
    <3> QED BY <3>1, <3>2
  <2>3. op'[t] = c /\ \A u \in Threads \ {t} : op'[u] = IF op[u].at = "idle" THEN Idle("none") ELSE op[u]
    BY <1>10, Calls
  <2>4. Follows(op[t])'
    BY <1>10, <2>2, <2>3 DEF Follows
  <2>5. ASSUME NEW u \in Threads \ {t} PROVE Follows(op[u])'
    <3>1. op[u].at \notin RefreshAts
      BY <1>1, <1>14, <2>1, OnlyRefresher
    <3>2. op'[u].at \notin RefreshAts
      BY <2>3, <3>1 DEF Idle, RefreshAts
    <3> QED BY <3>2 DEF Follows, RefreshAts
  <2>6. op'[t].at = "repin"
    BY <1>10, <2>3
  <2> QED BY <2>4, <2>5, <2>6 DEF InOrder
<1>15. OneRefreshes' => OneRefreshes
  BY <1>13 DEF OneRefreshes
<1> QED BY <1>13, <1>14, <1>15 DEF IInv

\* And then the pin, under the pin's lock.
LEMMA AdoptPinStep == ASSUME IInv, NEW t \in Threads, adopt_pin(t) PROVE IInv'
<1>1. op[t].at = "repin" /\ op[t].at \in RefreshAts
  BY DEF adopt_pin, RefreshAts
<1>2. PICK d : d = op[t].d
  OBVIOUS
<1>3. /\ d \in Made /\ mem.pin.id \in Family(d) /\ (~restored => OnChain(d))
      /\ h.at = "open" /\ Stored /\ Handled /\ Remembered(mem)
  BY <1>1, <1>2, Running DEF Refreshing
<1>4. /\ h' = [h EXCEPT !.pin = d] /\ UNCHANGED <<server, mem, disk, plan>> /\ Moved(t)
      /\ Call(t, Idle("ok"))
  BY <1>2 DEF adopt_pin, Return
<1>5. PICK c : c = Idle("ok")
  OBVIOUS
<1>6. /\ Handled' /\ h'.at = h.at /\ \A i \in DescIds : h.seen[i] <= h'.seen[i]
  BY <1>3, <1>4, Adopted
<1>7. Grows /\ UNCHANGED <<srv, restored, descPrev, rowPrev, mem, disk, plan>>
  BY <1>3, <1>4, StillGrows DEF server, store
<1>8. Remembered(mem)'
  <2>1. PICK m : m = mem
    OBVIOUS
  <2>2. Remembered(m)'
    BY <1>3, <1>7, <2>1, RememberedKept
  <2> QED BY <1>7, <2>1, <2>2
<1>9. PICK lag : lag = late'[t]
  OBVIOUS
<1>10. Call(t, c) /\ c.at = "idle" /\ c.out \in Outs
  BY <1>4, <1>5 DEF Idle, Outs
<1>12. Runs(c, lag)' /\ c.at \notin RefreshAts /\ c.at \notin Auditing
  BY <1>10 DEF Runs, RefreshAts, Auditing
<1>13. Sound' /\ plan' = plan
  BY <1>1, <1>4, <1>6, <1>7, <1>8, <1>9, <1>10, <1>12, HandleStep
<1>14. ASSUME OneRefreshes PROVE InOrder'
  <2>1. InOrder /\ Asked
    BY <1>14 DEF IInv, Sound
  <2>2. h'.view = d /\ h'.pin = d
    <3>1. h.view = d
      BY <1>1, <1>2, <2>1 DEF InOrder, Follows
    <3> QED BY <1>3, <1>4, <3>1 DEF Handled
  <2>3. op'[t] = c /\ \A u \in Threads \ {t} : op'[u] = IF op[u].at = "idle" THEN Idle("none") ELSE op[u]
    BY <1>10, Calls
  <2>5. ASSUME NEW u \in Threads PROVE Follows(op[u])'
    <3>1. op'[u].at \notin RefreshAts
      <4>1. CASE u = t
        BY <1>12, <2>3, <4>1
      <4>2. CASE u # t
        <5>1. op[u].at \notin RefreshAts
          BY <1>1, <1>14, <2>1, <4>2, OnlyRefresher
        <5> QED BY <2>3, <4>2, <5>1 DEF Idle, RefreshAts
      <4> QED BY <4>1, <4>2
    <3> QED BY <3>1 DEF Follows, RefreshAts
  <2> QED BY <2>2, <2>5 DEF InOrder
<1>15. OneRefreshes' => OneRefreshes
  BY <1>13 DEF OneRefreshes
<1> QED BY <1>13, <1>14, <1>15 DEF IInv

-----------------------------------------------------------------------------
(* What the other clients, the operator and the owner do. *)

\* No thread notices another client's step or the operator's as it happens: the
\* calls under way still carry what they carried, a page of rows excepted.
LEMMA OthersStep == ASSUME IInv, Others PROVE IInv'
<1>1. Stored /\ Handled /\ Remembered(mem) /\ Remembered(disk) /\ late \in [Threads -> BOOLEAN]
  BY DEF IInv, Sound
<1>2. Grows /\ UNCHANGED <<h, mem, disk, plan, op>>
  BY <1>1, PutGrows, RotationGrows, OperatorGrows
     DEF Others, put_record, apply_rotation, Backup, Restore, Upgrade, client
<1>3. /\ late' \in [Threads -> BOOLEAN]
      /\ \A t \in Threads : (late[t] => late'[t]) /\
            (op[t].at = "audit_head" => late'[t] \/ srv'.log = srv.log \/ restored')
  <2>1. CASE put_record \/ apply_rotation
    <3>1. late' = [t \in Threads |-> late[t] \/ op[t].at = "audit_head"]
      BY <2>1 DEF put_record, apply_rotation
    <3> QED BY <1>1, <3>1
  <2>2. CASE Backup \/ Restore \/ Upgrade
    <3>1. late' = late
      BY <2>2 DEF Backup, Restore, Upgrade
    <3>2. srv'.log = srv.log \/ restored'
      <4>1. CASE Upgrade
        <5>1. srv' = [srv EXCEPT !.fmt = Len(srv.log)] /\ srv \in Servers
          BY <1>1, <4>1 DEF Upgrade, Stored, Whole
        <5> QED BY <5>1 DEF Servers
      <4> QED BY <2>2, <4>1 DEF Backup, Restore
    <3> QED BY <1>1, <3>1, <3>2
  <2> QED BY <2>1, <2>2 DEF Others
<1>4. Handled'
  BY <1>1, <1>2, HandledKept
<1>5. (Remembered(mem) /\ Remembered(disk))'
  <2>1. PICK m, k : m = mem /\ k = disk
    OBVIOUS
  <2>2. Remembered(m)' /\ Remembered(k)'
    BY <1>1, <1>2, <2>1, RememberedKept
  <2> QED BY <1>2, <2>1, <2>2
<1>6. \A i \in DescIds : h.seen[i] <= h'.seen[i]
  <2>1. h.seen \in VersionPins
    BY <1>1 DEF Handled
  <2> QED BY <1>2, <2>1, VaultHandleAssumption DEF VersionPins
<1>7. ASSUME NEW t \in Threads PROVE Runs(op[t], late[t])'
  <2>1. PICK c, lag, lag2 : c = op[t] /\ lag = late[t] /\ lag2 = late'[t]
    OBVIOUS
  <2>2. Runs(c, lag) /\ lag \in BOOLEAN /\ lag2 \in BOOLEAN /\ (lag => lag2)
    BY <1>1, <1>3, <2>1 DEF IInv, Sound
  <2>3. c.at = "idle" \/ h.at = "open"
    BY <2>2 DEF Runs
  <2>4. Runs(c, lag2)'
    <3>1. CASE c.at = "audit_head" => lag2 \/ srv'.log = srv.log
      BY <1>1, <1>2, <1>4, <1>6, <2>2, <2>3, <3>1, RunsKept
    <3>2. CASE c.at = "audit_head" /\ restored'
      <4>1. Verifying(c, lag) /\ h.at = "open"
        BY <2>2, <3>2 DEF Runs, ReadAts, RefreshAts, Auditing
      <4>2. c.rows \in Seq(Rows) /\ c.page \in Seq(Rows) /\ Len(c.page) <= Page /\ c.fmt \in 0..MaxRows
        BY <3>2, <4>1 DEF Verifying
      <4>3. c.rows \in Seq(Rows') /\ c.page \in Seq(Rows')
        <5>1. PICK a, b : a = c.rows /\ b = c.page
          OBVIOUS
        <5> QED BY <1>1, <1>2, <4>2, <5>1, RowsKept
      <4>4. Verifying(c, lag2)'
        BY <3>2, <4>2, <4>3 DEF Verifying
      <4> QED BY <1>2, <3>2, <4>1, <4>4 DEF Runs, Auditing
    <3> QED BY <1>3, <2>1, <3>1, <3>2
  <2> QED BY <1>2, <2>1, <2>4
<1>8. Exclusive' /\ Asked'
  BY <1>2 DEF IInv, Sound, Exclusive, Asked
<1>9. (OneRefreshes => InOrder)'
  BY <1>2 DEF IInv, OneRefreshes, InOrder, Follows
<1> QED BY <1>2, <1>3, <1>4, <1>5, <1>7, <1>8, <1>9 DEF IInv, Sound, Grows

\* While no call is under way, the owner may open, close or drop the handle.
LEMMA OwnerStep ==
  ASSUME IInv, AllIdle, UNCHANGED <<server, plan, op, late>>, Handled',
         Remembered(mem)', Remembered(disk)', h'.view = h'.pin
  PROVE  IInv'
<1>1. Grows /\ Stored'
  BY StillGrows DEF IInv, Sound, Grows
<1>2. ASSUME NEW t \in Threads PROVE Runs(op[t], late[t])'
  <2>1. op[t].at = "idle" /\ op[t].out \in Outs
    BY DEF AllIdle, IInv, Sound, Runs, ReadAts, RefreshAts, Auditing
  <2> QED BY <2>1 DEF Runs
<1>3. Exclusive' /\ Asked'
  BY DEF IInv, Sound, Exclusive, Asked
<1>4. InOrder'
  BY DEF AllIdle, InOrder, Follows
<1> QED BY <1>1, <1>2, <1>3, <1>4 DEF IInv, Sound

\* A handle that is not open has no call under way.
LEMMA OnlyOpen == ASSUME IInv, h.at # "open" PROVE AllIdle
BY DEF IInv, Sound, Runs, AllIdle

\* What a closed handle is.
LEMMA ClosedHandled ==
  ASSUME NEW out \in {"none", "generation_rollback", "binding_mismatch"}, (h = Closed(out))',
         Stored', ~restored' => out = "none"
  PROVE  Handled' /\ h'.view = h'.pin
<1>1. NoDesc \in Descs /\ NoPins \in VersionPins /\ \A i \in DescIds : NoPins[i] = 0
  BY VaultHandleAssumption DEF NoDesc, NoPins, Descs, VersionPins
<1>2. /\ h'.at = "closed" /\ h'.view = NoDesc /\ h'.pin = NoDesc /\ h'.vers = NoPins
      /\ h'.seen = NoPins /\ h'.out = out
  BY DEF Closed
<1>3. (h \in [at : {"closed", "opening", "open"}, view : Descs, pin : Descs,
              vers : VersionPins, seen : VersionPins,
              out : {"none", "generation_rollback", "binding_mismatch"}])'
  BY <1>1 DEF Closed
<1>4. SeenPinned(h)' /\ Reached(h.vers)'
  <2>1. srv'.ver \in Nat
    BY PlanTypes, SMTT(30) DEF Stored, Whole, Servers
  <2> QED BY <1>1, <1>2, <2>1 DEF SeenPinned, Reached
<1> QED BY <1>2, <1>3, <1>4 DEF Handled

\* Opening compares the server's descriptor with the one remembered.
LEMMA EnvironmentStep == ASSUME IInv, environment PROVE IInv'
<1>1. Stored /\ Handled /\ Remembered(mem) /\ Remembered(disk)
  BY DEF IInv, Sound
<1>2. h.at = "closed" /\ UNCHANGED <<server, mem, disk, plan, op, late>>
  BY DEF environment
<1>3. Grows /\ Stored' /\ UNCHANGED <<srv, restored, descPrev, rowPrev>>
  BY <1>1, <1>2, StillGrows DEF Grows, server, store
<1>4. (Remembered(mem) /\ Remembered(disk))'
  <2>1. PICK m, k : m = mem /\ k = disk
    OBVIOUS
  <2>2. Remembered(m)' /\ Remembered(k)'
    BY <1>1, <1>3, <2>1, RememberedKept
  <2> QED BY <1>2, <2>1, <2>2
<1>5. PICK d : d = Current
  OBVIOUS
<1>6. d \in Made /\ OnChain(d) /\ d.gen = Len(srv.descs) /\ d \in Descs
  <2>1. Len(descPrev) \in Nat /\ Len(descPrev) <= MaxDescs /\ MaxDescs \in Nat
    BY <1>1, PlanTypes, WholeTypes DEF Stored
  <2>2. d \in Made /\ OnChain(d) /\ d.gen = Len(srv.descs)
    BY <1>1, <1>5, CurrentMade
  <2> QED BY <2>1, <2>2 DEF Made, Descs
<1>7. NoPins \in VersionPins /\ \A i \in DescIds : NoPins[i] = 0
  BY VaultHandleAssumption DEF NoPins, VersionPins
<1>8. /\ mem.vers \in VersionPins /\ mem.seen \in VersionPins /\ SeenPinned(mem)
      /\ mem.pin = NoDesc \/ mem.pin \in Made
      /\ ~restored => (mem.pin = NoDesc \/ OnChain(mem.pin)) /\ Reached(mem.vers)
  BY <1>1 DEF Remembered, LocalStates
<1>9. srv.ver \in Nat
  BY <1>1, WholeTypes DEF Stored
<1>10. ASSUME NEW vers \in VersionPins, NEW seen \in VersionPins, NEW at \in {"opening", "open"},
              h' = [at |-> at, view |-> d, pin |-> d, vers |-> vers, seen |-> seen, out |-> "none"],
              \A i \in DescIds : seen[i] <= vers[i], ~restored => Reached(vers),
              at = "opening" => mem.pin # NoDesc /\ mem.pin.gen < d.gen,
              at = "open" => mem.pin.id \in Family(d)
       PROVE  Handled' /\ h'.view = h'.pin
  <2>1. (h \in [at : {"closed", "opening", "open"}, view : Descs, pin : Descs,
                vers : VersionPins, seen : VersionPins,
                out : {"none", "generation_rollback", "binding_mismatch"}])'
    BY <1>6, <1>10
  <2>2. /\ h'.at = at /\ h'.view = d /\ h'.pin = d /\ h'.vers = vers /\ h'.seen = seen
        /\ h'.out = "none"
    BY <1>10
  <2>3. SeenPinned(h)' /\ (h.view \in Made /\ h.pin \in Made)'
    BY <1>3, <1>6, <1>10, <2>2 DEF SeenPinned, Made
  <2>4. (h.at = "open" => mem.pin.id \in Family(h.view) /\ mem.pin.id \in Family(h.pin))'
    BY <1>2, <1>3, <1>10, <2>2 DEF Family
  <2>5. (~restored => OnChain(h.view) /\ OnChain(h.pin) /\ Reached(h.vers))'
    BY <1>3, <1>6, <1>10, <2>2 DEF OnChain, Reached
  <2> QED BY <1>2, <1>10, <2>1, <2>2, <2>3, <2>4, <2>5 DEF Handled
<1>11. 0 \in Family(d) /\ d.id \in Family(d)
  <2>1. d.id \in 0..Len(descPrev) /\ Chained(descPrev)
    BY <1>1, <1>6 DEF Made, Stored, Chained
  <2> QED BY <2>1, AncestrySelf DEF Family
<1>12. CASE mem.pin = NoDesc
  <2>1. h' = [at |-> "open", view |-> d, pin |-> d, vers |-> NoPins, seen |-> NoPins, out |-> "none"]
    BY <1>5, <1>12 DEF environment, Opened
  <2>2. \A i \in DescIds : NoPins[i] <= NoPins[i]
    BY <1>7
  <2>3. Reached(NoPins)
    BY <1>7, <1>9 DEF Reached
  <2>4. mem.pin.id \in Family(d)
    BY <1>11, <1>12 DEF NoDesc
  <2>5. Handled' /\ h'.view = h'.pin
    BY <1>7, <1>10, <2>1, <2>2, <2>3, <2>4
  <2> QED BY <1>2, <1>4, <2>5, OwnerStep, OnlyOpen
<1>13. CASE mem.pin # NoDesc
  <2>1. mem.pin \in Made /\ mem.pin.gen \in Nat /\ d.gen \in Nat
    BY <1>6, <1>8, <1>13 DEF Made
  <2>2. \A i \in DescIds : mem.seen[i] <= mem.vers[i]
    BY <1>8 DEF SeenPinned
  <2>3. CASE compare_pin(mem.pin, d) = "ok"
    <3>1. h' = [at |-> "open", view |-> d, pin |-> d, vers |-> mem.vers, seen |-> mem.seen, out |-> "none"]
      BY <1>5, <1>13, <2>3 DEF environment, Opened
    <3>2. mem.pin.id = d.id
      BY <2>1, <2>3 DEF compare_pin
    <3>3. Handled' /\ h'.view = h'.pin
      BY <1>8, <1>10, <1>11, <2>2, <3>1, <3>2
    <3> QED BY <1>2, <1>4, <3>3, OwnerStep, OnlyOpen
  <2>4. CASE compare_pin(mem.pin, d) = "newer"
    <3>1. h' = [at |-> "opening", view |-> d, pin |-> d, vers |-> mem.vers, seen |-> mem.seen, out |-> "none"]
      BY <1>5, <1>13, <2>4 DEF environment, Opened
    <3>2. mem.pin.gen < d.gen
      BY <2>1, <2>4 DEF compare_pin
    <3>3. Handled' /\ h'.view = h'.pin
      BY <1>8, <1>10, <1>13, <2>2, <3>1, <3>2
    <3> QED BY <1>2, <1>4, <3>3, OwnerStep, OnlyOpen
  <2>5. CASE compare_pin(mem.pin, d) = "rollback"
    <3>1. h' = Closed("generation_rollback")
      BY <1>5, <1>13, <2>5 DEF environment
    <3>2. restored
      <4>1. SUFFICES ASSUME ~restored PROVE FALSE
        OBVIOUS
      <4>2. OnChain(mem.pin)
        BY <1>8, <1>13, <4>1
      <4>3. mem.pin.gen <= d.gen /\ (mem.pin.gen = d.gen => mem.pin.id = d.id)
        BY <1>6, <2>1, <4>2 DEF OnChain
      <4> QED BY <2>1, <2>5, <4>3 DEF compare_pin
    <3>3. Handled' /\ h'.view = h'.pin
      BY <1>3, <3>1, <3>2, ClosedHandled
    <3> QED BY <1>2, <1>4, <3>3, OwnerStep, OnlyOpen
  <2> QED BY <2>3, <2>4, <2>5 DEF compare_pin
<1> QED BY <1>12, <1>13

\* A chain between two descriptors of the server verifies.
LEMMA ChainServed ==
  ASSUME Stored, NEW pin \in Made, NEW d \in Made, OnChain(pin), OnChain(d), pin.gen < d.gen
  PROVE  check_descriptor_chain(pin, d)
<1>1. PICK p, g, n : p = pin.gen /\ g = d.gen /\ n = Len(srv.descs)
  OBVIOUS
<1>2. /\ p \in Nat /\ g \in Nat /\ n \in Nat /\ p < g /\ g <= n /\ 1 <= p
      /\ srv.descs[p] = pin.id /\ srv.descs[g] = d.id
  BY <1>1, WholeTypes DEF Made, OnChain, Stored
<1>3. \A x \in 2..n : descPrev[srv.descs[x]] = srv.descs[x - 1]
  BY <1>1 DEF Stored, Whole
<1>4. p + 1 \in 2..n /\ (p + 1) - 1 = p
  BY <1>2
<1>5. check_follows(pin.id, srv.descs[p + 1])
  BY <1>2, <1>3, <1>4 DEF check_follows
<1>6. \A x \in p + 2 .. g : check_follows(srv.descs[x - 1], srv.descs[x])
  <2>1. \A x \in p + 2 .. g : x \in 2..n
    BY <1>2
  <2> QED BY <1>3, <2>1 DEF check_follows
<1> QED BY <1>1, <1>2, <1>5, <1>6 DEF check_descriptor_chain

\* Opening a newer generation asks for the chain from the one remembered.
LEMMA SetPinsStep == ASSUME IInv, set_pins PROVE IInv'
<1>1. Stored /\ Handled /\ Remembered(mem) /\ Remembered(disk)
  BY DEF IInv, Sound
<1>2. h.at = "opening" /\ UNCHANGED <<server, mem, disk, plan, op, late>>
  BY DEF set_pins
<1>3. Grows /\ Stored' /\ UNCHANGED <<srv, restored, descPrev, rowPrev>>
  BY <1>1, <1>2, StillGrows DEF Grows, server, store
<1>4. (Remembered(mem) /\ Remembered(disk))'
  <2>1. PICK m, k : m = mem /\ k = disk
    OBVIOUS
  <2>2. Remembered(m)' /\ Remembered(k)'
    BY <1>1, <1>3, <2>1, RememberedKept
  <2> QED BY <1>2, <2>1, <2>2
<1>5. /\ h.view \in Made /\ h.pin = h.view /\ mem.pin \in Made /\ mem.pin.gen < h.view.gen
      /\ ~restored => OnChain(h.view) /\ OnChain(mem.pin)
  BY <1>1, <1>2 DEF Handled, Remembered
<1>6. CASE h' = Closed("none")
  <2>1. Handled' /\ h'.view = h'.pin
    BY <1>3, <1>6, ClosedHandled
  <2> QED BY <1>2, <1>4, <2>1, OwnerStep, OnlyOpen
<1>7. CASE ~check_descriptor_chain(mem.pin, h.view) /\ h' = Closed("binding_mismatch")
  <2>1. restored'
    <3>1. PICK p, d : p = mem.pin /\ d = h.view
      OBVIOUS
    <3> QED BY <1>1, <1>3, <1>5, <1>7, <3>1, ChainServed
  <2>2. Handled' /\ h'.view = h'.pin
    BY <1>3, <1>7, <2>1, ClosedHandled
  <2> QED BY <1>2, <1>4, <2>2, OwnerStep, OnlyOpen
<1>8. CASE check_descriptor_chain(mem.pin, h.view) /\ h' = [h EXCEPT !.at = "open"]
  <2>1. mem.pin.id \in Family(h.view)
    <3>1. PICK p, d : p = mem.pin /\ d = h.view
      OBVIOUS
    <3> QED BY <1>1, <1>5, <1>8, <3>1, ChainDescends
  <2>2. /\ h'.at = "open" /\ h'.view = h.view /\ h'.pin = h.pin /\ h'.vers = h.vers
        /\ h'.seen = h.seen /\ h'.out = h.out
        /\ (h \in [at : {"closed", "opening", "open"}, view : Descs, pin : Descs,
              vers : VersionPins, seen : VersionPins,
              out : {"none", "generation_rollback", "binding_mismatch"}])'
    BY <1>1, <1>8 DEF Handled
  <2>3. (SeenPinned(h) /\ h.view \in Made /\ h.pin \in Made)'
    BY <1>1, <1>3, <1>5, <2>2 DEF Handled, SeenPinned, Made
  <2>4. (mem.pin.id \in Family(h.view) /\ mem.pin.id \in Family(h.pin))'
    BY <1>2, <1>3, <1>5, <2>1, <2>2 DEF Family
  <2>5. (~restored => h.out = "none" /\ OnChain(h.view) /\ OnChain(h.pin) /\ Reached(h.vers))'
    BY <1>1, <1>2, <1>3, <2>2 DEF Handled, OnChain, Reached
  <2>6. Handled' /\ h'.view = h'.pin
    BY <1>5, <2>2, <2>3, <2>4, <2>5 DEF Handled
  <2> QED BY <1>2, <1>4, <2>6, OwnerStep, OnlyOpen
<1> QED BY <1>6, <1>7, <1>8 DEF set_pins

\* What the handle pinned is remembered when it is closed.
LEMMA CloseStep == ASSUME IInv, close \/ drop PROVE IInv'
<1>1. Stored /\ Handled /\ Remembered(mem) /\ Remembered(disk)
  BY DEF IInv, Sound
<1>2. h.at = "open" /\ AllIdle /\ UNCHANGED <<server, plan, op, late>> /\ h' = Closed("none")
  BY DEF close, drop
<1>3. Grows /\ Stored' /\ UNCHANGED <<srv, restored, descPrev, rowPrev>>
  BY <1>1, <1>2, StillGrows DEF Grows, server, store
<1>4. Handled' /\ h'.view = h'.pin
  BY <1>2, <1>3, ClosedHandled
<1>5. PICK m, k : m = mem /\ k = disk
  OBVIOUS
<1>6. Remembered(m)' /\ Remembered(k)'
  BY <1>1, <1>3, <1>5, RememberedKept
<1>7. CASE drop
  <2>1. (Remembered(mem) /\ Remembered(disk))'
    BY <1>5, <1>6, <1>7 DEF drop
  <2> QED BY <1>2, <1>4, <2>1, OwnerStep
<1>8. CASE close
  <2>1. PICK n : n = [pin |-> h.pin, vers |-> h.vers, seen |-> h.seen, head |-> mem.head]
    OBVIOUS
  <2>2. mem' = n /\ disk' \in {k, n}
    BY <1>5, <1>8, <2>1 DEF close
  <2>3. n.pin = h.pin /\ n.vers = h.vers /\ n.seen = h.seen /\ n.head = mem.head
    BY <2>1
  <2>4. /\ h.pin \in Made /\ h.pin \in Descs /\ h.vers \in VersionPins /\ h.seen \in VersionPins
        /\ SeenPinned(h) /\ (~restored => OnChain(h.pin) /\ Reached(h.vers))
    BY <1>1, <1>2 DEF Handled
  <2>5. /\ mem.head \in Heads /\ (mem.head = GENESIS \/ mem.head \in Rows)
        /\ ~restored => InLog(mem.head)
    BY <1>1 DEF Remembered, LocalStates
  <2>6. n \in LocalStates
    BY <2>1, <2>4, <2>5 DEF LocalStates
  <2>7. n.pin \in Made' /\ (n.head = GENESIS \/ n.head \in Rows')
    BY <1>3, <2>3, <2>4, <2>5 DEF Made, Rows
  <2>8. SeenPinned(n)
    BY <2>3, <2>4 DEF SeenPinned
  <2>9. ~restored' => OnChain(n.pin)' /\ Reached(n.vers)' /\ InLog(n.head)'
    BY <1>3, <2>3, <2>4, <2>5 DEF OnChain, Reached, InLog
  <2>10. Remembered(n)'
    BY <2>6, <2>7, <2>8, <2>9 DEF Remembered, SeenPinned
  <2>11. (Remembered(mem) /\ Remembered(disk))'
    BY <1>6, <2>2, <2>10
  <2> QED BY <1>2, <1>4, <2>11, OwnerStep
<1> QED BY <1>7, <1>8

\* The next process starts from what was saved.
LEMMA RestartStep == ASSUME IInv, restart PROVE IInv'
<1>1. Stored /\ Remembered(disk)
  BY DEF IInv, Sound
<1>2. /\ UNCHANGED <<server, disk, plan>> /\ h' = Closed("none") /\ mem' = disk
      /\ op' = [t \in Threads |-> Idle("none")] /\ late' = [t \in Threads |-> FALSE]
  BY DEF restart
<1>3. Grows /\ Stored' /\ UNCHANGED <<srv, restored, descPrev, rowPrev>>
  BY <1>1, <1>2, StillGrows DEF Grows, server, store
<1>4. Handled' /\ h'.view = h'.pin
  BY <1>2, <1>3, ClosedHandled
<1>5. (Remembered(mem) /\ Remembered(disk))'
  <2>1. PICK k : k = disk
    OBVIOUS
  <2>2. Remembered(k)'
    BY <1>1, <1>3, <2>1, RememberedKept
  <2> QED BY <1>2, <2>1, <2>2
<1>6. \A t \in Threads : op'[t].at = "idle" /\ op'[t].out \in Outs
  BY <1>2 DEF Idle, Outs
<1>7. \A t \in Threads : Runs(op[t], late[t])'
  BY <1>6 DEF Runs
<1>8. Exclusive' /\ Asked' /\ InOrder'
  BY <1>4, <1>6 DEF Exclusive, Asked, InOrder, Follows, Auditing, RefreshAts
<1>9. late' \in [Threads -> BOOLEAN]
  BY <1>2
<1> QED BY <1>3, <1>4, <1>5, <1>7, <1>8, <1>9 DEF IInv, Sound

-----------------------------------------------------------------------------
(* The invariant. *)

\* A vault just created, which nothing was remembered of.
LEMMA InitInvariant == Init => IInv
<1> SUFFICES ASSUME Init PROVE IInv
  OBVIOUS
<1>1. /\ descPrev = <<0>> /\ rowPrev = <<0, 1>> /\ bak = <<>> /\ restored = FALSE
      /\ plan \in Workloads /\ h = Closed("none") /\ disk = mem
      /\ mem = [pin |-> NoDesc, vers |-> NoPins, seen |-> NoPins, head |-> GENESIS]
      /\ op = [t \in Threads |-> Idle("none")] /\ late = [t \in Threads |-> FALSE]
  BY DEF Init
<1>2. /\ srv.descs = <<1>> /\ srv.ver = 0 /\ srv.live = FALSE /\ srv.log = <<1, 2>> /\ srv.fmt = MaxRows
      /\ srv = [descs |-> <<1>>, ver |-> 0, live |-> FALSE, log |-> <<1, 2>>, fmt |-> MaxRows]
  BY DEF Init
<1>3. /\ MaxDescs \in Nat /\ MaxDescs >= 1 /\ MaxVer \in Nat /\ MaxRows \in Nat /\ MaxRows >= 2
  BY VaultHandleAssumption
<1>4. Chained(descPrev) /\ Len(descPrev) = 1 /\ descPrev[1] = 0
  BY <1>1 DEF Chained
<1>5. Chained(rowPrev) /\ Len(rowPrev) = 2 /\ rowPrev[1] = 0 /\ rowPrev[2] = 1
  BY <1>1 DEF Chained
<1>6. srv \in Servers
  <2>1. <<1>> \in Seq(DescIds) /\ <<1, 2>> \in Seq(1..MaxRows)
    BY <1>3 DEF DescIds
  <2> QED BY <1>2, <1>3, <2>1 DEF Servers
<1>7. Whole(srv)
  <2>1. Len(srv.descs) = 1 /\ srv.descs[1] = 1 /\ Len(srv.log) = 2 /\ srv.log[1] = 1 /\ srv.log[2] = 2
    BY <1>2
  <2>2. \A g \in 1..1 : g = 1
    OBVIOUS
  <2>3. \A q \in 1..2 : q = 1 \/ q = 2
    OBVIOUS
  <2>4. \A q \in 2..2 : q = 2 /\ q - 1 = 1
    OBVIOUS
  <2> QED BY <1>2, <1>4, <1>5, <1>6, <2>1, <2>2, <2>3, <2>4 DEF Whole
<1>8. Stored
  BY <1>1, <1>3, <1>4, <1>5, <1>7 DEF Stored
<1>9. NoDesc \in Descs /\ NoPins \in VersionPins /\ GENESIS \in Heads /\ \A i \in DescIds : NoPins[i] = 0
  BY <1>3 DEF NoDesc, NoPins, GENESIS, Descs, VersionPins, Heads
<1>10. Remembered(mem) /\ Remembered(disk)
  <2>1. mem \in LocalStates
    BY <1>1, <1>9 DEF LocalStates
  <2>2. mem.pin = NoDesc /\ mem.vers = NoPins /\ mem.seen = NoPins /\ mem.head = GENESIS
    BY <1>1
  <2> QED BY <1>1, <1>2, <1>9, <2>1, <2>2 DEF Remembered, SeenPinned, Reached, InLog
<1>11. /\ h.at = "closed" /\ h.view = NoDesc /\ h.pin = NoDesc /\ h.vers = NoPins
       /\ h.seen = NoPins /\ h.out = "none"
       /\ h \in [at : {"closed", "opening", "open"}, view : Descs, pin : Descs,
                 vers : VersionPins, seen : VersionPins,
                 out : {"none", "generation_rollback", "binding_mismatch"}]
  BY <1>1, <1>9 DEF Closed
<1>12. Handled
  BY <1>2, <1>9, <1>11 DEF Handled, SeenPinned, Reached
<1>13. \A t \in Threads : op[t].at = "idle" /\ op[t].out \in Outs
  BY <1>1 DEF Idle, Outs
<1>14. \A t \in Threads : Runs(op[t], late[t])
  BY <1>13 DEF Runs
<1>15. Exclusive /\ Asked /\ InOrder
  BY <1>11, <1>13 DEF Exclusive, Asked, InOrder, Follows, Auditing, RefreshAts
<1>16. late \in [Threads -> BOOLEAN]
  BY <1>1
<1> QED BY <1>8, <1>10, <1>12, <1>14, <1>15, <1>16 DEF IInv, Sound

\* A step that changes nothing keeps the invariant.
LEMMA StutterStep == ASSUME IInv, UNCHANGED vars PROVE IInv'
<1>1. UNCHANGED <<srv, bak, restored, descPrev, rowPrev, h, mem, disk, plan, op, late>>
  BY DEF vars
<1>2. UNCHANGED <<server, client>>
  BY <1>1 DEF server, store, client
<1>3. Stored /\ Handled /\ Remembered(mem) /\ Remembered(disk)
  BY DEF IInv, Sound
<1>4. Grows /\ Stored'
  BY <1>1, <1>2, <1>3, StillGrows DEF Grows
<1>5. Handled'
  BY <1>1, <1>3, <1>4, HandledKept
<1>6. (Remembered(mem) /\ Remembered(disk))'
  <2>1. PICK m, k : m = mem /\ k = disk
    OBVIOUS
  <2>2. Remembered(m)' /\ Remembered(k)'
    BY <1>3, <1>4, <2>1, RememberedKept
  <2> QED BY <1>1, <2>1, <2>2
<1>7. ASSUME NEW t \in Threads PROVE Runs(op[t], late[t])'
  <2>1. PICK c, lag : c = op[t] /\ lag = late[t]
    OBVIOUS
  <2>2. Runs(c, lag)
    BY <2>1 DEF IInv, Sound
  <2>3. Runs(c, lag)'
    BY <1>2, <2>2, Unmoved
  <2> QED BY <1>1, <2>1, <2>3
<1>8. Exclusive' /\ Asked' /\ (late \in [Threads -> BOOLEAN])'
  BY <1>1 DEF IInv, Sound, Exclusive, Asked
<1>9. (OneRefreshes => InOrder)'
  BY <1>1 DEF IInv, OneRefreshes, InOrder, Follows
<1> QED BY <1>4, <1>5, <1>6, <1>7, <1>8, <1>9 DEF IInv, Sound

\* Every step of a thread keeps the invariant.
LEMMA ThreadStep == ASSUME IInv, NEW t \in Threads, Thread(t) PROVE IInv'
BY FetchStep, FetchedStep, MovedOnStep, ListStep, ListedStep, CurrentStep, SendWriteStep,
   ConflictStep, RefreshStep, RefreshPinStep, RefreshChainStep, AdoptViewStep, AdoptPinStep,
   VerifyAuditStep, AuditAfterStep, AuditRowsStep, AuditBeforeStep, AuditNamesStep,
   VerifyRecordedStep, UnreachableStep DEF Thread

\* The invariant holds throughout, whatever the threads, the other clients, the
\* operator and the owner do.
THEOREM HandleInvariant == Spec => []IInv
<1>1. ASSUME IInv, [Next]_vars PROVE IInv'
  <2>1. CASE UNCHANGED vars
    BY <1>1, <2>1, StutterStep
  <2>2. CASE Others
    BY <1>1, <2>2, OthersStep
  <2>3. CASE Owner
    BY <1>1, <2>3, EnvironmentStep, SetPinsStep, CloseStep, RestartStep DEF Owner
  <2>4. ASSUME NEW t \in Threads, Thread(t) PROVE IInv'
    BY <1>1, <2>4, ThreadStep
  <2> QED BY <1>1, <2>1, <2>2, <2>3, <2>4 DEF Next
<1> QED BY <1>1, InitInvariant, PTL DEF Spec

\* The handle's state is well formed, and the generation it works under
\* descends from the one remembered for the vault.
THEOREM HandleViewSound == Spec => []ViewSound
<1>1. ASSUME IInv PROVE ViewSound
  <2>1. Stored /\ Handled /\ Remembered(mem) /\ Remembered(disk)
    BY <1>1 DEF IInv, Sound
  <2>2. ViewDescends
    BY <2>1 DEF ViewDescends, Handled, Family
  <2>3. srv \in Servers /\ (bak = <<>> \/ (Len(bak) = 1 /\ bak[1] \in Servers)) /\ restored \in BOOLEAN
    BY <2>1 DEF Stored, Whole
  <2>4. descPrev \in Seq(0..MaxDescs) /\ rowPrev \in Seq(0..MaxRows)
    <3>1. ASSUME NEW prev, Chained(prev), NEW n \in Nat, Len(prev) <= n PROVE prev \in Seq(0..n)
      <4>1. Len(prev) \in Nat /\ prev \in Seq(Nat) /\ \A i \in 1..Len(prev) : prev[i] \in 0..n
        BY <3>1 DEF Chained
      <4>2. prev = [i \in 1..Len(prev) |-> prev[i]]
        BY <4>1
      <4> QED BY <4>1, <4>2
    <3> QED BY <2>1, <3>1, PlanTypes DEF Stored
  <2>5. mem \in LocalStates /\ disk \in LocalStates /\ plan \in Workloads
        /\ late \in [Threads -> BOOLEAN]
    BY <1>1, <2>1 DEF Remembered, Stored, IInv, Sound
  <2>6. ASSUME NEW t \in Threads
        PROVE  \/ op[t].at = "idle" /\ op[t].out \in Outs
               \/ h.at = "open" /\ op[t].at \in Auditing \cup
                     {"fetched", "missed", "listed", "write", "wrote", "conflict", "refresh", "chain",
                      "adopt", "repin"}
    <3>1. Runs(op[t], late[t])
      BY <1>1 DEF IInv, Sound
    <3> QED BY <3>1 DEF Runs, ReadAts, RefreshAts
  <2>7. TypeOK
    BY <2>1, <2>3, <2>4, <2>5, <2>6 DEF TypeOK, Handled
  <2> QED BY <2>2, <2>7 DEF ViewSound
<1> QED BY <1>1, HandleInvariant, PTL

-----------------------------------------------------------------------------
(* What a step may never do. *)

\* Where a thread's call stands decides what its next step is.
LEMMA Guards ==
  ASSUME NEW t \in Threads, Thread(t)
  PROVE  /\ op[t].at = "fetched" => fetched(t) \/ unreachable(t)
         /\ op[t].at = "missed" => moved_on(t)
<1>1. fetch(t) \/ list_kind(t) \/ current(t) \/ refresh(t) \/ verify_audit(t) => op[t].at = "idle"
  BY DEF fetch, list_kind, current, refresh, verify_audit, Starts
<1>2. fetched(t) => op[t].at = "fetched"
  BY DEF fetched
<1>3. moved_on(t) => op[t].at = "missed"
  BY DEF moved_on
<1>4. listed(t) \/ send_write(t) \/ wrote(t) \/ conflict(t) =>
         op[t].at \in {"listed", "write", "wrote", "conflict"}
  BY DEF listed, send_write, wrote, conflict
<1>5. refresh_pin(t) \/ refresh_chain(t) \/ adopt_view(t) \/ adopt_pin(t) =>
         op[t].at \in {"refresh", "chain", "adopt", "repin"}
  BY DEF refresh_pin, refresh_chain, adopt_view, adopt_pin
<1>6. audit_after(t) \/ audit_rows(t) \/ audit_before(t) \/ audit_names(t) \/ verify_recorded(t) =>
         op[t].at \in {"audit_rows", "audit_head", "audit_before", "audit_names", "audit_done"}
  BY DEF audit_after, audit_rows, audit_before, audit_names, verify_recorded
<1>7. unreachable(t) => op[t].at # "missed"
  BY DEF unreachable
<1> QED BY <1>1, <1>2, <1>3, <1>4, <1>5, <1>6, <1>7 DEF Thread

\* A step of a thread is a step of its call.
LEMMA ThreadCalls == ASSUME NEW t \in Threads, Thread(t) PROVE \E c : Call(t, c)
<1>1. fetch(t) \/ fetched(t) \/ moved_on(t) => \E c : Call(t, c)
  BY DEF fetch, fetched, moved_on, take_version, Return
<1>2. list_kind(t) \/ listed(t) \/ current(t) \/ send_write(t) => \E c : Call(t, c)
  BY DEF list_kind, listed, current, send_write, take_version, Return
<1>3. wrote(t) \/ conflict(t) \/ refresh(t) \/ refresh_pin(t) \/ refresh_chain(t) => \E c : Call(t, c)
  BY DEF wrote, conflict, refresh, refresh_pin, refresh_chain, take_version, Return
<1>4. adopt_view(t) \/ adopt_pin(t) \/ verify_audit(t) \/ audit_after(t) \/ audit_before(t) => \E c : Call(t, c)
  BY DEF adopt_view, adopt_pin, verify_audit, audit_after, audit_before, Return
<1>5. audit_names(t) \/ verify_recorded(t) \/ unreachable(t) => \E c : Call(t, c)
  BY DEF audit_names, verify_recorded, unreachable, Return
<1>6. audit_rows(t) => \E c : Call(t, c)
  BY AuditRowsCases DEF Return
<1> QED BY <1>1, <1>2, <1>3, <1>4, <1>5, <1>6 DEF Thread

\* Only its own step gives a thread an outcome.
LEMMA OwnOutcome ==
  ASSUME [Next]_vars, NEW t \in Threads, op'[t] # op[t], op'[t] # Idle("none")
  PROVE  Thread(t)
<1>1. ~UNCHANGED op
  OBVIOUS
<1>2. ~UNCHANGED vars /\ ~Others
  BY <1>1 DEF vars, Others, put_record, apply_rotation, Backup, Restore, Upgrade
<1>3. ~Owner
  BY <1>1 DEF Owner, environment, set_pins, close, drop, restart
<1>4. PICK u \in Threads : Thread(u)
  BY <1>2, <1>3 DEF Next
<1>5. PICK c : Call(u, c)
  BY <1>4, ThreadCalls
<1>6. u = t
  BY <1>5, Calls
<1> QED BY <1>4, <1>6

\* No read goes back below the version a call had returned.
LEMMA ReadsMonotonic ==
  ASSUME IInv, [Next]_vars, NEW t \in Threads, op[t].at = "fetched", op'[t] = Idle("ok")
  PROVE  op[t].ver >= op[t].floor
<1>1. Thread(t)
  <2>1. op'[t] # op[t] /\ op'[t] # Idle("none")
    BY DEF Idle
  <2> QED BY <2>1, OwnOutcome
<1>2. fetched(t)
  <2>1. ~unreachable(t)
    <3>1. SUFFICES ASSUME Call(t, Idle("unreachable")) PROVE FALSE
      BY DEF unreachable, Return
    <3>2. op'[t] = Idle("unreachable")
      BY <3>1, Calls
    <3> QED BY <3>2 DEF Idle
  <2> QED BY <1>1, <2>1, Guards
<1>3. check_version(op[t].view, op[t].ver)
  <2>1. SUFFICES ASSUME Call(t, Idle("version_rollback")) PROVE FALSE
    BY <1>2 DEF fetched, take_version, Return
  <2>2. op'[t] = Idle("version_rollback")
    BY <2>1, Calls
  <2> QED BY <2>2 DEF Idle
<1>4. /\ op[t].view \in Made /\ op[t].ver \in 0..MaxVer /\ op[t].floor \in 0..MaxVer
      /\ op[t].floor <= h.seen[op[t].view.id] /\ h.at = "open" /\ Stored /\ Handled
  BY Running DEF ReadAts, Reading
<1>5. PICK i, v, f : i = op[t].view.id /\ v = op[t].ver /\ f = op[t].floor
  OBVIOUS
<1>6. PICK s, p : s = h.seen[i] /\ p = h.vers[i]
  OBVIOUS
<1>7. i \in DescIds /\ h.vers \in VersionPins /\ h.seen \in VersionPins /\ SeenPinned(h) /\ MaxVer \in Nat
  BY <1>4, <1>5, Viewed, PlanTypes DEF Handled
<1>8. s \in Nat /\ p \in Nat /\ s <= p
  BY <1>6, <1>7 DEF SeenPinned, VersionPins
<1>9. v \in Nat /\ f \in Nat /\ f <= s /\ v >= p
  BY <1>3, <1>4, <1>5, <1>6, <1>7 DEF check_version
<1>10. v >= f
  BY <1>8, <1>9
<1> QED BY <1>5, <1>10

\* What the handle works under changes only when a refresh adopts a descriptor.
LEMMA ViewMoves ==
  ASSUME IInv, [Next]_vars, h.at = "open", h'.at = "open"
  PROVE  \/ h'.view = h.view /\ h'.pin = h.pin
         \/ \E t \in Threads : adopt_view(t) \/ adopt_pin(t)
<1>1. CASE UNCHANGED vars \/ Others
  BY <1>1 DEF vars, Others, put_record, apply_rotation, Backup, Restore, Upgrade, client
<1>2. CASE Owner
  BY <1>2 DEF Owner, environment, set_pins, close, drop, restart, Closed
<1>3. ASSUME NEW t \in Threads, Thread(t)
      PROVE  (h'.view = h.view /\ h'.pin = h.pin) \/ adopt_view(t) \/ adopt_pin(t)
  <2>1. h \in [at : {"closed", "opening", "open"}, view : Descs, pin : Descs,
              vers : VersionPins, seen : VersionPins,
              out : {"none", "generation_rollback", "binding_mismatch"}]
    BY DEF IInv, Sound, Handled
  <2>2. \A v, got : pin_version(v, got) => h'.view = h.view /\ h'.pin = h.pin
    BY <2>1 DEF pin_version
  <2>3. \A v, got : take_version(t, v, got) => h'.view = h.view /\ h'.pin = h.pin
    BY <2>2 DEF take_version
  <2>4. fetched(t) \/ listed(t) \/ wrote(t) \/ verify_recorded(t) => h'.view = h.view /\ h'.pin = h.pin
    BY <2>2, <2>3 DEF fetched, listed, wrote, verify_recorded
  <2>5. fetch(t) \/ moved_on(t) \/ list_kind(t) \/ current(t) \/ send_write(t) \/ conflict(t) => h' = h
    BY DEF fetch, moved_on, list_kind, current, send_write, conflict, client
  <2>6. refresh(t) \/ refresh_pin(t) \/ refresh_chain(t) \/ verify_audit(t) \/ audit_after(t) => h' = h
    BY DEF refresh, refresh_pin, refresh_chain, verify_audit, audit_after, client
  <2>7. audit_rows(t) \/ audit_before(t) \/ audit_names(t) \/ unreachable(t) => h' = h
    BY DEF audit_rows, audit_before, audit_names, unreachable, client
  <2> QED BY <1>3, <2>4, <2>5, <2>6, <2>7 DEF Thread
<1> QED BY <1>1, <1>2, <1>3 DEF Next

\* A handle that one thread refreshes never goes back.
LEMMA NeverBack == ASSUME IInv, [Next]_vars, OneRefreshes PROVE ~GoesBack
<1> SUFFICES ASSUME h.at = "open", h'.at = "open"
             PROVE  ~(h'.view.gen < h.view.gen \/ h'.pin.gen < h.pin.gen)
  BY DEF GoesBack
<1>1. InOrder /\ Asked /\ Stored /\ Handled /\ h.view.gen \in Nat /\ h.pin.gen \in Nat
  BY Viewed DEF IInv, Sound
<1>2. CASE h'.view = h.view /\ h'.pin = h.pin
  BY <1>1, <1>2
<1>3. ASSUME NEW t \in Threads, adopt_view(t)
      PROVE  ~(h'.view.gen < h.view.gen \/ h'.pin.gen < h.pin.gen)
  <2>1. op[t].at = "adopt" /\ op[t].at \in RefreshAts
    BY <1>3 DEF adopt_view, RefreshAts
  <2>2. h'.view = op[t].d /\ h'.pin = h.pin
    BY <1>1, <1>3 DEF adopt_view, Handled
  <2>3. \A u \in Threads : op[u].at # "repin"
    <3>1. \A u \in Threads \ {t} : op[u].at \notin RefreshAts
      BY <1>1, <2>1, OnlyRefresher
    <3> QED BY <2>1, <3>1 DEF RefreshAts
  <2>4. h.view = h.pin /\ h.pin.gen <= op[t].d.gen
    BY <1>1, <2>1, <2>3 DEF InOrder, Follows
  <2>5. op[t].d.gen \in Nat
    <3>1. op[t].d \in Made
      BY <2>1, Running DEF Refreshing
    <3> QED BY <1>1, <3>1, Viewed
  <2> QED BY <1>1, <2>2, <2>4, <2>5
<1>4. ASSUME NEW t \in Threads, adopt_pin(t)
      PROVE  ~(h'.view.gen < h.view.gen \/ h'.pin.gen < h.pin.gen)
  <2>1. op[t].at = "repin" /\ op[t].at \in RefreshAts
    BY <1>4 DEF adopt_pin, RefreshAts
  <2>2. h'.pin = op[t].d /\ h'.view = h.view
    BY <1>1, <1>4 DEF adopt_pin, Handled
  <2>3. h.pin.gen <= op[t].d.gen
    BY <1>1, <2>1 DEF InOrder, Follows
  <2>4. op[t].d.gen \in Nat
    <3>1. op[t].d \in Made
      BY <2>1, Running DEF Refreshing
    <3> QED BY <1>1, <3>1, Viewed
  <2> QED BY <1>1, <2>2, <2>3, <2>4
<1> QED BY <1>2, <1>3, <1>4, ViewMoves

\* The audit head moves along the log, or back to the saved one.
LEMMA HeadExtends ==
  ASSUME IInv, [Next]_vars
  PROVE  mem'.head = disk.head \/ mem.head.id \in Ancestry(rowPrev)[mem'.head.id]
<1>1. Stored /\ Remembered(mem) /\ mem.head.id \in Ancestry(rowPrev)[mem.head.id]
  BY HeadKnown DEF IInv, Sound, History
<1>2. SUFFICES ASSUME mem'.head # mem.head, mem'.head # disk.head
               PROVE  mem.head.id \in Ancestry(rowPrev)[mem'.head.id]
  BY <1>1
<1>3. ~UNCHANGED vars /\ ~Others
  BY <1>2 DEF vars, Others, put_record, apply_rotation, Backup, Restore, Upgrade, client
<1>4. ~Owner
  BY <1>2 DEF Owner, environment, set_pins, close, drop, restart
<1>5. PICK t \in Threads : Thread(t)
  BY <1>3, <1>4 DEF Next
<1>6. fetch(t) \/ moved_on(t) \/ list_kind(t) \/ current(t) \/ send_write(t) \/ conflict(t) => mem' = mem
  BY DEF fetch, moved_on, list_kind, current, send_write, conflict, client
<1>7. refresh(t) \/ refresh_pin(t) \/ refresh_chain(t) \/ verify_audit(t) \/ audit_after(t) => mem' = mem
  BY DEF refresh, refresh_pin, refresh_chain, verify_audit, audit_after, client
<1>8. audit_rows(t) \/ audit_before(t) \/ audit_names(t) \/ unreachable(t) => mem' = mem
  BY DEF audit_rows, audit_before, audit_names, unreachable, client
<1>9. fetched(t) \/ listed(t) \/ wrote(t) \/ adopt_view(t) \/ adopt_pin(t) => mem' = mem
  BY DEF fetched, listed, wrote, adopt_view, adopt_pin
<1>10. verify_recorded(t)
  BY <1>2, <1>5, <1>6, <1>7, <1>8, <1>9 DEF Thread
<1>11. op[t].at = "audit_done" /\ mem' = [mem EXCEPT !.head = op[t].head]
  BY <1>10 DEF verify_recorded
<1>12. mem'.head = op[t].head
  BY <1>1, <1>11 DEF Remembered, LocalStates
<1>13. mem.head.id \in History(op[t].head)
  BY <1>11, Running DEF Auditing, Verifying
<1> QED BY <1>12, <1>13 DEF History

\* What was seen is never unseen: no version read, no generation worked under
\* and no audit row verified is ever taken back, whatever older copy of the
\* server is put back (check_version, check_descriptor_pin, verify_rows).
THEOREM HandleNothingUnseen == Spec => NothingUnseen
<1>1. ASSUME IInv, [Next]_vars
      PROVE  /\ \A t \in Threads :
                   op[t].at = "fetched" /\ op'[t] = Idle("ok") => op[t].ver >= op[t].floor
             /\ (\E t \in Threads : \A u \in Threads \ {t} : "refresh" \notin plan.calls[u]) => ~GoesBack
             /\ mem'.head = disk.head \/ mem.head.id \in Ancestry(rowPrev)[mem'.head.id]
  <2>1. ASSUME NEW t \in Threads, op[t].at = "fetched", op'[t] = Idle("ok")
        PROVE  op[t].ver >= op[t].floor
    BY <1>1, <2>1, ReadsMonotonic
  <2>2. OneRefreshes => ~GoesBack
    BY <1>1, NeverBack
  <2>3. mem'.head = disk.head \/ mem.head.id \in Ancestry(rowPrev)[mem'.head.id]
    BY <1>1, HeadExtends
  <2> QED BY <2>1, <2>2, <2>3 DEF OneRefreshes
<1>2. ASSUME IInv, [Next]_vars
      PROVE  [\A t \in Threads :
                op[t].at = "fetched" /\ op'[t] = Idle("ok") => op[t].ver >= op[t].floor]_vars
  BY <1>1, <1>2
<1>3. ASSUME IInv, [Next]_vars
      PROVE  [(\E t \in Threads : \A u \in Threads \ {t} : "refresh" \notin plan.calls[u]) => ~GoesBack]_vars
  BY <1>1, <1>3
<1>4. ASSUME IInv, [Next]_vars
      PROVE  [mem'.head = disk.head \/ mem.head.id \in Ancestry(rowPrev)[mem'.head.id]]_vars
  BY <1>1, <1>4
<1> QED BY <1>2, <1>3, <1>4, HandleInvariant, PTL
        DEF Spec, NothingUnseen, MonotonicReads, GenerationNeverBack, AuditExtends

\* On a server never put back, a confirmed "not found" is true: the record had
\* no live version when the server looked (Handle::fetch, moved_on).
THEOREM HandleNotFoundIsTrue == Spec => NotFoundIsTrue
<1>1. ASSUME IInv, [Next]_vars, NEW t \in Threads, op[t].at = "missed", op'[t] = Idle("not_found")
      PROVE  op[t].absent \/ restored
  <2>1. Thread(t)
    <3>1. op'[t] # op[t] /\ op'[t] # Idle("none")
      BY <1>1 DEF Idle
    <3> QED BY <1>1, <3>1, OwnOutcome
  <2>2. moved_on(t)
    BY <1>1, <2>1, Guards
  <2>3. PICK told \in BOOLEAN :
          CASE told /\ Current.gen # op[t].view.gen -> Call(t, Idle("stale"))
            [] ~(told /\ Current.gen # op[t].view.gen) /\ op[t].then = "put" ->
                  Call(t, [at |-> "write", what |-> "put", ver |-> 0, live |-> FALSE])
            [] ~(told /\ Current.gen # op[t].view.gen) /\ op[t].then = "conflict" -> Call(t, Idle("conflict"))
            [] OTHER -> Call(t, Idle(IF told THEN "not_found" ELSE "not_found_unconfirmed"))
    BY <2>2 DEF moved_on, Return
  <2>4. \A c : Call(t, c) => c = Idle("not_found")
    BY <1>1, Calls
  <2>5. ~Call(t, Idle("stale")) /\ ~Call(t, Idle("conflict")) /\ ~Call(t, Idle("not_found_unconfirmed"))
        /\ ~Call(t, [at |-> "write", what |-> "put", ver |-> 0, live |-> FALSE])
    BY <2>4 DEF Idle
  <2>6. Current.gen = op[t].view.gen
    BY <2>3, <2>5
  <2>7. /\ op[t].absent \in BOOLEAN /\ Stored /\ op[t].view.gen \in Nat
        /\ ~restored /\ ~op[t].absent => op[t].view.gen < Len(srv.descs)
    <3>1. Reading(op[t], late[t]) /\ Stored
      BY <1>1, Running DEF ReadAts
    <3> QED BY <1>1, <3>1 DEF Reading, Made
  <2>8. Current.gen = Len(srv.descs)
    BY DEF Current
  <2> QED BY <2>6, <2>7, <2>8
<1>2. ASSUME IInv, [Next]_vars
      PROVE  [\A t \in Threads : op[t].at = "missed" /\ op'[t] = Idle("not_found") =>
                                    op[t].absent \/ restored]_vars
  BY <1>1, <1>2
<1> QED BY <1>2, HandleInvariant, PTL DEF Spec, NotFoundIsTrue

\* A step that ends a call with an alarm.
Alarmed(t) == op'[t].at = "idle" /\ op'[t].out \in Alarms

\* A call that goes on, or ends with another outcome, raises no alarm.
LEMMA NoAlarm ==
  ASSUME NEW t \in Threads, NEW c, Call(t, c), c.at # "idle" \/ c.out \notin Alarms
  PROVE  ~Alarmed(t)
<1>1. op'[t] = c
  BY Calls
<1> QED BY <1>1 DEF Alarmed

\* The steps of a call that compare nothing with what was remembered.
LEMMA PlainSteps ==
  ASSUME NEW t \in Threads, Alarmed(t), Thread(t)
  PROVE  \/ fetched(t) \/ wrote(t) \/ listed(t) \/ refresh_pin(t) \/ refresh_chain(t)
         \/ audit_rows(t) \/ audit_before(t)
<1>1. ASSUME NEW out, Return(t, out) PROVE out \in Alarms
  <2>1. PICK c : c = Idle(out)
    OBVIOUS
  <2>2. Call(t, c) /\ c.at = "idle" /\ c.out = out
    BY <1>1, <2>1 DEF Return, Idle
  <2> QED BY <2>2, NoAlarm
<1>2. \A c : Call(t, c) => c.at = "idle"
  BY NoAlarm
<1>3. ~fetch(t)
  BY <1>2 DEF fetch
<1>4. ~moved_on(t)
  <2>1. \A c : Call(t, c) => c.at # "write"
    BY <1>2
  <2>2. \A out \in {"stale", "conflict", "not_found", "not_found_unconfirmed"} : ~Return(t, out)
    BY <1>1 DEF Alarms
  <2> QED BY <2>1, <2>2 DEF moved_on
<1>5. ~list_kind(t) /\ ~refresh(t) /\ ~adopt_view(t)
  BY <1>2 DEF list_kind, refresh, adopt_view
<1>6. ~verify_audit(t) /\ ~audit_after(t) /\ ~audit_names(t)
  <2>1. \A c : Call(t, c) => c.at \notin {"audit_rows", "audit_head", "audit_done"}
    BY <1>2
  <2>2. ~verify_audit(t)
    <3>1. SUFFICES ASSUME verify_audit(t) PROVE FALSE
      OBVIOUS
    <3>2. PICK earlier \in BOOLEAN :
            Call(t, [at |-> "audit_rows", rows |-> <<>>, earlier |-> earlier])
      BY <3>1 DEF verify_audit
    <3>3. PICK c : c = [at |-> "audit_rows", rows |-> <<>>, earlier |-> earlier]
      OBVIOUS
    <3> QED BY <2>1, <3>2, <3>3
  <2>3. ~audit_after(t)
    <3>1. SUFFICES ASSUME audit_after(t) PROVE FALSE
      OBVIOUS
    <3>2. PICK page : Call(t, [at |-> "audit_head", rows |-> op[t].rows, earlier |-> op[t].earlier,
                               page |-> page, fmt |-> srv.fmt])
      BY <3>1, Zenon DEF audit_after
    <3>3. PICK c : c = [at |-> "audit_head", rows |-> op[t].rows, earlier |-> op[t].earlier,
                        page |-> page, fmt |-> srv.fmt]
      OBVIOUS
    <3> QED BY <2>1, <3>2, <3>3
  <2>4. ~audit_names(t)
    BY <2>1 DEF audit_names
  <2> QED BY <2>2, <2>3, <2>4
<1>7. ~Return(t, "not_found") /\ ~Return(t, "conflict") /\ ~Return(t, "stale") /\ ~Return(t, "refused")
      /\ ~Return(t, "ok") /\ ~Return(t, "unreachable")
  BY <1>1 DEF Alarms
<1>8. ~current(t) /\ ~conflict(t)
  BY <1>2, <1>7 DEF current, conflict
<1>9. ~send_write(t)
  BY <1>2, <1>7 DEF send_write
<1>10. ~adopt_pin(t) /\ ~verify_recorded(t) /\ ~unreachable(t)
  BY <1>7 DEF adopt_pin, verify_recorded, unreachable
<1> QED BY <1>3, <1>4, <1>5, <1>6, <1>8, <1>9, <1>10 DEF Thread

\* A version is refused only if the pin moved past what the server answered.
LEMMA VersionRefused ==
  ASSUME Stored, Handled, h.at = "open", NEW t \in Threads, NEW v \in Made, NEW got \in 0..MaxVer,
         Alarmed(t), take_version(t, v, got)
  PROVE  ~(h.vers[v.id] <= got)
<1>1. ~check_version(v, got)
  <2>1. SUFFICES ASSUME Return(t, "ok") PROVE FALSE
    BY DEF take_version
  <2>2. PICK c : c = Idle("ok")
    OBVIOUS
  <2>3. Call(t, c) /\ c.out \notin Alarms
    BY <2>1, <2>2 DEF Return, Idle, Alarms
  <2> QED BY <2>3, NoAlarm
<1>2. PICK p : p = h.vers[v.id]
  OBVIOUS
<1>3. p \in Nat /\ got \in Nat
  BY <1>2, Viewed, PlanTypes DEF VersionPins
<1>4. ~(got >= p)
  BY <1>1, <1>2 DEF check_version
<1>5. ~(p <= got)
  BY <1>3, <1>4
<1> QED BY <1>2, <1>5

\* Two descriptors of the server at one generation are one.
LEMMA SamePlace ==
  ASSUME NEW a, NEW b, OnChain(a), OnChain(b), a.gen = b.gen
  PROVE  a.id = b.id
BY DEF OnChain

\* Rows read from the server's log follow the known head.
LEMMA ServedChain ==
  ASSUME Stored, ~restored, NEW known, known = GENESIS \/ known \in Rows, InLog(known),
         NEW rows \in Seq(Rows), Served(rows, known.seq)
  PROVE  verify_chain(known, rows)
<1>1. PICK k, n, top : k = known.seq /\ n = Len(rows) /\ top = Len(srv.log)
  OBVIOUS
<1>2. k \in Nat /\ n \in Nat /\ top \in Nat
  BY <1>1, RowParts, WholeTypes DEF GENESIS, Stored
<1>3. /\ \A i \in 1..n : rows[i].seq = k + i /\ k + i <= top /\ rows[i].id = srv.log[k + i]
      /\ rowPrev[srv.log[1]] = 0
      /\ \A q \in 2..top : rowPrev[srv.log[q]] = srv.log[q - 1]
  BY <1>1 DEF Served, Stored, Whole
<1>4. ASSUME NEW i \in 1..n
      PROVE  LET before == IF i = 1 THEN known ELSE rows[i - 1]
             IN  rows[i].seq = before.seq + 1 /\ rowPrev[rows[i].id] = before.id
  <2>1. rows[i].seq = k + i /\ k + i <= top /\ rows[i].id = srv.log[k + i] /\ i \in Nat /\ i >= 1
    BY <1>2, <1>3
  <2>2. CASE i = 1 /\ k = 0
    <3>1. known = GENESIS
      BY <1>1, <1>2, <2>2 DEF InLog
    <3>2. known.seq = 0 /\ known.id = 0
      BY <3>1 DEF GENESIS
    <3>3. rows[i].seq = 1 /\ rows[i].id = srv.log[1]
      BY <2>1, <2>2
    <3> QED BY <1>3, <2>2, <3>2, <3>3
  <2>3. CASE i = 1 /\ k > 0
    <3>1. known # GENESIS
      BY <1>1, <2>3 DEF GENESIS
    <3>2. known.id = srv.log[k]
      BY <1>1, <3>1 DEF InLog
    <3>3. k + 1 \in 2..top /\ (k + 1) - 1 = k
      BY <1>2, <2>1, <2>3
    <3>4. rows[i].seq = k + 1 /\ rows[i].id = srv.log[k + 1]
      BY <2>1, <2>3
    <3>5. rowPrev[srv.log[k + 1]] = srv.log[k]
      BY <1>3, <3>3
    <3> QED BY <1>1, <2>3, <3>2, <3>4, <3>5
  <2>4. CASE i # 1
    <3>1. i - 1 \in 1..n /\ i - 1 \in Nat /\ k + i \in 2..top /\ (k + i) - 1 = k + (i - 1)
      BY <1>2, <2>1, <2>4
    <3>2. rows[i - 1].seq = k + (i - 1) /\ rows[i - 1].id = srv.log[k + (i - 1)]
      BY <1>3, <3>1
    <3>3. rowPrev[srv.log[k + i]] = srv.log[k + (i - 1)]
      <4>1. rowPrev[srv.log[k + i]] = srv.log[(k + i) - 1]
        BY <1>3, <3>1
      <4> QED BY <3>1, <4>1
    <3>4. k + i = (k + (i - 1)) + 1
      BY <1>2, <2>1
    <3>5. rows[i].seq = rows[i - 1].seq + 1
      BY <2>1, <3>2, <3>4
    <3> QED BY <2>1, <2>4, <3>2, <3>3, <3>5
  <2> QED BY <1>2, <2>2, <2>3, <2>4
<1> QED BY <1>1, <1>4 DEF verify_chain

\* The rows of a page read with no row appended in between verify.
LEMMA PageVerifies ==
  ASSUME IInv, NEW t \in Threads, op[t].at = "audit_head", ~restored, ~late[t],
         NEW kept, kept = read_rows(op[t].page, op[t].fmt),
         NEW stop \in BOOLEAN, stop = (Len(kept) < Len(op[t].page)),
         ~(~stop /\ Len(kept) = Page)
  PROVE  verify_rows(mem.head, op[t].rows \o kept, LogHead, stop) = "ok"
<1>1. Stored /\ Remembered(mem)
  BY Running
<1>2. PICK rows, known, page : rows = op[t].rows \o kept /\ known = mem.head /\ page = op[t].page
  OBVIOUS
<1>3. /\ kept \in Seq(Rows) /\ rows \in Seq(Rows) /\ Len(kept) \in 0..Len(page) /\ Len(page) \in Nat
      /\ Len(page) <= Page /\ Served(rows, known.seq)
      /\ Len(rows) = Len(op[t].rows) + Len(kept)
      /\ Len(page) < Page => Len(srv.log) = known.seq + Len(op[t].rows) + Len(page)
  BY <1>2, AuditRead
<1>4. /\ known = GENESIS \/ known \in Rows
      /\ known.seq \in Nat /\ InLog(known) /\ known.seq <= Len(srv.log)
      /\ known.seq = 0 => known = GENESIS
  BY <1>1, <1>2, HeadKnown
<1>5. verify_chain(known, rows)
  BY <1>1, <1>3, <1>4, ServedChain
<1>6. /\ LogHead.seq = Len(srv.log) /\ LogHead.id = srv.log[Len(srv.log)] /\ Len(srv.log) \in Nat
      /\ Len(srv.log) >= 1 /\ LogHead = [seq |-> Len(srv.log), id |-> srv.log[Len(srv.log)]]
  BY <1>1, WholeTypes DEF LogHead, Stored
<1>7. ~(LogHead.seq < known.seq) /\ ~(LogHead.seq = known.seq /\ LogHead.id # known.id)
  BY <1>4, <1>6 DEF InLog, GENESIS
<1>8. ASSUME ~stop PROVE chain_head(known, rows) = LogHead
  <2>1. PICK e : e = chain_head(known, rows)
    OBVIOUS
  <2>2. InLog(e) /\ e.seq = known.seq + Len(rows) /\ (e = GENESIS \/ e \in Rows)
    BY <1>1, <1>3, <1>4, <1>5, <2>1, ServedHead, ChainHistory
  <2>3. Len(kept) = Len(page) /\ Len(page) < Page
    <3>1. ~(Len(kept) < Len(page)) /\ Len(kept) # Page
      BY <1>2, <1>8, Zenon
    <3>2. Page \in Nat
      BY VaultHandleAssumption
    <3> QED BY <1>3, <3>1, <3>2
  <2>4. e.seq = Len(srv.log)
    <3>1. PICK a, b, k : a = Len(op[t].rows) /\ b = Len(kept) /\ k = known.seq
      OBVIOUS
    <3>2. a \in Nat /\ b \in Nat /\ k \in Nat
      <4>1. op[t].rows \in Seq(Rows)
        BY Running DEF Auditing, Verifying
      <4> QED BY <1>3, <1>4, <3>1, <4>1
    <3>3. k + (a + b) = k + a + b
      BY <3>2
    <3> QED BY <1>3, <2>2, <2>3, <3>1, <3>3
  <2>5. e # GENESIS
    BY <1>6, <2>4 DEF GENESIS
  <2>6. e \in Rows /\ e.id = srv.log[Len(srv.log)]
    BY <2>2, <2>4, <2>5 DEF InLog
  <2>7. e = [seq |-> e.seq, id |-> e.id]
    BY <2>6 DEF Rows
  <2> QED BY <1>6, <2>1, <2>4, <2>6, <2>7
<1> QED BY <1>2, <1>5, <1>7, <1>8 DEF verify_rows

\* A thread raises an alarm only if an older server was put back, or its
\* answer was overtaken.
LEMMA AlarmExplained ==
  ASSUME IInv, NEW t \in Threads, Thread(t), Alarmed(t), ~restored, ~late[t]
  PROVE  FALSE
<1>1. Stored /\ Handled /\ Remembered(mem)
  BY Running
<1>2. ASSUME NEW out, Return(t, out) PROVE out \in Alarms
  <2>1. PICK c : c = Idle(out)
    OBVIOUS
  <2>2. Call(t, c) /\ c.at = "idle" /\ c.out = out
    BY <1>2, <2>1 DEF Return, Idle
  <2> QED BY <2>2, NoAlarm
<1>3. \A c : Call(t, c) => c.at = "idle"
  BY NoAlarm
<1>4. CASE fetched(t) \/ wrote(t)
  <2>1. op[t].at \in {"fetched", "wrote"} /\ take_version(t, op[t].view, op[t].ver)
    BY <1>4 DEF fetched, wrote
  <2>2. /\ op[t].view \in Made /\ op[t].ver \in 0..MaxVer /\ h.at = "open"
        /\ h.vers[op[t].view.id] <= op[t].ver
    BY <2>1, Running DEF ReadAts, Reading
  <2>3. PICK v, got : v = op[t].view /\ got = op[t].ver
    OBVIOUS
  <2>4. take_version(t, v, got) /\ v \in Made /\ got \in 0..MaxVer /\ h.vers[v.id] <= got
    BY <2>1, <2>2, <2>3
  <2> QED BY <1>1, <2>2, <2>4, VersionRefused
<1>5. CASE listed(t)
  <2>1. op[t].at = "listed"
    BY <1>5 DEF listed
  <2>2. PICK v, item : v = op[t].view /\ item = op[t].item
    OBVIOUS
  <2>3. /\ v \in Made /\ Item(item) /\ h.at = "open" /\ OnChain(v) /\ ItemServed(item)
        /\ item # <<>> => h.vers[v.id] <= item[1].ver
    BY <2>1, <2>2, Running DEF ReadAts, Reading
  <2>4. CASE item # <<>> /\ verify_listed(v, item[1]) = "ok"
    <3>1. take_version(t, v, item[1].ver) /\ item[1].ver \in 0..MaxVer
      BY <1>5, <2>2, <2>3, <2>4 DEF listed, Item
    <3>2. PICK got : got = item[1].ver
      OBVIOUS
    <3> QED BY <1>1, <2>3, <2>4, <3>1, <3>2, VersionRefused
  <2>5. CASE ~(item # <<>> /\ verify_listed(v, item[1]) = "ok")
    <3>1. Return(t, IF item = <<>> THEN "ok" ELSE verify_listed(v, item[1]))
      BY <1>5, <2>2, <2>5 DEF listed
    <3>2. (IF item = <<>> THEN "ok" ELSE verify_listed(v, item[1])) \in Alarms
      BY <1>2, <3>1
    <3>3. item # <<>> /\ verify_listed(v, item[1]) = "bad_signature"
      BY <2>5, <3>2 DEF Alarms, verify_listed
    <3>4. item[1].desc.gen = v.gen /\ item[1].desc.id # v.id
      BY <3>3 DEF verify_listed
    <3>5. OnChain(item[1].desc)
      BY <2>3, <3>3 DEF ItemServed
    <3> QED BY <2>3, <3>4, <3>5, SamePlace
  <2> QED BY <2>4, <2>5
<1>6. CASE refresh_pin(t)
  <2>1. op[t].at = "refresh"
    BY <1>6 DEF refresh_pin
  <2>2. PICK d, pin : d = op[t].d /\ pin = h.pin
    OBVIOUS
  <2>3. d \in Made /\ OnChain(d) /\ pin.gen <= d.gen /\ h.at = "open"
    BY <2>1, <2>2, Running DEF RefreshAts, Refreshing
  <2>4. pin \in Made /\ OnChain(pin) /\ pin.gen \in Nat /\ d.gen \in Nat
    BY <1>1, <2>2, <2>3, Viewed
  <2>5. compare_pin(pin, d) = "rollback"
    <3>1. \A c : Call(t, c) => c.at \notin {"adopt", "chain"}
      BY <1>3
    <3>2. ~Call(t, [at |-> "adopt", d |-> d]) /\ ~Call(t, [at |-> "chain", d |-> d, pin |-> pin])
      BY <3>1
    <3> QED BY <1>6, <2>2, <3>2 DEF refresh_pin
  <2>6. d.gen = pin.gen /\ d.id # pin.id
    BY <2>3, <2>4, <2>5 DEF compare_pin
  <2> QED BY <2>3, <2>4, <2>6, SamePlace
<1>7. CASE refresh_chain(t)
  <2>1. op[t].at = "chain"
    BY <1>7 DEF refresh_chain
  <2>2. PICK d, pin : d = op[t].d /\ pin = op[t].pin
    OBVIOUS
  <2>3. d \in Made /\ pin \in Made /\ pin.gen < d.gen /\ OnChain(d) /\ OnChain(pin)
    BY <2>1, <2>2, Running DEF RefreshAts, Refreshing
  <2>4. check_descriptor_chain(pin, d)
    BY <1>1, <2>3, ChainServed
  <2>5. Call(t, [at |-> "adopt", d |-> d])
    BY <1>7, <2>2, <2>4 DEF refresh_chain
  <2> QED BY <1>3, <2>5
<1>8. CASE audit_rows(t)
  <2>1. op[t].at = "audit_head"
    BY <1>8 DEF audit_rows
  <2>2. PICK kept, stop, rows :
          /\ kept = read_rows(op[t].page, op[t].fmt)
          /\ stop = (Len(kept) < Len(op[t].page))
          /\ rows = op[t].rows \o kept
    OBVIOUS
  <2>3. stop \in BOOLEAN
    <3>1. Len(kept) \in Nat /\ Len(op[t].page) \in Nat
      BY <2>1, <2>2, AuditRead
    <3> QED BY <2>2, <3>1
  <2>4. /\ ~(~stop /\ Len(kept) = Page)
        /\ verify_rows(mem.head, rows, LogHead, stop) # "ok"
    <3>1. ~Call(t, [at |-> "audit_rows", rows |-> rows, earlier |-> op[t].earlier])
      BY <1>3
    <3>2. ~Call(t, [at |-> IF op[t].earlier /\ mem.head # GENESIS THEN "audit_before" ELSE "audit_names",
                    head |-> chain_head(mem.head, rows)])
      BY <1>3
    <3> QED BY <1>8, <2>2, <3>1, <3>2, AuditRowsCases
  <2>5. verify_rows(mem.head, rows, LogHead, stop) = "ok"
    BY <2>1, <2>2, <2>3, <2>4, PageVerifies
  <2> QED BY <2>4, <2>5
<1>9. CASE audit_before(t)
  <2>1. op[t].at = "audit_before"
    BY <1>9 DEF audit_before
  <2>2. mem.head # GENESIS
    BY <2>1, Running DEF Auditing, Verifying
  <2>3. srv.log[mem.head.seq] = mem.head.id
    BY <1>1, <2>2, HeadKnown DEF InLog
  <2>4. Call(t, [at |-> "audit_names", head |-> op[t].head])
    BY <1>9, <2>3 DEF audit_before
  <2> QED BY <1>3, <2>4
<1> QED BY <1>4, <1>5, <1>6, <1>7, <1>8, <1>9, PlainSteps

\* A handle reports an integrity failure only if an older server was put back,
\* or its answer was overtaken by another thread of the handle or by a row
\* appended between the two reads of an audit page.
THEOREM HandleAlarmsExplained == Spec => AlarmsExplained
<1>1. ASSUME IInv, [Next]_vars, NEW t \in Threads, op'[t] # op[t], op'[t].at = "idle",
             op'[t].out \in Alarms
      PROVE  restored \/ late[t]
  <2>1. op'[t] # Idle("none")
    BY <1>1 DEF Idle, Alarms
  <2>2. Thread(t)
    BY <1>1, <2>1, OwnOutcome
  <2>3. late[t] \in BOOLEAN /\ restored \in BOOLEAN
    BY <1>1, Running DEF Stored
  <2>4. CASE ~restored /\ ~late[t]
    BY <1>1, <2>2, <2>4, AlarmExplained DEF Alarmed
  <2> QED BY <2>3, <2>4
<1>2. ASSUME IInv, IInv', [Next]_vars, h'.out # "none" PROVE restored
  <2>1. Handled /\ Handled'
    BY <1>2 DEF IInv, Sound
  <2>2. restored' = restored \/ h' = h
    <3>1. ASSUME UNCHANGED vars \/ Others PROVE h' = h
      BY <3>1 DEF vars, Others, put_record, apply_rotation, Backup, Restore, Upgrade, client
    <3>2. ASSUME Owner PROVE restored' = restored
      BY <3>2 DEF Owner, environment, set_pins, close, drop, restart, server, store
    <3>3. ASSUME NEW t \in Threads, Thread(t) PROVE restored' = restored
      <4>1. fetch(t) \/ fetched(t) \/ moved_on(t) \/ list_kind(t) \/ listed(t) => restored' = restored
        BY DEF fetch, fetched, moved_on, list_kind, listed, server, store
      <4>2. current(t) \/ send_write(t) \/ wrote(t) \/ conflict(t) => restored' = restored
        BY DEF current, send_write, wrote, conflict, server, store
      <4>3. refresh(t) \/ refresh_pin(t) \/ refresh_chain(t) \/ adopt_view(t) \/ adopt_pin(t) => restored' = restored
        BY DEF refresh, refresh_pin, refresh_chain, adopt_view, adopt_pin, server, store
      <4>4. verify_audit(t) \/ audit_after(t) \/ audit_rows(t) \/ audit_before(t) => restored' = restored
        BY DEF verify_audit, audit_after, audit_rows, audit_before, server, store
      <4>5. audit_names(t) \/ verify_recorded(t) \/ unreachable(t) => restored' = restored
        BY DEF audit_names, verify_recorded, unreachable, server, store
      <4> QED BY <3>3, <4>1, <4>2, <4>3, <4>4, <4>5 DEF Thread
    <3> QED BY <1>2, <3>1, <3>2, <3>3 DEF Next
  <2> QED BY <1>2, <2>1, <2>2 DEF Handled
<1>3. ASSUME IInv, IInv', [Next]_vars
      PROVE  [/\ \A t \in Threads :
                    op'[t] # op[t] /\ op'[t].at = "idle" /\ op'[t].out \in Alarms => restored \/ late[t]
              /\ h'.out # "none" => restored]_vars
  BY <1>1, <1>2, <1>3
<1> QED BY <1>3, HandleInvariant, PTL DEF Spec, AlarmsExplained

=============================================================================
