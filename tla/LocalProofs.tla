--------------------------- MODULE LocalProofs ---------------------------
(***************************************************************************)
(* Proofs about what runs on the owner's machine: the files it keeps       *)
(* (PrivateFiles), for any number of commands, keys and files, and the     *)
(* local web interface (UiSession), for any number of secrets, links,      *)
(* requests and copies.  The two share no state; each part has its own     *)
(* inductive invariant.                                                    *)
(***************************************************************************)
EXTENDS PrivateFiles, UiSession, TLAPS

-----------------------------------------------------------------------------
(***************************************************************************)
(* PrivateFiles.                                                           *)
(*                                                                         *)
(* A file is whole once it is synced, and a command renames a file of its  *)
(* own making only after it has synced it.  While commands run one at a    *)
(* time the temporary name is still that file when it is renamed, no file  *)
(* under a lasting name is written to any more, and the value a command is *)
(* writing has every acknowledged key, and the one it adds.                *)
(***************************************************************************)

File == [value : SUBSET Keys, whole : BOOLEAN, synced : BOOLEAN]
Command == [at : {"idle", "remove", "create", "write", "sync", "rename"},
            file : Paths \cup {"none"}, value : SUBSET Keys, fd : Nat,
            job : {"none", "set", "delete", "save", "kit"}, key : Keys \cup {"none"}]

FilesTypeOK ==
    /\ ino \in Seq(File)
    /\ dir \in [DirNames -> 0..Len(ino)] /\ disk \in [DirNames -> 0..Len(ino)]
    /\ proc \in [Procs -> Command]
    /\ acked \subseteq Keys /\ power_lost \in BOOLEAN /\ overlap \in BOOLEAN

Opened(p) == proc[p].at \in {"write", "sync", "rename"}

\* What a command writes where, and how far its file is.
Exact(p) ==
    /\ \/ proc[p] = Idle
       \/ proc[p].job = "kit" /\ proc[p].file = "kit" /\ proc[p].at \in {"create", "write", "sync"}
       \/ proc[p].job \in {"set", "delete"} /\ proc[p].file = "credentials" /\ ~Is(p, "idle")
       \/ proc[p].job = "save" /\ proc[p].file \in {"config", "state"} /\ ~Is(p, "idle")
    /\ proc[p].job = "set" => proc[p].key \in Keys
    /\ Opened(p) => proc[p].fd \in DOMAIN ino
    /\ Is(p, "sync") => ino[proc[p].fd].whole
    /\ Is(p, "rename") => ino[proc[p].fd].synced

SyncedWhole == \A i \in DOMAIN ino : ino[i].synced => ino[i].whole

\* A command that runs alone.
OneAtATime == \A p, q \in Procs : p # q => Is(p, "idle") \/ Is(q, "idle")
InPlace == \A f \in Renamed : /\ dir[f] # 0 => ino[dir[f]].synced
                              /\ disk[f] # 0 => ino[disk[f]].synced
Ours(p) ==
    Opened(p) => /\ \A f \in Renamed : dir[f] # proc[p].fd
                 /\ proc[p].job # "kit" => dir[Target(p)] = proc[p].fd
                 /\ proc[p].at # "write" => ino[proc[p].fd].value = proc[p].value
Alone == OneAtATime /\ InPlace /\ \A p \in Procs : Ours(p)

\* What is being written has what was acknowledged.
Carries(p) ==
    /\ proc[p].job = "set" => acked \cup {proc[p].key} \subseteq proc[p].value
    /\ proc[p].job = "delete" => acked \subseteq proc[p].value
Kept == acked \subseteq load /\ \A p \in Procs : Carries(p)

FilesIInv ==
    /\ FilesTypeOK
    /\ \A p \in Procs : Exact(p)
    /\ SyncedWhole
    /\ ~overlap => Alone
    /\ ~overlap /\ ~power_lost => Kept

-----------------------------------------------------------------------------
(* Lemmas. *)

\* The temporary names are not lasting ones, and each file has its own.
LEMMA Names ==
  /\ Idle \in Command /\ Idle.at = "idle" /\ Idle.job = "none"
  /\ \A f \in Renamed : f \in DirNames /\ Tmp[f] \in DirNames \ Paths
  /\ Renamed \subseteq Paths /\ "kit" \in DirNames /\ "kit" \notin Renamed
  BY DEF Idle, Command, Renamed, Paths, Tmp, DirNames

\* The name a running command creates is one of the directory's and never a
\* lasting one of a renamed file.
LEMMA TargetName ==
  ASSUME NEW p \in Procs, Exact(p), ~Is(p, "idle")
  PROVE  /\ Target(p) \in DirNames /\ Target(p) \notin Renamed
         /\ proc[p].job # "kit" => proc[p].file \in Renamed
         /\ proc[p].file = "credentials" <=> proc[p].job \in {"set", "delete"}
  BY Names DEF Exact, Is, Target, Renamed, Paths

\* What a load returns is a set of keys.
LEMMA LoadKeys ==
  ASSUME FilesTypeOK PROVE load \subseteq Keys
<1>1. "credentials" \in DirNames
  BY DEF DirNames, Paths, Renamed
<1>2. dir["credentials"] \in 0..Len(ino) /\ Len(ino) \in Nat /\ ino \in Seq(File)
  BY <1>1 DEF FilesTypeOK
<1>3. CASE dir["credentials"] = 0
  BY <1>3 DEF load
<1>4. CASE dir["credentials"] # 0
  <2>1. ino[dir["credentials"]] \in File
    BY <1>2, <1>4
  <2> QED BY <1>4, <2>1 DEF load, File
<1> QED BY <1>3, <1>4

\* The initial state.
LEMMA Initially == FilesInit => FilesIInv
<1> SUFFICES ASSUME FilesInit PROVE FilesIInv
  OBVIOUS
<1>1. FilesTypeOK
  <2>1. ino \in Seq(File) /\ Len(ino) = 0
    BY DEF FilesInit
  <2>2. dir \in [DirNames -> 0..Len(ino)] /\ disk \in [DirNames -> 0..Len(ino)]
    BY <2>1 DEF FilesInit
  <2> QED BY <2>1, <2>2, Names DEF FilesInit, FilesTypeOK
<1>2. \A p \in Procs : Exact(p)
  BY Names DEF FilesInit, Exact, Opened, Is
<1>3. SyncedWhole
  BY DEF FilesInit, SyncedWhole
<1>4. Alone
  BY Names DEF FilesInit, Alone, OneAtATime, InPlace, Ours, Opened, Is, DirNames
<1>5. Kept
  BY Names DEF FilesInit, Kept, Carries, load
<1> QED BY <1>1, <1>2, <1>3, <1>4, <1>5 DEF FilesIInv

\* A command that has no file open begins: nothing of the disk changes but,
\* for a kit, the name it takes away.
LEMMA BeginStep ==
  ASSUME FilesIInv, NEW p \in Procs, ~Opened(p), NEW c \in Command, c.at \in {"remove", "create"},
         proc' = [proc EXCEPT ![p] = c],
         \/ c.job = "kit" /\ c.file = "kit" /\ c.at = "create"
         \/ c.job \in {"set", "delete"} /\ c.file = "credentials"
         \/ c.job = "save" /\ c.file \in {"config", "state"},
         c.job = "set" => c.key \in Keys,
         overlap' \in BOOLEAN, overlap => overlap',
         ~overlap' => \A q \in Procs \ {p} : Is(q, "idle"),
         UNCHANGED <<disk, ino, power_lost>>, dir' \in [DirNames -> 0..Len(ino)],
         \A f \in Renamed : dir'[f] = dir[f],
         acked' \subseteq acked,
         (~power_lost /\ ~overlap) => /\ c.job = "set" => acked' \cup {c.key} \subseteq c.value
                                      /\ c.job = "delete" => acked' \subseteq c.value
  PROVE  FilesIInv'
<1> USE DEF FilesIInv
<1>1. /\ proc' \in [Procs -> Command] /\ proc'[p] = c
      /\ \A q \in Procs \ {p} : proc'[q] = proc[q]
  BY DEF FilesTypeOK
<1>2. FilesTypeOK'
  BY <1>1 DEF FilesTypeOK
<1>3. \A q \in Procs : Exact(q)'
  BY <1>1 DEF Exact, Opened, Is
<1>4. SyncedWhole'
  BY DEF SyncedWhole
<1>5. ASSUME ~overlap' PROVE Alone'
  <2>1. OneAtATime'
    BY <1>1, <1>5 DEF OneAtATime, Is
  <2>2. InPlace'
    BY <1>5 DEF Alone, InPlace
  <2>3. \A q \in Procs : Ours(q)'
    BY <1>1, <1>5 DEF Ours, Opened, Is
  <2> QED BY <2>1, <2>2, <2>3 DEF Alone
<1>6. ASSUME ~overlap', ~power_lost' PROVE Kept'
  <2>1. load' = load
    BY Names DEF load, Renamed
  <2>2. \A q \in Procs \ {p} : Carries(q)'
    BY <1>1, <1>6 DEF Kept, Carries
  <2>3. Carries(p)'
    BY <1>1, <1>6 DEF Carries
  <2> QED BY <1>6, <2>1, <2>2, <2>3 DEF Kept
<1> QED BY <1>2, <1>3, <1>4, <1>5, <1>6

\* A command ends or is killed: what it left behind is under no lasting name.
LEMMA StopStep ==
  ASSUME FilesIInv, NEW p \in Procs, Stops(p), UNCHANGED <<dir, disk, ino, acked, power_lost, overlap>>
  PROVE  FilesIInv'
<1> USE DEF FilesIInv
<1>1. /\ proc' \in [Procs -> Command] /\ proc'[p] = Idle
      /\ \A q \in Procs \ {p} : proc'[q] = proc[q]
  BY Names DEF FilesTypeOK, Stops
<1>2. FilesTypeOK'
  BY <1>1 DEF FilesTypeOK
<1>3. \A q \in Procs : Exact(q)'
  BY <1>1, Names DEF Exact, Opened, Is
<1>4. SyncedWhole'
  BY DEF SyncedWhole
<1>5. ASSUME ~overlap' PROVE Alone'
  <2>1. OneAtATime'
    BY <1>1, <1>5, Names DEF Alone, OneAtATime, Is
  <2>2. InPlace'
    BY <1>5 DEF Alone, InPlace
  <2>3. \A q \in Procs : Ours(q)'
    BY <1>1, <1>5, Names DEF Alone, Ours, Opened, Is, Target
  <2> QED BY <2>1, <2>2, <2>3 DEF Alone
<1>6. ASSUME ~overlap', ~power_lost' PROVE Kept'
  <2>1. load' = load
    BY DEF load
  <2>2. \A q \in Procs : Carries(q)'
    BY <1>1, <1>6, Names DEF Kept, Carries
  <2> QED BY <1>6, <2>1, <2>2 DEF Kept
<1> QED BY <1>2, <1>3, <1>4, <1>5, <1>6

\* A command with a step of its own on its temporary name or its file goes
\* on: what it needs to prove is only about itself, the names and the files.
LEMMA OwnStep ==
  ASSUME FilesIInv, NEW p \in Procs, ~Is(p, "idle"), UNCHANGED <<disk, power_lost, overlap, acked>>,
         NEW c \in Command, proc' = [proc EXCEPT ![p] = c],
         \/ c = Idle
         \/ c.job = proc[p].job /\ c.key = proc[p].key /\ c.value = proc[p].value,
         ino' \in Seq(File), Len(ino) <= Len(ino'), dir' \in [DirNames -> 0..Len(ino')],
         \A i \in DOMAIN ino : /\ ino[i].synced => ino'[i].synced
                               /\ ino[i].whole => ino'[i].whole,
         SyncedWhole', Exact(p)', ~overlap => Ours(p)',
         \A f \in Renamed : dir'[f] = dir[f],
         ~overlap => \A f \in Renamed : dir[f] # 0 => ino'[dir[f]].value = ino[dir[f]].value
  PROVE  FilesIInv'
<1> USE DEF FilesIInv
<1>1. /\ proc' \in [Procs -> Command] /\ proc'[p] = c
      /\ \A q \in Procs \ {p} : proc'[q] = proc[q]
  BY DEF FilesTypeOK
<1>2. DOMAIN ino = 1..Len(ino) /\ DOMAIN ino' = 1..Len(ino') /\ Len(ino) \in Nat /\ Len(ino') \in Nat
  BY DEF FilesTypeOK
<1>3. FilesTypeOK'
  BY <1>1, <1>2 DEF FilesTypeOK
<1>4. \A q \in Procs : Exact(q)'
  BY <1>1, <1>2 DEF Exact, Opened, Is
<1>5. ASSUME ~overlap' PROVE Alone'
  <2>1. OneAtATime'
    BY <1>1, <1>5 DEF Alone, OneAtATime, Is
  <2>2. InPlace'
    <3>1. \A f \in Renamed : dir[f] \in 0..Len(ino) /\ disk[f] \in 0..Len(ino)
      BY Names DEF FilesTypeOK
    <3> QED BY <1>2, <1>5, <3>1 DEF Alone, InPlace
  <2>3. \A q \in Procs : Ours(q)'
    BY <1>1, <1>5 DEF Alone, OneAtATime, Ours, Opened, Is
  <2> QED BY <2>1, <2>2, <2>3 DEF Alone
<1>6. ASSUME ~overlap', ~power_lost' PROVE Kept'
  <2>1. load' = load
    BY <1>6 DEF load, Renamed
  <2>2. \A q \in Procs : Carries(q)'
    BY <1>1, <1>6, Names DEF Kept, Carries
  <2> QED BY <1>6, <2>1, <2>2 DEF Kept
<1> QED BY <1>3, <1>4, <1>5, <1>6

-----------------------------------------------------------------------------
(* One lemma per kind of step. *)

\* Commands begin.
LEMMA SetStep ==
  ASSUME FilesIInv, NEW p \in Procs, NEW k \in Keys, set_key(p, k)
  PROVE  FilesIInv'
<1> DEFINE c == [Idle EXCEPT !.at = "remove", !.job = "set", !.key = k,
                             !.file = "credentials", !.value = set(k)]
<1>1. load \subseteq Keys
  BY LoadKeys DEF FilesIInv
<1>2. c \in Command /\ c.at = "remove" /\ c.job = "set" /\ c.key = k /\ c.value = set(k)
      /\ c.file = "credentials"
  BY <1>1 DEF Command, Idle, set, Paths, Renamed
<1>3. proc' = [proc EXCEPT ![p] = c] /\ ~Opened(p)
  BY DEF set_key, Begins, Opened, Is
<1> HIDE DEF c
<1>4. (~power_lost /\ ~overlap) => acked \cup {k} \subseteq set(k)
  BY DEF FilesIInv, Kept, set
<1>5. /\ overlap' \in BOOLEAN /\ (overlap => overlap')
      /\ ~overlap' => \A q \in Procs \ {p} : Is(q, "idle")
      /\ UNCHANGED <<dir, disk, ino, acked, power_lost>>
  BY DEF FilesIInv, FilesTypeOK, set_key, Begins
<1>6. dir' \in [DirNames -> 0..Len(ino)] /\ \A f \in Renamed : dir'[f] = dir[f]
  BY <1>5 DEF FilesIInv, FilesTypeOK
<1> QED BY <1>2, <1>3, <1>4, <1>5, <1>6, BeginStep

\* A deletion: the key is given up before the file is written.
LEMMA DeleteStep ==
  ASSUME FilesIInv, NEW p \in Procs, NEW k \in Keys, delete_key(p, k)
  PROVE  FilesIInv'
<1> DEFINE c == [Idle EXCEPT !.at = "remove", !.job = "delete", !.key = k,
                             !.file = "credentials", !.value = keystore_delete(k)]
<1>1. load \subseteq Keys
  BY LoadKeys DEF FilesIInv
<1>2. c \in Command /\ c.at = "remove" /\ c.job = "delete" /\ c.key = k /\ c.value = keystore_delete(k)
      /\ c.file = "credentials"
  BY <1>1 DEF Command, Idle, keystore_delete, Paths, Renamed
<1>3. proc' = [proc EXCEPT ![p] = c] /\ ~Opened(p)
  BY DEF delete_key, Begins, Opened, Is
<1> HIDE DEF c
<1>4. (~power_lost /\ ~overlap) => acked \ {k} \subseteq keystore_delete(k)
  BY DEF FilesIInv, Kept, keystore_delete
<1>5. /\ overlap' \in BOOLEAN /\ (overlap => overlap')
      /\ ~overlap' => \A q \in Procs \ {p} : Is(q, "idle")
      /\ UNCHANGED <<dir, disk, ino, power_lost>> /\ acked' = acked \ {k}
  BY DEF FilesIInv, FilesTypeOK, delete_key, Begins
<1>6. dir' \in [DirNames -> 0..Len(ino)] /\ \A f \in Renamed : dir'[f] = dir[f]
  BY <1>5 DEF FilesIInv, FilesTypeOK
<1> QED BY <1>2, <1>3, <1>4, <1>5, <1>6, BeginStep

\* The state store and the kits: nothing of the credentials changes.
LEMMA OtherBeginStep ==
  ASSUME FilesIInv, NEW p \in Procs, NEW job, NEW file, NEW at, ~Opened(p),
         \/ job = "kit" /\ file = "kit" /\ at = "create"
         \/ job = "save" /\ file \in {"config", "state"} /\ at = "remove",
         Begins(p, job, "none", file, Keys, at),
         UNCHANGED <<disk, ino, power_lost, acked>>,
         dir' \in [DirNames -> 0..Len(ino)], \A f \in Renamed : dir'[f] = dir[f]
  PROVE  FilesIInv'
<1> DEFINE c == [Idle EXCEPT !.at = at, !.job = job, !.key = "none", !.file = file, !.value = Keys]
<1>1. c \in Command /\ c.at = at /\ c.job = job /\ c.file = file
  BY DEF Command, Idle, Paths, Renamed
<1>2. proc' = [proc EXCEPT ![p] = c]
  BY DEF Begins
<1> HIDE DEF c
<1>3. /\ overlap' \in BOOLEAN /\ (overlap => overlap')
      /\ ~overlap' => \A q \in Procs \ {p} : Is(q, "idle")
  BY DEF FilesIInv, FilesTypeOK, Begins
<1> QED BY <1>1, <1>2, <1>3, BeginStep

\* FileStateStore::save begins.
LEMMA SaveStep ==
  ASSUME FilesIInv, NEW p \in Procs, save(p)
  PROVE  FilesIInv'
<1>1. ~Opened(p) /\ Begins(p, "save", "none", "config", Keys, "remove")
      /\ UNCHANGED <<dir, disk, ino, acked, power_lost>>
  BY DEF save, Opened, Is
<1>2. dir' \in [DirNames -> 0..Len(ino)] /\ \A f \in Renamed : dir'[f] = dir[f]
  BY <1>1 DEF FilesIInv, FilesTypeOK
<1> QED BY <1>1, <1>2, OtherBeginStep

\* create_private begins.
LEMMA KitStep ==
  ASSUME FilesIInv, NEW p \in Procs, create_private(p)
  PROVE  FilesIInv'
<1>1. /\ ~Opened(p) /\ Begins(p, "kit", "none", "kit", Keys, "create")
      /\ UNCHANGED <<disk, ino, acked, power_lost>>
      /\ dir' = dir \/ dir' = [dir EXCEPT !["kit"] = 0]
  BY DEF create_private, Opened, Is
<1>2. dir \in [DirNames -> 0..Len(ino)] /\ 0 \in 0..Len(ino)
  BY DEF FilesIInv, FilesTypeOK
<1>3. dir' \in [DirNames -> 0..Len(ino)] /\ \A f \in Renamed : dir'[f] = dir[f]
  BY <1>1, <1>2, Names
<1> QED BY <1>1, <1>3, OtherBeginStep

\* The temporary name is unlinked.
LEMMA RemoveStep ==
  ASSUME FilesIInv, NEW p \in Procs, remove_file(p)
  PROVE  FilesIInv'
<1> USE DEF FilesIInv
<1> DEFINE c == [proc[p] EXCEPT !.at = "create"]
<1>1. proc[p] \in Command /\ ~Is(p, "idle") /\ Exact(p) /\ Is(p, "remove")
  BY DEF remove_file, FilesTypeOK, Is
<1>2. /\ c \in Command /\ c.at = "create" /\ c.job = proc[p].job /\ c.key = proc[p].key
      /\ c.value = proc[p].value /\ c.file = proc[p].file
  BY <1>1 DEF Command
<1>3. proc' = [proc EXCEPT ![p] = c] /\ UNCHANGED <<disk, ino, acked, power_lost, overlap>>
      /\ dir' = [dir EXCEPT ![Target(p)] = 0]
  BY DEF remove_file, Goes, FilesTypeOK
<1> HIDE DEF c
<1>4. proc'[p] = c /\ proc[p].at = "remove"
  BY <1>1, <1>3 DEF FilesTypeOK, Is
<1>5. Exact(p)' /\ Ours(p)' /\ SyncedWhole'
  <2>1. ~Opened(p)' /\ ~Is(p, "sync")' /\ ~Is(p, "rename")' /\ ~Is(p, "idle")'
    BY <1>2, <1>4 DEF Opened, Is
  <2>2. \/ c.job \in {"set", "delete"} /\ c.file = "credentials"
        \/ c.job = "save" /\ c.file \in {"config", "state"}
    BY <1>1, <1>2, <1>4, Names DEF Exact, Is
  <2>3. Exact(p)'
    BY <1>1, <1>2, <1>4, <2>1, <2>2 DEF Exact
  <2>4. Ours(p)'
    BY <2>1 DEF Ours
  <2> QED BY <1>3, <2>3, <2>4 DEF SyncedWhole
<1>6. dir \in [DirNames -> 0..Len(ino)] /\ 0 \in 0..Len(ino) /\ Len(ino) \in Nat
  BY DEF FilesTypeOK
<1>7. dir' \in [DirNames -> 0..Len(ino)] /\ \A f \in Renamed : dir'[f] = dir[f]
  BY <1>1, <1>3, <1>6, TargetName, Names
<1>8. ino' \in Seq(File) /\ Len(ino) <= Len(ino')
  BY <1>3, <1>6 DEF FilesTypeOK
<1> QED BY <1>1, <1>2, <1>3, <1>5, <1>7, <1>8, OwnStep

\* The file is created, or the name is taken and the command ends.
LEMMA CreateStep ==
  ASSUME FilesIInv, NEW p \in Procs, new_private_file(p)
  PROVE  FilesIInv'
<1> USE DEF FilesIInv
<1>1. CASE Stops(p) /\ UNCHANGED <<dir, ino, disk, acked, power_lost, overlap>>
  BY <1>1, StopStep
<1>2. CASE /\ ino' = Append(ino, [value |-> {}, whole |-> FALSE, synced |-> FALSE])
           /\ dir' = [dir EXCEPT ![Target(p)] = Len(ino) + 1]
           /\ proc' = [proc EXCEPT ![p].at = "write", ![p].fd = Len(ino) + 1]
           /\ UNCHANGED <<disk, acked, power_lost, overlap>>
  <2> DEFINE c == [proc[p] EXCEPT !.at = "write", !.fd = Len(ino) + 1]
             new == [value |-> {}, whole |-> FALSE, synced |-> FALSE]
  <2>1. proc[p] \in Command /\ ~Is(p, "idle") /\ Exact(p) /\ proc[p].at = "create"
    BY DEF new_private_file, FilesTypeOK, Is
  <2>2. Len(ino) \in Nat /\ ino \in Seq(File) /\ new \in File /\ DOMAIN ino = 1..Len(ino)
    BY DEF FilesTypeOK, File
  <2>3. /\ c \in Command /\ c.at = "write" /\ c.job = proc[p].job /\ c.key = proc[p].key
        /\ c.value = proc[p].value /\ c.file = proc[p].file /\ c.fd = Len(ino) + 1
    <3> DEFINE next == Len(ino) + 1
    <3>1. next \in Nat
      BY <2>2
    <3> HIDE DEF next
    <3>2. [proc[p] EXCEPT !.at = "write", !.fd = next] \in Command
      BY <2>1, <3>1 DEF Command
    <3> QED BY <2>1, <3>2 DEF Command, next
  <2>4. proc' = [proc EXCEPT ![p] = c]
    BY <1>2 DEF FilesTypeOK
  <2>5. /\ ino' = Append(ino, new) /\ ino' \in Seq(File) /\ Len(ino') = Len(ino) + 1
        /\ ino'[Len(ino) + 1] = new /\ \A i \in DOMAIN ino : ino'[i] = ino[i]
        /\ DOMAIN ino' = 1..(Len(ino) + 1)
    BY <1>2, <2>2
  <2>6. ~new.synced
    OBVIOUS
  <2> HIDE DEF c, new
  <2>7. proc'[p] = c
    BY <2>1, <2>4 DEF FilesTypeOK
  <2>8. SyncedWhole'
    BY <2>2, <2>5, <2>6 DEF SyncedWhole
  <2>9. Exact(p)'
    <3>1. \/ c.job = "kit" /\ c.file = "kit"
          \/ c.job \in {"set", "delete"} /\ c.file = "credentials"
          \/ c.job = "save" /\ c.file \in {"config", "state"}
      BY <2>1, <2>3, Names DEF Exact, Is
    <3>2. c.job = "set" => c.key \in Keys
      BY <2>1, <2>3 DEF Exact
    <3> QED BY <2>2, <2>3, <2>5, <2>7, <3>1, <3>2 DEF Exact, Opened, Is
  <2>10. /\ dir \in [DirNames -> 0..Len(ino)] /\ Target(p) \in DirNames \ Renamed
    BY <2>1, TargetName DEF FilesTypeOK
  <2>11. /\ dir'[Target(p)] = Len(ino) + 1 /\ dir' \in [DirNames -> 0..Len(ino')]
         /\ \A f \in Renamed : dir'[f] = dir[f] /\ dir[f] # Len(ino) + 1 /\ dir[f] \in 0..Len(ino)
    BY <1>2, <2>2, <2>5, <2>10, Names
  <2>12. Ours(p)'
    <3>1. Target(p)' = Target(p)
      BY <2>3, <2>7 DEF Target
    <3> QED BY <2>3, <2>7, <2>11, <3>1 DEF Ours
  <2>13. \A f \in Renamed : dir[f] # 0 => ino'[dir[f]].value = ino[dir[f]].value
    BY <2>2, <2>5, <2>11
  <2>14. Len(ino) <= Len(ino')
    BY <2>2, <2>5
  <2> QED BY <1>2, <2>1, <2>3, <2>4, <2>5, <2>8, <2>9, <2>11, <2>12, <2>13, <2>14, OwnStep, ZenonT(30)
<1> QED BY <1>1, <1>2 DEF new_private_file

\* The value is written to the command's own file.
LEMMA WriteStep ==
  ASSUME FilesIInv, NEW p \in Procs, write_all(p)
  PROVE  FilesIInv'
<1> USE DEF FilesIInv
<1> DEFINE c == [proc[p] EXCEPT !.at = "sync"]
           i == proc[p].fd
           new == [ino[i] EXCEPT !.value = proc[p].value, !.whole = TRUE]
<1>1. proc[p] \in Command /\ ~Is(p, "idle") /\ Exact(p) /\ proc[p].at = "write" /\ Opened(p)
  BY DEF write_all, FilesTypeOK, Is, Opened
<1>2. Len(ino) \in Nat /\ ino \in Seq(File) /\ DOMAIN ino = 1..Len(ino) /\ i \in DOMAIN ino
  BY <1>1 DEF FilesTypeOK, Exact
<1>3. /\ c \in Command /\ c.at = "sync" /\ c.job = proc[p].job /\ c.key = proc[p].key
      /\ c.value = proc[p].value /\ c.file = proc[p].file /\ c.fd = i
  BY <1>1 DEF Command
<1>4. proc' = [proc EXCEPT ![p] = c] /\ UNCHANGED <<dir, disk, acked, power_lost, overlap>>
  BY DEF write_all, Goes, FilesTypeOK
<1>5. ino' = [ino EXCEPT ![i] = new]
  BY <1>2 DEF write_all
<1>6. ino[i] \in File /\ proc[p].value \in SUBSET Keys
  BY <1>1, <1>2 DEF Command
<1>7. new \in File /\ new.whole = TRUE /\ new.value = proc[p].value /\ new.synced = ino[i].synced
  BY <1>6 DEF File
<1> HIDE DEF c, new
<1>8. /\ ino' \in Seq(File) /\ Len(ino') = Len(ino) /\ DOMAIN ino' = DOMAIN ino
      /\ ino'[i] = new /\ \A j \in DOMAIN ino : j # i => ino'[j] = ino[j]
  BY <1>2, <1>5, <1>7
<1>9. proc'[p] = c
  BY <1>4 DEF FilesTypeOK
<1>10. SyncedWhole' /\ \A j \in DOMAIN ino : /\ ino[j].synced => ino'[j].synced
                                             /\ ino[j].whole => ino'[j].whole
  BY <1>7, <1>8 DEF SyncedWhole
<1>11. Exact(p)'
  <2>1. \/ c.job = "kit" /\ c.file = "kit"
        \/ c.job \in {"set", "delete"} /\ c.file = "credentials"
        \/ c.job = "save" /\ c.file \in {"config", "state"}
    BY <1>1, <1>3, Names DEF Exact, Is
  <2>2. c.job = "set" => c.key \in Keys
    BY <1>1, <1>3 DEF Exact
  <2> QED BY <1>2, <1>3, <1>7, <1>8, <1>9, <2>1, <2>2 DEF Exact, Opened, Is
<1>12. ASSUME ~overlap
       PROVE  Ours(p)' /\ \A f \in Renamed : dir[f] # 0 => ino'[dir[f]].value = ino[dir[f]].value
  <2>1. Target(p)' = Target(p)
    BY <1>3, <1>9 DEF Target
  <2>2. Ours(p) /\ Opened(p)
    BY <1>1, <1>12 DEF Alone
  <2>3. Ours(p)'
    BY <1>3, <1>4, <1>7, <1>8, <1>9, <2>1, <2>2 DEF Ours
  <2>4. \A f \in Renamed : dir[f] # i /\ dir[f] \in 0..Len(ino)
    BY <2>2, Names DEF Ours, FilesTypeOK
  <2> QED BY <1>2, <1>8, <2>3, <2>4
<1>13. Len(ino) <= Len(ino') /\ dir' \in [DirNames -> 0..Len(ino')]
  BY <1>2, <1>4, <1>8 DEF FilesTypeOK
<1> QED BY <1>1, <1>3, <1>4, <1>8, <1>10, <1>11, <1>12, <1>13, OwnStep

\* The file is synced; a kit is done then.
LEMMA SyncStep ==
  ASSUME FilesIInv, NEW p \in Procs, sync_all(p)
  PROVE  FilesIInv'
<1> USE DEF FilesIInv
<1> DEFINE go == [proc[p] EXCEPT !.at = "rename"]
           i == proc[p].fd
           new == [ino[i] EXCEPT !.synced = TRUE]
<1>1. /\ proc[p] \in Command /\ ~Is(p, "idle") /\ Exact(p) /\ proc[p].at = "sync" /\ Opened(p)
      /\ UNCHANGED <<dir, disk, acked, power_lost, overlap>>
  BY DEF sync_all, FilesTypeOK, Is, Opened
<1>2. Len(ino) \in Nat /\ ino \in Seq(File) /\ DOMAIN ino = 1..Len(ino) /\ i \in DOMAIN ino
  BY <1>1 DEF FilesTypeOK, Exact
<1>3. /\ go \in Command /\ go.at = "rename" /\ go.job = proc[p].job /\ go.key = proc[p].key
      /\ go.value = proc[p].value /\ go.file = proc[p].file /\ go.fd = i
  BY <1>1 DEF Command
<1>4. ino' = [ino EXCEPT ![i] = new]
  BY <1>2 DEF sync_all, sync
<1>5. ino[i] \in File /\ ino[i].whole
  BY <1>1, <1>2 DEF Exact, Is
<1>6. new \in File /\ new.whole = ino[i].whole /\ new.value = ino[i].value /\ new.synced = TRUE
  BY <1>5 DEF File
<1> HIDE DEF new
<1>7. /\ ino' \in Seq(File) /\ Len(ino') = Len(ino) /\ DOMAIN ino' = DOMAIN ino
      /\ ino'[i] = new /\ \A j \in DOMAIN ino : j # i => ino'[j] = ino[j]
  BY <1>2, <1>4, <1>6
<1>8. SyncedWhole' /\ \A j \in DOMAIN ino : /\ ino[j].synced => ino'[j].synced
                                            /\ ino[j].whole => ino'[j].whole
                                            /\ ino'[j].value = ino[j].value
  BY <1>5, <1>6, <1>7 DEF SyncedWhole
<1>9. Len(ino) <= Len(ino') /\ dir' \in [DirNames -> 0..Len(ino')]
      /\ \A f \in Renamed : dir[f] \in 0..Len(ino) /\ dir'[f] = dir[f]
  BY <1>1, <1>2, <1>7, Names DEF FilesTypeOK
<1>10. \A f \in Renamed : dir[f] # 0 => ino'[dir[f]].value = ino[dir[f]].value
  BY <1>2, <1>8, <1>9
<1>11. CASE proc[p].job = "kit"
  <2>1. proc' = [proc EXCEPT ![p] = Idle] /\ proc'[p] = Idle
    BY <1>11 DEF sync_all, Stops, FilesTypeOK
  <2>2. Exact(p)' /\ Ours(p)'
    BY <2>1, Names DEF Exact, Ours, Opened, Is
  <2> QED BY <1>1, <1>7, <1>8, <1>9, <1>10, <2>1, <2>2, Names, OwnStep
<1>12. CASE proc[p].job # "kit"
  <2>1. proc' = [proc EXCEPT ![p] = go]
    BY <1>12 DEF sync_all, Goes, FilesTypeOK
  <2> HIDE DEF go
  <2>2. proc'[p] = go
    BY <2>1 DEF FilesTypeOK
  <2>3. Exact(p)'
    <3>1. \/ go.job \in {"set", "delete"} /\ go.file = "credentials"
          \/ go.job = "save" /\ go.file \in {"config", "state"}
      BY <1>1, <1>3, <1>12, Names DEF Exact, Is
    <3>2. go.job = "set" => go.key \in Keys
      BY <1>1, <1>3 DEF Exact
    <3> QED BY <1>2, <1>3, <1>6, <1>7, <2>2, <3>1, <3>2 DEF Exact, Opened, Is
  <2>4. ASSUME ~overlap PROVE Ours(p)'
    <3>1. Target(p)' = Target(p)
      BY <1>3, <2>2 DEF Target
    <3>2. Ours(p)
      BY <2>4 DEF Alone
    <3> QED BY <1>1, <1>2, <1>3, <1>8, <1>9, <2>2, <3>1, <3>2 DEF Ours
  <2> QED BY <1>1, <1>3, <1>7, <1>8, <1>9, <1>10, <2>1, <2>3, <2>4, OwnStep
<1> QED BY <1>11, <1>12

\* The temporary name replaces the lasting one.
LEMMA RenameStep ==
  ASSUME FilesIInv, NEW p \in Procs, rename(p)
  PROVE  FilesIInv'
<1> USE DEF FilesIInv
<1> DEFINE i == proc[p].fd
           f == proc[p].file
           j == dir[Target(p)]
           new == [Idle EXCEPT !.at = "remove", !.job = "save", !.key = "none",
                               !.file = "state", !.value = Keys]
<1>1. /\ proc[p] \in Command /\ ~Is(p, "idle") /\ Exact(p) /\ proc[p].at = "rename" /\ Opened(p)
      /\ UNCHANGED <<disk, ino, power_lost>> /\ proc[p].job # "kit"
  BY DEF rename, FilesTypeOK, Is, Opened, Exact, Idle
<1>2. CASE Stops(p) /\ UNCHANGED <<dir, acked, overlap>>
  BY <1>1, <1>2, StopStep
<1>3. CASE /\ dir' = [dir EXCEPT ![f] = j, ![Target(p)] = 0]
           /\ acked' = IF proc[p].job = "set" THEN acked \cup {proc[p].key} ELSE acked
           /\ IF proc[p].file = "config" THEN Begins(p, "save", "none", "state", Keys, "remove")
              ELSE Stops(p) /\ UNCHANGED overlap
  <2>1. /\ f \in Renamed /\ f \in DirNames /\ Target(p) \in DirNames \ Renamed
        /\ f = "credentials" <=> proc[p].job \in {"set", "delete"}
    BY <1>1, TargetName, Names
  <2>2. new \in Command /\ new.at = "remove" /\ new.job = "save" /\ new.file = "state"
    BY DEF Command, Idle, Paths, Renamed
  <2> HIDE DEF new
  <2>3. /\ proc'[p] \in {Idle, new} /\ (\A q \in Procs \ {p} : proc'[q] = proc[q])
        /\ proc' \in [Procs -> Command]
        /\ overlap' \in BOOLEAN /\ (overlap => overlap')
    <3>1. CASE proc[p].file = "config"
      BY <1>3, <2>2, <3>1 DEF Begins, FilesTypeOK, new
    <3>2. CASE proc[p].file # "config"
      BY <1>3, <3>2, Names DEF Stops, FilesTypeOK
    <3> QED BY <3>1, <3>2
  <2>4. /\ dir \in [DirNames -> 0..Len(ino)] /\ 0 \in 0..Len(ino) /\ Len(ino) \in Nat
        /\ j \in 0..Len(ino)
    BY <2>1 DEF FilesTypeOK
  <2>5. /\ dir' \in [DirNames -> 0..Len(ino)] /\ dir'[f] = j
        /\ \A g \in Renamed \ {f} : dir'[g] = dir[g]
    BY <1>3, <2>1, <2>4, Names
  <2>6. acked' \subseteq Keys
    <3>1. proc[p].job = "set" => proc[p].key \in Keys
      BY <1>1 DEF Exact
    <3> QED BY <1>3, <3>1 DEF FilesTypeOK
  <2>7. FilesTypeOK'
    BY <1>1, <2>3, <2>5, <2>6 DEF FilesTypeOK
  <2>8. Exact(p)' /\ ~Opened(p)'
    BY <2>2, <2>3, Names DEF Exact, Opened, Is
  <2>9. \A q \in Procs \ {p} : Exact(q)'
    BY <1>1, <2>3 DEF Exact, Opened, Is
  <2>10. SyncedWhole'
    BY <1>1 DEF SyncedWhole
  <2>11. ASSUME ~overlap'
         PROVE  /\ Alone' /\ j = i
                /\ \A q \in Procs \ {p} : proc[q] = Idle
                /\ ino[i].value = proc[p].value
    <3>1. Alone
      BY <2>3, <2>11
    <3>2. \A q \in Procs \ {p} : proc[q] = Idle
      BY <1>1, <3>1 DEF Alone, OneAtATime, Exact, Is
    <3>3. j = i /\ ino[i].synced /\ ino[i].value = proc[p].value
      BY <1>1, <3>1 DEF Alone, Ours, Exact, Is
    <3>4. OneAtATime'
      BY <2>3, <3>2, Names DEF OneAtATime, Is
    <3>5. InPlace'
      BY <1>1, <2>5, <3>1, <3>3 DEF Alone, InPlace
    <3>6. \A q \in Procs : Ours(q)'
      BY <2>3, <2>8, <3>2, Names DEF Ours, Opened
    <3> QED BY <3>2, <3>3, <3>4, <3>5, <3>6 DEF Alone
  <2>12. ASSUME ~overlap', ~power_lost' PROVE Kept'
    <3>1. Kept /\ Carries(p)
      BY <1>1, <2>3, <2>12 DEF Kept
    <3>2. \A q \in Procs : Carries(q)'
      BY <2>2, <2>3, <2>11, <2>12, Names DEF Carries
    <3>3. CASE f = "credentials"
      <4>1. load' = proc[p].value
        <5>1. i \in 1..Len(ino) /\ i # 0
          BY <1>1, <2>4 DEF Exact, FilesTypeOK
        <5>2. dir'["credentials"] = i /\ ino' = ino /\ ino[i].value = proc[p].value
          BY <1>1, <2>5, <2>11, <2>12, <3>3
        <5> QED BY <5>1, <5>2 DEF load
      <4>2. acked' \subseteq proc[p].value
        BY <1>3, <2>1, <3>1, <3>3 DEF Carries
      <4> QED BY <3>2, <4>1, <4>2 DEF Kept
    <3>4. CASE f # "credentials"
      <4>1. dir'["credentials"] = dir["credentials"] /\ acked' = acked
        BY <1>3, <2>1, <2>5, <3>4 DEF Renamed
      <4>2. load' = load
        BY <1>1, <4>1 DEF load
      <4> QED BY <3>1, <3>2, <4>1, <4>2 DEF Kept
    <3> QED BY <3>3, <3>4
  <2> QED BY <2>7, <2>8, <2>9, <2>10, <2>11, <2>12
<1> QED BY <1>2, <1>3 DEF rename

\* The directory is written back, or the power fails.
LEMMA DiskStep ==
  ASSUME FilesIInv, write_back \/ power_fails
  PROVE  FilesIInv'
<1> USE DEF FilesIInv
<1>1. CASE write_back
  <2>1. disk' = dir /\ UNCHANGED <<dir, ino, proc, acked, power_lost, overlap>>
    BY <1>1 DEF write_back
  <2>2. FilesTypeOK' /\ SyncedWhole' /\ \A p \in Procs : Exact(p)'
    BY <2>1 DEF FilesTypeOK, SyncedWhole, Exact, Opened, Is
  <2>3. ASSUME ~overlap' PROVE Alone'
    BY <2>1, <2>3 DEF Alone, OneAtATime, InPlace, Ours, Opened, Is, Target
  <2>4. ASSUME ~overlap', ~power_lost' PROVE Kept'
    BY <2>1, <2>4 DEF Kept, Carries, load
  <2> QED BY <2>2, <2>3, <2>4
<1>2. CASE power_fails
  <2> DEFINE none == [value |-> {}, whole |-> FALSE, synced |-> FALSE]
  <2>1. /\ dir' = disk /\ proc' = [p \in Procs |-> Idle] /\ power_lost' = TRUE
        /\ UNCHANGED <<disk, acked, overlap>>
        /\ ino' = [i \in DOMAIN ino |-> IF ino[i].synced THEN ino[i] ELSE none]
    BY <1>2 DEF power_fails, Files
  <2>2. none \in File /\ ~none.synced
    BY DEF File
  <2> HIDE DEF none
  <2>3. Len(ino) \in Nat /\ DOMAIN ino = 1..Len(ino) /\ ino \in Seq(File)
    BY DEF FilesTypeOK
  <2>4. ino' \in Seq(File) /\ Len(ino') = Len(ino) /\ DOMAIN ino' = DOMAIN ino
    <3>1. ino' \in [1..Len(ino) -> File]
      BY <2>1, <2>2, <2>3
    <3> QED BY <2>3, <3>1
  <2>5. FilesTypeOK'
    BY <2>1, <2>4, Names DEF FilesTypeOK
  <2>6. \A p \in Procs : Exact(p)' /\ Is(p, "idle")' /\ ~Opened(p)'
    BY <2>1, Names DEF Exact, Opened, Is
  <2>7. SyncedWhole'
    BY <2>1, <2>2, <2>4 DEF SyncedWhole
  <2>8. ASSUME ~overlap' PROVE Alone'
    <3>1. \A f \in Renamed : disk[f] \in 0..Len(ino) /\ (disk[f] # 0 => ino[disk[f]].synced)
      BY <2>1, <2>8, Names DEF FilesTypeOK, Alone, InPlace
    <3>2. InPlace'
      BY <2>1, <2>3, <3>1 DEF InPlace
    <3> QED BY <2>6, <3>2 DEF Alone, OneAtATime, Ours
  <2> QED BY <2>1, <2>5, <2>6, <2>7, <2>8
<1> QED BY <1>1, <1>2

\* Every step preserves the invariant.
LEMMA Preserved == FilesIInv /\ [FilesNext]_filevars => FilesIInv'
<1> SUFFICES ASSUME FilesIInv, [FilesNext]_filevars PROVE FilesIInv'
  OBVIOUS
<1>1. CASE UNCHANGED filevars
  BY <1>1 DEF FilesIInv, filevars, FilesTypeOK, Exact, SyncedWhole, Alone, OneAtATime, InPlace, Ours, Opened,
              Is, Target, Kept, Carries, load
<1>2. ASSUME NEW p \in Procs, NEW k \in Keys, set_key(p, k) \/ delete_key(p, k)
      PROVE  FilesIInv'
  BY <1>2, SetStep, DeleteStep
<1>3. ASSUME NEW p \in Procs,
             \/ save(p) \/ create_private(p) \/ remove_file(p) \/ new_private_file(p)
             \/ write_all(p) \/ sync_all(p) \/ rename(p) \/ killed(p)
      PROVE  FilesIInv'
  BY <1>3, SaveStep, KitStep, RemoveStep, CreateStep, WriteStep, SyncStep, RenameStep, StopStep
     DEF killed
<1>4. CASE write_back \/ power_fails
  BY <1>4, DiskStep
<1> QED BY <1>1, <1>2, <1>3, <1>4 DEF FilesNext

-----------------------------------------------------------------------------
(* Theorems. *)

\* The inductive invariant holds in every reachable state.
THEOREM FilesInvariant == FilesSpec => []FilesIInv
  BY Initially, Preserved, PTL DEF FilesSpec

\* While commands run one at a time, a load never meets a part of a file,
\* whatever was killed and however often the power failed: write_private's
\* sync before its rename.
THEOREM FilesWholeAlone == FilesSpec => []WholeAlone
<1>1. FilesIInv => WholeAlone
  <2> SUFFICES ASSUME FilesIInv, ~overlap, NEW f \in Renamed, dir[f] # 0
               PROVE  ino[dir[f]].whole
    BY DEF WholeAlone, AlwaysWhole
  <2>1. dir[f] \in 1..Len(ino) /\ DOMAIN ino = 1..Len(ino)
    BY Names DEF FilesIInv, FilesTypeOK
  <2> QED BY <2>1 DEF FilesIInv, SyncedWhole, Alone, InPlace
<1> QED BY <1>1, FilesInvariant, PTL

\* While commands run one at a time and the power does not fail, a key whose
\* set returned is in the credentials file until its deletion.
THEOREM FilesKeysKept == FilesSpec => []KeysKept
<1>1. FilesIInv => KeysKept
  BY DEF FilesIInv, Kept, KeysKept
<1> QED BY <1>1, FilesInvariant, PTL

-----------------------------------------------------------------------------
(***************************************************************************)
(* UiSession.                                                              *)
(*                                                                         *)
(* `gv ui` implements TerminalDecides: every step of UiSession is a step of *)
(* TerminalDecides, or leaves what it speaks of alone.                     *)
(*                                                                         *)
(* The invariant it rests on: what waits for the terminal, and a token     *)
(* that waits to be taken, were asked for by the session that is open (so  *)
(* App::forget has reached every other); and the link that can be          *)
(* exchanged is newer than every session there was.                        *)
(***************************************************************************)

\* What is left to happen.
Work == [enters : Nat, lines : Nat, asks : Nat, copies : Nat, versions : Nat]

\* What is left of the workload, and what was asked, stay within MaxAsks.
Counted ==
    /\ plan \in Work
    /\ asked \in Seq(Nat)
    /\ Len(asked) + plan.asks <= MaxAsks

\* A session's number is that of a link printed before the one that is good.
SessionsGrow ==
    /\ links \in Nat
    /\ \A i \in DOMAIN asked : asked[i] <= links
    /\ link.n # 0 => browser.n < link.n /\ \A i \in DOMAIN asked : asked[i] < link.n

\* Whatever waits was asked for by the session that is open.
OfTheSession ==
    /\ pending.id # 0 => browser.n # 0 /\ asked[pending.id] = browser.n
    /\ handover # 0 => browser.n # 0 /\ asked[handover] = browser.n

IInv == TypeOK /\ Counted /\ SessionsGrow /\ OfTheSession /\ NoBlindOverwrite

\* A step of the promise, or none.
PromiseStep == Promise!Next \/ UNCHANGED Promise!vars

\* The part of TypeOK that is about the clipboard.
ClipOK ==
    /\ due \in [Secrets \cup Ids -> {"no", "later", "now"}]
    /\ clipboard \in DOMAIN due \cup {Empty, Own} /\ clearing \subseteq DOMAIN due

-----------------------------------------------------------------------------
(* Lemmas about the handlers' pieces. *)

\* Whichever entries are taken out of what is due, to be cleared.
LEMMA DrainOK ==
  ASSUME ClipOK, NEW vs, vs \subseteq DOMAIN due, drain(vs)
  PROVE  ClipOK'
BY DEF ClipOK, drain

\* Copying a value.
LEMMA CopyOK ==
  ASSUME ClipOK, NEW v \in Secrets \cup Ids, copy(v)
  PROVE  ClipOK'
BY DEF ClipOK, copy

\* What stands for no session, no link and no question is well typed.
LEMMA BlankOK ==
  ASSUME IInv
  PROVE  /\ None \in [n : 0..links, old : BOOLEAN] /\ None.n = 0
         /\ NoAsk \in [id : 0..Len(asked), op : Ops \cup {"mint"}, old : BOOLEAN]
         /\ NoAsk.id = 0
<1>1. links \in Nat /\ Len(asked) \in Nat
  BY DEF IInv, SessionsGrow, Counted
<1> QED BY <1>1 DEF None, NoAsk

\* A workload is counted down.
LEMMA WorkOK ==
  ASSUME plan \in Work,
         \/ plan.enters > 0 /\ plan' = [plan EXCEPT !.enters = @ - 1]
         \/ plan.lines > 0 /\ plan' = [plan EXCEPT !.lines = @ - 1]
         \/ plan.copies > 0 /\ plan' = [plan EXCEPT !.copies = @ - 1]
         \/ plan.versions > 0 /\ plan' = [plan EXCEPT !.versions = @ - 1]
  PROVE  plan' \in Work /\ plan'.asks = plan.asks
BY DEF Work

\* A session that ends takes with it what waits and what was not taken.
LEMMA EndOK ==
  ASSUME IInv, end_session, UNCHANGED ghosts
  PROVE  /\ PromiseStep /\ OfTheSession'
         /\ browser' \in [n : 0..links, old : BOOLEAN] /\ browser'.n <= browser.n
         /\ pending' \in [id : 0..Len(asked), op : Ops \cup {"mint"}, old : BOOLEAN]
         /\ outcomes' \in [Ids -> Outcome] /\ handover' \in 0..Len(asked)
<1> USE DEF IInv, TypeOK, SessionsGrow, Counted
<1>1. CASE browser.n = 0
  <2>1. UNCHANGED <<browser, pending, handover, outcomes, asked, acts, takes>>
    BY <1>1 DEF end_session, question, ghosts
  <2> QED BY <2>1 DEF PromiseStep, Promise!vars, OfTheSession
<1>2. CASE browser.n # 0
  <2>1. /\ browser' = None /\ pending' = NoAsk /\ handover' = 0
        /\ outcomes' = [i \in Ids |-> "none"] /\ UNCHANGED <<asked, acts, takes>>
    BY <1>2 DEF end_session, forget, ghosts
  <2>2. Promise!End
    BY <1>2, <2>1 DEF Promise!End, None, NoAsk
  <2> QED BY <1>2, <2>1, <2>2 DEF PromiseStep, Promise!Next, OfTheSession, None, NoAsk, Outcome
<1> QED BY <1>1, <1>2

-----------------------------------------------------------------------------
(* One lemma per step of the loop. *)

\* A line from the terminal: an answer, a new link, or nothing.
LEMMA LineStep ==
  ASSUME IInv, on_line
  PROVE  IInv' /\ PromiseStep
<1> USE DEF IInv, NoBlindOverwrite, Waits
<1>1. UNCHANGED <<clipboard, due, clearing, lost, plan>>
      /\ pc' = pc
  BY DEF on_line, clip, vault
<1>2. CASE pending.id # 0
  <2>1. /\ pending' = NoAsk /\ UNCHANGED <<link, links, browser, asked, takes>>
        /\ Head(term) = "y" => perform(pending)
        /\ Head(term) # "y" => /\ outcomes' = [outcomes EXCEPT ![pending.id] = "cancelled"]
                               /\ UNCHANGED <<handover, acts>>
    BY <1>2 DEF on_line, session, ghosts, perform
  <2>2. /\ outcomes' \in [Ids -> Outcome]
        /\ handover' \in {handover, pending.id}
        /\ \/ acts' = Append(acts, pending.id)
           \/ UNCHANGED <<acts, handover>>
    BY <2>1 DEF perform, TypeOK, Outcome
  <2>3. IInv'
    BY <1>1, <1>2, <2>1, <2>2 DEF TypeOK, Counted, SessionsGrow, OfTheSession, NoAsk
  <2>4. Promise!Act \/ Promise!Drop
    BY <1>2, <2>1, <2>2 DEF Promise!Act, Promise!Drop, OfTheSession, NoAsk
  <2> QED BY <2>3, <2>4 DEF PromiseStep, Promise!Next
<1>3. CASE pending.id = 0 /\ Head(term) = ""
  <2>1. new_link /\ UNCHANGED ghosts
    BY <1>3 DEF on_line
  <2>2. /\ PromiseStep /\ OfTheSession'
        /\ browser' \in [n : 0..links, old : BOOLEAN] /\ browser'.n <= browser.n
        /\ pending' \in [id : 0..Len(asked), op : Ops \cup {"mint"}, old : BOOLEAN]
        /\ outcomes' \in [Ids -> Outcome] /\ handover' \in 0..Len(asked)
    BY <2>1, EndOK DEF new_link
  <2>3. links' = links + 1 /\ link' = Fresh(links + 1) /\ UNCHANGED asked
    BY <2>1 DEF new_link, ghosts
  <2>4. TypeOK'
    BY <1>1, <2>2, <2>3 DEF TypeOK, SessionsGrow, Fresh
  <2>5. SessionsGrow'
    <3>1. \A i \in DOMAIN asked : asked[i] \in Nat /\ asked[i] < links + 1
      BY DEF SessionsGrow, Counted
    <3>2. browser'.n < links + 1 /\ link'.n = links + 1 /\ links + 1 \in Nat
      BY <2>2, <2>3 DEF SessionsGrow, Fresh
    <3> QED BY <2>3, <3>1, <3>2 DEF SessionsGrow
  <2> QED BY <1>1, <2>2, <2>3, <2>4, <2>5 DEF Counted
<1>4. CASE pending.id = 0 /\ Head(term) # ""
  <2>1. UNCHANGED <<session, question, ghosts>>
    BY <1>4 DEF on_line
  <2> QED BY <1>1, <2>1 DEF session, question, ghosts, PromiseStep, Promise!vars,
                           TypeOK, Counted, SessionsGrow, OfTheSession
<1> QED BY <1>2, <1>3, <1>4

\* What has become old goes.
LEMMA TickStep ==
  ASSUME IInv, tick
  PROVE  IInv' /\ PromiseStep
<1> USE DEF IInv, NoBlindOverwrite, Waits
<1>1. /\ UNCHANGED <<links, lost, plan, ghosts, asked, acts, takes>> /\ pc' \in {"clear", "serve"}
      /\ link' \in {None, link}
  BY DEF tick, vault, ghosts
<1>2. ClipOK'
  BY DrainOK DEF tick, ClipOK, TypeOK
<1>3. /\ PromiseStep /\ OfTheSession'
      /\ browser' \in [n : 0..links, old : BOOLEAN] /\ browser'.n <= browser.n
      /\ pending' \in [id : 0..Len(asked), op : Ops \cup {"mint"}, old : BOOLEAN]
      /\ outcomes' \in [Ids -> Outcome] /\ handover' \in 0..Len(asked)
  <2>1. CASE browser.old
    BY <1>1, <2>1, EndOK DEF tick
  <2>2. CASE ~browser.old
    <3>1. /\ UNCHANGED <<browser, handover>> /\ outcomes' \in [Ids -> Outcome]
          /\ pending' = NoAsk \/ pending' = pending
      BY <2>2 DEF tick, TypeOK, Outcome
    <3>2. PromiseStep
      BY <1>1, <3>1 DEF PromiseStep, Promise!vars, Promise!Next, Promise!Drop, NoAsk
    <3>3. OfTheSession'
      BY <1>1, <3>1 DEF OfTheSession, NoAsk
    <3>4. pending' \in [id : 0..Len(asked), op : Ops \cup {"mint"}, old : BOOLEAN]
      BY <3>1, BlankOK DEF TypeOK
    <3>5. browser \in [n : 0..links, old : BOOLEAN] /\ handover \in 0..Len(asked) /\ links \in Nat
      BY DEF TypeOK, SessionsGrow
    <3> QED BY <3>1, <3>2, <3>3, <3>4, <3>5
  <2> QED BY <2>1, <2>2
<1>4. TypeOK'
  <2>1. link' \in [n : 0..links, old : BOOLEAN]
    BY <1>1, BlankOK DEF TypeOK
  <2> QED BY <1>1, <1>2, <1>3, <2>1 DEF TypeOK, ClipOK
<1>5. SessionsGrow'
  BY <1>1, <1>3 DEF SessionsGrow, None, TypeOK, Counted
<1> QED BY <1>1, <1>3, <1>4, <1>5 DEF Counted

\* The loop is left.
LEMMA FinishStep ==
  ASSUME IInv, finish
  PROVE  IInv' /\ PromiseStep
<1> USE DEF IInv, NoBlindOverwrite, Waits
<1>1. /\ UNCHANGED <<link, links, lost, plan, ghosts, asked>> /\ pc' \in {"last_clear", "stopped"}
  BY DEF finish, vault, ghosts
<1>2. ClipOK'
  BY DrainOK DEF finish, ClipOK, TypeOK
<1>3. /\ PromiseStep /\ OfTheSession'
      /\ browser' \in [n : 0..links, old : BOOLEAN] /\ browser'.n <= browser.n
      /\ pending' \in [id : 0..Len(asked), op : Ops \cup {"mint"}, old : BOOLEAN]
      /\ outcomes' \in [Ids -> Outcome] /\ handover' \in 0..Len(asked)
  BY <1>1, EndOK DEF finish
<1>4. TypeOK'
  BY <1>1, <1>2, <1>3 DEF TypeOK, ClipOK
<1>5. SessionsGrow'
  BY <1>1, <1>3 DEF SessionsGrow, TypeOK, Counted
<1> QED BY <1>1, <1>3, <1>4, <1>5 DEF Counted

\* Moves of the loop, and other steps that leave sessions, questions and
\* ghosts alone.
LEMMA QuietStep ==
  ASSUME IInv, UNCHANGED <<link, links, browser, pending, outcomes, handover, asked, acts, takes, lost>>,
         pc' \in {"head", "lines", "tick", "serve", "stopped"} \cup Waits, ClipOK',
         plan' \in Work,
         plan'.asks = plan.asks
  PROVE  IInv' /\ PromiseStep
<1>1. PromiseStep
  BY DEF PromiseStep, Promise!vars
<1>2. TypeOK'
  BY DEF IInv, TypeOK, ClipOK
<1>3. Counted' /\ SessionsGrow' /\ OfTheSession' /\ NoBlindOverwrite'
  BY DEF IInv, Counted, SessionsGrow, OfTheSession, NoBlindOverwrite
<1> QED BY <1>1, <1>2, <1>3 DEF IInv

\* A code is exchanged for a session newer than every other, which finds
\* nothing waiting.
LEMMA ExchangeStep ==
  ASSUME IInv, NEW code, exchange(code), pc' = "answer"
  PROVE  IInv' /\ PromiseStep
<1> USE DEF IInv, NoBlindOverwrite, Waits
<1>1. UNCHANGED <<links, clipboard, due, clearing, lost, plan, asked, acts, takes>>
  BY DEF exchange, clip, vault, ghosts
<1>2. CASE link.n # 0 /\ code = link.n
  <2>1. link' = None /\ browser' = Fresh(link.n)
    BY <1>2 DEF exchange
  <2>2. /\ pending'.id = 0 /\ handover' = 0 /\ outcomes' \in [Ids -> Outcome]
        /\ pending' \in [id : 0..Len(asked), op : Ops \cup {"mint"}, old : BOOLEAN]
    BY <1>2, BlankOK DEF exchange, forget, question, OfTheSession, TypeOK, Outcome
  <2>3. link.n \in Nat /\ link.n > browser.n /\ \A i \in DOMAIN asked : link.n > asked[i]
    BY <1>2 DEF TypeOK, SessionsGrow, Counted
  <2>4. Promise!Open
    BY <1>1, <2>1, <2>2, <2>3 DEF Promise!Open, Fresh
  <2>5. browser' \in [n : 0..links, old : BOOLEAN] /\ link' \in [n : 0..links, old : BOOLEAN]
    BY <2>1, BlankOK DEF TypeOK, Fresh, SessionsGrow
  <2>6. TypeOK'
    BY <1>1, <2>2, <2>5 DEF TypeOK, Counted
  <2>7. SessionsGrow' /\ Counted' /\ OfTheSession'
    BY <1>1, <2>1, <2>2, BlankOK DEF SessionsGrow, Counted, OfTheSession
  <2> QED BY <1>1, <2>4, <2>6, <2>7 DEF PromiseStep, Promise!Next
<1>3. CASE ~(link.n # 0 /\ code = link.n)
  <2>1. UNCHANGED <<link, browser, pending, outcomes, handover>>
    BY <1>3 DEF exchange, question
  <2> QED BY <1>1, <2>1, QuietStep DEF TypeOK, ClipOK, Counted
<1> QED BY <1>2, <1>3

\* The pages that write the record write only over what they have shown.
LEMMA WriteKeeps ==
  ASSUME ~lost, NEW e \in {0, shown},
         write(e) \/ delete(shown)
  PROVE  ~lost'
BY DEF write, delete, put_version, answered, vault, Live

\* A request of the open session, other than locking it.
LEMMA HandleStep ==
  ASSUME IInv, NEW r \in Requests, route(r) = "handle", browser' = Fresh(browser.n),
         IF r.method = "GET" THEN get(r) ELSE post(r),
         UNCHANGED <<link, links>>, pc' = "answer"
  PROVE  IInv' /\ PromiseStep
<1> USE DEF IInv, NoBlindOverwrite, Waits
<1>1. browser.n # 0 /\ browser'.n = browser.n /\ browser' \in [n : 0..links, old : BOOLEAN]
  BY DEF route, Fresh, TypeOK
<1>2. CASE /\ UNCHANGED <<question, asked, acts, takes>> /\ ClipOK' /\ ~lost'
           /\ plan' \in Work
           /\ plan'.asks = plan.asks
  <2>1. UNCHANGED <<pending, outcomes, handover>>
    BY <1>2 DEF question
  <2>2. TypeOK'
    BY <1>1, <1>2, <2>1 DEF TypeOK, ClipOK
  <2>3. Counted' /\ SessionsGrow' /\ OfTheSession'
    BY <1>1, <1>2, <2>1 DEF Counted, SessionsGrow, OfTheSession
  <2>4. PromiseStep
    BY <1>1, <1>2, <2>1 DEF PromiseStep, Promise!vars
  <2> QED BY <1>2, <2>2, <2>3, <2>4
<1>3. CASE answered
  <2>1. UNCHANGED <<question, asked, acts, takes, plan, lost, due, clipboard, clearing>>
    BY <1>3 DEF answered, clip, vault, ghosts
  <2> QED BY <1>2, <2>1 DEF TypeOK, ClipOK, Counted
<1>4. CASE get(r)
  <2>1. UNCHANGED <<question, asked, acts, takes, plan, lost, due, clipboard, clearing>>
    BY <1>4 DEF get, pages, confirm_status, answered, clip, vault, ghosts
  <2> QED BY <1>2, <2>1 DEF TypeOK, ClipOK, Counted
<1>5. CASE copy_secret
  <2>1. UNCHANGED <<question, asked, acts, takes, lost>> /\ plan' = [plan EXCEPT !.copies = @ - 1]
        /\ plan.copies > 0
    BY <1>5 DEF copy_secret, vault, ghosts
  <2>2. ClipOK'
    BY <1>5, CopyOK DEF copy_secret, TypeOK, ClipOK
  <2>3. plan' \in Work /\ plan'.asks = plan.asks
    BY <2>1, WorkOK DEF Counted
  <2> QED BY <1>2, <2>1, <2>2, <2>3
<1>6. ASSUME NEW live \in BOOLEAN, put_version(live), ~lost' PROVE IInv' /\ PromiseStep
  <2>1. /\ UNCHANGED <<question, asked, acts, takes, due, clipboard, clearing>> /\ plan.versions > 0
        /\ plan' = [plan EXCEPT !.versions = @ - 1]
    BY <1>6 DEF put_version, clip, ghosts
  <2>2. /\ plan' \in Work
        /\ plan'.asks = plan.asks
    BY <2>1, WorkOK DEF Counted
  <2>3. ClipOK'
    BY <2>1 DEF TypeOK, ClipOK
  <2> QED BY <1>2, <1>6, <2>1, <2>2, <2>3
<1>7. ASSUME NEW e \in {0, shown}, write(e) PROVE IInv' /\ PromiseStep
  BY <1>3, <1>6, <1>7, WriteKeeps DEF write
<1>8. CASE delete(shown)
  BY <1>3, <1>6, <1>8, WriteKeeps DEF delete
<1>9. ASSUME NEW v, NEW e \in {0, shown}, restore(v, e) PROVE IInv' /\ PromiseStep
  BY <1>3, <1>7, <1>9 DEF restore
<1>10. ASSUME NEW op \in Ops, ask(op) PROVE IInv' /\ PromiseStep
  <2>1. CASE pending.id # 0 \/ plan.asks = 0
    BY <1>3, <1>10, <2>1 DEF ask
  <2>2. CASE pending.id = 0 /\ plan.asks # 0
    <3> DEFINE id == Len(asked) + 1
    <3>1. /\ plan' = [plan EXCEPT !.asks = @ - 1] /\ asked' = Append(asked, browser.n)
          /\ pending' = [id |-> id, op |-> op, old |-> FALSE]
          /\ outcomes' = [outcomes EXCEPT ![id] = "waiting"]
          /\ UNCHANGED <<handover, clipboard, due, clearing, lost, acts, takes>>
      BY <1>10, <2>2 DEF ask, clip, vault
    <3>2. /\ Len(asked') = id /\ id \in Nat /\ asked' \in Seq(Nat)
          /\ asked'[id] = browser.n /\ \A i \in DOMAIN asked : asked'[i] = asked[i]
          /\ \A i \in DOMAIN asked' : i = id \/ i \in DOMAIN asked
          /\ Len(asked) \in Nat /\ DOMAIN asked = 1..Len(asked)
      BY <1>1, <3>1 DEF Counted, TypeOK, SessionsGrow
    <3>3. TypeOK'
      <4>1. pending' \in [id : 0..id, op : Ops \cup {"mint"}, old : BOOLEAN]
        BY <3>1, <3>2
      <4>2. outcomes' \in [Ids -> Outcome] /\ handover' \in 0..id
        <5>1. "waiting" \in Outcome
          BY DEF Outcome
        <5>2. outcomes' \in [Ids -> Outcome]
          BY <3>1, <5>1 DEF TypeOK
        <5> QED BY <3>1, <3>2, <5>2 DEF TypeOK
      <4> HIDE DEF id
      <4> QED BY <1>1, <3>1, <3>2, <4>1, <4>2 DEF TypeOK
    <3>4. Counted'
      BY <2>2, <3>1, <3>2, SMTT(30) DEF Counted, Work
    <3>5. SessionsGrow'
      BY <1>1, <3>1, <3>2 DEF SessionsGrow, TypeOK
    <3>6. OfTheSession'
      BY <1>1, <3>1, <3>2 DEF OfTheSession, TypeOK
    <3>7. Promise!Ask
      BY <1>1, <2>2, <3>1, <3>2 DEF Promise!Ask
    <3> QED BY <3>1, <3>3, <3>4, <3>5, <3>6, <3>7 DEF PromiseStep, Promise!Next
  <2> QED BY <2>1, <2>2 DEF TypeOK, Counted
<1>11. ASSUME NEW i \in DOMAIN asked, hand_over(r.path, i) PROVE IInv' /\ PromiseStep
  <2>1. CASE answered
    BY <1>3, <2>1
  <2>2. CASE /\ handover # 0 /\ handover = i /\ handover' = 0
             /\ takes' = IF r.path = "discard_token" THEN takes ELSE Append(takes, i)
             /\ IF r.path = "copy_token" THEN copy(i) ELSE UNCHANGED clip
             /\ UNCHANGED <<pending, outcomes, vault, plan, asked, acts>>
    <3>1. i \in Ids /\ UNCHANGED lost
      <4>1. MaxAsks \in Nat /\ i \in 1..Len(asked) /\ Len(asked) \in Nat /\ plan.asks \in Nat
        BY UiAssumption DEF Counted, Work
      <4> QED BY <2>2, <4>1 DEF Counted, Ids, vault
    <3>2. ClipOK'
      BY <2>2, <3>1, CopyOK DEF TypeOK, ClipOK, clip
    <3>3. TypeOK'
      BY <1>1, <2>2, <3>2 DEF TypeOK, ClipOK, Counted
    <3>4. Counted' /\ SessionsGrow' /\ OfTheSession'
      BY <1>1, <2>2 DEF Counted, SessionsGrow, OfTheSession
    <3>5. Promise!Take \/ Promise!Discard
      BY <1>1, <2>2 DEF Promise!Take, Promise!Discard, OfTheSession
    <3> QED BY <3>1, <3>3, <3>4, <3>5 DEF PromiseStep, Promise!Next
  <2> QED BY <1>11, <2>1, <2>2 DEF hand_over
<1> QED BY <1>3, <1>4, <1>5, <1>7, <1>8, <1>9, <1>10, <1>11 DEF post, reveal

\* Whatever a browser sends.
LEMMA ServeStep ==
  ASSUME IInv, NEW r \in Requests, serve(r)
  PROVE  IInv' /\ PromiseStep
<1> USE DEF Waits
<1>1. pc' = "answer"
  BY DEF serve
<1>2. CASE route(r) = "exchange"
  BY <1>1, <1>2, ExchangeStep DEF serve
<1>3. CASE route(r) = "handle" /\ (r.method # "POST" \/ r.path # "lock")
  BY <1>1, <1>3, HandleStep DEF serve
<1>4. CASE route(r) = "handle" /\ r.method = "POST" /\ r.path = "lock"
  <2>1. end_session /\ UNCHANGED <<link, links, ghosts, clipboard, due, clearing, lost, plan, asked>>
    BY <1>4 DEF serve, clip, vault, ghosts
  <2>2. /\ PromiseStep /\ OfTheSession'
        /\ browser' \in [n : 0..links, old : BOOLEAN] /\ browser'.n <= browser.n
        /\ pending' \in [id : 0..Len(asked), op : Ops \cup {"mint"}, old : BOOLEAN]
        /\ outcomes' \in [Ids -> Outcome] /\ handover' \in 0..Len(asked)
    BY <2>1, EndOK
  <2>3. TypeOK'
    BY <1>1, <2>1, <2>2 DEF IInv, TypeOK
  <2>4. SessionsGrow'
    BY <2>1, <2>2 DEF IInv, SessionsGrow, TypeOK, Counted
  <2> QED BY <2>1, <2>2, <2>3, <2>4 DEF IInv, Counted, NoBlindOverwrite
<1>5. CASE route(r) \notin {"exchange", "handle"}
  <2>1. UNCHANGED session /\ answered
    BY <1>5 DEF serve
  <2>2. UNCHANGED <<link, links, browser, pending, outcomes, handover, asked, acts, takes, lost,
                    clipboard, due, clearing, plan>>
    BY <2>1 DEF session, answered, question, clip, vault, ghosts
  <2> QED BY <1>1, <2>2, QuietStep DEF IInv, TypeOK, Waits, ClipOK, Counted
<1> QED BY <1>2, <1>3, <1>4, <1>5

\* The person at the terminal, the clock, other programs, other clients, and
\* the ends of what the loop waits for.
LEMMA AroundStep ==
  ASSUME IInv,
         \/ \E text \in {"", "y", "n"} : type_line(text)
         \/ link_ages \/ session_ages \/ question_ages
         \/ \E v \in DOMAIN due : copy_ages(v)
         \/ copied_over \/ quit \/ run \/ recv_timeout \/ refused \/ respond \/ clear_if
         \/ \E live \in BOOLEAN : written_over(live)
  PROVE  IInv' /\ PromiseStep
<1> USE DEF IInv, Waits
<1>1. ClipOK /\ plan \in Work
  BY DEF TypeOK, ClipOK, Counted
<1>2. ASSUME NEW text \in {"", "y", "n"}, type_line(text) PROVE IInv' /\ PromiseStep
  <2>1. /\ UNCHANGED <<pc, link, links, browser, pending, outcomes, handover, asked, acts, takes,
                       lost, clipboard, due, clearing>>
    BY <1>2 DEF type_line, session, question, clip, vault, ghosts
  <2>2. /\ plan' \in Work
        /\ plan'.asks = plan.asks
    <3>1. CASE text = ""
      BY <1>1, <1>2, <3>1, WorkOK DEF type_line
    <3>2. CASE text # ""
      BY <1>1, <1>2, <3>2, WorkOK DEF type_line
    <3> QED BY <3>1, <3>2
  <2> QED BY <1>1, <2>1, <2>2, QuietStep DEF TypeOK, ClipOK
<1>3. CASE link_ages
  <2>0. link' = [link EXCEPT !.old = TRUE]
    BY <1>3 DEF link_ages
  <2>1. UNCHANGED <<pc, links, browser, pending, outcomes, handover, asked, acts, takes,
                    lost, clipboard, due, clearing, plan>>
    BY <1>3 DEF link_ages, loop, question, clip, vault, ghosts
  <2>2. link' \in [n : 0..links, old : BOOLEAN] /\ link'.n = link.n
    BY <2>0, <2>1 DEF TypeOK
  <2>3. TypeOK'
    BY <2>1, <2>2 DEF TypeOK
  <2> QED BY <2>1, <2>2, <2>3 DEF Counted, SessionsGrow, OfTheSession, NoBlindOverwrite,
                                PromiseStep, Promise!vars
<1>4. CASE session_ages
  <2>0. browser' = [browser EXCEPT !.old = TRUE]
    BY <1>4 DEF session_ages
  <2>1. UNCHANGED <<pc, link, links, pending, outcomes, handover, asked, acts, takes,
                    lost, clipboard, due, clearing, plan>>
    BY <1>4 DEF session_ages, loop, question, clip, vault, ghosts
  <2>2. /\ browser' \in [n : 0..links, old : BOOLEAN] /\ browser'.n = browser.n
        /\ link' \in [n : 0..links, old : BOOLEAN]
    BY <2>0, <2>1 DEF TypeOK
  <2>3. TypeOK'
    BY <2>1, <2>2 DEF TypeOK
  <2> QED BY <2>1, <2>2, <2>3 DEF Counted, SessionsGrow, OfTheSession, NoBlindOverwrite,
                                PromiseStep, Promise!vars
<1>5. CASE question_ages
  <2>0. pending' = [pending EXCEPT !.old = TRUE]
    BY <1>5 DEF question_ages
  <2>1. UNCHANGED <<pc, link, links, browser, outcomes, handover, asked, acts, takes,
                    lost, clipboard, due, clearing, plan>>
    BY <1>5 DEF question_ages, loop, session, clip, vault, ghosts
  <2>2. /\ pending' \in [id : 0..Len(asked), op : Ops \cup {"mint"}, old : BOOLEAN]
        /\ pending'.id = pending.id
    BY <2>0, <2>1 DEF TypeOK
  <2>3. TypeOK'
    BY <2>1, <2>2 DEF TypeOK
  <2> QED BY <2>1, <2>2, <2>3 DEF Counted, SessionsGrow, OfTheSession, NoBlindOverwrite,
                                PromiseStep, Promise!vars
<1>6. ASSUME \/ \E v \in DOMAIN due : copy_ages(v)
             \/ copied_over \/ quit \/ run \/ recv_timeout \/ refused \/ respond \/ clear_if
             \/ \E live \in BOOLEAN : written_over(live)
      PROVE  IInv' /\ PromiseStep
  <2>1. /\ UNCHANGED <<link, links, browser, pending, outcomes, handover, asked, acts, takes, lost>>
        /\ pc' \in {pc, "head", "lines", "tick", "serve", "stopped", "body", "answer"}
    BY <1>6 DEF copy_ages, copied_over, quit, run, recv_timeout, refused, respond, clear_if,
               written_over, loop, session, question, ghosts, vault
  <2>2. ClipOK'
    BY <1>1, <1>6 DEF ClipOK, copy_ages, copied_over, quit, run, recv_timeout, refused, respond, clear_if,
               written_over, clip
  <2>3. /\ plan' \in Work
        /\ plan'.asks = plan.asks
    BY <1>1, <1>6, WorkOK DEF copy_ages, copied_over, quit, run, recv_timeout, refused, respond, clear_if,
               written_over
  <2> QED BY <2>1, <2>2, <2>3, QuietStep DEF TypeOK
<1> QED BY <1>2, <1>3, <1>4, <1>5, <1>6

-----------------------------------------------------------------------------
(* The theorems. *)

\* A server just started: a link, and no session.
LEMMA InitOK == Init => IInv /\ Promise!Init
<1> SUFFICES ASSUME Init PROVE IInv /\ Promise!Init
  OBVIOUS
<1> USE UiAssumption DEF Init
<1>1. TypeOK
  BY DEF TypeOK, Fresh, None, NoAsk, Outcome
<1>2. Counted
  BY DEF Counted, Work
<1>3. SessionsGrow /\ OfTheSession /\ NoBlindOverwrite /\ Promise!Init
  BY DEF SessionsGrow, OfTheSession, NoBlindOverwrite, Promise!Init, Fresh, None, NoAsk
<1> QED BY <1>1, <1>2, <1>3 DEF IInv

\* Every step keeps the invariant, and is a step of the promise or none.
LEMMA NextStep == IInv /\ [Next]_vars => IInv' /\ PromiseStep
<1> SUFFICES ASSUME IInv, [Next]_vars PROVE IInv' /\ PromiseStep
  OBVIOUS
<1>1. CASE on_line
  BY <1>1, LineStep
<1>2. CASE tick
  BY <1>2, TickStep
<1>3. CASE finish
  BY <1>3, FinishStep
<1>4. ASSUME NEW r \in Requests, serve(r) PROVE IInv' /\ PromiseStep
  BY <1>4, ServeStep
<1>5. CASE UNCHANGED vars
  <2>1. UNCHANGED <<pc, link, links, browser, pending, outcomes, handover, asked, acts, takes, lost,
                    clipboard, due, clearing, plan>>
    BY <1>5 DEF vars, loop, session, question, clip, vault, ghosts
  <2> QED BY <2>1, QuietStep DEF IInv, TypeOK, Waits, ClipOK, Counted
<1> QED BY <1>1, <1>2, <1>3, <1>4, <1>5, AroundStep DEF Next, Loop, Waited

\* The inductive invariant.
THEOREM UiInvariant == Spec => []IInv
BY InitOK, NextStep, PTL DEF Spec

\* `gv ui` implements TerminalDecides: an operation that matters is carried
\* out once, on a question of the session that is still open, and a minted
\* token is taken once, by that session (App::ask, App::on_line,
\* App::perform, App::forget, App::hand_over).
THEOREM UiDecides == Spec => Decides
<1>1. IInv /\ [Next]_vars => [Promise!Next]_(Promise!vars)
  BY NextStep DEF PromiseStep
<1> QED BY <1>1, InitOK, UiInvariant, PTL DEF Spec, Decides, Promise!Spec

\* No page replaces a live value it had not shown, however requests, other
\* clients' writes and sessions interleave (App::write, delete, restore).
THEOREM UiNoBlindOverwrite == Spec => []NoBlindOverwrite
<1>1. IInv => NoBlindOverwrite
  BY DEF IInv
<1> QED BY <1>1, UiInvariant, PTL

=============================================================================
