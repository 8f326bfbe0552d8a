---------------------------- MODULE PrivateFiles ----------------------------
(***************************************************************************)
(* The files of one machine that hold keys and what the owner remembers:   *)
(* the credentials file (cli/keystore.rs), the two files of the local      *)
(* state (state.rs) and kits (cli/fsutil.rs).  Commands write them with    *)
(* write_private: unlink the temporary name, create it, write, sync and    *)
(* rename it over the file; or, for a kit, with create_private, in place.  *)
(*                                                                         *)
(* Each system call is a step.  A file's content is what it holds of a     *)
(* value: all of it, or only a part.  A command may be killed between any  *)
(* two steps, and the power may fail: then data that was not synced is     *)
(* only partly there, and the directory is as it was last written back.    *)
(***************************************************************************)
EXTENDS Integers, Sequences

CONSTANTS Procs,   \* commands that may run at once
          Keys,    \* entries of the credentials file
          Jobs,    \* what each does: set, delete, save, kit, kit_force
          MaxIno   \* bound: files ever created

ASSUME PrivateFilesAssumption ==
    /\ Jobs \in [Procs -> SUBSET {"set", "delete", "save", "kit", "kit_force"}]
    /\ MaxIno \in Nat \ {0}

VARIABLES
    dir,    \* name -> file, as every command sees it (0: no such name)
    disk,   \* name -> file, as the disk has it
    ino,    \* the files created so far: value, whether whole, whether synced
    proc,   \* per command: where it is, what it writes, to which name and file
    acked,  \* ghost: the entries whose set returned, and no delete began since
    power_lost, \* ghost: whether the power has failed
    overlap \* ghost: whether one command ever began before another ended

filevars == <<dir, disk, ino, proc, acked, power_lost, overlap>>

Renamed == {"credentials", "config", "state"}
Paths == Renamed \cup {"kit"}
Tmp == [credentials |-> "tmp_credentials", config |-> "tmp_config", state |-> "tmp_state"]
DirNames == Paths \cup {Tmp[f] : f \in Renamed}
Idle == [at |-> "idle", file |-> "none", value |-> {}, fd |-> 0, job |-> "none", key |-> "none"]

FilesInit ==
    /\ dir = [n \in DirNames |-> 0]
    /\ disk = dir
    /\ ino = <<>>
    /\ proc = [p \in Procs |-> Idle]
    /\ acked = {}
    /\ power_lost = FALSE
    /\ overlap = FALSE

Files == DOMAIN ino
Is(p, at) == proc[p].at = at
Goes(p, at) == proc' = [proc EXCEPT ![p].at = at]
Stops(p) == proc' = [proc EXCEPT ![p] = Idle]

-----------------------------------------------------------------------------
(***************************************************************************)
(* The commands.                                                           *)
(***************************************************************************)

\* CredentialsFile::load: no file is an empty one, and a part of one does not
\* parse unless nothing of it was written, which reads as empty.
load == IF dir["credentials"] = 0 THEN {} ELSE ino[dir["credentials"]].value
loads == dir["credentials"] # 0 =>
            ino[dir["credentials"]].whole \/ ino[dir["credentials"]].value = {}

\* KeyStore::set and delete: load, change, save the whole.
set_alone(k) == {k}
set(k) == load \cup {k}
keystore_delete(k) == load \ {k}

Begins(p, job, k, file, value, at) ==
    /\ overlap' = (overlap \/ \E q \in Procs \ {p} : ~Is(q, "idle"))
    /\ proc' = [proc EXCEPT ![p] = [Idle EXCEPT !.at = at, !.job = job, !.key = k,
                                                !.file = file, !.value = value]]

set_key(p, k) ==
    /\ Is(p, "idle") /\ "set" \in Jobs[p] /\ loads
    /\ Begins(p, "set", k, "credentials", set(k), "remove")
    /\ UNCHANGED <<dir, disk, ino, acked, power_lost>>

delete_key(p, k) ==
    /\ Is(p, "idle") /\ "delete" \in Jobs[p] /\ loads /\ k \in load
    /\ Begins(p, "delete", k, "credentials", keystore_delete(k), "remove")
    /\ acked' = acked \ {k}
    /\ UNCHANGED <<dir, disk, ino, power_lost>>

\* FileStateStore::save: the configuration, then the state.
save(p) ==
    /\ Is(p, "idle") /\ "save" \in Jobs[p]
    /\ Begins(p, "save", "none", "config", Keys, "remove")
    /\ UNCHANGED <<dir, disk, ino, acked, power_lost>>

\* create_private: an existing kit is refused, or unlinked first with --force.
create_private(p) ==
    /\ Is(p, "idle")
    /\ \/ /\ "kit" \in Jobs[p] /\ dir["kit"] = 0
          /\ Begins(p, "kit", "none", "kit", Keys, "create")
          /\ UNCHANGED dir
       \/ /\ "kit_force" \in Jobs[p] /\ dir["kit"] # 0
          /\ Begins(p, "kit", "none", "kit", Keys, "create")
          /\ dir' = [dir EXCEPT !["kit"] = 0]
    /\ UNCHANGED <<disk, ino, acked, power_lost>>

-----------------------------------------------------------------------------
(***************************************************************************)
(* write_private, call by call.                                            *)
(***************************************************************************)

Target(p) == IF proc[p].job = "kit" THEN "kit" ELSE Tmp[proc[p].file]

remove_file(p) ==
    /\ Is(p, "remove")
    /\ dir' = [dir EXCEPT ![Target(p)] = 0]
    /\ Goes(p, "create")
    /\ UNCHANGED <<disk, ino, acked, power_lost, overlap>>

\* new_private_file: create_new refuses a name that exists.
new_private_file(p) ==
    /\ Is(p, "create")
    /\ \/ /\ dir[Target(p)] = 0 /\ Len(ino) < MaxIno
          /\ ino' = Append(ino, [value |-> {}, whole |-> FALSE, synced |-> FALSE])
          /\ dir' = [dir EXCEPT ![Target(p)] = Len(ino) + 1]
          /\ proc' = [proc EXCEPT ![p].at = "write", ![p].fd = Len(ino) + 1]
       \/ /\ dir[Target(p)] # 0
          /\ Stops(p)
          /\ UNCHANGED <<dir, ino>>
    /\ UNCHANGED <<disk, acked, power_lost, overlap>>

write_all(p) ==
    /\ Is(p, "write")
    /\ ino' = [ino EXCEPT ![proc[p].fd].value = proc[p].value, ![proc[p].fd].whole = TRUE]
    /\ Goes(p, "sync")
    /\ UNCHANGED <<dir, disk, acked, power_lost, overlap>>

sync_skipped(p) == UNCHANGED ino
sync(p) == ino' = [ino EXCEPT ![proc[p].fd].synced = TRUE]

sync_all(p) ==
    /\ Is(p, "sync")
    /\ sync(p)
    /\ IF proc[p].job = "kit" THEN Stops(p) ELSE Goes(p, "rename")
    /\ UNCHANGED <<dir, disk, acked, power_lost, overlap>>

\* rename: by name, so it takes whatever file the temporary name is by now.
\* The state store then writes its second file; a set returns.
rename(p) ==
    /\ Is(p, "rename")
    /\ \/ /\ dir[Target(p)] # 0
          /\ dir' = [dir EXCEPT ![proc[p].file] = dir[Target(p)], ![Target(p)] = 0]
          /\ acked' = IF proc[p].job = "set" THEN acked \cup {proc[p].key} ELSE acked
          /\ IF proc[p].file = "config" THEN Begins(p, "save", "none", "state", Keys, "remove")
             ELSE Stops(p) /\ UNCHANGED overlap
       \/ /\ dir[Target(p)] = 0
          /\ Stops(p)
          /\ UNCHANGED <<dir, acked, overlap>>
    /\ UNCHANGED <<disk, ino, power_lost>>

-----------------------------------------------------------------------------
(***************************************************************************)
(* Faults, and the system writing its directories back.                    *)
(***************************************************************************)

killed(p) ==
    /\ ~Is(p, "idle")
    /\ Stops(p)
    /\ UNCHANGED <<dir, disk, ino, acked, power_lost, overlap>>

write_back ==
    /\ disk # dir
    /\ disk' = dir
    /\ UNCHANGED <<dir, ino, proc, acked, power_lost, overlap>>

power_fails ==
    /\ dir' = disk
    /\ ino' = [i \in Files |-> IF ino[i].synced THEN ino[i]
                               ELSE [value |-> {}, whole |-> FALSE, synced |-> FALSE]]
    /\ proc' = [p \in Procs |-> Idle]
    /\ power_lost' = TRUE
    /\ UNCHANGED <<disk, acked, overlap>>

FilesNext ==
    \/ \E p \in Procs :
         \/ \E k \in Keys : set_key(p, k) \/ delete_key(p, k)
         \/ save(p) \/ create_private(p)
         \/ remove_file(p) \/ new_private_file(p) \/ write_all(p) \/ sync_all(p) \/ rename(p)
         \/ killed(p)
    \/ write_back \/ power_fails

FilesSpec == FilesInit /\ [][FilesNext]_filevars

-----------------------------------------------------------------------------
(***************************************************************************)
(* Properties.                                                             *)
(***************************************************************************)

\* Every file the CLI writes is written atomically: what fsutil.rs says.
AlwaysWhole == \A f \in Renamed : dir[f] # 0 => ino[dir[f]].whole

\* While commands run one at a time, a file that is replaced by a rename is a
\* whole one after every step, kill and power failure: a load never meets a
\* part of one.
WholeAlone == ~overlap => AlwaysWhole

\* While commands run one at a time, a key whose set returned is in the file
\* until it is deleted, whatever was killed since, unless the power failed
\* (the directory is not synced).
KeysKept == ~power_lost /\ ~overlap => acked \subseteq load
=============================================================================
