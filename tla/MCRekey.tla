------------------------------- MODULE MCRekey -------------------------------
(* Trees and records for TLC. *)
EXTENDS Rekey, TLC

Value(x) == [at |-> x, tombstone |-> FALSE]
Tombstone(x) == [at |-> x, tombstone |-> TRUE]

\* A project, an environment of it, and environments below that one.
ChainParent == [n \in 2..N |-> Max({k \in {1, 2} : k < n})]

\* Node 2's oldest version is gone, so that a tombstone leads.
MCWritten == [n \in First |->
                 CASE n = 2 -> <<Tombstone(1), Value(2), Value(3)>>
                   [] n = 3 -> <<Value(4)>>
                   [] OTHER -> <<>>]

\* One machine alone; every other machine, too; and one that resumes a plan
\* it has begun to abort.
Alone == {[held |-> {1, 2}, others |-> {}, keys |-> 3]}
WithOthers == {[held |-> {1}, keys |-> 2,
                others |-> {"write", "env_add", "env_remove", "late", "resume_aborted"}]}
MCWorkloads == Alone \cup WithOthers
AbortResumed == {[held |-> {1}, others |-> {"resume_aborted"}, keys |-> 2]}
=============================================================================
