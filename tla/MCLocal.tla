------------------------------- MODULE MCLocal -------------------------------
(* What runs on the owner's machine, for TLC: `gv ui`, or two commands that *)
(* write the machine's files.                                               *)
EXTENDS UiSession, PrivateFiles, TLC

VARIABLE part  \* which of the two a behaviour is about

Load(enters, lines, asks, copies, versions) ==
    [enters |-> enters, lines |-> lines, asks |-> asks, copies |-> copies, versions |-> versions]

\* Questions across sessions, copies, and writes of a page.
Writes == Load(0, 0, 0, 0, 3)
MCWorkloads == {Load(1, 1, 2, 0, 0), Load(0, 2, 1, 0, 0), Load(0, 1, 1, 2, 0), Writes}

MCJobs == "gv1" :> {"set", "delete", "save"} @@ "gv2" :> {"save", "kit", "kit_force"}

\* A step of UiSession's Next, and of PrivateFiles'.
Ui(action) == part = "ui" /\ action /\ UNCHANGED <<filevars, part>>
Command(action) == part = "files" /\ action /\ UNCHANGED <<vars, part>>

MCInit == Init /\ FilesInit /\ (part = "ui" \/ (part = "files" /\ plan = Writes))

MCNext ==
    \/ Ui(run) \/ Ui(on_line) \/ Ui(tick) \/ Ui(finish) \/ Ui(recv_timeout)
    \/ Ui(refused) \/ Ui(respond) \/ Ui(clear_if)
    \/ \E r \in Requests : Ui(serve(r))
    \/ \E text \in {"", "y", "n"} : Ui(type_line(text))
    \/ Ui(link_ages) \/ Ui(session_ages) \/ Ui(question_ages)
    \/ \E v \in DOMAIN due : Ui(copy_ages(v))
    \/ Ui(copied_over) \/ Ui(quit)
    \/ \E live \in BOOLEAN : Ui(written_over(live))
    \/ \E p \in Procs :
         \/ \E k \in Keys : Command(set_key(p, k)) \/ Command(delete_key(p, k))
         \/ Command(save(p)) \/ Command(create_private(p)) \/ Command(remove_file(p))
         \/ Command(new_private_file(p)) \/ Command(write_all(p)) \/ Command(sync_all(p))
         \/ Command(rename(p)) \/ Command(killed(p))
    \/ Command(write_back) \/ Command(power_fails)

MCSpec ==
    /\ MCInit /\ [][MCNext]_<<vars, filevars, part>>
    /\ WF_vars(Ui(Loop))
    /\ WF_vars(Ui(question_ages))
    /\ \A v \in Secrets \cup Ids : WF_vars(Ui(copy_ages(v)))
=============================================================================
