--------------------------- MODULE MCEnvironments ---------------------------
(* Projects and the commands given on them, for TLC. *)
EXTENDS Environments, TLC

CONSTANTS a, b, here, there

MCProcs == {a, b}
MCMachines == {here, there}

\* A project, an environment of it, and environments below that one.
MCParent == [n \in 2..N |-> Max({k \in {1, 2} : k < n})]

Load(where, x, y, ready, nodes, commands, days) ==
    [on |-> (a :> here) @@ (b :> where), calls |-> (a :> x) @@ (b :> y),
     ready |-> ready, nodes |-> nodes, fresh |-> nodes = {},
     daily |-> Max(nodes \cup {1}), expires |-> TRUE, commands |-> commands, time |-> days]

Both == {here, there}

\* Two machines change one project.
Trees == {Load(there, {"add"}, {"add", "repair"}, Both, {1, 2}, 3, 0),
          Load(there, {"rm", "add"}, {"add"}, Both, {1, 2}, 3, 0),
          Load(there, {"ls", "rm"}, {"add", "rm"}, Both, {1, 2, 3}, 3, 0)}
\* Two commands on one machine; a project is made, and imported elsewhere.
Locals == {Load(here, {"import", "rm"}, {"add", "import"}, {here}, {1, 2}, 3, 0),
           Load(there, {"init", "add"}, {"import"}, {}, {}, 4, 0)}
\* Days of use.
Days == {[Load(here, {"use"}, {}, {here}, {1, 2, 3}, 6, 6) EXCEPT !.expires = x] : x \in BOOLEAN}

MCWorkloads == Trees \cup Locals \cup Days
=============================================================================
