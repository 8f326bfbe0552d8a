--------------------------- MODULE MCTokenAccess ---------------------------
(* A small instance of TokenAccess for TLC. *)
EXTENDS TokenAccess, TLC

\* Two secrets whose indexes a rotation moves below where they were, and one
\* config: a listing can be overtaken between two pages.
MCHmac == [n \in Names |->
    CASE n = "a" -> [g \in 1..MaxGen |-> IF g = 1 THEN 8 ELSE 2 * g]
      [] n = "b" -> [g \in 1..MaxGen |-> IF g = 1 THEN 9 ELSE 2 * g + 1]
      [] OTHER -> [g \in 1..MaxGen |-> 10 + g]]

One(t, scope, by, ops, only) ==
    [scope |-> t :> scope, by |-> t :> by, ops |-> t :> ops, only |-> t :> only]
Two(v, w) ==
    [scope |-> v.scope @@ w.scope, by |-> v.by @@ w.by, ops |-> v.ops @@ w.ops,
     only |-> v.only @@ w.only]
Among(w, handles, others, gens) == [handles |-> handles, others |-> others, gens |-> gens] @@ w

\* Every scope read and written with, across rotations and revocations; a read
\* token with an allow-list; listings by an SDK handle and by an MCP server,
\* with a meta token and with one it must refuse; an admin token that revokes
\* another; and two handles of the owner that mint, revoke and rotate against
\* each other.
MCWorkloads ==
    {Among(One("t1", s, "sdk", {"open", "read", "write"}, {}), {"o1"}, {"revoke"}, 2) :
        s \in {"append", "config", "config_write", "read", "admin"}}
    \cup {Among(One("t1", "read", "sdk", {"open", "read"}, {"a"}), {"o1"}, {"report"}, 3)}
    \cup {Among(One("t1", s, "mcp", {"open", "list"}, {}), {"o1"}, {"report"}, 3) :
            s \in {"meta", "read"}}
    \cup {Among(One("t1", "read", "sdk", {"open", "list"}, {}), {"o1"}, {"expire"}, 2)}
    \cup {Among(Two(One("t1", "admin", "sdk", {"open", "revoke"}, {}),
                    One("t2", "append", "sdk", {"open", "write"}, {})), {"o1"}, {}, 2)}
    \cup {Among(Two(One("t1", "config", "sdk", {"open"}, {}),
                    One("t2", "meta", "mcp", {}, {})), {"o1", "o2"}, {"revoke"}, 2)}
=============================================================================
