--------------------------- MODULE TerminalDecides ---------------------------
(***************************************************************************)
(* What `gv ui` promises about the operations that matter (minting,        *)
(* revoking, rotating, deleting an environment), without its loop, links,  *)
(* cookies, timers or terminal: one browser session at a time, one request *)
(* waiting at a time, every request carried out at most once and only      *)
(* while the session that asked for it is open, and a minted token taken   *)
(* at most once, by that session, while it is still held.                  *)
(***************************************************************************)
EXTENDS Naturals, Sequences

VARIABLES session,  \* the open session, 0: none
          asked,    \* request -> the session that asked for it
          waiting,  \* the request that waits for an answer, 0: none
          acts,     \* the requests carried out, in order
          held,     \* the request whose minted token waits to be taken, 0: none
          takes     \* the requests whose token was copied or saved, in order

vars == <<session, asked, waiting, acts, held, takes>>

Init ==
    /\ session = 0 /\ asked = <<>> /\ waiting = 0
    /\ acts = <<>> /\ held = 0 /\ takes = <<>>

\* A session never seen before replaces the open one, if any.
Open ==
    /\ session' \in Nat /\ session' > session
    /\ \A i \in DOMAIN asked : session' > asked[i]
    /\ waiting' = 0 /\ held' = 0
    /\ UNCHANGED <<asked, acts, takes>>

End ==
    /\ session # 0
    /\ session' = 0 /\ waiting' = 0 /\ held' = 0
    /\ UNCHANGED <<asked, acts, takes>>

Ask ==
    /\ session # 0 /\ waiting = 0
    /\ asked' = Append(asked, session)
    /\ waiting' = Len(asked')
    /\ UNCHANGED <<session, acts, held, takes>>

\* Carried out; a minted token replaces one that was not taken.
Act ==
    /\ waiting # 0 /\ asked[waiting] = session
    /\ acts' = Append(acts, waiting)
    /\ waiting' = 0
    /\ held' \in {held, waiting}
    /\ UNCHANGED <<session, asked, takes>>

Drop == waiting # 0 /\ waiting' = 0 /\ UNCHANGED <<session, asked, acts, held, takes>>

Take ==
    /\ held # 0 /\ asked[held] = session
    /\ takes' = Append(takes, held)
    /\ held' = 0
    /\ UNCHANGED <<session, asked, waiting, acts>>

Discard == held # 0 /\ held' = 0 /\ UNCHANGED <<session, asked, waiting, acts, takes>>

Next == Open \/ End \/ Ask \/ Act \/ Drop \/ Take \/ Discard

Spec == Init /\ [][Next]_vars
=============================================================================
