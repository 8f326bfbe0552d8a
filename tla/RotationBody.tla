---------------------------- MODULE RotationBody ----------------------------
(***************************************************************************)
(* How large a rotation's body may grow: the quotas put_record and         *)
(* delete_record enforce (backend/sqlite.rs) against the size of the batch *)
(* that rewrites every retained version (seal/rotation.rs) and the bound   *)
(* the server derives its body limit from (Limits::max_rotation_body).     *)
(*                                                                         *)
(* Names of one length and values of one size are alike: the state counts  *)
(* the names of each shape, a shape being the kinds of a name's retained   *)
(* versions, oldest first.                                                 *)
(***************************************************************************)
EXTENDS Integers, Sequences, FiniteSets, FiniteSetsExt

CONSTANTS Limits,  \* the quotas: Limits
          NameLen, \* bytes of a name
          ValueCt, \* bytes of a value's ciphertext
          Digits   \* decimal digits of a version and a write time together

VARIABLES shapes,  \* shape -> how many names have it
          tokens   \* registered tokens

vars == <<shapes, tokens>>

Shape == UNION {[1..n -> {"value", "tombstone"}] : n \in 1..Limits.max_versions}
live(s) == s[Len(s)] = "value"

\* insert_version and prunable: the newest max_versions are retained.
retained(s) == SubSeq(s, Len(s) - Min({Len(s), Limits.max_versions}) + 1, Len(s))

name_ct == 24 + NameLen + 16
Values(s) == Cardinality({i \in DOMAIN s : s[i] = "value"})
Stored(s) == Len(s) * name_ct + Values(s) * ValueCt

Over(f(_)) == MapThenSumSet(LAMBDA s : shapes[s] * f(s), Shape)
LiveNames == Over(LAMBDA s : IF live(s) THEN 1 ELSE 0)
bytes_used == Over(Stored)

Init == shapes = [s \in Shape |-> 0] /\ tokens = 0

\* put_record of a new name, or of one that exists: only a name that is not
\* live counts against max_names, and every retained version against
\* max_vault_bytes.
Moves(s, t) == [shapes EXCEPT ![s] = @ - 1, ![t] = @ + 1]
Fits(grown) == bytes_used + grown <= Limits.max_vault_bytes

create_record ==
    /\ LiveNames < Limits.max_names
    /\ Fits(Stored(<<"value">>))
    /\ shapes' = [shapes EXCEPT ![<<"value">>] = @ + 1]
    /\ UNCHANGED tokens

put_record(s) ==
    LET t == retained(Append(s, "value")) IN
    /\ shapes[s] > 0
    /\ ~live(s) => LiveNames < Limits.max_names
    /\ Fits(Stored(t) - Stored(s))
    /\ shapes' = Moves(s, t)
    /\ UNCHANGED tokens

\* delete_record: a tombstone of a live name, whatever the bytes used.
delete_record(s) ==
    /\ shapes[s] > 0 /\ live(s)
    /\ shapes' = Moves(s, retained(Append(s, "tombstone")))
    /\ UNCHANGED tokens

register_token ==
    /\ tokens < Limits.max_tokens
    /\ tokens' = tokens + 1
    /\ UNCHANGED shapes

Next ==
    \/ create_record
    \/ \E s \in Shape : put_record(s) \/ delete_record(s)
    \/ register_token

Spec == Init /\ [][Next]_vars

-----------------------------------------------------------------------------
(***************************************************************************)
(* Sizes, in bytes of JSON.                                                *)
(***************************************************************************)

b64(n) == (n * 4 + 2) \div 3
SIG == 86
BUNDLE == 48 + 198

\* One RotatedVersion of the batch.
RotatedVersion(kind) ==
    97 + 2 * 64 + Digits + b64(name_ct) + SIG
       + (IF kind = "value" THEN b64(ValueCt) ELSE 2)

\* The batch build_rotation makes: every retained version, every token's
\* bundle, the owner's and the descriptor.
RotationRequest ==
    Over(LAMBDA s : MapThenSumSet(LAMBDA i : RotatedVersion(s[i]), DOMAIN s))
      + tokens * (32 + b64(BUNDLE) + SIG + 48)
      + b64(189) + SIG + b64(BUNDLE) + SIG

\* Limits::max_rotation_body, of the secrets' share of the limits.
max_rotation_body ==
    b64(Limits.max_vault_bytes)
      + Limits.max_names * Limits.max_versions * (2 * 64 + 2 * 20 + b64(24 + 256 + 16) + SIG + 104)
      + Limits.max_tokens * (32 + b64(BUNDLE) + SIG + 56)
      + Limits.max_tokens * (32 + 3)
      + b64(189) + SIG + b64(BUNDLE) + SIG + 2 * 20 + 4096

-----------------------------------------------------------------------------
\* The bound is the largest body a vault at these quotas can produce, so a
\* server that takes bodies up to it never refuses a rotation for its size:
\* what the comment on max_rotation_body says.
RotationFits == RotationRequest <= max_rotation_body
=============================================================================
