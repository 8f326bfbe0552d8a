-------------------------------- MODULE Wire --------------------------------
(***************************************************************************)
(* What client and server must agree on, one input at a time: a request    *)
(* and its route, a refusal and what the caller makes of it, a write and   *)
(* the version it meets, what is sealed and where it opens, what is signed *)
(* and who accepts it.  `input` is that input; an initial state holds any  *)
(* one of bounded size, and it does not change.                            *)
(***************************************************************************)
EXTENDS HttpApi, Signing

VARIABLE input

NoInput == [what |-> "none"]
Alive(latest) == ~latest.tombstone

\* What an operation of the API is asked for, refused with or built on.
ApiInput ==
    \/ \E id \in DOMAIN Requests : input = [what |-> "request", id |-> id]
    \/ \E i \in CoreRoutes : input = [what |-> "route", row |-> i]
    \/ \E e \in LostRaces : input = [what |-> "race", error |-> e]
    \/ \E code \in ErrorCodes : input = [what |-> "refusal", code |-> code]
    \/ \E e \in DOMAIN failure_code : input = [what |-> "failed check", error |-> e]
    \/ \E seen, head \in Latest : input = [what |-> "write", seen |-> seen, head |-> head]

\* The generation and kind of what is asked of the server, the scopes its
\* tokens were minted with, the vaults they belong to, or the vault asked of.
CryptoInput ==
    \/ \E g \in Sealed, kind \in RecordKinds :
          input = [what |-> "record", generation |-> g, kind |-> kind]
    \/ \E scopes \in [Holder -> SealedScopes] : input = [what |-> "bundles", scopes |-> scopes]
    \/ \E home \in [Holder -> Place] : input = [what |-> "signed request", home |-> home]
    \/ \E v \in Place : input = [what |-> "vault", vault |-> v]

WireInit == input = NoInput \/ ApiInput \/ CryptoInput

-----------------------------------------------------------------------------
(* Properties. *)

\* Every request the client can make is found by the route it is for, with
\* its parameters where the handler reads them, and whoever the client lets
\* sign it is among those the route declares; every route but the two of the
\* shell is for such a request; and its handler lets in no one the route does
\* not declare, and of each declared sort of credential at least one
\* (client/api.rs against server_core/route.rs).
RoutedAsAsked ==
    /\ input.what = "request" => ClientFindsRoute(input.id)
    /\ input.what = "route" => DeclaredAsHandled(input.row)

\* A race lost in the store reaches every caller as a conflict, a client that
\* does not know its code included.  A conflict is always worth rebuilding and
\* sending again; a refusal of the credential, of the name or of the content
\* never is as sent; an owner's 401 is a missing vault; an older client takes
\* every other refusal for the same kind, but for the integrity codes and a
\* spent challenge, whose status says conflict or nothing; and a redirect is a
\* server not reached.  What this client's own checks refuse is an integrity
\* failure, whichever they are (server_core/error.rs, error.rs).
RefusalsUnderstood ==
    /\ input.what = "race" => LostRaceConflicts(input.error)
    /\ input.what = "refusal" => KindsAgree(input.code)
    /\ input.what = "failed check" => OwnCheckIntegrity(input.error)

\* A write built on one latest version lands if and only if that is still the
\* server's latest: not on a version, a deletion or a revival it has not
\* seen.  Otherwise nothing changes and the caller is told of a conflict, or,
\* deleting what is deleted already, that it is not there (Pre and the
\* store's checks of it).
WritesLandOnWhatWasSeen ==
    input.what = "write" =>
        /\ PutLands(input.seen, input.head)
        /\ Alive(input.seen) /\ input.seen # Never => DeleteLands(input.seen, input.head)
        /\ Alive(input.seen) /\ Alive(input.head) => ChildrenLand(input.seen, input.head)

\* What is sealed opens where it was put and nowhere else.  What a reader opens
\* under a verified descriptor is what was written under that vault, kind,
\* name, version and generation, and every record written there opens so,
\* whichever stored rows the server puts together into its answer, for a
\* value, a history or a listing.  A bundle opens for the token or the owner
\* it was sealed for, under the scope and the generation it was minted with;
\* it is never taken for a child's key, nor a child's key for it; and a
\* descriptor is one its vault's owner signed (seal/, keys/bundle.rs).
OpensInPlace ==
    /\ input.what = "record" => /\ RecordsInPlace(input.generation, input.kind)
                                /\ ListingsInPlace(input.generation, input.kind)
    /\ input.what = "bundles" => TokenBundlesInPlace(input.scopes)
    /\ input.what = "vault" => OwnersInPlace(input.vault)

\* What is accepted is what its signer sent: a request with exactly the
\* method, path, body and preconditions that were signed, for the vault and
\* the signer it was signed for, and no signature made for another purpose; a
\* vault is created by the owner of its id and with that owner's keys; a
\* children record opens in its own vault at its own version; and no two
\* audit rows hash alike, whatever optional fields they have (proto/sig.rs,
\* proto/children.rs, proto/audit.rs).
SignedAsSent ==
    /\ input.what = "signed request" => RequestsAsSigned(input.home)
    /\ input.what = "vault" => /\ CreatedByOwner(input.vault)
                               /\ ChildrenInPlace(input.vault)
                               /\ RowsApart
=============================================================================
