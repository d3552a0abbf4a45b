----------------------------- MODULE MCRequestAuth -----------------------------
(***************************************************************************)
(* An instance of RequestAuth: one issuer whose keys are configured and    *)
(* one that is discovered, with an identity each, who may hold a           *)
(* permission in one of two contexts, or in both; a token of each that     *)
(* expires while the run lasts, a forged one that does not, and one of an  *)
(* issuer that is not configured.                                          *)
(***************************************************************************)
EXTENDS RequestAuth, TLC

CONSTANTS local, oidc, stranger, ann, bob, ctx, ctx2

MCIssuers == {local, oidc}
MCKeySource == (local :> "jwks") @@ (oidc :> "discovery")
Tok(i, s, e, w) == [iss |-> i, signed |-> s, exp |-> e, who |-> w]
MCTokens == {Tok(local, TRUE, 1, ann), Tok(oidc, TRUE, 1, bob),
             Tok(oidc, FALSE, 9, bob), Tok(stranger, TRUE, 9, ann)}
MCKeyOf == (<<ann, ctx>> :> "ann:ctx") @@ (<<ann, ctx2>> :> "ann:ctx2") @@
           (<<bob, ctx>> :> "bob:ctx") @@ (<<bob, ctx2>> :> "bob:ctx2")
=============================================================================
