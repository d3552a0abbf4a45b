------------------------------ MODULE RequestAuth ------------------------------
(***************************************************************************)
(* One request through @moribashi/web, auth and graphql: the onRequest     *)
(* hook of the auth plugin establishes who is calling (packages/auth/src/  *)
(* plugin.ts), and the handler or resolver that the request's scope is     *)
(* handed to asks its SecurityService (packages/auth/src/security.ts).     *)
(* The composition of TokenVerifier and AccessCache, which share the       *)
(* clock: requests verify, load and wait concurrently.                     *)
(*                                                                         *)
(* The key of an identity in a context is the string the code joins from   *)
(* both; the app's identities and contexts are such that it is unique.     *)
(***************************************************************************)
EXTENDS AccessCache

CONSTANTS
    Issuers, KeySource, Tokens, Nobody, MaxFlights,   \* as in TokenVerifier
    NoHeader,     \* no Authorization header
    BadHeader,    \* one that is no bearer token
    Contexts,     \* ids of what a permission may be asked for
    KeyOf,        \* `${identity}:${contextId}`
    Volatile      \* bound: the keys whose access changes

Identities == {t.who : t \in Tokens} \ {Nobody}

ASSUME RequestAssumption ==
    /\ \A t \in Tokens : t.exp \in Nat /\ t.signed \in BOOLEAN
    /\ MaxFlights \in Nat
    /\ NoHeader \notin Tokens /\ BadHeader \notin Tokens /\ NoHeader # BadHeader
    /\ Contexts # {}
    /\ Volatile \subseteq Keys
    /\ KeyOf \in [Identities \X Contexts -> Keys]
    /\ \A p, q \in Identities \X Contexts : KeyOf[p] = KeyOf[q] => p = q

VARIABLES
    token, getKey, discovery, last, flights, flight, verify,   \* TokenVerifier
    request,      \* per request, where it is
    principal,    \* per request, the identity of its principal (Nobody: anonymous)
    authError,    \* per request, the error its hook captured
    context,      \* per request, the context of its handler's check
    reply         \* per request, what its handler's check led to

TV == INSTANCE TokenVerifier WITH Requests <- Callers

verifierVars == <<token, getKey, discovery, last, flights, flight, verify>>
requestVars == <<request, principal, authError, context, reply>>
cacheOnlyVars == <<sourceVars, loads, entry, callerVars>>
rvars == <<vars, verifierVars, requestVars>>

RInit ==
    /\ Init /\ TV!Init
    /\ asked = [r \in Callers |-> [key |-> CHOOSE k \in Keys : TRUE, at |-> 0]]
    /\ token \in [Callers -> Tokens \cup {NoHeader, BadHeader}]
    /\ request = [r \in Callers |-> "new"]
    /\ principal = [r \in Callers |-> Nobody]
    /\ authError = [r \in Callers |-> "none"]
    /\ context = [r \in Callers |-> CHOOSE c \in Contexts : TRUE]
    /\ reply = [r \in Callers |-> "none"]

-----------------------------------------------------------------------------
\* The hook, without a token to verify.
Anonymous(r) ==
    /\ request[r] = "new" /\ token[r] \in {NoHeader, BadHeader}
    /\ request' = [request EXCEPT ![r] = "handling"]
    /\ authError' = [authError EXCEPT ![r] =
                        IF token[r] = BadHeader THEN "InvalidToken" ELSE @]
    /\ UNCHANGED <<vars, verifierVars, principal, context, reply>>

\* The hook, up to the await of verify().
Present(r) ==
    /\ request[r] = "new" /\ token[r] \in Tokens
    /\ TV!Verify(r)
    /\ request' = [request EXCEPT ![r] = "verifying"]
    /\ UNCHANGED <<cacheOnlyVars, principal, authError, context, reply>>

\* verify() settled: the principal, or the error, is put in the request's scope,
\* and the handler runs.
Establish(r) ==
    /\ request[r] = "verifying" /\ verify[r] \in TV!Endings
    /\ request' = [request EXCEPT ![r] = "handling"]
    /\ principal' = [principal EXCEPT ![r] =
                        IF verify[r] = "ok" THEN token[r].who ELSE @]
    /\ authError' = [authError EXCEPT ![r] =
                        CASE verify[r] = "expired" -> "SessionExpired"
                          [] verify[r] = "invalid" -> "InvalidToken"
                          [] OTHER -> @]
    /\ UNCHANGED <<vars, verifierVars, context, reply>>

-----------------------------------------------------------------------------
\* Mutant: the cause is lost.
RefusalGeneric(r) == "NotAuthenticated"

\* What ensureAuthenticated() throws.
Refusal(r) == IF authError[r] = "none" THEN "NotAuthenticated" ELSE authError[r]

Replies(r, what) ==
    /\ request' = [request EXCEPT ![r] = "answered"]
    /\ reply' = [reply EXCEPT ![r] = what]
    /\ UNCHANGED <<now, verifierVars, principal, authError, context>>

\* ensureAuthenticated(), alone or first of all in ensureAny().
Ensure(r) ==
    /\ request[r] = "handling"
    /\ Replies(r, IF principal[r] = Nobody THEN Refusal(r) ELSE "authenticated")
    /\ UNCHANGED cacheOnlyVars

\* hasAny(), hasRole() and hasGlobal() of an anonymous caller.
HasNothing(r) ==
    /\ request[r] = "handling" /\ principal[r] = Nobody
    /\ Replies(r, "denied")
    /\ UNCHANGED cacheOnlyVars

\* Mutant: the cache is keyed by the identity alone.
KeyByIdentity(who, c) == KeyOf[CHOOSE p \in DOMAIN KeyOf : p[1] = who]

KeyFor(who, c) == KeyOf[<<who, c>>]

\* hasAny(), hasRole() and ensureAny() in a context, up to the await of the access.
Ask(r, c) ==
    /\ request[r] = "handling" /\ principal[r] # Nobody
    /\ Get(r, KeyFor(principal[r], c))
    /\ request' = [request EXCEPT ![r] = "asking"]
    /\ context' = [context EXCEPT ![r] = c]
    /\ UNCHANGED <<verifierVars, principal, authError, reply>>

\* The access is there, or the error of the app's loader.
Decide(r) ==
    /\ request[r] = "asking"
    /\ Receive(r)
    /\ Replies(r, answer'[r])

-----------------------------------------------------------------------------
RTick ==
    /\ Tick /\ TV!Settled
    /\ \A r \in Callers : ~(request[r] = "verifying" /\ verify[r] \in TV!Endings)
    /\ UNCHANGED <<verifierVars, requestVars>>

Verifier ==
    /\ \/ \E i \in Issuers : TV!Discovery(i)
       \/ \E r \in Callers : TV!Verification(r)
    /\ UNCHANGED <<cacheOnlyVars, requestVars>>

Loader ==
    /\ \/ \E n \in DOMAIN loads : LoadStep(n)
       \/ \E k \in Volatile : Change(k)
    /\ UNCHANGED <<verifierVars, requestVars>>

Request(r) ==
    \/ Anonymous(r) \/ Present(r) \/ Establish(r)
    \/ Ensure(r) \/ HasNothing(r) \/ (\E c \in Contexts : Ask(r, c)) \/ Decide(r)

RNext == (\E r \in Callers : Request(r)) \/ Verifier \/ Loader \/ RTick

RSpec == RInit /\ [][RNext]_rvars

\* Issuers and the app's loader settle, and the event loop runs.
Step(A) == A /\ UNCHANGED <<cacheOnlyVars, requestVars>>
LStep(A) == A /\ UNCHANGED <<verifierVars, requestVars>>
Fairness ==
    /\ \A r \in Callers :
          WF_rvars(Request(r)) /\ WF_rvars(Step(TV!Verification(r)))
    /\ \A i \in Issuers : WF_rvars(Step(TV!Discovery(i)))
    /\ WF_rvars(LStep(\E n \in DOMAIN loads : LoadStep(n)))

RFairSpec == RSpec /\ Fairness

-----------------------------------------------------------------------------
(***************************************************************************)
(* Properties.                                                             *)
(***************************************************************************)

Sound(t) == t \in Tokens /\ t.iss \in Issuers /\ t.signed
\* One that nothing but its expiry can be held against.
Sure(t) == Sound(t) /\ KeySource[t.iss] = "jwks" /\ t.who # Nobody

\* An ensure*() that refuses tells the true cause: an expired session only to a
\* caller whose token is sound but expired, and always when its issuer's keys
\* are at hand; "not authenticated" only to a caller that presented nothing.
TrueCause ==
    \A r \in Callers :
        /\ reply[r] = "NotAuthenticated" => token[r] = NoHeader
        /\ reply[r] = "SessionExpired" => Sound(token[r]) /\ token[r].exp <= now
        /\ reply[r] = "InvalidToken" => token[r] # NoHeader /\ ~Sure(token[r])

\* Access is granted to a caller only on a token that was accepted, and only if
\* the identity in that token held the permission in the context this request
\* asks for less than the TTL before it asked: never on the access of another
\* identity or for another context, whoever loaded it.
GrantedToOwner ==
    \A r \in Callers : reply[r] = "granted" =>
        /\ Sound(token[r])
        /\ LET t == heldUntil[KeyOf[<<token[r].who, context[r]>>]]
           IN  asked[r].at <= t \/ asked[r].at < t + Ttl

\* The discovery is a single flight, whatever else the requests do.
VerifierImplementsSingleFlight == TV!ImplementsSingleFlight

\* Every request gets its answer, though its issuer, its loader or the request
\* whose promise it shares may fail.
EveryRequestAnswered ==
    \A r \in Callers : (request[r] # "new") ~> (request[r] = "answered")

-----------------------------------------------------------------------------
(***************************************************************************)
(* The inductive invariant behind them, besides that of AccessCache.       *)
(***************************************************************************)

RequestTypeOK ==
    /\ token \in [Callers -> Tokens \cup {NoHeader, BadHeader}]
    /\ verify \in [Callers -> {"idle", "discovering", "checking"} \cup TV!Endings]
    /\ request \in [Callers -> {"new", "verifying", "handling", "asking",
                              "answered"}]
    /\ principal \in [Callers -> Identities \cup {Nobody}]
    /\ authError \in [Callers -> {"none", "SessionExpired", "InvalidToken"}]
    /\ context \in [Callers -> Contexts]
    /\ DOMAIN reply = Callers

\* What verify() knows of the token when it is where it is.
VerifySound ==
    \A r \in Callers :
        /\ verify[r] \in {"discovering", "checking"} =>
              token[r] \in Tokens /\ token[r].iss \in Issuers
        /\ verify[r] = "discovering" => KeySource[token[r].iss] # "jwks"
        /\ verify[r] = "ok" => Sound(token[r]) /\ token[r].who # Nobody
        /\ verify[r] = "expired" => Sound(token[r]) /\ token[r].exp <= now
        /\ verify[r] = "invalid" => ~Sure(token[r])

\* What the request knows of its caller.
CallerSound ==
    \A r \in Callers :
        /\ request[r] \in {"new", "verifying"} =>
              principal[r] = Nobody /\ authError[r] = "none"
        /\ request[r] = "verifying" => token[r] \in Tokens
        /\ principal[r] # Nobody => Sound(token[r]) /\ principal[r] = token[r].who
        /\ principal[r] = Nobody /\ authError[r] = "none"
                /\ request[r] \notin {"new", "verifying"} => token[r] = NoHeader
        /\ authError[r] = "SessionExpired" => Sound(token[r]) /\ token[r].exp <= now
        /\ authError[r] = "InvalidToken" => token[r] # NoHeader /\ ~Sure(token[r])

\* A request asks, and is answered, for its own principal and context.
AskedSound ==
    \A r \in Callers :
        /\ request[r] = "asking" \/ reply[r] = "granted" =>
              /\ principal[r] # Nobody
              /\ asked[r].key = KeyOf[<<principal[r], context[r]>>]
        /\ reply[r] = "granted" => request[r] = "answered" /\ answer[r] = "granted"

RInv == RequestTypeOK /\ VerifySound /\ CallerSound /\ AskedSound /\ TrueCause
=============================================================================
