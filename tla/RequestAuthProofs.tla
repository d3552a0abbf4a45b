-------------------------- MODULE RequestAuthProofs --------------------------
(***************************************************************************)
(* The composition of the verifier, the cache and the requests: it uses    *)
(* the cache as AccessCache says, so what is proved of the cache holds of  *)
(* it; every refusal tells its true cause; and a permission is granted to  *)
(* nobody but the identity that held it.                                   *)
(***************************************************************************)
EXTENDS RequestAuth, AccessCacheProofs

USE RequestAssumption

LEMMA RequestInit == RInit => RInv
<1> SUFFICES ASSUME RInit PROVE RInv
  OBVIOUS
<1>1. RequestTypeOK
  BY DEF RInit, TV!Init, RequestTypeOK
<1>2. VerifySound /\ CallerSound /\ AskedSound /\ TrueCause
  BY DEF RInit, TV!Init, VerifySound, CallerSound, AskedSound, TrueCause
<1> QED BY <1>1, <1>2 DEF RInv

-----------------------------------------------------------------------------
(***************************************************************************)
(* One lemma per step.                                                     *)
(***************************************************************************)

\* What a step of the verifier does to the call of one request.
LEMMA VerifyStep ==
    ASSUME RInv, now \in Nat, NEW r \in Callers,
           (TV!Verify(r) /\ token[r] \in Tokens) \/ TV!Verification(r)
    PROVE  /\ UNCHANGED <<now, token>>
           /\ \E s \in {"discovering", "checking"} \cup TV!Endings :
                 /\ verify' = [verify EXCEPT ![r] = s]
                 /\ s \in {"discovering", "checking"} =>
                       token[r] \in Tokens /\ token[r].iss \in Issuers
                 /\ s = "discovering" => KeySource[token[r].iss] # "jwks"
                 /\ s = "ok" => Sound(token[r]) /\ token[r].who # Nobody
                 /\ s = "expired" => Sound(token[r]) /\ token[r].exp <= now
                 /\ s = "invalid" => ~Sure(token[r])
<1> USE DEF RInv
<1>1. CASE TV!Verify(r) /\ token[r] \in Tokens
  <2>1. CASE TV!Untrusted(r)
    BY <1>1, <2>1 DEF TV!Verify, TV!Untrusted, TV!Endings, Sure, Sound
  <2>2. ASSUME NEW i \in Issuers, i = token[r].iss, TV!KeyAtHand(r, i) \/ TV!Discover(r, i)
        PROVE  \/ verify' = [verify EXCEPT ![r] = "checking"]
               \/ /\ verify' = [verify EXCEPT ![r] = "discovering"]
                  /\ KeySource[i] = "discovery"
    BY <2>2 DEF TV!KeyAtHand, TV!Discover
  <2> QED BY <1>1, <2>1, <2>2 DEF TV!Verify
<1>2. CASE TV!Discovered(r)
  <2>1. token[r] \in Tokens /\ token[r].iss \in Issuers /\ KeySource[token[r].iss] # "jwks"
    BY <1>2 DEF TV!Discovered, VerifySound
  <2> QED BY <1>2, <2>1 DEF TV!Discovered, TV!Endings, Sure
<1>3. CASE TV!Check(r)
  <2>1. token[r] \in Tokens /\ token[r].iss \in Issuers
    BY <1>3 DEF TV!Check, VerifySound
  <2>2. token[r].exp \in Nat /\ token[r].signed \in BOOLEAN
    BY <2>1
  <2> DEFINE j == TV!Judgement(token[r])
  <2>3. /\ j \in TV!Endings
        /\ j = "ok" => Sound(token[r]) /\ token[r].who # Nobody
        /\ j = "invalid" => ~Sure(token[r])
    BY <2>1, <2>2 DEF TV!Judgement, TV!Endings, Sound, Sure
  <2>4. j = "expired" => Sound(token[r]) /\ token[r].exp <= now
    BY <2>1, <2>2 DEF TV!Judgement, Sound
  <2>5. \/ verify' = [verify EXCEPT ![r] = j]
        \/ /\ KeySource[token[r].iss] # "jwks"
           /\ verify' = [verify EXCEPT ![r] = "invalid"]
    BY <1>3 DEF TV!Check
  <2>6. UNCHANGED <<now, token>>
    BY <1>3 DEF TV!Check
  <2>7. KeySource[token[r].iss] # "jwks" => ~Sure(token[r])
    BY DEF Sure
  <2> HIDE DEF j
  <2> QED BY <2>1, <2>3, <2>4, <2>5, <2>6, <2>7 DEF TV!Endings
<1> QED BY <1>1, <1>2, <1>3 DEF TV!Verification

LEMMA PresentInv ==
    ASSUME RInv, now \in Nat, NEW r \in Callers, Present(r)
    PROVE  RInv'
<1> USE DEF RInv
<1>1. PICK s \in {"discovering", "checking"} \cup TV!Endings :
                 /\ verify' = [verify EXCEPT ![r] = s]
                 /\ s \in {"discovering", "checking"} =>
                       token[r] \in Tokens /\ token[r].iss \in Issuers
                 /\ s = "discovering" => KeySource[token[r].iss] # "jwks"
                 /\ s = "ok" => Sound(token[r]) /\ token[r].who # Nobody
                 /\ s = "expired" => Sound(token[r]) /\ token[r].exp <= now
                 /\ s = "invalid" => ~Sure(token[r])
  BY VerifyStep DEF Present
<1>2. /\ UNCHANGED <<now, token, principal, authError, context, reply, asked, answer>>
      /\ request[r] = "new" /\ token[r] \in Tokens
      /\ request' = [request EXCEPT ![r] = "verifying"]
  BY DEF Present, TV!Verify, cacheOnlyVars, callerVars
<1>3. RequestTypeOK'
  BY <1>1, <1>2 DEF RequestTypeOK
<1>4. VerifySound'
  BY <1>1, <1>2 DEF VerifySound, RequestTypeOK, Sound, Sure
<1>5. CallerSound'
  BY <1>2 DEF CallerSound, RequestTypeOK, Sound, Sure
<1>6. AskedSound' /\ TrueCause'
  BY <1>2 DEF AskedSound, TrueCause, RequestTypeOK, Sound, Sure
<1> QED BY <1>3, <1>4, <1>5, <1>6

LEMMA VerifierInv ==
    ASSUME RInv, now \in Nat, Verifier
    PROVE  RInv'
<1> USE DEF RInv
<1>1. UNCHANGED <<asked, answer, request, principal, authError, context, reply>>
  BY DEF Verifier, cacheOnlyVars, callerVars, requestVars
<1>2. ASSUME NEW i \in Issuers, TV!Discovery(i) PROVE RInv'
  <2>1. UNCHANGED <<now, token, verify>>
    BY <1>2 DEF TV!Discovery, TV!Fetched, TV!Forget
  <2>2. RequestTypeOK' /\ AskedSound'
    BY <1>1, <2>1 DEF RequestTypeOK, AskedSound
  <2>3. VerifySound' /\ TrueCause'
    BY <1>1, <2>1 DEF VerifySound, TrueCause, Sound, Sure
  <2>4. CallerSound'
    BY <1>1, <2>1 DEF CallerSound, Sound, Sure
  <2> QED BY <2>2, <2>3, <2>4
<1>3. ASSUME NEW r \in Callers, TV!Verification(r) PROVE RInv'
  <2>1. PICK s \in {"discovering", "checking"} \cup TV!Endings :
                 /\ verify' = [verify EXCEPT ![r] = s]
                 /\ s \in {"discovering", "checking"} =>
                       token[r] \in Tokens /\ token[r].iss \in Issuers
                 /\ s = "discovering" => KeySource[token[r].iss] # "jwks"
                 /\ s = "ok" => Sound(token[r]) /\ token[r].who # Nobody
                 /\ s = "expired" => Sound(token[r]) /\ token[r].exp <= now
                 /\ s = "invalid" => ~Sure(token[r])
    BY <1>3, VerifyStep
  <2>2. UNCHANGED <<now, token>>
    BY <1>3, VerifyStep
  <2>3. RequestTypeOK' /\ CallerSound' /\ AskedSound' /\ TrueCause'
    BY <1>1, <2>1, <2>2 DEF RequestTypeOK, CallerSound, AskedSound, TrueCause,
                            Sound, Sure
  <2>4. VerifySound'
    BY <2>1, <2>2 DEF VerifySound, RequestTypeOK, Sound, Sure
  <2> QED BY <2>3, <2>4
<1> QED BY <1>2, <1>3 DEF Verifier

LEMMA HookInv ==
    ASSUME RInv, NEW r \in Callers, Anonymous(r) \/ Establish(r)
    PROVE  RInv'
<1> USE DEF RInv
<1>1. /\ UNCHANGED <<now, token, verify, asked, answer, context, reply>>
      /\ request' = [request EXCEPT ![r] = "handling"]
      /\ request[r] \in {"new", "verifying"}
  BY DEF Anonymous, Establish, vars, callerVars, verifierVars
<1>2. principal[r] = Nobody /\ authError[r] = "none"
  BY <1>1 DEF CallerSound
<1>3. CASE Anonymous(r)
  <2>1. /\ UNCHANGED principal /\ token[r] \in {NoHeader, BadHeader}
        /\ authError' = [authError EXCEPT ![r] =
                            IF token[r] = BadHeader THEN "InvalidToken" ELSE "none"]
    BY <1>2, <1>3 DEF Anonymous
  <2>2. RequestTypeOK'
    BY <1>1, <2>1 DEF RequestTypeOK
  <2>3. CallerSound'
    BY <1>1, <1>2, <2>1 DEF CallerSound, RequestTypeOK, Sound, Sure
  <2>4. VerifySound' /\ AskedSound' /\ TrueCause'
    BY <1>1, <2>1 DEF VerifySound, AskedSound, TrueCause, RequestTypeOK, Sound, Sure
  <2> QED BY <2>2, <2>3, <2>4
<1>4. CASE Establish(r)
  <2>1. token[r] \in Tokens /\ verify[r] \in {"ok", "expired", "invalid"}
    BY <1>4 DEF Establish, CallerSound, TV!Endings
  <2>2. PICK p, e :
            /\ principal' = [principal EXCEPT ![r] = p]
            /\ authError' = [authError EXCEPT ![r] = e]
            /\ \/ /\ p = token[r].who /\ p # Nobody /\ e = "none" /\ Sound(token[r])
               \/ /\ p = Nobody /\ e = "SessionExpired"
                  /\ Sound(token[r]) /\ token[r].exp <= now
               \/ /\ p = Nobody /\ e = "InvalidToken" /\ ~Sure(token[r])
    <3>1. CASE verify[r] = "ok"
      BY <1>2, <1>4, <3>1 DEF Establish, VerifySound
    <3>2. CASE verify[r] = "expired"
      BY <1>2, <1>4, <3>2 DEF Establish, VerifySound
    <3>3. CASE verify[r] = "invalid"
      BY <1>2, <1>4, <3>3 DEF Establish, VerifySound
    <3> QED BY <2>1, <3>1, <3>2, <3>3
  <2>3. p \in Identities \cup {Nobody}
        /\ e \in {"none", "SessionExpired", "InvalidToken"}
    BY <2>1, <2>2 DEF Identities
  <2>4. RequestTypeOK'
    BY <1>1, <2>2, <2>3 DEF RequestTypeOK
  <2>5. CallerSound'
    BY <1>1, <2>1, <2>2 DEF CallerSound, RequestTypeOK, Sound, Sure
  <2>6. AskedSound'
    <3>1. request[r] # "asking" /\ request[r] # "answered"
      BY <1>1
    <3>2. reply[r] # "granted"
      BY <3>1 DEF AskedSound
    <3> QED BY <1>1, <2>2, <3>1, <3>2 DEF AskedSound, RequestTypeOK
  <2>7. VerifySound' /\ TrueCause'
    BY <1>1 DEF VerifySound, TrueCause, Sound, Sure
  <2> QED BY <2>4, <2>5, <2>6, <2>7
<1> QED BY <1>3, <1>4

LEMMA HandlerInv ==
    ASSUME RInv, TypeOK, WaitsSound, NEW r \in Callers,
           Ensure(r) \/ HasNothing(r) \/ (\E c \in Contexts : Ask(r, c)) \/ Decide(r)
    PROVE  RInv'
<1> USE DEF RInv
<1>1. UNCHANGED <<now, token, verify, principal, authError>>
      /\ request[r] \in {"handling", "asking"}
  BY DEF Ensure, HasNothing, Ask, Decide, Replies, Get, verifierVars
<1>2. CASE Ensure(r) \/ HasNothing(r)
  <2>1. PICK what :
            /\ reply' = [reply EXCEPT ![r] = what] /\ what # "granted"
            /\ what = "NotAuthenticated" =>
                  principal[r] = Nobody /\ authError[r] = "none"
            /\ what \in {"SessionExpired", "InvalidToken"} => authError[r] = what
    BY <1>2 DEF Ensure, HasNothing, Replies, Refusal, RequestTypeOK
  <2>2. request' = [request EXCEPT ![r] = "answered"]
        /\ UNCHANGED <<asked, answer, context>>
        /\ request[r] = "handling"
    BY <1>2 DEF Ensure, HasNothing, Replies, cacheOnlyVars, callerVars
  <2>3. RequestTypeOK' /\ VerifySound'
    BY <1>1, <2>1, <2>2 DEF RequestTypeOK, VerifySound, Sound, Sure
  <2>4. CallerSound'
    BY <1>1, <2>2 DEF CallerSound, RequestTypeOK, Sound, Sure
  <2>5. AskedSound'
    BY <1>1, <2>1, <2>2 DEF AskedSound, RequestTypeOK
  <2>6. TrueCause'
    BY <1>1, <2>1, <2>2 DEF TrueCause, CallerSound, RequestTypeOK, Sound, Sure
  <2> QED BY <2>3, <2>4, <2>5, <2>6
<1>3. ASSUME NEW c \in Contexts, Ask(r, c) PROVE RInv'
  <2>1. /\ asked' = [asked EXCEPT ![r] = [key |-> KeyOf[<<principal[r], c>>], at |-> now]]
        /\ answer' = [answer EXCEPT ![r] = "none"]
        /\ request' = [request EXCEPT ![r] = "asking"] /\ request[r] = "handling"
        /\ principal[r] # Nobody /\ UNCHANGED reply
        /\ context' = [context EXCEPT ![r] = c]
    BY <1>3 DEF Ask, Get, KeyFor
  <2>2. RequestTypeOK' /\ VerifySound' /\ TrueCause'
    BY <1>1, <2>1 DEF RequestTypeOK, VerifySound, TrueCause, Sound, Sure
  <2>3. CallerSound'
    BY <1>1, <2>1 DEF CallerSound, RequestTypeOK, Sound, Sure
  <2>4. AskedSound'
    <3>1. reply[r] # "granted"
      BY <2>1 DEF AskedSound
    <3>2. asked'[r].key = KeyOf[<<principal[r], context'[r]>>]
      BY <2>1 DEF TypeOK, RequestTypeOK
    <3>3. \A q \in Callers : q # r =>
              /\ asked'[q] = asked[q] /\ answer'[q] = answer[q]
              /\ request'[q] = request[q] /\ context'[q] = context[q]
      BY <2>1 DEF TypeOK, RequestTypeOK
    <3> QED BY <1>1, <2>1, <3>1, <3>2, <3>3 DEF AskedSound
  <2> QED BY <2>2, <2>3, <2>4
<1>4. CASE Decide(r)
  <2>1. PICK v \in {"error", "granted", "denied"} :
            answer' = [answer EXCEPT ![r] = v]
    <3>1. waits[r] # 0 /\ waits[r] \in DOMAIN loads
      BY <1>4 DEF Decide, Receive, WaitsSound
    <3>2. loads[waits[r]] \in Load
      BY <3>1 DEF TypeOK
    <3> QED BY <1>4, <3>2 DEF Decide, Receive, Load, Verdicts
  <2>2. answer'[r] = v
    BY <2>1 DEF TypeOK
  <2>3. /\ request' = [request EXCEPT ![r] = "answered"] /\ request[r] = "asking"
        /\ reply' = [reply EXCEPT ![r] = v] /\ UNCHANGED <<asked, context>>
    BY <1>4, <2>2 DEF Decide, Replies, Receive
  <2>4. RequestTypeOK' /\ VerifySound' /\ TrueCause'
    BY <1>1, <2>3 DEF RequestTypeOK, VerifySound, TrueCause, Sound, Sure
  <2>5. CallerSound'
    BY <1>1, <2>3 DEF CallerSound, RequestTypeOK, Sound, Sure
  <2>6. AskedSound'
    <3>1. \A q \in Callers : q # r =>
              reply'[q] = reply[q] /\ answer'[q] = answer[q] /\ request'[q] = request[q]
      BY <2>1, <2>3 DEF TypeOK, RequestTypeOK
    <3>2. reply'[r] = v /\ request'[r] = "answered"
      BY <2>3 DEF RequestTypeOK
    <3> QED BY <1>1, <2>2, <2>3, <3>1, <3>2 DEF AskedSound
  <2> QED BY <2>4, <2>5, <2>6
<1> QED BY <1>2, <1>3, <1>4

LEMMA ClockInv ==
    ASSUME RInv, TypeOK, RTick \/ Loader \/ UNCHANGED rvars
    PROVE  RInv'
<1> USE DEF RInv
<1>1. UNCHANGED <<token, verify, request, principal, authError, context, reply, asked, answer>>
  BY DEF RTick, Tick, Loader, LoadStep, LoadResolves, LoadRejects, Evict, Change,
         rvars, vars, callerVars, verifierVars, requestVars
<1>2. now \in Nat /\ now' \in Nat /\ now <= now'
  <2>1. now' = now \/ now' = now + 1
    BY DEF RTick, Tick, Loader, LoadStep, LoadResolves, LoadRejects, Evict, Change,
           rvars, vars
  <2> QED BY <2>1 DEF TypeOK
<1>3. \A t \in Tokens : t.exp <= now => t.exp <= now'
  BY <1>2
<1>4. RequestTypeOK' /\ AskedSound'
  BY <1>1 DEF RequestTypeOK, AskedSound
<1>5. VerifySound' /\ CallerSound' /\ TrueCause'
  BY <1>1, <1>3 DEF VerifySound, CallerSound, TrueCause, Sound, Sure
<1> QED BY <1>4, <1>5

LEMMA RequestNext ==
    ASSUME RInv, IInv, [RNext]_rvars
    PROVE  RInv'
<1>1. TypeOK /\ WaitsSound /\ now \in Nat
  BY DEF IInv, TypeOK
<1>2. ASSUME NEW r \in Callers, Request(r) PROVE RInv'
  BY <1>1, <1>2, PresentInv, HookInv, HandlerInv DEF Request
<1> QED BY <1>1, <1>2, VerifierInv, ClockInv DEF RNext

-----------------------------------------------------------------------------
(***************************************************************************)
(* The cache in the composition.                                           *)
(***************************************************************************)

LEMMA StepOfCache ==
    ASSUME RInv, [RNext]_rvars
    PROVE  [Next]_vars
<1>1. ASSUME NEW r \in Callers, Request(r) PROVE [Next]_vars
  <2>1. CASE Anonymous(r) \/ Establish(r)
    BY <2>1 DEF Anonymous, Establish
  <2>2. CASE Present(r) \/ Ensure(r) \/ HasNothing(r)
    BY <2>2 DEF Present, TV!Verify, Ensure, HasNothing, Replies, vars, cacheOnlyVars
  <2>3. ASSUME NEW c \in Contexts, Ask(r, c) PROVE [Next]_vars
    <3>1. principal[r] \in Identities
      BY <2>3 DEF Ask, RInv, RequestTypeOK
    <3>2. KeyFor(principal[r], c) \in Keys
      BY <3>1 DEF KeyFor
    <3> QED BY <2>3, <3>2 DEF Ask, Next
  <2>4. CASE Decide(r)
    BY <2>4 DEF Decide, Next
  <2> QED BY <1>1, <2>1, <2>2, <2>3, <2>4 DEF Request
<1>2. CASE Verifier
  <2>1. UNCHANGED now
    BY <1>2 DEF Verifier, TV!Discovery, TV!Fetched, TV!Forget, TV!Verification,
                TV!Discovered, TV!Check
  <2> QED BY <1>2, <2>1 DEF Verifier, vars, cacheOnlyVars
<1>3. CASE Loader \/ RTick
  BY <1>3 DEF Loader, RTick, Next
<1>4. CASE UNCHANGED rvars
  BY <1>4 DEF rvars
<1> QED BY <1>1, <1>2, <1>3, <1>4 DEF RNext

LEMMA Invariants == RSpec => [](RInv /\ IInv)
<1>1. RInit => RInv /\ IInv
  BY RequestInit, InitInv DEF RInit
<1>2. RInv /\ IInv /\ [RNext]_rvars => (RInv /\ IInv)'
  BY RequestNext, StepOfCache, NextInv
<1> QED BY <1>1, <1>2, PTL DEF RSpec

\* The requests use the cache as AccessCache says: whatever they verify, ask or
\* drop, the composition is a behaviour of the cache (security.ts:115-121).
THEOREM RequestsUseTheCache == RSpec => Spec
<1>1. RInit => Init
  BY DEF RInit
<1>2. RInv /\ [RNext]_rvars => [Next]_vars
  BY StepOfCache
<1> QED BY <1>1, <1>2, Invariants, PTL DEF RSpec, Spec

\* An ensure*() that refuses tells the true cause, for every set of tokens,
\* issuers and requests (ensureAuthenticated(), security.ts:94-99).
THEOREM TrueCauseAlways == RSpec => []TrueCause
<1>1. RInv => TrueCause
  BY DEF RInv
<1> QED BY <1>1, Invariants, PTL

\* Access is granted only if the identity of the accepted token held the
\* permission, in the context the request asks for, less than the TTL before it
\* asked (ensureAny(), security.ts:135-152).
THEOREM GrantedToOwnerAlways == RSpec => []GrantedToOwner
<1>1. RInv /\ IInv => GrantedToOwner
  <2> SUFFICES ASSUME RInv, IInv, NEW r \in Callers, reply[r] = "granted"
               PROVE  /\ Sound(token[r])
                      /\ LET t == heldUntil[KeyOf[<<token[r].who, context[r]>>]]
                         IN  asked[r].at <= t \/ asked[r].at < t + Ttl
    BY DEF GrantedToOwner
  <2>1. asked[r].key = KeyOf[<<principal[r], context[r]>>]
    BY DEF RInv, AskedSound
  <2>2. answer[r] = "granted" /\ principal[r] = token[r].who /\ Sound(token[r])
    BY DEF RInv, AskedSound, CallerSound
  <2>3. LET t == heldUntil[asked[r].key]
        IN  asked[r].at <= t \/ asked[r].at < t + Ttl
    BY <2>2 DEF IInv, RevocationHonoured
  <2> QED BY <2>1, <2>2, <2>3
<1> QED BY <1>1, Invariants, PTL

-----------------------------------------------------------------------------
(***************************************************************************)
(* The verifier in the composition: the discovery of an issuer's keys is a *)
(* single flight.                                                          *)
(***************************************************************************)
LEMMA DiscoveryInit == RInit => TV!DiscoveryInv
  BY DEF RInit, TV!Init, TV!DiscoveryInv, TV!DiscoveryTypeOK, TV!EntriesSound,
         TV!AwaitsSound, TV!Flights

\* A step that leaves discoveries alone leaves what is known of them, and what
\* SingleFlight sees of them.
LEMMA NoDiscovery ==
    ASSUME RInv, TV!DiscoveryInv, UNCHANGED <<token, discovery, last, flights, flight>>,
           \A r \in Callers : \/ verify'[r] = verify[r]
                              \/ verify[r] # "discovering" /\ verify'[r] \notin {"idle", "discovering"}
    PROVE  TV!DiscoveryInv' /\ UNCHANGED TV!SF!vars
<1> USE DEF TV!DiscoveryInv
<1>1. TV!DiscoveryTypeOK' /\ TV!EntriesSound'
  BY DEF TV!DiscoveryTypeOK, TV!EntriesSound
<1>2. TV!AwaitsSound'
  BY DEF TV!AwaitsSound
<1>3. UNCHANGED TV!flightsBar
  BY DEF TV!flightsBar
<1>4. \A r \in Callers : TV!issuerOf(r)' = TV!issuerOf(r)
  BY DEF TV!issuerOf
<1>5. \A r \in Callers : verify'[r] = "discovering" <=> verify[r] = "discovering"
  OBVIOUS
<1>6. UNCHANGED TV!waitsBar
  BY <1>4, <1>5 DEF TV!waitsBar
<1>7. UNCHANGED TV!answerBar
  BY <1>3, <1>4, <1>5 DEF TV!answerBar
<1> QED BY <1>1, <1>2, <1>3, <1>6, <1>7 DEF TV!SF!vars

\* Two tables that differ in one place.
LEMMA OnePlace ==
    ASSUME NEW I, NEW F, NEW S, NEW f, NEW g, NEW i \in I, NEW n \in F, NEW v,
           f \in [I -> [F -> S]], g \in [I -> [F -> S]],
           \A c \in I, m \in F : g[c][m] = IF c = i /\ m = n THEN v ELSE f[c][m]
    PROVE  g = [f EXCEPT ![i][n] = v]
<1>1. \A c \in I : c # i => g[c] = f[c]
  OBVIOUS
<1>2. g[i] = [f[i] EXCEPT ![n] = v]
  OBVIOUS
<1> QED BY <1>1, <1>2

\* What SingleFlight sees of one flight that changes.
LEMMA FlightBar ==
    ASSUME TV!DiscoveryInv, TV!DiscoveryTypeOK', NEW i \in Issuers, NEW n \in TV!Flights, NEW s,
           \A c \in Issuers, m \in TV!Flights :
              flights'[c][m] = IF c = i /\ m = n THEN s ELSE flights[c][m]
    PROVE  TV!flightsBar' = [TV!flightsBar EXCEPT ![i][n] = TV!FlightState(s)]
<1> USE DEF TV!DiscoveryInv, TV!DiscoveryTypeOK
<1>1. \A c \in Issuers, m \in TV!Flights :
          /\ TV!flightsBar[c][m] = TV!FlightState(flights[c][m])
          /\ TV!flightsBar'[c][m] = TV!FlightState(flights'[c][m])
  BY DEF TV!flightsBar, TV!FlightState
<1> DEFINE Seen == {"unused", "running", "ok", "failed"}
<1>2. \A x \in {"unused", "fetching", "found", "rejected", "failed"} :
          TV!FlightState(x) \in Seen
  BY DEF TV!FlightState
<1>3. /\ TV!flightsBar \in [Issuers -> [TV!Flights -> Seen]]
      /\ TV!flightsBar' \in [Issuers -> [TV!Flights -> Seen]]
  <2>1. \A c \in Issuers, m \in TV!Flights :
            /\ TV!FlightState(flights[c][m]) \in Seen
            /\ TV!FlightState(flights'[c][m]) \in Seen
    <3> DEFINE Raw == {"unused", "fetching", "found", "rejected", "failed"}
    <3>1. \A c \in Issuers, m \in TV!Flights : flights[c][m] \in Raw /\ flights'[c][m] \in Raw
      OBVIOUS
    <3>2. \A x \in Raw : TV!FlightState(x) \in Seen
      BY <1>2
    <3> HIDE DEF Raw, Seen, TV!DiscoveryTypeOK
    <3> QED BY <3>1, <3>2
  <2> HIDE DEF Seen
  <2>2. /\ TV!flightsBar = [c \in Issuers |-> [m \in TV!Flights |-> TV!FlightState(flights[c][m])]]
        /\ TV!flightsBar' = [c \in Issuers |-> [m \in TV!Flights |-> TV!FlightState(flights'[c][m])]]
    BY DEF TV!flightsBar, TV!FlightState
  <2>3. TV!flightsBar \in [Issuers -> [TV!Flights -> Seen]]
    BY <2>1, <2>2
  <2>4. TV!flightsBar' \in [Issuers -> [TV!Flights -> Seen]]
    BY <2>1, <2>2
  <2> QED BY <2>3, <2>4
<1>4. \A c \in Issuers, m \in TV!Flights :
          TV!flightsBar'[c][m] = IF c = i /\ m = n THEN TV!FlightState(s) ELSE TV!flightsBar[c][m]
  BY <1>1
<1> QED BY <1>3, <1>4, OnePlace

\* What a request that begins to discover does, whichever discovery it joins.
LEMMA JoinsOne ==
    ASSUME RInv, TV!DiscoveryInv, NEW r \in Callers, verify[r] = "idle",
           token[r] \in Tokens, NEW i \in Issuers, i = token[r].iss, UNCHANGED token,
           NEW n \in TV!Flights, flight'[r] = n, verify'[r] = "discovering",
           \A q \in Callers : q # r => flight'[q] = flight[q] /\ verify'[q] = verify[q],
           \A q \in Callers : flight[q] # 0 =>
               flights'[token[q].iss][flight[q]] = flights[token[q].iss][flight[q]]
    PROVE  /\ TV!waitsBar[r].flight = 0
           /\ TV!waitsBar' = [TV!waitsBar EXCEPT ![r] = [cell |-> i, flight |-> n]]
           /\ TV!answerBar' = [TV!answerBar EXCEPT ![r] = "none"]
<1> USE DEF TV!DiscoveryInv, RInv
<1>1. TV!waitsBar[r].flight = 0
  BY DEF TV!waitsBar
<1>2. /\ \A q \in Callers : TV!issuerOf(q)' = TV!issuerOf(q)
      /\ TV!issuerOf(r) = i
  BY DEF TV!issuerOf
<1>3. TV!waitsBar' = [TV!waitsBar EXCEPT ![r] = [cell |-> i, flight |-> n]]
  <2>1. \A q \in Callers : q # r => TV!waitsBar'[q] = TV!waitsBar[q]
    BY <1>2 DEF TV!waitsBar
  <2>2. TV!waitsBar'[r] = [cell |-> i, flight |-> n]
    BY <1>2 DEF TV!waitsBar
  <2>3. /\ TV!waitsBar = [q \in Callers |-> TV!waitsBar[q]]
        /\ TV!waitsBar' = [q \in Callers |-> TV!waitsBar'[q]]
    BY DEF TV!waitsBar
  <2> QED BY <2>1, <2>2, <2>3
<1>4. \A q \in Callers : flight[q] # 0 =>
          /\ TV!issuerOf(q) = token[q].iss /\ token[q].iss \in Issuers
          /\ flight[q] \in TV!Flights
  BY DEF TV!AwaitsSound, TV!issuerOf, TV!DiscoveryTypeOK, TV!Flights
<1>5. ASSUME NEW q \in Callers, flight[q] # 0
      PROVE  TV!flightsBar'[TV!issuerOf(q)][flight[q]] = TV!flightsBar[TV!issuerOf(q)][flight[q]]
  BY <1>4, <1>5 DEF TV!flightsBar, TV!FlightState
<1>6. TV!answerBar' = [TV!answerBar EXCEPT ![r] = "none"]
  <2>1. \A q \in Callers : q # r => TV!answerBar'[q] = TV!answerBar[q]
    BY <1>2, <1>5 DEF TV!answerBar
  <2>2. TV!answerBar'[r] = "none"
    BY DEF TV!answerBar
  <2>3. /\ TV!answerBar = [q \in Callers |-> TV!answerBar[q]]
        /\ TV!answerBar' = [q \in Callers |-> TV!answerBar'[q]]
    BY DEF TV!answerBar
  <2> QED BY <2>1, <2>2, <2>3
<1> QED BY <1>1, <1>3, <1>6

\* getKey() shares the discovery of its issuer, or starts the one there is.
LEMMA DiscoverRefines ==
    ASSUME RInv, TV!DiscoveryInv, NEW r \in Callers, verify[r] = "idle",
           token[r] \in Tokens, NEW i \in Issuers, i = token[r].iss, UNCHANGED token,
           TV!Discover(r, i)
    PROVE  TV!DiscoveryInv' /\ (TV!SF!Share(r, i) \/ TV!SF!Launch(r, i))
<1> USE DEF TV!DiscoveryInv, RInv
<1> DEFINE usable == {c \in Issuers : discovery[c] # 0}
<1>1. /\ verify' = [verify EXCEPT ![r] = "discovering"]
      /\ flight' = [flight EXCEPT ![r] = discovery'[i]]
  BY DEF TV!Discover
<1>2. /\ flight'[r] = discovery'[i] /\ verify'[r] = "discovering"
      /\ \A q \in Callers : q # r => flight'[q] = flight[q] /\ verify'[q] = verify[q]
  BY <1>1 DEF TV!DiscoveryTypeOK, RequestTypeOK
<1>3. CASE discovery[i] # 0 /\ UNCHANGED <<discovery, last, flights>>
  <2>1. discovery[i] = last[i] /\ last[i] \in TV!Flights
    BY <1>3 DEF TV!EntriesSound, TV!DiscoveryTypeOK, TV!Flights
  <2>2. /\ TV!waitsBar[r].flight = 0
        /\ TV!waitsBar' = [TV!waitsBar EXCEPT ![r] = [cell |-> i, flight |-> last[i]]]
        /\ TV!answerBar' = [TV!answerBar EXCEPT ![r] = "none"]
    <3> HIDE DEF RInv, TV!DiscoveryInv
    <3>1. flight'[r] = last[i]
      BY <1>3, <1>2, <2>1
    <3>2. \A q \in Callers : flight[q] # 0 =>
              flights'[token[q].iss][flight[q]] = flights[token[q].iss][flight[q]]
      BY <1>3
    <3> QED BY <1>2, <2>1, <3>1, <3>2, JoinsOne
  <2>3. UNCHANGED TV!flightsBar
    BY <1>3 DEF TV!flightsBar
  <2>4. TV!SF!Share(r, i)
    BY <1>3, <2>2, <2>3 DEF TV!SF!Share
  <2>5. TV!DiscoveryTypeOK' /\ TV!EntriesSound'
    BY <1>1, <1>3, <2>1 DEF TV!DiscoveryTypeOK, TV!EntriesSound, TV!Flights
  <2>6. TV!AwaitsSound'
    BY <1>1, <1>3, <2>1 DEF TV!AwaitsSound, TV!DiscoveryTypeOK, TV!Flights, RequestTypeOK
  <2> QED BY <2>4, <2>5, <2>6
<1>4. CASE /\ discovery[i] = 0 /\ last[i] < MaxFlights
           /\ last' = [last EXCEPT ![i] = @ + 1]
           /\ flights' = [flights EXCEPT ![i][last[i] + 1] = "fetching"]
           /\ discovery' = [discovery EXCEPT ![i] = last[i] + 1]
  <2>1. last[i] + 1 \in TV!Flights /\ last[i] \in 0 .. MaxFlights
    BY <1>4 DEF TV!DiscoveryTypeOK, TV!Flights
  <2>2. PICK n \in TV!Flights : n = last[i] + 1
    BY <2>1
  <2>3. n \in TV!Flights /\ n \in 0 .. MaxFlights /\ n > last[i] /\ last[i] \in 0 .. MaxFlights
    BY <2>1, <2>2 DEF TV!Flights
  <2>4. /\ last' = [last EXCEPT ![i] = n] /\ discovery' = [discovery EXCEPT ![i] = n]
        /\ flights' = [flights EXCEPT ![i][n] = "fetching"]
        /\ flight' = [flight EXCEPT ![r] = n]
    BY <1>1, <1>4, <2>2 DEF TV!DiscoveryTypeOK
  <2>5. \A m \in TV!Flights : m <= n <=> m <= last[i] \/ m = n
    BY <2>3, <2>2 DEF TV!Flights
  <2>6. flights[i][n] = "unused"
    BY <2>3 DEF TV!EntriesSound
  <2>7. \A q \in Callers : flight[q] # 0 =>
            /\ token[q].iss \in Issuers /\ flight[q] \in TV!Flights
            /\ flight[q] <= last[token[q].iss]
            /\ token[q].iss # i \/ flight[q] # n
    BY <2>3 DEF TV!AwaitsSound, TV!DiscoveryTypeOK, TV!Flights
  <2>8. \A q \in Callers : flight[q] # 0 =>
            flights'[token[q].iss][flight[q]] = flights[token[q].iss][flight[q]]
    BY <2>4, <2>7 DEF TV!DiscoveryTypeOK
  <2>9. /\ TV!waitsBar[r].flight = 0
        /\ TV!waitsBar' = [TV!waitsBar EXCEPT ![r] = [cell |-> i, flight |-> n]]
        /\ TV!answerBar' = [TV!answerBar EXCEPT ![r] = "none"]
    <3>1. flight'[r] = n
      BY <2>4 DEF TV!DiscoveryTypeOK
    <3> HIDE DEF RInv, TV!DiscoveryInv
    <3> QED BY <1>2, <2>3, <2>8, <3>1, JoinsOne
  <2>10. TV!DiscoveryTypeOK'
    BY <2>3, <2>4 DEF TV!DiscoveryTypeOK
  <2>11. TV!flightsBar' = [TV!flightsBar EXCEPT ![i][n] = "running"]
    <3>1. PICK s : s = "fetching"
      OBVIOUS
    <3>2. \A c \in Issuers, m \in TV!Flights :
              flights'[c][m] = IF c = i /\ m = n THEN s ELSE flights[c][m]
      BY <2>3, <2>4, <3>1 DEF TV!DiscoveryTypeOK
    <3>3. TV!flightsBar' = [TV!flightsBar EXCEPT ![i][n] = TV!FlightState(s)]
      <4> HIDE RequestAssumption DEF RInv, TV!DiscoveryInv
      <4> QED BY <2>3, <2>10, <3>2, FlightBar
    <3> QED BY <3>1, <3>3 DEF TV!FlightState
  <2>12. \A m \in 1 .. MaxFlights : TV!flightsBar[i][m] # "running"
    <3>1. \A m \in TV!Flights : flights[i][m] \notin {"fetching", "rejected"}
      BY <1>4 DEF TV!EntriesSound, TV!Flights
    <3>2. \A m \in TV!Flights : flights[i][m] \in {"unused", "found", "failed"}
      BY <3>1 DEF TV!DiscoveryTypeOK
    <3>3. \A m \in TV!Flights : TV!flightsBar[i][m] = TV!FlightState(flights[i][m])
      BY DEF TV!flightsBar
    <3> QED BY <3>2, <3>3 DEF TV!FlightState, TV!Flights
  <2>13. usable' = usable \cup {i} /\ i \notin usable
    BY <1>4, <2>3, <2>4 DEF TV!DiscoveryTypeOK, TV!Flights
  <2>14. TV!SF!Launch(r, i)
    BY <1>4, <2>4, <2>9, <2>11, <2>12, <2>13, <2>2 DEF TV!SF!Launch
  <2>15. TV!EntriesSound'
    <3> SUFFICES ASSUME NEW c \in Issuers
                 PROVE  /\ discovery'[c] \in {0, last'[c]}
                        /\ \A m \in TV!Flights :
                              /\ m <= last'[c] <=> flights'[c][m] # "unused"
                              /\ flights'[c][m] \in {"fetching", "rejected"} => m = discovery'[c]
      BY DEF TV!EntriesSound
    <3>1. CASE c # i
      BY <2>4, <3>1 DEF TV!EntriesSound, TV!DiscoveryTypeOK
    <3>2. CASE c = i
      <4>1. discovery'[i] = n /\ last'[i] = n
        BY <2>4 DEF TV!DiscoveryTypeOK
      <4>2. \A m \in TV!Flights : flights'[i][m] = IF m = n THEN "fetching" ELSE flights[i][m]
        BY <2>4 DEF TV!DiscoveryTypeOK
      <4> QED BY <1>4, <2>5, <3>2, <4>1, <4>2 DEF TV!EntriesSound, TV!Flights
    <3> QED BY <3>1, <3>2
  <2>16. TV!AwaitsSound'
    <3>1. \A q \in Callers : q # r => flight'[q] = flight[q] /\ verify'[q] = verify[q]
      BY <1>1, <2>4 DEF TV!DiscoveryTypeOK, RequestTypeOK
    <3>2. flight'[r] = n /\ verify'[r] = "discovering" /\ last'[i] = n
      BY <1>1, <2>4 DEF TV!DiscoveryTypeOK, RequestTypeOK
    <3>3. \A c \in Issuers : last[c] <= last'[c] /\ last[c] \in Nat /\ last'[c] \in Nat
      BY <2>3, <2>4 DEF TV!DiscoveryTypeOK
    <3>4. \A q \in Callers : q # r /\ flight[q] # 0 => flight[q] <= last'[token[q].iss]
      BY <2>7, <3>3 DEF TV!Flights
    <3>5. n # 0 /\ n <= n
      BY <2>3 DEF TV!Flights
    <3> QED BY <2>8, <3>1, <3>2, <3>4, <3>5 DEF TV!AwaitsSound
  <2> QED BY <2>14, <2>10, <2>15, <2>16
<1> QED BY <1>3, <1>4 DEF TV!Discover

\* A discovery settles: the flight lands where it is the latest of its issuer.
LEMMA DiscoveryRefines ==
    ASSUME RInv, TV!DiscoveryInv, NEW i \in Issuers, NEW n \in TV!Flights,
           TV!Fetched(i, n) \/ TV!Forget(i, n)
    PROVE  /\ TV!DiscoveryInv'
           /\ TV!SF!Succeed(i) \/ TV!SF!Fail(i) \/ UNCHANGED TV!SF!vars
<1> USE DEF TV!DiscoveryInv, RInv
<1> DEFINE usable == {c \in Issuers : discovery[c] # 0}
<1>1. /\ flights[i][n] \in {"fetching", "rejected"}
      /\ UNCHANGED <<now, token, getKey, last, flight, verify>>
  BY DEF TV!Fetched, TV!Forget
<1>2. n = discovery[i] /\ n = last[i] /\ n # 0 /\ n \in 1 .. MaxFlights
  BY <1>1 DEF TV!EntriesSound, TV!Flights
<1>3. PICK s \in {"found", "rejected", "failed"} :
          /\ flights' = [flights EXCEPT ![i][n] = s]
          /\ s # "failed" => flights[i][n] = "fetching" /\ UNCHANGED discovery
          /\ s = "failed" => /\ flights[i][n] = "rejected"
                             /\ discovery' = [discovery EXCEPT ![i] = 0]
  BY DEF TV!Fetched, TV!Forget
<1>4. \A c \in Issuers, m \in TV!Flights :
          flights'[c][m] = IF c = i /\ m = n THEN s ELSE flights[c][m]
  BY <1>3 DEF TV!DiscoveryTypeOK
<1>5. \A q \in Callers : flight[q] # 0 =>
          /\ token[q] \in Tokens /\ token[q].iss \in Issuers /\ flight[q] \in TV!Flights
          /\ TV!issuerOf(q) = token[q].iss
          /\ verify[q] # "discovering" =>
                flights[token[q].iss][flight[q]] \in {"found", "failed"}
  BY DEF TV!AwaitsSound, TV!DiscoveryTypeOK, TV!Flights, TV!issuerOf
<1>6. \A q \in Callers : flight[q] # 0 /\ verify[q] # "discovering" =>
          flights'[token[q].iss][flight[q]] = flights[token[q].iss][flight[q]]
  BY <1>1, <1>4, <1>5
<1>7. TV!DiscoveryInv'
  <2>1. TV!DiscoveryTypeOK'
    BY <1>1, <1>2, <1>3 DEF TV!DiscoveryTypeOK
  <2>2. TV!EntriesSound'
    <3>1. \A c \in Issuers : c # i => discovery'[c] = discovery[c]
      BY <1>3 DEF TV!DiscoveryTypeOK
    <3>2. discovery'[i] = IF s = "failed" THEN 0 ELSE n
      BY <1>2, <1>3 DEF TV!DiscoveryTypeOK
    <3> QED BY <1>1, <1>2, <1>3, <1>4, <3>1, <3>2 DEF TV!EntriesSound
  <2>3. TV!AwaitsSound'
    BY <1>1, <1>6 DEF TV!AwaitsSound
  <2> QED BY <2>1, <2>2, <2>3
<1>8. UNCHANGED TV!waitsBar
  BY <1>1 DEF TV!waitsBar, TV!issuerOf
<1>9. TV!flightsBar' = [TV!flightsBar EXCEPT ![i][n] = TV!FlightState(s)]
  BY <1>4, <1>7, FlightBar
<1>10. UNCHANGED TV!answerBar
  <2>1. \A q \in Callers : TV!issuerOf(q)' = TV!issuerOf(q)
    BY <1>1 DEF TV!issuerOf
  <2>2. ASSUME NEW q \in Callers, flight[q] # 0, verify[q] # "discovering"
        PROVE  TV!flightsBar'[TV!issuerOf(q)][flight[q]] = TV!flightsBar[TV!issuerOf(q)][flight[q]]
    BY <1>5, <1>6, <2>2 DEF TV!flightsBar, TV!FlightState
  <2> QED BY <1>1, <2>1, <2>2 DEF TV!answerBar
<1>11. TV!flightsBar[i][n] = "running" /\ TV!flightsBar[i][last[i]] = "running"
  BY <1>1, <1>2 DEF TV!flightsBar, TV!FlightState
<1>12. CASE s = "found"
  <2>1. usable' = usable /\ TV!FlightState(s) = "ok"
    BY <1>3, <1>12 DEF TV!FlightState
  <2> QED BY <1>1, <1>2, <1>7, <1>8, <1>9, <1>10, <1>11, <2>1 DEF TV!SF!Succeed
<1>13. CASE s = "rejected"
  <2>1. usable' = usable /\ TV!FlightState(s) = "running"
    BY <1>3, <1>13 DEF TV!FlightState
  <2>2. \A c \in Issuers, m \in TV!Flights :
            TV!FlightState(flights'[c][m]) = TV!FlightState(flights[c][m])
    BY <1>1, <1>4, <1>13 DEF TV!FlightState
  <2>3. UNCHANGED TV!flightsBar
    BY <2>2 DEF TV!flightsBar
  <2> QED BY <1>1, <1>7, <1>8, <1>10, <2>1, <2>3 DEF TV!SF!vars
<1>14. CASE s = "failed"
  <2>1. usable' = usable \ {i} /\ TV!FlightState(s) = "failed"
    BY <1>3, <1>14 DEF TV!FlightState, TV!DiscoveryTypeOK
  <2> QED BY <1>1, <1>2, <1>7, <1>8, <1>9, <1>10, <1>11, <2>1 DEF TV!SF!Fail
<1> QED BY <1>12, <1>13, <1>14

\* A request goes on, with the answer of the flight it waited for.
LEMMA DiscoveredRefines ==
    ASSUME RInv, TV!DiscoveryInv, NEW r \in Callers, TV!Discovered(r)
    PROVE  TV!DiscoveryInv' /\ TV!SF!Return(r)
<1> USE DEF TV!DiscoveryInv, RInv
<1>1. /\ verify[r] = "discovering" /\ flight[r] # 0
      /\ token[r] \in Tokens /\ token[r].iss \in Issuers
      /\ flights[token[r].iss][flight[r]] \in {"found", "failed"}
      /\ flight[r] \in TV!Flights
  BY DEF TV!Discovered, TV!AwaitsSound, TV!DiscoveryTypeOK, TV!Flights
<1>2. UNCHANGED <<token, discovery, last, flights, flight>>
  BY DEF TV!Discovered
<1>3. PICK s \in {"checking", "invalid"} : verify' = [verify EXCEPT ![r] = s]
  BY DEF TV!Discovered
<1>4. /\ \A q \in Callers : q # r => verify'[q] = verify[q]
      /\ verify'[r] \in {"checking", "invalid"}
  BY <1>3 DEF RequestTypeOK
<1>5. TV!DiscoveryInv'
  <2>1. TV!DiscoveryTypeOK' /\ TV!EntriesSound'
    BY <1>2 DEF TV!DiscoveryTypeOK, TV!EntriesSound
  <2>2. TV!AwaitsSound'
    BY <1>1, <1>2, <1>4 DEF TV!AwaitsSound
  <2> QED BY <2>1, <2>2
<1>6. TV!issuerOf(r) = token[r].iss /\ \A q \in Callers : TV!issuerOf(q)' = TV!issuerOf(q)
  BY <1>1, <1>2 DEF TV!issuerOf
<1>7. UNCHANGED TV!flightsBar
  BY <1>2 DEF TV!flightsBar
<1>8. /\ TV!waitsBar[r].flight = flight[r] /\ TV!waitsBar[r].cell = token[r].iss
      /\ TV!flightsBar[token[r].iss][flight[r]] \in {"ok", "failed"}
  BY <1>1, <1>6 DEF TV!waitsBar, TV!flightsBar, TV!FlightState
<1>9. TV!waitsBar' = [TV!waitsBar EXCEPT ![r].flight = 0]
  BY <1>2, <1>4, <1>6 DEF TV!waitsBar
<1>10. TV!answerBar' = [TV!answerBar EXCEPT ![r] = TV!flightsBar[token[r].iss][flight[r]]]
  BY <1>1, <1>2, <1>4, <1>6, <1>7 DEF TV!answerBar
<1> QED BY <1>1, <1>2, <1>5, <1>7, <1>8, <1>9, <1>10 DEF TV!SF!Return

\* Every step of the composition keeps what is known of the discoveries, and is a
\* step of SingleFlight or none of its business.
LEMMA StepOfFlight ==
    ASSUME RInv, TV!DiscoveryInv, [RNext]_rvars
    PROVE  TV!DiscoveryInv' /\ [TV!SF!Next]_(TV!SF!vars)
<1> USE DEF TV!SF!Next
<1>1. CASE UNCHANGED verifierVars
  BY <1>1, NoDiscovery DEF verifierVars
<1>2. ASSUME NEW r \in Callers, Present(r)
      PROVE  TV!DiscoveryInv' /\ [TV!SF!Next]_(TV!SF!vars)
  <2>1. verify[r] = "idle" /\ token[r] \in Tokens /\ UNCHANGED token
    BY <1>2 DEF Present, TV!Verify
  <2>2. CASE TV!Untrusted(r)
    <3>1. verify' = [verify EXCEPT ![r] = "invalid"] /\ UNCHANGED <<discovery, last, flights, flight>>
      BY <2>2 DEF TV!Untrusted, TV!entryVars
    <3> QED BY <2>1, <3>1, NoDiscovery DEF RInv, RequestTypeOK
  <2>3. ASSUME NEW i \in Issuers, i = token[r].iss, TV!KeyAtHand(r, i)
        PROVE  TV!DiscoveryInv' /\ [TV!SF!Next]_(TV!SF!vars)
    <3>1. verify' = [verify EXCEPT ![r] = "checking"] /\ UNCHANGED <<discovery, last, flights, flight>>
      BY <2>3 DEF TV!KeyAtHand
    <3> QED BY <2>1, <3>1, NoDiscovery DEF RInv, RequestTypeOK
  <2>4. ASSUME NEW i \in Issuers, i = token[r].iss, TV!Discover(r, i)
        PROVE  TV!DiscoveryInv' /\ [TV!SF!Next]_(TV!SF!vars)
    BY <2>1, <2>4, DiscoverRefines
  <2> QED BY <1>2, <2>2, <2>3, <2>4 DEF Present, TV!Verify
<1>3. CASE Verifier
  <2>1. ASSUME NEW i \in Issuers, TV!Discovery(i)
        PROVE  TV!DiscoveryInv' /\ [TV!SF!Next]_(TV!SF!vars)
    BY <2>1, DiscoveryRefines DEF TV!Discovery
  <2>2. ASSUME NEW r \in Callers, TV!Discovered(r)
        PROVE  TV!DiscoveryInv' /\ [TV!SF!Next]_(TV!SF!vars)
    BY <2>2, DiscoveredRefines
  <2>3. ASSUME NEW r \in Callers, TV!Check(r)
        PROVE  TV!DiscoveryInv' /\ [TV!SF!Next]_(TV!SF!vars)
    <3>1. /\ verify[r] = "checking" /\ UNCHANGED <<token, discovery, last, flights, flight>>
          /\ \E s \in TV!Endings : verify' = [verify EXCEPT ![r] = s]
      <4>1. TV!Judgement(token[r]) \in TV!Endings
        <5>1. token[r] \in Tokens
          BY <2>3 DEF TV!Check, RInv, VerifySound
        <5> QED BY <5>1 DEF TV!Judgement, TV!Endings
      <4> QED BY <2>3, <4>1 DEF TV!Check, TV!Endings, TV!entryVars
    <3> QED BY <3>1, NoDiscovery DEF RInv, RequestTypeOK, TV!Endings
  <2> QED BY <1>3, <2>1, <2>2, <2>3 DEF Verifier, TV!Verification
<1>4. ASSUME NEW r \in Callers,
             \/ Anonymous(r) \/ Establish(r) \/ Ensure(r) \/ HasNothing(r)
             \/ (\E c \in Contexts : Ask(r, c)) \/ Decide(r)
      PROVE  UNCHANGED verifierVars
  BY <1>4 DEF Anonymous, Establish, Ensure, HasNothing, Ask, Decide, Replies
<1>5. CASE Loader \/ RTick \/ UNCHANGED rvars
  BY <1>1, <1>5 DEF Loader, RTick, rvars
<1> QED BY <1>1, <1>2, <1>3, <1>4, <1>5 DEF RNext, Request

\* The discovery of an issuer's keys is a single flight, for any requests, tokens and
\* issuers: concurrent requests share one, nobody is served a failed one that he
\* did not wait for, and a successful one is not repeated (`entry.discovery ??=` and
\* its catch(), verify.ts:98-102).  An app that trusts no issuer never discovers.
THEOREM VerifierImplementsSingleFlightAlways ==
    ASSUME Issuers # {}
    PROVE  RSpec => VerifierImplementsSingleFlight
<1>1. RInit => TV!DiscoveryInv
  BY DiscoveryInit
<1>2. RInit => TV!SF!Init
  <2> SUFFICES ASSUME RInit PROVE TV!SF!Init
    OBVIOUS
  <2>1. \A r \in Callers : TV!issuerOf(r) \in Issuers
    BY DEF TV!issuerOf
  <2>2. TV!waitsBar = [r \in Callers |-> [cell |-> TV!issuerOf(r), flight |-> 0]]
    BY DEF RInit, TV!Init, TV!waitsBar
  <2>3. TV!waitsBar \in [Callers -> [cell : Issuers, flight : {0}]]
    BY <2>1, <2>2
  <2>4. TV!flightsBar = [c \in Issuers |-> [n \in 1 .. MaxFlights |-> "unused"]]
    BY DEF RInit, TV!Init, TV!flightsBar, TV!FlightState, TV!Flights
  <2>5. TV!answerBar = [r \in Callers |-> "none"]
    BY DEF RInit, TV!Init, TV!answerBar
  <2> QED BY <2>3, <2>4, <2>5 DEF RInit, TV!Init, TV!SF!Init
<1>3. RInv /\ TV!DiscoveryInv /\ [RNext]_rvars
          => TV!DiscoveryInv' /\ [TV!SF!Next]_(TV!SF!vars)
  BY StepOfFlight
<1>4. VerifierImplementsSingleFlight <=> TV!SF!Init /\ [][TV!SF!Next]_(TV!SF!vars)
  BY DEF VerifierImplementsSingleFlight, TV!ImplementsSingleFlight, TV!SF!Spec
<1> QED BY <1>1, <1>2, <1>3, <1>4, Invariants, PTL DEF RSpec
=============================================================================
