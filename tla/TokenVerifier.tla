----------------------------- MODULE TokenVerifier -----------------------------
(***************************************************************************)
(* The verification of bearer tokens in @moribashi/auth (TokenVerifier in  *)
(* packages/auth/src/verify.ts): the unverified issuer of a token selects  *)
(* the key set that checks it, found at once or by one OIDC discovery per  *)
(* issuer that concurrent requests share.                                  *)
(*                                                                         *)
(* A token is what verify() can tell of it: the issuer it claims, whether  *)
(* a key of that issuer signed it for the configured audience, when it     *)
(* expires, and the identity its claims map to.                            *)
(*                                                                         *)
(* An action is the code between two awaits.                               *)
(***************************************************************************)
EXTENDS Naturals

CONSTANTS
    Requests,    \* calls of verify(), one per request
    Issuers,     \* the configured issuers
    KeySource,   \* per issuer, where its keys come from
    Tokens,      \* [iss, signed, exp, who]
    Nobody,      \* who of a token whose claims name no identity
    MaxFlights   \* bound: discoveries ever started per issuer

VARIABLES
    now,         \* the clock that jwtVerify reads
    token,       \* per request, what it presents
    getKey,      \* the issuers whose entry.getKey is set
    discovery,   \* per issuer, the discovery behind entry.discovery (0: none)
    last,        \* per issuer, the discoveries started
    flights,     \* per issuer and discovery, where it is
    flight,      \* per request, the discovery it awaits or awaited (0: none)
    verify       \* per request, where its verify() is, or how it ended

entryVars == <<getKey, discovery, last, flights>>
vars == <<now, token, entryVars, flight, verify>>

Flights == 1 .. MaxFlights
Endings == {"ok", "expired", "invalid"}

Init ==
    /\ getKey = {} /\ discovery = [i \in Issuers |-> 0]
    /\ last = [i \in Issuers |-> 0]
    /\ flights = [i \in Issuers |-> [n \in Flights |-> "unused"]]
    /\ flight = [r \in Requests |-> 0]
    /\ verify = [r \in Requests |-> "idle"]

-----------------------------------------------------------------------------
\* Not a token, or not of a configured issuer.
Untrusted(r) ==
    /\ token[r].iss \notin Issuers
    /\ verify' = [verify EXCEPT ![r] = "invalid"]
    /\ UNCHANGED <<entryVars, flight>>

\* getKey(): the keys are known, or configured.
KeyAtHand(r, i) ==
    /\ i \in getKey \/ KeySource[i] # "discovery"
    /\ getKey' = getKey \cup {i}
    /\ verify' = [verify EXCEPT ![r] = "checking"]
    /\ UNCHANGED <<discovery, last, flights, flight>>

\* Mutant: a discovery of its own for every request (= for ??=).
DiscoverAlways(r, i) ==
    /\ i \notin getKey /\ KeySource[i] = "discovery" /\ last[i] < MaxFlights
    /\ last' = [last EXCEPT ![i] = @ + 1]
    /\ flights' = [flights EXCEPT ![i][last[i] + 1] = "fetching"]
    /\ discovery' = [discovery EXCEPT ![i] = last[i] + 1]
    /\ flight' = [flight EXCEPT ![r] = last[i] + 1]
    /\ verify' = [verify EXCEPT ![r] = "discovering"]
    /\ UNCHANGED getKey

\* getKey(): the discovery in entry.discovery, resolved or not, or a new one.
Discover(r, i) ==
    /\ i \notin getKey /\ KeySource[i] = "discovery"
    /\ \/ discovery[i] # 0 /\ UNCHANGED <<discovery, last, flights>>
       \/ /\ discovery[i] = 0 /\ last[i] < MaxFlights
          /\ last' = [last EXCEPT ![i] = @ + 1]
          /\ flights' = [flights EXCEPT ![i][last[i] + 1] = "fetching"]
          /\ discovery' = [discovery EXCEPT ![i] = last[i] + 1]
    /\ flight' = [flight EXCEPT ![r] = discovery'[i]]
    /\ verify' = [verify EXCEPT ![r] = "discovering"]
    /\ UNCHANGED getKey

\* verify(token), up to its first await.
Verify(r) ==
    /\ verify[r] = "idle"
    /\ \/ Untrusted(r)
       \/ \E i \in Issuers \cap {token[r].iss} : KeyAtHand(r, i) \/ Discover(r, i)
    /\ UNCHANGED <<now, token>>

-----------------------------------------------------------------------------
\* discoverJwks(): the metadata names the key set, or the issuer is down.
Fetched(i, n) ==
    /\ flights[i][n] = "fetching"
    /\ \E s \in {"found", "rejected"} :
          flights' = [flights EXCEPT ![i][n] = s]
    /\ UNCHANGED <<now, token, getKey, discovery, last, flight, verify>>

\* Mutant: the rejection reaches nobody (a promise that is only ever resolved).
ForgetNever(i, n) == FALSE

\* catch(): the entry forgets it, ahead of every request's reaction.
Forget(i, n) ==
    /\ flights[i][n] = "rejected"
    /\ flights' = [flights EXCEPT ![i][n] = "failed"]
    /\ discovery' = [discovery EXCEPT ![i] = 0]
    /\ UNCHANGED <<now, token, getKey, last, flight, verify>>

\* The request goes on with the keys, or fails.
Discovered(r) ==
    /\ verify[r] = "discovering"
    /\ LET i == token[r].iss
       IN \/ /\ flights[i][flight[r]] = "found"
             /\ getKey' = getKey \cup {i}
             /\ verify' = [verify EXCEPT ![r] = "checking"]
          \/ /\ flights[i][flight[r]] = "failed"
             /\ verify' = [verify EXCEPT ![r] = "invalid"]
             /\ UNCHANGED getKey
    /\ UNCHANGED <<now, token, discovery, last, flights, flight>>

-----------------------------------------------------------------------------
\* jwtVerify() reads the clock after the signature; then mapIdentity().
Judgement(t) ==
    CASE ~t.signed -> "invalid"
      [] t.signed /\ now >= t.exp -> "expired"
      [] OTHER -> IF t.who = Nobody THEN "invalid" ELSE "ok"

\* A remote key set may be out of reach.
Check(r) ==
    /\ verify[r] = "checking"
    /\ \/ verify' = [verify EXCEPT ![r] = Judgement(token[r])]
       \/ /\ KeySource[token[r].iss] # "jwks"
          /\ verify' = [verify EXCEPT ![r] = "invalid"]
    /\ UNCHANGED <<now, token, entryVars, flight>>

Discovery(i) == \E n \in Flights : Fetched(i, n) \/ Forget(i, n)
Verification(r) == Discovered(r) \/ Check(r)

\* No promise reaction is due.
Settled ==
    /\ \A i \in Issuers, n \in Flights : flights[i][n] # "rejected"
    /\ \A r \in Requests : verify[r] = "discovering" =>
          flights[token[r].iss][flight[r]] = "fetching"

-----------------------------------------------------------------------------
(***************************************************************************)
(* The inductive invariant behind the single flight.                       *)
(***************************************************************************)
DiscoveryTypeOK ==
    /\ last \in [Issuers -> 0 .. MaxFlights]
    /\ discovery \in [Issuers -> 0 .. MaxFlights]
    /\ flights \in [Issuers ->
                       [Flights -> {"unused", "fetching", "found", "rejected", "failed"}]]
    /\ flight \in [Requests -> 0 .. MaxFlights]

\* The entry of an issuer has its latest discovery or none, and one that is not
\* settled, or not forgotten yet, is there.
EntriesSound ==
    \A i \in Issuers :
        /\ discovery[i] \in {0, last[i]}
        /\ \A n \in Flights :
              /\ n <= last[i] <=> flights[i][n] # "unused"
              /\ flights[i][n] \in {"fetching", "rejected"} => n = discovery[i]

\* A request awaits a discovery of its token's issuer, and is past it only once
\* that is settled.
AwaitsSound ==
    \A r \in Requests :
        /\ verify[r] = "idle" => flight[r] = 0
        /\ verify[r] = "discovering" => flight[r] # 0
        /\ flight[r] # 0 =>
              /\ token[r] \in Tokens /\ token[r].iss \in Issuers
              /\ flight[r] <= last[token[r].iss]
              /\ verify[r] # "discovering" =>
                    flights[token[r].iss][flight[r]] \in {"found", "failed"}

DiscoveryInv == DiscoveryTypeOK /\ EntriesSound /\ AwaitsSound

-----------------------------------------------------------------------------
\* The discovery of an issuer's keys is a single flight: concurrent requests
\* share one, a failed one is retried by the next request, and a successful one
\* is never repeated.
FlightState(s) ==
    CASE s \in {"fetching", "rejected"} -> "running"
      [] s = "found" -> "ok"
      [] OTHER -> s
issuerOf(r) == IF token[r] \in Tokens /\ token[r].iss \in Issuers
               THEN token[r].iss ELSE CHOOSE i \in Issuers : TRUE
flightsBar == [i \in Issuers |-> [n \in Flights |-> FlightState(flights[i][n])]]
waitsBar == [r \in Requests |->
    [cell |-> issuerOf(r),
     flight |-> IF verify[r] = "discovering" THEN flight[r] ELSE 0]]
answerBar == [r \in Requests |->
    IF flight[r] = 0 \/ verify[r] = "discovering" THEN "none"
    ELSE flightsBar[issuerOf(r)][flight[r]]]

SF == INSTANCE SingleFlight WITH
          Clients <- Requests, Cells <- Issuers, MaxFlights <- MaxFlights,
          flights <- flightsBar, last <- last,
          usable <- {i \in Issuers : discovery[i] # 0},
          waits <- waitsBar, answer <- answerBar
ImplementsSingleFlight == SF!Spec
=============================================================================
