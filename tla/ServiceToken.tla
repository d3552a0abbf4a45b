----------------------------- MODULE ServiceToken -----------------------------
(***************************************************************************)
(* The provider of outbound access tokens in @moribashi/auth               *)
(* (ServiceTokenProvider in packages/auth/src/workload-identity.ts): a     *)
(* cached token, refreshed ahead of its expiry by one exchange at the IdP  *)
(* that concurrent callers of get() share.                                 *)
(*                                                                         *)
(* The clock is the one of the provider and of the IdP.  The IdP issues a  *)
(* token at the time it answers; the provider counts the lifetime from the *)
(* time it reads the answer, at most MaxDelay later.                       *)
(*                                                                         *)
(* An action is the code between two awaits.  Promise reactions run before *)
(* the clock is read again.                                                *)
(***************************************************************************)
EXTENDS Naturals

CONSTANTS
    Clients,       \* callers of get(), one call at a time each
    Skew,          \* refreshSkewMs
    Lifetimes,     \* the expires_in of the IdP
    MaxDelay,      \* the longest an answer takes from the IdP to the provider
    MaxTime,       \* bound: the clock
    MaxExchanges   \* bound: exchanges ever started

\* A token that expires on its way here is of no use to any client, and a skew
\* below the delay of an answer cannot hide it.
ASSUME TokenAssumption ==
    /\ Skew \in Nat /\ MaxDelay \in Nat /\ MaxDelay <= Skew
    /\ Lifetimes \subseteq Nat /\ \A l \in Lifetimes : l > MaxDelay
    /\ MaxTime \in Nat /\ MaxExchanges \in Nat

VARIABLES
    now,         \* this.now()
    cached,      \* the exchange whose token is cached (0: none)
    expiresAt,   \* this.cached.expiresAt
    inflight,    \* the exchange behind this.inflight (0: none)
    last,        \* exchanges started
    status,      \* per exchange, where it is
    issued,      \* per exchange, when the IdP issued its token
    life,        \* and for how long
    waits,       \* per caller, the exchange whose token it awaits (0: none)
    got          \* per caller, how its last get() ended, with which token, when

cacheVars == <<cached, expiresAt>>
tokenVars == <<issued, life>>
vars == <<now, cacheVars, inflight, last, status, tokenVars, waits, got>>

Exchanges == 1 .. MaxExchanges
Stages == {"unused", "reading", "asked", "issued", "received", "rejected",
           "ok", "failed"}
Nothing == [result |-> "none", exchange |-> 0, at |-> 0]

Init ==
    /\ now = 0 /\ cached = 0 /\ expiresAt = 0 /\ inflight = 0 /\ last = 0
    /\ status = [n \in Exchanges |-> "unused"]
    /\ issued = [n \in Exchanges |-> 0] /\ life = [n \in Exchanges |-> 0]
    /\ waits = [p \in Clients |-> 0]
    /\ got = [p \in Clients |-> Nothing]

-----------------------------------------------------------------------------
\* Mutant: the expiry is compared without the skew.
UsableUntilExpiry == cached # 0 /\ expiresAt > now

\* get() hits the cache.
Usable == cached # 0 /\ expiresAt > now + Skew

Hit(p) ==
    /\ waits[p] = 0 /\ Usable
    /\ waits' = [waits EXCEPT ![p] = cached]
    /\ got' = [got EXCEPT ![p] = Nothing]
    /\ UNCHANGED <<now, cacheVars, inflight, last, status, tokenVars>>

\* get() joins the exchange in progress ...
Join(p) ==
    /\ waits[p] = 0 /\ ~Usable /\ inflight # 0
    /\ waits' = [waits EXCEPT ![p] = inflight]
    /\ got' = [got EXCEPT ![p] = Nothing]
    /\ UNCHANGED <<now, cacheVars, inflight, last, status, tokenVars>>

\* Mutant: the exchange in progress is replaced (= for ??=).
StartAlways(p) ==
    /\ waits[p] = 0 /\ ~Usable /\ last < MaxExchanges
    /\ last' = last + 1
    /\ inflight' = last + 1
    /\ status' = [status EXCEPT ![last + 1] = "reading"]
    /\ waits' = [waits EXCEPT ![p] = last + 1]
    /\ got' = [got EXCEPT ![p] = Nothing]
    /\ UNCHANGED <<now, cacheVars, tokenVars>>

\* ... or starts one, which begins with the file of the subject token.
Start(p) ==
    /\ waits[p] = 0 /\ ~Usable /\ inflight = 0 /\ last < MaxExchanges
    /\ last' = last + 1
    /\ inflight' = last + 1
    /\ status' = [status EXCEPT ![last + 1] = "reading"]
    /\ waits' = [waits EXCEPT ![p] = last + 1]
    /\ got' = [got EXCEPT ![p] = Nothing]
    /\ UNCHANGED <<now, cacheVars, tokenVars>>

-----------------------------------------------------------------------------
SubjectRead(n) ==
    /\ status[n] = "reading"
    /\ status' = [status EXCEPT ![n] = "asked"]
    /\ UNCHANGED <<now, cacheVars, inflight, last, tokenVars, waits, got>>

\* The IdP answers with a token.
Issue(n, l) ==
    /\ status[n] = "asked"
    /\ status' = [status EXCEPT ![n] = "issued"]
    /\ issued' = [issued EXCEPT ![n] = now]
    /\ life' = [life EXCEPT ![n] = l]
    /\ UNCHANGED <<now, cacheVars, inflight, last, waits, got>>

\* The file is missing, the IdP refuses, or its answer is lost or has no token.
Reject(n) ==
    /\ status[n] \in {"reading", "asked", "issued"}
    /\ status' = [status EXCEPT ![n] = "rejected"]
    /\ UNCHANGED <<now, cacheVars, inflight, last, tokenVars, waits, got>>

\* The answer is read: the token is cached.
Receive(n) ==
    /\ status[n] = "issued"
    /\ status' = [status EXCEPT ![n] = "received"]
    /\ cached' = n /\ expiresAt' = now + life[n]
    /\ UNCHANGED <<now, inflight, last, tokenVars, waits, got>>

\* Mutants: the marker stays when the exchange failed (.then for .finally); a
\* failed exchange never settles (a promise that is only ever resolved).
ClearOnSuccess(n) ==
    /\ \/ /\ status[n] = "received"
          /\ status' = [status EXCEPT ![n] = "ok"] /\ inflight' = 0
       \/ /\ status[n] = "rejected"
          /\ status' = [status EXCEPT ![n] = "failed"] /\ UNCHANGED inflight
    /\ UNCHANGED <<now, cacheVars, last, tokenVars, waits, got>>

ClearNeverRejects(n) ==
    /\ status[n] = "received"
    /\ status' = [status EXCEPT ![n] = "ok"] /\ inflight' = 0
    /\ UNCHANGED <<now, cacheVars, last, tokenVars, waits, got>>

\* finally(): the marker is dropped, ahead of every caller's reaction.
Clear(n) ==
    /\ \/ /\ status[n] = "received"
          /\ status' = [status EXCEPT ![n] = "ok"]
       \/ /\ status[n] = "rejected"
          /\ status' = [status EXCEPT ![n] = "failed"]
    /\ inflight' = 0
    /\ UNCHANGED <<now, cacheVars, last, tokenVars, waits, got>>

\* get() settles: the token, or the error of the exchange.
Return(p) ==
    /\ waits[p] # 0
    /\ status[waits[p]] \in {"ok", "failed"}
    /\ got' = [got EXCEPT ![p] = [result |-> status[waits[p]],
                                 exchange |-> waits[p], at |-> now]]
    /\ waits' = [waits EXCEPT ![p] = 0]
    /\ UNCHANGED <<now, cacheVars, inflight, last, status, tokenVars>>

-----------------------------------------------------------------------------
\* No promise reaction is due, and no answer is later than MaxDelay.
MayTick ==
    /\ \A n \in Exchanges :
          /\ status[n] \notin {"received", "rejected"}
          /\ status[n] = "issued" => now < issued[n] + MaxDelay
    /\ \A p \in Clients :
          waits[p] # 0 => status[waits[p]] \notin {"ok", "failed"}

Tick ==
    /\ MayTick /\ now < MaxTime
    /\ now' = now + 1
    /\ UNCHANGED <<cacheVars, inflight, last, status, tokenVars, waits, got>>

Get(p) == Hit(p) \/ Join(p) \/ Start(p)
Exchange(n) ==
    \/ SubjectRead(n) \/ Reject(n) \/ Receive(n) \/ Clear(n)
    \/ \E l \in Lifetimes : Issue(n, l)

Next ==
    \/ \E p \in Clients : Get(p) \/ Return(p)
    \/ \E n \in Exchanges : Exchange(n)
    \/ Tick

Spec == Init /\ [][Next]_vars

\* Files, the IdP and the event loop make progress; nobody has to call get().
Fairness ==
    /\ \A n \in Exchanges : WF_vars(Exchange(n))
    /\ \A p \in Clients : WF_vars(Return(p))

FairSpec == Spec /\ Fairness

-----------------------------------------------------------------------------
(***************************************************************************)
(* Properties.                                                             *)
(***************************************************************************)

\* "A currently-valid access token": no get() ever hands out a token that the
\* IdP takes to be expired, however it was shared, delayed or cached.
TokensValid ==
    \A p \in Clients : got[p].result = "ok" =>
        got[p].at < issued[got[p].exchange] + life[got[p].exchange]

\* The provider is a single flight: one exchange at a time, shared by whoever
\* asks meanwhile, its token shared until the skew before its expiry, and its
\* failure shared by nobody who asks later.
FlightState(s) ==
    CASE s \in {"reading", "asked", "issued", "rejected"} -> "running"
      [] s \in {"received", "ok"} -> "ok"
      [] OTHER -> s
Token == {"token"}
flightsBar == [c \in Token |-> [n \in Exchanges |-> FlightState(status[n])]]
lastBar == [c \in Token |-> last]
usableBar == {c \in Token : inflight # 0 \/ Usable}
waitsBar == [p \in Clients |-> [cell |-> "token", flight |-> waits[p]]]
answerBar == [p \in Clients |-> got[p].result]

SF == INSTANCE SingleFlight WITH
          Clients <- Clients, Cells <- Token, MaxFlights <- MaxExchanges,
          flights <- flightsBar, last <- lastBar, usable <- usableBar,
          waits <- waitsBar, answer <- answerBar
ImplementsSingleFlight == SF!Spec

\* Every get() settles, also those that joined an exchange that fails.
GetsSettle == \A p \in Clients : (waits[p] # 0) ~> (waits[p] = 0)

-----------------------------------------------------------------------------
(***************************************************************************)
(* The inductive invariant behind them.                                    *)
(***************************************************************************)

TypeOK ==
    /\ now \in Nat /\ expiresAt \in Nat /\ last \in Nat /\ last <= MaxExchanges
    /\ cached \in 0 .. last /\ inflight \in {0, last}
    /\ status \in [Exchanges -> Stages]
    /\ issued \in [Exchanges -> Nat] /\ life \in [Exchanges -> Nat]
    /\ waits \in [Clients -> 0 .. last]
    /\ got \in [Clients -> [result : {"none", "ok", "failed"},
                            exchange : 0 .. last, at : Nat]]

\* Only the latest exchange is in progress, and only while the marker is set.
ExchangesSound ==
    \A n \in Exchanges :
        /\ n > last => status[n] = "unused"
        /\ n <= last => status[n] # "unused"
        /\ n < last \/ inflight = 0 => status[n] \in {"unused", "ok", "failed"}
        /\ n = inflight => status[n] \notin {"ok", "failed"}

\* The cached token came with the exchange it names, and is stale by the time a
\* later one starts.
CacheSound ==
    /\ cached # 0 =>
          /\ status[cached] \in {"received", "ok"}
          /\ expiresAt <= issued[cached] + MaxDelay + life[cached]
    /\ Usable => cached = last

\* An answer in transit is young, and a token that somebody awaits is valid.
AnswersSound ==
    /\ \A n \in Exchanges :
          /\ status[n] \in {"issued", "received"} =>
                now <= issued[n] + MaxDelay /\ life[n] > MaxDelay
          /\ status[n] = "received" => cached = n
    /\ \A p \in Clients :
          waits[p] # 0 /\ status[waits[p]] = "ok" =>
              now < issued[waits[p]] + life[waits[p]]
    /\ \A p \in Clients :
          got[p].result # "none" =>
              got[p].exchange # 0 /\ status[got[p].exchange] = got[p].result

IInv == TypeOK /\ ExchangesSound /\ CacheSound /\ AnswersSound /\ TokensValid
=============================================================================
