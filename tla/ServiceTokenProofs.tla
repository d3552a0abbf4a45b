-------------------------- MODULE ServiceTokenProofs --------------------------
(***************************************************************************)
(* For every set of clients, skew, lifetimes and delay of the answers: the *)
(* provider hands out only tokens that are valid, and it implements the    *)
(* single flight.                                                          *)
(***************************************************************************)
EXTENDS ServiceToken, TLAPS

USE TokenAssumption

LEMMA InitInv == Init => IInv
<1> SUFFICES ASSUME Init PROVE IInv
  OBVIOUS
<1>1. TypeOK
  BY DEF Init, TypeOK, Exchanges, Stages, Nothing
<1>2. ExchangesSound /\ CacheSound
  BY DEF Init, ExchangesSound, CacheSound, Exchanges, Usable
<1>3. AnswersSound /\ TokensValid
  BY DEF Init, AnswersSound, TokensValid, Exchanges, Nothing
<1> QED BY <1>1, <1>2, <1>3 DEF IInv

-----------------------------------------------------------------------------
(***************************************************************************)
(* One lemma per operation.                                                *)
(***************************************************************************)

LEMMA GetInv ==
    ASSUME IInv, NEW p \in Clients, Get(p)
    PROVE  IInv'
<1> USE DEF IInv
<1>1. CASE Hit(p) \/ Join(p)
  <2>1. PICK n \in 1 .. last :
            /\ waits' = [waits EXCEPT ![p] = n]
            /\ status[n] = "ok" => n = cached /\ Usable
    <3>1. CASE Hit(p)
      <4>1. cached \in 1 .. last
        BY <3>1 DEF Hit, Usable, TypeOK
      <4> QED BY <3>1, <4>1 DEF Hit
    <3>2. CASE Join(p)
      <4>1. inflight \in 1 .. last /\ inflight \in Exchanges
        BY <3>2 DEF Join, TypeOK, Exchanges
      <4>2. status[inflight] # "ok"
        BY <4>1 DEF ExchangesSound
      <4> QED BY <3>2, <4>1, <4>2 DEF Join
    <3> QED BY <1>1, <3>1, <3>2
  <2>2. /\ UNCHANGED <<now, cached, expiresAt, inflight, last, status, issued, life>>
        /\ got' = [got EXCEPT ![p] = Nothing]
    BY <1>1 DEF Hit, Join, cacheVars, tokenVars
  <2>3. TypeOK'
    <3>1. waits' \in [Clients -> 0 .. last]
      BY <2>1 DEF TypeOK
    <3>2. got' \in [Clients -> [result : {"none", "ok", "failed"},
                               exchange : 0 .. last, at : Nat]]
      BY <2>2 DEF TypeOK, Nothing
    <3> QED BY <2>2, <3>1, <3>2 DEF TypeOK
  <2>4. ExchangesSound' /\ CacheSound'
    BY <2>2 DEF ExchangesSound, CacheSound, Usable
  <2>5. status[n] = "ok" => now < issued[n] + life[n]
    <3> SUFFICES ASSUME status[n] = "ok" PROVE now < issued[n] + life[n]
      OBVIOUS
    <3>1. n \in Exchanges /\ issued[n] \in Nat /\ life[n] \in Nat /\ now \in Nat
          /\ expiresAt \in Nat
      BY <2>1 DEF TypeOK, Exchanges
    <3>2. expiresAt > now + Skew /\ expiresAt <= issued[n] + MaxDelay + life[n]
      BY <2>1, <3>1 DEF CacheSound, Usable
    <3> QED BY <3>1, <3>2
  <2>6. AnswersSound'
    <3>1. \A c \in Clients : waits'[c] # 0 /\ status'[waits'[c]] = "ok" =>
              now' < issued'[waits'[c]] + life'[waits'[c]]
      BY <2>1, <2>2, <2>5 DEF AnswersSound, TypeOK
    <3>2. \A c \in Clients : got'[c].result # "none" =>
              got'[c].exchange # 0 /\ status'[got'[c].exchange] = got'[c].result
      BY <2>2 DEF AnswersSound, TypeOK, Nothing
    <3> QED BY <2>2, <3>1, <3>2 DEF AnswersSound
  <2>7. TokensValid'
    BY <2>2 DEF TokensValid, TypeOK, Nothing
  <2> QED BY <2>3, <2>4, <2>6, <2>7
<1>2. CASE Start(p)
  <2>1. /\ UNCHANGED <<now, cached, expiresAt, issued, life>>
        /\ last' = last + 1 /\ inflight' = last + 1 /\ last + 1 \in Exchanges
        /\ status' = [status EXCEPT ![last + 1] = "reading"]
        /\ waits' = [waits EXCEPT ![p] = last + 1]
        /\ got' = [got EXCEPT ![p] = Nothing]
        /\ inflight = 0 /\ ~Usable /\ status[last + 1] = "unused"
        /\ last \in Nat
    BY <1>2 DEF Start, cacheVars, tokenVars, TypeOK, Exchanges, ExchangesSound
  <2>2. TypeOK'
    <3>1. waits' \in [Clients -> 0 .. last + 1]
      BY <2>1 DEF TypeOK
    <3>2. got' \in [Clients -> [result : {"none", "ok", "failed"},
                               exchange : 0 .. last + 1, at : Nat]]
      <4>1. Nothing \in [result : {"none", "ok", "failed"},
                         exchange : 0 .. last + 1, at : Nat]
        BY <2>1 DEF Nothing
      <4>2. \A c \in Clients : got[c] \in [result : {"none", "ok", "failed"},
                                          exchange : 0 .. last + 1, at : Nat]
        BY <2>1 DEF TypeOK
      <4> QED BY <2>1, <4>1, <4>2 DEF TypeOK
    <3>3. status' \in [Exchanges -> Stages]
      BY <2>1 DEF TypeOK, Stages
    <3>4. last' <= MaxExchanges /\ last' \in Nat /\ cached' \in 0 .. last'
          /\ inflight' \in {0, last'}
      BY <2>1 DEF TypeOK, Exchanges
    <3> QED BY <2>1, <3>1, <3>2, <3>3, <3>4 DEF TypeOK
  <2>3. ExchangesSound'
    BY <2>1 DEF TypeOK, Exchanges, ExchangesSound
  <2>4. CacheSound'
    BY <2>1 DEF TypeOK, Exchanges, CacheSound, Usable
  <2>5. AnswersSound'
    <3>1. \A n \in Exchanges : n # last + 1 => status'[n] = status[n]
      BY <2>1 DEF TypeOK
    <3>2. \A c \in Clients : c # p => waits'[c] = waits[c] /\ waits'[c] \in 0 .. last
      BY <2>1 DEF TypeOK
    <3>3. status'[last + 1] = "reading" /\ waits'[p] = last + 1
      BY <2>1 DEF TypeOK
    <3>4. \A c \in Clients : waits'[c] # 0 /\ status'[waits'[c]] = "ok" =>
              now' < issued'[waits'[c]] + life'[waits'[c]]
      <4> TAKE c \in Clients
      <4>1. CASE c = p
        BY <3>3, <4>1
      <4>2. CASE c # p
        <5>1. waits'[c] = waits[c] /\ waits[c] # last + 1
              /\ (waits[c] # 0 => waits[c] \in Exchanges)
          BY <2>1, <3>2, <4>2 DEF Exchanges, TypeOK
        <5> QED BY <2>1, <3>1, <5>1 DEF AnswersSound
      <4> QED BY <4>1, <4>2
    <3>5. \A c \in Clients : got'[c].result # "none" =>
              got'[c].exchange # 0 /\ status'[got'[c].exchange] = got'[c].result
      <4> TAKE c \in Clients
      <4>1. CASE c = p
        BY <2>1, <4>1 DEF TypeOK, Nothing
      <4>2. CASE c # p
        <5>1. got'[c] = got[c] /\ got[c].exchange \in 0 .. last
          <6>1. got'[c] = got[c]
            BY <2>1, <4>2 DEF TypeOK
          <6> QED BY <6>1 DEF TypeOK
        <5>2. got[c].exchange # 0 =>
                  got[c].exchange \in Exchanges /\ got[c].exchange # last + 1
          <6>1. \A e \in 0 .. last : e # 0 => e \in Exchanges /\ e # last + 1
            BY <2>1 DEF Exchanges, TypeOK
          <6> QED BY <5>1, <6>1
        <5> QED BY <3>1, <5>1, <5>2 DEF AnswersSound
      <4> QED BY <4>1, <4>2
    <3>6. \A n \in Exchanges :
              /\ status'[n] \in {"issued", "received"} =>
                    now' <= issued'[n] + MaxDelay /\ life'[n] > MaxDelay
              /\ status'[n] = "received" => cached' = n
      BY <2>1, <3>1, <3>3 DEF AnswersSound
    <3> QED BY <3>4, <3>5, <3>6 DEF AnswersSound
  <2>6. TokensValid'
    BY <2>1 DEF TokensValid, TypeOK, Nothing
  <2> QED BY <2>2, <2>3, <2>4, <2>5, <2>6
<1> QED BY <1>1, <1>2 DEF Get

\* What every step of an exchange does to the exchanges.
LEMMA ExchangeStep ==
    ASSUME IInv, NEW n \in Exchanges, Exchange(n)
    PROVE  /\ n = last /\ n = inflight
           /\ UNCHANGED <<now, last, waits, got>>
           /\ status[n] \notin {"unused", "ok", "failed"}
           /\ \A m \in Exchanges : m # n =>
                 status'[m] = status[m] /\ issued'[m] = issued[m] /\ life'[m] = life[m]
           /\ status' \in [Exchanges -> Stages]
           /\ issued' \in [Exchanges -> Nat] /\ life' \in [Exchanges -> Nat]
           /\ status'[n] # "unused" /\ inflight' \in {0, n}
           /\ inflight' = 0 => status'[n] \in {"ok", "failed"}
           /\ status'[n] \in {"ok", "failed"} => inflight' = 0
<1> USE DEF IInv
<1>1. status[n] \notin {"unused", "ok", "failed"}
  BY DEF Exchange, SubjectRead, Issue, Reject, Receive, Clear
<1>2. n = last /\ n = inflight /\ n # 0
  <2>1. n \in Nat /\ n > 0 /\ last \in Nat
    BY DEF TypeOK, Exchanges
  <2>2. ~(n > last) /\ ~(n < last) /\ inflight # 0
    BY <1>1 DEF ExchangesSound
  <2> QED BY <2>1, <2>2 DEF TypeOK
<1>3. \A t \in Stages : [status EXCEPT ![n] = t] \in [Exchanges -> Stages]
  BY DEF TypeOK
<1>4. CASE SubjectRead(n)
  <2>1. status' = [status EXCEPT ![n] = "asked"] /\ "asked" \in Stages
        /\ UNCHANGED <<now, inflight, last, issued, life, waits, got>>
    BY <1>4 DEF SubjectRead, tokenVars, Stages
  <2> QED BY <1>1, <1>2, <1>3, <2>1 DEF TypeOK
<1>5. CASE Reject(n)
  <2>1. status' = [status EXCEPT ![n] = "rejected"] /\ "rejected" \in Stages
        /\ UNCHANGED <<now, inflight, last, issued, life, waits, got>>
    BY <1>5 DEF Reject, tokenVars, Stages
  <2> QED BY <1>1, <1>2, <1>3, <2>1 DEF TypeOK
<1>6. CASE Receive(n)
  <2>1. status' = [status EXCEPT ![n] = "received"] /\ "received" \in Stages
        /\ UNCHANGED <<now, inflight, last, issued, life, waits, got>>
    BY <1>6 DEF Receive, tokenVars, Stages
  <2> QED BY <1>1, <1>2, <1>3, <2>1 DEF TypeOK
<1>7. CASE Clear(n)
  <2>1. PICK t \in {"ok", "failed"} : status' = [status EXCEPT ![n] = t]
    BY <1>7 DEF Clear
  <2>2. t \in Stages /\ inflight' = 0
        /\ UNCHANGED <<now, last, issued, life, waits, got>>
    BY <1>7 DEF Clear, tokenVars, Stages
  <2> QED BY <1>1, <1>2, <1>3, <2>1, <2>2 DEF TypeOK
<1>8. CASE \E l \in Lifetimes : Issue(n, l)
  <2>1. PICK l \in Lifetimes : Issue(n, l)
    BY <1>8
  <2>2. /\ status' = [status EXCEPT ![n] = "issued"] /\ "issued" \in Stages
        /\ issued' = [issued EXCEPT ![n] = now] /\ life' = [life EXCEPT ![n] = l]
        /\ UNCHANGED <<now, inflight, last, waits, got>>
    BY <2>1 DEF Issue, Stages
  <2>3. issued' \in [Exchanges -> Nat] /\ life' \in [Exchanges -> Nat]
    BY <2>2 DEF TypeOK
  <2>4. \A m \in Exchanges : m # n =>
            status'[m] = status[m] /\ issued'[m] = issued[m] /\ life'[m] = life[m]
    BY <2>2 DEF TypeOK
  <2>5. status' \in [Exchanges -> Stages] /\ status'[n] = "issued"
    BY <1>3, <2>2 DEF TypeOK
  <2> QED BY <1>1, <1>2, <2>2, <2>3, <2>4, <2>5 DEF TypeOK
<1> QED BY <1>4, <1>5, <1>6, <1>7, <1>8 DEF Exchange

LEMMA ExchangeInv ==
    ASSUME IInv, NEW n \in Exchanges, Exchange(n)
    PROVE  IInv'
<1> USE DEF IInv
<1>1. /\ n = last /\ n = inflight
      /\ UNCHANGED <<now, last, waits, got>>
      /\ status[n] \notin {"unused", "ok", "failed"}
      /\ \A m \in Exchanges : m # n =>
            status'[m] = status[m] /\ issued'[m] = issued[m] /\ life'[m] = life[m]
      /\ status' \in [Exchanges -> Stages]
      /\ issued' \in [Exchanges -> Nat] /\ life' \in [Exchanges -> Nat]
      /\ status'[n] # "unused" /\ inflight' \in {0, n}
      /\ inflight' = 0 => status'[n] \in {"ok", "failed"}
      /\ status'[n] \in {"ok", "failed"} => inflight' = 0
  BY ExchangeStep
<1>2. /\ now \in Nat /\ n \in Nat /\ n > 0 /\ last \in Nat /\ last \in Exchanges
      /\ life[n] \in Nat /\ issued[n] \in Nat /\ inflight # 0
  BY <1>1 DEF TypeOK, Exchanges
\* The cached token, and what the step says of the exchange's own token.
<1>3. /\ \/ UNCHANGED <<cached, expiresAt>> /\ status'[n] # "received"
         \/ /\ cached' = n /\ expiresAt' = now + life[n]
            /\ status[n] = "issued" /\ status'[n] = "received"
      /\ status'[n] \in {"received", "ok"} =>
            issued'[n] = issued[n] /\ life'[n] = life[n]
      /\ status'[n] = "issued" => issued'[n] = now /\ life'[n] \in Lifetimes
      /\ status'[n] = "ok" => status[n] = "received"
      /\ status[n] = "received" => issued'[n] = issued[n] /\ life'[n] = life[n]
                                   /\ status'[n] = "ok"
  <2>1. CASE SubjectRead(n)
    BY <1>2, <2>1 DEF SubjectRead, TypeOK, cacheVars, tokenVars
  <2>2. CASE Reject(n)
    BY <1>2, <2>2 DEF Reject, TypeOK, cacheVars, tokenVars
  <2>3. CASE Receive(n)
    BY <1>2, <2>3 DEF Receive, TypeOK, cacheVars, tokenVars
  <2>4. CASE Clear(n)
    BY <1>2, <2>4 DEF Clear, TypeOK, cacheVars, tokenVars
  <2>5. CASE \E l \in Lifetimes : Issue(n, l)
    BY <1>2, <2>5 DEF Issue, TypeOK, cacheVars
  <2> QED BY <2>1, <2>2, <2>3, <2>4, <2>5 DEF Exchange
<1>4. status[n] \in {"issued", "received"} =>
          now <= issued[n] + MaxDelay /\ life[n] > MaxDelay
  BY DEF AnswersSound
<1>5. status[n] = "received" => cached = n
  BY DEF AnswersSound
<1>6. TypeOK'
  <2>1. cached' \in 0 .. last'
    <3>1. cached \in 0 .. last /\ n \in 0 .. last
      BY <1>1, <1>2 DEF TypeOK
    <3> QED BY <1>1, <1>3, <3>1
  <2>2. expiresAt' \in Nat
    BY <1>2, <1>3 DEF TypeOK
  <2>3. inflight' \in {0, last'}
    BY <1>1
  <2> QED BY <1>1, <2>1, <2>2, <2>3 DEF TypeOK
<1>7. ExchangesSound'
  <2> SUFFICES ASSUME NEW m \in Exchanges
               PROVE  /\ m > last => status'[m] = "unused"
                      /\ m <= last => status'[m] # "unused"
                      /\ m < last \/ inflight' = 0 =>
                            status'[m] \in {"unused", "ok", "failed"}
                      /\ m = inflight' => status'[m] \notin {"ok", "failed"}
    BY <1>1 DEF ExchangesSound
  <2>1. CASE m = n
    BY <1>1, <1>2, <2>1
  <2>2. CASE m # n
    <3>1. status'[m] = status[m] /\ (m < last \/ m > last)
      BY <1>1, <1>2, <2>2 DEF Exchanges
    <3>2. m # inflight'
      BY <1>1, <1>2, <2>2 DEF Exchanges
    <3> QED BY <3>1, <3>2 DEF ExchangesSound
  <2> QED BY <2>1, <2>2
<1>8. CacheSound'
  <2>1. CASE cached' = n /\ expiresAt' = now + life[n] /\ status[n] = "issued"
             /\ status'[n] = "received"
    <3>1. now + life[n] <= issued'[n] + MaxDelay + life'[n]
      BY <1>2, <1>3, <1>4, <2>1
    <3> QED BY <1>1, <2>1, <3>1 DEF CacheSound
  <2>2. CASE UNCHANGED <<cached, expiresAt>> /\ status'[n] # "received"
    <3>1. CASE cached = n
      <4>1. status[n] \in {"received", "ok"}
        BY <1>2, <3>1 DEF CacheSound
      <4> QED BY <1>1, <1>2, <1>3, <2>2, <3>1, <4>1 DEF CacheSound
    <3>2. CASE cached # n
      <4>1. ~Usable
        BY <1>1, <3>2 DEF CacheSound
      <4>2. cached # 0 => cached \in Exchanges
        BY DEF TypeOK, Exchanges
      <4> QED BY <1>1, <2>2, <3>2, <4>1, <4>2 DEF CacheSound, Usable
    <3> QED BY <3>1, <3>2
  <2> QED BY <1>3, <2>1, <2>2
<1>9. AnswersSound'
  <2>1. ASSUME NEW m \in Exchanges
        PROVE  /\ status'[m] \in {"issued", "received"} =>
                     now <= issued'[m] + MaxDelay /\ life'[m] > MaxDelay
               /\ status'[m] = "received" => cached' = m
    <3>1. CASE m = n /\ status'[n] = "received"
      BY <1>3, <1>4, <3>1
    <3>2. CASE m = n /\ status'[n] = "issued"
      <4>1. issued'[m] = now /\ life'[m] > MaxDelay
        BY <1>3, <3>2
      <4> QED BY <1>2, <3>2, <4>1
    <3>3. CASE m # n
      <4>1. status[m] \in {"unused", "ok", "failed"}
        BY <1>1, <1>2, <3>3 DEF ExchangesSound, Exchanges
      <4> QED BY <1>1, <3>3, <4>1
    <3> QED BY <3>1, <3>2, <3>3
  <2>2. ASSUME NEW p \in Clients, waits[p] # 0, status'[waits[p]] = "ok"
        PROVE  now < issued'[waits[p]] + life'[waits[p]]
    <3>1. CASE waits[p] = n
      <4>1. status[n] = "received" /\ issued'[n] = issued[n] /\ life'[n] = life[n]
        BY <1>3, <2>2, <3>1
      <4> QED BY <1>2, <1>4, <3>1, <4>1
    <3>2. CASE waits[p] # n
      <4>1. waits[p] \in Exchanges
        BY <2>2 DEF TypeOK, Exchanges
      <4> QED BY <1>1, <2>2, <3>2, <4>1 DEF AnswersSound
    <3> QED BY <3>1, <3>2
  <2>3. ASSUME NEW p \in Clients, got[p].result # "none"
        PROVE  got[p].exchange # 0 /\ status'[got[p].exchange] = got[p].result
    <3>1. got[p].exchange # 0 /\ status[got[p].exchange] = got[p].result
          /\ got[p].result \in {"ok", "failed"}
          /\ got[p].exchange \in Exchanges
      BY <2>3 DEF AnswersSound, TypeOK, Exchanges
    <3> QED BY <1>1, <3>1
  <2> QED BY <1>1, <2>1, <2>2, <2>3 DEF AnswersSound
<1>10. TokensValid'
  <2> SUFFICES ASSUME NEW p \in Clients, got[p].result = "ok"
               PROVE  got[p].at < issued'[got[p].exchange] + life'[got[p].exchange]
    BY <1>1 DEF TokensValid
  <2>1. status[got[p].exchange] = "ok" /\ got[p].exchange # 0
    BY DEF AnswersSound
  <2>2. got[p].exchange \in Exchanges
    <3>1. \A e \in 0 .. last : e # 0 => e \in Exchanges
      BY DEF Exchanges, TypeOK
    <3>2. got[p].exchange \in 0 .. last
      BY DEF TypeOK
    <3> QED BY <2>1, <3>1, <3>2
  <2> QED BY <1>1, <2>1, <2>2 DEF TokensValid
<1> QED BY <1>6, <1>7, <1>8, <1>9, <1>10

LEMMA ReturnInv ==
    ASSUME IInv, NEW p \in Clients, Return(p)
    PROVE  IInv'
<1> USE DEF IInv
<1>1. /\ UNCHANGED <<now, cached, expiresAt, inflight, last, status, issued, life>>
      /\ waits[p] # 0 /\ status[waits[p]] \in {"ok", "failed"}
      /\ waits' = [waits EXCEPT ![p] = 0]
      /\ got' = [got EXCEPT ![p] = [result |-> status[waits[p]],
                                   exchange |-> waits[p], at |-> now]]
  BY DEF Return, cacheVars, tokenVars
<1>2. TypeOK'
  <2>1. waits' \in [Clients -> 0 .. last]
    BY <1>1 DEF TypeOK
  <2>2. got' \in [Clients -> [result : {"none", "ok", "failed"},
                              exchange : 0 .. last, at : Nat]]
    BY <1>1 DEF TypeOK
  <2> QED BY <1>1, <2>1, <2>2 DEF TypeOK
<1>3. ExchangesSound' /\ CacheSound'
  BY <1>1 DEF ExchangesSound, CacheSound, Usable
<1>4. \A c \in Clients : c # p => got'[c] = got[c] /\ waits'[c] = waits[c]
  BY <1>1 DEF TypeOK
<1>5. waits'[p] = 0 /\ got'[p].result = status[waits[p]]
      /\ got'[p].exchange = waits[p] /\ got'[p].at = now
  BY <1>1 DEF TypeOK
<1>6. AnswersSound'
  <2>1. \A c \in Clients : waits'[c] # 0 /\ status[waits'[c]] = "ok" =>
            now < issued[waits'[c]] + life[waits'[c]]
    BY <1>4, <1>5 DEF AnswersSound
  <2>2. \A c \in Clients : got'[c].result # "none" =>
            got'[c].exchange # 0 /\ status[got'[c].exchange] = got'[c].result
    BY <1>1, <1>4, <1>5 DEF AnswersSound
  <2> QED BY <1>1, <2>1, <2>2 DEF AnswersSound
<1>7. TokensValid'
  <2>1. \A c \in Clients : got'[c].result = "ok" =>
            got'[c].at < issued[got'[c].exchange] + life[got'[c].exchange]
    <3> SUFFICES ASSUME NEW c \in Clients, got'[c].result = "ok"
                 PROVE  got'[c].at < issued[got'[c].exchange] + life[got'[c].exchange]
      OBVIOUS
    <3>1. CASE c = p
      BY <1>1, <1>5, <3>1 DEF AnswersSound
    <3>2. CASE c # p
      BY <1>4, <3>2 DEF TokensValid
    <3> QED BY <3>1, <3>2
  <2> QED BY <1>1, <2>1 DEF TokensValid
<1> QED BY <1>2, <1>3, <1>6, <1>7

LEMMA TickInv ==
    ASSUME IInv, Tick
    PROVE  IInv'
<1> USE DEF IInv
<1>1. /\ UNCHANGED <<cached, expiresAt, inflight, last, status, issued, life, waits, got>>
      /\ now' = now + 1 /\ now \in Nat /\ MayTick
  BY DEF Tick, cacheVars, tokenVars, TypeOK
<1>2. TypeOK' /\ ExchangesSound'
  BY <1>1 DEF TypeOK, ExchangesSound
<1>3. CacheSound'
  <2>1. Usable' => Usable
    BY <1>1 DEF Usable, TypeOK
  <2> QED BY <1>1, <2>1 DEF CacheSound
<1>4. AnswersSound'
  <2>1. ASSUME NEW n \in Exchanges, status[n] \in {"issued", "received"}
        PROVE  /\ now + 1 <= issued[n] + MaxDelay /\ life[n] > MaxDelay
               /\ status[n] # "received"
    <3>1. status[n] = "issued" /\ now < issued[n] + MaxDelay
      BY <1>1, <2>1 DEF MayTick
    <3>2. life[n] > MaxDelay /\ issued[n] \in Nat
      BY <2>1 DEF AnswersSound, TypeOK
    <3> QED BY <1>1, <3>1, <3>2
  <2>2. \A c \in Clients : ~(waits[c] # 0 /\ status[waits[c]] = "ok")
    BY <1>1 DEF MayTick
  <2> QED BY <1>1, <2>1, <2>2 DEF AnswersSound
<1>5. TokensValid'
  BY <1>1 DEF TokensValid
<1> QED BY <1>2, <1>3, <1>4, <1>5

LEMMA NextInv == IInv /\ [Next]_vars => IInv'
<1> SUFFICES ASSUME IInv, [Next]_vars PROVE IInv'
  OBVIOUS
<1>1. ASSUME NEW p \in Clients, Get(p) \/ Return(p) PROVE IInv'
  BY <1>1, GetInv, ReturnInv
<1>2. ASSUME NEW n \in Exchanges, Exchange(n) PROVE IInv'
  BY <1>2, ExchangeInv
<1>3. CASE Tick
  BY <1>3, TickInv
<1>4. CASE UNCHANGED vars
  <2>1. UNCHANGED <<now, cached, expiresAt, inflight, last, status, issued, life,
                    waits, got>>
    BY <1>4 DEF vars, cacheVars, tokenVars
  <2> QED BY <2>1 DEF IInv, TypeOK, ExchangesSound, CacheSound, AnswersSound,
                      TokensValid, Usable
<1> QED BY <1>1, <1>2, <1>3, <1>4 DEF Next

\* The inductive invariant of the provider, on every number of callers and
\* exchanges: what is cached, awaited or in transit is what the code takes it for.
THEOREM TokenInv == Spec => []IInv
<1>1. Init => IInv
  BY InitInv
<1>2. IInv /\ [Next]_vars => IInv'
  BY NextInv
<1> QED BY <1>1, <1>2, PTL DEF Spec

\* No get() hands out a token that the IdP takes to be expired, for every skew
\* that covers the delay of an answer (get(), workload-identity.ts:49-59).
THEOREM TokensValidAlways == Spec => []TokensValid
<1>1. IInv => TokensValid
  BY DEF IInv
<1> QED BY <1>1, TokenInv, PTL

-----------------------------------------------------------------------------
(***************************************************************************)
(* The refinement: every step is one of the single flight, or none.        *)
(***************************************************************************)

LEMMA RefinesInit == Init => SF!Init
<1> SUFFICES ASSUME Init PROVE SF!Init
  OBVIOUS
<1>1. flightsBar = [c \in Token |-> [n \in 1 .. MaxExchanges |-> "unused"]]
  BY DEF Init, flightsBar, FlightState, Exchanges
<1>2. lastBar = [c \in Token |-> 0] /\ usableBar = {}
  BY DEF Init, lastBar, usableBar, Usable, Token
<1>3. waitsBar \in [Clients -> [cell : Token, flight : {0}]]
  BY DEF Init, waitsBar, Token
<1>4. answerBar = [p \in Clients |-> "none"]
  BY DEF Init, answerBar, Nothing
<1> QED BY <1>1, <1>2, <1>3, <1>4 DEF SF!Init

LEMMA RefinesGet ==
    ASSUME IInv, NEW p \in Clients, Get(p)
    PROVE  SF!Share(p, "token") \/ SF!Launch(p, "token")
<1> USE DEF IInv
<1>1. /\ waitsBar[p].flight = 0 /\ lastBar["token"] = last /\ "token" \in Token
      /\ "token" \in usableBar <=> (inflight # 0 \/ Usable)
  BY DEF Get, Hit, Join, Start, waitsBar, lastBar, Token, usableBar
<1>2. answerBar' = [answerBar EXCEPT ![p] = "none"]
  <2>1. got' = [got EXCEPT ![p] = Nothing]
    BY DEF Get, Hit, Join, Start
  <2> QED BY <2>1 DEF answerBar, TypeOK, Nothing
<1>3. \A n : waits' = [waits EXCEPT ![p] = n] =>
          waitsBar' = [waitsBar EXCEPT ![p] = [cell |-> "token", flight |-> n]]
  BY DEF waitsBar, TypeOK
<1>4. CASE Hit(p) \/ Join(p)
  <2>1. waits' = [waits EXCEPT ![p] = last] /\ (inflight # 0 \/ Usable)
    BY <1>4 DEF Hit, Join, CacheSound, TypeOK
  <2>2. UNCHANGED <<now, cached, expiresAt, inflight, last, status>>
    BY <1>4 DEF Hit, Join, cacheVars
  <2>3. UNCHANGED <<flightsBar, lastBar, usableBar>>
    BY <2>2 DEF flightsBar, lastBar, usableBar, Usable
  <2> QED BY <1>1, <1>2, <1>3, <2>1, <2>3 DEF SF!Share
<1>5. CASE Start(p)
  <2>1. /\ waits' = [waits EXCEPT ![p] = last + 1] /\ inflight = 0 /\ ~Usable
        /\ last < MaxExchanges /\ last' = last + 1 /\ inflight' = last + 1
        /\ status' = [status EXCEPT ![last + 1] = "reading"]
        /\ last \in Nat /\ last + 1 \in Exchanges
    BY <1>5 DEF Start, TypeOK, Exchanges
  <2>2. lastBar' = [lastBar EXCEPT !["token"] = @ + 1]
    BY <2>1 DEF lastBar, Token
  <2>3. usableBar' = usableBar \cup {"token"}
    BY <2>1 DEF usableBar, Token
  <2>4. \A n \in 1 .. MaxExchanges : flightsBar["token"][n] # "running"
    BY <2>1 DEF flightsBar, Token, FlightState, ExchangesSound, Exchanges
  <2>5. flightsBar' = [flightsBar EXCEPT !["token"][last + 1] = "running"]
    <3>1. [n \in Exchanges |-> FlightState(status'[n])] =
              [[n \in Exchanges |-> FlightState(status[n])]
                  EXCEPT ![last + 1] = "running"]
      BY <2>1 DEF FlightState, TypeOK
    <3> QED BY <3>1 DEF flightsBar, Token
  <2> QED BY <1>1, <1>2, <1>3, <2>1, <2>2, <2>3, <2>4, <2>5 DEF SF!Launch
<1> QED BY <1>4, <1>5 DEF Get

LEMMA RefinesReturn ==
    ASSUME IInv, NEW p \in Clients, Return(p)
    PROVE  SF!Return(p)
<1> USE DEF IInv
<1>1. waits[p] # 0 /\ waits[p] \in Exchanges /\ status[waits[p]] \in {"ok", "failed"}
  BY DEF Return, TypeOK, Exchanges
<1>2. waitsBar[p].flight = waits[p] /\ waitsBar[p].cell = "token"
      /\ flightsBar["token"][waits[p]] = status[waits[p]]
  BY <1>1 DEF waitsBar, flightsBar, Token, FlightState
<1>3. waitsBar' = [waitsBar EXCEPT ![p].flight = 0]
  BY DEF Return, waitsBar, TypeOK
<1>4. answerBar' = [answerBar EXCEPT ![p] = status[waits[p]]]
  BY DEF Return, answerBar, TypeOK
<1>5. UNCHANGED <<flightsBar, lastBar, usableBar>>
  <2>1. UNCHANGED <<now, cached, expiresAt, inflight, last, status>>
    BY DEF Return, cacheVars
  <2> QED BY <2>1 DEF flightsBar, lastBar, usableBar, Usable
<1> QED BY <1>1, <1>2, <1>3, <1>4, <1>5 DEF SF!Return

LEMMA RefinesExchange ==
    ASSUME IInv, NEW n \in Exchanges, Exchange(n)
    PROVE  \/ SF!Succeed("token") \/ SF!Fail("token") \/ SF!Lapse("token")
           \/ UNCHANGED SF!vars
<1> USE DEF IInv
<1>1. /\ n = last /\ n = inflight /\ n # 0 /\ UNCHANGED <<now, last, waits, got>>
      /\ status' \in [Exchanges -> Stages]
      /\ \A m \in Exchanges : m # n => status'[m] = status[m]
  BY ExchangeStep DEF Exchanges
<1>2. /\ UNCHANGED <<lastBar, waitsBar, answerBar>>
      /\ lastBar["token"] = n /\ "token" \in usableBar
      /\ flightsBar["token"][n] = FlightState(status[n])
  BY <1>1 DEF lastBar, waitsBar, answerBar, usableBar, flightsBar, Token
<1>3. flightsBar' = [flightsBar EXCEPT !["token"][n] = FlightState(status'[n])]
  <2>1. [m \in Exchanges |-> FlightState(status'[m])] =
            [[m \in Exchanges |-> FlightState(status[m])]
                EXCEPT ![n] = FlightState(status'[n])]
    BY <1>1
  <2> QED BY <2>1 DEF flightsBar, Token
<1>4. FlightState(status'[n]) = FlightState(status[n]) => UNCHANGED flightsBar
  BY <1>1 DEF flightsBar
<1>5. CASE SubjectRead(n) \/ Reject(n) \/ \E l \in Lifetimes : Issue(n, l)
  <2>1. FlightState(status'[n]) = FlightState(status[n])
    BY <1>5 DEF SubjectRead, Reject, Issue, FlightState, TypeOK
  <2>2. inflight' = inflight
    BY <1>5 DEF SubjectRead, Reject, Issue
  <2>3. UNCHANGED usableBar
    BY <1>1, <2>2 DEF usableBar
  <2> QED BY <1>2, <1>4, <2>1, <2>3 DEF SF!vars
<1>6. CASE Receive(n)
  <2>1. FlightState(status[n]) = "running" /\ FlightState(status'[n]) = "ok"
        /\ inflight' = inflight
    BY <1>6 DEF Receive, FlightState, TypeOK
  <2>2. UNCHANGED usableBar
    BY <1>1, <2>1 DEF usableBar
  <2> QED BY <1>1, <1>2, <1>3, <2>1, <2>2 DEF SF!Succeed
<1>7. CASE Clear(n) /\ status[n] = "received"
  <2>1. status'[n] = "ok" /\ inflight' = 0 /\ UNCHANGED <<cached, expiresAt>>
    BY <1>7 DEF Clear, TypeOK, cacheVars
  <2>2. FlightState(status[n]) = "ok" /\ FlightState(status'[n]) = "ok"
    BY <1>7, <2>1 DEF FlightState
  <2>3. CASE Usable
    <3>1. UNCHANGED usableBar
      BY <1>1, <2>1, <2>3 DEF usableBar, Usable
    <3> QED BY <1>2, <1>4, <2>2, <3>1 DEF SF!vars
  <2>4. CASE ~Usable
    <3>1. usableBar' = usableBar \ {"token"}
      BY <1>1, <2>1, <2>4 DEF usableBar, Usable, Token
    <3> QED BY <1>2, <1>4, <2>2, <3>1 DEF SF!Lapse
  <2> QED BY <2>3, <2>4
<1>8. CASE Clear(n) /\ status[n] = "rejected"
  <2>1. status'[n] = "failed" /\ inflight' = 0 /\ UNCHANGED <<cached, expiresAt>>
    BY <1>8 DEF Clear, TypeOK, cacheVars
  <2>2. FlightState(status[n]) = "running" /\ FlightState(status'[n]) = "failed"
    BY <1>8, <2>1 DEF FlightState
  <2>3. ~Usable
    BY <1>1, <1>8 DEF CacheSound, Usable
  <2>4. usableBar' = usableBar \ {"token"}
    BY <1>1, <2>1, <2>3 DEF usableBar, Usable, Token
  <2> QED BY <1>1, <1>2, <1>3, <2>2, <2>4 DEF SF!Fail
<1>9. Clear(n) => status[n] \in {"received", "rejected"}
  BY DEF Clear
<1> QED BY <1>5, <1>6, <1>7, <1>8, <1>9 DEF Exchange

LEMMA RefinesTick ==
    ASSUME IInv, Tick
    PROVE  SF!Lapse("token") \/ UNCHANGED SF!vars
<1> USE DEF IInv
<1>1. /\ UNCHANGED <<cached, expiresAt, inflight, last, status, waits, got>>
      /\ now' = now + 1 /\ now \in Nat
  BY DEF Tick, cacheVars, tokenVars, TypeOK
<1>2. UNCHANGED <<flightsBar, lastBar, waitsBar, answerBar>>
  BY <1>1 DEF flightsBar, lastBar, waitsBar, answerBar
<1>3. CASE inflight # 0 \/ (Usable <=> Usable')
  <2>1. UNCHANGED usableBar
    BY <1>1, <1>3 DEF usableBar
  <2> QED BY <1>2, <2>1 DEF SF!vars
<1>4. CASE inflight = 0 /\ ~(Usable <=> Usable')
  <2>1. Usable' => Usable
    BY <1>1 DEF Usable, TypeOK
  <2>2. Usable /\ ~Usable'
    BY <1>4, <2>1
  <2>3. last = cached /\ last \in Exchanges /\ status[last] \in {"received", "ok"}
    BY <2>2 DEF CacheSound, Usable, TypeOK, Exchanges
  <2>4. "token" \in usableBar /\ flightsBar["token"][lastBar["token"]] = "ok"
    BY <2>2, <2>3 DEF usableBar, flightsBar, lastBar, Token, FlightState
  <2>5. usableBar' = usableBar \ {"token"}
    BY <1>1, <1>4, <2>2 DEF usableBar, Token
  <2> QED BY <1>2, <2>4, <2>5 DEF SF!Lapse
<1> QED BY <1>3, <1>4

\* The provider implements the single flight: one exchange at a time, shared by
\* whoever asks meanwhile, and no failure shared by those who ask after it
\* (`inflight ??=` and its finally(), workload-identity.ts:53-58).
THEOREM ImplementsSingleFlightAlways == Spec => ImplementsSingleFlight
<1>1. Init => SF!Init
  BY RefinesInit
<1>2. IInv /\ [Next]_vars => [SF!Next]_SF!vars
  <2> SUFFICES ASSUME IInv, [Next]_vars PROVE [SF!Next]_SF!vars
    OBVIOUS
  <2> "token" \in Token
    BY DEF Token
  <2>1. ASSUME NEW p \in Clients, Get(p) PROVE [SF!Next]_SF!vars
    BY <2>1, RefinesGet DEF SF!Next
  <2>2. ASSUME NEW p \in Clients, Return(p) PROVE [SF!Next]_SF!vars
    BY <2>2, RefinesReturn DEF SF!Next
  <2>3. ASSUME NEW n \in Exchanges, Exchange(n) PROVE [SF!Next]_SF!vars
    BY <2>3, RefinesExchange DEF SF!Next
  <2>4. CASE Tick
    BY <2>4, RefinesTick DEF SF!Next
  <2>5. CASE UNCHANGED vars
    BY <2>5 DEF vars, cacheVars, tokenVars, SF!vars, flightsBar, lastBar, usableBar,
                Usable, waitsBar, answerBar
  <2> QED BY <2>1, <2>2, <2>3, <2>4, <2>5 DEF Next
<1> QED BY <1>1, <1>2, TokenInv, PTL DEF Spec, ImplementsSingleFlight, SF!Spec

-----------------------------------------------------------------------------
(***************************************************************************)
(* What that is worth.                                                     *)
(***************************************************************************)
LEMMA WaitReset ==
    ASSUME NEW S, NEW T, NEW w \in [cell : S, flight : T], NEW n \in T
    PROVE  [w EXCEPT !.flight = n] \in [cell : S, flight : T]
OBVIOUS

LEMMA FlightInvStep ==
    ASSUME SF!FlightInv, [SF!Next]_(SF!vars)
    PROVE  SF!FlightInv'
<1> USE DEF SF!FlightInv, SF!Types, SF!States, SF!LatestRuns, SF!SharedSound
<1>1. ASSUME NEW p \in Clients, NEW c \in Token, SF!Share(p, c) PROVE SF!FlightInv'
  BY <1>1 DEF SF!Share
<1>2. ASSUME NEW p \in Clients, NEW c \in Token, SF!Launch(p, c) PROVE SF!FlightInv'
  <2>1. /\ lastBar[c] + 1 \in 1 .. MaxExchanges
        /\ lastBar' \in [Token -> 0 .. MaxExchanges]
        /\ \A d \in Token : lastBar'[d] = IF d = c THEN lastBar[c] + 1 ELSE lastBar[d]
    BY <1>2 DEF SF!Launch
  <2>2. /\ flightsBar' \in [Token -> [1 .. MaxExchanges -> SF!States]]
        /\ \A d \in Token, n \in 1 .. MaxExchanges :
               flightsBar'[d][n] =
                   IF d = c /\ n = lastBar[c] + 1 THEN "running" ELSE flightsBar[d][n]
    BY <1>2, <2>1 DEF SF!Launch
  <2>3. waitsBar' \in [Clients -> [cell : Token, flight : 0 .. MaxExchanges]]
    BY <1>2, <2>1 DEF SF!Launch
  <2>4. usableBar' = usableBar \cup {c} /\ usableBar' \subseteq Token
    BY <1>2 DEF SF!Launch
  <2>5. SF!LatestRuns'
    BY <1>2, <2>1, <2>2, <2>4 DEF SF!Launch
  <2>6. SF!SharedSound'
    BY <2>1, <2>2, <2>4
  <2> QED BY <2>1, <2>2, <2>3, <2>4, <2>5, <2>6
<1>3. ASSUME NEW c \in Token, SF!Succeed(c) PROVE SF!FlightInv'
  BY <1>3 DEF SF!Succeed
<1>4. ASSUME NEW c \in Token, SF!Fail(c) PROVE SF!FlightInv'
  BY <1>4 DEF SF!Fail
<1>5. ASSUME NEW c \in Token, SF!Lapse(c) PROVE SF!FlightInv'
  BY <1>5 DEF SF!Lapse
<1>6. ASSUME NEW p \in Clients, SF!Return(p) PROVE SF!FlightInv'
  <2>1. waitsBar' \in [Clients -> [cell : Token, flight : 0 .. MaxExchanges]]
    <3>1. [waitsBar[p] EXCEPT !.flight = 0] \in [cell : Token, flight : 0 .. MaxExchanges]
      <4>1. 0 \in 0 .. MaxExchanges
        OBVIOUS
      <4>2. waitsBar[p] \in [cell : Token, flight : 0 .. MaxExchanges]
        OBVIOUS
      <4> QED BY <4>1, <4>2, WaitReset, Zenon
    <3>2. waitsBar' = [waitsBar EXCEPT ![p] = [waitsBar[p] EXCEPT !.flight = 0]]
      BY <1>6, Zenon DEF SF!Return
    <3> QED BY <3>1, <3>2
  <2> QED BY <1>6, <2>1 DEF SF!Return
<1>7. CASE UNCHANGED SF!vars
  BY <1>7 DEF SF!vars
<1> QED BY <1>1, <1>2, <1>3, <1>4, <1>5, <1>6, <1>7 DEF SF!Next

\* A step of a client waits for a flight that has not failed, if for any.
Unshared(p) ==
    waitsBar[p].flight = 0 /\ waitsBar'[p].flight # 0 =>
        flightsBar'[waitsBar'[p].cell][waitsBar'[p].flight] \in {"running", "ok"}

LEMMA UnsharedStep ==
    ASSUME SF!FlightInv, SF!Next
    PROVE  \A p \in Clients : Unshared(p)
<1> USE DEF SF!FlightInv, SF!Types, SF!SharedSound, Unshared
<1>1. ASSUME NEW p \in Clients, NEW c \in Token, SF!Share(p, c)
      PROVE  \A q \in Clients : Unshared(q)
  BY <1>1 DEF SF!Share
<1>2. ASSUME NEW p \in Clients, NEW c \in Token, SF!Launch(p, c)
      PROVE  \A q \in Clients : Unshared(q)
  <2>1. lastBar[c] + 1 \in 1 .. MaxExchanges
    BY <1>2 DEF SF!Launch
  <2>2. flightsBar'[c][lastBar[c] + 1] = "running"
    BY <1>2, <2>1 DEF SF!Launch
  <2> QED BY <1>2, <2>1, <2>2 DEF SF!Launch
<1>3. ASSUME NEW c \in Token, SF!Succeed(c) \/ SF!Fail(c) \/ SF!Lapse(c)
      PROVE  \A q \in Clients : Unshared(q)
  BY <1>3 DEF SF!Succeed, SF!Fail, SF!Lapse
<1>4. ASSUME NEW p \in Clients, SF!Return(p)
      PROVE  \A q \in Clients : Unshared(q)
  <2>1. \A q \in Clients : waitsBar'[q].flight = 0 \/ waitsBar'[q] = waitsBar[q]
    BY <1>4 DEF SF!Return
  <2> QED BY <2>1
<1> QED BY <1>1, <1>2, <1>3, <1>4 DEF SF!Next

LEMMA FlightInvCorrect == SF!Spec => []SF!FlightInv
<1>1. SF!Init => SF!FlightInv
  BY DEF SF!Init, SF!FlightInv, SF!Types, SF!States, SF!LatestRuns, SF!SharedSound
<1> QED BY <1>1, FlightInvStep, PTL DEF SF!Spec

\* A single flight is one at a time, and its failure reaches nobody who asks later.
THEOREM SingleFlightKept == SF!Spec => []SF!OneFlight /\ SF!FailureUnshared
<1>1. SF!FlightInv => SF!OneFlight
  BY DEF SF!FlightInv, SF!LatestRuns, SF!OneFlight
<1>2. SF!FlightInv /\ [SF!Next]_(SF!vars) => [\A p \in Clients : Unshared(p)]_(SF!vars)
  BY UnsharedStep
<1>3. SF!FailureUnshared <=> [][\A p \in Clients : Unshared(p)]_(SF!vars)
  BY DEF SF!FailureUnshared, Unshared
<1> QED BY <1>1, <1>2, <1>3, FlightInvCorrect, PTL DEF SF!Spec

\* So the provider has one exchange in progress at the most, and whoever calls get()
\* after a refresh failed waits for another (workload-identity.ts:53-58).
THEOREM RefreshesAreOneFlight == Spec => []SF!OneFlight /\ SF!FailureUnshared
BY ImplementsSingleFlightAlways, SingleFlightKept, PTL DEF ImplementsSingleFlight
=============================================================================
