-------------------------- MODULE AccessCacheProofs --------------------------
(***************************************************************************)
(* For every set of callers and keys and every TTL, IInv is inductive, so  *)
(* loads are coalesced, errors are never cached and a revocation is        *)
(* honoured a TTL later.                                                   *)
(***************************************************************************)
EXTENDS AccessCache, TLAPS

USE CacheAssumption

LEMMA InitInv == Init => IInv
<1> SUFFICES ASSUME Init PROVE IInv
  OBVIOUS
<1>1. TypeOK
  BY DEF Init, TypeOK, NoEntry, Verdicts
<1>2. EntriesSound /\ RunningCached /\ LoadsSound /\ WaitsSound /\ Coalesced
  BY DEF Init, EntriesSound, RunningCached, LoadsSound, WaitsSound, Coalesced,
         NoEntry
<1>3. RevocationHonoured /\ TimesSound
  BY DEF Init, RevocationHonoured, TimesSound, heldUntil
<1> QED BY <1>1, <1>2, <1>3 DEF IInv

LEMMA LoadType ==
    ASSUME TypeOK, NEW n \in DOMAIN loads
    PROVE  /\ loads \in Seq(Load) /\ loads[n] \in Load
           /\ loads[n].at \in Nat /\ loads[n].key \in Keys
           /\ loads[n].saw \subseteq Verdicts
<1>1. loads \in Seq(Load) /\ loads[n] \in Load
  BY DEF TypeOK
<1> QED BY <1>1 DEF Load

-----------------------------------------------------------------------------
(***************************************************************************)
(* One lemma per action.                                                   *)
(***************************************************************************)

LEMMA GetInv ==
    ASSUME IInv, NEW c \in Callers, NEW k \in Keys, Get(c, k)
    PROVE  IInv'
<1> USE DEF IInv
<1> DEFINE new == [key |-> k, at |-> now, saw |-> {source[k]},
                   state |-> "running"]
<1>1. CASE UNCHANGED <<loads, entry>>
  <2>1. Hit(k) /\ waits' = [waits EXCEPT ![c] = entry[k].load]
    BY <1>1 DEF Get, TypeOK
  <2>2. TypeOK'
    BY <1>1, <2>1 DEF Get, TypeOK, sourceVars, Verdicts
  <2>3. EntriesSound' /\ RunningCached' /\ LoadsSound' /\ Coalesced' /\ TimesSound'
    BY <1>1 DEF Get, sourceVars, EntriesSound, RunningCached, LoadsSound,
                Coalesced, TimesSound, heldUntil
  <2>4. WaitsSound'
    <3>1. entry[k].load \in DOMAIN loads /\ loads[entry[k].load].key = k
          /\ now < loads[entry[k].load].at + Ttl
      BY <2>1 DEF Hit, EntriesSound
    <3> QED BY <1>1, <2>1, <3>1 DEF Get, sourceVars, WaitsSound, TypeOK
  <2>5. RevocationHonoured'
    BY <1>1 DEF Get, sourceVars, RevocationHonoured, heldUntil, TypeOK
  <2> QED BY <2>2, <2>3, <2>4, <2>5
<1>2. CASE ~Hit(k) /\ loads' = Append(loads, new)
           /\ entry' = [entry EXCEPT ![k] = [load |-> Len(loads) + 1,
                                             expiresAt |-> now + Ttl]]
           /\ waits' = [waits EXCEPT ![c] = Len(loads) + 1]
  <2> DEFINE N == Len(loads) + 1
  <2> HIDE DEF N
  <2>1. /\ new \in Load /\ N \in Nat /\ N > 0 /\ N = Len(loads) + 1
        /\ loads \in Seq(Load) /\ now \in Nat
    BY DEF TypeOK, Load, N
  <2>2. /\ loads' \in Seq(Load)
        /\ \A n \in DOMAIN loads : n \in DOMAIN loads' /\ n # N /\ n < N /\ n \in Nat
                                   /\ loads'[n] = loads[n]
        /\ \A n \in DOMAIN loads' : n = N \/ n \in DOMAIN loads
        /\ N \in DOMAIN loads' /\ loads'[N] = new
    BY <1>2, <2>1
  <2>3. /\ new.key = k /\ new.at = now /\ new.saw = {source[k]}
        /\ new.state = "running"
    OBVIOUS
  <2> HIDE DEF new
  <2>4. /\ entry' = [entry EXCEPT ![k] = [load |-> N, expiresAt |-> now + Ttl]]
        /\ waits' = [waits EXCEPT ![c] = N]
        /\ asked' = [asked EXCEPT ![c] = [key |-> k, at |-> now]]
        /\ answer' = [answer EXCEPT ![c] = "none"]
        /\ UNCHANGED <<now, source, heldAt>>
    BY <1>2, <2>1 DEF Get, sourceVars
  <2>5. TypeOK'
    <3>1. entry' \in [Keys -> [load : Nat, expiresAt : Nat]]
      BY <2>1, <2>4 DEF TypeOK
    <3> QED BY <2>1, <2>2, <2>4, <3>1 DEF TypeOK
  <2>6. /\ entry'[k].load = N /\ entry'[k].expiresAt = now + Ttl
        /\ \A j \in Keys : j # k => entry'[j] = entry[j]
        /\ waits'[c] = N /\ asked'[c].key = k /\ asked'[c].at = now
        /\ answer'[c] = "none"
        /\ \A d \in Callers : d # c =>
              waits'[d] = waits[d] /\ asked'[d] = asked[d] /\ answer'[d] = answer[d]
    BY <2>4 DEF TypeOK
  <2>7. EntriesSound'
    <3> SUFFICES ASSUME NEW j \in Keys, entry'[j].load # 0
                 PROVE  /\ entry'[j].load \in DOMAIN loads'
                        /\ loads'[entry'[j].load].key = j
                        /\ entry'[j].expiresAt = loads'[entry'[j].load].at + Ttl
                        /\ loads'[entry'[j].load].state # "failed"
      BY DEF EntriesSound
    <3>1. CASE j = k
      BY <2>2, <2>3, <2>6, <3>1
    <3>2. CASE j # k
      BY <2>2, <2>6, <3>2 DEF EntriesSound
    <3> QED BY <3>1, <3>2
  <2>8. ASSUME NEW n \in DOMAIN loads, loads[n].key = k, loads[n].state = "running"
        PROVE  loads[n].at + Ttl <= now
    <3>1. n # 0 /\ loads[n].at \in Nat
      BY <2>2, LoadType
    <3>2. loads[n].at + Ttl <= now \/ entry[k].load = n
      BY <2>8 DEF RunningCached
    <3>3. CASE entry[k].load = n
      <4>1. ~(entry[k].expiresAt > now)
        BY <1>2, <3>1, <3>3 DEF Hit
      <4>2. entry[k].expiresAt = loads[n].at + Ttl
        BY <3>1, <3>3 DEF EntriesSound
      <4> QED BY <2>1, <3>1, <4>1, <4>2
    <3> QED BY <3>2, <3>3
  <2>9. RunningCached'
    <3> SUFFICES ASSUME NEW n \in DOMAIN loads', loads'[n].state = "running"
                 PROVE  loads'[n].at + Ttl <= now \/ entry'[loads'[n].key].load = n
      BY <2>4 DEF RunningCached
    <3>1. CASE n = N
      BY <2>2, <2>3, <2>6, <3>1
    <3>2. CASE n \in DOMAIN loads /\ loads[n].key = k
      BY <2>2, <2>8, <3>2
    <3>3. CASE n \in DOMAIN loads /\ loads[n].key # k
      <4>1. loads[n].key \in Keys
        BY <3>3, LoadType
      <4> QED BY <2>2, <2>6, <3>3, <4>1 DEF RunningCached
    <3> QED BY <2>2, <3>1, <3>2, <3>3
  <2>10. Coalesced'
    <3> SUFFICES ASSUME NEW m \in DOMAIN loads', NEW n \in DOMAIN loads',
                        m < n, loads'[m].key = loads'[n].key,
                        loads'[m].state = "running", loads'[n].state = "running"
                 PROVE  loads'[n].at >= loads'[m].at + Ttl
      BY DEF Coalesced
    <3>1. m \in DOMAIN loads
      BY <2>1, <2>2
    <3>2. CASE n = N
      BY <2>1, <2>2, <2>3, <2>8, <3>1, <3>2, LoadType
    <3>3. CASE n \in DOMAIN loads
      BY <2>2, <3>1, <3>3 DEF Coalesced
    <3> QED BY <2>2, <3>2, <3>3
  <2>11. heldUntil' = heldUntil
    BY <2>4 DEF heldUntil
  <2>12. source[k] = "granted" => now <= heldUntil[k]
    BY <2>1 DEF heldUntil
  <2>13. LoadsSound'
    <3> SUFFICES ASSUME NEW n \in DOMAIN loads'
                 PROVE  /\ loads'[n].at <= now
                        /\ "granted" \in loads'[n].saw =>
                              loads'[n].at <= heldUntil[loads'[n].key]
      BY <2>4, <2>11 DEF LoadsSound
    <3>1. CASE n = N
      BY <2>1, <2>2, <2>3, <2>12, <3>1
    <3>2. CASE n \in DOMAIN loads
      BY <2>2, <3>2 DEF LoadsSound
    <3> QED BY <2>2, <3>1, <3>2
  <2>14. WaitsSound'
    <3> SUFFICES ASSUME NEW d \in Callers, waits'[d] # 0
                 PROVE  /\ waits'[d] \in DOMAIN loads'
                        /\ loads'[waits'[d]].key = asked'[d].key
                        /\ \/ asked'[d].at = loads'[waits'[d]].at
                           \/ asked'[d].at < loads'[waits'[d]].at + Ttl
      BY DEF WaitsSound
    <3>1. CASE d = c
      BY <2>2, <2>3, <2>6, <3>1
    <3>2. CASE d # c
      BY <2>2, <2>6, <3>2 DEF WaitsSound
    <3> QED BY <3>1, <3>2
  <2>15. RevocationHonoured'
    <3> SUFFICES ASSUME NEW d \in Callers, answer'[d] = "granted"
                 PROVE  \/ asked'[d].at <= heldUntil[asked'[d].key]
                        \/ asked'[d].at < heldUntil[asked'[d].key] + Ttl
      BY <2>11 DEF RevocationHonoured
    <3> QED BY <2>6 DEF RevocationHonoured
  <2>16. TimesSound'
    BY <2>4 DEF TimesSound
  <2> QED BY <2>5, <2>7, <2>9, <2>10, <2>13, <2>14, <2>15, <2>16
<1> QED BY <1>1, <1>2 DEF Get

\* What a step does to one load n that exists, when it changes nothing else but
\* the cache entry of a load that is not running.
LEMMA LoadStepInv ==
    ASSUME IInv, NEW n \in DOMAIN loads, LoadStep(n)
    PROVE  IInv'
<1> USE DEF IInv
<1>0. loads \in Seq(Load) /\ loads[n] \in Load
  BY DEF TypeOK
<1>1. loads' \in Seq(Load) /\ DOMAIN loads' = DOMAIN loads
      /\ \A m \in DOMAIN loads :
            /\ loads'[m].key = loads[m].key /\ loads'[m].at = loads[m].at
            /\ loads'[m].saw \subseteq loads[m].saw
            /\ m # n => loads'[m] = loads[m]
            /\ loads'[m].state = "running" => loads[m].state = "running" /\ m # n
  <2>1. PICK r \in Load : /\ loads' = [loads EXCEPT ![n] = r]
                          /\ r.key = loads[n].key /\ r.at = loads[n].at
                          /\ r.saw \subseteq loads[n].saw /\ r.state # "running"
    <3>1. ASSUME NEW t \in {"ok", "rejected", "failed"}, NEW v \in SUBSET Verdicts,
                 v \subseteq loads[n].saw
          PROVE  LET r == [loads[n] EXCEPT !.state = t, !.saw = v]
                 IN  /\ r \in Load /\ r.key = loads[n].key /\ r.at = loads[n].at
                     /\ r.saw \subseteq loads[n].saw /\ r.state # "running"
      BY <1>0, <3>1 DEF Load
    <3>2. ASSUME NEW t \in {"rejected", "failed"}
          PROVE  LET r == [loads[n] EXCEPT !.state = t]
                 IN  /\ r \in Load /\ r.key = loads[n].key /\ r.at = loads[n].at
                     /\ r.saw \subseteq loads[n].saw /\ r.state # "running"
      BY <1>0 DEF Load
    <3>3. CASE LoadResolves(n)
      <4>1. PICK v \in loads[n].saw :
                loads' = [loads EXCEPT ![n].state = "ok", ![n].saw = {v}]
        BY <3>3 DEF LoadResolves
      <4>2. loads' = [loads EXCEPT ![n] = [loads[n] EXCEPT !.state = "ok", !.saw = {v}]]
        BY <4>1, <1>0
      <4>3. {v} \in SUBSET Verdicts /\ {v} \subseteq loads[n].saw
        BY <1>0 DEF Load
      <4> QED BY <3>1, <4>2, <4>3
    <3>4. CASE LoadRejects(n) \/ Evict(n)
      BY <3>2, <3>4 DEF LoadRejects, Evict
    <3> QED BY <3>3, <3>4 DEF LoadStep
  <2>2. \A m \in DOMAIN loads : m # n => loads'[m] = loads[m]
    BY <2>1, <1>0
  <2>3. loads'[n] = r /\ DOMAIN loads' = DOMAIN loads /\ loads' \in Seq(Load)
    BY <2>1, <1>0
  <2> QED BY <2>1, <2>2, <2>3
<1>2. UNCHANGED <<now, source, heldAt, waits, asked, answer>>
  BY DEF LoadStep, LoadResolves, LoadRejects, Evict, sourceVars, callerVars
<1>3. /\ \A k \in Keys : entry'[k] = entry[k] \/ entry'[k] = NoEntry
      /\ \A k \in Keys : entry'[k] # entry[k] => entry[k].load = n
      /\ loads'[n].state = "failed" => \A k \in Keys : entry'[k].load # n
      /\ entry' \in [Keys -> [load : Nat, expiresAt : Nat]]
  <2>1. CASE UNCHANGED entry /\ loads'[n].state # "failed"
    BY <2>1 DEF TypeOK
  <2>2. CASE Evict(n)
    <3>1. entry' = [k \in Keys |-> IF k = loads[n].key /\ entry[k].load = n
                                   THEN NoEntry ELSE entry[k]]
      BY <2>2 DEF Evict
    <3>2. n # 0 /\ NoEntry.load = 0 /\ NoEntry \in [load : Nat, expiresAt : Nat]
      BY <1>0 DEF NoEntry
    <3>3. \A k \in Keys : entry[k].load = n => k = loads[n].key
      BY <3>2 DEF EntriesSound
    <3> QED BY <3>1, <3>2, <3>3 DEF TypeOK
  <2>3. CASE LoadResolves(n) \/ LoadRejects(n)
    <3>1. loads'[n].state = "ok" \/ loads'[n].state = "rejected"
      <4>1. ASSUME NEW r \in Load, NEW v
            PROVE  /\ [r EXCEPT !.state = "rejected"].state = "rejected"
                   /\ [r EXCEPT !.state = "ok", !.saw = v].state = "ok"
        BY DEF Load
      <4>2. CASE LoadRejects(n)
        BY <1>0, <4>1, <4>2 DEF LoadRejects
      <4>3. CASE LoadResolves(n)
        <5>1. PICK v \in loads[n].saw :
                  loads' = [loads EXCEPT ![n].state = "ok", ![n].saw = {v}]
          BY <4>3 DEF LoadResolves
        <5>2. loads' = [loads EXCEPT ![n] =
                            [loads[n] EXCEPT !.state = "ok", !.saw = {v}]]
          BY <5>1, <1>0
        <5> QED BY <1>0, <4>1, <5>2
      <4> QED BY <2>3, <4>2, <4>3
    <3> QED BY <2>1, <2>3, <3>1 DEF LoadResolves, LoadRejects
  <2> QED BY <2>2, <2>3 DEF LoadStep
<1>4. TypeOK'
  BY <1>1, <1>2, <1>3 DEF TypeOK
<1>5. EntriesSound'
  <2> SUFFICES ASSUME NEW k \in Keys, entry'[k].load # 0
               PROVE  /\ entry'[k].load \in DOMAIN loads'
                      /\ loads'[entry'[k].load].key = k
                      /\ entry'[k].expiresAt = loads'[entry'[k].load].at + Ttl
                      /\ loads'[entry'[k].load].state # "failed"
    BY DEF EntriesSound
  <2>1. entry'[k] = entry[k]
    BY <1>3 DEF NoEntry
  <2>2. /\ entry[k].load \in DOMAIN loads
        /\ loads[entry[k].load].key = k
        /\ entry[k].expiresAt = loads[entry[k].load].at + Ttl
        /\ loads[entry[k].load].state # "failed"
    BY <2>1 DEF EntriesSound
  <2>3. entry[k].load = n => loads'[n].state # "failed"
    BY <1>3, <2>1
  <2> QED BY <1>1, <2>1, <2>2, <2>3
<1>6. RunningCached'
  <2> SUFFICES ASSUME NEW m \in DOMAIN loads, loads'[m].state = "running"
               PROVE  loads'[m].at + Ttl <= now' \/ entry'[loads'[m].key].load = m
    BY <1>1 DEF RunningCached
  <2>1. loads[m].state = "running" /\ m # n
    BY <1>1
  <2>2. loads[m].key \in Keys
    BY LoadType
  <2>3. loads[m].at + Ttl <= now \/ entry[loads[m].key].load = m
    BY <2>1 DEF RunningCached
  <2>4. loads'[m].key = loads[m].key /\ loads'[m].at = loads[m].at
    BY <1>1
  <2>5. entry[loads[m].key].load = m => entry'[loads[m].key] = entry[loads[m].key]
    <3> SUFFICES ASSUME entry'[loads[m].key] # entry[loads[m].key]
                 PROVE  entry[loads[m].key].load = n
      BY <2>1
    <3> QED BY <1>3, <2>2
  <2> QED BY <1>2, <2>3, <2>4, <2>5
<1>9. heldUntil' = heldUntil
  BY <1>2 DEF heldUntil
<1>10. LoadsSound'
  <2> SUFFICES ASSUME NEW m \in DOMAIN loads
               PROVE  /\ loads'[m].at <= now
                      /\ "granted" \in loads'[m].saw =>
                            loads'[m].at <= heldUntil[loads'[m].key]
    BY <1>1, <1>2, <1>9 DEF LoadsSound
  <2> QED BY <1>1 DEF LoadsSound
<1>11. WaitsSound'
  BY <1>1, <1>2 DEF WaitsSound
<1>12. Coalesced'
  <2> SUFFICES ASSUME NEW l \in DOMAIN loads, NEW m \in DOMAIN loads,
                      l < m, loads'[l].key = loads'[m].key,
                      loads'[l].state = "running", loads'[m].state = "running"
               PROVE  loads'[m].at >= loads'[l].at + Ttl
    BY <1>1 DEF Coalesced
  <2> QED BY <1>1 DEF Coalesced
<1>8. RevocationHonoured' /\ TimesSound'
  BY <1>2 DEF RevocationHonoured, TimesSound, heldUntil
<1> QED BY <1>4, <1>5, <1>6, <1>8, <1>10, <1>11, <1>12

LEMMA ReceiveInv ==
    ASSUME IInv, NEW c \in Callers, Receive(c)
    PROVE  IInv'
<1> USE DEF IInv
<1>1. UNCHANGED <<now, source, heldAt, loads, entry, asked>>
  BY DEF Receive, sourceVars
<1>2. TypeOK'
  <2>1. waits[c] \in DOMAIN loads
    BY DEF Receive, WaitsSound
  <2>2. loads[waits[c]].saw \subseteq Verdicts
    BY <2>1, LoadType
  <2>3. answer' \in [Callers -> {"none", "error"} \cup Verdicts]
        /\ waits' \in [Callers -> Nat]
    BY <2>2 DEF Receive, TypeOK
  <2> QED BY <1>1, <2>3 DEF TypeOK
<1>3. EntriesSound' /\ RunningCached' /\ Coalesced' /\ TimesSound'
  BY <1>1 DEF EntriesSound, RunningCached, Coalesced, TimesSound
<1>6. heldUntil' = heldUntil
  BY <1>1 DEF heldUntil
<1>7. LoadsSound'
  BY <1>1, <1>6 DEF LoadsSound
<1>4. WaitsSound'
  BY <1>1 DEF Receive, WaitsSound, TypeOK
<1>5. RevocationHonoured'
  <2>1. answer'[c] = "granted" => "granted" \in loads[waits[c]].saw
    BY DEF Receive, TypeOK
  <2>2. \A d \in Callers : d # c => answer'[d] = answer[d]
    BY DEF Receive, TypeOK
  <2>3. /\ waits[c] \in DOMAIN loads
        /\ loads[waits[c]].key = asked[c].key
        /\ \/ asked[c].at = loads[waits[c]].at
           \/ asked[c].at < loads[waits[c]].at + Ttl
    BY DEF Receive, WaitsSound
  <2>4. "granted" \in loads[waits[c]].saw =>
            loads[waits[c]].at <= heldUntil[asked[c].key]
    BY <2>3 DEF LoadsSound
  <2>5. /\ asked[c].at \in Nat /\ loads[waits[c]].at \in Nat
        /\ heldUntil[asked[c].key] \in Nat
    BY <2>3, LoadType DEF TypeOK, heldUntil
  <2>6. answer'[c] = "granted" =>
            \/ asked[c].at <= heldUntil[asked[c].key]
            \/ asked[c].at < heldUntil[asked[c].key] + Ttl
    BY <2>1, <2>3, <2>4, <2>5
  <2> QED BY <1>1, <1>6, <2>2, <2>6 DEF RevocationHonoured
<1> QED BY <1>2, <1>3, <1>4, <1>5, <1>7

LEMMA ChangeInv ==
    ASSUME IInv, NEW k \in Keys, Change(k)
    PROVE  IInv'
<1> USE DEF IInv
<1>1. /\ UNCHANGED <<now, entry, waits, asked, answer>>
      /\ loads \in Seq(Load)
  BY DEF Change, callerVars, TypeOK
<1>2. /\ loads' \in Seq(Load) /\ DOMAIN loads' = DOMAIN loads
      /\ \A n \in DOMAIN loads :
            /\ loads'[n].key = loads[n].key /\ loads'[n].at = loads[n].at
            /\ loads'[n].state = loads[n].state
            /\ loads[n].key # k => loads'[n] = loads[n]
  <2>1. ASSUME NEW r \in Load
        PROVE  /\ [r EXCEPT !.saw = Verdicts] \in Load
               /\ [r EXCEPT !.saw = Verdicts].key = r.key
               /\ [r EXCEPT !.saw = Verdicts].at = r.at
               /\ [r EXCEPT !.saw = Verdicts].state = r.state
    BY DEF Load
  <2>2. \A n \in DOMAIN loads : loads[n] \in Load
    BY <1>1
  <2>3. DOMAIN loads' = DOMAIN loads /\ \A n \in DOMAIN loads :
           \/ loads'[n] = loads[n]
           \/ loads[n].key = k /\ loads'[n] = [loads[n] EXCEPT !.saw = Verdicts]
    BY DEF Change
  <2>4. \A n \in DOMAIN loads :
            /\ loads'[n] \in Load
            /\ loads'[n].key = loads[n].key /\ loads'[n].at = loads[n].at
            /\ loads'[n].state = loads[n].state
    BY <2>1, <2>2, <2>3
  <2>5. loads' \in [1 .. Len(loads) -> Load]
    BY <1>1, <2>3, <2>4 DEF Change
  <2> QED BY <1>1, <2>3, <2>4, <2>5
<1>3. heldUntil'[k] = now
  BY DEF Change, heldUntil, TypeOK
<1>4. \A j \in Keys : heldUntil[j] <= heldUntil'[j] /\ heldUntil'[j] \in Nat
                      /\ heldUntil[j] \in Nat
  <2> TAKE j \in Keys
  <2>1. heldUntil[j] \in Nat /\ heldUntil[j] <= now /\ now \in Nat
    BY DEF heldUntil, TypeOK, TimesSound
  <2>2. CASE j = k
    BY <1>3, <2>1, <2>2
  <2>3. CASE j # k
    <3>1. source'[j] = source[j] /\ heldAt'[j] = heldAt[j]
      BY <2>3 DEF Change, TypeOK
    <3>2. heldUntil'[j] = heldUntil[j]
      BY <1>1, <3>1 DEF heldUntil
    <3> QED BY <2>1, <3>2
  <2> QED BY <2>2, <2>3
<1>5. TypeOK' /\ TimesSound'
  <2>1. source' \in [Keys -> Verdicts]
    <3>1. "denied" \in Verdicts /\ "granted" \in Verdicts
      BY DEF Verdicts
    <3> QED BY <3>1 DEF Change, TypeOK
  <2>2. heldAt' \in [Keys -> Nat] /\ \A j \in Keys : heldAt'[j] <= now
    BY DEF Change, TypeOK, TimesSound
  <2> QED BY <1>1, <1>2, <2>1, <2>2 DEF TypeOK, TimesSound
<1>6. EntriesSound' /\ RunningCached'
  BY <1>1, <1>2 DEF EntriesSound, RunningCached
<1>9. WaitsSound'
  BY <1>1, <1>2 DEF WaitsSound
<1>10. Coalesced'
  BY <1>2 DEF Coalesced
<1>7. LoadsSound'
  <2> SUFFICES ASSUME NEW n \in DOMAIN loads
               PROVE  /\ loads[n].at <= now
                      /\ "granted" \in loads'[n].saw =>
                            loads[n].at <= heldUntil'[loads[n].key]
    BY <1>1, <1>2 DEF LoadsSound, heldUntil
  <2>1. loads[n].at <= now /\ loads[n].at \in Nat /\ loads[n].key \in Keys
    BY LoadType DEF LoadsSound
  <2>2. CASE loads[n].key = k
    BY <1>1, <1>3, <2>1, <2>2
  <2>3. CASE loads[n].key # k
    <3>1. "granted" \in loads[n].saw => loads[n].at <= heldUntil[loads[n].key]
      BY DEF LoadsSound
    <3>2. /\ heldUntil[loads[n].key] <= heldUntil'[loads[n].key]
          /\ heldUntil[loads[n].key] \in Nat /\ heldUntil'[loads[n].key] \in Nat
      BY <1>4, <2>1
    <3>3. loads'[n].saw = loads[n].saw
      BY <1>2, <2>3
    <3> QED BY <2>1, <3>1, <3>2, <3>3
  <2> QED BY <2>2, <2>3
<1>8. RevocationHonoured'
  <2> SUFFICES ASSUME NEW c \in Callers, answer[c] = "granted"
               PROVE  \/ asked[c].at <= heldUntil'[asked[c].key]
                      \/ asked[c].at < heldUntil'[asked[c].key] + Ttl
    BY <1>1 DEF RevocationHonoured, heldUntil
  <2>1. \/ asked[c].at <= heldUntil[asked[c].key]
        \/ asked[c].at < heldUntil[asked[c].key] + Ttl
    BY DEF RevocationHonoured
  <2>2. asked[c].key \in Keys /\ asked[c].at \in Nat
    BY DEF TypeOK
  <2> QED BY <1>4, <2>1, <2>2
<1> QED BY <1>5, <1>6, <1>7, <1>8, <1>9, <1>10

LEMMA TickInv ==
    ASSUME IInv, Tick
    PROVE  IInv'
<1> USE DEF IInv
<1>1. /\ UNCHANGED <<source, heldAt, loads, entry, waits, asked, answer>>
      /\ now' = now + 1 /\ now \in Nat
  BY DEF Tick, sourceVars, callerVars, TypeOK
<1>2. \A k \in Keys : heldUntil[k] <= heldUntil'[k] /\ heldUntil'[k] \in Nat
                      /\ heldUntil[k] \in Nat
  BY <1>1 DEF heldUntil, TypeOK
<1>3. TypeOK' /\ TimesSound' /\ EntriesSound' /\ WaitsSound' /\ Coalesced'
  BY <1>1 DEF TypeOK, TimesSound, EntriesSound, WaitsSound, Coalesced
<1>4. RunningCached'
  <2> SUFFICES ASSUME NEW n \in DOMAIN loads, loads[n].state = "running"
               PROVE  loads[n].at + Ttl <= now + 1 \/ entry[loads[n].key].load = n
    BY <1>1 DEF RunningCached
  <2> QED BY <1>1, LoadType DEF RunningCached
<1>5. LoadsSound'
  <2> SUFFICES ASSUME NEW n \in DOMAIN loads
               PROVE  /\ loads[n].at <= now + 1
                      /\ "granted" \in loads[n].saw =>
                            loads[n].at <= heldUntil'[loads[n].key]
    BY <1>1 DEF LoadsSound, heldUntil
  <2>1. loads[n].at \in Nat /\ loads[n].key \in Keys
    BY LoadType
  <2>2. /\ loads[n].at <= now
        /\ "granted" \in loads[n].saw => loads[n].at <= heldUntil[loads[n].key]
    BY DEF LoadsSound
  <2>3. /\ heldUntil[loads[n].key] <= heldUntil'[loads[n].key]
        /\ heldUntil[loads[n].key] \in Nat /\ heldUntil'[loads[n].key] \in Nat
    BY <1>2, <2>1
  <2> QED BY <1>1, <2>1, <2>2, <2>3
<1>6. RevocationHonoured'
  <2> SUFFICES ASSUME NEW c \in Callers, answer[c] = "granted"
               PROVE  \/ asked[c].at <= heldUntil'[asked[c].key]
                      \/ asked[c].at < heldUntil'[asked[c].key] + Ttl
    BY <1>1 DEF RevocationHonoured, heldUntil
  <2>1. \/ asked[c].at <= heldUntil[asked[c].key]
        \/ asked[c].at < heldUntil[asked[c].key] + Ttl
    BY DEF RevocationHonoured
  <2>2. asked[c].key \in Keys /\ asked[c].at \in Nat
    BY DEF TypeOK
  <2> QED BY <1>2, <2>1, <2>2
<1> QED BY <1>3, <1>4, <1>5, <1>6

-----------------------------------------------------------------------------
LEMMA NextInv == IInv /\ [Next]_vars => IInv'
<1> SUFFICES ASSUME IInv, [Next]_vars PROVE IInv'
  OBVIOUS
<1>1. CASE UNCHANGED vars
  <2> USE <1>1 DEF vars, sourceVars, callerVars, IInv
  <2>1. TypeOK' /\ TimesSound'
    BY DEF TypeOK, TimesSound
  <2>2. EntriesSound' /\ RunningCached' /\ WaitsSound' /\ Coalesced'
    BY DEF EntriesSound, RunningCached, WaitsSound, Coalesced
  <2>3. heldUntil' = heldUntil
    BY DEF heldUntil
  <2>4. LoadsSound' /\ RevocationHonoured'
    BY <2>3 DEF LoadsSound, RevocationHonoured
  <2> QED BY <2>1, <2>2, <2>4
<1> QED BY <1>1, GetInv, LoadStepInv, ReceiveInv, ChangeInv, TickInv DEF Next

\* Whatever the callers, keys and TTL: the invariant of the cache.
THEOREM CacheInv == Spec => []IInv
BY InitInv, NextInv, PTL DEF Spec

\* In-flight loads are coalesced for as long as the TTL allows.
THEOREM CoalescedAlways == Spec => []Coalesced
<1>1. IInv => Coalesced
  BY DEF IInv
<1> QED BY <1>1, CacheInv, PTL

\* Errors are never cached.
THEOREM ErrorsNeverCachedAlways == Spec => []ErrorsNeverCached
<1>1. IInv => ErrorsNeverCached
  BY DEF IInv, EntriesSound, ErrorsNeverCached
<1> QED BY <1>1, CacheInv, PTL

\* A revocation is honoured a TTL later, for every TTL, zero included.
THEOREM RevocationHonouredAlways == Spec => []RevocationHonoured
<1>1. IInv => RevocationHonoured
  BY DEF IInv
<1> QED BY <1>1, CacheInv, PTL
=============================================================================
