----------------------------- MODULE AccessCache -----------------------------
(***************************************************************************)
(* The shared cache of contextual access in @moribashi/auth (AccessCache   *)
(* in packages/auth/src/security.ts): one promise per identity and         *)
(* context, stored when its load starts, served until the TTL after that   *)
(* start, and evicted when the load fails.                                 *)
(*                                                                         *)
(* A key stands for one identity in one context, and the access it loads   *)
(* for whether that identity holds the permission its callers ask for.     *)
(* The source of that access, behind the app's AccessLoader, changes at    *)
(* any time, and a load may return any value the source had while it ran.  *)
(*                                                                         *)
(* An action is the code between two awaits.  Promise reactions run before *)
(* the clock is read again.                                                *)
(***************************************************************************)
EXTENDS Integers, Sequences

CONSTANTS
    Callers,   \* hasAny() and ensureAny() calls, one at a time each
    Keys,      \* identity:contextId
    Ttl,       \* ttlMs
    MaxTime,   \* bound: the clock
    MaxLoads   \* bound: loads ever started

ASSUME CacheAssumption == Ttl \in Nat /\ MaxTime \in Nat /\ MaxLoads \in Nat

VARIABLES
    now,       \* this.now()
    source,    \* per key, what the app's source says of the permission
    heldAt,    \* per key, when that last changed
    loads,     \* every load: its key, start, state, and the values it may return
    entry,     \* per key, the load in the cache (0: none) and its expiresAt
    waits,     \* per caller, the load whose promise it awaits (0: none)
    asked,     \* per caller, the key and the time of its latest get()
    answer     \* per caller, what that get() led to

sourceVars == <<source, heldAt>>
callerVars == <<waits, asked, answer>>
vars == <<now, sourceVars, loads, entry, callerVars>>

Verdicts == {"granted", "denied"}
Load == [key : Keys, at : Nat, saw : SUBSET Verdicts,
         state : {"running", "ok", "rejected", "failed"}]
NoEntry == [load |-> 0, expiresAt |-> 0]

Init ==
    /\ now = 0
    /\ source = [k \in Keys |-> "granted"] /\ heldAt = [k \in Keys |-> 0]
    /\ loads = <<>>
    /\ entry = [k \in Keys |-> NoEntry]
    /\ waits = [c \in Callers |-> 0]
    /\ asked \in [Callers -> [key : Keys, at : {0}]]
    /\ answer = [c \in Callers |-> "none"]

-----------------------------------------------------------------------------
Hit(k) == entry[k].load # 0 /\ entry[k].expiresAt > now

\* Mutant: a hit prolongs the life of the entry.
SlidingGet(c, k) ==
    /\ waits[c] = 0
    /\ asked' = [asked EXCEPT ![c] = [key |-> k, at |-> now]]
    /\ answer' = [answer EXCEPT ![c] = "none"]
    /\ \/ /\ Hit(k)
          /\ waits' = [waits EXCEPT ![c] = entry[k].load]
          /\ entry' = [entry EXCEPT ![k].expiresAt = now + Ttl]
          /\ UNCHANGED loads
       \/ /\ ~Hit(k) /\ Len(loads) < MaxLoads
          /\ loads' = Append(loads, [key |-> k, at |-> now, saw |-> {source[k]},
                                     state |-> "running"])
          /\ entry' = [entry EXCEPT ![k] = [load |-> Len(loads) + 1,
                                            expiresAt |-> now + Ttl]]
          /\ waits' = [waits EXCEPT ![c] = Len(loads) + 1]
    /\ UNCHANGED <<now, sourceVars>>

\* get(identity, contextId, load), up to the await of its promise: the promise
\* in the cache, or a new one that replaces it.
Get(c, k) ==
    /\ waits[c] = 0
    /\ asked' = [asked EXCEPT ![c] = [key |-> k, at |-> now]]
    /\ answer' = [answer EXCEPT ![c] = "none"]
    /\ \/ /\ Hit(k)
          /\ waits' = [waits EXCEPT ![c] = entry[k].load]
          /\ UNCHANGED <<loads, entry>>
       \/ /\ ~Hit(k) /\ Len(loads) < MaxLoads
          /\ loads' = Append(loads, [key |-> k, at |-> now, saw |-> {source[k]},
                                     state |-> "running"])
          /\ entry' = [entry EXCEPT ![k] = [load |-> Len(loads) + 1,
                                            expiresAt |-> now + Ttl]]
          /\ waits' = [waits EXCEPT ![c] = Len(loads) + 1]
    /\ UNCHANGED <<now, sourceVars>>

\* The app's loader settles.
LoadResolves(n) ==
    /\ loads[n].state = "running"
    /\ \E v \in loads[n].saw :
          loads' = [loads EXCEPT ![n].state = "ok", ![n].saw = {v}]
    /\ UNCHANGED <<now, sourceVars, entry, callerVars>>

LoadRejects(n) ==
    /\ loads[n].state = "running"
    /\ loads' = [loads EXCEPT ![n].state = "rejected"]
    /\ UNCHANGED <<now, sourceVars, entry, callerVars>>

\* Mutants: the entry is deleted whatever load it holds; it is not deleted.
EvictByKey(n) ==
    /\ loads[n].state = "rejected"
    /\ loads' = [loads EXCEPT ![n].state = "failed"]
    /\ entry' = [entry EXCEPT ![loads[n].key] = NoEntry]
    /\ UNCHANGED <<now, sourceVars, callerVars>>

EvictNothing(n) ==
    /\ loads[n].state = "rejected"
    /\ loads' = [loads EXCEPT ![n].state = "failed"]
    /\ UNCHANGED <<now, sourceVars, entry, callerVars>>

\* value.catch(): the first reaction to a rejected load, ahead of every caller's.
Evict(n) ==
    /\ loads[n].state = "rejected"
    /\ loads' = [loads EXCEPT ![n].state = "failed"]
    /\ entry' = [k \in Keys |-> IF k = loads[n].key /\ entry[k].load = n
                                THEN NoEntry ELSE entry[k]]
    /\ UNCHANGED <<now, sourceVars, callerVars>>

\* The caller goes on with what its promise settled to.
Receive(c) ==
    /\ waits[c] # 0
    /\ \/ /\ loads[waits[c]].state = "failed"
          /\ answer' = [answer EXCEPT ![c] = "error"]
       \/ /\ loads[waits[c]].state = "ok"
          /\ \E v \in loads[waits[c]].saw : answer' = [answer EXCEPT ![c] = v]
    /\ waits' = [waits EXCEPT ![c] = 0]
    /\ UNCHANGED <<now, sourceVars, loads, entry, asked>>

-----------------------------------------------------------------------------
\* The source grants or revokes; running loads may see it.
Change(k) ==
    /\ source' = [source EXCEPT ![k] =
                      IF @ = "granted" THEN "denied" ELSE "granted"]
    /\ heldAt' = [heldAt EXCEPT ![k] = now]
    /\ loads' = [n \in DOMAIN loads |->
          IF loads[n].key = k /\ loads[n].state = "running"
          THEN [loads[n] EXCEPT !.saw = Verdicts] ELSE loads[n]]
    /\ UNCHANGED <<now, entry, callerVars>>

\* No promise reaction is due.
Settled ==
    /\ \A n \in DOMAIN loads : loads[n].state # "rejected"
    /\ \A c \in Callers : waits[c] # 0 => loads[waits[c]].state = "running"

Tick ==
    /\ Settled /\ now < MaxTime
    /\ now' = now + 1
    /\ UNCHANGED <<sourceVars, loads, entry, callerVars>>

LoadStep(n) == LoadResolves(n) \/ LoadRejects(n) \/ Evict(n)

Next ==
    \/ \E c \in Callers : Receive(c) \/ \E k \in Keys : Get(c, k)
    \/ \E n \in DOMAIN loads : LoadStep(n)
    \/ \E k \in Keys : Change(k)
    \/ Tick

Spec == Init /\ [][Next]_vars

-----------------------------------------------------------------------------
(***************************************************************************)
(* Properties.                                                             *)
(***************************************************************************)

TypeOK ==
    /\ now \in Nat
    /\ source \in [Keys -> Verdicts] /\ heldAt \in [Keys -> Nat]
    /\ loads \in Seq(Load)
    /\ entry \in [Keys -> [load : Nat, expiresAt : Nat]]
    /\ waits \in [Callers -> Nat]
    /\ asked \in [Callers -> [key : Keys, at : Nat]]
    /\ answer \in [Callers -> {"none", "error"} \cup Verdicts]

\* "In-flight loads are coalesced": two loads of one key run together only when
\* the older has outlived its TTL, whichever loads fail, late or out of order.
Coalesced ==
    \A m, n \in DOMAIN loads :
        /\ m < n /\ loads[m].key = loads[n].key
        /\ loads[m].state = "running" /\ loads[n].state = "running"
        => loads[n].at >= loads[m].at + Ttl

\* "Errors are never cached": once a caller may have seen a load fail, no get()
\* finds that load again.
ErrorsNeverCached ==
    \A k \in Keys :
        entry[k].load # 0 => loads[entry[k].load].state # "failed"

\* The time up to which the source is known to have granted a key.
heldUntil == [k \in Keys |-> IF source[k] = "granted" THEN now ELSE heldAt[k]]

\* A revoked permission is not honoured for longer than the TTL: a get() made a
\* TTL or more after the revocation is never answered with the old access, even
\* by a load that was slow or by one that another caller started.
RevocationHonoured ==
    \A c \in Callers :
        answer[c] = "granted" =>
            LET t == heldUntil[asked[c].key]
            IN  asked[c].at <= t \/ asked[c].at < t + Ttl

-----------------------------------------------------------------------------
(***************************************************************************)
(* The inductive invariant behind them.                                    *)
(***************************************************************************)

\* An entry holds a load of its key that has not been seen to fail.
EntriesSound ==
    \A k \in Keys : entry[k].load # 0 =>
        /\ entry[k].load \in DOMAIN loads
        /\ loads[entry[k].load].key = k
        /\ entry[k].expiresAt = loads[entry[k].load].at + Ttl
        /\ loads[entry[k].load].state # "failed"

\* A running load is in the cache until its TTL is over.
RunningCached ==
    \A n \in DOMAIN loads : loads[n].state = "running" =>
        \/ loads[n].at + Ttl <= now
        \/ entry[loads[n].key].load = n

\* A load that may grant ran when the source granted its key.
LoadsSound ==
    \A n \in DOMAIN loads :
        /\ loads[n].at <= now
        /\ "granted" \in loads[n].saw => loads[n].at <= heldUntil[loads[n].key]

\* A caller waits for a load of its key that was usable when it asked.
WaitsSound ==
    \A c \in Callers : waits[c] # 0 =>
        /\ waits[c] \in DOMAIN loads
        /\ loads[waits[c]].key = asked[c].key
        /\ \/ asked[c].at = loads[waits[c]].at
           \/ asked[c].at < loads[waits[c]].at + Ttl

TimesSound == \A k \in Keys : heldAt[k] <= now

IInv ==
    /\ TypeOK /\ TimesSound
    /\ EntriesSound /\ RunningCached /\ LoadsSound /\ WaitsSound
    /\ Coalesced /\ RevocationHonoured
=============================================================================
