--------------------------- MODULE AppLifecycle ---------------------------
(***************************************************************************)
(* The application lifecycle of @moribashi/core (packages/core/src/        *)
(* index.ts): plugins, start(), stop() and the scopes of the work a server *)
(* admits meanwhile.                                                       *)
(*                                                                         *)
(* Services 1 .. N are the singletons in registration order.  Service      *)
(* Server is the one whose onInit starts admitting work and whose          *)
(* onDestroy stops admitting it and waits for the work in progress: the    *)
(* WebServer of @moribashi/web (fastify.listen, fastify.close) or the      *)
(* consumer of @moribashi/kafka (start, stop).  A worker is one request or *)
(* message: it has a scope, resolves a scoped service that has an          *)
(* onDestroy hook, and disposes the scope when it is done.  A request may  *)
(* be aborted by its client, which disposes the scope under its handler    *)
(* and frees the server from waiting for it.                               *)
(*                                                                         *)
(* An action is the code between two awaits; calls of start() and stop()   *)
(* interleave at their awaits.                                             *)
(***************************************************************************)
EXTENDS Integers, FiniteSets, SequencesExt

CONSTANTS
    N,           \* the number of singletons
    Needs,       \* per singleton, what resolving it constructs, itself included
    Server,      \* the singleton that admits work
    Plugins,     \* plugins with an async register()
    Starters,    \* callers of start(), one call at a time each
    Stoppers,    \* callers of stop(), one call at a time each
    MaxCalls,    \* bound: the calls each of them makes
    Workers,     \* requests or messages that may arrive, each with one scope
    Faults       \* which promises may reject

ASSUME AppAssumption ==
    /\ N \in Nat
    /\ Needs \in [1 .. N -> SUBSET (1 .. N)]
    /\ \A s \in 1 .. N : s \in Needs[s]
    /\ \A s \in 1 .. N : \A t \in Needs[s] : Needs[t] \subseteq Needs[s]
    /\ Server \in 1 .. N
    /\ MaxCalls \in Nat
    /\ Faults \subseteq {"plugin", "resolve", "init", "destroy", "scope", "abort"}
    /\ IsFiniteSet(Stoppers) /\ Starters \cap Stoppers = {}
    /\ Workers \cap Stoppers = {}
    /\ ({"abort"} \X Workers) \cap (Workers \cup Stoppers) = {}

\* container.dispose() empties the cache: singletons are constructed anew.
Generations == 0 .. Cardinality(Stoppers) * MaxCalls
Instances == (1 .. N) \X Generations

VARIABLES
    plugin,       \* per plugin, its register() promise
    pending,      \* pendingRegistrations
    timely,       \* history: the plugins used while no start() was in progress
    started,      \* the flag
    gen,          \* how often the container was disposed
    life,         \* per instance of a singleton, what became of it
    initialized,  \* initializedServices
    startPc,      \* per starter, where its start() is
    calls,        \* per starter and stopper, the calls it made
    batch,        \* per starter, what its Promise.all waits for
    at,           \* per starter, the service whose onInit it awaits
    stopPc,       \* per stopper, where its stop() is
    stopList,     \* per stopper, the instances it has still to destroy
    passed,       \* per stopper, the scopes its loop over activeScopes reached
    activeScopes, \* in creation order
    workPc,       \* per worker, where it is
    server,       \* per worker, the generation of the server that admitted it
    aborted,      \* the workers whose client is gone
    built,        \* per scope, the scoped instances constructed in it
    cached,       \* per scope, the instance in its cache (0: none)
    destroyed,    \* per scope, the instances whose onDestroy was called
    disposing     \* per caller of scope.dispose(), the call in progress

pluginVars == <<plugin, pending, timely>>
startVars == <<startPc, batch, at>>
stopVars == <<stopPc, stopList, passed>>
scopeVars == <<activeScopes, built, cached, destroyed, disposing>>
workVars == <<workPc, server, aborted>>
serviceVars == <<gen, life, initialized>>
callerVars == <<calls, startVars, stopVars>>
vars == <<pluginVars, started, gen, life, initialized, calls, startVars,
          stopVars, scopeVars, workVars>>

Lives == {"none", "built", "initing", "initFailed", "up", "destroying",
          "destroyFailed", "down"}

\* The onDestroy of the instance was called.
Touched == {"destroying", "destroyFailed", "down"}

\* It came up, and is not down.
Standing == {"up", "destroying", "destroyFailed"}

\* Callers of scope.dispose(), and no call: <<scope, instance>> is a call that
\* awaits the onDestroy of that instance (0: it found none).
Aborts == {"abort"} \X Workers
Disposers == Workers \cup Stoppers \cup Aborts
NoCall == <<>>

\* A call of start() or stop() is in progress.
Starting(c) == startPc[c] \in {"plugins", "initing"}
Stopping(c) == stopPc[c] \in {"scopes", "destroying", "container"}

\* The server admits work through its current instances; one that is closing
\* still runs what it had accepted, as the attempts of a message in flight.
Admitting == {g \in Generations : life[<<Server, g>>] \in {"up", "destroying"}}

\* The request or message is in progress.
Working(w) == workPc[w] \in {"open", "using", "disposing"}

\* The work that the server waits for when it is closed.
Busy(g) == {w \in Workers \ aborted :
               server[w] = g /\ Working(w)}

-----------------------------------------------------------------------------
\* createApp().
Init ==
    /\ plugin = [p \in Plugins |-> "unused"] /\ pending = {} /\ timely = {}
    /\ started = FALSE /\ gen = 0
    /\ life = [i \in Instances |-> "none"]
    /\ initialized = <<>>
    /\ calls = [c \in Starters \cup Stoppers |-> 0]
    /\ startPc = [c \in Starters |-> "idle"]
    /\ batch = [c \in Starters |-> {}] /\ at = [c \in Starters |-> <<1, 0>>]
    /\ stopPc = [c \in Stoppers |-> "idle"]
    /\ stopList = [c \in Stoppers |-> <<>>] /\ passed = [c \in Stoppers |-> {}]
    /\ activeScopes = <<>>
    /\ workPc = [w \in Workers |-> "idle"] /\ server = [w \in Workers |-> 0]
    /\ aborted = {}
    /\ built = [w \in Workers |-> 0] /\ cached = [w \in Workers |-> 0]
    /\ destroyed = [w \in Workers |-> {}]
    /\ disposing = [d \in Disposers |-> NoCall]

-----------------------------------------------------------------------------
\* use(plugin): register() is called at once, and its promise is kept.
Use(p) ==
    /\ plugin[p] = "unused"
    /\ plugin' = [plugin EXCEPT ![p] = "registering"]
    /\ pending' = pending \cup {p}
    /\ timely' = IF \E c \in Starters : Starting(c) THEN timely
                 ELSE timely \cup {p}
    /\ UNCHANGED <<started, serviceVars, callerVars, scopeVars, workVars>>

PluginSettles(p) ==
    /\ plugin[p] = "registering"
    /\ \/ plugin' = [plugin EXCEPT ![p] = "registered"]
       \/ "plugin" \in Faults /\ plugin' = [plugin EXCEPT ![p] = "failed"]
    /\ UNCHANGED <<pending, timely, started, serviceVars, callerVars, scopeVars,
                   workVars>>

-----------------------------------------------------------------------------
\* Resolving services constructs those of B that are not there; l is the life of
\* the instances so far.
Construct(B, l) ==
    [i \in Instances |->
        IF i[2] = gen /\ i[1] \in B /\ l[i] = "none" THEN "built" ELSE l[i]]

\* The loop of start() from service s on, up to the next await.
\* After the last service the app is started.
Finish(c, s, l) ==
    /\ s > N
    /\ startPc' = [startPc EXCEPT ![c] = "done"]
    /\ started' = TRUE
    /\ life' = l
    /\ UNCHANGED <<at, initialized>>

\* The service is resolved (its dependencies with it), remembered, and its onInit
\* called.
Initialise(c, s, l) ==
    /\ s <= N
    /\ startPc' = [startPc EXCEPT ![c] = "initing"]
    /\ at' = [at EXCEPT ![c] = <<s, gen>>]
    /\ initialized' = Append(initialized, <<s, gen>>)
    /\ life' = [Construct(Needs[s], l) EXCEPT ![<<s, gen>>] =
                   IF @ = "up" THEN @ ELSE "initing"]
    /\ UNCHANGED started

\* A constructor throws, and start() rejects; what the service needs may have been
\* constructed before that.
ResolveThrows(c, s, l) ==
    /\ s <= N /\ "resolve" \in Faults /\ l[<<s, gen>>] = "none"
    /\ startPc' = [startPc EXCEPT ![c] = "failed"]
    /\ \E B \in SUBSET (Needs[s] \ {s}) :
          /\ \A t \in B : Needs[t] \subseteq B
          /\ life' = Construct(B, l)
    /\ UNCHANGED <<started, at, initialized>>

InitFrom(c, s, l) == Finish(c, s, l) \/ Initialise(c, s, l) \/ ResolveThrows(c, s, l)

\* start(), up to its first await: refused when started, else it waits for the
\* plugins that are pending, or goes on to the services.
Start(c) ==
    /\ startPc[c] \in {"idle", "done", "failed"} /\ calls[c] < MaxCalls
    /\ calls' = [calls EXCEPT ![c] = @ + 1]
    /\ \/ /\ started
          /\ startPc' = [startPc EXCEPT ![c] = "failed"]
          /\ UNCHANGED <<batch, at, started, life, initialized>>
       \/ /\ ~started /\ pending # {}
          /\ startPc' = [startPc EXCEPT ![c] = "plugins"]
          /\ batch' = [batch EXCEPT ![c] = pending]
          /\ UNCHANGED <<at, started, life, initialized>>
       \/ /\ ~started /\ pending = {}
          /\ InitFrom(c, 1, life)
          /\ UNCHANGED batch
    /\ UNCHANGED <<pluginVars, gen, stopVars, scopeVars, workVars>>

\* Mutant: the promises are not awaited.
PluginsNotAwaited(c) ==
    /\ startPc[c] = "plugins"
    /\ pending' = {}
    /\ InitFrom(c, 1, life)
    /\ UNCHANGED <<plugin, timely, gen, calls, batch, stopVars, scopeVars, workVars>>

\* Promise.all resolved: the list is emptied, whatever was added to it since.
PluginsReady(c) ==
    /\ startPc[c] = "plugins" /\ \A p \in batch[c] : plugin[p] = "registered"
    /\ pending' = {}
    /\ InitFrom(c, 1, life)
    /\ UNCHANGED <<plugin, timely, gen, calls, batch, stopVars, scopeVars, workVars>>

\* Mutant: a rejected promise is not noticed.
PluginsNeverReject(c) == FALSE

\* One of the promises rejected, and start() with it; the list is kept.
PluginsReject(c) ==
    /\ startPc[c] = "plugins" /\ \E p \in batch[c] : plugin[p] = "failed"
    /\ startPc' = [startPc EXCEPT ![c] = "failed"]
    /\ UNCHANGED <<pluginVars, started, serviceVars, calls, batch, at,
                   stopVars, scopeVars, workVars>>

\* The awaited onInit resolved.
InitSettles(c) ==
    /\ startPc[c] = "initing"
    /\ InitFrom(c, at[c][1] + 1, [life EXCEPT ![at[c]] = "up"])
    /\ UNCHANGED <<pluginVars, gen, calls, batch, stopVars, scopeVars,
                   workVars>>

\* Mutant: a failed onInit is logged, and start() goes on.
InitFailsSwallowed(c) ==
    /\ startPc[c] = "initing" /\ "init" \in Faults
    /\ InitFrom(c, at[c][1] + 1, [life EXCEPT ![at[c]] = "initFailed"])
    /\ UNCHANGED <<pluginVars, gen, calls, batch, stopVars, scopeVars,
                   workVars>>

\* It rejected: start() rejects, and what was initialised stays as it is.
InitFails(c) ==
    /\ startPc[c] = "initing" /\ "init" \in Faults
    /\ startPc' = [startPc EXCEPT ![c] = "failed"]
    /\ life' = [life EXCEPT ![at[c]] =
                   IF @ = "initing" THEN "initFailed" ELSE @]
    /\ UNCHANGED <<pluginVars, started, gen, initialized, calls, batch,
                   at, stopVars, scopeVars, workVars>>

-----------------------------------------------------------------------------
\* scope.dispose() called by d, up to its first await: onDestroy of the cached
\* instance is called, or the scope is dropped at once when there is none.
BeginDispose(d, w) ==
    /\ disposing' = [disposing EXCEPT ![d] = <<w, cached[w]>>]
    /\ IF cached[w] # 0
       THEN /\ destroyed' = [destroyed EXCEPT ![w] = @ \cup {cached[w]}]
            /\ UNCHANGED activeScopes
       ELSE /\ activeScopes' = RemoveFirst(activeScopes, w)
            /\ UNCHANGED destroyed
    /\ UNCHANGED <<built, cached>>

\* A worker whose dispose() settled is done.
Returns(d) == workPc' = [w \in Workers |-> IF w = d THEN "done" ELSE workPc[w]]

\* Mutants: the loop runs over a copy of the cache; it runs while the cache has an
\* entry.
DisposeSnapshot(d) ==
    /\ disposing[d] # NoCall
    /\ LET w == disposing[d][1]
           k == disposing[d][2]
       IN \/ /\ k # 0
             /\ activeScopes' = RemoveFirst(activeScopes, w)
             /\ cached' = [cached EXCEPT ![w] = 0]
             /\ disposing' = [disposing EXCEPT ![d] = NoCall]
             /\ Returns(d)
             /\ UNCHANGED destroyed
          \/ /\ k = 0
             /\ disposing' = [disposing EXCEPT ![d] = NoCall]
             /\ Returns(d)
             /\ UNCHANGED <<activeScopes, cached, destroyed>>
    /\ UNCHANGED <<pluginVars, started, serviceVars, callerVars, server,
                   aborted, built>>

DisposeUntilEmpty(d) ==
    /\ disposing[d] # NoCall
    /\ LET w == disposing[d][1]
       IN IF cached[w] # 0
          THEN /\ disposing' = [disposing EXCEPT ![d] = <<w, cached[w]>>]
               /\ destroyed' = [destroyed EXCEPT ![w] = @ \cup {cached[w]}]
               /\ UNCHANGED <<activeScopes, workPc>>
          ELSE /\ activeScopes' = RemoveFirst(activeScopes, w)
               /\ disposing' = [disposing EXCEPT ![d] = NoCall]
               /\ Returns(d)
               /\ UNCHANGED destroyed
    /\ UNCHANGED <<pluginVars, started, serviceVars, callerVars, server,
                   aborted, built, cached>>

\* The awaited promise resolved.  The loop over the cache finds an instance
\* constructed since, or the scope is dropped and its cache emptied.
DisposeSettles(d) ==
    /\ disposing[d] # NoCall
    /\ LET w == disposing[d][1]
           k == disposing[d][2]
       IN \/ /\ k # 0 /\ cached[w] \notin {0, k}
             /\ disposing' = [disposing EXCEPT ![d] = <<w, cached[w]>>]
             /\ destroyed' = [destroyed EXCEPT ![w] = @ \cup {cached[w]}]
             /\ UNCHANGED <<activeScopes, cached, workPc>>
          \/ /\ k # 0 /\ cached[w] \in {0, k}
             /\ activeScopes' = RemoveFirst(activeScopes, w)
             /\ cached' = [cached EXCEPT ![w] = 0]
             /\ disposing' = [disposing EXCEPT ![d] = NoCall]
             /\ Returns(d)
             /\ UNCHANGED destroyed
          \/ /\ k = 0
             /\ disposing' = [disposing EXCEPT ![d] = NoCall]
             /\ Returns(d)
             /\ UNCHANGED <<activeScopes, cached, destroyed>>
    /\ UNCHANGED <<pluginVars, started, serviceVars, callerVars, server,
                   aborted, built>>

\* The hook of the scoped instance rejected: so does dispose(), which a worker
\* swallows and stop() does not.  The scope stays active.
DisposeFails(d) ==
    /\ disposing[d] # NoCall /\ disposing[d][2] # 0 /\ "scope" \in Faults
    /\ disposing' = [disposing EXCEPT ![d] = NoCall]
    /\ Returns(d)
    /\ stopPc' = [c \in Stoppers |-> IF c = d THEN "failed" ELSE stopPc[c]]
    /\ passed' = [c \in Stoppers |-> IF c = d THEN {} ELSE passed[c]]
    /\ UNCHANGED <<pluginVars, started, serviceVars, calls, startVars,
                   stopList, server, aborted, activeScopes, built, cached,
                   destroyed>>

-----------------------------------------------------------------------------
\* stop() on the instances in list, up to the next await: onDestroy of the
\* first, or container.dispose() after the last.
DestroyFrom(c, list, l) ==
    /\ stopList' = [stopList EXCEPT ![c] = list]
    /\ IF list = <<>>
       THEN /\ stopPc' = [stopPc EXCEPT ![c] = "container"]
            /\ gen' = gen + 1
            /\ life' = l
       ELSE /\ stopPc' = [stopPc EXCEPT ![c] = "destroying"]
            /\ life' = [l EXCEPT ![Head(list)] =
                           IF @ = "down" THEN @ ELSE "destroying"]
            /\ UNCHANGED gen

\* The loop over activeScopes reaches scope w: the first that it did not pass, seen
\* being those it did.  It sees the scopes added meanwhile, and none twice.
Reaches(seen, w) ==
    \E m \in DOMAIN activeScopes :
        /\ activeScopes[m] = w /\ w \notin seen
        /\ \A n \in 1 .. m - 1 : activeScopes[n] \in seen

DisposeScope(c, seen, w) ==
    /\ Reaches(seen, w)
    /\ stopPc' = [stopPc EXCEPT ![c] = "scopes"]
    /\ passed' = [passed EXCEPT ![c] = seen \cup {w}]
    /\ BeginDispose(c, w)
    /\ UNCHANGED <<stopList, gen, life>>

\* Mutant: the services are destroyed in the order of their initialisation.
DisposeForward(c, seen) ==
    \/ \E w \in Workers : DisposeScope(c, seen, w)
    \/ /\ ToSet(activeScopes) \subseteq seen
       /\ DestroyFrom(c, initialized, life)
       /\ passed' = [passed EXCEPT ![c] = {}]
       /\ UNCHANGED scopeVars

\* The next scope, or, when the loop is over, the services in reverse order of
\* initialisation.
DisposeNext(c, seen) ==
    \/ \E w \in Workers : DisposeScope(c, seen, w)
    \/ /\ ToSet(activeScopes) \subseteq seen
       /\ DestroyFrom(c, Reverse(initialized), life)
       /\ passed' = [passed EXCEPT ![c] = {}]
       /\ UNCHANGED scopeVars

Stop(c) ==
    /\ stopPc[c] \in {"idle", "done", "failed"} /\ calls[c] < MaxCalls
    /\ calls' = [calls EXCEPT ![c] = @ + 1]
    /\ \/ /\ started
          /\ DisposeNext(c, {})
       \/ /\ ~started
          /\ stopPc' = [stopPc EXCEPT ![c] = "done"]
          /\ UNCHANGED <<stopList, passed, gen, life, scopeVars>>
    /\ UNCHANGED <<pluginVars, started, initialized, startVars,
                   workVars>>

ScopeDisposed(c) ==
    /\ stopPc[c] = "scopes" /\ disposing[c] = NoCall
    /\ DisposeNext(c, passed[c])
    /\ UNCHANGED <<pluginVars, started, initialized, calls, startVars,
                   workVars>>

\* Mutant: the server does not wait for its work.
DestroyAbrupt(c) ==
    /\ stopPc[c] = "destroying"
    /\ LET i == Head(stopList[c])
       IN DestroyFrom(c, Tail(stopList[c]), [life EXCEPT ![i] = "down"])
    /\ UNCHANGED <<pluginVars, started, initialized, calls, startVars, passed,
                   scopeVars, workVars>>

\* The awaited onDestroy resolved; the server's does when its work is done.
DestroySettles(c) ==
    /\ stopPc[c] = "destroying"
    /\ LET i == Head(stopList[c])
       IN /\ i[1] = Server => Busy(i[2]) = {}
          /\ DestroyFrom(c, Tail(stopList[c]), [life EXCEPT ![i] = "down"])
    /\ UNCHANGED <<pluginVars, started, initialized, calls, startVars, passed,
                   scopeVars, workVars>>

\* It rejected: stop() rejects half-way, and the app still counts as started.
DestroyFails(c) ==
    /\ stopPc[c] = "destroying" /\ "destroy" \in Faults
    /\ stopPc' = [stopPc EXCEPT ![c] = "failed"]
    /\ life' = [life EXCEPT ![Head(stopList[c])] = IF @ = "down" THEN @
                                                   ELSE "destroyFailed"]
    /\ UNCHANGED <<pluginVars, started, gen, initialized, calls,
                   startVars, stopList, passed, scopeVars, workVars>>

StopReturns(c) ==
    /\ stopPc[c] = "container"
    /\ stopPc' = [stopPc EXCEPT ![c] = "done"]
    /\ started' = FALSE
    /\ UNCHANGED <<pluginVars, serviceVars, calls, startVars, stopList, passed,
                   scopeVars, workVars>>

-----------------------------------------------------------------------------
\* A request or message arrives and gets its scope (createScope).
Arrive(w) ==
    /\ workPc[w] = "idle"
    /\ \E g \in Admitting : server' = [server EXCEPT ![w] = g]
    /\ workPc' = [workPc EXCEPT ![w] = "open"]
    /\ activeScopes' = Append(activeScopes, w)
    /\ UNCHANGED <<pluginVars, started, serviceVars, callerVars, aborted, built,
                   cached, destroyed, disposing>>

\* Its handler resolves the scoped service: from the cache, or a new instance.
UseScoped(w) ==
    /\ workPc[w] \in {"open", "using"} /\ cached[w] = 0
    /\ workPc' = [workPc EXCEPT ![w] = "using"]
    /\ built' = [built EXCEPT ![w] = @ + 1]
    /\ cached' = [cached EXCEPT ![w] = built[w] + 1]
    /\ UNCHANGED <<pluginVars, started, serviceVars, callerVars, server,
                   aborted, activeScopes, destroyed, disposing>>

\* Mutant: a handler that settles leaves its scope alone.
CloseKeepsScope(w) ==
    /\ workPc[w] \in {"open", "using"}
    /\ workPc' = [workPc EXCEPT ![w] = "done"]
    /\ UNCHANGED <<pluginVars, started, serviceVars, callerVars, scopeVars,
                   server, aborted>>

\* The handler settled, and the worker disposes its scope.
Close(w) ==
    /\ workPc[w] \in {"open", "using"}
    /\ workPc' = [workPc EXCEPT ![w] = "disposing"]
    /\ BeginDispose(w, w)
    /\ UNCHANGED <<pluginVars, started, serviceVars, callerVars, server,
                   aborted>>

\* The client is gone: onRequestAbort disposes the scope while the handler, which
\* nothing tells, goes on.
Abort(w) ==
    /\ "abort" \in Faults /\ w \notin aborted /\ workPc[w] \in {"open", "using"}
    /\ aborted' = aborted \cup {w}
    /\ BeginDispose(<<"abort", w>>, w)
    /\ UNCHANGED <<pluginVars, started, serviceVars, callerVars, workPc, server>>

\* Nobody waits for anything: the app waits for a call or for work.
Quiescent ==
    /\ \A c \in Starters : startPc[c] \in {"idle", "done", "failed"}
    /\ \A c \in Stoppers : stopPc[c] \in {"idle", "done", "failed"}
    /\ \A w \in Workers : workPc[w] \in {"idle", "done"}
    /\ \A d \in Disposers : disposing[d] = NoCall
    /\ \A p \in Plugins : plugin[p] # "registering"

Idle == Quiescent /\ UNCHANGED vars

-----------------------------------------------------------------------------
StartStep(c) ==
    PluginsReady(c) \/ PluginsReject(c) \/ InitSettles(c) \/ InitFails(c)
StopStep(c) ==
    ScopeDisposed(c) \/ DestroySettles(c) \/ DestroyFails(c) \/ StopReturns(c)
DisposeStep(d) == DisposeSettles(d) \/ DisposeFails(d)

Next ==
    \/ \E p \in Plugins : Use(p) \/ PluginSettles(p)
    \/ \E c \in Starters : Start(c) \/ StartStep(c)
    \/ \E c \in Stoppers : Stop(c) \/ StopStep(c)
    \/ \E d \in Disposers : DisposeStep(d)
    \/ \E w \in Workers : Arrive(w) \/ UseScoped(w) \/ Close(w) \/ Abort(w)
    \/ Idle

Spec == Init /\ [][Next]_vars

\* Hooks, registrations and handlers settle one way or another, and a handler
\* that settled disposes its scope.  A rejection ends the wait as well, so nothing is
\* forced to fail; a server that waits for its work need not settle before that is
\* done.  Nobody has to call start() or stop(), and no work has to arrive.
Fairness ==
    /\ \A p \in Plugins : WF_vars(PluginSettles(p))
    /\ \A c \in Starters : WF_vars(PluginsReady(c) \/ PluginsReject(c) \/ InitSettles(c))
    /\ \A c \in Stoppers : WF_vars(ScopeDisposed(c) \/ DestroySettles(c) \/ StopReturns(c))
    /\ \A d \in Disposers : WF_vars(DisposeSettles(d))
    /\ \A w \in Workers : WF_vars(Close(w))

FairSpec == Spec /\ Fairness

-----------------------------------------------------------------------------
(***************************************************************************)
(* Properties.                                                             *)
(***************************************************************************)

TypeOK ==
    /\ plugin \in [Plugins -> {"unused", "registering", "registered", "failed"}]
    /\ pending \subseteq Plugins /\ timely \subseteq Plugins
    /\ started \in BOOLEAN
    /\ gen \in Generations
    /\ life \in [Instances -> Lives]
    /\ initialized \in Seq(Instances)
    /\ startPc \in
          [Starters -> {"idle", "plugins", "initing", "done", "failed"}]
    /\ calls \in [Starters \cup Stoppers -> 0 .. MaxCalls]
    /\ batch \in [Starters -> SUBSET Plugins]
    /\ at \in [Starters -> Instances]
    /\ stopPc \in [Stoppers -> {"idle", "scopes", "destroying", "container",
                                "done", "failed"}]
    /\ stopList \in [Stoppers -> Seq(Instances)]
    /\ passed \in [Stoppers -> SUBSET Workers]
    /\ activeScopes \in Seq(Workers)
    /\ workPc \in [Workers -> {"idle", "open", "using", "disposing", "done"}]
    /\ server \in [Workers -> Generations] /\ aborted \subseteq Workers
    /\ built \in [Workers -> Nat]
    /\ cached \in [Workers -> Nat]
    /\ destroyed \in [Workers -> SUBSET Nat]
    /\ disposing \in [Disposers -> {NoCall} \cup (Workers \X Nat)]

\* Whenever a start(), the first or a restart, initialises singletons, every plugin
\* that was passed to use() while no start() was in progress has registered: the
\* migrations and schema registrations it awaits are over, and none of them failed.
\* A plugin passed to use() during a start(), by a register() for instance, is not
\* covered: that start() drops its promise when the others resolve.
PluginsBeforeSingletons ==
    \A c \in Starters :
        startPc[c] = "initing" => \A p \in timely : plugin[p] = "registered"

\* Work never outlives what it was built on: while the server has a request or
\* message in progress whose client waits for it, every singleton registered
\* before the server is up, whichever calls of stop() run, fail or overlap.
WorkOnLiveServices ==
    \A w \in Workers \ aborted :
        Working(w) =>
            \A s \in 1 .. Server - 1 : life[<<s, server[w]>>] = "up"

\* Singletons are destroyed in the reverse order of their initialisation: one is
\* not touched before the onDestroy of each that was initialised after it, in the
\* same life of the container, resolved.
ReverseDestroy ==
    \A g \in Generations : \A s, t \in 1 .. N :
        s < t /\ life[<<s, g>>] \in Touched => life[<<t, g>>] = "down"

\* No scoped instance is dropped without its onDestroy, although stop(), an abort
\* and the worker dispose the same scope concurrently and the worker may construct
\* new instances in a scope that is already disposed.
ScopedDestroyed ==
    \A w \in Workers :
        \A k \in 1 .. built[w] : k = cached[w] \/ k \in destroyed[w]

\* When stop() reaches container.dispose(), no scope is left active but those of
\* aborted requests, whose disposal nothing waits for.
ScopesReleased ==
    \A c \in Stoppers : stopPc[c] = "container" => ToSet(activeScopes) \subseteq aborted

\* The flag tells the truth between calls of stop(): an app that counts as started
\* has every singleton of its container up, also after failed starts and restarts.
\* It lies only after a stop() that rejected, and then only about singletons whose
\* onDestroy was called: none is missing or half initialised.
StartedTruthful ==
    started /\ (\A c \in Stoppers : ~Stopping(c)) =>
        \/ \A s \in 1 .. N : life[<<s, gen>>] = "up"
        \/ /\ \E c \in Stoppers : stopPc[c] = "failed"
           /\ \A s \in 1 .. N : life[<<s, gen>>] \in {"up"} \cup Touched

\* Every call of stop() settles once no more work arrives (each worker arrives once),
\* though scopes are created and closed while it disposes them, their hooks reject
\* and the server waits for the work in progress.
StopSettles ==
    \A c \in Stoppers :
        (stopPc[c] # "idle") ~> (stopPc[c] \in {"done", "failed"})

\* Every call of start() settles.
StartSettles ==
    \A c \in Starters :
        (startPc[c] \in {"plugins", "initing"})
            ~> (startPc[c] \in {"done", "failed"})

-----------------------------------------------------------------------------
(***************************************************************************)
(* The inductive invariants.                                               *)
(***************************************************************************)
\* What the callers see to for the properties of start() and stop() to hold:
\* calls of start() do not overlap each other or a stop() in progress.  Calls of
\* stop() may overlap, and so may a call that returns at once.
Serialised ==
    /\ \A c, d \in Starters : Starting(c) /\ Starting(d) => c = d
    /\ \A c \in Starters, d \in Stoppers : ~(Starting(c) /\ Stopping(d))

\* Each call of stop() ends at most one life of the container: by caller and
\* number, those that ended or may not end one any more.
Ended == {e \in Stoppers \X (1 .. MaxCalls) :
             /\ e[2] <= calls[e[1]]
             /\ e[2] = calls[e[1]] => stopPc[e[1]] \notin {"scopes", "destroying"}}

CallsInv ==
    /\ \A c \in Starters : startPc[c] # "idle" => calls[c] > 0
    /\ \A c \in Stoppers :
          /\ stopPc[c] # "idle" => calls[c] > 0
          /\ stopPc[c] = "destroying" => stopList[c] # <<>> /\ initialized # <<>>
          /\ disposing[c] # NoCall => stopPc[c] = "scopes"
    /\ gen <= Cardinality(Ended)

\* Why PluginsBeforeSingletons holds: a timely plugin that has not registered is
\* pending, and each start() that waits for plugins waits for it.
Unregistered == {p \in timely : plugin[p] # "registered"}

PluginsInv ==
    /\ \A p \in timely : plugin[p] # "unused"
    /\ Unregistered \subseteq pending
    /\ \A c \in Starters : startPc[c] = "plugins" => Unregistered \subseteq batch[c]
    /\ \A c \in Starters : startPc[c] = "initing" => Unregistered = {}

\* Why ScopedDestroyed and ScopesReleased hold: a call of dispose() awaits only an
\* onDestroy that was called, and a scope is dropped before its worker is done.
DisposeInv ==
    /\ \A d \in Disposers :
          disposing[d] # NoCall /\ disposing[d][2] # 0 =>
              disposing[d][2] \in destroyed[disposing[d][1]]
    /\ \A w \in Workers :
          disposing[w] # NoCall => disposing[w][1] = w /\ workPc[w] = "disposing"
    /\ \A m, n \in DOMAIN activeScopes : activeScopes[m] = activeScopes[n] => m = n
    /\ \A w \in ToSet(activeScopes) :
          /\ workPc[w] # "idle"
          /\ disposing[w] # NoCall => disposing[w][2] # 0
          /\ "scope" \notin Faults => Working(w)

\* What a start() reached.
Reached == ToSet(initialized)

\* Entry m of initialized has after it every later singleton of its generation.
Closed(m) ==
    \A t \in initialized[m][1] + 1 .. N :
        \E n \in m + 1 .. Len(initialized) : initialized[n] = <<t, initialized[m][2]>>

\* A start() in progress has the services before its own up, and appended them.
StartInv ==
    /\ \A c \in Starters : Starting(c) => ~started
    /\ \A c \in Starters : startPc[c] = "initing" =>
          LET s == at[c][1]
              k == Len(initialized) - s
          IN  /\ at[c][2] = gen /\ k >= 0
              /\ \A t \in 1 .. s : initialized[k + t] = <<t, gen>>
              /\ \A t \in 1 .. s - 1 : life[<<t, gen>>] = "up"

\* Why StartedTruthful holds: a started app has brought every singleton up, and only
\* stop() takes one down, or the container with all of them.
StartedInv ==
    started /\ (\A c \in Stoppers : stopPc[c] # "container") =>
        \A s \in 1 .. N : life[<<s, gen>>] \in {"up"} \cup Touched

\* What start() and stop() leave in initialized: what is more than constructed is
\* there, nothing of a life of the container to come, and in an order whose
\* reverse destroys dependents first, once a start() was complete.
InitializedInv ==
    /\ \A i \in Instances : life[i] \in {"none", "built"} \/ i \in Reached
    /\ \A g \in Generations, s \in 1 .. N : g > gen => life[<<s, g>>] = "none"
    /\ \A i \in Reached : i[2] <= gen
    /\ \A m \in DOMAIN initialized : started \/ initialized[m][2] < gen => Closed(m)
    /\ ~started => \A s \in 1 .. N : life[<<s, gen>>] \notin Touched
    /\ \/ \E c \in Stoppers : stopPc[c] = "container"
       \/ ~started /\ \E c \in Stoppers : Stopping(c)
       => \A i \in Reached : i[2] < gen

\* With l the life of the instances, list is what a stop() has still to destroy:
\* what was reached and is not down, each after those that depend on it.
Remains(list, l) ==
    /\ ToSet(list) \subseteq Reached
    /\ \A i \in Reached : l[i] = "down" \/ i \in ToSet(list)
    /\ \A m \in DOMAIN list : \A t \in list[m][1] + 1 .. N :
          \/ l[<<t, list[m][2]>>] = "down"
          \/ \E n \in 1 .. m - 1 : list[n] = <<t, list[m][2]>>

StopInv ==
    /\ \A c \in Stoppers : stopPc[c] = "destroying" => Remains(stopList[c], life)
    /\ \A i \in Reached : i[2] < gen => life[i] = "down"

\* The services come up and go down in order, and work is admitted in between.
OrderInv ==
    /\ \A g \in Generations : \A s, t \in 1 .. N :
          s < t /\ life[<<t, g>>] \in Standing => life[<<s, g>>] = "up"
    /\ \A g \in Generations : life[<<Server, g>>] = "down" => Busy(g) = {}
    /\ \A w \in Workers : workPc[w] # "idle" => <<Server, server[w]>> \in Reached

\* These hold whatever the callers do, the rest while Serialised holds.
CallerFreeInv == TypeOK /\ CallsInv /\ PluginsInv /\ DisposeInv /\ ScopedDestroyed
SerialInv ==
    /\ StartInv /\ StartedInv /\ InitializedInv /\ StopInv /\ OrderInv
    /\ ReverseDestroy /\ WorkOnLiveServices /\ StartedTruthful

=============================================================================
