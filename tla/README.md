# moribashi: a TLA+ verification project

Moribashi is a small application framework for Node.js: a dependency-injection
core with a lifecycle, and plugins for HTTP (`web`, `graphql`), Kafka (`kafka`),
authentication (`auth`) and PostgreSQL (`pg`). This directory models the parts
whose correctness depends on the order in which callbacks run, checks them
with TLC on small instances, and proves the most important facts with TLAPS for
every instance. Paths below are relative to the repository root; `index.ts:147` is
a line of the named file.

    tlc -config ConsumerThrow.cfg MCConsumer.tla
    tlc -config KafkaFunctions.cfg MCKafkaFunctions.tla
    tlapm ConsumerProofs.tla
    tlapm KafkaFunctionsProofs.tla

## 1. The system

| Component | State | Operations | Interacts with |
| --- | --- | --- | --- |
| `core` (`packages/core/src/index.ts`) | registered services, pending plugin promises, active scopes, initialised services, `started` | `use`, `start`, `stop`, `createScope`, `scope.dispose` | calls the hooks of every service; is called by `web` and `kafka` for scopes |
| `kafka` consumer (`consumer.ts`, `scope.ts`) | flags, stream, lanes, in-flight counter, counters, `finished`, fatal error | `start`, `stop`, run loop, per-message task | a raw consumer and a DLQ producer (external), a scope of `core` per attempt |
| `kafka` producer (`producer.ts`) | the registry client's cache of latest versions, batches being encoded | `send`, `clearSchemaCache`, `close` | the schema registry, a raw producer |
| `kafka` schemas (`schemas.ts`, `plugin.ts`) | none of its own: the registry is the ledger | `registerSchemas`, `checkSchemaCompatibility` | the registry, which other pods use too; awaited by `app.start()` |
| `kafka` registry, descriptors, handlers, configuration | repaired dependencies; otherwise pure | `encode`, `decode`, `readWirePrefix`, `repairDescriptorSet`, `resolveHandlerBindings`, `createKafkaConfig` | the consumer and the producer |
| `auth` (`plugin.ts`, `security.ts`, `verify.ts`, `workload-identity.ts`) | access cache, discovered keys, cached token and the refresh in flight | the request hook, `AccessCache.get`, `verify`, `ServiceToken.get` | the web request scope, an identity provider, the app's loader |
| `web` (`packages/web/src/index.ts`) | a fastify server, a scope per request | `onInit`, `onDestroy`, request hooks | scopes of `core` |
| `pg` (`migrator.ts`, `db.ts`, `knex*.ts`) | a pool | migrations, queries, transactions | awaited by `app.start()` as a plugin |
| `graphql`, `common`, `cli` | none | wiring, two type guards, a command | `web`, `core` |

What is hard in it: everything runs on one thread, so a piece of code between two
`await`s is atomic and whatever it read before an `await` may be stale after it.
`start()` and `stop()` are public and may overlap; a broker answers late, fails, or
fails after it did the work; the process may die between a handler and its commit.
`PROJECT.json` lists these hazards one by one, each at its line, with the property
that covers it or the reason why none does yet.

What makes each component correct:

* consumer: no message is lost, order within a partition, a bound on what is in
  flight that is exact and never wedges, retries before giving up, drain before
  disconnect, truthful `finished` and counters, a `stop()` that returns;
* lifecycle: plugins before singletons, reverse order of destruction, nothing is
  destroyed under work that uses it, no scope or scoped instance is forgotten, a
  truthful `started`, calls that settle;
* producer and schemas: a batch is sent whole or not at all; nothing is framed with
  a contract older than the one the pod booted with, whatever fails half-way;
* registry, descriptors, handlers, configuration: the reader of a frame agrees with
  the format, no field is left to decode to garbage, no topic has two handlers, no
  client is built with half of its credentials;
* auth: a failed load or discovery is retried and never cached, one load at a
  time per key, nothing is served past its time to live, a refusal tells its
  cause, and a grant belongs to who asked for it;
* pg: migrations are applied in the order of their versions.

## 2. Modules

| Module | Models | Built on |
| --- | --- | --- |
| `AtLeastOnce` | what the consumer promises, without a consumer | |
| `Consumer` | `createConsumer` | instantiates `AtLeastOnce` |
| `MCConsumer` | instances for TLC, and what documents and comments say | `Consumer` |
| `ConsumerProofs` | theorems about its lanes, and the refinement | `Consumer`, TLAPS |
| `ConsumerHostProofs` | theorems about the loop, the counters and the stops around the lanes | `ConsumerProofs` |
| `AppLifecycle` | `createApp`: plugins, start, stop, scopes; the server and its requests | |
| `MCAppLifecycle` | instances for TLC | `AppLifecycle` |
| `AppLifecycleProofs` | theorems about it | `AppLifecycle`, TLAPS |
| `SingleFlight` | what a coalescing cache promises: one flight per cell, shared, its failure shared by nobody who asks later | |
| `AccessCache` | `AccessCache` of `security.ts` with its callers and the source of truth | |
| `AccessCacheProofs` | theorems about it | `AccessCache`, TLAPS |
| `ServiceToken` | `ServiceTokenProvider` of `workload-identity.ts` | instantiates `SingleFlight` |
| `ServiceTokenProofs` | theorems about it, and the refinement | `ServiceToken`, TLAPS |
| `TokenVerifier` | `TokenVerifier` of `verify.ts` | instantiates `SingleFlight` |
| `RequestAuth` | a request through the hook of `plugin.ts` and its `SecurityService` | extends `AccessCache`, instantiates `TokenVerifier` |
| `RequestAuthProofs` | theorems about the composition | `RequestAuth`, `AccessCacheProofs` |
| `MCRequestAuth` | its instance for TLC | `RequestAuth` |
| `KafkaBoot` | schema registration, the producer and the CI check against one registry | |
| `MCKafkaBoot` | its instance for TLC | `KafkaBoot` |
| `KafkaBootProofs` | theorems about `KafkaBoot` | `KafkaBoot`, TLAPS |
| `WireFormat`, `Descriptors`, `Bindings`, `KafkaConfig`, `Migrations` | algorithms on data: `registry.ts`, `descriptors.ts`, `handlers.ts`, `config.ts` and `client.ts`, `pg/src/migrator.ts` | |
| `KafkaFunctions` | calls of all of them but `Descriptors`, with what they promise | the four, instantiated |
| `KafkaFunctionsProofs` | theorems about these calls, for every argument | `KafkaFunctions`, TLAPS |
| `MCKafkaFunctions` | the calls of a bounded set, and the repair of descriptors | `KafkaFunctions`, `Descriptors` |

Definitions whose comment begins with "Mutant" are deliberate mistakes: each takes
the place of the definition after it, to confirm that a property notices. No
specification uses them.

### Consumer

One action is the code between two awaits. The correspondence:

| Code | Model |
| --- | --- |
| the closure's flags, `consumer.ts:262-279` | `started`, `stopping`, `fatal`, `finished`, `stats` |
| `start()`, 589-610 | `Start` sets the flag and calls `consume()` (`joining`); `ConsumeResolves` or `ConsumeRejects` |
| `runLoop`, 538-562 | `loop`; `Read`, `ReadBreaks`, `ReadEnds`, `SlotReleased`, `LoopSettles` |
| `releaseSlot`, 557-561 | `slot`: registered and not yet called |
| the promise chain of a lane, 546-555 | `queue[p]`, whose head's task is at `stage[p]` |
| `processMessage`, 441-527 | `BeginMessage`, `DecodeResolves`, `HandlerResolves`, `AttemptFails`, `BackoffElapses` |
| `applyFailurePolicy`, 395-439 | the operator of that name, then `PublishResolves` or `PublishRejects` |
| `commitMessage`, 346-363 | `CommitSettles`: the offset moves, or does not; the error is swallowed |
| `markFatal`, 294-301; `.finally`, 549-553 | `MarkFatal`; `FinishTask` |
| `stop()`, 612-626 | `Stop`, `StopAwaitsLoop`, `StopClosesRaw`, `StopClosesDlq`, `StopReturns`; `StopBare` when not started |

`committed` is the group's offset at the broker. `fate` is a history variable: how
each message was settled (handled, skipped, or republished to the DLQ). The
environment is external and modelled from how the code uses it: the stream closes,
fails to close or breaks; a rebalance hands a lane out again from its committed
offset (`Refetch`); the process crashes and restarts with an empty closure
(`Crash`). `Faults` says which external calls may fail. A failing commit or publish
may have taken effect.

Abstracted: payloads, headers, logging, the length of backoffs (a backoff ends at
some time), the messages' topics (a lane is bound or not). `message.value` being a
tombstone makes no difference to control. The default `onFatal`, which rethrows on
the next tick, is the process dying: `Crash`.

### AppLifecycle

Singletons are `1 .. N` in registration order. `Needs[s]` is what resolving `s`
constructs with it. `Server` is the singleton whose `onInit` starts admitting
work and whose `onDestroy` waits for it: the `WebServer` (`web/src/index.ts:81-90`,
fastify closes when its requests are done) or the Kafka consumer (which drains). A
worker is one request or message: `Arrive` creates its scope, `UseScoped`
resolves a scoped service, `Close` disposes the scope.

`container.dispose()` empties the cache of singletons, so instances carry a
generation `gen`: after a restart `initializedServices` still holds those of
earlier runs (`index.ts:174`). Iterating over a live `Set` or `Map` sees what is
added during the iteration, and passes each element once: `DisposeNext` takes the first
active scope that the loop has not `passed`, and `DisposeSettles` goes on to an instance
constructed meanwhile. A constructor that throws (`ResolveThrows`) leaves what was
constructed for it, and rejects `start()` before the service is remembered (155). A promise
cannot be settled by two callers, but two callers of `stop()` or of `dispose()` each
run their own loop, which is why `stopPc`, `stopList` and `disposing` are per caller.

A client that goes away fires `onRequestAbort` (`Abort`), which disposes the scope
while the handler may run on; `onResponse` disposes it again (`Close`). fastify does
not wait for an aborted request, so the server's `onDestroy` does not either
(`Busy`), and the properties about work and scopes speak of the others.

`use()` may be called at any time, by a `register()` too. What is used while a `start()` waits
for other plugins is dropped by line 149 without having been awaited; `timely` records which
plugins were used while no `start()` was in progress, and `PluginsBeforeSingletons` speaks of
those.

Abstracted: every service has both hooks; a scope holds one scoped service; an unhandled
rejection of a plugin before `start()` does not end the process; work arrives only between
the server's `onInit` and the end of its `onDestroy` (while it is closing, an attempt of a
message that is in flight may still create a scope, `consumer.ts:333`).

### SingleFlight, ServiceToken, TokenVerifier

`SingleFlight` has cells, each with numbered flights, the cells that are `usable`
(joined without a new flight), and clients that wait and are answered. It allows a
new flight only on a cell that is not usable and has none running.

| Code | Model |
| --- | --- |
| `ServiceTokenProvider.get`, `workload-identity.ts:49-59` | `Hit`, `Join` or `Start`; `Return` when the awaited exchange is settled |
| `exchange`, 61-96 | `SubjectRead`, `Issue` (external: the identity provider), `Receive`, `Reject` |
| `.finally(...)`, 55-57 | `Clear`, which runs before the reaction of any caller |
| `verify` and `getKey`, `verify.ts:43-104` | `Verify` up to its first await (`Untrusted`, `KeyAtHand`, `Discover`), then `Discovered`, then `Check` |
| `discoverJwks`, 106-117; `.catch(...)`, 98-101 | `Fetched`; `Forget` |
| `jwtVerify` and `mapIdentity`, 58-81 and 119-151 | `Judgement`: the signature is checked before the clock |

A token is what `verify()` can tell of it: issuer, whether a key of that issuer signed
it, expiry, identity. Time is an integer clock; it advances only when no promise
reaction is due, since reactions run before timers, and in `ServiceToken` an answer
of the provider is at most `MaxDelay` late, which the skew covers
(`TokenAssumption`): with an answer that is later than a whole lifetime no
client could promise a valid token.

### AccessCache and RequestAuth

`AccessCache` keeps the loads of all keys in one sequence. `Get` hits an entry or starts
a load; `LoadResolves` and `LoadRejects` are the app's loader; `Evict` is the `catch` of
`security.ts:55-57`, which runs before any caller's reaction; `Receive` hands the answer
over. `source` is the truth behind the loader, which `Change` grants and revokes; a
load may have read it at any moment between its start and its end (`saw`), and
`heldAt` remembers until when a key was granted.

`RequestAuth` composes it with the verifier: a request is `new`, `verifying`,
`handling`, `asking`, `answered`. `Anonymous`, `Present` and `Establish` are the hook
(`plugin.ts:60-106`); `Ensure`, `HasNothing`, `Ask` and `Decide` what a handler or a
resolver may ask of `SecurityService`. Both halves share the clock. An access is
reduced to the one permission that is asked for. `context` records in which context a request
asks for it, and `Volatile` bounds which keys are revoked and granted again during a run. The key
`${identity}:${contextId}` is taken to be unique (`RequestAssumption`): identities that
contain a colon could make two of them equal, which is for the app to rule out.

### KafkaBoot

Pods run images; an image has `.proto` files and a text for each. `Boot` reads them
(`schemas.ts:57-87`); `Register`, `RegisterRejected` and `RegisterFails` are the turns of
the loop of 128-141, the last with a request that failed before or after the registry
acted on it. `Serve` is the end of `app.start()`. `Send` is `producer.ts:139-161` up to its
await; each message is then encoded on its own (`Ask` and `EncodeAnswered` with a
lookup, `EncodeCached` without), and the last one hands the batch over (`Encoded`).
`EncodeFails` rejects the batch while the others go on, as `Promise.all` does: no version is
found, or the serializer throws with one at hand. A pod sends once its `start()` is over;
that code resolves the producer earlier, out of the container that `plugin.ts:69-73` fills
before the schemas are registered, is for the app to rule out. `Check`,
`CheckNext`, `CheckEnds` are `checkSchemaCompatibility`. `handed` is a history variable:
what reached the raw producer, framed with which version. The registry (its ledger,
its compatibility policy) and the cache inside `@confluentinc/schemaregistry` are
external. Files and topics agree on subjects (the default of `subjects.ts`); a
custom `subjectFor` is not passed on to registration by `kafkaPlugin` (`plugin.ts:76-80`).

### Algorithms on data

`WireFormat` reads frames byte by byte from buffers of numbers, and has a writer of its
own to compare with, taken from the format as the comment at `registry.ts:22` states it.
`Descriptors` repairs files whose names are sequences of parts. `Bindings`,
`KafkaConfig` and `Migrations` work on names and texts that are reduced to what the code
tells apart (for a setting: where it comes from, or that it is blank; a record that is absent
is told from `{}`, which code may give and `validate()` refuses). `Latest` of `Migrations` is
what `knex` makes of the sorted files: it refuses a directory from which a file that ran is
gone. `UsePlugins` of
`KafkaConfig` is the `use()` of `kafkaPlugin` and `kafkaConsumerPlugin` in some order:
which client each service of the app ends up with (`plugin.ts:57-181`). Used before
`kafkaPlugin`, a consumer keeps a client of its own, and the app has two.

`KafkaFunctions` makes a specification of them: a call is chosen with its arguments, and
one step returns its result (`Read`, `Scan`, `Bind`, `Configure`, `Use`, `Migrate`).
`CallsAssumption` says what the arguments may be, and no more than the code gives: octets
in a buffer no longer than 2^31 - 1 (the length of a Kafka record's value is an int32), path
indexes and schema ids of 32 bits, any explicit map and container, any environment and
any input of code, any sequence of plugins, any directory with distinct names. What the
results must be is stated on calls and results, without the functions that compute them;
`WirePrefixTruthful` alone reads once more: what the writer makes of the result of a read.
A loop of the code (over bytes, indexes, topics, names, plugins, files) is a recursive
function of the number of its turns, or the one number that a search finds, so that it
can be proved about; `Descriptors` recurses over nested messages and is only checked.

Abstracted: the precision of a JavaScript number and the text of errors. `readZigZagVarInt`
adds doubles, which are exact up to 2^53, and admits ten bytes; the model's numbers are
always exact, which is why the second half of `WirePrefixTruthful` (bytes that no writer
made) compares with a frame only where the indexes are of 32 bits. The other case it singles out
is a path without indexes: the code reads one where a zero stands in the place of the count
that takes more than one byte (section 3).

## 3. Runs

| Run | Asks | Bounds |
| --- | --- | --- |
| `ConsumerThrow` | safety under policy `'throw'`: `NoLoss`, `LaneOrder`, `InFlightExact`, `NoLostWakeup`, `CommitsAdvance` | 2 lanes of 2 messages, 2 in flight, 1 retry, 1 stop, 1 crash; handlers, commits and closes fail, `onFatal` throws |
| `ConsumerDlq` | the inductive invariant, `RetriesFirst`, `StatsConserved`, `FinishedTruthful`, refinement of `AtLeastOnce` | 2 lanes, one without a handler, 1 rebalance; decoding, publishing and the stream fail |
| `ConsumerStop` | `DrainBeforeDisconnect`; `StopCompletes` and `FatalReported` under fairness | 2 lanes of 1 message, both in flight, one without a handler; 2 stops, 1 crash; binding, `consume()`, handlers and publishes fail |
| `ConsumerSkip` | `EveryMessageSettled` under fairness | 2 lanes that share 1 slot |
| `AppStop` | `WorkOnLiveServices`, `ReverseDestroy`, `ScopedDestroyed`, `ScopesReleased` | 3 singletons, 2 requests, 2 overlapping stops; `onDestroy` fails, requests are aborted |
| `AppRestart` | `PluginsBeforeSingletons`, `StartedTruthful`; `StopSettles` and `StartSettles` under fairness | 2 singletons, the server first; 1 plugin, used at any time; 2 starts and 2 stops by one caller each, 2 requests; plugins, constructors, `onInit`, `onDestroy` and scoped hooks fail |
| `AccessCache` | `Coalesced`, `ErrorsNeverCached`, `RevocationHonoured` | 2 callers of 1 key, TTL 2 of 4 ticks, 3 loads |
| `ServiceToken` | `TokensValid`; refinement of `SingleFlight`; `GetsSettle` under fairness | 2 callers, 3 exchanges, 5 ticks, skew 2, one lifetime within the skew and one beyond it |
| `RequestAuth` | `TrueCause`, `GrantedToOwner`; refinement of `SingleFlight`; `EveryRequestAnswered` under fairness | 2 requests with every pair of 6 headers, 2 issuers, 2 identities in 2 contexts, one of these keys volatile |
| `KafkaBoot` | `FramesCoverContract`, `BatchAtomic`, `CheckPredictsBoot` | 2 pods, 3 images, 2 files, 2 batches; every message well-typed, of the wrong type, plain or invalid |
| `KafkaFunctions` | `WirePrefixTruthful`, `RepairTruthful`, `BindingsUnambiguous`, `ConfigTruthful`, `MigrationsInOrder` | every input of the sets in `MCKafkaFunctions`: 15 messages with two payloads, tails of up to 3 and of 9 to 12 bytes; 3 names; up to 3 plugins in any order; up to 4 files |
| `ConsumerStopRace` | what the comment on `stop()` says; TLC finds it violated | 1 lane, 1 message |

Why these bounds are enough to meet the interesting cases. Two lanes are needed for
one to fail while another is in flight or waits for the slot. Two messages per
lane are needed for one to be queued behind a failing one. A concurrency of 2 with
4 messages fills the pool; a concurrency of 1 makes the lanes compete. One retry
gives a last attempt and one before it. Two stops overlap; a third adds only another
caller at the same places. Three singletons put one before and one after the server.
Three loads are one that outlives its TTL, one that replaces it and one that fails;
keys do not interact in the cache, so one is enough. `RequestAuth` has four, two identities in
two contexts; all are granted at first, and one of them is revoked and granted again. Identities
and contexts are interchangeable, so that an answer for another key is used shows as a grant of
the key that was revoked. One of its tokens expires while the keys of its issuer may still be on
their way. Three exchanges let one fail and the next one serve from the cache and expire. Of the three
images, the second is compatible with the first, and the third is rejected over its
second file, when its first is registered already.

`KafkaBoot` uses two devices to stay small. `SYMMETRY` permutes pods and batches,
which are interchangeable, and the run checks safety only. The constraint `OneAtATime`
leaves out states with both a check and a batch in progress, and with batches of two
pods: they share nothing but the ledger, which they only read. It also leaves out two
batches of two messages each, since what the batches of a pod share is the cached
version of a subject. The theorems are about all of these too. `CheckPredictsBoot`
speaks of the step in which a boot is rejected, after the report: a pod that was
rejected before the check began, when the ledger was another, says nothing against it.

Fairness (`FairSpec`): an external promise that was created settles one way or
another, a timer fires, and a message that the stream holds is delivered. The event
loop runs what is ready, which justifies weak fairness of each lane, each caller
and the loop. Nobody has to call `start()` or `stop()`, and nothing has to fail.
`FatalReported` says that a fatal error rejects `finished` whatever `stop()` and the other lane
are doing, on three conditions, each of which is a kind of fault its run leaves out: that the
stream's iterator does not throw, that closing the stream does not reject (the loop would wait
for a message that may never come), and that `onFatal` returns. The other runs have these
faults. `StopCompletes` says nothing of a `stop()` that overlaps a `start()` which has not
joined yet (`LeftOpen`): see the finding `ConsumerStopRace`. Deadlock is checked in
every run; `Idle` is enabled only where the system really waits for a call or for a
message.

In `AppLifecycle` hooks and plugins settle, and handlers do. Each worker arrives once, so
arrivals end: `StopSettles` is about a `stop()` after the last of them. The server is closed
only after the loop over the live set of scopes (169), and work that never stops coming
could hold that loop for ever.

In the other modules: the loader, the identity provider and the issuers settle, one
way or another, and reactions run (`ServiceToken`, `RequestAuth`). No client has a
timeout, so without that assumption a `get()` or a request may wait for ever.
Deadlock is off where the system may rest: nobody has to call `get()`, a
request is answered once, and a call of a function ends.

One run checks what a comment says, and TLC finds it violated: `ConsumerStopRace`, a
`stop()` during `start()` closes the clients and returns, and then the run loop starts.

The models also have these behaviours, which documents or comments deny, or which a
user of the code should know of; they have no run of their own:

* after a `start()` of the consumer that failed, the next one returns without joining
  (`consumer.ts:591`, against 72);
* when the stream's iterator or `onFatal` throws, `finished` never settles (`consumer.ts:563`
  and 568, against 80);
* under `'throw'`, messages in flight on other lanes are committed, not abandoned
  (`consumer.ts:493`, against `packages/kafka/README.md:365`). `NoLoss` holds all the same;
* the attempts header of a DLQ record counts attempts that a stop cut off
  (`consumer.ts:526`, against `packages/kafka/README.md:395`);
* `app.stop()` disposes the scopes of running handlers (`core/src/index.ts:169`, against
  `packages/kafka/README.md:285`);
* two overlapping `start()` calls initialise every service twice, and with a `stop()`
  that begins after the first and ends before the second the app is started on
  disposed singletons (`core/src/index.ts:144`);
* a plugin passed to `use()` while `start()` waits for the others is not waited for: line 149
  (`core/src/index.ts`) drops its promise, and singletons are initialised while it registers;
* after a `stop()` that rejected, the app counts as started although singletons are down
  (`core/src/index.ts:176` and 183): the next `start()` is refused, the next `stop()` walks on;
* `.agents/state/decisions.md:15` and the README say that `app.start()` calls each
  plugin's `register()`, while `use()` calls it at once (`core/src/index.ts:112`);
  `docs/claude-instructions.md:89` says that `onInit` runs after all singletons are
  resolved, while each runs before the next is resolved (153-161); a comment says that
  `processed` counts handlers that "resolved and committed" (`consumer.ts:56`), while it is
  bumped before the commit, which may fail (491);
* a refresh that fails rejects `get()` although the cached token is still valid for the
  length of the skew (`workload-identity.ts:50-58`);
* a load of the access cache that takes longer than the TTL is not coalesced with
  (that is the condition in `Coalesced`), and entries that expired are never removed;
* a deploy that is rejected over its second file leaves its first file registered, as
  the latest version, which the pods of the old image then frame with
  (`schemas.ts:128-141`). `FramesCoverContract` says what survives that: never an older one;
* the bytes `0x80 0x00` in the place of the count, a zero in two bytes, are read as a path
  without indexes, while the comments of `readWirePrefix` say that it throws on what is not
  well-formed (`registry.ts:86`) and that the one-byte zero is not "zero indexes" (102); other
  numbers that take more bytes than they need are read as what they mean;
* a registry URL from code may be combined with credentials from the environment
  (`config.ts:367-377`);
* migrations whose versions are equal (`V1`, `V1.0`) run in the order the directory lists
  them, and a prefix that is no number compares as equal to all (`migrator.ts:21-28`).

## 4. Proofs

Every invariant and action property that a run checks is proved for all values of the
constants, but for `RepairTruthful`. Each inductive invariant below was checked
by TLC on the instances of the runs before it was proved; `IInv` of `Consumer` still is,
in `ConsumerDlq`.

### Consumer

`ConsumerProofs` and `ConsumerHostProofs` prove, from `ConsumerAssumption` alone
(positive concurrency, a known policy and fault set, natural bounds) and so for any
number of lanes, messages, retries and callers:

| Theorem | Says |
| --- | --- |
| `TypeCorrect` | `Spec => []TypeOK` |
| `LaneInvCorrect` | `Spec => []LaneInv` |
| `NoLossCorrect` | no offset is committed past an unsettled message |
| `LaneOrderCorrect` | a lane works on a message only when every earlier one is settled |
| `RetriesFirstCorrect` | no message is given up early while nobody stops |
| `ConsumerImplementsAtLeastOnce` | `Spec => ALO!Spec` |
| `DeliveredCorrect` | whatever implements `AtLeastOnce` loses nothing and settles in order |
| `SettledInOrderAlways` | so does the consumer, by the refinement |
| `InvCorrect` | `Spec => []IInv`, which is `LaneInv` and `HostInv` |
| `InFlightExactAlways` | the counter is the number of unfinished tasks, within the bound |
| `NoLostWakeupAlways` | a waiting loop was released, or is registered while the pool is full |
| `DrainBeforeDisconnectAlways` | no lane works once a client is closed |
| `FinishedTruthfulAlways` | `finished` settles after the last task, and truthfully |
| `StatsConservedAlways` | a message received is in one other counter or undecided |
| `CommitsAdvanceAlways` | without a rebalance no offset moves back |

Neither `NoLoss` nor `LaneOrder` is inductive. A commit of the head of a lane is
safe because the message itself was settled (`StageInv`: whoever is committing has
an outcome) and because `LaneOrder` covers what is before it. `LaneOrder` is kept
when a task finishes and the next begins, and there two cases differ. While the
consumer is not stopping, the next message is preceded by settled ones only,
because the queue was filled in order and every finished task settled its message
(`InOrder`, `Preceded` in `QueueInv`). Once it is stopping, an abandoned task leaves
a hole, but no task gets past its first guard any more. That is the comment at
`consumer.ts:442-447`, and why `MarkFatal` must set `stopping` in the same step in
which the lane moves on (`fatal => stopping`). `LaneInv` is the conjunction of these
parts; the proof has one step per action, and under it one per part that the action
can disturb. The refinement maps `committed` and `fate` to themselves: a step of the
model settles one message, commits one offset, or leaves both alone.

What is around the lanes is in `HostInv`. `InFlightExact` is nearly inductive, but the bound
holds only because the loop reads on below it: `SlotInv` says when a slot is registered,
and that a loop which reads or waits has room, a slot, or a `stopping` to find. That is
`NoLostWakeup` too: the `finally` of a task both counts down and releases, in one step.
`DrainBeforeDisconnect` needs to know why nobody reads any more once `stop()` closes the
clients: the loop has ended and drained, or was never started, or starts later (the race
of `ConsumerStopRace`) and breaks at its first message since `stopping` is set
(`ClosingInv`). `CommitsAdvance` needs that a lane is read and queued in the order of its
offsets, from the committed one on (`CursorInv`).

### AppLifecycle

`AppLifecycleProofs` proves, from `AppAssumption` (dependencies are closed, finitely many
callers of `stop()`, callers and workers are different things) and so for any number of
singletons, plugins, calls and requests:

| Theorem | Says | While |
| --- | --- | --- |
| `CallerFreeCorrect` | `CallerFreeInv` is invariant | |
| `PluginsBeforeSingletonsAlways` | no singleton is initialised before every plugin used while no `start()` was in progress has registered | |
| `ScopedDestroyedAlways` | no scoped instance is dropped without its `onDestroy` | |
| `SerialCorrect` | `SerialInv` is invariant | `Serialised` |
| `WorkOnLiveServicesAlways` | what is before the server is up while it has work | `Serialised` |
| `ReverseDestroyAlways` | a singleton is not touched before all after it are down | `Serialised` |
| `StartedTruthfulAlways` | a started app has its singletons up, or a `stop()` rejected and took them down | `Serialised` |
| `ScopesReleasedAlways` | no scope is active when the container is disposed | `Serialised`, no scoped hook rejects |
| `SerialisedOneCaller` | `Spec => []Serialised` | one caller of each |
| `SerialisedOneStart` | `Spec => []Serialised` | one start, any stops |

The first two properties hold whatever the callers do. `PluginsInv` says that a timely plugin
which has not registered is pending, that each `start()` which waits for plugins waits for it,
and that none is left where a `start()` initialises. The list is emptied by a `start()` that
waited for every such plugin, and one that comes in meanwhile is not timely; a plugin that
failed stays in the list, since that `start()` rejects (148). `DisposeInv` says that a call of
`dispose()` awaits only an `onDestroy` that was called, so whoever drops the scope, and
whatever the others wait for, the instance in its cache is one of those.

The others are about `start()` and `stop()`, and there the code relies on its callers:
two overlapping `start()` calls, or a `start()` within a `stop()`, are the hazard at
`core/src/index.ts:144`, and the properties do not hold of them. `Serialised` says just that
a `start()` in progress overlaps neither another nor a `stop()` in progress; stops may overlap
in any number, fail, and be called again. The last two theorems say who keeps it, and
each run of the model satisfies the hypothesis of one of them (`AppStop` the second,
`AppRestart` the first). One caller of each is enough without their knowing of each
other, since a `stop()` returns at once while `start()` is in progress, as `started` is not
yet set, and a `start()` is refused while a `stop()` is, as it still is.

`StartedTruthful` follows from `StartedInv`: a started app has brought every singleton up, and
until the container is disposed only the `onDestroy` calls of a `stop()` change that. When no
`stop()` is in progress, one that took some of them down has rejected.

`ReverseDestroy` and `WorkOnLiveServices` are not inductive. `initializedServices` is
never cleared: a `stop()` walks the services of earlier lives and of failed starts too.
`InitializedInv` says that its order is sound nonetheless: once a start was complete or the
generation is over, each entry has after it the later singletons of its life (`Closed`).
So its reverse is an order of destruction, and what a `stop()` has still to do (`Remains`)
is closed under what depends on it: whatever another `stop()` did meanwhile, an
instance is destroyed only when everything after it is down. Singletons come up and go down in
order, the server goes down only without work, and work is admitted only in between
(`OrderInv`): a server that is `Standing`, up or closing, has every singleton before it up. `ScopesReleased` needs that a
scope leaves the set before its worker is done, which a rejecting scoped hook breaks:
`DisposeFails` leaves the scope there, hence the last hypothesis.

### Authentication

`AccessCacheProofs` proves, for any callers, keys, TTL and bounds:

| Theorem | Says |
| --- | --- |
| `CacheInv` | `Spec => []IInv` |
| `CoalescedAlways` | two loads of a key overlap only when the later began a TTL after the earlier |
| `ErrorsNeverCachedAlways` | once a caller may have seen a load fail, no entry holds it |
| `RevocationHonouredAlways` | a grant was held less than a TTL before the caller asked |

`Coalesced` and `RevocationHonoured` are not inductive. The invariant adds that a running
load is in the cache until its TTL is over (`RunningCached`), which is what the
comparison by identity at `security.ts:56` is for: a late failure must not evict the
load that replaced it. It adds that an entry expires a TTL after its load began
(`EntriesSound`), that a load which may grant began when the key was still granted
(`LoadsSound`), and that a caller waits for a load that was usable when it asked
(`WaitsSound`); together they bound what `Receive` can hand over.

`ServiceTokenProofs` proves, from `TokenAssumption`:

| Theorem | Says |
| --- | --- |
| `TokenInv` | `Spec => []IInv` |
| `TokensValidAlways` | no token is handed out that has expired |
| `ImplementsSingleFlightAlways` | `Spec => SF!Spec` |
| `SingleFlightKept` | a single flight is one at a time, and nobody begins to wait for one that failed |
| `RefreshesAreOneFlight` | so it is of the provider's exchanges, by the refinement |

The invariant says that only the latest exchange can be in progress and only while the
marker is set (`ExchangesSound`), that the cached token expires no later than the
provider says plus the delay (`CacheSound`), and that whoever awaits a settled
exchange awaits a valid token, since time does not pass before its reaction
(`AnswersSound`). The refinement needs it: `Start` is a new flight only because an unset
marker means that no exchange runs, and `Tick` lapses the cell only because a usable
token is that of the last exchange.

`RequestAuthProofs` proves that the composition uses the cache as its module says
(`RequestsUseTheCache`: `RSpec => Spec`), so that `IInv` of `AccessCache` holds in it, and
from that and an invariant of its own (`RInv`: what a request knows of its token,
its caller, its context and its question at each stage):

| Theorem | Says |
| --- | --- |
| `TrueCauseAlways` | a refusal tells its true cause |
| `GrantedToOwnerAlways` | a grant is to the owner of a sound token that held the permission, in the context asked for, within the TTL |
| `VerifierImplementsSingleFlightAlways` | `RSpec => SF!Spec`, if there is an issuer: discoveries are a single flight |

The refinement needs that an issuer's entry is its latest discovery or none, that a
discovery in progress or not yet forgotten is in its entry (`EntriesSound`), and that a
request awaits a discovery of the issuer of its own token (`AwaitsSound`). A cell is
usable while its entry is set: a new flight starts only after the failed one was
forgotten, and all that is left of it are the requests that shared its failure.

### KafkaBoot

`KafkaBootProofs` proves, from `BootAssumption` (some image, files named by finitely many
naturals) and so for any pods, images, files, batches and compatibility policy:

| Theorem | Says |
| --- | --- |
| `RolloutInv` | `Spec => []IInv` |
| `FramesCoverContractAlways` | no frame is older than the contract its pod booted with |
| `BatchAtomicAlways` | a batch reaches the raw producer whole and framed, or not at all |
| `CheckedCorrect` | `Spec => []CheckedInv` |
| `CheckPredictsBootAlways` | after a report, a boot it calls compatible is rejected only over what moved since |

The first two properties follow from one fact, `Current`: a version a pod frames with
is in the registry and has the pod's own file at or before it. The invariant carries
it along the way a version takes: a pod that serves has registered its files
(`FilesRegistered`, which holds because `registerSchemas` stops at the first failure),
so the latest version it is told is current (`LookupsCurrent`), so what it caches is
(`CacheCurrent`), so what it frames is (`BatchesFramed`), so what it hands over is
(`HandedCurrent`). Nothing on this way goes stale, because the registry only adds
versions (`Kept`), and because the cache and the sends of a process end with it
(`Abandons`). A batch is whole because only the encoding of its last message hands it
over, and only if none was refused (`BatchesFramed`, `HandedWhole`).
`CheckPredictsBoot` follows from `ReportCurrent`: a verdict on a subject that did not
move since is the one the registry would still give, and it is the same question a
booting pod asks, file by file, in the order of the files.

### Algorithms on data

`KafkaFunctionsProofs` proves, from `CallsAssumption` and so for every argument of the
functions:

| Theorem | Says |
| --- | --- |
| `WirePrefixTruthfulAlways` | a message's frame is read back exactly; other bytes are refused, or read within the buffer as a frame that means the same (indexes of 32 bits), or as no indexes where an overlong zero stands for their count |
| `BindingsUnambiguousAlways` | every topic has the map's handler or the only one that claims it, and binding fails just where one has neither |
| `ConfigTruthfulAlways` | a client has each setting from code, or else from the environment, and whole; the app's services share it after any sequence of plugins |
| `MigrationsInOrderAlways` | versions that are numbers and differ run in their order, each once and none again, and none at all if one that ran is gone |

`Spec` has one step, so the invariants follow from what the functions return, and that
is an induction over data. The library's induction theorems take a predicate as their
parameter, which no backend can instantiate. `CountingUp` does without: a set that holds
0, and each number's successor with it, holds all numbers up to `N`, because the least
number outside of it (`LeastNumber`, from the library's well-founded order of `Nat`) would be
neither 0 nor a successor. Every loop is dealt with in the same two steps. First, the recursive
function exists and satisfies its equation (for each number of turns there is a
function that does so up to that number). Second, the set of the numbers of turns after which
the loop's invariant holds is closed under one more turn. The loop invariants are where the code
can go wrong:

* `ServicesAfter` (plugins): after each `use()`, the registry's client is the app's, and so is
  the producer's; the consumer's may differ only if code gave it one or a producer's plugin
  came later.
* `Leaves` (migrations): what is left after some files are those not done, in their order.
  That the order is sorted needs that `Lower`, on parts of which the missing count as 0,
  is a strict order, so that on files that differ in it the ranks are all distinct and
  the sort is determined, whatever the engine does.
* `Found` (bindings): after some topics of some name, what is bound is what the map gives
  and what was claimed up to there, each by its only claimant, and no name was broken; or the
  loop has failed, over something that no order of the names could bind. So a winner
  never depends on that order.
* `HasRead`, `ReadsOn` and `PathReadsBack` (frames): after some indexes, what is read is
  in bounds, and is what was written if the bytes are a writer's.

A varint is read by adding its groups up and written by taking the number apart.
`SumsAreRests` and `RestsAreSums` are the two directions: what the groups after the first `k`
add up to is what is left of the number after `k` divisions by 128.
`ReadsBack` is the first use: what was written is read. `SizeAtMost` is the second: a
writer takes no more bytes than a reader found, which bounds the length of the frame that
means the same. The groups of a zero are all zero (`SumsOfZero`), so a zero that is not the one
byte is a run of `0x80` with a `0x00` after it (`ZeroRead`).

### What is only model-checked

* Liveness (`StopCompletes`, `FatalReported`, `EveryMessageSettled`, `StopSettles`,
  `StartSettles`, `GetsSettle`, `EveryRequestAnswered`): it depends on fairness and on
  `ENABLED`, out of the prover's reach.
* `RepairTruthful`: `repairMessage()` recurses over messages nested in messages. In the model
  that is a `RECURSIVE` operator over sets of records, which the prover does not reason
  about, and there is no number of turns to count: the induction would be over the depth
  of a message.

## 5. Not modelled, and what is left

Not worth modelling: `common`, `cli`, `graphql`, the pool and query wiring of `pg`. They
keep no state that a later call depends on. What `graphql` resolvers ask of a request's
scope is a request of `RequestAuth`.

Not modelled because it happens inside a library: what a decode reads of the map of
repaired dependencies that concurrent decodes share (`registry.ts:164`), the rotation of
remote keys in `jose`, the transaction around each migration in `knex`.

Left out of a modelled component: `scan()`, `register()` and `registerInScope()` of `core`; a
plugin whose `register()` throws synchronously; a loader that throws synchronously or is not registered; a
handler that awaits `stop()`, which waits for its own lane.

What is left to prove: `RepairTruthful`, with the descriptors numbered instead of nested, so that
the repair is a loop over their numbers; and the progress of a consumer and of a shutdown as
state-to-state facts, of which the liveness runs are the small instances.
