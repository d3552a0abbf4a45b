----------------------------- MODULE KafkaFunctions -----------------------------
(***************************************************************************)
(* The functions that read a frame, and that put handlers, configurations, *)
(* clients and migrations together, each called once: a call is chosen,    *)
(* then returns.  What they promise is stated without the functions that   *)
(* compute it.                                                             *)
(***************************************************************************)
EXTENDS Integers, Sequences, FiniteSets

CONSTANT Calls  \* the calls there may be, each with its arguments

WF == INSTANCE WireFormat
BI == INSTANCE Bindings
KC == INSTANCE KafkaConfig
MI == INSTANCE Migrations

\* What the arguments may be.  A frame names a message, by numbers of 32 bits.
Int32 == {n \in Nat : n <= 2147483647}
Octets == {b \in Nat : b < 256}
Bytes == Seq(Octets)
ReadCall(c) ==
    /\ c.id \in Int32 /\ c.path \in Seq(Int32) \ {<<>>} /\ Len(c.path) \in Int32
    /\ c.payload \in Bytes
ScanCall(c) == c.bytes \in Bytes /\ Len(c.bytes) \in Int32

\* A topic of the explicit map is bound to anything; the
\* container's names are numbered in their order.
BindCall(c) ==
    /\ \A t \in DOMAIN c.handlers : c.handlers[t].is \in {"inline", "object", "name"}
    /\ c.container \in Seq({c.container[n] : n \in DOMAIN c.container})
    /\ \A n \in DOMAIN c.container :
           /\ c.container[n].is \in {"function", "object", "broken", "handler"}
           /\ c.container[n].is = "handler" => c.container[n].topics \in Seq(STRING)

\* What a text or a switch may be in the environment, and in code.
EnvTexts == {"none", "blank", "env"}
Switches == {"none", "blank", "true", "false", "bad"}
CodeTexts == {"none", "blank", "code"}
Chosen == {"none", "true", "false"}

Environments ==
    [clientId : EnvTexts, brokers : EnvTexts, url : EnvTexts, schemasDir : EnvTexts,
     mechanism : {"none", "blank", "bad"} \cup KC!Mechanisms,
     username : EnvTexts, password : EnvTexts,
     tls : Switches, caPath : EnvTexts, verify : Switches, autoCreate : Switches,
     registryUser : EnvTexts, registryPass : EnvTexts]

Inputs ==
    [clientId : CodeTexts, brokers : {"none", "code", "empty"}, url : CodeTexts,
     schemasDir : CodeTexts,
     sasl : {KC!NoSasl}
              \cup [mechanism : {"bad"} \cup KC!Mechanisms,
                    username : CodeTexts, password : CodeTexts, token : CodeTexts],
     tokenProvider : {"none", "code"},
     tls : {KC!NoTls} \cup [enabled : Chosen, caPath : CodeTexts, verify : Chosen],
     auth : {KC!NoAuth} \cup [username : CodeTexts, password : CodeTexts],
     messages : {"none", "code", "bad"}, subjectFor : {"none", "code", "bad"}, ttlMs : Int]

ConfigureCall(c) == c.from \in Environments \X Inputs /\ c.readable \in BOOLEAN

\* A plugin is given a client or builds one of its own, named by the use, unless its
\* settings are bad.
PluginUses ==
    [plugin : {"producer", "consumer"}, given : {"none", "given"},
     own : STRING \ {"none"}, groupId : {"none", "blank", "code"}]
UseCall(c) == c.uses \in Seq(PluginUses)

\* A directory lists each name once.
Files == [name : STRING, versioned : BOOLEAN, version : Seq(Nat \cup {MI!NaN})]
MigrateCall(c) ==
    /\ c.dir \in Seq(Files)
    /\ \A i, j \in DOMAIN c.dir : c.dir[i].name = c.dir[j].name => i = j

ASSUME CallsAssumption ==
    \A c \in Calls :
        /\ c.fn = "read" => ReadCall(c)
        /\ c.fn = "scan" => ScanCall(c)
        /\ c.fn = "bind" => BindCall(c)
        /\ c.fn = "configure" => ConfigureCall(c)
        /\ c.fn = "use" => UseCall(c)
        /\ c.fn = "migrate" => MigrateCall(c)

VARIABLES call, result

Failed(r) == "error" \in DOMAIN r

Running == result = [running |-> TRUE]

Returns(value) == result' = value /\ UNCHANGED call

Returned(fn) == call.fn = fn /\ ~Running

-----------------------------------------------------------------------------
Read ==
    Running /\ call.fn = "read"
        /\ Returns(WF!ReadWirePrefix(WF!Framed(call.id, call.path, call.payload)))
Scan == Running /\ call.fn = "scan" /\ Returns(WF!ReadWirePrefix(call.bytes))
Bind ==
    Running /\ call.fn = "bind"
        /\ Returns(BI!ResolveHandlerBindings(call.handlers, call.container, call.matching))
Configure ==
    Running /\ call.fn = "configure"
        /\ Returns(KC!CreateKafkaClient(call.from[1], call.from[2], call.readable))
Use == Running /\ call.fn = "use" /\ Returns(KC!UsePlugins(call.uses))
Migrate ==
    Running /\ call.fn = "migrate" /\ Returns(MI!Latest(call.dir, call.done))

Init == call \in Calls /\ result = [running |-> TRUE]

Next == Read \/ Scan \/ Bind \/ Configure \/ Use \/ Migrate

Spec == Init /\ [][Next]_<<call, result>>

-----------------------------------------------------------------------------
(***************************************************************************)
(* Properties.                                                             *)
(***************************************************************************)
\* Hazard registry.ts:59, the framing that once went wrong on both sides alike:
\* what the format says of a frame is what readWirePrefix() reads, up to the first
\* byte of the payload.  Other bytes are refused or read within the buffer: as the
\* frame of the same path would be, which is no longer, if its indexes are of 32
\* bits; or as a path without indexes, which no frame has, and then they are a zero
\* that was written in more bytes than the one it takes.
ZeroOverlong(bytes, length) ==
    length >= 7 /\ \A i \in 6 .. length : bytes[i] = IF i = length THEN 0 ELSE 128

WirePrefixTruthful ==
    /\ Returned("read") =>
            result = [schemaId |-> call.id, indexes |-> call.path,
                      length |-> Len(WF!Framed(call.id, call.path, <<>>))]
    /\ Returned("scan") /\ ~Failed(result) =>
            /\ result.length \in 6 .. Len(call.bytes)
            /\ result.indexes = <<>> => ZeroOverlong(call.bytes, result.length)
            /\ result.indexes \in Seq(Int32) \ {<<>>} =>
                   LET again == WF!ReadWirePrefix(WF!Framed(result.schemaId, result.indexes, <<>>))
                   IN  /\ again.schemaId = result.schemaId
                       /\ again.indexes = result.indexes
                       /\ again.length <= result.length

\* Hazard handlers.ts:158, the handlers are found name by name: each topic ends
\* with the handler the map gives it or else with the only one that claims it, and
\* the consumer does not start over a topic that two claim, a name that cannot be
\* built, or no topic at all.
Handlers == {n \in call.matching \cap DOMAIN call.container : call.container[n].is = "handler"}

TopicsOf(n) == call.container[n].topics

ClaimedTopics == UNION {{TopicsOf(n)[i] : i \in DOMAIN TopicsOf(n)} : n \in Handlers}

\* Two handlers claim the topic, or one of them twice.
Contested(t) ==
    \E n, m \in Handlers : \E i \in DOMAIN TopicsOf(n), j \in DOMAIN TopicsOf(m) :
        <<n, i>> # <<m, j>> /\ TopicsOf(n)[i] = t /\ TopicsOf(m)[j] = t

NoHandler(b) ==
    \/ b.is = "object"
    \/ /\ b.is = "name"
       /\ \/ b.name \notin DOMAIN call.container
          \/ b.name \in DOMAIN call.container
               /\ call.container[b.name].is \in {"broken", "object"}

Unbindable ==
    \/ \E t \in DOMAIN call.handlers : NoHandler(call.handlers[t])
    \/ \E n \in call.matching \cap DOMAIN call.container : call.container[n].is = "broken"
    \/ \E t \in ClaimedTopics \ DOMAIN call.handlers : Contested(t)

\* The inline handlers are all the name 0.
Explicitly(b) == [name |-> IF b.is = "inline" THEN 0 ELSE b.name, source |-> "explicit"]

BindingsUnambiguous ==
    Returned("bind") =>
        LET topics == DOMAIN call.handlers \cup ClaimedTopics
        IN  IF Failed(result)
            THEN Unbindable \/ topics = {}
            ELSE /\ ~Unbindable /\ topics # {} /\ DOMAIN result.bound = topics
                 /\ \A t \in DOMAIN call.handlers :
                        result.bound[t] = Explicitly(call.handlers[t])
                 /\ \A t \in topics \ DOMAIN call.handlers :
                        /\ result.bound[t].name \in Handlers
                        /\ \E i \in DOMAIN TopicsOf(result.bound[t].name) :
                              TopicsOf(result.bound[t].name)[i] = t

\* Hazard plugin.ts:161, which client a service gets depends on the order of the
\* plugins: the registry is always that of the client the app has, the producer's
\* client is that client, and so is the consumer's unless code gave it another or a
\* later plugin replaced it; bad settings of the consumer matter only where it has
\* to build the client.
Kind(i) == call.uses[i].plugin

Builds(i) == call.uses[i].given = "none" /\ (Kind(i) = "producer" \/ i = 1)

ClientShared ==
    Returned("use") =>
        IF Failed(result)
        THEN \E i \in DOMAIN call.uses :
                \/ Kind(i) = "consumer" /\ call.uses[i].groupId # "code"
                \/ Builds(i) /\ call.uses[i].own = "bad"
        ELSE /\ result.schemaRegistry = result.kafkaClient
             /\ result.producer \in {"none", result.kafkaClient}
             /\ result.consumer \in {"none", "given", result.kafkaClient}
                    \/ \E i, j \in DOMAIN call.uses :
                          i < j /\ Kind(i) = "consumer" /\ Kind(j) = "producer"

\* Hazard config.ts:364, settings of two sources are put together: a client that is
\* built has, for each setting of its own, what code gives, whole, and where code
\* gives nothing what the environment says: its endpoints, its directory of schemas,
\* its credentials for the brokers and the registry, each pair from one source, and
\* its TLS, with a CA file that could be read; what the environment says badly or by
\* half, where code says nothing, builds no client.
Source(given) == IF given = "none" THEN "env" ELSE "code"

ClientTruthful(env, given, readable, client) ==
    LET c == client.connection
        cfg == client.config
    IN  /\ c.clientId = Source(given.clientId)
        /\ c.brokers = Source(given.brokers)
        /\ cfg.url = Source(given.url)
        /\ cfg.schemasDir =
               IF given.schemasDir = "none" /\ env.schemasDir # "env" THEN "default"
               ELSE Source(given.schemasDir)
        /\ c.sasl.mechanism = IF given.sasl = KC!NoSasl THEN KC!Trimmed(env.mechanism)
                              ELSE given.sasl.mechanism
        /\ c.sasl.mechanism \in KC!Passwords =>
               \A half \in {c.sasl.username, c.sasl.password} :
                   half = IF given.sasl = KC!NoSasl THEN "env" ELSE "code"
        /\ c.sasl.mechanism = "oauthbearer" => c.sasl.token = "code"
        /\ given.auth # KC!NoAuth =>
               \A half \in {cfg.auth.username, cfg.auth.password} : half = "code"
        /\ given.auth = KC!NoAuth =>
               \/ cfg.auth = KC!NoAuth /\ "env" \notin {env.registryUser, env.registryPass}
               \/ \A half \in {cfg.auth.username, cfg.auth.password,
                               env.registryUser, env.registryPass} : half = "env"
        /\ given.tls # KC!NoTls =>
               c.tls = IF given.tls.enabled = "true" THEN given.tls ELSE KC!NoTls
        /\ given.tls = KC!NoTls =>
               /\ env.tls # "bad"
               /\ c.tls = IF env.tls # "true" THEN KC!NoTls
                          ELSE [enabled |-> "true", caPath |-> KC!Trimmed(env.caPath),
                                verify |-> KC!Trimmed(env.verify)]
        /\ c.tls.caPath # "none" => readable
        /\ c.autoCreate <=> env.autoCreate = "true"
        /\ client.cacheSecs * 1000 - cfg.ttlMs \in -499 .. 500

ConfigTruthful ==
    /\ ClientShared
    /\ Returned("configure") /\ ~Failed(result) =>
           ClientTruthful(call.from[1], call.from[2], call.readable, result)

\* Hazard migrator.ts:18, versions of different lengths: versions that are numbers
\* and differ run in their order, whatever order the directory lists them in, each
\* that did not run before, and none a second time; nothing runs where a file that
\* ran before is gone.
Numeric(f) == f.versioned => MI!NaN \notin {f.version[i] : i \in DOMAIN f.version}

\* The first part that differs decides, one that is missing counting as 0.
Lower(v, w) ==
    LET At(x, k) == IF k \in DOMAIN x THEN x[k] ELSE 0
    IN  \E i \in DOMAIN v \cup DOMAIN w :
            At(v, i) < At(w, i) /\ \A j \in 1 .. i - 1 : At(v, j) = At(w, j)

Listed(dir) == {dir[i] : i \in DOMAIN dir}

VersionedFiles(dir) == {f \in Listed(dir) : f.versioned}

\* Any two versioned files have versions that differ, and all are numbers.
Clear(dir) ==
    /\ \A f \in Listed(dir) : Numeric(f)
    /\ \A f, g \in VersionedFiles(dir) :
           f = g \/ Lower(f.version, g.version) \/ Lower(g.version, f.version)

NamesOf(names) == {names[i] : i \in DOMAIN names}

\* No file runs after one of a higher version.
InOrder(names, dir) ==
    \A i, j \in DOMAIN names : \A f, g \in VersionedFiles(dir) :
        i < j /\ names[i] = f.name /\ names[j] = g.name => Lower(f.version, g.version)

MigrationsInOrder ==
    Returned("migrate") /\ Clear(call.dir) =>
        LET all == {f.name : f \in VersionedFiles(call.dir)}
        IN  IF Failed(result) THEN \E name \in call.done : name \notin all
            ELSE /\ \A name \in call.done : name \in all
                 /\ NamesOf(result.order) = all
                 /\ NamesOf(result.run) = all \ call.done
                 /\ InOrder(result.run, call.dir)
=============================================================================
