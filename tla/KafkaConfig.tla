------------------------------ MODULE KafkaConfig ------------------------------
(***************************************************************************)
(* How the Kafka client's configuration is put together from the           *)
(* environment and from code, what is built from it, and which client the  *)
(* services of an app get: createKafkaConfig in packages/kafka/src/        *)
(* config.ts, createKafkaClient in client.ts, the plugins in plugin.ts.    *)
(*                                                                         *)
(* A text is where it comes from, "env" or "code", "blank", or "none" if   *)
(* it is absent (undefined); a switch or a mechanism is the text itself,   *)
(* "bad" being any other.  A record that is absent is not one of absent    *)
(* texts: code may give {}, and that is taken as it is.                    *)
(***************************************************************************)
EXTENDS Integers, Sequences

Failure(why) == [error |-> why]
Failed(r) == "error" \in DOMAIN r

\* trimmed(): a blank variable counts as unset.
Trimmed(text) == IF text = "blank" THEN "none" ELSE text

\* a ?? b
Or(a, b) == IF a = "none" THEN b ELSE a

\* parseBooleanEnv(): "none", "true", "false", or an error.
BadBoolean(text) == Trimmed(text) \notin {"none", "true", "false"}

Given(text) == text \notin {"none", "blank"}

Passwords == {"plain", "scram-sha-256", "scram-sha-512"}
Mechanisms == Passwords \cup {"oauthbearer"}
Sasl(mechanism, username, password, token) ==
    [mechanism |-> mechanism, username |-> username, password |-> password, token |-> token]
NoSasl == Sasl("none", "none", "none", "none")
NoTls == [enabled |-> "absent", caPath |-> "none", verify |-> "none"]
NoAuth == [username |-> "absent", password |-> "absent"]

ResolveSaslFromEnv(env, tokenProvider) ==
    LET mechanism == Trimmed(env.mechanism)
        username == Trimmed(env.username)
        password == Trimmed(env.password)
    IN  IF mechanism = "none" THEN NoSasl
        ELSE IF mechanism = "oauthbearer"
        THEN IF tokenProvider = "none" THEN Failure("token provider")
             ELSE Sasl(mechanism, "none", "none", tokenProvider)
        ELSE IF mechanism \in Passwords
        THEN IF "none" \in {username, password} THEN Failure("credentials")
             ELSE Sasl(mechanism, username, password, "none")
        ELSE Failure("mechanism")

\* The other TLS variables are read only where KAFKA_TLS is true.
ResolveTlsFromEnv(env) ==
    IF BadBoolean(env.tls) THEN Failure("KAFKA_TLS")
    ELSE IF Trimmed(env.tls) # "true" THEN NoTls
    ELSE IF BadBoolean(env.verify) THEN Failure("KAFKA_TLS_REJECT_UNAUTHORIZED")
    ELSE [enabled |-> "true", caPath |-> Trimmed(env.caPath), verify |-> Trimmed(env.verify)]

\* Mutant: half a pair is as good as none.
RegistryAuthLenient(env) ==
    IF "none" \in {Trimmed(env.registryUser), Trimmed(env.registryPass)} THEN NoAuth
    ELSE [username |-> Trimmed(env.registryUser), password |-> Trimmed(env.registryPass)]

ResolveRegistryAuthFromEnv(env) ==
    LET auth == [username |-> Trimmed(env.registryUser), password |-> Trimmed(env.registryPass)]
    IN  IF {auth.username, auth.password} = {"none"} THEN NoAuth
        ELSE IF "none" \in {auth.username, auth.password} THEN Failure("registry credentials")
        ELSE auth

\* validate(): what code passes is checked like the rest.
Valid(c) ==
    /\ Given(c.clientId) /\ Given(c.url) /\ Given(c.schemasDir)
    /\ c.brokers \in {"env", "code"}
    /\ c.auth # NoAuth => Given(c.auth.username) /\ Given(c.auth.password)
    /\ c.sasl.mechanism = "oauthbearer" => Given(c.sasl.token)
    /\ c.sasl.mechanism \in Passwords => Given(c.sasl.username) /\ Given(c.sasl.password)
    /\ c.sasl.mechanism \in Mechanisms \cup {"none"}
    /\ c.messages # "bad" /\ c.subjectFor # "bad"
    /\ c.ttlMs >= 0
    /\ c.tls # NoTls => c.tls.enabled \in {"true", "false"} /\ c.tls.caPath # "blank"
    /\ c.tls.verify \in {"none", "true", "false"}

\* createKafkaConfig(): the environment, then what code gives on top.
CreateKafkaConfig(env, given) ==
    LET sasl == IF given.sasl # NoSasl THEN given.sasl
                ELSE ResolveSaslFromEnv(env, given.tokenProvider)
        tls == IF given.tls # NoTls THEN given.tls ELSE ResolveTlsFromEnv(env)
        auth == IF given.auth # NoAuth THEN given.auth ELSE ResolveRegistryAuthFromEnv(env)
        config == [clientId |-> Or(given.clientId, Or(Trimmed(env.clientId), "blank")),
                   brokers |-> Or(given.brokers, Or(Trimmed(env.brokers), "empty")),
                   sasl |-> sasl, tls |-> tls, auth |-> auth,
                   url |-> Or(given.url, Or(Trimmed(env.url), "blank")),
                   schemasDir |-> Or(given.schemasDir, Or(Trimmed(env.schemasDir), "default")),
                   autoCreate |-> Trimmed(env.autoCreate) = "true",
                   messages |-> given.messages, subjectFor |-> given.subjectFor,
                   ttlMs |-> given.ttlMs]
    IN  IF Failed(sasl) \/ Failed(tls) \/ Failed(auth) \/ BadBoolean(env.autoCreate)
        THEN Failure("environment")
        ELSE IF Valid(config) THEN config ELSE Failure("invalid")

-----------------------------------------------------------------------------
\* buildTlsOptions(): the CA is read where the client is built.
BuildTlsOptions(tls, readable) ==
    IF tls.enabled # "true" THEN NoTls
    ELSE IF tls.caPath # "none" /\ ~readable THEN Failure("caPath") ELSE tls

\* toTtlSecs(): whole seconds, to the nearest.
TtlSecs(ms) == (ms + 500) \div 1000

\* createKafkaClient(): an error of the configuration or of the CA file throws.
CreateKafkaClient(env, given, readable) ==
    LET config == CreateKafkaConfig(env, given)
    IN  IF Failed(config) THEN config
        ELSE LET tls == BuildTlsOptions(config.tls, readable)
             IN  IF Failed(tls) THEN tls
                 ELSE [config |-> config,
                       connection |-> [clientId |-> config.clientId, brokers |-> config.brokers,
                                       autoCreate |-> config.autoCreate,
                                       sasl |-> config.sasl, tls |-> tls],
                       cacheSecs |-> TtlSecs(config.ttlMs)]

-----------------------------------------------------------------------------
\* The services of a container that are made of a client, by that client; a client
\* that code gives is "given", one that the plugin builds is named after the use,
\* and "bad" where its configuration is.
Services(kafkaClient, schemaRegistry, producer, consumer) ==
    [kafkaClient |-> kafkaClient, schemaRegistry |-> schemaRegistry,
     producer |-> producer, consumer |-> consumer]

NoServices == Services("none", "none", "none", "none")

\* kafkaPlugin(): a client of its own is built where the plugin is.
KafkaPlugin(cradle, given, own) ==
    LET client == Or(given, own)
    IN  IF client = "bad" THEN Failure("client")
        ELSE Services(client, client, client, cradle.consumer)

\* kafkaConsumerPlugin(): a client the app has is used before one is built, and
\* is never replaced.
KafkaConsumerPlugin(cradle, given, own, groupId) ==
    LET existing == cradle.kafkaClient
        client == Or(given, Or(existing, own))
    IN  IF ~Given(groupId) THEN Failure("groupId")
        ELSE IF client = "bad" THEN Failure("client")
        ELSE IF existing = "none" THEN Services(client, client, cradle.producer, client)
        ELSE Services(existing, cradle.schemaRegistry, cradle.producer, client)

\* One call of use(); none follows one that throws.
UsePlugin(cradle, u) ==
    IF Failed(cradle) THEN cradle
    ELSE IF u.plugin = "producer" THEN KafkaPlugin(cradle, u.given, u.own)
    ELSE KafkaConsumerPlugin(cradle, u.given, u.own, u.groupId)

\* The calls in their order.
UsePlugins(uses) ==
    LET After[n \in 0 .. Len(uses)] ==
            IF n = 0 THEN NoServices ELSE UsePlugin(After[n - 1], uses[n])
    IN  After[Len(uses)]
=============================================================================
