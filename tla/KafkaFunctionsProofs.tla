-------------------------- MODULE KafkaFunctionsProofs --------------------------
(***************************************************************************)
(* What holds of KafkaFunctions for every call, whatever its arguments.    *)
(***************************************************************************)
EXTENDS KafkaFunctions, FiniteSetTheorems, SequenceTheorems, NaturalsInduction, WellFoundedInduction, TLAPS

-----------------------------------------------------------------------------
(***************************************************************************)
(* Counting up: a set that holds 0, and each number's successor with it,   *)
(* holds all of them.  The loops of the code are recursive functions of    *)
(* the number of turns, and what a turn keeps is shown of them with this.  *)
(***************************************************************************)
\* A set of numbers has a least one.
LEMMA LeastNumber ==
    ASSUME NEW S \in SUBSET Nat, S # {}
    PROVE  \E s \in S : \A t \in S : s <= t
<1>1. PICK s \in S : \A t \in S : <<t, s>> \notin OpToRel(<, Nat)
  BY WFMin, NatLessThanWellFounded, Zenon
<1>2. \A t \in S : ~(t < s)
  BY <1>1, Zenon DEF OpToRel
<1>3. \A t \in S : s <= t
  BY <1>2
<1> QED BY <1>3

\* So the least number outside the set is neither 0 nor a successor.
LEMMA CountingUp ==
    ASSUME NEW N \in Nat, NEW S, 0 \in S,
           \A n \in 1 .. N : n - 1 \in S => n \in S
    PROVE  0 .. N \subseteq S
<1> SUFFICES ASSUME 0 .. N \ S # {} PROVE FALSE
  OBVIOUS
<1>1. 0 .. N \ S \in SUBSET Nat
  OBVIOUS
<1>2. PICK s \in 0 .. N \ S : \A t \in 0 .. N \ S : s <= t
  BY <1>1, LeastNumber
<1>3. s # 0 /\ s - 1 \in 0 .. N
  BY <1>2
<1>4. s - 1 \in S
  BY <1>2, <1>3
<1> QED BY <1>2, <1>3, <1>4

-----------------------------------------------------------------------------
(***************************************************************************)
(* The client that is built from the environment and from code.            *)
(***************************************************************************)
\* What is thrown is no client.
LEMMA FailureFails == \A why : Failed(KC!Failure(why))
BY DEF KC!Failure, Failed

\* The endpoints of a valid configuration: code's, or else the environment's.
LEMMA EndpointsGiven ==
    ASSUME NEW env \in Environments, NEW given \in Inputs,
           ~Failed(KC!CreateKafkaConfig(env, given))
    PROVE  LET cfg == KC!CreateKafkaConfig(env, given)
           IN  /\ cfg.clientId = Source(given.clientId)
               /\ cfg.brokers = Source(given.brokers)
               /\ cfg.url = Source(given.url)
               /\ cfg.schemasDir =
                      IF given.schemasDir = "none" /\ env.schemasDir # "env" THEN "default"
                      ELSE Source(given.schemasDir)
<1> DEFINE cfg == KC!CreateKafkaConfig(env, given)
<1>1. /\ cfg.clientId = KC!Or(given.clientId, KC!Or(KC!Trimmed(env.clientId), "blank"))
      /\ cfg.brokers = KC!Or(given.brokers, KC!Or(KC!Trimmed(env.brokers), "empty"))
      /\ cfg.url = KC!Or(given.url, KC!Or(KC!Trimmed(env.url), "blank"))
      /\ cfg.schemasDir = KC!Or(given.schemasDir, KC!Or(KC!Trimmed(env.schemasDir), "default"))
      /\ KC!Valid(cfg)
  BY DEF KC!CreateKafkaConfig, KC!Failure, Failed
<1>2. /\ KC!Given(cfg.clientId) /\ KC!Given(cfg.url) /\ KC!Given(cfg.schemasDir)
      /\ cfg.brokers \in {"env", "code"}
  BY <1>1, Zenon DEF KC!Valid
<1> QED BY <1>1, <1>2 DEF KC!Or, KC!Trimmed, KC!Given, Environments, Inputs, EnvTexts, CodeTexts,
           Source

\* Credentials are given whole, by one of the two sources.
LEMMA SaslWhole ==
    ASSUME NEW env \in Environments, NEW given \in Inputs,
           ~Failed(KC!CreateKafkaConfig(env, given))
    PROVE  LET sasl == KC!CreateKafkaConfig(env, given).sasl
           IN  /\ sasl.mechanism = IF given.sasl = KC!NoSasl THEN KC!Trimmed(env.mechanism)
                                   ELSE given.sasl.mechanism
               /\ sasl.mechanism \in KC!Passwords =>
                      /\ sasl.username = IF given.sasl = KC!NoSasl THEN "env" ELSE "code"
                      /\ sasl.password = IF given.sasl = KC!NoSasl THEN "env" ELSE "code"
               /\ sasl.mechanism = "oauthbearer" => sasl.token = "code"
<1> DEFINE sasl == KC!CreateKafkaConfig(env, given).sasl
<1>1. /\ sasl = IF given.sasl # KC!NoSasl THEN given.sasl
                ELSE KC!ResolveSaslFromEnv(env, given.tokenProvider)
      /\ ~Failed(sasl)
      /\ KC!Valid(KC!CreateKafkaConfig(env, given))
  BY DEF KC!CreateKafkaConfig, KC!Failure, KC!Failed, Failed
<1>2. /\ sasl.mechanism = "oauthbearer" => KC!Given(sasl.token)
      /\ sasl.mechanism \in KC!Passwords => KC!Given(sasl.username) /\ KC!Given(sasl.password)
  BY <1>1, Zenon DEF KC!Valid
<1>3. CASE given.sasl # KC!NoSasl
  <2>1. /\ sasl = given.sasl /\ sasl.username \in CodeTexts
        /\ sasl.password \in CodeTexts /\ sasl.token \in CodeTexts
    BY <1>1, <1>3 DEF Inputs, KC!Mechanisms, KC!Passwords
  <2> QED BY <1>2, <1>3, <2>1 DEF CodeTexts, KC!Given
<1>4. CASE given.sasl = KC!NoSasl
  <2>1. sasl = KC!ResolveSaslFromEnv(env, given.tokenProvider)
    BY <1>1, <1>4
  <2>2. /\ given.tokenProvider \in {"none", "code"}
        /\ env.username \in EnvTexts /\ env.password \in EnvTexts
        /\ env.mechanism \in {"none", "blank", "bad"} \cup KC!Mechanisms
    BY DEF Inputs, Environments
  <2> DEFINE mechanism == KC!Trimmed(env.mechanism)
  <2>3. CASE mechanism = "none"
    <3>1. sasl = KC!NoSasl
      BY <2>1, <2>3 DEF KC!ResolveSaslFromEnv, KC!Passwords
    <3> QED BY <1>4, <2>3, <3>1 DEF KC!NoSasl, KC!Sasl, KC!Passwords
  <2>4. CASE mechanism = "oauthbearer"
    <3>1. sasl = KC!Sasl(mechanism, "none", "none", given.tokenProvider)
          /\ given.tokenProvider = "code"
      BY <1>1, <2>1, <2>2, <2>4, FailureFails DEF KC!ResolveSaslFromEnv, KC!Passwords
    <3> QED BY <1>4, <2>4, <3>1 DEF KC!Sasl, KC!Passwords
  <2>5. CASE mechanism \in KC!Passwords
    <3>1. /\ sasl = KC!Sasl(mechanism, KC!Trimmed(env.username),
                            KC!Trimmed(env.password), "none")
          /\ "none" \notin {KC!Trimmed(env.username), KC!Trimmed(env.password)}
      BY <1>1, <2>1, <2>5, FailureFails DEF KC!ResolveSaslFromEnv, KC!Passwords
    <3>2. KC!Trimmed(env.username) = "env" /\ KC!Trimmed(env.password) = "env"
      BY <2>2, <3>1 DEF KC!Trimmed, EnvTexts
    <3> QED BY <1>4, <2>5, <3>1, <3>2 DEF KC!Sasl, KC!Passwords
  <2>6. CASE mechanism \notin {"none"} \cup KC!Mechanisms
    BY <1>1, <2>1, <2>6, FailureFails DEF KC!ResolveSaslFromEnv, KC!Mechanisms
  <2> QED BY <2>3, <2>4, <2>5, <2>6 DEF KC!Mechanisms
<1> QED BY <1>3, <1>4

\* So are the registry's.
LEMMA AuthWhole ==
    ASSUME NEW env \in Environments, NEW given \in Inputs,
           ~Failed(KC!CreateKafkaConfig(env, given))
    PROVE  LET auth == KC!CreateKafkaConfig(env, given).auth
           IN  /\ given.auth # KC!NoAuth => auth.username = "code" /\ auth.password = "code"
               /\ given.auth = KC!NoAuth =>
                      \/ auth = KC!NoAuth /\ env.registryUser # "env" /\ env.registryPass # "env"
                      \/ /\ auth.username = "env" /\ auth.password = "env"
                         /\ env.registryUser = "env" /\ env.registryPass = "env"
<1> DEFINE auth == KC!CreateKafkaConfig(env, given).auth
<1>1. /\ auth = IF given.auth # KC!NoAuth THEN given.auth ELSE KC!ResolveRegistryAuthFromEnv(env)
      /\ ~Failed(auth)
      /\ KC!Valid(KC!CreateKafkaConfig(env, given))
  BY DEF KC!CreateKafkaConfig, KC!Failure, KC!Failed, Failed
<1>2. auth # KC!NoAuth => KC!Given(auth.username) /\ KC!Given(auth.password)
  BY <1>1, Zenon DEF KC!Valid
<1>3. CASE given.auth # KC!NoAuth
  <2>1. /\ auth = given.auth
        /\ auth.username \in CodeTexts /\ auth.password \in CodeTexts
    BY <1>1, <1>3 DEF Inputs
  <2> QED BY <1>2, <1>3, <2>1 DEF CodeTexts, KC!Given
<1>4. CASE given.auth = KC!NoAuth
  <2> DEFINE username == KC!Trimmed(env.registryUser)
             password == KC!Trimmed(env.registryPass)
  <2>1. env.registryUser \in EnvTexts /\ env.registryPass \in EnvTexts
    BY DEF Environments
  <2>2. username \in {"none", "env"} /\ password \in {"none", "env"}
    BY <2>1 DEF KC!Trimmed, EnvTexts
  <2>3. CASE {username, password} = {"none"}
    <3>1. auth = KC!NoAuth
      BY <1>1, <1>4, <2>3 DEF KC!ResolveRegistryAuthFromEnv
    <3> QED BY <1>4, <2>3, <3>1 DEF KC!Trimmed
  <2>4. CASE {username, password} # {"none"}
    <3>1. /\ auth = [username |-> username, password |-> password]
          /\ "none" \notin {username, password}
      BY <1>1, <1>4, <2>4, FailureFails DEF KC!ResolveRegistryAuthFromEnv
    <3> QED BY <1>4, <2>2, <3>1 DEF KC!Trimmed
  <2> QED BY <2>3, <2>4
<1> QED BY <1>3, <1>4

\* TLS is what code says, or what the environment asks for where code says nothing.
LEMMA TlsAsAsked ==
    ASSUME NEW env \in Environments, NEW given \in Inputs, NEW readable \in BOOLEAN,
           ~Failed(KC!CreateKafkaClient(env, given, readable))
    PROVE  LET tls == KC!CreateKafkaClient(env, given, readable).connection.tls
           IN  /\ given.tls # KC!NoTls =>
                      tls = IF given.tls.enabled = "true" THEN given.tls ELSE KC!NoTls
               /\ given.tls = KC!NoTls =>
                      /\ env.tls # "bad"
                      /\ tls = IF env.tls # "true" THEN KC!NoTls
                               ELSE [enabled |-> "true", caPath |-> KC!Trimmed(env.caPath),
                                     verify |-> KC!Trimmed(env.verify)]
               /\ tls.caPath # "none" => readable
<1> DEFINE cfg == KC!CreateKafkaConfig(env, given)
           tls == KC!CreateKafkaClient(env, given, readable).connection.tls
<1>1. /\ ~KC!Failed(cfg) /\ ~KC!Failed(KC!BuildTlsOptions(cfg.tls, readable))
      /\ tls = KC!BuildTlsOptions(cfg.tls, readable)
  BY DEF KC!CreateKafkaClient, KC!Failed, Failed
<1>2. /\ cfg.tls = IF given.tls # KC!NoTls THEN given.tls ELSE KC!ResolveTlsFromEnv(env)
      /\ ~KC!Failed(cfg.tls)
  BY <1>1 DEF KC!CreateKafkaConfig, KC!Failure, KC!Failed
<1>3. /\ tls = IF cfg.tls.enabled # "true" THEN KC!NoTls ELSE cfg.tls
      /\ tls.caPath # "none" => readable
  BY <1>1 DEF KC!BuildTlsOptions, KC!NoTls, KC!Failure, KC!Failed
<1>4. given.tls = KC!NoTls =>
          /\ env.tls # "bad"
          /\ cfg.tls = IF env.tls # "true" THEN KC!NoTls
                       ELSE [enabled |-> "true", caPath |-> KC!Trimmed(env.caPath),
                             verify |-> KC!Trimmed(env.verify)]
  BY <1>2 DEF KC!ResolveTlsFromEnv, KC!BadBoolean, KC!Trimmed, KC!Failure, KC!Failed
<1>5. CASE given.tls # KC!NoTls
  BY <1>2, <1>3, <1>5
<1>6. CASE given.tls = KC!NoTls
  BY <1>3, <1>4, <1>6 DEF KC!NoTls
<1> QED BY <1>5, <1>6

\* Whole seconds, to the nearest.
LEMMA NearestSecond ==
    ASSUME NEW ms \in Int
    PROVE  KC!TtlSecs(ms) * 1000 - ms \in -499 .. 500
BY DEF KC!TtlSecs

\* What createKafkaClient() builds from any two sources.
LEMMA ClientIsTruthful ==
    ASSUME NEW env \in Environments, NEW given \in Inputs, NEW readable \in BOOLEAN,
           ~Failed(KC!CreateKafkaClient(env, given, readable))
    PROVE  ClientTruthful(env, given, readable, KC!CreateKafkaClient(env, given, readable))
<1> DEFINE client == KC!CreateKafkaClient(env, given, readable)
           cfg == KC!CreateKafkaConfig(env, given)
<1>1. /\ ~Failed(cfg)
      /\ client.config = cfg
      /\ client.connection.clientId = cfg.clientId
      /\ client.connection.brokers = cfg.brokers
      /\ client.connection.autoCreate = cfg.autoCreate
      /\ client.connection.sasl = cfg.sasl
      /\ client.cacheSecs = KC!TtlSecs(cfg.ttlMs)
  BY DEF KC!CreateKafkaClient, KC!Failed, Failed
<1>2. /\ cfg.ttlMs = given.ttlMs
      /\ cfg.autoCreate = (KC!Trimmed(env.autoCreate) = "true")
  BY <1>1 DEF KC!CreateKafkaConfig, KC!Failure, Failed
<1>3. client.cacheSecs * 1000 - cfg.ttlMs \in -499 .. 500
  BY <1>1, <1>2, NearestSecond DEF Inputs
<1>4. client.connection.autoCreate <=> env.autoCreate = "true"
  BY <1>1, <1>2 DEF KC!Trimmed
<1>5. /\ cfg.clientId = Source(given.clientId)
      /\ cfg.brokers = Source(given.brokers)
      /\ cfg.url = Source(given.url)
      /\ cfg.schemasDir =
             IF given.schemasDir = "none" /\ env.schemasDir # "env" THEN "default"
             ELSE Source(given.schemasDir)
  BY <1>1, EndpointsGiven
<1>6. /\ cfg.sasl.mechanism = IF given.sasl = KC!NoSasl THEN KC!Trimmed(env.mechanism)
                              ELSE given.sasl.mechanism
      /\ cfg.sasl.mechanism \in KC!Passwords =>
             \A half \in {cfg.sasl.username, cfg.sasl.password} :
                 half = IF given.sasl = KC!NoSasl THEN "env" ELSE "code"
      /\ cfg.sasl.mechanism = "oauthbearer" => cfg.sasl.token = "code"
  BY <1>1, SaslWhole
<1>7. /\ given.auth # KC!NoAuth =>
             \A half \in {cfg.auth.username, cfg.auth.password} : half = "code"
      /\ given.auth = KC!NoAuth =>
             \/ cfg.auth = KC!NoAuth /\ "env" \notin {env.registryUser, env.registryPass}
             \/ \A half \in {cfg.auth.username, cfg.auth.password,
                             env.registryUser, env.registryPass} : half = "env"
  BY <1>1, AuthWhole
<1> DEFINE tls == client.connection.tls
<1>8. /\ given.tls # KC!NoTls =>
             tls = IF given.tls.enabled = "true" THEN given.tls ELSE KC!NoTls
      /\ given.tls = KC!NoTls =>
             /\ env.tls # "bad"
             /\ tls = IF env.tls # "true" THEN KC!NoTls
                      ELSE [enabled |-> "true", caPath |-> KC!Trimmed(env.caPath),
                            verify |-> KC!Trimmed(env.verify)]
      /\ tls.caPath # "none" => readable
  BY TlsAsAsked
<1> QED BY <1>1, <1>3, <1>4, <1>5, <1>6, <1>7, <1>8, SMTT(30) DEF ClientTruthful

-----------------------------------------------------------------------------
(***************************************************************************)
(* The clients of an app's services.                                       *)
(***************************************************************************)
\* The services after each call of use(), and before the first.
AfterUses(f, uses, N) ==
    f = [n \in 0 .. N |-> IF n = 0 THEN KC!NoServices ELSE KC!UsePlugin(f[n - 1], uses[n])]

LEMMA AfterUsesExists ==
    ASSUME NEW uses, NEW N \in Nat
    PROVE  \E f : AfterUses(f, uses, N)
<1> DEFINE S == {n \in 0 .. N : \E f : AfterUses(f, uses, n)}
<1>1. 0 \in S
  <2>1. AfterUses([n \in 0 .. 0 |-> KC!NoServices], uses, 0)
    BY DEF AfterUses
  <2> QED BY <2>1
<1>2. ASSUME NEW n \in 1 .. N, n - 1 \in S
      PROVE  n \in S
  <2>1. PICK f : AfterUses(f, uses, n - 1)
    BY <1>2
  <2> DEFINE g == [m \in 0 .. n |-> IF m = n THEN KC!UsePlugin(f[n - 1], uses[n]) ELSE f[m]]
  <2>2. \A m \in 0 .. n : g[m] = IF m = 0 THEN KC!NoServices
                                 ELSE KC!UsePlugin(g[m - 1], uses[m])
    BY <2>1 DEF AfterUses
  <2>3. AfterUses(g, uses, n)
    BY <2>2 DEF AfterUses
  <2> QED BY <2>3
<1> HIDE DEF S
<1>3. 0 .. N \subseteq S
  BY <1>1, <1>2, CountingUp
<1> QED BY <1>3 DEF S

LEMMA UsePluginsIsLast ==
    ASSUME NEW uses, Len(uses) \in Nat
    PROVE  \E f : AfterUses(f, uses, Len(uses)) /\ KC!UsePlugins(uses) = f[Len(uses)]
<1> DEFINE f == CHOOSE f : AfterUses(f, uses, Len(uses))
<1>1. AfterUses(f, uses, Len(uses))
  BY AfterUsesExists
<1>2. KC!UsePlugins(uses) = f[Len(uses)]
  BY Zenon DEF KC!UsePlugins, AfterUses
<1> QED BY <1>1, <1>2

\* The services after n calls: the registry's client is the app's, the producer's is
\* the same, and the consumer's unless it was given one or lost it to a later producer.
ServicesAfter(r, uses, n) ==
    IF Failed(r)
    THEN \E i \in 1 .. n :
            \/ uses[i].plugin = "consumer" /\ uses[i].groupId # "code"
            \/ /\ uses[i].given = "none" /\ (uses[i].plugin = "producer" \/ i = 1)
               /\ uses[i].own = "bad"
    ELSE /\ r.kafkaClient # "bad"
         /\ n > 0 => r.kafkaClient # "none"
         /\ r.consumer # "none" => \E i \in 1 .. n : uses[i].plugin = "consumer"
         /\ r.schemaRegistry = r.kafkaClient
         /\ r.producer \in {"none", r.kafkaClient}
         /\ r.consumer \in {"none", "given", r.kafkaClient}
                \/ \E i, j \in 1 .. n :
                      i < j /\ uses[i].plugin = "consumer" /\ uses[j].plugin = "producer"

\* At first the container has none.
LEMMA ServicesAreNone ==
    ASSUME NEW uses
    PROVE  ServicesAfter(KC!NoServices, uses, 0)
<1>1. ~Failed(KC!NoServices)
  BY DEF Failed, KC!NoServices, KC!Services
<1> QED BY <1>1 DEF ServicesAfter, KC!NoServices, KC!Services

\* kafkaPlugin() replaces the client of all but the consumer.
LEMMA ProducerShares ==
    ASSUME NEW uses \in Seq(PluginUses), NEW n \in 1 .. Len(uses), NEW r,
           ServicesAfter(r, uses, n - 1), ~Failed(r), uses[n].plugin = "producer"
    PROVE  ServicesAfter(KC!UsePlugin(r, uses[n]), uses, n)
<1> DEFINE u == uses[n]
           next == KC!UsePlugin(r, u)
           client == KC!Or(u.given, u.own)
<1>1. u \in PluginUses
  OBVIOUS
<1>2. next = IF client = "bad" THEN KC!Failure("client")
             ELSE KC!Services(client, client, client, r.consumer)
  BY DEF KC!UsePlugin, KC!KafkaPlugin, KC!Failed, Failed
<1>3. CASE client = "bad"
  <2>1. Failed(next) /\ u.given = "none" /\ u.own = "bad"
    BY <1>1, <1>2, <1>3, FailureFails DEF KC!Or, PluginUses
  <2> QED BY <2>1 DEF ServicesAfter
<1>4. CASE client # "bad"
  <2>1. next = KC!Services(client, client, client, r.consumer)
    BY <1>2, <1>4
  <2>2. client # "none"
    BY <1>1 DEF KC!Or, PluginUses
  <2>3. r.consumer # "none" => \E i \in 1 .. n - 1 : uses[i].plugin = "consumer"
    BY DEF ServicesAfter
  <2>4. ~Failed(next)
    BY <2>1 DEF Failed, KC!Services
  <2>5. /\ next.kafkaClient = client /\ next.schemaRegistry = client
        /\ next.producer = client /\ next.consumer = r.consumer
    BY <2>1 DEF KC!Services
  <2>6. r.consumer = "none"
           \/ \E i, j \in 1 .. n :
                 i < j /\ uses[i].plugin = "consumer" /\ uses[j].plugin = "producer"
    BY <2>3
  <2> QED BY <1>4, <2>2, <2>3, <2>4, <2>5, <2>6 DEF ServicesAfter
<1> QED BY <1>3, <1>4

\* kafkaConsumerPlugin() takes the client there is, and makes one only as the first.
LEMMA ConsumerShares ==
    ASSUME NEW uses \in Seq(PluginUses), NEW n \in 1 .. Len(uses), NEW r,
           ServicesAfter(r, uses, n - 1), ~Failed(r), uses[n].plugin = "consumer"
    PROVE  ServicesAfter(KC!UsePlugin(r, uses[n]), uses, n)
<1> DEFINE u == uses[n]
           next == KC!UsePlugin(r, u)
           existing == r.kafkaClient
           client == KC!Or(u.given, KC!Or(existing, u.own))
<1>1. u \in PluginUses
  OBVIOUS
<1>2. next = IF ~KC!Given(u.groupId) THEN KC!Failure("groupId")
             ELSE IF client = "bad" THEN KC!Failure("client")
             ELSE IF existing = "none" THEN KC!Services(client, client, r.producer, client)
             ELSE KC!Services(existing, r.schemaRegistry, r.producer, client)
  BY DEF KC!UsePlugin, KC!KafkaConsumerPlugin, KC!Failed, Failed
<1>3. /\ r.schemaRegistry = existing
      /\ r.producer \in {"none", existing}
      /\ n > 1 => existing # "none"
      /\ existing # "bad"
  BY DEF ServicesAfter
<1>4. CASE ~KC!Given(u.groupId)
  <2>1. Failed(next) /\ u.groupId # "code"
    BY <1>2, <1>4, FailureFails DEF KC!Given
  <2> QED BY <2>1 DEF ServicesAfter
<1>5. CASE KC!Given(u.groupId) /\ client = "bad"
  <2>1. Failed(next)
    BY <1>2, <1>5, FailureFails
  <2>2. u.given = "none" /\ u.own = "bad" /\ n = 1
    BY <1>1, <1>3, <1>5 DEF KC!Or, PluginUses
  <2> QED BY <2>1, <2>2 DEF ServicesAfter
<1>6. CASE KC!Given(u.groupId) /\ client # "bad"
  <2> DEFINE shared == IF existing = "none" THEN client ELSE existing
  <2>1. next = KC!Services(shared, shared, r.producer, client)
    BY <1>2, <1>3, <1>6
  <2>2. /\ client # "none" /\ client \in {"given", shared}
        /\ shared \notin {"none", "bad"}
    BY <1>1, <1>3, <1>6 DEF KC!Or, PluginUses
  <2>3. r.producer \in {"none", shared}
    BY <1>3
  <2>4. ~Failed(next)
    BY <2>1 DEF Failed, KC!Services
  <2>5. /\ next.kafkaClient = shared /\ next.schemaRegistry = shared
        /\ next.producer = r.producer /\ next.consumer = client
    BY <2>1 DEF KC!Services
  <2> QED BY <2>2, <2>3, <2>4, <2>5 DEF ServicesAfter
<1> QED BY <1>4, <1>5, <1>6

\* Each call keeps that.
LEMMA UsePluginShares ==
    ASSUME NEW uses \in Seq(PluginUses), NEW n \in 1 .. Len(uses), NEW r,
           ServicesAfter(r, uses, n - 1)
    PROVE  ServicesAfter(KC!UsePlugin(r, uses[n]), uses, n)
<1>1. CASE Failed(r)
  <2>1. KC!UsePlugin(r, uses[n]) = r
    BY <1>1 DEF KC!UsePlugin, KC!Failed, Failed
  <2> QED BY <1>1, <2>1 DEF ServicesAfter
<1>2. CASE ~Failed(r)
  <2>1. uses[n] \in PluginUses
    OBVIOUS
  <2>2. uses[n].plugin \in {"producer", "consumer"}
    BY <2>1 DEF PluginUses
  <2> QED BY <1>2, <2>2, ProducerShares, ConsumerShares
<1> QED BY <1>1, <1>2

\* So the services of any sequence of uses are shared.
LEMMA UsesShare ==
    ASSUME NEW uses \in Seq(PluginUses)
    PROVE  ServicesAfter(KC!UsePlugins(uses), uses, Len(uses))
<1>1. Len(uses) \in Nat
  OBVIOUS
<1>2. PICK f : AfterUses(f, uses, Len(uses)) /\ KC!UsePlugins(uses) = f[Len(uses)]
  BY <1>1, UsePluginsIsLast
<1> DEFINE S == {n \in 0 .. Len(uses) : ServicesAfter(f[n], uses, n)}
<1>3. 0 \in S
  BY <1>1, <1>2, ServicesAreNone DEF AfterUses
<1>4. ASSUME NEW n \in 1 .. Len(uses), n - 1 \in S
      PROVE  n \in S
  <2>1. f[n] = KC!UsePlugin(f[n - 1], uses[n])
    BY <1>1, <1>2 DEF AfterUses
  <2> QED BY <1>4, <2>1, UsePluginShares
<1> HIDE DEF S
<1>5. 0 .. Len(uses) \subseteq S
  BY <1>1, <1>3, <1>4, CountingUp
<1> QED BY <1>1, <1>2, <1>5 DEF S

-----------------------------------------------------------------------------
(***************************************************************************)
(* A call that returns is the one that was made, and returns once.         *)
(***************************************************************************)
LEMMA CallsStay == Spec => [](call \in Calls)
<1>1. Init => call \in Calls
  BY DEF Init
<1>2. call \in Calls /\ [Next]_<<call, result>> => (call \in Calls)'
  BY DEF Next, Read, Scan, Bind, Configure, Use, Migrate, Returns
<1> QED BY <1>1, <1>2, PTL DEF Spec

\* Nothing has returned at first.
LEMMA NothingReturned == Init => \A fn : ~Returned(fn)
BY Zenon DEF Init, Returned, Running

\* What a configuration is built into, and what a use leaves.
LEMMA ConfigureTruthful ==
    ASSUME call \in Calls, Configure
    PROVE  ConfigTruthful'
<1>1. /\ call' = call /\ call.fn = "configure"
      /\ result' = KC!CreateKafkaClient(call.from[1], call.from[2], call.readable)
  BY DEF Configure, Returns
<1>2. call.from[1] \in Environments /\ call.from[2] \in Inputs /\ call.readable \in BOOLEAN
  BY <1>1, CallsAssumption DEF CallsAssumption, ConfigureCall
<1>3. ~Failed(result') =>
         ClientTruthful(call.from[1], call.from[2], call.readable, result')
  BY <1>1, <1>2, ClientIsTruthful
<1>4. ~Returned("use")'
  BY <1>1 DEF Returned
<1> QED BY <1>1, <1>3, <1>4 DEF ConfigTruthful, ClientShared, Failed

LEMMA UseTruthful ==
    ASSUME call \in Calls, Use
    PROVE  ConfigTruthful'
<1>1. call' = call /\ call.fn = "use" /\ result' = KC!UsePlugins(call.uses)
  BY DEF Use, Returns
<1>2. call.uses \in Seq(PluginUses)
  BY <1>1, CallsAssumption DEF CallsAssumption, UseCall
<1>3. ServicesAfter(result', call.uses, Len(call.uses))
  BY <1>1, <1>2, UsesShare
<1>4. DOMAIN call.uses = 1 .. Len(call.uses)
  BY <1>2
<1>5. ~Returned("configure")'
  BY <1>1 DEF Returned
<1>6. ClientShared'
  BY <1>1, <1>3, <1>4 DEF ServicesAfter, ClientShared, Failed, Kind, Builds
<1> QED BY <1>5, <1>6 DEF ConfigTruthful

\* A client built from the environment and code, whatever they say, has each setting
\* from code, or else from the environment, and whole; and whatever the sequence of
\* plugins, their services share the app's client.
THEOREM ConfigTruthfulAlways == Spec => []ConfigTruthful
<1>1. Init => ConfigTruthful
  BY NothingReturned, Zenon DEF ConfigTruthful, ClientShared
<1>2. call \in Calls /\ ConfigTruthful /\ [Next]_<<call, result>> => ConfigTruthful'
  <2> SUFFICES ASSUME call \in Calls, ConfigTruthful, [Next]_<<call, result>>
               PROVE  ConfigTruthful'
    OBVIOUS
  <2>1. CASE Configure
    BY <2>1, ConfigureTruthful
  <2>2. CASE Use
    BY <2>2, UseTruthful
  <2>3. CASE Read \/ Scan \/ Bind \/ Migrate
    BY <2>3 DEF Read, Scan, Bind, Migrate, Returns, Returned, ConfigTruthful, ClientShared
  <2>4. CASE UNCHANGED <<call, result>>
    <3>1. call' = call /\ result' = result
      BY <2>4
    <3> QED BY <3>1 DEF ConfigTruthful, ClientShared, Returned, Running, Failed, Kind, Builds
  <2> QED BY <2>1, <2>2, <2>3, <2>4 DEF Next
<1> QED BY <1>1, <1>2, CallsStay, PTL DEF Spec

-----------------------------------------------------------------------------
(***************************************************************************)
(* The migrations of a directory.                                          *)
(***************************************************************************)
\* The module of the migrations counts as this one does.
LEMMA SameCount == \A S : MI!Cardinality(S) = Cardinality(S)
BY Zenon DEF MI!Cardinality, Cardinality

\* A part that is missing is 0.
LEMMA PartIsNumber ==
    ASSUME NEW v \in Seq(Nat), NEW i \in Nat \ {0}
    PROVE  /\ MI!Part(v, i) \in Nat
           /\ MI!Part(v, i) = IF i \in DOMAIN v THEN v[i] ELSE 0
BY DEF MI!Part

\* Lower, in the words of the code.
LEMMA LowerByParts ==
    ASSUME NEW v \in Seq(Nat), NEW w \in Seq(Nat)
    PROVE  Lower(v, w) <=>
               \E i \in 1 .. MI!Longer(v, w) :
                   /\ MI!Part(v, i) < MI!Part(w, i)
                   /\ \A j \in 1 .. i - 1 : MI!Part(v, j) = MI!Part(w, j)
<1>1. DOMAIN v \cup DOMAIN w = 1 .. MI!Longer(v, w)
  BY DEF MI!Longer
<1>2. MI!Longer(v, w) \in Nat
  BY DEF MI!Longer
<1> DEFINE At(x, k) == IF k \in DOMAIN x THEN x[k] ELSE 0
<1>3. \A k \in Nat \ {0} : At(v, k) = MI!Part(v, k) /\ At(w, k) = MI!Part(w, k)
  BY PartIsNumber
<1>4. Lower(v, w) <=> \E i \in DOMAIN v \cup DOMAIN w :
                          At(v, i) < At(w, i) /\ \A j \in 1 .. i - 1 : At(v, j) = At(w, j)
  BY DEF Lower
<1> HIDE DEF At
<1> QED BY <1>1, <1>2, <1>3, <1>4, SMTT(30)

\* The comparison finds the first part that differs.
LEMMA CompareFinds ==
    ASSUME NEW v \in Seq(Nat), NEW w \in Seq(Nat), NEW i \in 1 .. MI!Longer(v, w),
           MI!Part(v, i) # MI!Part(w, i),
           \A j \in 1 .. i - 1 : MI!Part(v, j) = MI!Part(w, j)
    PROVE  MI!CompareVersions(v, w) = MI!Part(v, i) - MI!Part(w, i)
<1> DEFINE Differs(k) == \/ MI!Part(v, k) = MI!NaN \/ MI!Part(w, k) = MI!NaN
                         \/ MI!Part(v, k) # MI!Part(w, k)
           at == {k \in 1 .. MI!Longer(v, w) : Differs(k)}
           least == CHOOSE k \in at : \A j \in at : k <= j
<1>1. MI!Longer(v, w) \in Nat
  BY DEF MI!Longer
<1>2. \A k \in 1 .. MI!Longer(v, w) :
          /\ MI!Part(v, k) \in Nat /\ MI!Part(w, k) \in Nat
          /\ MI!Part(v, k) # MI!NaN /\ MI!Part(w, k) # MI!NaN
  BY <1>1, PartIsNumber DEF MI!NaN
<1>3. i \in at /\ \A j \in at : i <= j
  BY <1>1, <1>2
<1>4. least = i
  <2>1. least \in at /\ \A j \in at : least <= j
    BY <1>3
  <2> QED BY <1>1, <1>3, <2>1
<1>5. MI!CompareVersions(v, w) =
          IF at = {} THEN 0
          ELSE IF MI!NaN \in {MI!Part(v, least), MI!Part(w, least)} THEN 0
          ELSE MI!Part(v, least) - MI!Part(w, least)
  BY DEF MI!CompareVersions
<1> HIDE DEF at, least
<1> QED BY <1>2, <1>3, <1>4, <1>5

\* It tells which of two versions is lower.
LEMMA CompareTells ==
    ASSUME NEW v \in Seq(Nat), NEW w \in Seq(Nat), Lower(v, w)
    PROVE  /\ MI!CompareVersions(v, w) \in Int /\ MI!CompareVersions(w, v) \in Int
           /\ MI!CompareVersions(v, w) < 0 /\ MI!CompareVersions(w, v) > 0
<1>1. PICK i \in 1 .. MI!Longer(v, w) :
          /\ MI!Part(v, i) < MI!Part(w, i)
          /\ \A j \in 1 .. i - 1 : MI!Part(v, j) = MI!Part(w, j)
  BY LowerByParts
<1>2. MI!Longer(w, v) = MI!Longer(v, w) /\ MI!Longer(v, w) \in Nat
  BY DEF MI!Longer
<1>3. MI!Part(v, i) \in Nat /\ MI!Part(w, i) \in Nat
  BY <1>2, PartIsNumber
<1>4. MI!CompareVersions(v, w) = MI!Part(v, i) - MI!Part(w, i)
  BY <1>1, <1>3, CompareFinds
<1>5. MI!CompareVersions(w, v) = MI!Part(w, i) - MI!Part(v, i)
  BY <1>1, <1>2, <1>3, CompareFinds
<1> QED BY <1>1, <1>3, <1>4, <1>5

\* Lower is a strict order.
LEMMA LowerIsStrict ==
    ASSUME NEW v \in Seq(Nat), NEW w \in Seq(Nat), Lower(v, w)
    PROVE  ~Lower(w, v)
<1> SUFFICES ASSUME Lower(w, v) PROVE FALSE
  OBVIOUS
<1>1. /\ MI!CompareVersions(v, w) \in Int
      /\ MI!CompareVersions(v, w) < 0 /\ MI!CompareVersions(v, w) > 0
  BY CompareTells
<1> QED BY <1>1

LEMMA LowerTransitive ==
    ASSUME NEW v \in Seq(Nat), NEW w \in Seq(Nat), NEW x \in Seq(Nat),
           Lower(v, w), Lower(w, x)
    PROVE  Lower(v, x)
<1>1. PICK i \in 1 .. MI!Longer(v, w) :
          /\ MI!Part(v, i) < MI!Part(w, i)
          /\ \A j \in 1 .. i - 1 : MI!Part(v, j) = MI!Part(w, j)
  BY LowerByParts
<1>2. PICK k \in 1 .. MI!Longer(w, x) :
          /\ MI!Part(w, k) < MI!Part(x, k)
          /\ \A j \in 1 .. k - 1 : MI!Part(w, j) = MI!Part(x, j)
  BY LowerByParts
<1>3. MI!Longer(v, w) \in Nat /\ MI!Longer(w, x) \in Nat
  BY DEF MI!Longer
<1> DEFINE m == IF i < k THEN i ELSE k
<1>4. m \in Nat \ {0} /\ m <= i /\ m <= k /\ m \in {i, k}
  BY <1>3
<1>5. \A n \in Nat \ {0} : MI!Part(v, n) \in Nat /\ MI!Part(w, n) \in Nat /\ MI!Part(x, n) \in Nat
  BY PartIsNumber
<1>6. MI!Part(v, m) < MI!Part(x, m)
  <2>1. CASE i < k
    BY <1>1, <1>2, <1>3, <1>5, <2>1
  <2>2. CASE i = k
    <3>1. m = k
      BY <2>2
    <3>2. MI!Part(v, k) < MI!Part(w, k) /\ MI!Part(w, k) < MI!Part(x, k)
      BY <1>1, <1>2, <2>2
    <3>3. MI!Part(v, k) \in Nat /\ MI!Part(w, k) \in Nat /\ MI!Part(x, k) \in Nat
      BY <1>3, <1>5
    <3> QED BY <3>1, <3>2, <3>3
  <2>3. CASE k < i
    BY <1>1, <1>2, <1>3, <1>5, <2>3
  <2> QED BY <1>3, <2>1, <2>2, <2>3
<1>7. \A j \in 1 .. m - 1 : MI!Part(v, j) = MI!Part(x, j)
  BY <1>1, <1>2, <1>3, <1>4
<1>8. m \in DOMAIN x
  <2>1. MI!Part(x, m) # 0
    BY <1>4, <1>5, <1>6
  <2>2. MI!Part(x, m) = IF m \in DOMAIN x THEN x[m] ELSE 0
    BY <1>4, PartIsNumber
  <2> QED BY <2>1, <2>2
<1>9. m \in 1 .. MI!Longer(v, x)
  BY <1>8 DEF MI!Longer
<1> QED BY <1>6, <1>7, <1>9, LowerByParts

-----------------------------------------------------------------------------
\* A directory whose versions are clear: the sort has an order to follow.
LEMMA BeforeIsLower ==
    ASSUME NEW dir \in Seq(Files), \A i, j \in DOMAIN dir : dir[i].name = dir[j].name => i = j,
           Clear(dir), NEW i \in MI!Versioned(dir), NEW j \in MI!Versioned(dir)
    PROVE  /\ dir[i].version \in Seq(Nat)
           /\ MI!Before(dir, i, j) <=> Lower(dir[i].version, dir[j].version)
           /\ i # j => MI!Before(dir, i, j) \/ MI!Before(dir, j, i)
<1>1. \A k \in MI!Versioned(dir) :
          k \in DOMAIN dir /\ dir[k] \in VersionedFiles(dir) /\ dir[k] \in Files
  BY DEF MI!Versioned, VersionedFiles, Listed
<1>2. \A k \in MI!Versioned(dir) : dir[k].version \in Seq(Nat)
  <2> SUFFICES ASSUME NEW k \in MI!Versioned(dir) PROVE dir[k].version \in Seq(Nat)
    OBVIOUS
  <2> DEFINE v == dir[k].version
  <2>1. v \in Seq(Nat \cup {MI!NaN})
    BY <1>1 DEF Files
  <2>2. MI!NaN \notin {v[n] : n \in DOMAIN v}
    BY <1>1 DEF Clear, Numeric, VersionedFiles
  <2>3. \A n \in 1 .. Len(v) : v[n] \in Nat
    BY <2>1, <2>2
  <2>4. v \in [1 .. Len(v) -> Nat] /\ Len(v) \in Nat
    BY <2>1, <2>3
  <2> QED BY <2>4, SeqDef, SMTT(30)
<1>3. i = j \/ Lower(dir[i].version, dir[j].version) \/ Lower(dir[j].version, dir[i].version)
  BY <1>1 DEF Clear
<1>4. \A a, b \in MI!Versioned(dir) :
          Lower(dir[a].version, dir[b].version) =>
              MI!Before(dir, a, b) /\ ~MI!Before(dir, b, a)
  <2> SUFFICES ASSUME NEW a \in MI!Versioned(dir), NEW b \in MI!Versioned(dir),
                      Lower(dir[a].version, dir[b].version)
               PROVE  MI!Before(dir, a, b) /\ ~MI!Before(dir, b, a)
    OBVIOUS
  <2> DEFINE c == MI!CompareVersions(dir[a].version, dir[b].version)
             d == MI!CompareVersions(dir[b].version, dir[a].version)
  <2>1. c \in Int /\ d \in Int /\ c < 0 /\ d > 0
    BY <1>2, CompareTells
  <2>2. /\ MI!Before(dir, a, b) <=> (c < 0 \/ (c = 0 /\ a < b))
        /\ MI!Before(dir, b, a) <=> (d < 0 \/ (d = 0 /\ b < a))
    BY DEF MI!Before
  <2> HIDE DEF c, d
  <2> QED BY <2>1, <2>2
<1>5. i = j => ~MI!Before(dir, i, j) /\ ~Lower(dir[i].version, dir[j].version)
  <2> SUFFICES ASSUME i = j
               PROVE  ~MI!Before(dir, i, j) /\ ~Lower(dir[i].version, dir[j].version)
    OBVIOUS
  <2> DEFINE v == dir[i].version
  <2>1. v \in Seq(Nat)
    BY <1>2
  <2>2. ~Lower(v, v)
    BY <2>1, LowerIsStrict
  <2>3. MI!Longer(v, v) \in Nat
    BY <2>1 DEF MI!Longer
  <2>4. MI!CompareVersions(v, v) = 0
    <3>1. {k \in 1 .. MI!Longer(v, v) : \/ MI!Part(v, k) = MI!NaN \/ MI!Part(v, k) = MI!NaN
                                        \/ MI!Part(v, k) # MI!Part(v, k)} = {}
      BY <2>1, <2>3, PartIsNumber DEF MI!NaN
    <3> QED BY <3>1 DEF MI!CompareVersions
  <2>5. i \in Nat
    BY <1>1
  <2>6. MI!Before(dir, i, i) <=> (MI!CompareVersions(v, v) < 0
                                   \/ (MI!CompareVersions(v, v) = 0 /\ i < i))
    BY DEF MI!Before
  <2>7. ~MI!Before(dir, i, i)
    BY <2>4, <2>5, <2>6
  <2> QED BY <2>2, <2>7
<1> QED BY <1>2, <1>3, <1>4, <1>5

\* How many files come before one tells them apart, and numbers them from 1.
LEMMA RanksCount ==
    ASSUME NEW dir \in Seq(Files), \A i, j \in DOMAIN dir : dir[i].name = dir[j].name => i = j,
           Clear(dir)
    PROVE  /\ Cardinality(MI!Versioned(dir)) \in Nat
           /\ \A i \in MI!Versioned(dir) : MI!Rank(dir, i) \in 1 .. Cardinality(MI!Versioned(dir))
           /\ \A i, j \in MI!Versioned(dir) :
                  MI!Before(dir, i, j) => MI!Rank(dir, i) < MI!Rank(dir, j)
<1> DEFINE V == MI!Versioned(dir)
           B(i) == {j \in V : MI!Before(dir, j, i)}
<1>1. IsFiniteSet(V) /\ Cardinality(V) \in Nat
  <2>1. IsFiniteSet(1 .. Len(dir))
    BY FS_Interval
  <2>2. V \in SUBSET (1 .. Len(dir))
    BY DEF MI!Versioned
  <2>3. IsFiniteSet(V)
    BY <2>1, <2>2, FS_Subset
  <2> QED BY <2>3, FS_CardinalityType
<1>2. \A i \in V : B(i) \in SUBSET V /\ IsFiniteSet(B(i)) /\ Cardinality(B(i)) \in Nat
                      /\ i \notin B(i)
  <2> SUFFICES ASSUME NEW i \in V
               PROVE  B(i) \in SUBSET V /\ IsFiniteSet(B(i)) /\ Cardinality(B(i)) \in Nat
                      /\ i \notin B(i)
    OBVIOUS
  <2>1. B(i) \in SUBSET V
    OBVIOUS
  <2>2. IsFiniteSet(B(i))
    BY <1>1, <2>1, FS_Subset
  <2>3. Cardinality(B(i)) \in Nat
    BY <2>2, FS_CardinalityType
  <2>4. i \notin B(i)
    <3>1. dir[i].version \in Seq(Nat)
             /\ (MI!Before(dir, i, i) <=> Lower(dir[i].version, dir[i].version))
      BY BeforeIsLower
    <3> QED BY <3>1, LowerIsStrict
  <2> QED BY <2>1, <2>2, <2>3, <2>4
<1>3. \A i \in V : MI!Rank(dir, i) = 1 + Cardinality(B(i))
  BY SameCount DEF MI!Rank
<1>4. \A i \in V : Cardinality(B(i)) < Cardinality(V)
  <2> SUFFICES ASSUME NEW i \in V PROVE Cardinality(B(i)) < Cardinality(V)
    OBVIOUS
  <2>1. Cardinality(B(i)) <= Cardinality(V) /\ Cardinality(V) # Cardinality(B(i))
    BY <1>1, <1>2, FS_Subset
  <2>2. Cardinality(B(i)) \in Nat
    BY <1>2
  <2> HIDE DEF B, V
  <2> QED BY <1>1, <2>1, <2>2
<1>5. ASSUME NEW i \in V, NEW j \in V, MI!Before(dir, i, j)
      PROVE  Cardinality(B(i)) < Cardinality(B(j))
  <2>1. B(i) \in SUBSET B(j)
    <3> SUFFICES ASSUME NEW k \in V, MI!Before(dir, k, i) PROVE MI!Before(dir, k, j)
      OBVIOUS
    <3>1. /\ dir[i].version \in Seq(Nat) /\ dir[j].version \in Seq(Nat)
          /\ dir[k].version \in Seq(Nat)
          /\ Lower(dir[k].version, dir[i].version) /\ Lower(dir[i].version, dir[j].version)
      BY <1>5, BeforeIsLower
    <3>2. Lower(dir[k].version, dir[j].version)
      BY <3>1, LowerTransitive
    <3> QED BY <3>2, BeforeIsLower
  <2>2. i \in B(j) /\ i \notin B(i)
    BY <1>2, <1>5
  <2>3. Cardinality(B(i)) <= Cardinality(B(j)) /\ Cardinality(B(j)) # Cardinality(B(i))
    BY <1>2, <2>1, <2>2, FS_Subset
  <2>4. Cardinality(B(i)) \in Nat /\ Cardinality(B(j)) \in Nat
    BY <1>2
  <2> HIDE DEF B, V
  <2> QED BY <2>3, <2>4
<1> HIDE DEF B, V
<1>6. \A i \in V : MI!Rank(dir, i) \in 1 .. Cardinality(V)
  BY <1>1, <1>2, <1>3, <1>4
<1>7. \A i, j \in V : MI!Before(dir, i, j) => MI!Rank(dir, i) < MI!Rank(dir, j)
  BY <1>2, <1>3, <1>5
<1> QED BY <1>1, <1>6, <1>7 DEF V

\* So every rank is taken, by one file.
LEMMA RanksTaken ==
    ASSUME NEW dir \in Seq(Files), \A i, j \in DOMAIN dir : dir[i].name = dir[j].name => i = j,
           Clear(dir)
    PROVE  /\ {MI!Rank(dir, i) : i \in MI!Versioned(dir)} = 1 .. Cardinality(MI!Versioned(dir))
           /\ \A i, j \in MI!Versioned(dir) : MI!Rank(dir, i) = MI!Rank(dir, j) => i = j
<1> DEFINE V == MI!Versioned(dir)
           n == Cardinality(V)
           f == [i \in V |-> MI!Rank(dir, i)]
<1>1. n \in Nat /\ \A i \in V : MI!Rank(dir, i) \in 1 .. n
  BY RanksCount
<1>2. \A i, j \in V : MI!Rank(dir, i) = MI!Rank(dir, j) => i = j
  <2> SUFFICES ASSUME NEW i \in V, NEW j \in V, MI!Rank(dir, i) = MI!Rank(dir, j), i # j
               PROVE  FALSE
    OBVIOUS
  <2>1. MI!Before(dir, i, j) \/ MI!Before(dir, j, i)
    BY BeforeIsLower
  <2>2. MI!Rank(dir, i) < MI!Rank(dir, j) \/ MI!Rank(dir, j) < MI!Rank(dir, i)
    BY <2>1, RanksCount
  <2>3. MI!Rank(dir, i) \in Int /\ MI!Rank(dir, j) \in Int
    BY <1>1
  <2> QED BY <2>2, <2>3
<1>3. IsFiniteSet(1 .. n) /\ Cardinality(1 .. n) = n
  BY <1>1, FS_Interval
<1>4. f \in Injection(V, 1 .. n)
  BY <1>1, <1>2 DEF Injection, IsInjective
<1>5. f \in Surjection(V, 1 .. n)
  BY <1>3, <1>4, FS_Injection
<1>6. \A r \in 1 .. n : \E i \in V : f[i] = r
  BY <1>5 DEF Surjection
<1>7. {MI!Rank(dir, i) : i \in V} = 1 .. n
  BY <1>1, <1>6
<1> QED BY <1>2, <1>7

\* getMigrations() lists every versioned file, the lower version first.
LEMMA MigrationsListed ==
    ASSUME NEW dir \in Seq(Files), \A i, j \in DOMAIN dir : dir[i].name = dir[j].name => i = j,
           Clear(dir)
    PROVE  LET order == MI!GetMigrations(dir)
           IN  /\ Len(order) \in Nat /\ DOMAIN order = 1 .. Len(order)
               /\ NamesOf(order) = {f.name : f \in VersionedFiles(dir)}
               /\ InOrder(order, dir)
<1> DEFINE V == MI!Versioned(dir)
           n == Cardinality(V)
           AtRank(r) == CHOOSE i \in V : MI!Rank(dir, i) = r
           order == MI!GetMigrations(dir)
<1>1. n \in Nat /\ MI!Cardinality(V) = n
  BY RanksCount, SameCount
<1>2. {MI!Rank(dir, i) : i \in V} = 1 .. n
  BY RanksTaken
<1>3. order = [r \in 1 .. n |-> dir[AtRank(r)].name]
  BY <1>1, <1>2 DEF MI!GetMigrations
<1>4. \A r \in 1 .. n : AtRank(r) \in V /\ MI!Rank(dir, AtRank(r)) = r
  BY <1>2
<1>5. \A i \in V : MI!Rank(dir, i) \in 1 .. n /\ AtRank(MI!Rank(dir, i)) = i
  BY <1>2, <1>4, RanksTaken
<1>6. \A i \in V : i \in DOMAIN dir /\ dir[i] \in VersionedFiles(dir)
  BY DEF MI!Versioned, VersionedFiles, Listed
<1>7. \A f \in VersionedFiles(dir) : \E i \in V : f = dir[i]
  BY DEF MI!Versioned, VersionedFiles, Listed
<1> HIDE DEF AtRank, order, V, n
<1>8. Len(order) = n /\ DOMAIN order = 1 .. n
  BY <1>1, <1>3
<1>9. NamesOf(order) = {f.name : f \in VersionedFiles(dir)}
  <2>1. \A r \in DOMAIN order : order[r] \in {f.name : f \in VersionedFiles(dir)}
    BY <1>3, <1>4, <1>6, <1>8
  <2>2. \A f \in VersionedFiles(dir) : \E r \in DOMAIN order : order[r] = f.name
    BY <1>3, <1>5, <1>7, <1>8
  <2> QED BY <2>1, <2>2 DEF NamesOf
<1>10. InOrder(order, dir)
  <2> SUFFICES ASSUME NEW r \in 1 .. n, NEW s \in 1 .. n,
                      NEW f \in VersionedFiles(dir), NEW g \in VersionedFiles(dir),
                      r < s, order[r] = f.name, order[s] = g.name
               PROVE  Lower(f.version, g.version)
    BY <1>8 DEF InOrder
  <2> DEFINE i == AtRank(r)
             j == AtRank(s)
  <2>1. f = dir[i] /\ g = dir[j]
    BY <1>3, <1>4, <1>6, <1>7
  <2>2. i \in V /\ j \in V /\ MI!Rank(dir, i) < MI!Rank(dir, j) /\ i # j
    BY <1>1, <1>4
  <2>3. ~MI!Before(dir, j, i)
    <3>1. \A a, b \in V : MI!Before(dir, a, b) => MI!Rank(dir, a) < MI!Rank(dir, b)
      BY RanksCount DEF V
    <3>2. MI!Rank(dir, i) = r /\ MI!Rank(dir, j) = s
      BY <1>4
    <3> QED BY <1>1, <2>2, <3>1, <3>2
  <2>4. MI!Before(dir, i, j) /\ (MI!Before(dir, i, j) <=> Lower(dir[i].version, dir[j].version))
    BY <2>2, <2>3, BeforeIsLower DEF V
  <2> QED BY <2>1, <2>4
<1> QED BY <1>1, <1>8, <1>9, <1>10 DEF order

\* What is left of the first N of a list when those done are taken from it.
LeftOf(f, order, done, N) ==
    f = [n \in 0 .. N |-> IF n = 0 THEN <<>> ELSE MI!Leave(f[n - 1], order[n], done)]

LEMMA LeftExists ==
    ASSUME NEW order, NEW done, NEW N \in Nat
    PROVE  \E f : LeftOf(f, order, done, N)
<1> DEFINE S == {n \in 0 .. N : \E f : LeftOf(f, order, done, n)}
<1>1. 0 \in S
  <2>1. LeftOf([n \in 0 .. 0 |-> <<>>], order, done, 0)
    BY DEF LeftOf
  <2> QED BY <2>1
<1>2. ASSUME NEW n \in 1 .. N, n - 1 \in S
      PROVE  n \in S
  <2>1. PICK f : LeftOf(f, order, done, n - 1)
    BY <1>2
  <2> DEFINE g == [m \in 0 .. n |-> IF m = n THEN MI!Leave(f[n - 1], order[n], done) ELSE f[m]]
  <2>2. \A m \in 0 .. n : g[m] = IF m = 0 THEN <<>>
                                 ELSE MI!Leave(g[m - 1], order[m], done)
    BY <2>1 DEF LeftOf
  <2>3. LeftOf(g, order, done, n)
    BY <2>2 DEF LeftOf
  <2> QED BY <2>3
<1> HIDE DEF S
<1>3. 0 .. N \subseteq S
  BY <1>1, <1>2, CountingUp
<1> QED BY <1>3 DEF S

LEMMA PendingIsLast ==
    ASSUME NEW order, NEW done, Len(order) \in Nat
    PROVE  \E f : LeftOf(f, order, done, Len(order)) /\ MI!Pending(order, done) = f[Len(order)]
<1> DEFINE f == CHOOSE f : LeftOf(f, order, done, Len(order))
<1>1. LeftOf(f, order, done, Len(order))
  BY LeftExists
<1>2. MI!Pending(order, done) = f[Len(order)]
  BY Zenon DEF MI!Pending, LeftOf
<1> QED BY <1>1, <1>2

\* The first n of a list: those not done are left, in the order of the list.
Leaves(left, order, done, n) ==
    /\ left \in Seq({order[k] : k \in 1 .. n})
    /\ NamesOf(left) = {order[k] : k \in 1 .. n} \ done
    /\ \A i, j \in DOMAIN left :
           i < j => \E k, m \in 1 .. n : k < m /\ left[i] = order[k] /\ left[j] = order[m]

LEMMA PendingLeaves ==
    ASSUME NEW order, NEW done, Len(order) \in Nat
    PROVE  Leaves(MI!Pending(order, done), order, done, Len(order))
<1>1. PICK f : LeftOf(f, order, done, Len(order))
                  /\ MI!Pending(order, done) = f[Len(order)]
  BY PendingIsLast
<1> DEFINE S == {n \in 0 .. Len(order) : Leaves(f[n], order, done, n)}
<1>2. 0 \in S
  <2>1. f[0] = <<>>
    BY <1>1 DEF LeftOf
  <2>2. Leaves(<<>>, order, done, 0)
    BY DEF Leaves, NamesOf
  <2> QED BY <2>1, <2>2
<1>3. ASSUME NEW n \in 1 .. Len(order), n - 1 \in S
      PROVE  n \in S
  <2> DEFINE left == f[n - 1]
             x == order[n]
             first(m) == {order[k] : k \in 1 .. m}
  <2>1. f[n] = IF x \in done THEN left ELSE Append(left, x)
    <3>1. f[n] = MI!Leave(left, x, done)
      BY <1>1 DEF LeftOf
    <3> QED BY <3>1 DEF MI!Leave
  <2>2. first(n) = first(n - 1) \cup {x}
    OBVIOUS
  <2>3. left \in Seq(first(n))
    <3>1. left \in Seq(first(n - 1))
      BY <1>3 DEF Leaves
    <3>2. first(n - 1) \subseteq first(n)
      BY <2>2
    <3> HIDE DEF left, first
    <3> QED BY <3>1, <3>2, SeqMonotonic
  <2>4. /\ NamesOf(left) = first(n - 1) \ done
        /\ \A i, j \in DOMAIN left :
               i < j => \E k, m \in 1 .. n - 1 : k < m /\ left[i] = order[k] /\ left[j] = order[m]
    BY <1>3 DEF Leaves
  <2>5. CASE x \in done
    <3>1. f[n] = left
      BY <2>1, <2>5
    <3>2. NamesOf(left) = first(n) \ done
      BY <2>2, <2>4, <2>5
    <3>3. \A i, j \in DOMAIN left :
              i < j => \E k, m \in 1 .. n : k < m /\ left[i] = order[k] /\ left[j] = order[m]
      BY <2>4
    <3>4. Leaves(left, order, done, n)
      BY <2>3, <3>2, <3>3 DEF Leaves
    <3> QED BY <3>1, <3>4
  <2>6. CASE x \notin done
    <3> DEFINE now == Append(left, x)
    <3>1. f[n] = now
      BY <2>1, <2>6
    <3>2. /\ now \in Seq(first(n))
          /\ DOMAIN now = DOMAIN left \cup {Len(left) + 1}
          /\ Len(left) \in Nat /\ DOMAIN left = 1 .. Len(left)
          /\ now[Len(left) + 1] = x
          /\ \A i \in DOMAIN left : now[i] = left[i]
      <4>1. x \in first(n)
        BY <2>2
      <4> HIDE DEF left, first, x
      <4> QED BY <2>3, <4>1
    <3>3. NamesOf(now) = first(n) \ done
      <4>1. NamesOf(now) = NamesOf(left) \cup {x}
        <5> HIDE DEF now, left, x
        <5> QED BY <3>2 DEF NamesOf
      <4> QED BY <2>2, <2>4, <2>6, <4>1
    <3>4. ASSUME NEW i \in DOMAIN now, NEW j \in DOMAIN now, i < j
          PROVE  \E k, m \in 1 .. n : k < m /\ now[i] = order[k] /\ now[j] = order[m]
      <4>1. i \in DOMAIN left
        BY <3>2, <3>4
      <4>2. CASE j \in DOMAIN left
        <5>1. PICK k \in 1 .. n - 1, m \in 1 .. n - 1 :
                  k < m /\ left[i] = order[k] /\ left[j] = order[m]
          BY <2>4, <3>4, <4>1, <4>2
        <5>2. now[i] = left[i] /\ now[j] = left[j]
          BY <3>2, <4>1, <4>2
        <5>3. k \in 1 .. n /\ m \in 1 .. n
          OBVIOUS
        <5> HIDE DEF now, left
        <5> QED BY <5>1, <5>2, <5>3
      <4>3. CASE j = Len(left) + 1
        <5>1. left[i] \in first(n - 1)
          BY <2>4, <4>1 DEF NamesOf
        <5>2. PICK k \in 1 .. n - 1 : left[i] = order[k]
          BY <5>1
        <5> QED BY <3>2, <4>1, <4>3, <5>2
      <4> QED BY <3>2, <4>2, <4>3
    <3>5. Leaves(now, order, done, n)
      <4> HIDE DEF now
      <4> QED BY <3>2, <3>3, <3>4 DEF Leaves
    <3>6. Leaves(f[n], order, done, n)
      BY <3>1, <3>5, Zenon
    <3> QED BY <3>6
  <2> QED BY <2>5, <2>6
<1> HIDE DEF S
<1>4. 0 .. Len(order) \subseteq S
  BY <1>2, <1>3, CountingUp
<1> QED BY <1>1, <1>4 DEF S

\* What runs of a directory with clear versions: each file that did not run before, the
\* lower version first.
LEMMA MigratesInOrder ==
    ASSUME NEW dir \in Seq(Files), \A i, j \in DOMAIN dir : dir[i].name = dir[j].name => i = j,
           Clear(dir), NEW done
    PROVE  LET order == MI!GetMigrations(dir)
               run == MI!Pending(order, done)
               all == {f.name : f \in VersionedFiles(dir)}
           IN  NamesOf(order) = all /\ NamesOf(run) = all \ done /\ InOrder(run, dir)
<1> DEFINE order == MI!GetMigrations(dir)
           run == MI!Pending(order, done)
           all == {f.name : f \in VersionedFiles(dir)}
<1>1. /\ Len(order) \in Nat /\ DOMAIN order = 1 .. Len(order)
      /\ NamesOf(order) = all
      /\ InOrder(order, dir)
  BY MigrationsListed
<1>2. Leaves(run, order, done, Len(order))
  BY <1>1, PendingLeaves
<1>3. NamesOf(run) = all \ done
  BY <1>1, <1>2 DEF Leaves, NamesOf
<1>4. InOrder(run, dir)
  <2> SUFFICES ASSUME NEW i \in DOMAIN run, NEW j \in DOMAIN run,
                      NEW f \in VersionedFiles(dir), NEW g \in VersionedFiles(dir),
                      i < j, run[i] = f.name, run[j] = g.name
               PROVE  Lower(f.version, g.version)
    BY DEF InOrder
  <2>1. PICK k \in 1 .. Len(order), m \in 1 .. Len(order) :
            k < m /\ run[i] = order[k] /\ run[j] = order[m]
    BY <1>2 DEF Leaves
  <2> QED BY <1>1, <2>1 DEF InOrder
<1> QED BY <1>1, <1>3, <1>4

\* Where the versions of a directory are numbers and differ, every versioned file that
\* did not run before runs, once, and none after a file of a higher version; or nothing
\* runs, where one that ran before is gone.
THEOREM MigrationsInOrderAlways == Spec => []MigrationsInOrder
<1>1. Init => MigrationsInOrder
  BY NothingReturned, Zenon DEF MigrationsInOrder
<1>2. call \in Calls /\ MigrationsInOrder /\ [Next]_<<call, result>> => MigrationsInOrder'
  <2> SUFFICES ASSUME call \in Calls, MigrationsInOrder, [Next]_<<call, result>>
               PROVE  MigrationsInOrder'
    OBVIOUS
  <2>1. CASE Migrate
    <3> DEFINE order == MI!GetMigrations(call.dir)
               all == {f.name : f \in VersionedFiles(call.dir)}
               Gone == \E name \in call.done : name \notin all
    <3>1. /\ call' = call /\ call.fn = "migrate"
          /\ result' = MI!Latest(call.dir, call.done)
      BY <2>1 DEF Migrate, Returns
    <3>2. call.dir \in Seq(Files)
             /\ \A i, j \in DOMAIN call.dir : call.dir[i].name = call.dir[j].name => i = j
      BY <3>1, CallsAssumption DEF CallsAssumption, MigrateCall
    <3>3. Gone <=> \E name \in call.done : \A i \in MI!Versioned(call.dir) : call.dir[i].name # name
      BY DEF VersionedFiles, Listed, MI!Versioned
    <3>4. result' = IF Gone THEN [error |-> "missing"]
                    ELSE [order |-> order, run |-> MI!Pending(order, call.done)]
      BY <3>1, <3>3 DEF MI!Latest
    <3>5. CASE Gone
      <4>1. Failed(result')
        BY <3>4, <3>5 DEF Failed
      <4> QED BY <3>1, <3>5, <4>1 DEF MigrationsInOrder, Failed
    <3>6. CASE ~Gone
      <4>1. /\ ~Failed(result')
            /\ result'.order = order /\ result'.run = MI!Pending(order, call.done)
        BY <3>4, <3>6 DEF Failed
      <4> HIDE DEF order, all
      <4>2. Clear(call.dir) =>
                NamesOf(result'.order) = all /\ NamesOf(result'.run) = all \ call.done
                    /\ InOrder(result'.run, call.dir)
        BY <3>2, <4>1, MigratesInOrder DEF order, all
      <4> USE DEF all
      <4> QED BY <3>1, <3>6, <4>1, <4>2, Zenon DEF MigrationsInOrder, Failed
    <3> QED BY <3>5, <3>6
  <2>2. CASE Read \/ Scan \/ Bind \/ Configure \/ Use
    BY <2>2 DEF Read, Scan, Bind, Configure, Use, Returns, Returned, MigrationsInOrder
  <2>3. CASE UNCHANGED <<call, result>>
    BY <2>3, Zenon DEF MigrationsInOrder, Returned, Running
  <2> QED BY <2>1, <2>2, <2>3 DEF Next
<1> QED BY <1>1, <1>2, CallsStay, PTL DEF Spec

-----------------------------------------------------------------------------
(***************************************************************************)
(* The topics' handlers.  The claims are taken in the order of the names   *)
(* and, of one handler, in the order of its topics: Found says what has    *)
(* been found with the first i topics of name n, and all of those before.  *)
(***************************************************************************)
Claims(m, j, t) == m \in Handlers /\ j \in DOMAIN TopicsOf(m) /\ TopicsOf(m)[j] = t

Taken(m, j, n, i) == m < n \/ (m = n /\ j <= i)

\* Nothing that fails has been met.
NoneBad(n) ==
    /\ \A t \in DOMAIN call.handlers : ~NoHandler(call.handlers[t])
    /\ \A m \in call.matching \cap DOMAIN call.container :
           m < n => call.container[m].is # "broken"

\* What is bound is what the map has and what was claimed.
AllBound(bound, n, i) ==
    \A t : t \in DOMAIN bound <=>
              \/ t \in DOMAIN call.handlers
              \/ \E m, j : Claims(m, j, t) /\ Taken(m, j, n, i)

MapWins(bound) == \A t \in DOMAIN call.handlers : bound[t] = Explicitly(call.handlers[t])

\* A topic that is not in the map has the one that claims it.
OnlyClaim(bound, n, i, t, m, j) ==
    /\ Claims(m, j, t)
    /\ bound[t] = [name |-> m, source |-> "convention"]
    /\ \A m2, j2 : Claims(m2, j2, t) /\ Taken(m2, j2, n, i) => m2 = m /\ j2 = j

BoundOnce(bound, n, i) ==
    \A t \in DOMAIN bound \ DOMAIN call.handlers : \E m, j : OnlyClaim(bound, n, i, t, m, j)

Found(r, n, i) ==
    IF Failed(r)
    THEN Unbindable
    ELSE /\ NoneBad(n) /\ AllBound(r.bound, n, i)
         /\ MapWins(r.bound) /\ BoundOnce(r.bound, n, i)

\* The names and the topics of a handler are numbered from 1.
LEMMA HandlersNumbered ==
    ASSUME BindCall(call)
    PROVE  /\ Len(call.container) \in Nat /\ DOMAIN call.container = 1 .. Len(call.container)
           /\ \A m \in Handlers :
                  /\ m \in 1 .. Len(call.container) /\ m \in call.matching
                  /\ call.container[m].is = "handler"
                  /\ Len(TopicsOf(m)) \in Nat /\ DOMAIN TopicsOf(m) = 1 .. Len(TopicsOf(m))
<1>1. Len(call.container) \in Nat /\ DOMAIN call.container = 1 .. Len(call.container)
  BY DEF BindCall
<1>2. ASSUME NEW m \in Handlers
      PROVE  /\ m \in DOMAIN call.container /\ m \in call.matching
             /\ call.container[m].is = "handler"
             /\ Len(TopicsOf(m)) \in Nat /\ DOMAIN TopicsOf(m) = 1 .. Len(TopicsOf(m))
  <2>1. m \in DOMAIN call.container /\ m \in call.matching /\ call.container[m].is = "handler"
    BY DEF Handlers
  <2>2. TopicsOf(m) \in Seq(STRING)
    BY <2>1 DEF BindCall, TopicsOf
  <2> QED BY <2>1, <2>2
<1> QED BY <1>1, <1>2

\* The explicit map comes first; what it names wrongly fails.
LEMMA ExplicitFound ==
    ASSUME BindCall(call)
    PROVE  Found(BI!ExplicitBindings(call.handlers, call.container), 1, 0)
<1> DEFINE fn(t) == BI!BindingToFn(call.handlers[t], call.container)
           fns == [t \in DOMAIN call.handlers |-> fn(t)]
           r == BI!ExplicitBindings(call.handlers, call.container)
<1>1. ASSUME NEW t \in DOMAIN call.handlers
      PROVE  /\ BI!Failed(fn(t)) <=> NoHandler(call.handlers[t])
             /\ ~BI!Failed(fn(t)) =>
                    fn(t).name = IF call.handlers[t].is = "inline" THEN 0
                                 ELSE call.handlers[t].name
  <2>1. call.handlers[t].is \in {"inline", "object", "name"}
    BY DEF BindCall
  <2>2. \A why : BI!Failed(BI!Failure(why))
    BY DEF BI!Failed, BI!Failure
  <2>3. \A name : ~BI!Failed([name |-> name])
    BY DEF BI!Failed
  <2> QED BY <2>1, <2>2, <2>3 DEF BI!BindingToFn, NoHandler
<1>2. CASE \E t \in DOMAIN fns : BI!Failed(fns[t])
  <2>1. r = BI!Failure("explicit")
    BY <1>2 DEF BI!ExplicitBindings
  <2>2. Failed(r)
    BY <2>1 DEF BI!Failure, Failed
  <2>3. \E t \in DOMAIN call.handlers : NoHandler(call.handlers[t])
    BY <1>1, <1>2
  <2>4. Unbindable
    BY <2>3 DEF Unbindable
  <2> QED BY <2>2, <2>4, Zenon DEF Found
<1>3. CASE ~ \E t \in DOMAIN fns : BI!Failed(fns[t])
  <2> DEFINE bound == [t \in DOMAIN call.handlers |->
                          [name |-> fns[t].name, source |-> "explicit"]]
  <2>1. r = [bound |-> bound]
    BY <1>3 DEF BI!ExplicitBindings
  <2>2. \A t \in DOMAIN call.handlers : ~NoHandler(call.handlers[t])
    BY <1>1, <1>3
  <2>3. MapWins(bound)
    BY <1>1, <1>3 DEF Explicitly, MapWins
  <2>4. NoneBad(1)
    BY <2>2, HandlersNumbered DEF NoneBad
  <2>5. \A m, j, t : Claims(m, j, t) => ~Taken(m, j, 1, 0)
    BY HandlersNumbered DEF Taken, Claims
  <2>6. ~Failed(r) /\ r.bound = bound /\ DOMAIN bound = DOMAIN call.handlers
    BY <2>1 DEF Failed
  <2> HIDE DEF bound
  <2>7. AllBound(bound, 1, 0) /\ BoundOnce(bound, 1, 0)
    BY <2>5, <2>6, Zenon DEF AllBound, BoundOnce
  <2> QED BY <2>3, <2>4, <2>6, <2>7, Zenon DEF Found
<1> QED BY <1>2, <1>3

\* Where a name claims nothing that is left to take, nothing new is found with it.
LEMMA NothingFound ==
    ASSUME BindCall(call), NEW n \in 1 .. Len(call.container), NEW i \in Nat, NEW r,
           Found(r, n, i),
           n \in call.matching => call.container[n].is # "broken",
           n \in Handlers => \A j \in DOMAIN TopicsOf(n) : j <= i
    PROVE  Found(r, n + 1, 0)
<1>1. \A m, j, t : Claims(m, j, t) => (Taken(m, j, n + 1, 0) <=> Taken(m, j, n, i))
  BY HandlersNumbered DEF Taken, Claims
<1>2. \A m \in call.matching \cap DOMAIN call.container :
          m < n + 1 => m < n \/ (m = n /\ call.container[m].is # "broken")
  BY HandlersNumbered
<1>3. CASE Failed(r)
  BY <1>3, Zenon DEF Found
<1>4. CASE ~Failed(r)
  <2>1. NoneBad(n) /\ AllBound(r.bound, n, i) /\ MapWins(r.bound) /\ BoundOnce(r.bound, n, i)
    BY <1>4, Zenon DEF Found
  <2>2. NoneBad(n + 1)
    BY <1>2, <2>1, Zenon DEF NoneBad
  <2>3. AllBound(r.bound, n + 1, 0)
    BY <1>1, <2>1, Zenon DEF AllBound
  <2>4. ASSUME NEW t \in DOMAIN r.bound \ DOMAIN call.handlers
        PROVE  \E m, j : OnlyClaim(r.bound, n + 1, 0, t, m, j)
    <3>1. PICK m, j : OnlyClaim(r.bound, n, i, t, m, j)
      BY <2>1, Zenon DEF BoundOnce
    <3>2. OnlyClaim(r.bound, n + 1, 0, t, m, j)
      BY <1>1, <3>1, Zenon DEF OnlyClaim
    <3> QED BY <3>2, Zenon
  <2>5. BoundOnce(r.bound, n + 1, 0)
    BY <2>4, Zenon DEF BoundOnce
  <2> QED BY <1>4, <2>1, <2>2, <2>3, <2>5, Zenon DEF Found
<1> QED BY <1>3, <1>4

\* One topic of one handler: it is bound, or was already claimed, or the map has it.
LEMMA ClaimFound ==
    ASSUME BindCall(call), NEW n \in Handlers, NEW i \in DOMAIN TopicsOf(n), NEW r,
           Found(r, n, i - 1)
    PROVE  Found(BI!Claim(r, TopicsOf(n)[i], n), n, i)
<1> DEFINE topic == TopicsOf(n)[i]
           next == BI!Claim(r, topic, n)
<1>1. n \in Nat /\ i \in Nat
  BY HandlersNumbered
<1>2. Claims(n, i, topic) /\ topic \in ClaimedTopics
  BY DEF Claims, ClaimedTopics
<1>3. \A m, j, t : Claims(m, j, t) =>
          (Taken(m, j, n, i) <=> Taken(m, j, n, i - 1) \/ (m = n /\ j = i))
  BY <1>1, HandlersNumbered DEF Taken, Claims
<1>4. ~Taken(n, i, n, i - 1) /\ Taken(n, i, n, i)
  BY <1>1 DEF Taken
<1>5. \A t : Claims(n, i, t) => t = topic
  BY DEF Claims
<1>6. CASE Failed(r)
  <2>1. next = r
    BY <1>6 DEF BI!Claim, BI!Failed, Failed
  <2> QED BY <1>6, <2>1, Zenon DEF Found
<1>7. ASSUME ~Failed(r)
      PROVE  /\ NoneBad(n) /\ AllBound(r.bound, n, i - 1)
             /\ MapWins(r.bound) /\ BoundOnce(r.bound, n, i - 1)
  BY <1>7, Zenon DEF Found
<1>8. CASE ~Failed(r) /\ topic \in DOMAIN call.handlers
  <2>1. topic \in DOMAIN r.bound
    BY <1>7, <1>8, Zenon DEF AllBound
  <2>2. r.bound[topic] = Explicitly(call.handlers[topic])
    BY <1>7, <1>8, Zenon DEF MapWins
  <2>3. r.bound[topic].source = "explicit"
    BY <2>2 DEF Explicitly
  <2>4. next = r
    BY <1>8, <2>1, <2>3 DEF BI!Claim, BI!Failed, Failed
  <2>5. AllBound(r.bound, n, i)
    BY <1>3, <1>5, <1>7, <1>8, Zenon DEF AllBound
  <2>6. ASSUME NEW t \in DOMAIN r.bound \ DOMAIN call.handlers
        PROVE  \E m, j : OnlyClaim(r.bound, n, i, t, m, j)
    <3>1. PICK m, j : OnlyClaim(r.bound, n, i - 1, t, m, j)
      BY <1>7, <1>8, Zenon DEF BoundOnce
    <3>2. t # topic
      BY <1>8
    <3>3. OnlyClaim(r.bound, n, i, t, m, j)
      BY <1>3, <1>5, <3>1, <3>2, Zenon DEF OnlyClaim
    <3> QED BY <3>3, Zenon
  <2>7. BoundOnce(r.bound, n, i)
    BY <2>6, Zenon DEF BoundOnce
  <2>8. Found(r, n, i)
    BY <1>7, <1>8, <2>5, <2>7, Zenon DEF Found
  <2> QED BY <2>4, <2>8, Zenon
<1>9. CASE ~Failed(r) /\ topic \notin DOMAIN call.handlers /\ topic \in DOMAIN r.bound
  <2>1. PICK m, j : Claims(m, j, topic) /\ Taken(m, j, n, i - 1)
    BY <1>7, <1>9, Zenon DEF AllBound
  <2>2. \E m2, j2 : OnlyClaim(r.bound, n, i - 1, topic, m2, j2)
    <3>1. topic \in DOMAIN r.bound \ DOMAIN call.handlers
      BY <1>9
    <3> QED BY <1>7, <1>9, <3>1, Zenon DEF BoundOnce
  <2>3. r.bound[topic].source = "convention"
    BY <2>2 DEF OnlyClaim
  <2>4. Contested(topic)
    <3>1. <<m, j>> # <<n, i>>
      BY <1>4, <2>1
    <3>2. /\ m \in Handlers /\ j \in DOMAIN TopicsOf(m) /\ TopicsOf(m)[j] = topic
      BY <2>1, Zenon DEF Claims
    <3> HIDE DEF topic
    <3>3. n \in Handlers /\ i \in DOMAIN TopicsOf(n) /\ TopicsOf(n)[i] = topic
      BY Zenon DEF topic
    <3> QED BY <3>1, <3>2, <3>3, Zenon DEF Contested
  <2>5. Unbindable
    <3>1. topic \in ClaimedTopics \ DOMAIN call.handlers
      BY <1>2, <1>9
    <3> QED BY <2>4, <3>1, Zenon DEF Unbindable
  <2>6. next = BI!Failure("two handlers")
    BY <1>9, <2>3 DEF BI!Claim, BI!Failed, Failed
  <2>7. Failed(BI!Failure("two handlers"))
    BY DEF BI!Failure, Failed
  <2>8. Failed(next)
    BY <2>6, <2>7, Zenon
  <2> QED BY <2>5, <2>8, Zenon DEF Found
<1>10. CASE ~Failed(r) /\ topic \notin DOMAIN r.bound
  <2> DEFINE value == [name |-> n, source |-> "convention"]
             bound == BI!Extend(r.bound, topic, value)
  <2>1. next = [bound |-> bound]
    BY <1>10 DEF BI!Claim, BI!Failed, Failed
  <2>2. ~Failed(next) /\ next.bound = bound
    BY <2>1 DEF Failed
  <2>3. /\ DOMAIN bound = DOMAIN r.bound \cup {topic}
        /\ bound[topic] = value
        /\ \A t \in DOMAIN r.bound : bound[t] = r.bound[t]
    BY <1>10 DEF BI!Extend
  <2> HIDE DEF value, bound
  <2>4. AllBound(bound, n, i)
    <3> SUFFICES ASSUME NEW t
                 PROVE  t \in DOMAIN bound <=>
                           \/ t \in DOMAIN call.handlers
                           \/ \E m, j : Claims(m, j, t) /\ Taken(m, j, n, i)
      BY Zenon DEF AllBound
    <3>1. t \in DOMAIN bound <=> t \in DOMAIN r.bound \/ t = topic
      BY <2>3
    <3>2. t \in DOMAIN r.bound <=>
              \/ t \in DOMAIN call.handlers
              \/ \E m, j : Claims(m, j, t) /\ Taken(m, j, n, i - 1)
      BY <1>7, <1>10, Zenon DEF AllBound
    <3> HIDE DEF topic
    <3> QED BY <1>2, <1>3, <1>4, <1>5, <3>1, <3>2, Zenon
  <2>5. MapWins(bound)
    BY <1>7, <1>10, <2>3, Zenon DEF MapWins, AllBound
  <2>6. ASSUME NEW t \in DOMAIN bound \ DOMAIN call.handlers
        PROVE  \E m, j : OnlyClaim(bound, n, i, t, m, j)
    <3>1. CASE t = topic
      <4>1. ASSUME NEW m2, NEW j2, Claims(m2, j2, t), Taken(m2, j2, n, i)
            PROVE  m2 = n /\ j2 = i
        <5>1. ~Taken(m2, j2, n, i - 1)
          BY <1>7, <1>10, <3>1, <4>1, Zenon DEF AllBound
        <5> QED BY <1>3, <4>1, <5>1, Zenon
      <4>2. bound[t] = value /\ Claims(n, i, t)
        BY <1>2, <2>3, <3>1, Zenon
      <4>3. OnlyClaim(bound, n, i, t, n, i)
        BY <4>1, <4>2, Zenon DEF OnlyClaim, value
      <4> QED BY <4>3, Zenon
    <3>2. CASE t # topic
      <4>1. t \in DOMAIN r.bound \ DOMAIN call.handlers /\ bound[t] = r.bound[t]
        BY <2>3, <3>2
      <4>2. PICK m, j : OnlyClaim(r.bound, n, i - 1, t, m, j)
        BY <1>7, <1>10, <4>1, Zenon DEF BoundOnce
      <4>3. OnlyClaim(bound, n, i, t, m, j)
        BY <1>3, <1>5, <3>2, <4>1, <4>2, Zenon DEF OnlyClaim
      <4> QED BY <4>3, Zenon
    <3> QED BY <3>1, <3>2
  <2>7. BoundOnce(bound, n, i)
    BY <2>6, Zenon DEF BoundOnce
  <2>8. NoneBad(n)
    BY <1>7, <1>10
  <2> QED BY <2>2, <2>4, <2>5, <2>7, <2>8, Zenon DEF Found
<1> QED BY <1>6, <1>8, <1>9, <1>10

\* What is found with each topic of a handler, and before the first.
WithTopics(f, r, topics, name, N) ==
    f = [i \in 0 .. N |-> IF i = 0 THEN r ELSE BI!Claim(f[i - 1], topics[i], name)]

LEMMA WithTopicsExists ==
    ASSUME NEW r, NEW topics, NEW name, NEW N \in Nat
    PROVE  \E f : WithTopics(f, r, topics, name, N)
<1> DEFINE S == {i \in 0 .. N : \E f : WithTopics(f, r, topics, name, i)}
<1>1. 0 \in S
  <2>1. WithTopics([i \in 0 .. 0 |-> r], r, topics, name, 0)
    BY DEF WithTopics
  <2> QED BY <2>1
<1>2. ASSUME NEW i \in 1 .. N, i - 1 \in S
      PROVE  i \in S
  <2>1. PICK f : WithTopics(f, r, topics, name, i - 1)
    BY <1>2
  <2> DEFINE g == [m \in 0 .. i |-> IF m = i THEN BI!Claim(f[i - 1], topics[i], name)
                                    ELSE f[m]]
  <2>2. \A m \in 0 .. i : g[m] = IF m = 0 THEN r ELSE BI!Claim(g[m - 1], topics[m], name)
    BY <2>1 DEF WithTopics
  <2>3. WithTopics(g, r, topics, name, i)
    BY <2>2 DEF WithTopics
  <2> QED BY <2>3
<1> HIDE DEF S
<1>3. 0 .. N \subseteq S
  BY <1>1, <1>2, CountingUp
<1> QED BY <1>3 DEF S

\* A handler's topics are taken one by one.
LEMMA HandlerFound ==
    ASSUME BindCall(call), NEW n \in Handlers, TopicsOf(n) # <<>>, NEW r, Found(r, n, 0), ~Failed(r)
    PROVE  Found(BI!Discover(r, n, call.container), n, Len(TopicsOf(n)))
<1> DEFINE topics == TopicsOf(n)
           f == CHOOSE f : WithTopics(f, r, topics, n, Len(topics))
<1>1. Len(topics) \in Nat /\ DOMAIN topics = 1 .. Len(topics)
      /\ call.container[n].is = "handler"
  BY HandlersNumbered
<1>2. WithTopics(f, r, topics, n, Len(topics))
  BY <1>1, WithTopicsExists
<1>3. BI!Discover(r, n, call.container) = f[Len(topics)]
  <2>1. ~BI!Failed(r) /\ call.container[n].is # "broken"
           /\ BI!IsEventHandler(call.container[n])
    BY <1>1 DEF BI!Failed, Failed, BI!IsEventHandler, TopicsOf
  <2> QED BY <2>1, Zenon DEF BI!Discover, WithTopics, TopicsOf
<1> HIDE DEF f
<1> DEFINE S == {i \in 0 .. Len(topics) : Found(f[i], n, i)}
<1>4. 0 \in S
  <2>1. f[0] = r
    BY <1>1, <1>2 DEF WithTopics
  <2> QED BY <1>1, <2>1
<1>5. ASSUME NEW i \in 1 .. Len(topics), i - 1 \in S
      PROVE  i \in S
  <2>1. f[i] = BI!Claim(f[i - 1], topics[i], n)
    BY <1>1, <1>2 DEF WithTopics
  <2>2. Found(f[i - 1], n, i - 1)
    BY <1>5
  <2>3. Found(f[i], n, i)
    BY <1>1, <2>1, <2>2, ClaimFound
  <2> QED BY <2>3
<1> HIDE DEF S
<1>6. 0 .. Len(topics) \subseteq S
  BY <1>1, <1>4, <1>5, CountingUp
<1> QED BY <1>1, <1>3, <1>6 DEF S

\* So each name that matches is taken, and one that resolves to no handler is passed.
LEMMA DiscoverFound ==
    ASSUME BindCall(call), NEW n \in 1 .. Len(call.container), n \in call.matching, NEW r,
           Found(r, n, 0)
    PROVE  Found(BI!Discover(r, n, call.container), n + 1, 0)
<1> DEFINE next == BI!Discover(r, n, call.container)
<1>1. n \in DOMAIN call.container /\ n \in Nat
  BY HandlersNumbered
<1>2. CASE Failed(r)
  <2>1. next = r
    BY <1>2 DEF BI!Discover, BI!Failed, Failed
  <2> QED BY <1>2, <2>1, Zenon DEF Found
<1>3. CASE ~Failed(r) /\ call.container[n].is = "broken"
  <2>1. next = BI!Failure("cannot resolve")
    BY <1>3 DEF BI!Discover, BI!Failed, Failed
  <2>2. Failed(BI!Failure("cannot resolve"))
    BY DEF BI!Failure, Failed
  <2>3. Unbindable
    BY <1>1, <1>3 DEF Unbindable
  <2> QED BY <2>1, <2>2, <2>3, Zenon DEF Found
<1>4. CASE /\ ~Failed(r) /\ call.container[n].is # "broken"
           /\ ~BI!IsEventHandler(call.container[n])
  <2>1. next = r
    BY <1>4, Zenon DEF BI!Discover, BI!Failed, Failed
  <2>2. n \in Handlers => \A j \in DOMAIN TopicsOf(n) : j <= 0
    BY <1>4 DEF BI!IsEventHandler, Handlers, TopicsOf
  <2>3. Found(r, n + 1, 0)
    BY <1>4, <2>2, NothingFound
  <2> QED BY <2>1, <2>3, Zenon
<1>5. CASE ~Failed(r) /\ BI!IsEventHandler(call.container[n])
  <2>1. n \in Handlers /\ TopicsOf(n) # <<>> /\ call.container[n].is # "broken"
    BY <1>1, <1>5 DEF BI!IsEventHandler, Handlers, TopicsOf
  <2>2. Found(next, n, Len(TopicsOf(n)))
    BY <1>5, <2>1, HandlerFound
  <2>3. Len(TopicsOf(n)) \in Nat /\ \A j \in DOMAIN TopicsOf(n) : j <= Len(TopicsOf(n))
    BY <2>1, HandlersNumbered
  <2> QED BY <2>1, <2>2, <2>3, NothingFound
<1> QED BY <1>2, <1>3, <1>4, <1>5

\* What is found with each name, and before the first.
WithNames(f, N) ==
    f = [n \in 0 .. N |->
            IF n = 0 THEN BI!ExplicitBindings(call.handlers, call.container)
            ELSE IF n \in call.matching THEN BI!Discover(f[n - 1], n, call.container)
            ELSE f[n - 1]]

LEMMA WithNamesExists ==
    ASSUME NEW N \in Nat
    PROVE  \E f : WithNames(f, N)
<1> DEFINE S == {n \in 0 .. N : \E f : WithNames(f, n)}
           Turn(r, n) == IF n \in call.matching THEN BI!Discover(r, n, call.container) ELSE r
<1>1. 0 \in S
  <2>1. WithNames([n \in 0 .. 0 |-> BI!ExplicitBindings(call.handlers, call.container)], 0)
    BY DEF WithNames
  <2> QED BY <2>1
<1>2. ASSUME NEW n \in 1 .. N, n - 1 \in S
      PROVE  n \in S
  <2>1. PICK f : WithNames(f, n - 1)
    BY <1>2
  <2> DEFINE g == [m \in 0 .. n |-> IF m = n THEN Turn(f[n - 1], n) ELSE f[m]]
  <2>2. \A m \in 0 .. n :
            g[m] = IF m = 0 THEN BI!ExplicitBindings(call.handlers, call.container)
                   ELSE IF m \in call.matching THEN BI!Discover(g[m - 1], m, call.container)
                   ELSE g[m - 1]
    BY <2>1 DEF WithNames
  <2>3. WithNames(g, n)
    BY <2>2 DEF WithNames
  <2> QED BY <2>3
<1> HIDE DEF S
<1>3. 0 .. N \subseteq S
  BY <1>1, <1>2, CountingUp
<1> QED BY <1>3 DEF S

LEMMA AllFound ==
    ASSUME BindCall(call)
    PROVE  Found(BI!DiscoverAll(call.handlers, call.container, call.matching),
                 Len(call.container) + 1, 0)
<1> DEFINE N == Len(call.container)
           f == CHOOSE f : WithNames(f, N)
<1>1. N \in Nat
  BY HandlersNumbered
<1>2. WithNames(f, N)
  BY <1>1, WithNamesExists
<1>3. BI!DiscoverAll(call.handlers, call.container, call.matching) = f[N]
  BY Zenon DEF BI!DiscoverAll, WithNames
<1> HIDE DEF f
<1> DEFINE S == {n \in 0 .. N : Found(f[n], n + 1, 0)}
<1>4. 0 \in S
  <2>1. f[0] = BI!ExplicitBindings(call.handlers, call.container)
    BY <1>1, <1>2 DEF WithNames
  <2> QED BY <1>1, <2>1, ExplicitFound
<1>5. ASSUME NEW n \in 1 .. N, n - 1 \in S
      PROVE  n \in S
  <2>1. f[n] = IF n \in call.matching THEN BI!Discover(f[n - 1], n, call.container)
               ELSE f[n - 1]
    BY <1>1, <1>2 DEF WithNames
  <2>2. Found(f[n - 1], n, 0)
    <3>1. n - 1 + 1 = n
      BY <1>1
    <3> QED BY <1>5, <3>1
  <2>3. CASE n \in call.matching
    BY <1>1, <2>1, <2>2, <2>3, DiscoverFound
  <2>4. CASE n \notin call.matching
    <3>1. n \notin Handlers
      BY <2>4 DEF Handlers
    <3>2. Found(f[n - 1], n + 1, 0)
      BY <1>1, <2>2, <2>4, <3>1, NothingFound
    <3> QED BY <2>1, <2>4, <3>2
  <2> QED BY <2>3, <2>4
<1> HIDE DEF S
<1>6. 0 .. N \subseteq S
  BY <1>1, <1>4, <1>5, CountingUp
<1> QED BY <1>1, <1>3, <1>6 DEF S

\* What is found with all names, in the words of the property.
LEMMA FoundIsUnambiguous ==
    ASSUME BindCall(call), NEW r, ~Failed(r), Found(r, Len(call.container) + 1, 0)
    PROVE  /\ ~Unbindable
           /\ DOMAIN r.bound = DOMAIN call.handlers \cup ClaimedTopics
           /\ \A t \in DOMAIN call.handlers : r.bound[t] = Explicitly(call.handlers[t])
           /\ \A t \in ClaimedTopics \ DOMAIN call.handlers :
                  /\ r.bound[t].name \in Handlers
                  /\ \E i \in DOMAIN TopicsOf(r.bound[t].name) :
                        TopicsOf(r.bound[t].name)[i] = t
<1> DEFINE N == Len(call.container)
<1>1. /\ NoneBad(N + 1) /\ AllBound(r.bound, N + 1, 0)
      /\ MapWins(r.bound) /\ BoundOnce(r.bound, N + 1, 0)
  BY Zenon DEF Found
<1>2. \A m, j, t : Claims(m, j, t) => Taken(m, j, N + 1, 0)
  BY HandlersNumbered DEF Taken, Claims
<1>3. \A t : t \in ClaimedTopics <=> \E m, j : Claims(m, j, t)
  BY DEF ClaimedTopics, Claims
<1>4. \A t : t \in DOMAIN r.bound <=> t \in DOMAIN call.handlers \/ t \in ClaimedTopics
  BY <1>1, <1>2, <1>3, Zenon DEF AllBound
<1>5. DOMAIN r.bound = DOMAIN call.handlers \cup ClaimedTopics
  BY <1>4
<1>6. ASSUME NEW t \in ClaimedTopics \ DOMAIN call.handlers
      PROVE  \E m, j : OnlyClaim(r.bound, N + 1, 0, t, m, j)
  BY <1>1, <1>4, <1>6, Zenon DEF BoundOnce
<1>7. ASSUME NEW t \in ClaimedTopics \ DOMAIN call.handlers
      PROVE  /\ ~Contested(t)
             /\ r.bound[t].name \in Handlers
             /\ \E i \in DOMAIN TopicsOf(r.bound[t].name) : TopicsOf(r.bound[t].name)[i] = t
  <2>1. PICK m, j : OnlyClaim(r.bound, N + 1, 0, t, m, j)
    BY <1>6
  <2>2. r.bound[t].name = m
    BY <2>1 DEF OnlyClaim
  <2>3. m \in Handlers /\ j \in DOMAIN TopicsOf(m) /\ TopicsOf(m)[j] = t
    BY <2>1, Zenon DEF OnlyClaim, Claims
  <2>4. \A m2, j2 : Claims(m2, j2, t) => m2 = m /\ j2 = j
    BY <1>2, <2>1, Zenon DEF OnlyClaim
  <2>5. ~Contested(t)
    <3> SUFFICES ASSUME NEW n1 \in Handlers, NEW n2 \in Handlers,
                        NEW i1 \in DOMAIN TopicsOf(n1), NEW i2 \in DOMAIN TopicsOf(n2),
                        <<n1, i1>> # <<n2, i2>>,
                        TopicsOf(n1)[i1] = t, TopicsOf(n2)[i2] = t
                 PROVE  FALSE
      BY Zenon DEF Contested
    <3>1. Claims(n1, i1, t) /\ Claims(n2, i2, t)
      BY Zenon DEF Claims
    <3>2. n1 = m /\ i1 = j /\ n2 = m /\ i2 = j
      BY <2>4, <3>1, Zenon
    <3> QED BY <3>2
  <2> QED BY <2>2, <2>3, <2>5
<1>8. \A m \in call.matching \cap DOMAIN call.container : m < N + 1
  BY HandlersNumbered
<1>9. ~Unbindable
  BY <1>1, <1>7, <1>8, Zenon DEF Unbindable, NoneBad
<1> QED BY <1>1, <1>5, <1>7, <1>9, Zenon DEF MapWins

\* The same call claims the same.
LEMMA SameCall ==
    ASSUME call' = call
    PROVE  /\ ClaimedTopics' = ClaimedTopics /\ (Unbindable' <=> Unbindable)
           /\ Handlers' = Handlers /\ \A n : TopicsOf(n)' = TopicsOf(n)
<1>1. Handlers' = Handlers
  BY DEF Handlers
<1>2. \A n : TopicsOf(n)' = TopicsOf(n)
  BY DEF TopicsOf
<1>3. ClaimedTopics' = ClaimedTopics
  BY DEF ClaimedTopics, Handlers, TopicsOf
<1>4. \A t : Contested(t)' <=> Contested(t)
  BY DEF Contested, Handlers, TopicsOf
<1>5. \A b : NoHandler(b)' <=> NoHandler(b)
  BY DEF NoHandler
<1>6. Unbindable' <=> Unbindable
  BY DEF Unbindable, ClaimedTopics, Contested, NoHandler, Handlers, TopicsOf
<1> QED BY <1>1, <1>2, <1>3, <1>6

LEMMA BindUnambiguous ==
    ASSUME call \in Calls, Bind
    PROVE  BindingsUnambiguous'
<1> DEFINE r == BI!DiscoverAll(call.handlers, call.container, call.matching)
           topics == DOMAIN call.handlers \cup ClaimedTopics
<1>1. /\ call' = call /\ call.fn = "bind"
      /\ result' = BI!ResolveHandlerBindings(call.handlers, call.container, call.matching)
  BY DEF Bind, Returns
<1>2. BindCall(call)
  BY <1>1, CallsAssumption DEF CallsAssumption
<1>3. Found(r, Len(call.container) + 1, 0)
  BY <1>2, AllFound
<1>4. result' = IF ~BI!Failed(r) /\ DOMAIN r.bound = {} THEN BI!Failure("no handlers") ELSE r
  BY <1>1 DEF BI!ResolveHandlerBindings
<1> HIDE DEF r
<1>5. IF Failed(result') THEN Unbindable \/ topics = {}
      ELSE /\ ~Unbindable /\ topics # {} /\ DOMAIN result'.bound = topics
           /\ \A t \in DOMAIN call.handlers : result'.bound[t] = Explicitly(call.handlers[t])
           /\ \A t \in topics \ DOMAIN call.handlers :
                  /\ result'.bound[t].name \in Handlers
                  /\ \E i \in DOMAIN TopicsOf(result'.bound[t].name) :
                        TopicsOf(result'.bound[t].name)[i] = t
  <2>1. CASE Failed(r)
    <3>1. result' = r
      BY <1>4, <2>1 DEF BI!Failed, Failed
    <3>2. Unbindable
      BY <1>3, <2>1, Zenon DEF Found
    <3> QED BY <2>1, <3>1, <3>2
  <2>2. CASE ~Failed(r)
    <3>1. /\ ~Unbindable /\ DOMAIN r.bound = topics
          /\ \A t \in DOMAIN call.handlers : r.bound[t] = Explicitly(call.handlers[t])
          /\ \A t \in topics \ DOMAIN call.handlers :
                 /\ r.bound[t].name \in Handlers
                 /\ \E i \in DOMAIN TopicsOf(r.bound[t].name) :
                       TopicsOf(r.bound[t].name)[i] = t
      BY <1>2, <1>3, <2>2, FoundIsUnambiguous
    <3> HIDE DEF topics
    <3>2. CASE topics = {}
      <4>1. result' = BI!Failure("no handlers")
        BY <1>4, <2>2, <3>1, <3>2 DEF BI!Failed, Failed
      <4>2. Failed(result')
        BY <4>1 DEF BI!Failure, Failed
      <4> QED BY <3>2, <4>2
    <3>3. CASE topics # {}
      <4>1. result' = r
        BY <1>4, <3>1, <3>3
      <4> QED BY <2>2, <3>1, <3>3, <4>1
    <3> QED BY <3>2, <3>3
  <2> QED BY <2>1, <2>2
<1>6. /\ ClaimedTopics' = ClaimedTopics /\ (Unbindable' <=> Unbindable) /\ Handlers' = Handlers
      /\ \A n : TopicsOf(n)' = TopicsOf(n)
  BY <1>1, SameCall
<1> QED BY <1>1, <1>5, <1>6, Zenon DEF BindingsUnambiguous

\* Whatever the explicit map, the container and the names that match, each topic ends
\* with the handler the map gives it or else with the only one that claims it, and the
\* bindings fail exactly where a topic has no such handler or there is no topic.
THEOREM BindingsUnambiguousAlways == Spec => []BindingsUnambiguous
<1>1. Init => BindingsUnambiguous
  BY NothingReturned, Zenon DEF BindingsUnambiguous
<1>2. call \in Calls /\ BindingsUnambiguous /\ [Next]_<<call, result>> => BindingsUnambiguous'
  <2> SUFFICES ASSUME call \in Calls, BindingsUnambiguous, [Next]_<<call, result>>
               PROVE  BindingsUnambiguous'
    OBVIOUS
  <2>1. CASE Bind
    BY <2>1, BindUnambiguous
  <2>2. CASE Read \/ Scan \/ Configure \/ Use \/ Migrate
    BY <2>2 DEF Read, Scan, Configure, Use, Migrate, Returns, Returned, BindingsUnambiguous
  <2>3. CASE UNCHANGED <<call, result>>
    <3>1. call' = call /\ result' = result
      BY <2>3
    <3>2. /\ ClaimedTopics' = ClaimedTopics /\ (Unbindable' <=> Unbindable)
          /\ Handlers' = Handlers /\ \A n : TopicsOf(n)' = TopicsOf(n)
      BY <3>1, SameCall
    <3> QED BY <3>1, <3>2 DEF BindingsUnambiguous, Returned, Running
  <2> QED BY <2>1, <2>2, <2>3 DEF Next
<1> QED BY <1>1, <1>2, CallsStay, PTL DEF Spec

-----------------------------------------------------------------------------
(***************************************************************************)
(* The frame: a number, an index path, and the prefix as a whole.          *)
(***************************************************************************)
\* What is left of the number, group by group.
IsRest(f, n) == f = [k \in 0 .. 10 |-> IF k = 0 THEN 2 * n ELSE f[k - 1] \div 128]

\* A number of 32 bits takes five groups at most.
LEMMA RestExists ==
    ASSUME NEW n \in Int32
    PROVE  \E f : IsRest(f, n)
<1> DEFINE g1 == (2 * n) \div 128
           g2 == g1 \div 128
           g3 == g2 \div 128
           g4 == g3 \div 128
           f == [k \in 0 .. 10 |-> IF k = 0 THEN 2 * n ELSE IF k = 1 THEN g1
                                   ELSE IF k = 2 THEN g2 ELSE IF k = 3 THEN g3
                                   ELSE IF k = 4 THEN g4 ELSE 0]
<1>1. n \in Nat /\ n <= 2147483647
  BY SMT DEF Int32
<1>2. g1 \in Nat /\ g1 <= 33554431
  BY <1>1, SMT
<1> HIDE DEF g1
<1>3. g2 \in Nat /\ g2 <= 262143
  BY <1>2, SMT
<1> HIDE DEF g2
<1>4. g3 \in Nat /\ g3 <= 2047
  BY <1>3, SMT
<1> HIDE DEF g3
<1>5. g4 \in 0 .. 15
  BY <1>4, SMT
<1> HIDE DEF g4
<1>6. g4 \div 128 = 0
  BY <1>5, SMT
<1>7. \A k \in 0 .. 10 : f[k] = IF k = 0 THEN 2 * n ELSE f[k - 1] \div 128
  <2> SUFFICES ASSUME NEW k \in 0 .. 10
               PROVE  f[k] = IF k = 0 THEN 2 * n ELSE f[k - 1] \div 128
    OBVIOUS
  <2>1. CASE k = 0
    BY <2>1, SMT
  <2>2. CASE k \in 1 .. 4
    BY <2>2, SMT DEF g1, g2, g3, g4
  <2>3. CASE k = 5
    BY <2>3, <1>6, SMT
  <2>4. CASE k \in 6 .. 10
    BY <2>4, SMT
  <2> QED BY <2>1, <2>2, <2>3, <2>4, SMT
<1> HIDE DEF f
<1>8. IsRest(f, n)
  BY <1>7, SMT DEF IsRest, f
<1> QED BY <1>8, Zenon

LEMMA RestIs ==
    ASSUME NEW n \in Int32
    PROVE  /\ WF!Rest(n)[0] = 2 * n
           /\ \A k \in 1 .. 10 : WF!Rest(n)[k] = WF!Rest(n)[k - 1] \div 128
           /\ \A k \in 0 .. 10 : WF!Rest(n)[k] \in Nat
           /\ WF!Rest(n)[5] = 0
<1> DEFINE f == WF!Rest(n)
<1>1. IsRest(f, n)
  <2>1. f = CHOOSE g : IsRest(g, n)
    BY Zenon DEF WF!Rest, IsRest
  <2> QED BY <2>1, RestExists, Zenon
<1> HIDE DEF f
<1>2. f[0] = 2 * n
  BY <1>1, SMT DEF IsRest
<1>3. \A k \in 1 .. 10 : f[k] = f[k - 1] \div 128
  BY <1>1, SMT DEF IsRest
<1>4. n \in Nat /\ n <= 2147483647
  BY SMT DEF Int32
<1>5. /\ f[1] = f[0] \div 128 /\ f[2] = f[1] \div 128 /\ f[3] = f[2] \div 128
      /\ f[4] = f[3] \div 128 /\ f[5] = f[4] \div 128
  BY <1>3, SMT
<1>6. f[5] = 0
  <2>1. f[1] \in Nat /\ f[1] <= 33554431
    BY <1>2, <1>4, <1>5, SMT
  <2>2. f[2] \in Nat /\ f[2] <= 262143
    BY <2>1, <1>5, SMT
  <2>3. f[3] \in Nat /\ f[3] <= 2047
    BY <2>2, <1>5, SMT
  <2>4. f[4] \in 0 .. 15
    BY <2>3, <1>5, SMT
  <2> QED BY <2>4, <1>5, SMT
<1> DEFINE S == {k \in 0 .. 10 : f[k] \in Nat}
<1>7. 0 \in S
  BY <1>2, <1>4, SMT
<1>8. ASSUME NEW k \in 1 .. 10, k - 1 \in S
      PROVE  k \in S
  BY <1>3, <1>8, SMT
<1> HIDE DEF S
<1>9. 0 .. 10 \subseteq S
  BY <1>7, <1>8, CountingUp
<1> QED BY <1>2, <1>3, <1>6, <1>9, SMT DEF S, f

\* A number takes the groups up to the first that leaves nothing.
LEMMA SizeIs ==
    ASSUME NEW n \in Int32
    PROVE  /\ WF!Size(n) \in 1 .. 10 /\ WF!Rest(n)[WF!Size(n)] = 0
           /\ \A j \in 1 .. WF!Size(n) - 1 : WF!Rest(n)[j] # 0
<1> DEFINE R == WF!Rest(n)
           S == {k \in 1 .. 10 : R[k] = 0}
<1> HIDE DEF R
<1>1. 5 \in S
  BY RestIs DEF R
<1>2. S \in SUBSET Nat
  OBVIOUS
<1>3. PICK k \in S : \A t \in S : k <= t
  BY <1>1, <1>2, LeastNumber
<1>4. k \in 1 .. 10 /\ R[k] = 0 /\ \A j \in 1 .. k - 1 : R[j] # 0
  BY <1>3
<1>5. WF!Size(n) = CHOOSE s \in 1 .. 10 : R[s] = 0 /\ \A j \in 1 .. s - 1 : R[j] # 0
  BY Zenon DEF WF!Size, R
<1>6. /\ WF!Size(n) \in 1 .. 10 /\ R[WF!Size(n)] = 0
      /\ \A j \in 1 .. WF!Size(n) - 1 : R[j] # 0
  BY <1>4, <1>5, Zenon
<1> QED BY <1>6 DEF R

\* The bytes of a number: what is left of it, 7 bits at a time.
LEMMA WrittenVarInt ==
    ASSUME NEW n \in Int32
    PROVE  /\ WF!WriteVarInt(n) \in Bytes
           /\ Len(WF!WriteVarInt(n)) = WF!Size(n)
           /\ \A i \in 1 .. WF!Size(n) :
                  /\ WF!WriteVarInt(n)[i] % 128 = WF!Rest(n)[i - 1] % 128
                  /\ WF!WriteVarInt(n)[i] < 128 <=> i = WF!Size(n)
           /\ n > 0 => WF!WriteVarInt(n)[1] # 0
<1> DEFINE R == WF!Rest(n)
           s == WF!Size(n)
           w == WF!WriteVarInt(n)
<1>1. s \in 1 .. 10 /\ R[s] = 0
  BY SizeIs
<1>2. /\ \A k \in 0 .. 10 : R[k] \in Nat
      /\ R[0] = 2 * n /\ R[1] = R[0] \div 128
  BY RestIs
<1>3. w = [i \in 1 .. s |-> (R[i - 1] % 128) + IF i < s THEN 128 ELSE 0]
  BY Zenon DEF WF!WriteVarInt
<1> HIDE DEF R, s, w
<1>4. \A i \in 1 .. s : /\ w[i] = (R[i - 1] % 128) + IF i < s THEN 128 ELSE 0
                        /\ R[i - 1] % 128 \in Nat /\ R[i - 1] % 128 < 128
  <2> SUFFICES ASSUME NEW i \in 1 .. s
               PROVE  /\ w[i] = (R[i - 1] % 128) + IF i < s THEN 128 ELSE 0
                      /\ R[i - 1] % 128 \in Nat /\ R[i - 1] % 128 < 128
    OBVIOUS
  <2>1. w[i] = (R[i - 1] % 128) + IF i < s THEN 128 ELSE 0
    BY <1>3
  <2>2. R[i - 1] \in Nat
    BY <1>1, <1>2
  <2> QED BY <2>1, <2>2
<1>5. w \in Bytes /\ Len(w) = s
  <2>1. DOMAIN w = 1 .. s /\ w = [i \in 1 .. s |-> w[i]]
    BY <1>3
  <2>2. ASSUME NEW i \in 1 .. s
        PROVE  w[i] \in Octets
    BY <1>1, <1>4 DEF Octets
  <2>3. w \in [1 .. s -> Octets]
    BY <2>1, <2>2
  <2> QED BY <1>1, <2>3 DEF Bytes
<1>6. \A i \in 1 .. s : w[i] % 128 = R[i - 1] % 128 /\ (w[i] < 128 <=> i = s)
  BY <1>1, <1>4
<1>7. ASSUME n > 0
      PROVE  w[1] # 0
  <2>1. CASE s = 1
    <3>1. R[0] = 2 * n /\ R[0] \div 128 = 0 /\ n \in Nat
      BY <1>1, <1>2, <2>1 DEF Int32
    <3>2. R[0] % 128 = R[0]
      BY <3>1
    <3> QED BY <1>4, <1>7, <2>1, <3>1, <3>2
  <2>2. CASE s > 1
    BY <1>1, <1>4, <2>2
  <2> QED BY <1>1, <2>1, <2>2
<1> QED BY <1>5, <1>6, <1>7 DEF R, s, w

\* What the last groups of a number make, of m of its size.
SumTo(f, buf, start, size, m) ==
    f = [d \in 0 .. m |->
            IF d = 0 THEN 0 ELSE (WF!Byte(buf, start + size - d) % 128) + 128 * f[d - 1]]

LEMMA SumExists ==
    ASSUME NEW buf, NEW start, NEW size \in Nat
    PROVE  \E f : SumTo(f, buf, start, size, size)
<1> DEFINE S == {m \in 0 .. size : \E f : SumTo(f, buf, start, size, m)}
<1>1. 0 \in S
  <2>1. SumTo([d \in 0 .. 0 |-> 0], buf, start, size, 0)
    BY DEF SumTo
  <2> QED BY <2>1
<1>2. ASSUME NEW m \in 1 .. size, m - 1 \in S
      PROVE  m \in S
  <2>1. PICK f : SumTo(f, buf, start, size, m - 1)
    BY <1>2
  <2> DEFINE Low(d) == WF!Byte(buf, start + size - d) % 128
             g == [d \in 0 .. m |-> IF d = m THEN Low(m) + 128 * f[m - 1] ELSE f[d]]
  <2> HIDE DEF Low
  <2>2. \A d \in 0 .. m - 1 : f[d] = IF d = 0 THEN 0 ELSE Low(d) + 128 * f[d - 1]
    BY <2>1, Zenon DEF SumTo, Low
  <2>3. \A d \in 0 .. m : g[d] = IF d = 0 THEN 0 ELSE Low(d) + 128 * g[d - 1]
    BY <2>2
  <2> HIDE DEF g
  <2>4. g = [d \in 0 .. m |-> IF d = 0 THEN 0 ELSE Low(d) + 128 * g[d - 1]]
    BY <2>3 DEF g
  <2>5. SumTo(g, buf, start, size, m)
    BY <2>4, Zenon DEF SumTo, Low
  <2> QED BY <2>5
<1> HIDE DEF S
<1>3. 0 .. size \subseteq S
  BY <1>1, <1>2, CountingUp
<1> QED BY <1>3 DEF S

LEMMA GroupsAre ==
    ASSUME NEW buf, NEW start, NEW size \in Nat
    PROVE  \E f : SumTo(f, buf, start, size, size) /\ WF!Groups(buf, start, size) = f[size]
<1> DEFINE f == CHOOSE f : SumTo(f, buf, start, size, size)
<1>1. SumTo(f, buf, start, size, size)
  BY SumExists, Zenon
<1>2. WF!Groups(buf, start, size) = f[size]
  BY Zenon DEF WF!Groups, SumTo
<1> QED BY <1>1, <1>2

\* A number f[s] put together from s groups, from the last one on, and a number R[0]
\* taken apart, from the first one on.
Sums(f, low, s) ==
    /\ f[0] = 0
    /\ \A d \in 1 .. s : low[d] \in Nat /\ low[d] < 128 /\ f[d] = low[d] + 128 * f[d - 1]
Rests(R, s) == \A k \in 1 .. s : R[k - 1] \in Nat /\ R[k] = R[k - 1] \div 128

LEMMA SumsShift ==
    ASSUME NEW s \in Nat, NEW low, NEW f, Sums(f, low, s)
    PROVE  /\ \A d \in 0 .. s : f[d] \in Nat
           /\ \A d \in 1 .. s : f[d] \div 128 = f[d - 1]
<1> DEFINE S == {d \in 0 .. s : f[d] \in Nat}
<1>1. /\ f[0] = 0
      /\ \A d \in 1 .. s : low[d] \in Nat /\ low[d] < 128 /\ f[d] = low[d] + 128 * f[d - 1]
  BY DEF Sums
<1>2. 0 \in S
  BY <1>1
<1>3. ASSUME NEW d \in 1 .. s, d - 1 \in S
      PROVE  d \in S
  <2>1. low[d] \in Nat /\ f[d - 1] \in Nat /\ f[d] = low[d] + 128 * f[d - 1]
    BY <1>1, <1>3
  <2>2. f[d] \in Nat
    BY <2>1
  <2> QED BY <2>2
<1> HIDE DEF S
<1>4. 0 .. s \subseteq S
  BY <1>2, <1>3, CountingUp, Zenon
<1>5. \A d \in 0 .. s : f[d] \in Nat
  BY <1>4 DEF S
<1>6. ASSUME NEW d \in 1 .. s
      PROVE  f[d] \div 128 = f[d - 1]
  <2>1. d - 1 \in 0 .. s
    OBVIOUS
  <2> DEFINE x == f[d - 1]
             y == low[d]
  <2>2. f[d] = y + 128 * x /\ x \in Nat /\ y \in Nat /\ y < 128
    BY <1>1, <1>5, <2>1
  <2> HIDE DEF x, y
  <2>3. f[d] \div 128 = x
    BY <2>2
  <2> QED BY <2>3 DEF x
<1> QED BY <1>5, <1>6

\* Taken apart, the number that was put together comes to nothing.
LEMMA SumsAreRests ==
    ASSUME NEW s \in Nat, NEW low, NEW f, NEW R, Sums(f, low, s), Rests(R, s), R[0] = f[s]
    PROVE  R[s] = 0
<1> DEFINE S == {k \in 0 .. s : R[k] = f[s - k]}
<1>1. /\ \A d \in 1 .. s : f[d] \div 128 = f[d - 1]
      /\ \A k \in 1 .. s : R[k] = R[k - 1] \div 128
      /\ f[0] = 0
  <2>1. \A d \in 1 .. s : f[d] \div 128 = f[d - 1]
    BY SumsShift
  <2> QED BY <2>1 DEF Rests, Sums
<1>2. 0 \in S
  OBVIOUS
<1>3. ASSUME NEW k \in 1 .. s, k - 1 \in S
      PROVE  k \in S
  <2>1. s - k + 1 \in 1 .. s /\ s - (k - 1) = s - k + 1 /\ (s - k + 1) - 1 = s - k
    OBVIOUS
  <2>2. R[k - 1] = f[s - k + 1] /\ R[k] = R[k - 1] \div 128
    BY <1>1, <1>3, <2>1
  <2>3. f[s - k + 1] \div 128 = f[s - k]
    BY <1>1, <2>1
  <2> QED BY <2>2, <2>3
<1> HIDE DEF S
<1>4. 0 .. s \subseteq S
  BY <1>2, <1>3, CountingUp, Zenon
<1> QED BY <1>1, <1>4 DEF S

\* Put together, the groups of a number that comes to nothing make it.
LEMMA RestsAreSums ==
    ASSUME NEW s \in Nat, NEW low, NEW f, NEW R, Sums(f, low, s), Rests(R, s), R[s] = 0,
           \A d \in 1 .. s : low[d] = R[s - d] % 128
    PROVE  f[s] = R[0]
<1> DEFINE S == {d \in 0 .. s : f[d] = R[s - d]}
<1>1. /\ \A k \in 1 .. s : R[k - 1] \in Nat /\ R[k] = R[k - 1] \div 128
      /\ \A d \in 1 .. s : f[d] = (R[s - d] % 128) + 128 * f[d - 1]
      /\ f[0] = 0
  BY DEF Sums, Rests
<1>2. 0 \in S
  BY <1>1
<1>3. ASSUME NEW d \in 1 .. s, d - 1 \in S
      PROVE  d \in S
  <2> DEFINE x == R[s - d]
  <2>1. s - d \in 0 .. s /\ s - (d - 1) \in 1 .. s /\ s - (d - 1) - 1 = s - d
    OBVIOUS
  <2>2. f[d - 1] = R[s - (d - 1)] /\ x \in Nat /\ R[s - (d - 1)] = x \div 128
    BY <1>1, <1>3, <2>1
  <2>3. f[d] = (x % 128) + 128 * (x \div 128)
    BY <1>1, <2>2
  <2> HIDE DEF x
  <2>4. f[d] = x
    BY <2>2, <2>3
  <2> QED BY <2>4 DEF x
<1> HIDE DEF S
<1>4. 0 .. s \subseteq S
  BY <1>2, <1>3, CountingUp, Zenon
<1> QED BY <1>4 DEF S

LEMMA RestIsRests ==
    ASSUME NEW n \in Int32, NEW s \in 1 .. 10
    PROVE  WF!Rest(n)[0] = 2 * n /\ Rests(WF!Rest(n), s)
<1> DEFINE R == WF!Rest(n)
<1>1. /\ R[0] = 2 * n
      /\ \A k \in 1 .. 10 : R[k] = R[k - 1] \div 128
      /\ \A k \in 0 .. 10 : R[k] \in Nat
  BY RestIs, Zenon
<1> HIDE DEF R
<1>2. ASSUME NEW k \in 1 .. s
      PROVE  R[k - 1] \in Nat /\ R[k] = R[k - 1] \div 128
  BY <1>1
<1>3. Rests(R, s)
  BY <1>2, Zenon DEF Rests
<1> QED BY <1>1, <1>3 DEF R

\* The bytes w stand in the buffer from position pos on.
Stands(w, buf, pos) ==
    /\ pos + Len(w) <= Len(buf)
    /\ \A i \in 1 .. Len(w) : WF!Byte(buf, pos + i - 1) = w[i]

LEMMA ByteIs ==
    ASSUME NEW buf \in Bytes
    PROVE  /\ Len(buf) \in Nat
           /\ \A pos \in 0 .. Len(buf) - 1 : WF!Byte(buf, pos) \in Octets
<1>1. Len(buf) \in Nat /\ \A i \in 1 .. Len(buf) : buf[i] \in Octets
  BY DEF Bytes
<1>2. \A pos \in 0 .. Len(buf) - 1 : pos + 1 \in 1 .. Len(buf)
  BY <1>1
<1> QED BY <1>1, <1>2, Zenon DEF WF!Byte

\* A number ends where its first byte without the high bit is.
LEMMA ReadsTo ==
    ASSUME NEW buf \in Bytes, NEW start \in Nat, NEW s \in 1 .. 10,
           WF!EndsAfter(buf, start, s)
    PROVE  WF!ReadVarInt(buf, start) =
               [value |-> WF!ZigZag(WF!Groups(buf, start, s)), next |-> start + s]
<1> DEFINE sizes == {k \in 1 .. 10 : WF!EndsAfter(buf, start, k)}
           size == CHOOSE k \in sizes : TRUE
<1>1. ASSUME NEW k \in 1 .. 10, NEW m \in 1 .. 10, k < m,
             WF!EndsAfter(buf, start, k), WF!EndsAfter(buf, start, m)
      PROVE  FALSE
  <2>1. WF!Byte(buf, start + k - 1) >= 128
    <3>1. k \in 1 .. m - 1
      BY <1>1
    <3> QED BY <1>1, <3>1, Zenon DEF WF!EndsAfter
  <2>2. WF!Byte(buf, start + k - 1) < 128 /\ start + k <= Len(buf)
    BY <1>1 DEF WF!EndsAfter
  <2>3. start + k - 1 \in 0 .. Len(buf) - 1
    BY <1>1, <2>2, ByteIs
  <2>4. WF!Byte(buf, start + k - 1) \in Nat
    BY <2>3, ByteIs DEF Octets
  <2> HIDE DEF sizes
  <2> QED BY <2>1, <2>2, <2>4, SMT
<1>2. sizes = {s}
  BY <1>1
<1> HIDE DEF sizes
<1>3. size = s /\ sizes # {}
  BY <1>2
<1>4. WF!ReadVarInt(buf, start) =
          IF sizes = {} /\ Len(buf) - start < 10 THEN WF!Failure("truncated")
          ELSE IF sizes = {} THEN WF!Failure("overlong")
          ELSE [value |-> WF!ZigZag(WF!Groups(buf, start, size)), next |-> start + size]
  BY Zenon DEF WF!ReadVarInt, sizes
<1> QED BY <1>3, <1>4, Zenon

\* What is read is such a number.
LEMMA ReadEnds ==
    ASSUME NEW buf \in Bytes, NEW start \in Nat,
           ~Failed(WF!ReadVarInt(buf, start))
    PROVE  \E s \in 1 .. 10 :
               /\ WF!EndsAfter(buf, start, s)
               /\ WF!ReadVarInt(buf, start) =
                      [value |-> WF!ZigZag(WF!Groups(buf, start, s)), next |-> start + s]
<1>1. CASE \E s \in 1 .. 10 : WF!EndsAfter(buf, start, s)
  BY <1>1, ReadsTo, Zenon
<1>2. CASE ~\E s \in 1 .. 10 : WF!EndsAfter(buf, start, s)
  <2> DEFINE sizes == {k \in 1 .. 10 : WF!EndsAfter(buf, start, k)}
  <2>1. sizes = {}
    BY <1>2
  <2>2. \/ WF!ReadVarInt(buf, start) = WF!Failure("truncated")
        \/ WF!ReadVarInt(buf, start) = WF!Failure("overlong")
    BY <2>1, Zenon DEF WF!ReadVarInt
  <2> QED BY <2>2 DEF WF!Failure, Failed
<1> QED BY <1>1, <1>2

\* The groups of a number in a buffer.
LEMMA GroupsSum ==
    ASSUME NEW buf \in Bytes, NEW start \in Nat, NEW s \in Nat, start + s <= Len(buf)
    PROVE  \E f, low : /\ Sums(f, low, s) /\ WF!Groups(buf, start, s) = f[s]
                       /\ \A d \in 1 .. s : low[d] = WF!Byte(buf, start + s - d) % 128
<1>1. PICK f : SumTo(f, buf, start, s, s) /\ WF!Groups(buf, start, s) = f[s]
  BY GroupsAre, Zenon
<1> DEFINE low == [d \in 1 .. s |-> WF!Byte(buf, start + s - d) % 128]
<1>2. f[0] = 0 /\ \A d \in 1 .. s : f[d] = low[d] + 128 * f[d - 1]
  BY <1>1, SMT DEF SumTo
<1>3. ASSUME NEW d \in 1 .. s
      PROVE  low[d] \in Nat /\ low[d] < 128
  <2>1. start + s - d \in 0 .. Len(buf) - 1
    BY ByteIs
  <2>2. WF!Byte(buf, start + s - d) \in Nat
    BY <2>1, ByteIs DEF Octets
  <2> QED BY <2>2
<1>4. \A d \in 1 .. s : low[d] = WF!Byte(buf, start + s - d) % 128
  OBVIOUS
<1> HIDE DEF low
<1>5. Sums(f, low, s)
  BY <1>2, <1>3 DEF Sums
<1> QED BY <1>1, <1>4, <1>5

\* The groups of a written number make it.
LEMMA GroupsMake ==
    ASSUME NEW n \in Int32, NEW buf \in Bytes, NEW start \in Nat, NEW s \in 1 .. 10,
           start + s <= Len(buf), WF!Rest(n)[s] = 0,
           \A i \in 1 .. s : WF!Byte(buf, start + i - 1) % 128 = WF!Rest(n)[i - 1] % 128
    PROVE  WF!Groups(buf, start, s) = 2 * n
<1> DEFINE R == WF!Rest(n)
<1>1. s \in Nat
  OBVIOUS
<1>2. PICK f, low : /\ Sums(f, low, s) /\ WF!Groups(buf, start, s) = f[s]
                    /\ \A d \in 1 .. s : low[d] = WF!Byte(buf, start + s - d) % 128
  BY <1>1, GroupsSum, ZenonT(30)
<1>3. R[0] = 2 * n /\ R[s] = 0 /\ Rests(R, s)
  BY RestIsRests
<1>4. \A i \in 1 .. s : WF!Byte(buf, start + i - 1) % 128 = R[i - 1] % 128
  OBVIOUS
<1> HIDE DEF R
<1>5. ASSUME NEW d \in 1 .. s
      PROVE  low[d] = R[s - d] % 128
  <2> DEFINE i == s - d + 1
  <2>1. i \in 1 .. s /\ i - 1 = s - d /\ start + i - 1 = start + s - d
    OBVIOUS
  <2>2. WF!Byte(buf, start + i - 1) % 128 = R[i - 1] % 128
    BY <1>4, <2>1
  <2> HIDE DEF i
  <2>3. low[d] = WF!Byte(buf, start + s - d) % 128
    BY <1>2
  <2> QED BY <2>1, <2>2, <2>3, Zenon
<1>6. f[s] = R[0]
  BY <1>1, <1>2, <1>3, <1>5, RestsAreSums
<1> QED BY <1>2, <1>3, <1>6, Zenon

\* A written number is read wherever it stands.
LEMMA ReadsBack ==
    ASSUME NEW n \in Int32, NEW buf \in Bytes, NEW start \in Nat,
           Stands(WF!WriteVarInt(n), buf, start)
    PROVE  WF!ReadVarInt(buf, start) = [value |-> n, next |-> start + Len(WF!WriteVarInt(n))]
<1> DEFINE w == WF!WriteVarInt(n)
           s == WF!Size(n)
<1>1. /\ s \in 1 .. 10 /\ WF!Rest(n)[s] = 0 /\ Len(w) = s
      /\ \A i \in 1 .. s : w[i] % 128 = WF!Rest(n)[i - 1] % 128 /\ (w[i] < 128 <=> i = s)
      /\ w \in Bytes
  BY WrittenVarInt, SizeIs, Zenon
<1>2. start + s <= Len(buf) /\ \A i \in 1 .. s : WF!Byte(buf, start + i - 1) = w[i]
  BY <1>1 DEF Stands
<1> HIDE DEF s, w
<1>3. WF!EndsAfter(buf, start, s)
  <2>1. WF!Byte(buf, start + s - 1) < 128
    BY <1>1, <1>2
  <2>2. ASSUME NEW i \in 1 .. s - 1
        PROVE  WF!Byte(buf, start + i - 1) >= 128
    <3>1. i \in 1 .. s /\ i # s
      BY <1>1
    <3>2. w[i] \in Nat
      BY <1>1, <3>1 DEF Bytes, Octets
    <3>3. WF!Byte(buf, start + i - 1) = w[i] /\ ~(w[i] < 128)
      BY <1>1, <1>2, <3>1
    <3> QED BY <3>2, <3>3
  <2> QED BY <1>2, <2>1, <2>2 DEF WF!EndsAfter
<1>4. \A i \in 1 .. s : WF!Byte(buf, start + i - 1) % 128 = WF!Rest(n)[i - 1] % 128
  <2> SUFFICES ASSUME NEW i \in 1 .. s
               PROVE  WF!Byte(buf, start + i - 1) % 128 = WF!Rest(n)[i - 1] % 128
    OBVIOUS
  <2>1. w[i] % 128 = WF!Rest(n)[i - 1] % 128
    BY <1>1
  <2>2. WF!Byte(buf, start + i - 1) = w[i]
    BY <1>2
  <2> QED BY <2>1, <2>2, Zenon
<1>5. WF!Groups(buf, start, s) = 2 * n
  BY <1>1, <1>2, <1>4, GroupsMake, ZenonT(30)
<1>6. WF!ZigZag(2 * n) = n
  <2>1. n \in Nat
    BY SMT DEF Int32
  <2>2. (2 * n) % 2 = 0 /\ (2 * n) \div 2 = n
    BY <2>1
  <2> QED BY <2>2 DEF WF!ZigZag
<1>7. WF!ReadVarInt(buf, start) =
          [value |-> WF!ZigZag(WF!Groups(buf, start, s)), next |-> start + s]
  BY <1>1, <1>3, ReadsTo
<1>8. WF!ReadVarInt(buf, start) = [value |-> n, next |-> start + s]
  BY <1>5, <1>6, <1>7, Zenon
<1> QED BY <1>1, <1>8 DEF s, w

\* No number takes more bytes than it was read from.
LEMMA SizeAtMost ==
    ASSUME NEW buf \in Bytes, NEW start \in Nat, NEW s \in 1 .. 10,
           WF!EndsAfter(buf, start, s), NEW v, v = WF!ZigZag(WF!Groups(buf, start, s)), ~(v < 0)
    PROVE  v \in Nat /\ (v \in Int32 => WF!Size(v) <= s)
<1>1. s \in Nat /\ start + s <= Len(buf)
  BY DEF WF!EndsAfter
<1>2. PICK f, low : Sums(f, low, s) /\ WF!Groups(buf, start, s) = f[s]
  BY <1>1, GroupsSum
<1>3. f[s] \in Nat
  BY <1>1, <1>2, SumsShift
<1> DEFINE g == WF!Groups(buf, start, s)
<1>4. g \in Nat /\ v = WF!ZigZag(g) /\ ~(v < 0)
  BY <1>2, <1>3
<1> HIDE DEF g
<1>5. v \in Nat /\ g = 2 * v
  <2>1. g % 2 = 0 \/ v = -((g + 1) \div 2)
    BY <1>4 DEF WF!ZigZag
  <2>2. g % 2 = 0
    BY <1>4, <2>1
  <2>3. v = g \div 2
    BY <1>4, <2>2 DEF WF!ZigZag
  <2> QED BY <1>4, <2>2, <2>3
<1>6. ASSUME v \in Int32
      PROVE  WF!Size(v) <= s
  <2> DEFINE R == WF!Rest(v)
  <2>1. R[0] = f[s] /\ Rests(R, s)
    BY <1>2, <1>5, <1>6, RestIsRests DEF g
  <2>2. R[s] = 0
    <3> HIDE DEF R
    <3> QED BY <1>1, <1>2, <2>1, SumsAreRests
  <2>3. WF!Size(v) \in 1 .. 10 /\ \A j \in 1 .. WF!Size(v) - 1 : R[j] # 0
    BY <1>6, SizeIs, Zenon
  <2> QED BY <2>2, <2>3
<1> QED BY <1>5, <1>6

LEMMA VarIntBytes ==
    ASSUME NEW n \in Int32
    PROVE  /\ WF!WriteVarInt(n) \in Bytes /\ Len(WF!WriteVarInt(n)) = WF!Size(n)
           /\ Len(WF!WriteVarInt(n)) \in 1 .. 10
           /\ n > 0 => WF!WriteVarInt(n)[1] # 0
<1>1. WF!Size(n) \in 1 .. 10
  BY SizeIs
<1>2. /\ WF!WriteVarInt(n) \in Bytes /\ Len(WF!WriteVarInt(n)) = WF!Size(n)
      /\ n > 0 => WF!WriteVarInt(n)[1] # 0
  BY WrittenVarInt
<1> QED BY <1>1, <1>2, Zenon

LEMMA ConcatBytes ==
    ASSUME NEW v \in Bytes, NEW w \in Bytes
    PROVE  /\ v \o w \in Bytes /\ Len(v \o w) = Len(v) + Len(w)
           /\ \A i \in 1 .. Len(v) + Len(w) :
                 (v \o w)[i] = IF i <= Len(v) THEN v[i] ELSE w[i - Len(v)]
           /\ Len(v) \in Nat /\ Len(w) \in Nat
<1>1. v \in Seq(Octets) /\ w \in Seq(Octets)
  BY DEF Bytes
<1>2. /\ v \o w \in Seq(Octets) /\ Len(v \o w) = Len(v) + Len(w)
      /\ \A i \in 1 .. Len(v) + Len(w) :
            (v \o w)[i] = IF i <= Len(v) THEN v[i] ELSE w[i - Len(v)]
  BY <1>1, ConcatProperties, Zenon
<1>3. Len(v) \in Nat /\ Len(w) \in Nat
  BY <1>1
<1> QED BY <1>2, <1>3, Zenon DEF Bytes

\* The bytes after the number of the indexes, and after each index.
WrittenTo(f, path, N) ==
    f = [i \in 0 .. N |-> IF i = 0 THEN WF!WriteVarInt(Len(path))
                          ELSE f[i - 1] \o WF!WriteVarInt(path[i])]

LEMMA WrittenExists ==
    ASSUME NEW path, NEW N \in Nat
    PROVE  \E f : WrittenTo(f, path, N)
<1> DEFINE S == {n \in 0 .. N : \E f : WrittenTo(f, path, n)}
<1>1. 0 \in S
  <2>1. WrittenTo([n \in 0 .. 0 |-> WF!WriteVarInt(Len(path))], path, 0)
    BY DEF WrittenTo
  <2> QED BY <2>1
<1>2. ASSUME NEW n \in 1 .. N, n - 1 \in S
      PROVE  n \in S
  <2>1. PICK f : WrittenTo(f, path, n - 1)
    BY <1>2
  <2> DEFINE g == [m \in 0 .. n |-> IF m = n THEN f[n - 1] \o WF!WriteVarInt(path[n]) ELSE f[m]]
  <2>2. \A m \in 0 .. n : g[m] = IF m = 0 THEN WF!WriteVarInt(Len(path))
                                 ELSE g[m - 1] \o WF!WriteVarInt(path[m])
    BY <2>1 DEF WrittenTo
  <2>3. WrittenTo(g, path, n)
    BY <2>2 DEF WrittenTo
  <2> QED BY <2>3
<1> HIDE DEF S
<1>3. 0 .. N \subseteq S
  BY <1>1, <1>2, CountingUp
<1> QED BY <1>3 DEF S

LEMMA WritePathIsLast ==
    ASSUME NEW path, Len(path) \in Nat
    PROVE  \E f : WrittenTo(f, path, Len(path)) /\ WF!WritePath(path) = f[Len(path)]
<1> DEFINE f == CHOOSE f : WrittenTo(f, path, Len(path))
<1>1. WrittenTo(f, path, Len(path))
  BY WrittenExists, Zenon
<1>2. WF!WritePath(path) = f[Len(path)]
  BY Zenon DEF WF!WritePath, WrittenTo
<1> QED BY <1>1, <1>2

\* They are bytes, one more at least for each, the first of them no 0 if there is one.
LEMMA WrittenBytes ==
    ASSUME NEW path \in Seq(Int32), Len(path) \in Int32, NEW f,
           WrittenTo(f, path, Len(path))
    PROVE  /\ f[0] = WF!WriteVarInt(Len(path))
           /\ \A i \in 0 .. Len(path) : f[i] \in Bytes /\ Len(f[i]) > i
           /\ \A i \in 1 .. Len(path) :
                  /\ f[i] = f[i - 1] \o WF!WriteVarInt(path[i])
                  /\ Len(f[i]) = Len(f[i - 1]) + WF!Size(path[i])
           /\ Len(path) > 0 => \A i \in 0 .. Len(path) : f[i][1] # 0
<1> DEFINE N == Len(path)
           V(i) == WF!WriteVarInt(path[i])
<1>1. N \in Nat
  OBVIOUS
<1>2. f[0] = WF!WriteVarInt(N) /\ \A i \in 1 .. N : f[i] = f[i - 1] \o V(i)
  BY <1>1 DEF WrittenTo
<1>3. ASSUME NEW i \in 1 .. N
      PROVE  V(i) \in Bytes /\ Len(V(i)) = WF!Size(path[i]) /\ Len(V(i)) \in 1 .. 10
  <2>1. path[i] \in Int32
    OBVIOUS
  <2> QED BY <2>1, VarIntBytes, Zenon
<1>4. /\ WF!WriteVarInt(N) \in Bytes /\ Len(WF!WriteVarInt(N)) \in 1 .. 10
      /\ N > 0 => WF!WriteVarInt(N)[1] # 0
  BY VarIntBytes, Zenon
<1> HIDE DEF N, V
<1> DEFINE S == {i \in 0 .. N : f[i] \in Bytes /\ Len(f[i]) > i /\ (N > 0 => f[i][1] # 0)}
<1>5. 0 \in S
  <2>1. f[0] = WF!WriteVarInt(N) /\ Len(f[0]) = Len(WF!WriteVarInt(N))
    BY <1>2, Zenon
  <2>2. Len(WF!WriteVarInt(N)) > 0
    BY <1>4
  <2> QED BY <1>1, <1>4, <2>1, <2>2
<1>6. ASSUME NEW i \in 1 .. N, i - 1 \in S
      PROVE  i \in S /\ Len(f[i]) = Len(f[i - 1]) + WF!Size(path[i])
  <2> DEFINE u == f[i - 1]
             v == V(i)
  <2>1. u \in Bytes /\ Len(u) > i - 1 /\ (N > 0 => u[1] # 0)
    BY <1>6, Zenon
  <2>2. f[i] = u \o v /\ v \in Bytes /\ Len(v) = WF!Size(path[i]) /\ Len(v) \in 1 .. 10
    BY <1>2, <1>3, Zenon
  <2> HIDE DEF u, v
  <2>3. /\ f[i] \in Bytes /\ Len(f[i]) = Len(u) + Len(v)
        /\ \A k \in 1 .. Len(u) + Len(v) :
              f[i][k] = IF k <= Len(u) THEN u[k] ELSE v[k - Len(u)]
        /\ Len(u) \in Nat
    <3>1. /\ u \o v \in Bytes /\ Len(u \o v) = Len(u) + Len(v)
          /\ \A k \in 1 .. Len(u) + Len(v) :
                (u \o v)[k] = IF k <= Len(u) THEN u[k] ELSE v[k - Len(u)]
          /\ Len(u) \in Nat
      BY <2>1, <2>2, ConcatBytes
    <3> QED BY <2>2, <3>1, Zenon
  <2>4. 1 \in 1 .. Len(u) + Len(v) /\ 1 <= Len(u)
    BY <2>1, <2>2, <2>3
  <2>5. f[i][1] = u[1]
    BY <2>3, <2>4, Zenon
  <2>6. Len(f[i]) > i
    BY <2>1, <2>2, <2>3
  <2>7. i \in S
    BY <2>1, <2>3, <2>5, <2>6
  <2>8. Len(f[i]) = Len(u) + WF!Size(path[i])
    BY <2>2, <2>3, Zenon
  <2> QED BY <2>7, <2>8, Zenon DEF u
<1> HIDE DEF S
<1>7. 0 .. N \subseteq S
  BY <1>1, <1>5, <1>6, CountingUp
<1>8. \A i \in 0 .. N : f[i] \in Bytes /\ Len(f[i]) > i /\ (N > 0 => f[i][1] # 0)
  BY <1>7, Zenon DEF S, Bytes
<1>9. ASSUME NEW i \in 1 .. N
      PROVE  Len(f[i]) = Len(f[i - 1]) + WF!Size(path[i])
  <2>1. i - 1 \in S
    BY <1>1, <1>7
  <2> QED BY <1>6, <2>1, Zenon
<1>10. \A i \in 1 .. N : /\ f[i] = f[i - 1] \o WF!WriteVarInt(path[i])
                         /\ Len(f[i]) = Len(f[i - 1]) + WF!Size(path[i])
  BY <1>2, <1>9, Zenon DEF V
<1> QED BY <1>2, <1>8, <1>10, Zenon DEF N

\* What stands in the buffer stands there part by part.
LEMMA StandsInParts ==
    ASSUME NEW v \in Bytes, NEW w \in Bytes, NEW buf \in Bytes, NEW pos \in Nat,
           Stands(v \o w, buf, pos)
    PROVE  Stands(v, buf, pos) /\ Stands(w, buf, pos + Len(v))
<1>1. /\ Len(v \o w) = Len(v) + Len(w)
      /\ \A i \in 1 .. Len(v) + Len(w) :
            (v \o w)[i] = IF i <= Len(v) THEN v[i] ELSE w[i - Len(v)]
      /\ Len(v) \in Nat /\ Len(w) \in Nat /\ Len(buf) \in Nat
  BY ConcatBytes, ByteIs, Zenon
<1> DEFINE u == v \o w
<1> HIDE DEF u
<1>2. /\ pos + Len(v) + Len(w) <= Len(buf)
      /\ \A i \in 1 .. Len(v) + Len(w) : WF!Byte(buf, pos + i - 1) = u[i]
  BY <1>1 DEF Stands, u
<1>3. ASSUME NEW i \in 1 .. Len(v)
      PROVE  WF!Byte(buf, pos + i - 1) = v[i]
  <2>1. i \in 1 .. Len(v) + Len(w) /\ i <= Len(v)
    BY <1>1
  <2> QED BY <1>1, <1>2, <2>1 DEF u
<1>4. ASSUME NEW i \in 1 .. Len(w)
      PROVE  WF!Byte(buf, pos + Len(v) + i - 1) = w[i]
  <2> DEFINE k == Len(v) + i
  <2>1. /\ k \in 1 .. Len(v) + Len(w) /\ ~(k <= Len(v)) /\ k - Len(v) = i
        /\ pos + k - 1 = pos + Len(v) + i - 1
    BY <1>1
  <2> HIDE DEF k
  <2>2. u[k] = w[i]
    BY <1>1, <2>1 DEF u
  <2>3. WF!Byte(buf, pos + k - 1) = u[k]
    BY <1>2, <2>1
  <2> QED BY <2>1, <2>2, <2>3, Zenon
<1> QED BY <1>1, <1>2, <1>3, <1>4 DEF Stands

\* What the loop over the indexes has after each turn.
NoneRead(first) == [indexes |-> <<>>, length |-> first]
TurnsTo(f, buf, first, N) ==
    f = [i \in 0 .. N |-> IF i = 0 THEN NoneRead(first) ELSE WF!ReadIndex(buf, f[i - 1])]

LEMMA TurnsExist ==
    ASSUME NEW buf, NEW first, NEW N \in Nat
    PROVE  \E f : TurnsTo(f, buf, first, N)
<1> DEFINE S == {n \in 0 .. N : \E f : TurnsTo(f, buf, first, n)}
<1>1. 0 \in S
  <2>1. TurnsTo([n \in 0 .. 0 |-> NoneRead(first)], buf, first, 0)
    BY DEF TurnsTo
  <2> QED BY <2>1
<1>2. ASSUME NEW n \in 1 .. N, n - 1 \in S
      PROVE  n \in S
  <2>1. PICK f : TurnsTo(f, buf, first, n - 1)
    BY <1>2
  <2> DEFINE g == [m \in 0 .. n |-> IF m = n THEN WF!ReadIndex(buf, f[n - 1]) ELSE f[m]]
  <2>2. \A m \in 0 .. n : g[m] = IF m = 0 THEN NoneRead(first) ELSE WF!ReadIndex(buf, g[m - 1])
    BY <2>1 DEF TurnsTo
  <2>3. TurnsTo(g, buf, first, n)
    BY <2>2 DEF TurnsTo
  <2> QED BY <2>3
<1> HIDE DEF S
<1>3. 0 .. N \subseteq S
  BY <1>1, <1>2, CountingUp
<1> QED BY <1>3 DEF S

LEMMA ReadIndexesIsLast ==
    ASSUME NEW buf, NEW count, NEW first, NEW turns \in Nat,
           turns = IF count > Len(buf) THEN Len(buf) ELSE count
    PROVE  \E f : TurnsTo(f, buf, first, turns) /\ WF!ReadIndexes(buf, count, first) = f[turns]
<1> DEFINE f == CHOOSE f : TurnsTo(f, buf, first, turns)
<1>1. TurnsTo(f, buf, first, turns)
  BY TurnsExist, Zenon
<1>2. WF!ReadIndexes(buf, count, first) = f[turns]
  BY Zenon DEF WF!ReadIndexes, TurnsTo, NoneRead
<1> QED BY <1>1, <1>2

LEMMA TurnsAre ==
    ASSUME NEW buf, NEW first, NEW N \in Nat, NEW f, TurnsTo(f, buf, first, N)
    PROVE  f[0] = NoneRead(first) /\ \A i \in 1 .. N : f[i] = WF!ReadIndex(buf, f[i - 1])
BY DEF TurnsTo

\* A turn reads one index, or fails.
LEMMA TurnReads ==
    ASSUME NEW buf, NEW r, NEW v, v = WF!ReadVarInt(buf, r.length)
    PROVE  /\ Failed(r) => WF!ReadIndex(buf, r) = r
           /\ ~Failed(WF!ReadIndex(buf, r)) =>
                  /\ ~Failed(r) /\ ~Failed(v) /\ ~(v.value < 0)
           /\ ~Failed(r) /\ ~Failed(v) /\ ~(v.value < 0) =>
                  WF!ReadIndex(buf, r) =
                      [indexes |-> Append(r.indexes, v.value), length |-> v.next]
<1>1. \A x : WF!Failed(x) <=> Failed(x)
  BY Zenon DEF WF!Failed, Failed
<1>2. Failed(WF!Failure("negative index"))
  BY DEF Failed, WF!Failure
<1> DEFINE one == [indexes |-> Append(r.indexes, v.value), length |-> v.next]
<1> HIDE DEF one
<1>3. WF!ReadIndex(buf, r) =
          IF Failed(r) THEN r
          ELSE IF Failed(v) THEN v
          ELSE IF v.value < 0 THEN WF!Failure("negative index") ELSE one
  BY <1>1, Zenon DEF WF!ReadIndex, one
<1>4. /\ Failed(r) => WF!ReadIndex(buf, r) = r
      /\ ~Failed(WF!ReadIndex(buf, r)) => ~Failed(r) /\ ~Failed(v) /\ ~(v.value < 0)
      /\ ~Failed(r) /\ ~Failed(v) /\ ~(v.value < 0) => WF!ReadIndex(buf, r) = one
  BY <1>2, <1>3, Zenon
<1> QED BY <1>4, Zenon DEF one

\* An index that stands in the buffer is read in the next turn.
LEMMA TurnReadsBack ==
    ASSUME NEW buf \in Bytes, NEW n \in Int32, NEW ns, NEW pos \in Nat,
           Stands(WF!WriteVarInt(n), buf, pos)
    PROVE  WF!ReadIndex(buf, [indexes |-> ns, length |-> pos]) =
               [indexes |-> Append(ns, n), length |-> pos + Len(WF!WriteVarInt(n))]
<1> DEFINE r == [indexes |-> ns, length |-> pos]
           v == WF!ReadVarInt(buf, pos)
           next == pos + Len(WF!WriteVarInt(n))
<1>1. v = [value |-> n, next |-> next]
  BY ReadsBack
<1> HIDE DEF next
<1>2. v.value = n /\ v.next = next /\ ~Failed(v)
  BY <1>1 DEF Failed
<1>3. ~(v.value < 0)
  BY <1>2, SMT DEF Int32
<1>4. ~Failed(r) /\ r.length = pos /\ r.indexes = ns
  BY DEF Failed
<1> HIDE DEF r, v
<1>5. v = WF!ReadVarInt(buf, r.length)
  BY <1>4 DEF v
<1>6. WF!ReadIndex(buf, r) = [indexes |-> Append(r.indexes, v.value), length |-> v.next]
  BY <1>2, <1>3, <1>4, <1>5, TurnReads
<1>7. WF!ReadIndex(buf, r) = [indexes |-> Append(ns, n), length |-> next]
  BY <1>2, <1>4, <1>6, Zenon
<1> QED BY <1>7 DEF r, next

\* An index path that stands after the header is read as it was written.
LEMMA PathReadsBack ==
    ASSUME NEW buf \in Bytes, NEW path \in Seq(Int32) \ {<<>>}, Len(path) \in Int32,
           Stands(WF!WritePath(path), buf, 5)
    PROVE  /\ WF!Byte(buf, 5) # 0
           /\ WF!ReadPath(buf) = [indexes |-> path, length |-> 5 + Len(WF!WritePath(path))]
<1> DEFINE N == Len(path)
           first == 5 + Len(WF!WriteVarInt(N))
           V(i) == WF!WriteVarInt(path[i])
<1>1. N \in Nat /\ N > 0 /\ N \in Int32 /\ \A i \in 1 .. N : path[i] \in Int32
  BY EmptySeq
<1>2. PICK w : WrittenTo(w, path, N) /\ WF!WritePath(path) = w[N]
  BY <1>1, WritePathIsLast
<1>3. /\ w[0] = WF!WriteVarInt(N)
      /\ \A i \in 0 .. N : w[i] \in Bytes /\ Len(w[i]) > i /\ w[i][1] # 0
      /\ \A i \in 1 .. N : w[i] = w[i - 1] \o V(i)
  BY <1>1, <1>2, WrittenBytes
<1>4. Len(buf) \in Nat /\ \A i \in 0 .. N : Len(w[i]) \in Nat
  BY <1>3, ByteIs
<1>5. Stands(w[N], buf, 5)
  BY <1>2
<1> HIDE DEF N, V
<1>6. N < Len(buf) /\ WF!Byte(buf, 5) # 0
  <2>1. 5 + Len(w[N]) <= Len(buf) /\ \A i \in 1 .. Len(w[N]) : WF!Byte(buf, 5 + i - 1) = w[N][i]
    BY <1>5 DEF Stands
  <2>2. Len(w[N]) > N /\ w[N][1] # 0 /\ Len(w[N]) \in Nat
    BY <1>1, <1>3, <1>4
  <2>3. 1 \in 1 .. Len(w[N]) /\ 5 + 1 - 1 = 5
    BY <1>1, <2>2
  <2>4. WF!Byte(buf, 5) = w[N][1]
    BY <2>1, <2>3
  <2> QED BY <1>1, <1>4, <2>1, <2>2, <2>4
\* Each part stands in it, as the part after it does.
<1> DEFINE S == {i \in 0 .. N : Stands(w[N - i], buf, 5)}
<1>7. \A i \in 0 .. N : Stands(w[i], buf, 5)
  <2>1. 0 \in S
    BY <1>1, <1>5
  <2>2. ASSUME NEW i \in 1 .. N, i - 1 \in S
        PROVE  i \in S
    <3>1. N - (i - 1) \in 1 .. N /\ N - (i - 1) - 1 = N - i /\ N - i \in 0 .. N
      BY <1>1
    <3> DEFINE k == N - (i - 1)
    <3>2. Stands(w[k], buf, 5) /\ w[k] = w[k - 1] \o V(k)
      BY <1>3, <2>2, <3>1
    <3>3. w[k - 1] \in Bytes /\ V(k) \in Bytes
      <4>1. path[k] \in Int32
        BY <1>1, <3>1
      <4> QED BY <1>3, <3>1, <4>1, VarIntBytes DEF V
    <3>4. Stands(w[k - 1], buf, 5)
      BY <3>2, <3>3, StandsInParts
    <3> QED BY <3>1, <3>4
  <2> HIDE DEF S
  <2>3. 0 .. N \subseteq S
    BY <1>1, <2>1, <2>2, CountingUp
  <2>4. ASSUME NEW i \in 0 .. N
        PROVE  Stands(w[i], buf, 5)
    <3>1. N - i \in 0 .. N /\ N - (N - i) = i
      BY <1>1
    <3> QED BY <2>3, <3>1 DEF S
  <2> QED BY <2>4
<1>8. ASSUME NEW i \in 1 .. N
      PROVE  Stands(V(i), buf, 5 + Len(w[i - 1])) /\ Len(w[i]) = Len(w[i - 1]) + Len(V(i))
  <2>1. i \in 0 .. N /\ i - 1 \in 0 .. N
    BY <1>1
  <2>2. path[i] \in Int32
    BY <1>1
  <2>3. w[i - 1] \in Bytes /\ V(i) \in Bytes /\ w[i] = w[i - 1] \o V(i)
    BY <1>3, <2>1, <2>2, VarIntBytes DEF V
  <2>4. Stands(w[i], buf, 5)
    BY <1>7, <2>1
  <2>5. Stands(w[i - 1] \o V(i), buf, 5) /\ 5 \in Nat
    BY <2>3, <2>4
  <2>6. Stands(V(i), buf, 5 + Len(w[i - 1]))
    BY <2>3, <2>5, StandsInParts, Zenon
  <2>7. Len(w[i - 1] \o V(i)) = Len(w[i - 1]) + Len(V(i))
    BY <2>3, ConcatBytes, Zenon
  <2> QED BY <2>3, <2>6, <2>7, Zenon
\* The number of the indexes is read first.
<1>9. WF!ReadVarInt(buf, 5) = [value |-> N, next |-> first]
  BY <1>1, <1>3, <1>7, ReadsBack
<1>10. PICK f : TurnsTo(f, buf, first, N) /\ WF!ReadIndexes(buf, N, first) = f[N]
  <2>1. N = IF N > Len(buf) THEN Len(buf) ELSE N
    BY <1>1, <1>4, <1>6
  <2> QED BY <1>1, <2>1, ReadIndexesIsLast
<1>11. /\ f[0] = [indexes |-> <<>>, length |-> 5 + Len(w[0])]
       /\ \A i \in 1 .. N : f[i] = WF!ReadIndex(buf, f[i - 1])
  <2>1. first = 5 + Len(w[0])
    BY <1>3
  <2> HIDE DEF first
  <2>2. N \in Nat /\ TurnsTo(f, buf, first, N)
    BY <1>1, <1>10
  <2>3. f[0] = NoneRead(first) /\ \A i \in 1 .. N : f[i] = WF!ReadIndex(buf, f[i - 1])
    BY <2>2, TurnsAre
  <2> QED BY <2>1, <2>3, Zenon DEF NoneRead
\* After each turn the indexes are those of the path.
<1> DEFINE T == {i \in 0 .. N : \E ns \in Seq(Int32) :
                    /\ f[i] = [indexes |-> ns, length |-> 5 + Len(w[i])]
                    /\ Len(ns) = i /\ \A k \in 1 .. i : ns[k] = path[k]}
<1>12. 0 \in T
  <2>1. <<>> \in Seq(Int32) /\ Len(<<>>) = 0
    BY EmptySeq
  <2>2. \A k \in 1 .. 0 : <<>>[k] = path[k]
    OBVIOUS
  <2>3. 0 \in 0 .. N
    BY <1>1
  <2> QED BY <1>11, <2>1, <2>2, <2>3, Zenon
<1>13. ASSUME NEW i \in 1 .. N, i - 1 \in T
       PROVE  i \in T
  <2>1. i - 1 \in 0 .. N
    BY <1>1
  <2>2. PICK ns \in Seq(Int32) :
            /\ f[i - 1] = [indexes |-> ns, length |-> 5 + Len(w[i - 1])]
            /\ Len(ns) = i - 1 /\ \A k \in 1 .. i - 1 : ns[k] = path[k]
    BY <1>13
  <2>3. path[i] \in Int32 /\ 5 + Len(w[i - 1]) \in Nat
    BY <1>1, <1>4, <2>1
  <2>4. Stands(V(i), buf, 5 + Len(w[i - 1]))
    BY <1>8
  <2> DEFINE pos == 5 + Len(w[i - 1])
  <2> HIDE DEF pos
  <2>5. f[i] = [indexes |-> Append(ns, path[i]), length |-> pos + Len(V(i))]
    <3>1. WF!ReadIndex(buf, [indexes |-> ns, length |-> pos]) =
              [indexes |-> Append(ns, path[i]), length |-> pos + Len(V(i))]
      BY <2>3, <2>4, TurnReadsBack, Zenon DEF V, pos
    <3> QED BY <1>11, <2>2, <3>1, Zenon DEF pos
  <2>6. /\ Append(ns, path[i]) \in Seq(Int32)
        /\ Len(Append(ns, path[i])) = i
        /\ \A k \in 1 .. i - 1 : Append(ns, path[i])[k] = path[k]
        /\ Append(ns, path[i])[i] = path[i]
    BY <2>2, <2>3, AppendProperties
  <2>7. pos + Len(V(i)) = 5 + Len(w[i])
    <3>1. Len(w[i]) = Len(w[i - 1]) + Len(V(i)) /\ Len(w[i - 1]) \in Nat /\ Len(w[i]) \in Nat
      BY <1>4, <1>8, <2>1
    <3>2. Len(V(i)) \in Nat
      <4>1. Len(V(i)) \in 1 .. 10
        BY <2>3, VarIntBytes DEF V
      <4> QED BY <4>1
    <3> QED BY <3>1, <3>2 DEF pos
  <2>8. \A k \in 1 .. i : Append(ns, path[i])[k] = path[k]
    BY <2>6
  <2>9. f[i] = [indexes |-> Append(ns, path[i]), length |-> 5 + Len(w[i])]
    BY <2>5, <2>7, Zenon
  <2>10. i \in 0 .. N
    BY <1>1
  <2> QED BY <2>6, <2>8, <2>9, <2>10, Zenon
<1> HIDE DEF T
<1>14. 0 .. N \subseteq T
  BY <1>1, <1>12, <1>13, CountingUp
<1>15. PICK ns \in Seq(Int32) :
            /\ f[N] = [indexes |-> ns, length |-> 5 + Len(w[N])]
            /\ Len(ns) = N /\ \A k \in 1 .. N : ns[k] = path[k]
  BY <1>1, <1>14 DEF T
<1>16. ns = path
  BY <1>15, SeqEqual DEF N
<1>17. WF!ReadPath(buf) = WF!ReadIndexes(buf, N, first)
  <2> DEFINE n == WF!ReadVarInt(buf, 5)
  <2>1. n.value = N /\ n.next = first /\ ~WF!Failed(n)
    BY <1>9 DEF WF!Failed
  <2>2. ~(n.value < 0)
    BY <1>1, <2>1
  <2> QED BY <1>6, <2>1, <2>2, Zenon DEF WF!ReadPath
<1>18. WF!ReadPath(buf) = [indexes |-> path, length |-> 5 + Len(WF!WritePath(path))]
  BY <1>2, <1>10, <1>15, <1>16, <1>17, Zenon
<1> QED BY <1>6, <1>18

\* A signed number of 32 bits is put together from its four bytes.
Signed32(id) == id \in Int /\ -2147483648 <= id /\ id <= 2147483647

LEMMA FourBytes ==
    ASSUME NEW id, Signed32(id),
           NEW a, a = (id \div 16777216) % 256, NEW b, b = (id \div 65536) % 256,
           NEW c, c = (id \div 256) % 256, NEW d, d = id % 256,
           NEW high, high = IF a >= 128 THEN a - 256 ELSE a
    PROVE  /\ {a, b, c, d} \subseteq Octets
           /\ ((high * 256 + b) * 256 + c) * 256 + d = id
<1>1. id \in Int /\ -2147483648 <= id /\ id <= 2147483647
  BY SMT DEF Signed32
<1>2. /\ a \in Nat /\ a < 256 /\ b \in Nat /\ b < 256
      /\ c \in Nat /\ c < 256 /\ d \in Nat /\ d < 256
  BY <1>1, SMT
<1>3. PICK q \in Int : q = id \div 256
  BY <1>1, SMT
<1>4. id = 256 * q + d /\ -8388608 <= q /\ q <= 8388607
  BY <1>1, <1>3, SMT
<1>5. PICK r \in Int : r = q \div 256
  BY SMT
<1>6. q = 256 * r + c /\ -32768 <= r /\ r <= 32767
  BY <1>3, <1>4, <1>5, SMT
<1>7. r = id \div 65536
  BY <1>1, <1>4, <1>6, <1>2, SMT
<1>8. PICK t \in Int : t = r \div 256
  BY SMT
<1>9. r = 256 * t + b /\ -128 <= t /\ t <= 127
  BY <1>6, <1>7, <1>8, SMT
<1>10. t = id \div 16777216
  BY <1>1, <1>2, <1>4, <1>6, <1>9, SMT
<1>11. high = t
  BY <1>9, <1>10, SMT
<1>12. ((high * 256 + b) * 256 + c) * 256 + d = id
  BY <1>2, <1>4, <1>6, <1>9, <1>11, SMT
<1> QED BY <1>2, <1>12, SMT DEF Octets

LEMMA HeaderBytes ==
    ASSUME NEW id, Signed32(id)
    PROVE  /\ WF!Header(id) \in Bytes /\ Len(WF!Header(id)) = 5
           /\ WF!Header(id)[1] = 0
           /\ WF!Header(id)[2] = (id \div 16777216) % 256
           /\ WF!Header(id)[3] = (id \div 65536) % 256
           /\ WF!Header(id)[4] = (id \div 256) % 256
           /\ WF!Header(id)[5] = id % 256
<1>1. PICK a, b, c, d : /\ a = (id \div 16777216) % 256 /\ b = (id \div 65536) % 256
                        /\ c = (id \div 256) % 256 /\ d = id % 256
  BY SMT
<1>2. WF!Header(id) = <<0, a, b, c, d>>
  BY <1>1, SMT DEF WF!Header
<1>3. {a, b, c, d} \subseteq Octets
  BY <1>1, FourBytes, SMT
<1>4. 0 \in Octets
  BY DEF Octets
<1>5. <<0, a, b, c, d>> \in Seq(Octets) /\ Len(<<0, a, b, c, d>>) = 5
  BY <1>3, <1>4, SMT
<1>6. WF!Header(id) \in Bytes /\ Len(WF!Header(id)) = 5
  BY <1>2, <1>5, SMT DEF Bytes
<1>7. /\ WF!Header(id)[1] = 0 /\ WF!Header(id)[2] = a /\ WF!Header(id)[3] = b
      /\ WF!Header(id)[4] = c /\ WF!Header(id)[5] = d
  BY <1>2, SMT
<1> QED BY <1>1, <1>6, <1>7, SMT

\* The schema's number is read back from the header.
LEMMA SchemaIdReads ==
    ASSUME NEW id, Signed32(id), NEW buf,
           \A i \in 1 .. 5 : WF!Byte(buf, 0 + i - 1) = WF!Header(id)[i]
    PROVE  WF!SchemaId(buf) = id
<1>1. PICK a, b, c, d : /\ a = (id \div 16777216) % 256 /\ b = (id \div 65536) % 256
                        /\ c = (id \div 256) % 256 /\ d = id % 256
  BY SMT
<1>2. /\ WF!Header(id)[2] = a /\ WF!Header(id)[3] = b
      /\ WF!Header(id)[4] = c /\ WF!Header(id)[5] = d
  BY <1>1, HeaderBytes, SMT
<1>3. /\ WF!Byte(buf, 1) = a /\ WF!Byte(buf, 2) = b
      /\ WF!Byte(buf, 3) = c /\ WF!Byte(buf, 4) = d
  BY <1>2, SMT
<1> DEFINE high == IF a >= 128 THEN a - 256 ELSE a
<1>4. WF!SchemaId(buf) = ((high * 256 + b) * 256 + c) * 256 + d
  BY <1>3, SMT DEF WF!SchemaId
<1>5. ((high * 256 + b) * 256 + c) * 256 + d = id
  BY <1>1, FourBytes, SMT
<1> QED BY <1>4, <1>5, SMT

\* Any four bytes make such a number.
LEMMA SchemaIdFits ==
    ASSUME NEW buf, \A pos \in 0 .. 4 : WF!Byte(buf, pos) \in Nat /\ WF!Byte(buf, pos) < 256
    PROVE  Signed32(WF!SchemaId(buf))
<1>1. PICK a, b, c, d : /\ a = WF!Byte(buf, 1) /\ b = WF!Byte(buf, 2)
                        /\ c = WF!Byte(buf, 3) /\ d = WF!Byte(buf, 4)
  BY SMT
<1>2. /\ a \in Nat /\ a < 256 /\ b \in Nat /\ b < 256
      /\ c \in Nat /\ c < 256 /\ d \in Nat /\ d < 256
  BY <1>1, SMT
<1>3. PICK high : high = IF a >= 128 THEN a - 256 ELSE a
  BY SMT
<1>4. high \in Int /\ -128 <= high /\ high <= 127
  BY <1>2, <1>3, SMT
<1>5. WF!SchemaId(buf) = ((high * 256 + b) * 256 + c) * 256 + d
  BY <1>1, <1>3, SMT DEF WF!SchemaId
<1> QED BY <1>2, <1>4, <1>5, SMT DEF Signed32

\* A frame of a message is read as that message's.
LEMMA FramedReads ==
    ASSUME NEW id, Signed32(id), NEW path \in Seq(Int32) \ {<<>>}, Len(path) \in Int32,
           NEW payload \in Bytes
    PROVE  LET body == IF path = <<0>> THEN <<0>> ELSE WF!WritePath(path)
           IN  /\ WF!ReadWirePrefix(WF!Framed(id, path, payload)) =
                      [schemaId |-> id, indexes |-> path, length |-> 5 + Len(body)]
               /\ Len(WF!Framed(id, path, <<>>)) = 5 + Len(body)
<1> DEFINE body == IF path = <<0>> THEN <<0>> ELSE WF!WritePath(path)
           head == WF!Header(id)
           part == head \o body
           buf == part \o payload
<1>1. /\ head \in Bytes /\ Len(head) = 5 /\ head[1] = 0
  BY HeaderBytes, SMT
<1>2. body \in Bytes /\ Len(body) > 0
  <2>1. CASE path = <<0>>
    <3>1. body = <<0>> /\ 0 \in Octets
      BY <2>1 DEF Octets
    <3>2. <<0>> \in Seq(Octets) /\ Len(<<0>>) > 0
      BY <3>1
    <3> QED BY <3>1, <3>2, Zenon DEF Bytes
  <2>2. CASE path # <<0>>
    <3>1. Len(path) \in Nat /\ Len(path) > 0
      BY EmptySeq
    <3>2. PICK w : WrittenTo(w, path, Len(path)) /\ WF!WritePath(path) = w[Len(path)]
      BY <3>1, WritePathIsLast
    <3>3. \A i \in 0 .. Len(path) : w[i] \in Bytes /\ Len(w[i]) > i
      BY <3>2, WrittenBytes
    <3>4. w[Len(path)] \in Bytes /\ Len(w[Len(path)]) > Len(path)
      BY <3>1, <3>3
    <3>5. Len(w[Len(path)]) \in Nat
      BY <3>4, ByteIs
    <3> QED BY <2>2, <3>1, <3>2, <3>4, <3>5
  <2> QED BY <2>1, <2>2
<1>3. WF!Framed(id, path, payload) = buf /\ WF!Framed(id, path, <<>>) = part \o <<>>
  BY Zenon DEF WF!Framed
<1> HIDE DEF body, head
<1>4. part \in Bytes /\ Len(part) = 5 + Len(body) /\ Len(body) \in Nat
  BY <1>1, <1>2, ConcatBytes, ZenonT(30)
<1>5. part \o <<>> = part
  BY <1>4, ConcatEmptySeq DEF Bytes
<1>6. /\ buf \in Bytes /\ Len(buf) = Len(part) + Len(payload)
      /\ Len(part) \in Nat /\ Len(payload) \in Nat
      /\ \A i \in 1 .. Len(part) + Len(payload) :
            buf[i] = IF i <= Len(part) THEN part[i] ELSE payload[i - Len(part)]
  BY <1>4, ConcatBytes
<1> HIDE DEF buf
<1>7. Stands(part, buf, 0)
  <2>1. ASSUME NEW i \in 1 .. Len(part)
        PROVE  WF!Byte(buf, 0 + i - 1) = part[i]
    <3>1. i \in 1 .. Len(part) + Len(payload) /\ i <= Len(part) /\ 0 + i - 1 + 1 = i
      BY <1>6
    <3>2. buf[i] = part[i]
      BY <1>6, <3>1
    <3> QED BY <3>1, <3>2, Zenon DEF WF!Byte
  <2>2. 0 + Len(part) <= Len(buf)
    BY <1>6
  <2> QED BY <2>1, <2>2, Zenon DEF Stands
<1>8. Stands(head, buf, 0) /\ Stands(body, buf, 5)
  <2>1. Stands(head, buf, 0) /\ Stands(body, buf, 0 + Len(head))
    <3>1. Stands(head \o body, buf, 0) /\ 0 \in Nat
      BY <1>7
    <3> QED BY <1>1, <1>2, <1>6, <3>1, StandsInParts, Zenon
  <2>2. 0 + Len(head) = 5
    BY <1>1
  <2> QED BY <2>1, <2>2, Zenon
<1> HIDE DEF part
<1>9. \A i \in 1 .. 5 : WF!Byte(buf, 0 + i - 1) = head[i]
  BY <1>1, <1>8 DEF Stands
<1>10. WF!SchemaId(buf) = id
  BY <1>9, SchemaIdReads DEF head
<1>11. WF!ReadPath(buf) = [indexes |-> path, length |-> 5 + Len(body)]
  <2>1. CASE path = <<0>>
    <3>1. body = <<0>>
      BY <2>1 DEF body
    <3>2. Len(body) = 1 /\ body[1] = 0
      BY <3>1
    <3>3. WF!Byte(buf, 5) = 0
      <4>1. WF!Byte(buf, 5 + 1 - 1) = body[1]
        BY <1>8, <3>2 DEF Stands
      <4> QED BY <3>2, <4>1
    <3>4. WF!ReadPath(buf) = [indexes |-> <<0>>, length |-> 6]
      BY <3>3, Zenon DEF WF!ReadPath
    <3> QED BY <2>1, <3>2, <3>4
  <2>2. CASE path # <<0>>
    <3>1. body = WF!WritePath(path)
      BY <2>2 DEF body
    <3> QED BY <1>6, <1>8, <3>1, PathReadsBack
  <2> QED BY <2>1, <2>2
<1>12. ~(Len(buf) < 6) /\ WF!Byte(buf, 0) = 0
  <2>1. WF!Byte(buf, 0 + 1 - 1) = head[1]
    BY <1>9
  <2> QED BY <1>1, <1>2, <1>4, <1>6, <2>1
<1>13. ~WF!Failed(WF!ReadPath(buf)) /\ WF!ReadPath(buf).indexes = path
           /\ WF!ReadPath(buf).length = 5 + Len(body)
  BY <1>11 DEF WF!Failed
<1>14. WF!ReadWirePrefix(buf) = [schemaId |-> id, indexes |-> path, length |-> 5 + Len(body)]
  BY <1>10, <1>12, <1>13, Zenon DEF WF!ReadWirePrefix
<1>15. Len(WF!Framed(id, path, <<>>)) = 5 + Len(body)
  BY <1>3, <1>4, <1>5, Zenon DEF part
<1> QED BY <1>3, <1>14, <1>15, Zenon DEF body, buf

\* A number that is read takes a byte at least, and those it would be written with.
LEMMA NumberRead ==
    ASSUME NEW buf \in Bytes, NEW start \in Nat, NEW v, v = WF!ReadVarInt(buf, start),
           ~Failed(v), ~(v.value < 0)
    PROVE  /\ v.value \in Nat /\ v.next \in Nat
           /\ start < v.next /\ v.next <= Len(buf)
           /\ v.value \in Int32 => start + WF!Size(v.value) <= v.next
<1>1. PICK s \in 1 .. 10 :
          /\ WF!EndsAfter(buf, start, s)
          /\ v = [value |-> WF!ZigZag(WF!Groups(buf, start, s)), next |-> start + s]
  BY ReadEnds
<1>2. v.value = WF!ZigZag(WF!Groups(buf, start, s)) /\ v.next = start + s
  BY <1>1
<1>3. v.value \in Nat /\ (v.value \in Int32 => WF!Size(v.value) <= s)
  BY <1>1, <1>2, SizeAtMost
<1>4. start + s <= Len(buf)
  BY <1>1 DEF WF!EndsAfter
<1>5. v.value \in Int32 => WF!Size(v.value) \in 1 .. 10
  BY SizeIs
<1> QED BY <1>2, <1>3, <1>4, <1>5

\* Groups that make zero are all zero.
LEMMA SumsOfZero ==
    ASSUME NEW s \in Nat, NEW low, NEW f, Sums(f, low, s), f[s] = 0
    PROVE  \A d \in 1 .. s : low[d] = 0
<1> DEFINE S == {k \in 0 .. s : f[s - k] = 0}
<1>1. \A d \in 1 .. s : f[d] \div 128 = f[d - 1]
  BY SumsShift
<1>2. 0 \in S
  OBVIOUS
<1>3. ASSUME NEW k \in 1 .. s, k - 1 \in S
      PROVE  k \in S
  <2>1. s - k + 1 \in 1 .. s /\ s - (k - 1) = s - k + 1 /\ (s - k + 1) - 1 = s - k
    OBVIOUS
  <2>2. f[s - k + 1] = 0
    BY <1>3, <2>1
  <2>3. f[s - k + 1] \div 128 = f[s - k]
    BY <1>1, <2>1
  <2> QED BY <2>2, <2>3
<1> HIDE DEF S
<1>4. 0 .. s \subseteq S
  BY <1>2, <1>3, CountingUp, Zenon
<1> SUFFICES ASSUME NEW d \in 1 .. s PROVE low[d] = 0
  OBVIOUS
<1>5. s - d \in 0 .. s /\ s - (d - 1) \in 0 .. s
      /\ s - (s - d) = d /\ s - (s - (d - 1)) = d - 1
  OBVIOUS
<1>6. f[d] = 0 /\ f[d - 1] = 0
  BY <1>4, <1>5 DEF S
<1>7. low[d] \in Nat /\ f[d] = low[d] + 128 * f[d - 1]
  BY DEF Sums
<1> QED BY <1>6, <1>7

\* A zero that is read is one byte, or that and bytes before it that say nothing.
LEMMA ZeroRead ==
    ASSUME NEW buf \in Bytes, NEW start \in Nat, NEW v, v = WF!ReadVarInt(buf, start),
           ~Failed(v), v.value = 0
    PROVE  /\ v.next \in Nat /\ start < v.next /\ v.next <= Len(buf)
           /\ \A k \in start .. v.next - 1 :
                  WF!Byte(buf, k) = IF k = v.next - 1 THEN 0 ELSE 128
<1>1. PICK s \in 1 .. 10 :
          /\ WF!EndsAfter(buf, start, s)
          /\ v = [value |-> WF!ZigZag(WF!Groups(buf, start, s)), next |-> start + s]
  BY ReadEnds
<1>2. WF!ZigZag(WF!Groups(buf, start, s)) = 0 /\ v.next = start + s
  BY <1>1
<1>3. /\ start + s <= Len(buf)
      /\ WF!Byte(buf, start + s - 1) < 128
      /\ \A i \in 1 .. s - 1 : WF!Byte(buf, start + i - 1) >= 128
  BY <1>1 DEF WF!EndsAfter
<1>4. PICK f, low : /\ Sums(f, low, s) /\ WF!Groups(buf, start, s) = f[s]
                    /\ \A d \in 1 .. s : low[d] = WF!Byte(buf, start + s - d) % 128
  <2>1. s \in Nat /\ start + s <= Len(buf)
    BY <1>3
  <2> QED BY <2>1, GroupsSum, ZenonT(30)
<1>5. f[s] = 0
  <2>1. f[s] \in Nat
    BY <1>4, SumsShift
  <2>2. WF!ZigZag(f[s]) = 0
    BY <1>2, <1>4
  <2> QED BY <2>1, <2>2 DEF WF!ZigZag
<1>6. \A d \in 1 .. s : low[d] = 0
  BY <1>4, <1>5, SumsOfZero
<1>7. ASSUME NEW k \in start .. v.next - 1
      PROVE  WF!Byte(buf, k) = IF k = v.next - 1 THEN 0 ELSE 128
  <2> DEFINE d == start + s - k
             i == k - start + 1
  <2>1. d \in 1 .. s /\ start + s - d = k /\ i \in 1 .. s /\ start + i - 1 = k
    BY <1>2
  <2>2. WF!Byte(buf, k) % 128 = 0
    <3>1. low[d] = WF!Byte(buf, start + s - d) % 128
      BY <1>4, <2>1
    <3>2. start + s - d = k
      OBVIOUS
    <3> HIDE DEF d
    <3> QED BY <1>6, <2>1, <3>1, <3>2
  <2>3. k \in 0 .. Len(buf) - 1
    BY <1>2, <1>3, ByteIs
  <2>4. WF!Byte(buf, k) \in Nat /\ WF!Byte(buf, k) < 256
    BY <2>3, ByteIs DEF Octets
  <2>5. k = v.next - 1 <=> k = start + s - 1
    BY <1>2
  <2>6. ASSUME k # v.next - 1
        PROVE  WF!Byte(buf, k) >= 128
    <3>1. i \in 1 .. s - 1 /\ start + i - 1 = k
      BY <1>2, <2>6
    <3> HIDE DEF i
    <3>2. WF!Byte(buf, start + i - 1) >= 128
      BY <1>3, <3>1
    <3> QED BY <3>1, <3>2
  <2>7. k = v.next - 1 => WF!Byte(buf, k) < 128
    BY <1>3, <2>5
  <2> QED BY <2>2, <2>4, <2>6, <2>7
<1> QED BY <1>2, <1>3, <1>7

\* What i turns have read of the buffer, from first on.
HasRead(r, buf, first, i) ==
    /\ r.indexes \in Seq(Nat) /\ Len(r.indexes) = i
    /\ r.length \in Nat /\ first + i <= r.length /\ r.length <= Len(buf)

\* A turn reads on: another index, and as many bytes as that takes.
ReadsOn(r, next) ==
    \E n \in Nat : /\ next.indexes = Append(r.indexes, n)
                   /\ n \in Int32 => r.length + WF!Size(n) <= next.length

LEMMA TurnReadsOn ==
    ASSUME NEW buf \in Bytes, NEW first \in Nat, NEW i \in Nat, NEW r,
           HasRead(r, buf, first, i), ~Failed(WF!ReadIndex(buf, r))
    PROVE  HasRead(WF!ReadIndex(buf, r), buf, first, i + 1) /\ ReadsOn(r, WF!ReadIndex(buf, r))
<1> DEFINE v == WF!ReadVarInt(buf, r.length)
           next == WF!ReadIndex(buf, r)
<1>1. /\ r.indexes \in Seq(Nat) /\ Len(r.indexes) = i
      /\ r.length \in Nat /\ first + i <= r.length /\ r.length <= Len(buf)
  BY DEF HasRead
<1>2. ~Failed(r) /\ ~Failed(v) /\ ~(v.value < 0)
  BY TurnReads
<1>3. next = [indexes |-> Append(r.indexes, v.value), length |-> v.next]
  BY <1>2, TurnReads
<1>4. /\ v.value \in Nat /\ v.next \in Nat
      /\ r.length < v.next /\ v.next <= Len(buf)
      /\ v.value \in Int32 => r.length + WF!Size(v.value) <= v.next
  BY <1>1, <1>2, NumberRead
<1> HIDE DEF v, next
<1>5. next.indexes = Append(r.indexes, v.value) /\ next.length = v.next
  BY <1>3
<1>6. next.indexes \in Seq(Nat) /\ Len(next.indexes) = i + 1
  BY <1>1, <1>4, <1>5, AppendProperties
<1>7. HasRead(next, buf, first, i + 1)
  BY <1>1, <1>4, <1>5, <1>6 DEF HasRead
<1>8. ReadsOn(r, next)
  BY <1>4, <1>5, Zenon DEF ReadsOn
<1> QED BY <1>7, <1>8 DEF next

\* So do they all, if none fails.
LEMMA TurnsReadOn ==
    ASSUME NEW buf \in Bytes, NEW first \in Nat, first <= Len(buf), NEW N \in Nat, NEW f,
           TurnsTo(f, buf, first, N), ~Failed(f[N])
    PROVE  /\ \A i \in 0 .. N : HasRead(f[i], buf, first, i)
           /\ \A i \in 1 .. N : ReadsOn(f[i - 1], f[i])
<1>1. f[0] = NoneRead(first) /\ \A i \in 1 .. N : f[i] = WF!ReadIndex(buf, f[i - 1])
  <2>1. TurnsTo(f, buf, first, N)
    OBVIOUS
  <2> QED BY <2>1 DEF TurnsTo
\* A failure stays to the end.
<1> DEFINE S == {i \in 0 .. N : ~Failed(f[N - i])}
<1>2. \A i \in 0 .. N : ~Failed(f[i])
  <2>1. 0 \in S
    OBVIOUS
  <2>2. ASSUME NEW i \in 1 .. N, i - 1 \in S
        PROVE  i \in S
    <3> DEFINE k == N - (i - 1)
    <3>1. k \in 1 .. N /\ k - 1 = N - i
      OBVIOUS
    <3>2. ~Failed(f[k])
      BY <2>2
    <3> HIDE DEF k
    <3>3. f[k] = WF!ReadIndex(buf, f[k - 1])
      BY <1>1, <3>1
    <3>4. ~Failed(f[k - 1])
      BY <3>2, <3>3, TurnReads, Zenon
    <3> QED BY <3>1, <3>4
  <2> HIDE DEF S
  <2>3. 0 .. N \subseteq S
    BY <2>1, <2>2, CountingUp, Zenon
  <2>4. ASSUME NEW i \in 0 .. N
        PROVE  ~Failed(f[i])
    <3>1. N - i \in 0 .. N /\ N - (N - i) = i
      OBVIOUS
    <3> QED BY <2>3, <3>1 DEF S
  <2> QED BY <2>4
<1> DEFINE T == {i \in 0 .. N : HasRead(f[i], buf, first, i)}
<1>3. 0 \in T
  <2>1. f[0].indexes = <<>> /\ f[0].length = first
    BY <1>1 DEF NoneRead
  <2>2. <<>> \in Seq(Nat) /\ Len(<<>>) = 0 /\ first + 0 <= first
    BY EmptySeq
  <2>3. HasRead(f[0], buf, first, 0)
    BY <2>1, <2>2 DEF HasRead
  <2> QED BY <2>3
<1>4. ASSUME NEW i \in 1 .. N, i - 1 \in T
      PROVE  i \in T /\ ReadsOn(f[i - 1], f[i])
  <2>1. i - 1 \in Nat /\ (i - 1) + 1 = i /\ i \in 0 .. N
    OBVIOUS
  <2>2. HasRead(f[i - 1], buf, first, i - 1)
    BY <1>4
  <2>3. f[i] = WF!ReadIndex(buf, f[i - 1]) /\ ~Failed(f[i])
    BY <1>1, <1>2, <2>1
  <2>4. HasRead(f[i], buf, first, (i - 1) + 1) /\ ReadsOn(f[i - 1], f[i])
    BY <2>1, <2>2, <2>3, TurnReadsOn, Zenon
  <2> QED BY <2>1, <2>4
<1> HIDE DEF T
<1>5. 0 .. N \subseteq T
  BY <1>3, <1>4, CountingUp, Zenon
<1>6. \A i \in 0 .. N : HasRead(f[i], buf, first, i)
  BY <1>5 DEF T
<1>7. ASSUME NEW i \in 1 .. N
      PROVE  ReadsOn(f[i - 1], f[i])
  <2>1. i - 1 \in T
    BY <1>5
  <2> QED BY <1>4, <2>1
<1> QED BY <1>6, <1>7

\* So what a frame is read to be is no longer, written as the format says.
LEMMA PathRereads ==
    ASSUME NEW buf \in Bytes, Len(buf) \in Int32, NEW first \in Nat, first <= Len(buf),
           NEW N \in Nat, NEW f, TurnsTo(f, buf, first, N), ~Failed(f[N]),
           NEW path \in Seq(Int32), path = f[N].indexes,
           N \in Int32 => 5 + WF!Size(N) <= first
    PROVE  Len(path) = N /\ 5 + Len(WF!WritePath(path)) <= f[N].length
<1>1. /\ \A i \in 0 .. N : /\ f[i].indexes \in Seq(Nat) /\ Len(f[i].indexes) = i
                           /\ f[i].length \in Nat /\ first + i <= f[i].length
                           /\ f[i].length <= Len(buf)
      /\ \A i \in 1 .. N : \E n \in Nat :
            /\ f[i].indexes = Append(f[i - 1].indexes, n)
            /\ n \in Int32 => f[i - 1].length + WF!Size(n) <= f[i].length
  BY TurnsReadOn DEF HasRead, ReadsOn
<1>2. Len(path) = N /\ N \in Int32
  <2>1. /\ Len(f[N].indexes) = N /\ f[N].length \in Nat
        /\ first + N <= f[N].length /\ f[N].length <= Len(buf)
    BY <1>1
  <2>2. Len(path) = N /\ N <= Len(buf) /\ Len(buf) \in Nat
    BY <2>1, ByteIs
  <2> QED BY <2>2, SMT DEF Int32
\* Each turn leaves the indexes there are.
<1> DEFINE S == {j \in 0 .. N : \A k \in 1 .. j : f[j].indexes[k] = f[k].indexes[k]}
<1>3. 0 \in S
  OBVIOUS
<1>4. ASSUME NEW j \in 1 .. N, j - 1 \in S
      PROVE  j \in S
  <2>1. PICK n \in Nat : f[j].indexes = Append(f[j - 1].indexes, n)
    BY <1>1
  <2>2. f[j - 1].indexes \in Seq(Nat) /\ Len(f[j - 1].indexes) = j - 1
    <3>1. j - 1 \in 0 .. N
      OBVIOUS
    <3> QED BY <1>1, <3>1, Zenon
  <2>3. \A k \in 1 .. j - 1 : f[j].indexes[k] = f[j - 1].indexes[k]
    BY <2>1, <2>2, AppendProperties
  <2>4. \A k \in 1 .. j - 1 : f[j - 1].indexes[k] = f[k].indexes[k]
    BY <1>4
  <2>5. \A k \in 1 .. j : f[j].indexes[k] = f[k].indexes[k]
    BY <2>3, <2>4
  <2> QED BY <2>5
<1> HIDE DEF S
<1>5. 0 .. N \subseteq S
  BY <1>3, <1>4, CountingUp, Zenon
<1>6. \A k \in 1 .. N : path[k] = f[k].indexes[k]
  BY <1>5 DEF S
<1>7. PICK w : WrittenTo(w, path, N) /\ WF!WritePath(path) = w[N]
  BY <1>2, WritePathIsLast
<1>8. /\ w[0] = WF!WriteVarInt(N) /\ \A i \in 0 .. N : w[i] \in Bytes
      /\ \A i \in 1 .. N : Len(w[i]) = Len(w[i - 1]) + WF!Size(path[i])
  <2>1. Len(path) \in Int32 /\ WrittenTo(w, path, Len(path))
    BY <1>2, <1>7
  <2>2. /\ w[0] = WF!WriteVarInt(Len(path)) /\ \A i \in 0 .. Len(path) : w[i] \in Bytes
        /\ \A i \in 1 .. Len(path) : Len(w[i]) = Len(w[i - 1]) + WF!Size(path[i])
    BY <2>1, WrittenBytes
  <2> QED BY <1>2, <2>2
\* Each turn reads as far as its index is written, and so does the count.
<1> DEFINE T == {i \in 0 .. N : 5 + Len(w[i]) <= f[i].length}
<1>9. 0 \in T
  <2>1. Len(w[0]) = WF!Size(N) /\ WF!Size(N) \in 1 .. 10
    BY <1>2, <1>8, VarIntBytes, SizeIs
  <2>2. first <= f[0].length /\ f[0].length \in Nat
    BY <1>1
  <2> QED BY <1>2, <2>1, <2>2
<1>10. ASSUME NEW i \in 1 .. N, i - 1 \in T
       PROVE  i \in T
  <2>1. PICK n \in Nat : /\ f[i].indexes = Append(f[i - 1].indexes, n)
                         /\ n \in Int32 => f[i - 1].length + WF!Size(n) <= f[i].length
    BY <1>1
  <2>2. f[i - 1].indexes \in Seq(Nat) /\ Len(f[i - 1].indexes) = i - 1
    <3>1. i - 1 \in 0 .. N
      OBVIOUS
    <3> QED BY <1>1, <3>1, Zenon
  <2>3. f[i].indexes[(i - 1) + 1] = n
    BY <2>1, <2>2, AppendProperties
  <2>4. path[i] = n /\ path[i] \in Int32
    BY <1>2, <1>6, <2>3
  <2>5. f[i - 1].length + WF!Size(path[i]) <= f[i].length
    BY <2>1, <2>4
  <2>6. Len(w[i]) = Len(w[i - 1]) + WF!Size(path[i]) /\ Len(w[i - 1]) \in Nat
    <3>1. i - 1 \in 0 .. N
      OBVIOUS
    <3> QED BY <1>8, <3>1, ByteIs
  <2>7. WF!Size(path[i]) \in 1 .. 10
    BY <2>4, SizeIs
  <2>8. 5 + Len(w[i - 1]) <= f[i - 1].length
    BY <1>10
  <2>9. f[i - 1].length \in Nat /\ f[i].length \in Nat
    BY <1>1
  <2>10. 5 + Len(w[i]) <= f[i].length
    <3> DEFINE u == Len(w[i - 1])
               size == WF!Size(path[i])
               before == f[i - 1].length
               after == f[i].length
    <3>1. /\ u \in Nat /\ size \in 1 .. 10 /\ before \in Nat /\ after \in Nat
          /\ before + size <= after /\ 5 + u <= before /\ Len(w[i]) = u + size
      BY <2>5, <2>6, <2>7, <2>8, <2>9, Zenon
    <3> HIDE DEF u, size, before, after
    <3>2. 5 + Len(w[i]) <= after
      BY <3>1
    <3> QED BY <3>2 DEF after
  <2> QED BY <2>10
<1> HIDE DEF T
<1>11. 0 .. N \subseteq T
  BY <1>9, <1>10, CountingUp, Zenon
<1>12. 5 + Len(w[N]) <= f[N].length
  BY <1>11 DEF T
<1> QED BY <1>2, <1>7, <1>12

\* What is read lies within the buffer, and is no longer written again.
LEMMA PathScanned ==
    ASSUME NEW buf \in Bytes, Len(buf) \in Int32, WF!Byte(buf, 5) # 0,
           ~Failed(WF!ReadPath(buf))
    PROVE  \E r : /\ WF!ReadPath(buf) = r
                  /\ r.length \in Nat /\ 6 <= r.length /\ r.length <= Len(buf)
                  /\ Len(r.indexes) \in Int32
                  /\ r.indexes = <<>> => ZeroOverlong(buf, r.length)
                  /\ r.indexes \in Seq(Int32) => 5 + Len(WF!WritePath(r.indexes)) <= r.length
<1> DEFINE n == WF!ReadVarInt(buf, 5)
           r == WF!ReadPath(buf)
<1>1. \A x : WF!Failed(x) <=> Failed(x)
  BY Zenon DEF WF!Failed, Failed
<1>2. Failed(WF!Failure("negative count"))
  BY DEF Failed, WF!Failure
<1>3. r = IF Failed(n) THEN n
          ELSE IF n.value < 0 THEN WF!Failure("negative count")
          ELSE WF!ReadIndexes(buf, n.value, n.next)
  BY <1>1, Zenon DEF WF!ReadPath
<1>4. ~Failed(r)
  OBVIOUS
<1> HIDE DEF n, r
<1>5. ~Failed(n) /\ ~(n.value < 0) /\ r = WF!ReadIndexes(buf, n.value, n.next)
  BY <1>2, <1>3, <1>4, Zenon
<1>6. /\ n.value \in Nat /\ n.next \in Nat
      /\ 5 < n.next /\ n.next <= Len(buf)
      /\ n.value \in Int32 => 5 + WF!Size(n.value) <= n.next
  BY <1>5, NumberRead DEF n
<1> DEFINE count == n.value
           first == n.next
           turns == IF count > Len(buf) THEN Len(buf) ELSE count
<1>7. Len(buf) \in Nat /\ turns \in Nat
  BY <1>6, ByteIs
<1> HIDE DEF turns
<1>8. PICK f : TurnsTo(f, buf, first, turns) /\ WF!ReadIndexes(buf, count, first) = f[turns]
  BY <1>7, ReadIndexesIsLast DEF turns
<1>9. r = f[turns] /\ ~Failed(f[turns])
  BY <1>4, <1>5, <1>8
<1>10. HasRead(r, buf, first, turns)
  BY <1>6, <1>7, <1>8, <1>9, TurnsReadOn
<1>11. /\ r.indexes \in Seq(Nat) /\ Len(r.indexes) = turns
       /\ r.length \in Nat /\ first + turns <= r.length /\ r.length <= Len(buf)
  BY <1>10 DEF HasRead
\* A count that the buffer cannot hold has failed.
<1>12. turns = count
  BY <1>6, <1>7, <1>11 DEF turns
<1>13. Len(r.indexes) \in Int32
  BY <1>6, <1>7, <1>11, SMT DEF Int32
<1>14. ASSUME r.indexes \in Seq(Int32)
       PROVE  5 + Len(WF!WritePath(r.indexes)) <= r.length
  <2>1. turns \in Int32 => 5 + WF!Size(turns) <= first
    BY <1>6, <1>12
  <2> QED BY <1>6, <1>7, <1>8, <1>9, <1>14, <2>1, PathRereads
<1>15. ASSUME r.indexes = <<>>
       PROVE  ZeroOverlong(buf, r.length)
  <2>1. turns = 0
    BY <1>11, <1>15
  <2>2. f[0] = NoneRead(first)
    BY <1>7, <1>8 DEF TurnsTo
  <2>3. r.length = first
    BY <1>9, <2>1, <2>2 DEF NoneRead
  <2>4. count = 0
    BY <1>12, <2>1
  <2>5. /\ 5 < first
        /\ \A k \in 5 .. first - 1 :
               WF!Byte(buf, k) = IF k = first - 1 THEN 0 ELSE 128
    BY <1>5, <2>4, ZeroRead DEF n
  <2>6. first # 6
    BY <2>5
  <2>7. ASSUME NEW i \in 6 .. first
        PROVE  buf[i] = IF i = first THEN 0 ELSE 128
    <3>1. i - 1 \in 5 .. first - 1 /\ (i - 1) + 1 = i
      BY <1>6
    <3>2. WF!Byte(buf, i - 1) = buf[i]
      BY <3>1 DEF WF!Byte
    <3> QED BY <1>6, <2>5, <3>1, <3>2
  <2> QED BY <1>6, <2>3, <2>5, <2>6, <2>7 DEF ZeroOverlong
<1> QED BY <1>6, <1>7, <1>11, <1>13, <1>14, <1>15 DEF r

\* Whatever the bytes, they are refused or read within the buffer: as a frame that means
\* the same, or as no path at all, where they are an overlong zero.
LEMMA ScanTruthful ==
    ASSUME NEW buf \in Bytes, Len(buf) \in Int32, ~Failed(WF!ReadWirePrefix(buf))
    PROVE  LET r == WF!ReadWirePrefix(buf)
           IN  /\ r.length \in 6 .. Len(buf)
               /\ r.indexes = <<>> => ZeroOverlong(buf, r.length)
               /\ r.indexes \in Seq(Int32) \ {<<>>} =>
                      LET again == WF!ReadWirePrefix(WF!Framed(r.schemaId, r.indexes, <<>>))
                      IN  /\ again.schemaId = r.schemaId
                          /\ again.indexes = r.indexes
                          /\ again.length <= r.length
<1> DEFINE r == WF!ReadWirePrefix(buf)
           path == WF!ReadPath(buf)
<1>1. \A x : WF!Failed(x) <=> Failed(x)
  BY Zenon DEF WF!Failed, Failed
<1>2. \A why : Failed(WF!Failure(why))
  BY DEF Failed, WF!Failure
<1>3. /\ ~(Len(buf) < 6) /\ WF!Byte(buf, 0) = 0 /\ ~Failed(path)
      /\ r = [schemaId |-> WF!SchemaId(buf), indexes |-> path.indexes, length |-> path.length]
  BY <1>1, <1>2, Zenon DEF WF!ReadWirePrefix
<1>4. Len(buf) \in Nat /\ 6 <= Len(buf)
  BY <1>3, ByteIs
<1>5. Signed32(r.schemaId)
  <2>1. r.schemaId = WF!SchemaId(buf)
    BY <1>3
  <2>2. ASSUME NEW pos \in 0 .. 4
        PROVE  WF!Byte(buf, pos) \in Nat /\ WF!Byte(buf, pos) < 256
    <3>1. pos \in 0 .. Len(buf) - 1
      BY <1>4
    <3> QED BY <3>1, ByteIs DEF Octets
  <2>3. Signed32(WF!SchemaId(buf))
    BY <2>2, SchemaIdFits, Zenon
  <2> QED BY <2>1, <2>3, Zenon
<1>6. /\ path.length \in Nat /\ 6 <= path.length /\ path.length <= Len(buf)
      /\ path.indexes = <<>> => ZeroOverlong(buf, path.length)
      /\ path.indexes \in Seq(Int32) \ {<<>>} =>
            /\ Len(path.indexes) \in Int32
            /\ path.indexes # <<0>> => 5 + Len(WF!WritePath(path.indexes)) <= path.length
  <2>1. CASE WF!Byte(buf, 5) = 0
    <3>1. path = [indexes |-> <<0>>, length |-> 6]
      BY <2>1, Zenon DEF WF!ReadPath
    <3>2. path.indexes = <<0>> /\ path.length = 6
      BY <3>1
    <3>3. Len(<<0>>) \in Int32
      BY SMT DEF Int32
    <3> QED BY <1>4, <3>2, <3>3
  <2>2. CASE WF!Byte(buf, 5) # 0
    <3>1. PICK p : /\ path = p
                   /\ p.length \in Nat /\ 6 <= p.length /\ p.length <= Len(buf)
                   /\ Len(p.indexes) \in Int32
                   /\ p.indexes = <<>> => ZeroOverlong(buf, p.length)
                   /\ p.indexes \in Seq(Int32) => 5 + Len(WF!WritePath(p.indexes)) <= p.length
      BY <1>3, <2>2, PathScanned
    <3> HIDE DEF path
    <3> QED BY <3>1
  <2> QED BY <2>1, <2>2
<1> HIDE DEF path
<1>7. r.indexes = path.indexes /\ r.length = path.length
  BY <1>3
<1> HIDE DEF r
<1>8. r.length \in 6 .. Len(buf)
  BY <1>4, <1>6, <1>7
<1>9. ASSUME r.indexes \in Seq(Int32) \ {<<>>}
      PROVE  LET again == WF!ReadWirePrefix(WF!Framed(r.schemaId, r.indexes, <<>>))
             IN  /\ again.schemaId = r.schemaId
                 /\ again.indexes = r.indexes
                 /\ again.length <= r.length
  <2> DEFINE again == WF!ReadWirePrefix(WF!Framed(r.schemaId, r.indexes, <<>>))
             body == IF r.indexes = <<0>> THEN <<0>> ELSE WF!WritePath(r.indexes)
  <2>1. <<>> \in Bytes
    BY EmptySeq DEF Bytes
  <2>2. again = [schemaId |-> r.schemaId, indexes |-> r.indexes, length |-> 5 + Len(body)]
    BY <1>5, <1>6, <1>7, <1>9, <2>1, FramedReads, Zenon
  <2>3. 5 + Len(body) <= r.length
    <3>1. CASE r.indexes = <<0>>
      <4>1. Len(<<0>>) = 1
        OBVIOUS
      <4> QED BY <1>6, <1>7, <3>1, <4>1
    <3>2. CASE r.indexes # <<0>>
      BY <1>6, <1>7, <1>9, <3>2
    <3> QED BY <3>1, <3>2
  <2> HIDE DEF body, again
  <2>4. /\ again.schemaId = r.schemaId /\ again.indexes = r.indexes
        /\ again.length = 5 + Len(body)
    BY <2>2
  <2> QED BY <2>3, <2>4, Zenon DEF again
<1>10. r.indexes = <<>> => ZeroOverlong(buf, r.length)
  BY <1>6, <1>7
<1> QED BY <1>8, <1>9, <1>10, Zenon DEF r

LEMMA ReadTruthful ==
    ASSUME call \in Calls, Read
    PROVE  WirePrefixTruthful'
<1>1. /\ call' = call /\ call.fn = "read"
      /\ result' = WF!ReadWirePrefix(WF!Framed(call.id, call.path, call.payload))
  BY DEF Read, Returns
<1>2. /\ call.id \in Int32 /\ call.path \in Seq(Int32) \ {<<>>} /\ Len(call.path) \in Int32
      /\ call.payload \in Bytes
  BY <1>1, CallsAssumption DEF CallsAssumption, ReadCall
<1>3. Signed32(call.id)
  BY <1>2, SMT DEF Int32, Signed32
<1>4. result' = [schemaId |-> call.id, indexes |-> call.path,
                 length |-> Len(WF!Framed(call.id, call.path, <<>>))]
  BY <1>1, <1>2, <1>3, FramedReads, Zenon
<1>5. ~Returned("scan")'
  BY <1>1 DEF Returned
<1> QED BY <1>1, <1>4, <1>5, Zenon DEF WirePrefixTruthful

LEMMA ScanStepTruthful ==
    ASSUME call \in Calls, Scan
    PROVE  WirePrefixTruthful'
<1>1. call' = call /\ call.fn = "scan" /\ result' = WF!ReadWirePrefix(call.bytes)
  BY DEF Scan, Returns
<1>2. call.bytes \in Bytes /\ Len(call.bytes) \in Int32
  BY <1>1, CallsAssumption DEF CallsAssumption, ScanCall
<1> DEFINE r == WF!ReadWirePrefix(call.bytes)
           Promised ==
               /\ r.length \in 6 .. Len(call.bytes)
               /\ r.indexes = <<>> => ZeroOverlong(call.bytes, r.length)
               /\ r.indexes \in Seq(Int32) \ {<<>>} =>
                      LET again == WF!ReadWirePrefix(WF!Framed(r.schemaId, r.indexes, <<>>))
                      IN  /\ again.schemaId = r.schemaId
                          /\ again.indexes = r.indexes
                          /\ again.length <= r.length
<1>3. ~Failed(r) => Promised
  BY <1>2, ScanTruthful, Zenon
<1>4. ~Returned("read")'
  BY <1>1 DEF Returned
<1>5. call' = call /\ result' = r
  BY <1>1
<1> HIDE DEF r
<1>6. WirePrefixTruthful' <=> (~(call'.fn = "scan" /\ ~Running') \/ Failed(r) \/ Promised)
  BY <1>4, <1>5, Zenon DEF WirePrefixTruthful, Returned, Failed
<1> QED BY <1>3, <1>6, Zenon

\* Whatever the message and its payload, its frame is read as the format says; and
\* whatever the bytes, what they are read to be lies within them and, if its indexes are
\* of 32 bits, means the same as the frame of its path; only an overlong zero is read to
\* be a path without indexes (readWirePrefix(), registry.ts:88-125).
THEOREM WirePrefixTruthfulAlways == Spec => []WirePrefixTruthful
<1>1. Init => WirePrefixTruthful
  BY NothingReturned, Zenon DEF WirePrefixTruthful
<1>2. call \in Calls /\ WirePrefixTruthful /\ [Next]_<<call, result>> => WirePrefixTruthful'
  <2> SUFFICES ASSUME call \in Calls, WirePrefixTruthful, [Next]_<<call, result>>
               PROVE  WirePrefixTruthful'
    OBVIOUS
  <2>1. CASE Read
    BY <2>1, ReadTruthful
  <2>2. CASE Scan
    BY <2>2, ScanStepTruthful
  <2>3. CASE Bind \/ Configure \/ Use \/ Migrate
    <3>1. ~Returned("read")' /\ ~Returned("scan")'
      BY <2>3 DEF Bind, Configure, Use, Migrate, Returns, Returned
    <3> QED BY <3>1, Zenon DEF WirePrefixTruthful
  <2>4. CASE UNCHANGED <<call, result>>
    BY <2>4, Zenon DEF WirePrefixTruthful, Returned, Running, Failed
  <2> QED BY <2>1, <2>2, <2>3, <2>4 DEF Next
<1> QED BY <1>1, <1>2, CallsStay, PTL DEF Spec
=============================================================================
