--------------------------- MODULE MCKafkaFunctions ---------------------------
(***************************************************************************)
(* The functions that work on data alone, each called once on every input  *)
(* of a bounded set: those of KafkaFunctions, and the repair of            *)
(* descriptors.                                                            *)
(***************************************************************************)
EXTENDS KafkaFunctions, TLC, SequencesExt

MCWellKnown == <<"google", "Any">> :> "message"

DS == INSTANCE Descriptors WITH WellKnown <- MCWellKnown

-----------------------------------------------------------------------------
(***************************************************************************)
(* Inputs.                                                                 *)
(***************************************************************************)
\* Well-formed frames, and bytes of which only the first five are.
Frames == [fn : {"read"}, id : {1, 300, 70000}, payload : {<<>>, <<10, 3>>},
           path : {<<0>>, <<1>>, <<0, 0>>, <<2, 70>>, <<8200, 0, 1>>}]
Tails == UNION {[1 .. n -> {0, 1, 2, 10, 128, 254, 255}] : n \in 0 .. 3}
            \cup {[i \in 1 .. n |-> IF i = n THEN last ELSE 128] : n \in 9 .. 12, last \in {0, 128}}
Scans == {[fn |-> "scan", bytes |-> <<0, 0, 0, 0, 1>> \o t] : t \in Tails}

Field(n, t) == [names |-> n, type |-> t]
Msg(name, fs, exts, nested) ==
    [name |-> name, fields |-> fs, exts |-> exts, nested |-> nested, enums |-> {}]

\* What these files declare, read off them.
KindOf == (<<"p", "M">> :> "message") @@ (<<"p", "M", "I">> :> "message")
            @@ (<<"D">> :> "message") @@ (<<"E">> :> "enum") @@ MCWellKnown
FieldTypes == {Field(n, t) : n \in DOMAIN KindOf \cup {<<"X">>}, t \in {"unset", "enum"}}
                \cup {Field(<<>>, "string")}

\* A main file and its dependency, with a field f at one of five places.
MainWith(f, place) ==
    LET At(p) == IF p = place THEN {f} ELSE {}
        inner == Msg("I", At("nested field"), At("nested extension"), {})
    IN  [package |-> <<"p">>, enums |-> {}, exts |-> At("file extension"),
         messages |-> {Msg("M", At("field"), At("extension"), {inner})}]
DepWith(f) ==
    [package |-> <<>>, enums |-> {"E"}, exts |-> {}, messages |-> {Msg("D", {f}, {}, {})}]
Places == {"field", "extension", "nested field", "nested extension", "file extension"}
FileSets == {[fn |-> "repair", files |-> <<MainWith(f, p), DepWith(g)>>] :
                f \in FieldTypes, g \in FieldTypes, p \in Places}

Things == {[is |-> "function"], [is |-> "object"], [is |-> "broken"]}
            \cup [is : {"handler"}, topics : {<<>>, <<"t">>, <<"t", "u">>, <<"u", "u">>}]
Explicit == {<<>>} \cup {"t" :> b : b \in {[is |-> "inline"], [is |-> "object"],
                                           [is |-> "name", name |-> 1],
                                           [is |-> "name", name |-> 9]}}
Containers == [fn : {"bind"}, handlers : Explicit, container : [1 .. 3 -> Things],
               matching : {{}, {1, 2}, {1, 2, 3}}]

Env == [clientId |-> "env", brokers |-> "env", url |-> "env", schemasDir |-> "none",
        mechanism |-> "none", username |-> "none", password |-> "none",
        tls |-> "none", caPath |-> "none", verify |-> "none", autoCreate |-> "none",
        registryUser |-> "none", registryPass |-> "none"]
Code == [clientId |-> "none", brokers |-> "none", url |-> "none", schemasDir |-> "none",
         sasl |-> KC!NoSasl, tokenProvider |-> "none", tls |-> KC!NoTls, auth |-> KC!NoAuth,
         messages |-> "none", subjectFor |-> "none", ttlMs |-> 300000]

GivenSasl ==
    {KC!NoSasl} \cup
    {[mechanism |-> m, username |-> x, password |-> y, token |-> t] :
        m \in {"plain", "oauthbearer", "bad"}, x \in CodeTexts, y \in CodeTexts,
        t \in {"none", "code"}}

\* Among them {}, and TLS that is asked for with a CA file.
GivenTls ==
    {KC!NoTls} \cup {[enabled |-> d, caPath |-> p, verify |-> "none"] :
                        d \in Chosen, p \in {"none", "code"}}

\* One group of settings varies at a time.
Settings ==
    {<<[Env EXCEPT !.clientId = a, !.url = b, !.brokers = d, !.schemasDir = b],
       [Code EXCEPT !.clientId = c, !.url = c, !.brokers = e, !.schemasDir = c]>> :
        a \in EnvTexts, b \in EnvTexts, c \in CodeTexts, d \in EnvTexts,
        e \in {"none", "code", "empty"}}
    \cup
    {<<[Env EXCEPT !.mechanism = m, !.username = u, !.password = w],
       [Code EXCEPT !.tokenProvider = t, !.sasl = s]>> :
        m \in {"none", "blank", "plain", "oauthbearer", "bad"}, u \in EnvTexts, w \in EnvTexts,
        t \in {"none", "code"}, s \in GivenSasl}
    \cup
    {<<[Env EXCEPT !.tls = a, !.caPath = b, !.verify = c, !.autoCreate = e],
       [Code EXCEPT !.tls = d]>> :
        a \in Switches, b \in EnvTexts, c \in Switches, e \in Switches, d \in GivenTls}
    \cup
    {<<[Env EXCEPT !.registryUser = a, !.registryPass = b],
       [Code EXCEPT !.auth = c, !.ttlMs = n]>> :
        a \in EnvTexts, b \in EnvTexts, n \in {-1, 0, 499, 1500},
        c \in {KC!NoAuth} \cup [username : CodeTexts, password : CodeTexts]}
Configurations == [fn : {"configure"}, from : Settings, readable : BOOLEAN]

\* Up to three plugins, each with a client built from good or bad settings.
Plugin(kind, given, own, groupId) ==
    [plugin |-> kind, given |-> given, own |-> own, groupId |-> groupId]
Plugins(n) ==
    {Plugin("producer", g, o, "none") : g \in {"none", "given"}, o \in {n, "bad"}}
        \cup {Plugin("consumer", g, o, id) :
                 g \in {"none", "given"}, o \in {n, "bad"}, id \in {"blank", "code"}}
Names == <<"first", "second", "third">>
Uses == [fn : {"use"},
         uses : UNION {{us \in [1 .. n -> UNION {Plugins(Names[i]) : i \in 1 .. n}] :
                            \A i \in 1 .. n : us[i] \in Plugins(Names[i])} : n \in 1 .. 3}]

File(name, versioned, version) == [name |-> name, versioned |-> versioned, version |-> version]
SqlFiles == {File("V1", TRUE, <<1>>), File("V1.0", TRUE, <<1, 0>>), File("V1.0.1", TRUE, <<1, 0, 1>>),
             File("V1.10", TRUE, <<1, 10>>), File("V2", TRUE, <<2>>),
             File("Vx", TRUE, <<MI!NaN>>), File("readme", FALSE, <<>>)}
Directories == {[fn |-> "migrate", dir |-> d, done |-> done] :
                    d \in UNION {SetToSeqs(S) : S \in {T \in SUBSET SqlFiles : Cardinality(T) \in 1 .. 4}},
                    done \in {{}, {"V1", "V1.10"}}}

MCCalls == Frames \cup Scans \cup Containers \cup Configurations \cup Uses \cup Directories

MCInit ==
    /\ call \in FileSets \cup MCCalls
    /\ result = [running |-> TRUE]

-----------------------------------------------------------------------------
Repair == Running /\ call.fn = "repair" /\ Returns(DS!RepairSet(call.files))

MCNext == Next \/ Repair

MCSpec == MCInit /\ [][MCNext]_<<call, result>>

-----------------------------------------------------------------------------
(***************************************************************************)
(* Properties.                                                             *)
(***************************************************************************)
\* Hazard descriptors.ts:124, a field left without its type decodes to garbage and
\* throws nothing: once a set of files is repaired, each field at any depth that
\* names a type has one, the one it was declared with unless the registry had given
\* it; and only a name nothing declares makes the repair fail.
FieldsOfAll(files) == UNION {DS!FileFields(files[i]) : i \in DOMAIN files}

RepairTruthful ==
    Returned("repair") =>
        IF Failed(result)
        THEN \E f \in FieldsOfAll(call.files) : f.type = "unset" /\ f.names \notin DOMAIN KindOf
        ELSE FieldsOfAll(result.files) =
                {IF f.type = "unset" THEN [f EXCEPT !.type = KindOf[f.names]] ELSE f :
                    f \in FieldsOfAll(call.files)}
=============================================================================
