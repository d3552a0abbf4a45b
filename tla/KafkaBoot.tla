------------------------------- MODULE KafkaBoot -------------------------------
(***************************************************************************)
(* The pods of services that own Kafka contracts, against one Schema       *)
(* Registry: a pod registers the .proto files of its image while it boots  *)
(* (kafkaPlugin and registerSchemas() in packages/kafka/src/plugin.ts and  *)
(* schemas.ts), and what it then sends is framed with the latest version   *)
(* of each topic's subject (producer.ts, registry.ts).  A check run from   *)
(* CI (checkSchemaCompatibility()) reads the same registry.                *)
(*                                                                         *)
(* A subject stands for its topic and for its file: subjectForFile() and   *)
(* subjectForTopic() agree.  Subjects are numbered in the order of their   *)
(* files' names.  Pods crash, restart, and roll forward and back between   *)
(* images; requests to the registry fail, before or after they took        *)
(* effect.  The registry accepts a version the latest one is compatible    *)
(* with, and any version it has.                                           *)
(***************************************************************************)
EXTENDS Integers, Sequences, FiniteSets

CONSTANTS
    Pods, NoPod,
    Batches,        \* bound: each batch id is sent once
    Subjects,       \* naturals, in the order of the file names
    Images,         \* versions of the service's image
    Files,          \* per image, the subjects in its schemas directory ({}: no directory)
    SchemaOf,       \* per image and subject, the text of that file
    Compatible,     \* pairs <<latest, new>> the registry's policy accepts
    Messages        \* topic -> message type, the same in every image

Schemas == {SchemaOf[v][s] : v \in Images, s \in Subjects}
TypeNames == {"A", "B", "C"}
Values == TypeNames \cup {"plain", "invalid"}

ASSUME BootAssumption ==
    /\ Images # {}
    /\ Subjects \subseteq Nat /\ IsFiniteSet(Subjects)
    /\ Files \in [Images -> SUBSET Subjects]
    /\ \A v \in Images : Subjects \subseteq DOMAIN SchemaOf[v]
    /\ DOMAIN Messages \subseteq Subjects
    /\ NoPod \notin Pods

VARIABLES
    ledger,    \* the registry: per subject, its versions
    phase,     \* per pod, where its process is
    image,     \* per pod, the image it runs
    pending,   \* per pod, the files registerSchemas() has still to register
    latest,    \* per pod and subject, the cached latest version (0: none)
    state,     \* per batch, where its send() is
    from,      \* per batch, the pod that sends it
    content,   \* per batch, the topics it has a message for
    bad,       \* per batch, those whose value toMessage() refuses
    todo,      \* per batch, those whose lookup is not settled
    answer,    \* per batch and subject, the answer on its way (0: none)
    frame,     \* per batch and subject, the version it is framed with (0: none)
    handed,    \* every message handed to the raw producer
    checked,   \* the image the check is about, the subjects left, its verdicts,
    moved      \* and the subjects that gained a version since it began

podVars == <<phase, image, pending, latest>>
batchVars == <<state, from, content, bad, todo, answer, frame>>
checkVars == <<checked, moved>>
vars == <<ledger, podVars, batchVars, handed, checkVars>>

Phases == {"down", "booting", "serving", "stopped", "rejected"}
States == {"idle", "encoding", "handed", "done", "rejected", "lost"}
Verdicts == {"none", "compatible", "incompatible", "new"}
Zero == [s \in Subjects |-> 0]
NoReport == [s \in Subjects |-> "none"]
AnImage == CHOOSE v \in Images : TRUE

Init ==
    /\ ledger = [s \in Subjects |-> <<>>]
    /\ phase = [p \in Pods |-> "down"] /\ image = [p \in Pods |-> AnImage]
    /\ pending = [p \in Pods |-> {}] /\ latest = [p \in Pods |-> Zero]
    /\ state = [b \in Batches |-> "idle"]
    /\ from = [b \in Batches |-> NoPod]
    /\ content = [b \in Batches |-> {}] /\ bad = content /\ todo = content
    /\ answer = [b \in Batches |-> Zero] /\ frame = answer
    /\ handed = {}
    /\ checked = [image |-> AnImage, left |-> {},
                  report |-> NoReport, state |-> "idle"]
    /\ moved = {}

-----------------------------------------------------------------------------
(***************************************************************************)
(* The registry.                                                           *)
(***************************************************************************)
Covers(s, n, x) == \E i \in 1 .. n : ledger[s][i] = x

Registered(s, x) == Covers(s, Len(ledger[s]), x)

Admits(s, x) ==
    IF ledger[s] = <<>> THEN TRUE ELSE <<ledger[s][Len(ledger[s])], x>> \in Compatible

\* What POST /subjects/s/versions does to the ledger.
Post(s, x) ==
    IF Registered(s, x)
    THEN UNCHANGED <<ledger, moved>>
    ELSE /\ ledger' = [ledger EXCEPT ![s] = Append(@, x)]
         /\ moved' = moved \cup {s}

-----------------------------------------------------------------------------
(***************************************************************************)
(* Boot: registerSchemas() in the register() of kafkaPlugin.               *)
(***************************************************************************)
\* The sends of a process that is gone.
Abandon(p) ==
    LET gone == {b \in Batches : from[b] = p /\ state[b] # "idle"}
    IN  /\ state' = [b \in Batches |->
                        IF b \in gone /\ state[b] \in {"encoding", "handed"}
                        THEN "lost" ELSE state[b]]
        /\ todo' = [b \in Batches |-> IF b \in gone THEN {} ELSE todo[b]]
        /\ answer' = [b \in Batches |-> IF b \in gone THEN Zero ELSE answer[b]]
        /\ frame' = [b \in Batches |-> IF b \in gone THEN Zero ELSE frame[b]]
        /\ UNCHANGED <<from, content, bad>>

\* A new process, and readSchemaSources(): the directory may be missing, or
\* unreadable.
Boot(p, v) ==
    /\ phase[p] \notin {"booting", "serving"}
    /\ phase' = [phase EXCEPT ![p] = "booting"]
    /\ image' = [image EXCEPT ![p] = v]
    /\ pending' = [pending EXCEPT ![p] = Files[v]]
    /\ latest' = [latest EXCEPT ![p] = Zero]
    /\ Abandon(p)
    /\ UNCHANGED <<ledger, handed, checkVars>>

FirstPending(p) == CHOOSE s \in pending[p] : \A t \in pending[p] : s <= t

Register(p) ==
    /\ phase[p] = "booting" /\ pending[p] # {}
    /\ LET s == FirstPending(p)
           x == SchemaOf[image[p]][s]
       IN  /\ Registered(s, x) \/ Admits(s, x)
           /\ Post(s, x)
           /\ pending' = [pending EXCEPT ![p] = @ \ {s}]
    /\ UNCHANGED <<phase, image, latest, batchVars, handed, checked>>

\* Mutant: the loop logs a failure and goes on with the next file.
RegisterSwallowed(p) ==
    /\ phase[p] = "booting" /\ pending[p] # {}
    /\ pending' = [pending EXCEPT ![p] = @ \ {FirstPending(p)}]
    /\ UNCHANGED <<ledger, phase, image, latest, batchVars, handed, checkVars>>

\* The registry says no: SchemaRegistrationError, and app.start() rejects.
RegisterRejected(p) ==
    /\ phase[p] = "booting" /\ pending[p] # {}
    /\ LET s == FirstPending(p)
           x == SchemaOf[image[p]][s]
       IN  ~Registered(s, x) /\ ~Admits(s, x)
    /\ phase' = [phase EXCEPT ![p] = "rejected"]
    /\ UNCHANGED <<ledger, image, pending, latest, batchVars, handed, checkVars>>

\* The registry is not reached, or its answer is lost; the directory cannot be read.
RegisterFails(p) ==
    /\ phase[p] = "booting" /\ pending[p] # {}
    /\ LET s == FirstPending(p)
           x == SchemaOf[image[p]][s]
       IN  \/ UNCHANGED <<ledger, moved>>
           \/ Admits(s, x) /\ Post(s, x)
    /\ phase' = [phase EXCEPT ![p] = "down"]
    /\ pending' = [pending EXCEPT ![p] = {}]
    /\ UNCHANGED <<image, latest, batchVars, handed, checked>>

\* Every plugin has registered and every singleton is up.
Serve(p) ==
    /\ phase[p] = "booting" /\ pending[p] = {}
    /\ phase' = [phase EXCEPT ![p] = "serving"]
    /\ UNCHANGED <<ledger, image, pending, latest, batchVars, handed, checkVars>>

\* app.stop(): onDestroy() closes the raw producer.
Stop(p) ==
    /\ phase[p] = "serving"
    /\ phase' = [phase EXCEPT ![p] = "stopped"]
    /\ UNCHANGED <<ledger, image, pending, latest, batchVars, handed, checkVars>>

Crash(p) ==
    /\ phase[p] \in {"booting", "serving"}
    /\ phase' = [phase EXCEPT ![p] = "down"]
    /\ pending' = [pending EXCEPT ![p] = {}] /\ latest' = [latest EXCEPT ![p] = Zero]
    /\ Abandon(p)
    /\ UNCHANGED <<ledger, image, handed, checkVars>>

-----------------------------------------------------------------------------
(***************************************************************************)
(* send(): the messages of a batch are encoded concurrently, then handed   *)
(* over in one call.                                                       *)
(***************************************************************************)
\* toMessage(): a generated message of the topic's type, or, where the topic has
\* none, of a type some topic has; a plain value create() accepts for the type.
Encodable(s, val) ==
    IF val \in TypeNames
    THEN IF s \in DOMAIN Messages
         THEN Messages[s] = val
         ELSE \E t \in DOMAIN Messages : Messages[t] = val
    ELSE s \in DOMAIN Messages /\ val # "invalid"

\* send() up to its await.  An empty batch is answered at once; a value toMessage()
\* refuses rejects the batch, while the other messages go on.  The app sends once it
\* has started.
Send(b, p, vals) ==
    /\ state[b] = "idle" /\ phase[p] = "serving"
    /\ LET refused == {s \in DOMAIN vals : ~Encodable(s, vals[s])}
       IN  /\ bad' = [bad EXCEPT ![b] = refused]
           /\ todo' = [todo EXCEPT ![b] = DOMAIN vals \ refused]
           /\ state' = [state EXCEPT ![b] =
                           IF DOMAIN vals = {} THEN "done"
                           ELSE IF refused = {} THEN "encoding" ELSE "rejected"]
    /\ content' = [content EXCEPT ![b] = DOMAIN vals]
    /\ from' = [from EXCEPT ![b] = p]
    /\ UNCHANGED <<ledger, podVars, answer, frame, handed, checkVars>>

\* The lookup misses the cache of the registry client, and is answered.
Ask(b, s) ==
    /\ s \in todo[b] /\ answer[b][s] = 0
    /\ latest[from[b]][s] = 0 /\ ledger[s] # <<>>
    /\ answer' = [answer EXCEPT ![b][s] = Len(ledger[s])]
    /\ UNCHANGED <<ledger, podVars, state, from, content, bad, todo, frame,
                   handed, checkVars>>

\* Mutant: each message is produced as soon as it is encoded.
EncodedAlone(b, s, n) ==
    /\ frame' = [frame EXCEPT ![b][s] = n]
    /\ todo' = [todo EXCEPT ![b] = @ \ {s}]
    /\ handed' = handed \cup 
            {[batch |-> b, image |-> image[from[b]], subject |-> s, version |-> n]}
    /\ state' = [state EXCEPT ![b] =
                    IF @ = "encoding" /\ todo[b] = {s} THEN "handed" ELSE @]

HandedOver(b, f) ==
    {[batch |-> b, image |-> image[from[b]], subject |-> t, version |-> f[t]] : t \in content[b]}

\* One message is framed.  The last one of the batch hands all of them over, which
\* a producer that is closed rejects.
Encoded(b, s, n) ==
    /\ todo' = [todo EXCEPT ![b] = @ \ {s}]
    /\ IF state[b] # "encoding" THEN UNCHANGED <<state, frame, handed>>
       ELSE IF todo[b] # {s}
       THEN frame' = [frame EXCEPT ![b][s] = n] /\ UNCHANGED <<state, handed>>
       ELSE /\ frame' = [frame EXCEPT ![b] = Zero]
            /\ IF phase[from[b]] # "serving"
               THEN state' = [state EXCEPT ![b] = "rejected"] /\ UNCHANGED handed
               ELSE /\ state' = [state EXCEPT ![b] = "handed"]
                    /\ handed' = handed \cup HandedOver(b, [frame[b] EXCEPT ![s] = n])

EncodeCached(b, s) ==
    /\ s \in todo[b] /\ answer[b][s] = 0 /\ latest[from[b]][s] # 0
    /\ Encoded(b, s, latest[from[b]][s])
    /\ UNCHANGED <<ledger, podVars, from, content, bad, answer, checkVars>>

\* The answer arrives, and is cached.
EncodeAnswered(b, s) ==
    /\ s \in todo[b] /\ answer[b][s] # 0
    /\ Encoded(b, s, answer[b][s])
    /\ answer' = [answer EXCEPT ![b][s] = 0]
    /\ latest' = [latest EXCEPT ![from[b]][s] = answer[b][s]]
    /\ UNCHANGED <<ledger, phase, image, pending, from, content, bad, checkVars>>

\* The subject has no version, the registry does not answer, or the serializer throws,
\* with the version cached or not: SchemaEncodeError.
EncodeFails(b, s) ==
    /\ s \in todo[b]
    /\ todo' = [todo EXCEPT ![b] = @ \ {s}]
    /\ answer' = [answer EXCEPT ![b][s] = 0]
    /\ state' = [state EXCEPT ![b] = "rejected"]
    /\ frame' = [frame EXCEPT ![b] = Zero]
    /\ UNCHANGED <<ledger, podVars, from, content, bad, handed, checkVars>>

\* The raw producer settles the one call it was given.
Produced(b) ==
    /\ state[b] = "handed"
    /\ \E end \in {"done", "rejected"} : state' = [state EXCEPT ![b] = end]
    /\ UNCHANGED <<ledger, podVars, from, content, bad, todo, answer, frame,
                   handed, checkVars>>

Forget(p, S) ==
    /\ phase[p] \in {"serving", "stopped"}
    /\ latest' = [latest EXCEPT ![p] = [s \in Subjects |-> IF s \in S THEN 0 ELSE @[s]]]
    /\ UNCHANGED <<ledger, phase, image, pending, batchVars, handed, checkVars>>

\* schemaCacheTtlMs has passed.
Expire(p, s) == latest[p][s] # 0 /\ Forget(p, {s})

\* clearSchemaCache() drops every subject, whichever it is given.
ClearSchemaCache(p) == Forget(p, Subjects)

-----------------------------------------------------------------------------
(***************************************************************************)
(* checkSchemaCompatibility(): one request per file, nothing registered.   *)
(***************************************************************************)
Check(v) ==
    /\ checked.state # "checking"
    /\ checked' = [image |-> v, left |-> Files[v], report |-> NoReport, state |-> "checking"]
    /\ moved' = {}
    /\ UNCHANGED <<ledger, podVars, batchVars, handed>>

\* Mutant: the body of the answer is not looked at.
VerdictOnStatus(s, x) == IF ledger[s] = <<>> THEN "new" ELSE "compatible"

\* 404 means a new subject.
Verdict(s, x) ==
    IF ledger[s] = <<>> THEN "new"
    ELSE IF Admits(s, x) THEN "compatible" ELSE "incompatible"

CheckNext ==
    /\ checked.state = "checking" /\ checked.left # {}
    /\ LET s == CHOOSE s \in checked.left : \A t \in checked.left : s <= t
       IN  checked' = [checked EXCEPT !.left = @ \ {s},
                           !.report[s] = Verdict(s, SchemaOf[checked.image][s])]
    /\ UNCHANGED <<ledger, podVars, batchVars, handed, moved>>

\* The report is returned, or the check throws: the registry answers with an error.
CheckEnds ==
    /\ checked.state = "checking"
    /\ \E end \in {"reported", "thrown"} :
           /\ end = "reported" => checked.left = {}
           /\ checked' = [checked EXCEPT !.state = end]
    /\ UNCHANGED <<ledger, podVars, batchVars, handed, moved>>

-----------------------------------------------------------------------------
Requests(ts) == UNION {[S -> Values] : S \in SUBSET ts}

Next ==
    \/ \E p \in Pods :
          \/ \E v \in Images : Boot(p, v)
          \/ Register(p) \/ RegisterRejected(p) \/ RegisterFails(p)
          \/ Serve(p) \/ Stop(p) \/ Crash(p)
          \/ \E s \in Subjects : Expire(p, s)
          \/ ClearSchemaCache(p)
    \/ \E b \in Batches :
          \/ \E p \in Pods, vals \in Requests(Subjects) : Send(b, p, vals)
          \/ \E s \in Subjects :
                Ask(b, s) \/ EncodeCached(b, s) \/ EncodeAnswered(b, s) \/ EncodeFails(b, s)
          \/ Produced(b)
    \/ \E v \in Images : Check(v)
    \/ CheckNext \/ CheckEnds

Spec == Init /\ [][Next]_vars

-----------------------------------------------------------------------------
(***************************************************************************)
(* Properties.                                                             *)
(***************************************************************************)
\* Hazard schemas.ts:128, registration is file by file and other pods run other
\* images: whatever fails or restarts, a pod that owns a topic's contract frames
\* no message with a version older than the contract it booted with.
FramesCoverContract ==
    \A m \in handed :
        m.subject \in Files[m.image]
            => Covers(m.subject, m.version, SchemaOf[m.image][m.subject])

\* Hazard producer.ts:150, the lookups of a batch settle in any order and some of
\* them after the batch was rejected: all of its messages reach the raw producer,
\* each framed, or none does.
BatchAtomic ==
    \A b \in Batches :
        LET sent == {m \in handed : m.batch = b}
        IN  sent # {} =>
                /\ {m.subject : m \in sent} = content[b] /\ bad[b] = {}
                /\ \A m \in sent : m.version \in 1 .. Len(ledger[m.subject])

\* Hazard schemas.ts:209, the check asks file by file while pods register: once it
\* has reported an image compatible, a boot of that image is rejected only over a
\* subject that gained a version since the check began.
CheckPredictsBoot ==
    [][\A p \in Pods :
          /\ phase[p] = "booting" /\ phase'[p] = "rejected"
          /\ checked.state = "reported" /\ checked.image = image[p]
          => \/ \E s \in Files[image[p]] : checked.report[s] = "incompatible"
             \/ FirstPending(p) \in moved]_vars
-----------------------------------------------------------------------------
(***************************************************************************)
(* The inductive invariant behind the first two.                           *)
(***************************************************************************)
TypeOK ==
    /\ ledger \in [Subjects -> Seq(Schemas)]
    /\ phase \in [Pods -> Phases] /\ image \in [Pods -> Images]
    /\ pending \in [Pods -> SUBSET Subjects]
    /\ latest \in [Pods -> [Subjects -> Nat]]
    /\ state \in [Batches -> States] /\ from \in [Batches -> Pods \cup {NoPod}]
    /\ content \in [Batches -> SUBSET Subjects]
    /\ bad \in [Batches -> SUBSET Subjects] /\ todo \in [Batches -> SUBSET Subjects]
    /\ answer \in [Batches -> [Subjects -> Nat]]
    /\ frame \in [Batches -> [Subjects -> Nat]]
    /\ handed \subseteq [batch : Batches, image : Images, subject : Subjects, version : Nat]

Live(p) == p \in Pods /\ phase[p] \in {"serving", "stopped"}

\* A version a pod of that image may frame a subject with.
Current(v, s, n) ==
    /\ n \in 1 .. Len(ledger[s])
    /\ s \in Files[v] => Covers(s, n, SchemaOf[v][s])

\* A pod that is not yet or no longer booting has registered its files, and one
\* that is, those before the pending ones.
FilesRegistered ==
    \A p \in Pods :
        /\ Live(p) => pending[p] = {}
        /\ Live(p) \/ phase[p] = "booting" =>
              \A s \in Files[image[p]] \ pending[p] : Registered(s, SchemaOf[image[p]][s])

\* What a pod has cached is of its own life.
CacheCurrent ==
    \A p \in Pods, s \in Subjects :
        latest[p][s] # 0 => Live(p) /\ Current(image[p], s, latest[p][s])

\* Only a pod that is alive encodes.
SendsLive ==
    \A b \in Batches :
        /\ todo[b] # {} \/ state[b] = "encoding" => Live(from[b])
        /\ state[b] = "idle" => todo[b] = {}

LookupsCurrent ==
    \A b \in Batches, s \in Subjects :
        answer[b][s] # 0 => s \in todo[b] /\ Current(image[from[b]], s, answer[b][s])

\* A batch that may still be handed over is framed but for what is left to do.
BatchesFramed ==
    \A b \in Batches :
        state[b] = "encoding" =>
            /\ bad[b] = {}
            /\ \A s \in content[b] \ todo[b] : Current(image[from[b]], s, frame[b][s])

HandedWhole ==
    \A b \in Batches :
        /\ state[b] \in {"idle", "encoding"} => \A m \in handed : m.batch # b
        /\ \A m \in handed :
              m.batch = b => bad[b] = {} /\ m.subject \in content[b]
        /\ \A m \in handed, s \in content[b] :
              m.batch = b => \E o \in handed : o.batch = b /\ o.subject = s

HandedCurrent == \A m \in handed : Current(m.image, m.subject, m.version)

IInv ==
    /\ TypeOK /\ FilesRegistered /\ CacheCurrent /\ SendsLive
    /\ LookupsCurrent /\ BatchesFramed /\ HandedWhole /\ HandedCurrent

-----------------------------------------------------------------------------
(***************************************************************************)
(* The inductive invariant behind CheckPredictsBoot.                       *)
(***************************************************************************)
CheckTypeOK ==
    /\ checked \in [image : Images, left : SUBSET Subjects,
                    report : [Subjects -> Verdicts],
                    state : {"idle", "checking", "reported", "thrown"}]
    /\ moved \subseteq Subjects

\* The verdict on a subject that has not moved since is what the registry would
\* still answer, and a report has one for each file of the image.
ReportCurrent ==
    /\ checked.state = "reported" => checked.left = {}
    /\ checked.state # "idle" =>
          \A s \in Files[checked.image] \ (checked.left \cup moved) :
              checked.report[s] = Verdict(s, SchemaOf[checked.image][s])

PendingOwned == \A p \in Pods : pending[p] \subseteq Files[image[p]]

CheckedInv == CheckTypeOK /\ ReportCurrent /\ PendingOwned
=============================================================================
