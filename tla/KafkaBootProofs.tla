---------------------------- MODULE KafkaBootProofs ----------------------------
(***************************************************************************)
(* What holds of KafkaBoot for any pods, images, files, batches and        *)
(* compatibility policy: batches are handed over whole, and nothing is     *)
(* framed with a version older than the contract its pod booted with.      *)
(***************************************************************************)
EXTENDS KafkaBoot, NaturalsInduction, WellFoundedInduction, TLAPS

\* The inductive invariant holds before any pod has booted.
LEMMA InitInv == Init => IInv
<1> SUFFICES ASSUME Init PROVE IInv
  OBVIOUS
<1> USE DEF Init, Zero
<1>1. TypeOK
  <2>1. AnImage \in Images
    BY BootAssumption DEF BootAssumption, AnImage
  <2>2. <<>> \in Seq(Schemas)
    OBVIOUS
  <2> QED BY <2>1, <2>2 DEF TypeOK, Phases, States
<1>2. FilesRegistered /\ CacheCurrent /\ SendsLive
  BY DEF FilesRegistered, CacheCurrent, SendsLive, Live
<1>3. LookupsCurrent /\ BatchesFramed /\ HandedWhole /\ HandedCurrent
  BY DEF LookupsCurrent, BatchesFramed, HandedWhole, HandedCurrent
<1> QED BY <1>1, <1>2, <1>3 DEF IInv

\* registerSchemas() and the check walk the files in the order of their names.
LEMMA LeastIsThere ==
    ASSUME BootAssumption, NEW S \in SUBSET Subjects, S # {}
    PROVE  \E s \in S : \A t \in S : s <= t
<1>1. S \subseteq Nat
  BY DEF BootAssumption
<1>2. PICK s \in S : \A t \in S : <<t, s>> \notin OpToRel(<, Nat)
  BY <1>1, WFMin, NatLessThanWellFounded, Zenon
<1>3. \A t \in S : ~(t < s)
  BY <1>1, <1>2, Zenon DEF OpToRel
<1>4. \A t \in S : s <= t
  BY <1>1, <1>3
<1> QED BY <1>4

\* FirstPending() is one of the pending files.
LEMMA FirstIsPending ==
    ASSUME BootAssumption, NEW p \in Pods, pending \in [Pods -> SUBSET Subjects],
           pending[p] # {}
    PROVE  FirstPending(p) \in pending[p]
<1>1. \E s \in pending[p] : \A t \in pending[p] : s <= t
  BY LeastIsThere
<1> QED BY <1>1 DEF FirstPending

\* The registry only ever adds versions.
Grows ==
    \A s \in Subjects :
        /\ Len(ledger[s]) <= Len(ledger'[s])
        /\ \A i \in 1 .. Len(ledger[s]) : ledger'[s][i] = ledger[s][i]

\* A post adds at most the version it is for.
LEMMA PostGrows ==
    ASSUME ledger \in [Subjects -> Seq(Schemas)], NEW s \in Subjects, NEW x \in Schemas,
           Post(s, x)
    PROVE  /\ ledger' \in [Subjects -> Seq(Schemas)] /\ Grows
           /\ Registered(s, x)'
<1>1. CASE Registered(s, x)
  BY <1>1 DEF Post, Grows, Registered, Covers
<1>2. CASE ~Registered(s, x)
  <2>1. ledger' = [ledger EXCEPT ![s] = Append(@, x)]
    BY <1>2 DEF Post
  <2>2. ledger[s] \in Seq(Schemas) /\ ledger'[s] = Append(ledger[s], x)
    BY <2>1
  <2>3. /\ ledger' \in [Subjects -> Seq(Schemas)]
        /\ Len(ledger'[s]) = Len(ledger[s]) + 1 /\ Len(ledger[s]) \in Nat
        /\ ledger'[s][Len(ledger[s]) + 1] = x
        /\ \A i \in 1 .. Len(ledger[s]) : ledger'[s][i] = ledger[s][i]
    BY <2>1, <2>2
  <2>4. Registered(s, x)'
    BY <2>3 DEF Registered, Covers
  <2>5. Grows
    <3> SUFFICES ASSUME NEW t \in Subjects
                 PROVE  /\ Len(ledger[t]) <= Len(ledger'[t])
                        /\ \A i \in 1 .. Len(ledger[t]) : ledger'[t][i] = ledger[t][i]
      BY DEF Grows
    <3>1. CASE t = s
      BY <3>1, <2>3
    <3>2. CASE t # s
      <4>1. ledger'[t] = ledger[t] /\ ledger[t] \in Seq(Schemas)
        BY <3>2, <2>1
      <4> QED BY <4>1
    <3> QED BY <3>1, <3>2
  <2> QED BY <2>3, <2>4, <2>5
<1> QED BY <1>1, <1>2

\* So what a pod may frame with, and what is registered, stays so.
Kept ==
    /\ \A v \in Images, s \in Subjects, n \in Nat : Current(v, s, n) => Current(v, s, n)'
    /\ \A s \in Subjects, x \in Schemas : Registered(s, x) => Registered(s, x)'

\* A registry that only adds keeps both.
LEMMA Stays ==
    ASSUME ledger \in [Subjects -> Seq(Schemas)], ledger' \in [Subjects -> Seq(Schemas)],
           Grows
    PROVE  Kept
<1>1. ASSUME NEW s \in Subjects, NEW n \in Nat, n <= Len(ledger[s]), NEW x, Covers(s, n, x)
      PROVE  n <= Len(ledger'[s]) /\ \E i \in 1 .. n : ledger'[s][i] = x
  <2>1. Len(ledger[s]) \in Nat /\ Len(ledger'[s]) \in Nat
    BY DEF Grows
  <2>2. PICK i \in 1 .. n : ledger[s][i] = x
    BY <1>1 DEF Covers
  <2>3. i \in 1 .. Len(ledger[s])
    BY <2>1, <1>1
  <2>4. ledger'[s][i] = x /\ Len(ledger[s]) <= Len(ledger'[s])
    BY <2>2, <2>3 DEF Grows
  <2> QED BY <2>1, <2>2, <2>4, <1>1
<1>2. ASSUME NEW v \in Images, NEW s \in Subjects, NEW n \in Nat, Current(v, s, n)
      PROVE  Current(v, s, n)'
  <2>1. n \in 1 .. Len(ledger[s]) /\ n <= Len(ledger[s]) /\ Len(ledger[s]) \in Nat
    BY <1>2 DEF Current
  <2>2. Len(ledger'[s]) \in Nat /\ n <= Len(ledger'[s])
    BY <2>1 DEF Grows
  <2>3. s \in Files[v] => Covers(s, n, SchemaOf[v][s])'
    BY <2>1, <1>1, <1>2 DEF Current, Covers
  <2> QED BY <2>1, <2>2, <2>3 DEF Current
<1>3. ASSUME NEW s \in Subjects, NEW x \in Schemas, Registered(s, x)
      PROVE  Registered(s, x)'
  <2>1. Len(ledger[s]) \in Nat /\ Len(ledger'[s]) \in Nat /\ Len(ledger[s]) <= Len(ledger'[s])
    BY DEF Grows
  <2>4. Covers(s, Len(ledger[s]), x) /\ Len(ledger[s]) <= Len(ledger[s])
    BY <1>3, <2>1 DEF Registered
  <2>2. \E i \in 1 .. Len(ledger[s]) : ledger'[s][i] = x
    BY ONLY <1>1, <2>4, <2>1, s \in Subjects
  <2>3. \E i \in 1 .. Len(ledger'[s]) : ledger'[s][i] = x
    BY <2>1, <2>2
  <2> QED BY <2>3 DEF Registered, Covers
<1> QED BY <1>2, <1>3 DEF Kept

\* What an image has for a subject is one of the schemas.
LEMMA SchemaIn ==
    ASSUME NEW v \in Images, NEW s \in Subjects
    PROVE  SchemaOf[v][s] \in Schemas
  BY DEF Schemas

\* What registers a file either adds nothing or posts it.
LEMMA RegistersOne ==
    ASSUME BootAssumption, TypeOK, NEW p \in Pods, Register(p) \/ RegisterFails(p)
    PROVE  /\ FirstPending(p) \in pending[p] /\ pending[p] \subseteq Subjects
           /\ SchemaOf[image[p]][FirstPending(p)] \in Schemas
           /\ \/ UNCHANGED ledger
              \/ Post(FirstPending(p), SchemaOf[image[p]][FirstPending(p)])
<1>1. /\ pending[p] # {} /\ pending[p] \subseteq Subjects /\ image[p] \in Images
      /\ pending \in [Pods -> SUBSET Subjects]
  BY DEF Register, RegisterFails, TypeOK
<1>2. FirstPending(p) \in pending[p] /\ FirstPending(p) \in Subjects
  BY <1>1, FirstIsPending
<1>3. SchemaOf[image[p]][FirstPending(p)] \in Schemas
  BY <1>1, <1>2, SchemaIn
<1>4. CASE Register(p)
  BY <1>1, <1>2, <1>3, <1>4 DEF Register
<1>5. CASE RegisterFails(p)
  BY <1>1, <1>2, <1>3, <1>5 DEF RegisterFails
<1> QED BY <1>4, <1>5

\* No step takes a version away.
LEMMA LedgerKept ==
    ASSUME BootAssumption, TypeOK, [Next]_vars
    PROVE  ledger' \in [Subjects -> Seq(Schemas)] /\ Kept
<1>1. ledger \in [Subjects -> Seq(Schemas)]
  BY DEF TypeOK
<1>2. CASE UNCHANGED ledger
  BY <1>1, <1>2, Stays DEF Grows
<1>3. ASSUME NEW p \in Pods, Register(p) \/ RegisterFails(p)
      PROVE  ledger' \in [Subjects -> Seq(Schemas)] /\ Kept
  <2>1. FirstPending(p) \in Subjects
    BY <1>3, RegistersOne
  <2>2. CASE UNCHANGED ledger
    BY <2>2, <1>2
  <2>3. CASE Post(FirstPending(p), SchemaOf[image[p]][FirstPending(p)])
    <3>1. ledger' \in [Subjects -> Seq(Schemas)] /\ Grows
      BY <1>1, <1>3, <2>1, <2>3, RegistersOne, PostGrows
    <3> QED BY <1>1, <3>1, Stays
  <2> QED BY <1>3, <2>2, <2>3, RegistersOne
<1>4. ASSUME NEW p \in Pods,
             \/ \E v \in Images : Boot(p, v)
             \/ RegisterRejected(p) \/ Serve(p) \/ Stop(p) \/ Crash(p)
             \/ \E s \in Subjects : Expire(p, s)
             \/ ClearSchemaCache(p)
      PROVE  UNCHANGED ledger
  BY <1>4 DEF Boot, RegisterRejected, Serve, Stop, Crash, Expire, ClearSchemaCache, Forget
<1>5. ASSUME NEW b \in Batches,
             \/ \E p \in Pods, vals \in Requests(Subjects) : Send(b, p, vals)
             \/ \E s \in Subjects :
                  Ask(b, s) \/ EncodeCached(b, s) \/ EncodeAnswered(b, s) \/ EncodeFails(b, s)
             \/ Produced(b)
      PROVE  UNCHANGED ledger
  BY <1>5 DEF Send, Ask, EncodeCached, EncodeAnswered, EncodeFails, Produced
<1>6. CASE (\E v \in Images : Check(v)) \/ CheckNext \/ CheckEnds \/ UNCHANGED vars
  BY <1>2, <1>6 DEF Check, CheckNext, CheckEnds, vars
<1> QED BY <1>2, <1>3, <1>4, <1>5, <1>6 DEF Next

-----------------------------------------------------------------------------
(***************************************************************************)
(* The steps of a pod that leave the sends alone.                          *)
(***************************************************************************)
\* What such a step keeps, whichever it is.
LEMMA PodStep ==
    ASSUME IInv, Kept, UNCHANGED <<image, batchVars, handed>>,
           \A p \in Pods, s \in Subjects : latest'[p][s] \in {0, latest[p][s]},
           \A p \in Pods : Live(p) => Live(p)'
    PROVE  /\ CacheCurrent' /\ SendsLive' /\ LookupsCurrent'
           /\ BatchesFramed' /\ HandedWhole' /\ HandedCurrent'
<1> USE DEF IInv, batchVars
<1>1. CacheCurrent'
  <2> SUFFICES ASSUME NEW q \in Pods, NEW s \in Subjects, latest'[q][s] # 0
               PROVE  Live(q)' /\ Current(image[q], s, latest[q][s])'
    BY Zenon DEF CacheCurrent
  <2>1. PICK v \in Images, n \in Nat : v = image[q] /\ n = latest[q][s] /\ n = latest'[q][s]
    BY DEF TypeOK
  <2>2. Live(q) /\ Current(v, s, n)
    BY <2>1 DEF CacheCurrent
  <2>3. Current(v, s, n)'
    BY <2>2 DEF Kept
  <2> QED BY <2>1, <2>2, <2>3 DEF Current, Covers
<1>2. \A b \in Batches : Live(from[b]) => from[b] \in Pods
  BY DEF Live
<1>3. SendsLive'
  <2> SUFFICES ASSUME NEW b \in Batches
               PROVE  /\ todo'[b] # {} \/ state'[b] = "encoding" => Live(from[b])'
                      /\ state'[b] = "idle" => todo'[b] = {}
    BY DEF SendsLive
  <2>1. CASE from[b] \in Pods
    BY <2>1 DEF SendsLive
  <2>2. CASE from[b] \notin Pods
    BY <2>2 DEF SendsLive, Live
  <2> QED BY <2>1, <2>2
<1>4. \A b \in Batches : Live(from[b]) => image[from[b]] \in Images
  BY <1>2 DEF TypeOK
<1>5. LookupsCurrent'
  <2> SUFFICES ASSUME NEW b \in Batches, NEW s \in Subjects, answer[b][s] # 0
               PROVE  s \in todo[b] /\ Current(image[from[b]], s, answer[b][s])'
    BY DEF LookupsCurrent
  <2>1. s \in todo[b] /\ Current(image[from[b]], s, answer[b][s])
    BY DEF LookupsCurrent
  <2>2. image[from[b]] \in Images /\ answer[b][s] \in Nat
    BY <2>1, <1>4 DEF SendsLive, TypeOK
  <2> QED BY <2>1, <2>2 DEF Kept
<1>6. BatchesFramed'
  <2> SUFFICES ASSUME NEW b \in Batches, state[b] = "encoding"
               PROVE  /\ bad[b] = {}
                      /\ \A s \in content[b] \ todo[b] : Current(image[from[b]], s, frame[b][s])'
    BY DEF BatchesFramed
  <2>1. image[from[b]] \in Images /\ content[b] \subseteq Subjects
    BY <1>4 DEF SendsLive, TypeOK
  <2>2. bad[b] = {}
    BY DEF BatchesFramed
  <2>3. ASSUME NEW s \in content[b] \ todo[b]
        PROVE  Current(image[from[b]], s, frame[b][s])'
    <3>1. s \in Subjects /\ frame[b][s] \in Nat
      BY <2>1 DEF TypeOK
    <3>2. Current(image[from[b]], s, frame[b][s])
      BY DEF BatchesFramed
    <3> QED BY <3>1, <3>2, <2>1 DEF Kept
  <2> QED BY <2>2, <2>3
<1>7. HandedWhole'
  BY DEF HandedWhole
<1>8. HandedCurrent'
  <2> SUFFICES ASSUME NEW m \in handed PROVE Current(m.image, m.subject, m.version)'
    BY DEF HandedCurrent
  <2>1. m.image \in Images /\ m.subject \in Subjects /\ m.version \in Nat
    BY DEF TypeOK
  <2>2. Current(m.image, m.subject, m.version)
    BY DEF HandedCurrent
  <2> QED BY <2>1, <2>2 DEF Kept
<1> QED BY <1>1, <1>3, <1>5, <1>6, <1>7, <1>8

\* A file that is registered stays registered.
LEMMA FilesStay ==
    ASSUME BootAssumption, TypeOK, Kept, UNCHANGED image,
           NEW q \in Pods, NEW t \in Files[image[q]], Registered(t, SchemaOf[image[q]][t])
    PROVE  Registered(t, SchemaOf[image[q]][t])'
<1>1. image[q] \in Images /\ t \in Subjects
  BY DEF TypeOK, BootAssumption
<1>2. PICK x \in Schemas : x = SchemaOf[image[q]][t]
  BY <1>1, SchemaIn
<1>3. Registered(t, x)
  BY <1>2
<1>4. Registered(t, x)'
  BY <1>1, <1>3 DEF Kept
<1> QED BY <1>2, <1>4 DEF Registered, Covers

\* The file a pod registers is registered, and its others stay so.
LEMMA RegisterInv ==
    ASSUME BootAssumption, IInv, NEW p \in Pods, Register(p)
    PROVE  IInv'
<1> USE DEF IInv
<1>1. Kept /\ ledger' \in [Subjects -> Seq(Schemas)]
  BY LedgerKept DEF Next
<1>2. PICK s \in Subjects :
        /\ Post(s, SchemaOf[image[p]][s]) /\ SchemaOf[image[p]][s] \in Schemas
        /\ pending' = [pending EXCEPT ![p] = @ \ {s}]
  <2>1. /\ FirstPending(p) \in Subjects
        /\ SchemaOf[image[p]][FirstPending(p)] \in Schemas
    BY RegistersOne
  <2> QED BY <2>1 DEF Register
<1>3. UNCHANGED <<phase, image, latest, batchVars, handed>>
  BY DEF Register
<1>4. TypeOK'
  <2>1. pending' \in [Pods -> SUBSET Subjects]
    BY <1>2 DEF TypeOK
  <2> QED BY <1>1, <1>3, <2>1 DEF TypeOK, batchVars
<1>5. FilesRegistered'
  <2> SUFFICES ASSUME NEW q \in Pods
               PROVE  /\ (Live(q) => pending[q] = {})'
                      /\ (Live(q) \/ phase[q] = "booting" =>
                            \A t \in Files[image[q]] \ pending[q] :
                                Registered(t, SchemaOf[image[q]][t]))'
    BY Zenon DEF FilesRegistered
  <2>1. Live(q)' => pending'[q] = {}
    BY <1>2, <1>3 DEF FilesRegistered, Live, TypeOK
  <2>2. ASSUME Live(q)' \/ phase'[q] = "booting",
               NEW t \in Files[image[q]] \ pending'[q]
        PROVE  Registered(t, SchemaOf[image[q]][t])'
    <3>3. CASE t \notin pending[q]
      <4>1. Registered(t, SchemaOf[image[q]][t])
        BY <2>2, <3>3, <1>3 DEF FilesRegistered, Live
      <4> QED BY <4>1, <1>1, <1>3, FilesStay
    <3>4. CASE t \in pending[q]
      <4>1. q = p /\ t = s
        BY <3>4, <1>2, <2>2 DEF TypeOK
      <4>2. PICK x \in Schemas : x = SchemaOf[image[p]][s]
        BY <1>2
      <4>3. Registered(s, x)'
        BY <1>2, <4>2, PostGrows DEF TypeOK
      <4> QED BY <4>1, <4>2, <4>3, <1>3 DEF Registered, Covers
    <3> QED BY <3>3, <3>4
  <2>3. image'[q] = image[q]
    BY <1>3
  <2> QED BY <2>1, <2>2, <2>3, Zenon
<1>6. \A q \in Pods : Live(q) => Live(q)'
  BY <1>3 DEF Live
<1> QED BY <1>1, <1>3, <1>4, <1>5, <1>6, PodStep

\* A pod that stops booting, in whichever way, and one that stops serving.
LEMMA PhaseInv ==
    ASSUME BootAssumption, IInv, NEW p \in Pods,
           RegisterRejected(p) \/ RegisterFails(p) \/ Serve(p) \/ Stop(p)
    PROVE  IInv'
<1> USE DEF IInv
<1>1. Kept /\ ledger' \in [Subjects -> Seq(Schemas)]
  BY LedgerKept DEF Next
<1>2. UNCHANGED <<image, latest, batchVars, handed>>
  BY DEF RegisterRejected, RegisterFails, Serve, Stop
<1>3. PICK ph \in Phases :
        /\ phase' = [phase EXCEPT ![p] = ph]
        /\ ph \in {"serving", "stopped"} => pending[p] = {} /\ phase[p] \in {"booting", "serving"}
        /\ ph # "booting" /\ (phase[p] = "serving" => ph = "stopped")
  BY DEF RegisterRejected, RegisterFails, Serve, Stop, Phases, FilesRegistered, Live, TypeOK
<1>4. /\ pending' \in [Pods -> SUBSET Subjects]
      /\ \A q \in Pods : pending'[q] = pending[q] \/ (pending'[q] = {} /\ phase'[q] = "down")
      /\ pending[p] = {} => pending'[p] = {}
  <2>1. CASE RegisterFails(p)
    <3>1. pending' = [pending EXCEPT ![p] = {}] /\ phase' = [phase EXCEPT ![p] = "down"]
      BY <2>1 DEF RegisterFails
    <3>2. pending' \in [Pods -> SUBSET Subjects] /\ pending'[p] = {}
      BY <3>1 DEF TypeOK
    <3>3. ASSUME NEW q \in Pods
          PROVE  pending'[q] = pending[q] \/ (pending'[q] = {} /\ phase'[q] = "down")
      <4>1. CASE q = p
        BY <3>1, <4>1 DEF TypeOK
      <4>2. CASE q # p
        BY <3>1, <4>2 DEF TypeOK
      <4> QED BY <4>1, <4>2
    <3> QED BY <3>2, <3>3
  <2>2. CASE RegisterRejected(p) \/ Serve(p) \/ Stop(p)
    <3>1. pending' = pending
      BY <2>2 DEF RegisterRejected, Serve, Stop
    <3> QED BY <3>1 DEF TypeOK
  <2> QED BY <2>1, <2>2
<1>5. TypeOK'
  BY <1>1, <1>2, <1>3, <1>4 DEF TypeOK, batchVars
<1>6. \A q \in Pods : Live(q) => Live(q)'
  BY <1>3 DEF Live, TypeOK, RegisterRejected, RegisterFails, Serve, Stop
<1>7. FilesRegistered'
  <2> SUFFICES ASSUME NEW q \in Pods, Live(q)' \/ phase'[q] = "booting"
               PROVE  /\ (Live(q) => pending[q] = {})'
                      /\ (\A t \in Files[image[q]] \ pending[q] :
                             Registered(t, SchemaOf[image[q]][t]))'
    BY Zenon DEF FilesRegistered
  <2>1. Live(q) \/ phase[q] = "booting"
    BY <1>3 DEF Live, TypeOK
  <2>2. Live(q)' => pending'[q] = {}
    BY <1>3, <1>4 DEF Live, TypeOK, FilesRegistered
  <2>3. pending'[q] = pending[q]
    BY <1>4 DEF Live
  <2>4. ASSUME NEW t \in Files[image[q]] \ pending[q]
        PROVE  Registered(t, SchemaOf[image[q]][t])'
    <3>1. Registered(t, SchemaOf[image[q]][t])
      BY <2>1 DEF FilesRegistered
    <3> QED BY <3>1, <1>1, <1>2, FilesStay
  <2>5. image'[q] = image[q]
    BY <1>2
  <2> QED BY <2>2, <2>3, <2>4, <2>5, Zenon
<1> QED BY <1>1, <1>2, <1>5, <1>6, <1>7, PodStep

-----------------------------------------------------------------------------
(***************************************************************************)
(* The processes that start and end, and what they forget.                 *)
(***************************************************************************)
\* A batch of a process that is gone neither encodes nor waits.
LEMMA Abandons ==
    ASSUME BootAssumption, IInv, Kept, NEW p \in Pods, Abandon(p),
           UNCHANGED handed, ~Live(p)',
           \A q \in Pods \ {p} : (Live(q) => Live(q)') /\ image'[q] = image[q]
    PROVE  /\ SendsLive' /\ LookupsCurrent'
           /\ BatchesFramed' /\ HandedWhole' /\ HandedCurrent'
<1> USE DEF IInv
<1> DEFINE Gone(b) == from[b] = p /\ state[b] # "idle"
<1>1. UNCHANGED <<from, content, bad>>
  BY DEF Abandon
<1>2. \A b \in Batches :
         /\ ~Gone(b) => state'[b] = state[b] /\ todo'[b] = todo[b]
                        /\ answer'[b] = answer[b] /\ frame'[b] = frame[b]
         /\ Gone(b) => /\ state'[b] \notin {"idle", "encoding"} /\ state[b] # "idle"
                       /\ todo'[b] = {} /\ answer'[b] = Zero
  BY DEF Abandon
<1>3. \A b \in Batches : ~Gone(b) /\ Live(from[b]) /\ (todo[b] # {} \/ state[b] = "encoding")
        => /\ from[b] \in Pods \ {p} /\ Live(from[b])' /\ image'[from[b]] = image[from[b]]
           /\ image[from[b]] \in Images
  BY <1>1 DEF SendsLive, Live, TypeOK
<1>4. SendsLive'
  <2> SUFFICES ASSUME NEW b \in Batches
               PROVE  /\ todo'[b] # {} \/ state'[b] = "encoding" => Live(from[b])'
                      /\ state'[b] = "idle" => todo'[b] = {}
    BY Zenon DEF SendsLive
  <2>1. CASE Gone(b)
    BY <2>1, <1>2
  <2>2. CASE ~Gone(b)
    BY <2>2, <1>2, <1>3 DEF SendsLive
  <2> QED BY <2>1, <2>2
<1>5. LookupsCurrent'
  <2> SUFFICES ASSUME NEW b \in Batches, NEW s \in Subjects, answer'[b][s] # 0
               PROVE  s \in todo'[b] /\ Current(image[from[b]], s, answer[b][s])'
    BY Zenon DEF LookupsCurrent
  <2>1. ~Gone(b)
    BY <1>2 DEF Zero
  <2>2. answer'[b] = answer[b] /\ todo'[b] = todo[b]
    BY <2>1, <1>2
  <2>3. s \in todo[b] /\ Current(image[from[b]], s, answer[b][s])
    BY <2>2 DEF LookupsCurrent
  <2>4. Live(from[b])
    BY <2>3 DEF SendsLive
  <2>5. image'[from[b]] = image[from[b]] /\ image[from[b]] \in Images
    BY <2>1, <2>3, <2>4, <1>3
  <2>6. PICK v \in Images : v = image[from[b]]
    BY <2>5
  <2>7. PICK n \in Nat : n = answer[b][s]
    BY DEF TypeOK
  <2>8. Current(v, s, n)'
    BY <2>3, <2>6, <2>7 DEF Kept
  <2> QED BY <2>2, <2>3, <2>5, <2>6, <2>7, <2>8, <1>1 DEF Current, Covers
<1>6. BatchesFramed'
  <2> SUFFICES ASSUME NEW b \in Batches, state'[b] = "encoding"
               PROVE  /\ bad'[b] = {}
                      /\ \A s \in content'[b] \ todo'[b] : Current(image[from[b]], s, frame[b][s])'
    BY Zenon DEF BatchesFramed
  <2>1. ~Gone(b)
    BY <1>2
  <2>2. state[b] = "encoding" /\ frame'[b] = frame[b] /\ todo'[b] = todo[b]
    BY <2>1, <1>2
  <2>3. Live(from[b])
    BY <2>2 DEF SendsLive
  <2>4. image'[from[b]] = image[from[b]] /\ image[from[b]] \in Images
    BY <2>1, <2>2, <2>3, <1>3
  <2>5. ASSUME NEW s \in content[b] \ todo[b]
        PROVE  Current(image[from[b]], s, frame[b][s])'
    <3>1. Current(image[from[b]], s, frame[b][s]) /\ s \in Subjects
      BY <2>2 DEF BatchesFramed, TypeOK
    <3>2. PICK v \in Images : v = image[from[b]]
      BY <2>4
    <3>3. PICK n \in Nat : n = frame[b][s]
      BY <3>1 DEF TypeOK
    <3>4. Current(v, s, n)'
      BY <3>1, <3>2, <3>3 DEF Kept
    <3> QED BY <2>2, <2>4, <3>2, <3>3, <3>4, <1>1 DEF Current, Covers
  <2>6. bad[b] = {}
    BY <2>2 DEF BatchesFramed
  <2> QED BY <2>2, <2>5, <2>6, <1>1
<1>7. HandedWhole'
  BY <1>1, <1>2 DEF HandedWhole
<1>8. HandedCurrent'
  <2> SUFFICES ASSUME NEW m \in handed PROVE Current(m.image, m.subject, m.version)'
    BY DEF HandedCurrent
  <2>1. m.image \in Images /\ m.subject \in Subjects /\ m.version \in Nat
    BY DEF TypeOK
  <2>2. Current(m.image, m.subject, m.version)
    BY DEF HandedCurrent
  <2> QED BY <2>1, <2>2 DEF Kept
<1> QED BY <1>4, <1>5, <1>6, <1>7, <1>8

\* What is left of the sends has its type.
AbandonTyped ==
    /\ state' \in [Batches -> States] /\ from' \in [Batches -> Pods \cup {NoPod}]
    /\ content' \in [Batches -> SUBSET Subjects]
    /\ bad' \in [Batches -> SUBSET Subjects] /\ todo' \in [Batches -> SUBSET Subjects]
    /\ answer' \in [Batches -> [Subjects -> Nat]]
    /\ frame' \in [Batches -> [Subjects -> Nat]]

\* Abandon() keeps the types.
LEMMA AbandonType ==
    ASSUME TypeOK, NEW p \in Pods, Abandon(p)
    PROVE  AbandonTyped
<1>1. Zero \in [Subjects -> Nat]
  BY DEF Zero
<1>2. state' \in [Batches -> States] /\ todo' \in [Batches -> SUBSET Subjects]
  BY DEF Abandon, TypeOK, States
<1>3. /\ answer' \in [Batches -> [Subjects -> Nat]]
      /\ frame' \in [Batches -> [Subjects -> Nat]]
  BY <1>1 DEF Abandon, TypeOK
<1> QED BY <1>2, <1>3 DEF AbandonTyped, Abandon, TypeOK

\* A pod that starts has no file registered and nothing cached.
LEMMA BootInv ==
    ASSUME BootAssumption, IInv, NEW p \in Pods, NEW v \in Images, Boot(p, v)
    PROVE  IInv'
<1> USE DEF IInv
<1>1. Kept /\ UNCHANGED <<ledger, handed>> /\ ledger' \in [Subjects -> Seq(Schemas)]
  BY LedgerKept DEF Next, Boot
<1>2. /\ phase' = [phase EXCEPT ![p] = "booting"] /\ image' = [image EXCEPT ![p] = v]
      /\ pending' = [pending EXCEPT ![p] = Files[v]]
      /\ latest' = [latest EXCEPT ![p] = Zero] /\ Abandon(p)
  BY DEF Boot
<1>3. ~Live(p)' /\ phase'[p] = "booting" /\ image'[p] = v /\ pending'[p] = Files[v]
      /\ latest'[p] = Zero
  BY <1>2 DEF Live, TypeOK
<1>4. \A q \in Pods \ {p} :
         /\ phase'[q] = phase[q] /\ image'[q] = image[q] /\ pending'[q] = pending[q]
         /\ latest'[q] = latest[q]
  BY <1>2 DEF TypeOK
<1>5. TypeOK'
  <2>1. phase' \in [Pods -> Phases] /\ image' \in [Pods -> Images]
    BY <1>2 DEF TypeOK, Phases
  <2>2. pending' \in [Pods -> SUBSET Subjects] /\ latest' \in [Pods -> [Subjects -> Nat]]
    BY <1>2 DEF TypeOK, BootAssumption, Zero
  <2>3. AbandonTyped
    BY <1>2, AbandonType DEF AbandonTyped
  <2> QED BY <1>1, <2>1, <2>2, <2>3 DEF TypeOK, AbandonTyped
<1>6. FilesRegistered'
  <2> SUFFICES ASSUME NEW q \in Pods
               PROVE  /\ (Live(q) => pending[q] = {})'
                      /\ (Live(q) \/ phase[q] = "booting" =>
                            \A t \in Files[image[q]] \ pending[q] :
                                Registered(t, SchemaOf[image[q]][t]))'
    BY Zenon DEF FilesRegistered
  <2>1. CASE q = p
    BY <1>3, <2>1
  <2>2. CASE q # p
    BY <1>1, <1>4, <2>2 DEF FilesRegistered, Live, Registered, Covers
  <2> QED BY <2>1, <2>2
<1>7. CacheCurrent'
  <2> SUFFICES ASSUME NEW q \in Pods, NEW s \in Subjects, latest'[q][s] # 0
               PROVE  Live(q)' /\ Current(image[q], s, latest[q][s])'
    BY Zenon DEF CacheCurrent
  <2>1. q # p
    BY <1>3 DEF Zero
  <2> QED BY <1>1, <1>4, <2>1 DEF CacheCurrent, Live, Current, Covers
<1>8. \A q \in Pods \ {p} : (Live(q) => Live(q)') /\ image'[q] = image[q]
  BY <1>4 DEF Live
<1> QED BY <1>1, <1>2, <1>3, <1>5, <1>6, <1>7, <1>8, Abandons

\* A process that crashes takes its caches and its sends with it.
LEMMA CrashInv ==
    ASSUME BootAssumption, IInv, NEW p \in Pods, Crash(p)
    PROVE  IInv'
<1> USE DEF IInv
<1>1. Kept /\ UNCHANGED <<ledger, image, handed>> /\ ledger' \in [Subjects -> Seq(Schemas)]
  BY LedgerKept DEF Next, Crash
<1>2. /\ phase' = [phase EXCEPT ![p] = "down"]
      /\ pending' = [pending EXCEPT ![p] = {}]
      /\ latest' = [latest EXCEPT ![p] = Zero] /\ Abandon(p)
  BY DEF Crash
<1>3. ~Live(p)' /\ phase'[p] = "down" /\ latest'[p] = Zero
  BY <1>2 DEF Live, TypeOK
<1>4. \A q \in Pods \ {p} :
         phase'[q] = phase[q] /\ pending'[q] = pending[q] /\ latest'[q] = latest[q]
  BY <1>2 DEF TypeOK
<1>5. TypeOK'
  <2>1. phase' \in [Pods -> Phases] /\ image' \in [Pods -> Images]
    BY <1>1, <1>2 DEF TypeOK, Phases
  <2>2. pending' \in [Pods -> SUBSET Subjects] /\ latest' \in [Pods -> [Subjects -> Nat]]
    BY <1>2 DEF TypeOK, Zero
  <2>3. AbandonTyped
    BY <1>2, AbandonType DEF AbandonTyped
  <2> QED BY <1>1, <2>1, <2>2, <2>3 DEF TypeOK, AbandonTyped
<1>6. FilesRegistered'
  <2> SUFFICES ASSUME NEW q \in Pods
               PROVE  /\ (Live(q) => pending[q] = {})'
                      /\ (Live(q) \/ phase[q] = "booting" =>
                            \A t \in Files[image[q]] \ pending[q] :
                                Registered(t, SchemaOf[image[q]][t]))'
    BY Zenon DEF FilesRegistered
  <2>1. CASE q = p
    BY <1>3, <2>1
  <2>2. CASE q # p
    BY <1>1, <1>4, <2>2 DEF FilesRegistered, Live, Registered, Covers
  <2> QED BY <2>1, <2>2
<1>7. CacheCurrent'
  <2> SUFFICES ASSUME NEW q \in Pods, NEW s \in Subjects, latest'[q][s] # 0
               PROVE  Live(q)' /\ Current(image[q], s, latest[q][s])'
    BY Zenon DEF CacheCurrent
  <2>1. q # p
    BY <1>3 DEF Zero
  <2> QED BY <1>1, <1>4, <2>1 DEF CacheCurrent, Live, Current, Covers
<1>8. \A q \in Pods \ {p} : (Live(q) => Live(q)') /\ image'[q] = image[q]
  BY <1>1, <1>4 DEF Live
<1> QED BY <1>1, <1>2, <1>3, <1>5, <1>6, <1>7, <1>8, Abandons

\* A pod that drops answers from its cache, all at once or as they expire.
LEMMA ForgetInv ==
    ASSUME BootAssumption, IInv, NEW p \in Pods,
           ClearSchemaCache(p) \/ \E s \in Subjects : Expire(p, s)
    PROVE  IInv'
<1> USE DEF IInv
<1>1. PICK S \in SUBSET Subjects : Forget(p, S)
  BY DEF ClearSchemaCache, Expire
<1>2. UNCHANGED <<ledger, phase, image, pending, batchVars, handed>>
  BY <1>1 DEF Forget
<1>3. Kept
  BY LedgerKept DEF Next
<1>4. /\ latest' \in [Pods -> [Subjects -> Nat]]
      /\ \A q \in Pods, s \in Subjects : latest'[q][s] \in {0, latest[q][s]}
  <2>1. latest' = [latest EXCEPT ![p] = [s \in Subjects |-> IF s \in S THEN 0 ELSE latest[p][s]]]
    BY <1>1 DEF Forget
  <2> QED BY <2>1 DEF TypeOK
<1>5. TypeOK' /\ FilesRegistered'
  BY <1>2, <1>4 DEF TypeOK, batchVars, FilesRegistered, Live, Registered, Covers
<1>6. \A q \in Pods : Live(q) => Live(q)'
  BY <1>2 DEF Live
<1> QED BY <1>2, <1>3, <1>4, <1>5, <1>6, PodStep

\* A check, and a stutter, change nothing of this.
LEMMA CheckInv ==
    ASSUME IInv, (\E v \in Images : Check(v)) \/ CheckNext \/ CheckEnds \/ UNCHANGED vars
    PROVE  IInv'
<1>1. UNCHANGED <<ledger, podVars, batchVars, handed>>
  BY DEF Check, CheckNext, CheckEnds, vars
<1> USE <1>1 DEF IInv, podVars, batchVars
<1>2. TypeOK'
  BY DEF TypeOK
<1>3. FilesRegistered' /\ CacheCurrent'
  BY DEF FilesRegistered, CacheCurrent, Live, Registered, Current, Covers
<1>4. SendsLive' /\ HandedWhole'
  BY DEF SendsLive, HandedWhole, Live
<1>5. LookupsCurrent' /\ BatchesFramed' /\ HandedCurrent'
  BY DEF LookupsCurrent, BatchesFramed, HandedCurrent, Current, Covers
<1> QED BY <1>2, <1>3, <1>4, <1>5

-----------------------------------------------------------------------------
(***************************************************************************)
(* The steps of a batch.                                                   *)
(***************************************************************************)
\* What the invariant says of one batch that may still be handed over.
Sound(b) ==
    /\ todo[b] # {} \/ state[b] = "encoding" => Live(from[b])
    /\ state[b] = "idle" => todo[b] = {}
    /\ \A s \in Subjects :
          answer[b][s] # 0 => s \in todo[b] /\ Current(image[from[b]], s, answer[b][s])
    /\ state[b] = "encoding" =>
          /\ bad[b] = {}
          /\ \A s \in content[b] \ todo[b] : Current(image[from[b]], s, frame[b][s])

\* The other batches are as they were.
OnlyBatch(b) ==
    /\ UNCHANGED <<ledger, phase, image, pending>>
    /\ \A c \in Batches \ {b} :
          /\ state'[c] = state[c] /\ from'[c] = from[c] /\ content'[c] = content[c]
          /\ bad'[c] = bad[c] /\ todo'[c] = todo[c]
          /\ answer'[c] = answer[c] /\ frame'[c] = frame[c]

\* So a step of one batch leaves what is known of the others.
LEMMA BatchStep ==
    ASSUME IInv, NEW b \in Batches, OnlyBatch(b), Sound(b)'
    PROVE  SendsLive' /\ LookupsCurrent' /\ BatchesFramed' /\ FilesRegistered'
<1> USE DEF IInv
<1>1. FilesRegistered'
  BY DEF OnlyBatch, FilesRegistered, Live, Registered, Covers
<1>2. ASSUME NEW c \in Batches, c # b
      PROVE  Sound(c)'
  <2>1. Sound(c)
    BY DEF Sound, SendsLive, LookupsCurrent, BatchesFramed
  <2>2. /\ UNCHANGED <<ledger, phase, image, pending>>
        /\ state'[c] = state[c] /\ from'[c] = from[c] /\ content'[c] = content[c]
        /\ bad'[c] = bad[c] /\ todo'[c] = todo[c]
        /\ answer'[c] = answer[c] /\ frame'[c] = frame[c]
    BY <1>2 DEF OnlyBatch
  <2> QED BY <2>1, <2>2 DEF Sound, Live, Current, Covers
<1>3. \A c \in Batches : Sound(c)'
  BY <1>2
<1>4. SendsLive'
  BY <1>3 DEF SendsLive, Sound
<1>5. LookupsCurrent'
  BY <1>3 DEF LookupsCurrent, Sound
<1>6. BatchesFramed'
  BY <1>3 DEF BatchesFramed, Sound
<1> QED BY <1>1, <1>4, <1>5, <1>6

\* Unless it hands something over, what was handed is as it was.
LEMMA NothingHanded ==
    ASSUME IInv, NEW b \in Batches, OnlyBatch(b), UNCHANGED handed,
           UNCHANGED <<content[b], bad[b]>> \/ state[b] = "idle",
           state'[b] \in {"idle", "encoding"} => state[b] \in {"idle", "encoding"}
    PROVE  HandedWhole' /\ HandedCurrent'
<1> USE DEF IInv
<1>1. HandedCurrent'
  BY DEF HandedCurrent, OnlyBatch, Current, Covers
<1>2. ASSUME NEW c \in Batches
      PROVE  /\ state'[c] \in {"idle", "encoding"} => \A m \in handed : m.batch # c
             /\ \A m \in handed :
                   m.batch = c => bad'[c] = {} /\ m.subject \in content'[c]
             /\ \A m \in handed, s \in content'[c] :
                   m.batch = c => \E o \in handed : o.batch = c /\ o.subject = s
  <2>1. CASE c = b
    BY <2>1 DEF HandedWhole
  <2>2. CASE c # b
    <3>1. state'[c] = state[c] /\ content'[c] = content[c] /\ bad'[c] = bad[c]
      BY <2>2 DEF OnlyBatch
    <3> QED BY <3>1 DEF HandedWhole
  <2> QED BY <2>1, <2>2
<1>3. HandedWhole'
  BY <1>2 DEF HandedWhole
<1> QED BY <1>1, <1>3

\* A batch that starts has all it can send left to do, or is refused.
LEMMA SendInv ==
    ASSUME BootAssumption, IInv, NEW b \in Batches, NEW p \in Pods,
           NEW vals \in Requests(Subjects), Send(b, p, vals)
    PROVE  IInv'
<1> USE DEF IInv
<1>1. PICK topics \in SUBSET Subjects, refused \in SUBSET Subjects :
        /\ bad' = [bad EXCEPT ![b] = refused]
        /\ todo' = [todo EXCEPT ![b] = topics \ refused]
        /\ content' = [content EXCEPT ![b] = topics]
        /\ \E e \in {"done", "encoding", "rejected"} :
              /\ state' = [state EXCEPT ![b] = e]
              /\ e = "encoding" => refused = {}
  <2>1. DOMAIN vals \in SUBSET Subjects
    BY DEF Requests
  <2>2. {s \in DOMAIN vals : ~Encodable(s, vals[s])} \in SUBSET Subjects
    BY <2>1
  <2> QED BY <2>1, <2>2 DEF Send
<1>2. /\ state[b] = "idle" /\ phase[p] = "serving"
      /\ from' = [from EXCEPT ![b] = p]
      /\ UNCHANGED <<ledger, phase, image, pending, latest, answer, frame, handed>>
  BY DEF Send, podVars
<1>3. TypeOK'
  <2>1. /\ state' \in [Batches -> States] /\ from' \in [Batches -> Pods \cup {NoPod}]
        /\ content' \in [Batches -> SUBSET Subjects]
    BY <1>1, <1>2 DEF TypeOK, States
  <2>2. bad' \in [Batches -> SUBSET Subjects] /\ todo' \in [Batches -> SUBSET Subjects]
    BY <1>1 DEF TypeOK
  <2> QED BY <1>2, <2>1, <2>2 DEF TypeOK
<1>4. OnlyBatch(b)
  BY <1>1, <1>2 DEF OnlyBatch, TypeOK
<1>5. Sound(b)'
  <2>1. /\ from'[b] = p /\ bad'[b] = refused /\ todo'[b] = topics \ refused
        /\ content'[b] = topics /\ state'[b] \in {"done", "encoding", "rejected"}
        /\ state'[b] = "encoding" => refused = {}
    BY <1>1, <1>2 DEF TypeOK
  <2>2. Live(from[b])'
    BY <1>2, <2>1 DEF Live
  <2>3. \A s \in Subjects : answer'[b][s] = 0
    BY <1>2 DEF SendsLive, LookupsCurrent
  <2>4. state'[b] = "encoding" => bad'[b] = {} /\ content'[b] \ todo'[b] = {}
    BY <2>1
  <2> QED BY <2>1, <2>2, <2>3, <2>4 DEF Sound
<1>6. CacheCurrent'
  BY <1>2 DEF CacheCurrent, Live, Current, Covers
<1>7. HandedWhole' /\ HandedCurrent'
  BY <1>2, <1>4, NothingHanded
<1> QED BY <1>3, <1>4, <1>5, <1>6, <1>7, BatchStep

\* What the registry answers is the version the pod's file is covered by, as the
\* file is registered.
LEMMA AskInv ==
    ASSUME BootAssumption, IInv, NEW b \in Batches, NEW s \in Subjects, Ask(b, s)
    PROVE  IInv'
<1> USE DEF IInv
<1>1. /\ s \in todo[b] /\ answer[b][s] = 0 /\ ledger[s] # <<>>
      /\ answer' = [answer EXCEPT ![b][s] = Len(ledger[s])]
      /\ UNCHANGED <<ledger, phase, image, pending, latest, state, from, content, bad, todo,
                     frame, handed>>
  BY DEF Ask, podVars
<1>2. ledger[s] \in Seq(Schemas) /\ Len(ledger[s]) \in Nat /\ Len(ledger[s]) # 0
  BY <1>1 DEF TypeOK
<1>3. TypeOK'
  <2>1. answer' \in [Batches -> [Subjects -> Nat]]
    BY <1>1, <1>2 DEF TypeOK
  <2> QED BY <1>1, <2>1 DEF TypeOK
<1>4. OnlyBatch(b)
  BY <1>1 DEF OnlyBatch, TypeOK
<1>5. Live(from[b]) /\ from[b] \in Pods /\ image[from[b]] \in Images
  BY <1>1 DEF SendsLive, Live, TypeOK
<1>6. Current(image[from[b]], s, Len(ledger[s]))
  <2>1. s \in Files[image[from[b]]] => Registered(s, SchemaOf[image[from[b]]][s])
    BY <1>5 DEF FilesRegistered
  <2> QED BY <1>2, <2>1 DEF Current, Registered
<1>7. Sound(b)'
  <2>1. Sound(b)
    BY DEF Sound, SendsLive, LookupsCurrent, BatchesFramed
  <2>2. ASSUME NEW t \in Subjects, answer'[b][t] # 0
        PROVE  t \in todo[b] /\ Current(image[from[b]], t, answer[b][t])'
    <3>1. CASE t = s
      <4>1. answer'[b][s] = Len(ledger[s])
        BY <1>1, <1>2 DEF TypeOK
      <4> QED BY <1>1, <1>6, <3>1, <4>1 DEF Current, Covers
    <3>2. CASE t # s
      <4>1. answer'[b][t] = answer[b][t]
        BY <1>1, <3>2 DEF TypeOK
      <4>2. t \in todo[b] /\ Current(image[from[b]], t, answer[b][t])
        BY <2>1, <2>2, <4>1 DEF Sound
      <4> QED BY <1>1, <4>1, <4>2 DEF Current, Covers
    <3> QED BY <3>1, <3>2
  <2>3. state[b] = "encoding" =>
          \A t \in content[b] \ todo[b] : Current(image[from[b]], t, frame[b][t])'
    BY <2>1, <1>1 DEF Sound, Current, Covers
  <2> QED BY <1>1, <2>1, <2>2, <2>3 DEF Sound, Live
<1>8. CacheCurrent'
  BY <1>1 DEF CacheCurrent, Live, Current, Covers
<1>9. HandedWhole' /\ HandedCurrent'
  BY <1>1, <1>4, NothingHanded
<1> QED BY <1>3, <1>4, <1>7, <1>8, <1>9, BatchStep

\* A batch one of whose lookups fails hands nothing over.
LEMMA EncodeFailsInv ==
    ASSUME BootAssumption, IInv, NEW b \in Batches, NEW s \in Subjects, EncodeFails(b, s)
    PROVE  IInv'
<1> USE DEF IInv
<1>1. /\ s \in todo[b]
      /\ todo' = [todo EXCEPT ![b] = @ \ {s}]
      /\ answer' = [answer EXCEPT ![b][s] = 0]
      /\ state' = [state EXCEPT ![b] = "rejected"]
      /\ frame' = [frame EXCEPT ![b] = Zero]
      /\ UNCHANGED <<ledger, phase, image, pending, latest, from, content, bad, handed>>
  BY DEF EncodeFails, podVars
<1>2. TypeOK'
  <2>1. Zero \in [Subjects -> Nat]
    BY DEF Zero
  <2>2. todo' \in [Batches -> SUBSET Subjects] /\ state' \in [Batches -> States]
    BY <1>1 DEF TypeOK, States
  <2>3. /\ answer' \in [Batches -> [Subjects -> Nat]]
        /\ frame' \in [Batches -> [Subjects -> Nat]]
    BY <1>1, <2>1 DEF TypeOK
  <2> QED BY <1>1, <2>2, <2>3 DEF TypeOK
<1>3. OnlyBatch(b)
  BY <1>1 DEF OnlyBatch, TypeOK
<1>4. Sound(b)'
  <2>1. Sound(b)
    BY DEF Sound, SendsLive, LookupsCurrent, BatchesFramed
  <2>2. todo'[b] = todo[b] \ {s} /\ state'[b] = "rejected"
    BY <1>1 DEF TypeOK
  <2>3. ASSUME NEW t \in Subjects, answer'[b][t] # 0
        PROVE  t \in todo'[b] /\ Current(image[from[b]], t, answer[b][t])'
    <3>1. t # s /\ answer'[b][t] = answer[b][t]
      BY <1>1, <2>3 DEF TypeOK
    <3>2. t \in todo[b] /\ Current(image[from[b]], t, answer[b][t])
      BY <2>1, <2>3, <3>1 DEF Sound
    <3> QED BY <1>1, <2>2, <3>1, <3>2 DEF Current, Covers
  <2>4. Live(from[b])'
    BY <1>1, <2>1 DEF Sound, Live
  <2> QED BY <2>2, <2>3, <2>4 DEF Sound
<1>5. CacheCurrent'
  BY <1>1 DEF CacheCurrent, Live, Current, Covers
<1>6. state'[b] = "rejected"
  BY <1>1 DEF TypeOK
<1>7. HandedWhole' /\ HandedCurrent'
  BY <1>1, <1>3, <1>6, NothingHanded
<1> QED BY <1>2, <1>3, <1>4, <1>5, <1>7, BatchStep

\* The raw producer settles a batch that was handed over.
LEMMA ProducedInv ==
    ASSUME BootAssumption, IInv, NEW b \in Batches, Produced(b)
    PROVE  IInv'
<1> USE DEF IInv
<1>1. /\ state[b] = "handed"
      /\ \E end \in {"done", "rejected"} : state' = [state EXCEPT ![b] = end]
      /\ UNCHANGED <<ledger, phase, image, pending, latest, from, content, bad, todo, answer,
                     frame, handed>>
  BY DEF Produced, podVars
<1>2. TypeOK'
  <2>1. state' \in [Batches -> States]
    BY <1>1 DEF TypeOK, States
  <2> QED BY <1>1, <2>1 DEF TypeOK
<1>3. OnlyBatch(b) /\ state'[b] \in {"done", "rejected"}
  BY <1>1 DEF OnlyBatch, TypeOK
<1>4. Sound(b)'
  <2>1. Sound(b)
    BY DEF Sound, SendsLive, LookupsCurrent, BatchesFramed
  <2> QED BY <1>1, <1>3, <2>1 DEF Sound, Live, Current, Covers
<1>5. CacheCurrent'
  BY <1>1 DEF CacheCurrent, Live, Current, Covers
<1>6. HandedWhole' /\ HandedCurrent'
  BY <1>1, <1>3, NothingHanded
<1> QED BY <1>2, <1>3, <1>4, <1>5, <1>6, BatchStep

\* A message is framed with a version that is current; the last of a batch hands
\* all of them over.
LEMMA EncodedInv ==
    ASSUME BootAssumption, IInv, NEW b \in Batches, NEW s \in Subjects, NEW n \in Nat,
           s \in todo[b], Encoded(b, s, n), Current(image[from[b]], s, n),
           UNCHANGED <<ledger, phase, image, pending, from, content, bad>>,
           answer' = [answer EXCEPT ![b][s] = 0],
           latest' \in [Pods -> [Subjects -> Nat]], CacheCurrent'
    PROVE  IInv'
<1> USE DEF IInv
<1> DEFINE f == [frame[b] EXCEPT ![s] = n]
<1>1. todo' = [todo EXCEPT ![b] = @ \ {s}] /\ todo'[b] = todo[b] \ {s}
  BY DEF Encoded, TypeOK
<1>2. Sound(b)
  BY DEF Sound, SendsLive, LookupsCurrent, BatchesFramed
<1>3. Live(from[b]) /\ from[b] \in Pods /\ image[from[b]] \in Images
  BY DEF SendsLive, Live, TypeOK
<1>4. f \in [Subjects -> Nat] /\ f[s] = n /\ \A t \in Subjects \ {s} : f[t] = frame[b][t]
  BY DEF TypeOK
<1>5. todo' \in [Batches -> SUBSET Subjects] /\ answer' \in [Batches -> [Subjects -> Nat]]
  BY <1>1 DEF TypeOK
<1>6. \A c \in Batches \ {b} : todo'[c] = todo[c] /\ answer'[c] = answer[c]
  BY <1>1 DEF TypeOK
<1>7. \A t \in Subjects : answer'[b][t] # 0 =>
        t \in todo'[b] /\ Current(image[from[b]], t, answer[b][t])'
  <2> SUFFICES ASSUME NEW t \in Subjects, answer'[b][t] # 0
               PROVE  t \in todo'[b] /\ Current(image[from[b]], t, answer[b][t])'
    BY Zenon
  <2>1. t # s /\ answer'[b][t] = answer[b][t]
    BY DEF TypeOK
  <2>2. t \in todo[b] /\ Current(image[from[b]], t, answer[b][t])
    BY <1>2, <2>1 DEF Sound
  <2> QED BY <1>1, <2>1, <2>2 DEF Current, Covers
<1>8. Live(from[b])'
  BY <1>3 DEF Live
<1>9. CASE state[b] # "encoding"
  <2>1. UNCHANGED <<state, frame, handed>>
    BY <1>9 DEF Encoded
  <2>2. TypeOK' /\ OnlyBatch(b)
    BY <1>5, <1>6, <2>1 DEF TypeOK, OnlyBatch
  <2>3. Sound(b)'
    BY <1>1, <1>2, <1>7, <1>8, <1>9, <2>1 DEF Sound
  <2>4. HandedWhole' /\ HandedCurrent'
    BY <2>1, <2>2, NothingHanded
  <2> QED BY <2>2, <2>3, <2>4, BatchStep
<1>10. CASE state[b] = "encoding" /\ todo[b] # {s}
  <2>1. frame' = [frame EXCEPT ![b][s] = n] /\ UNCHANGED <<state, handed>>
    BY <1>10 DEF Encoded
  <2>2. frame' \in [Batches -> [Subjects -> Nat]] /\ frame'[b] = f
        /\ \A c \in Batches \ {b} : frame'[c] = frame[c]
    BY <2>1 DEF TypeOK
  <2>3. TypeOK' /\ OnlyBatch(b)
    BY <1>5, <1>6, <2>1, <2>2 DEF TypeOK, OnlyBatch
  <2>4. \A t \in content[b] \ todo'[b] : Current(image[from[b]], t, frame[b][t])'
    <3> SUFFICES ASSUME NEW t \in content[b] \ todo'[b]
                 PROVE  Current(image[from[b]], t, frame[b][t])'
      BY Zenon
    <3>1. t \in Subjects
      BY DEF TypeOK
    <3>2. CASE t = s
      BY <1>4, <2>2, <3>2 DEF Current, Covers
    <3>3. CASE t # s
      <4>1. frame'[b][t] = frame[b][t] /\ t \in content[b] \ todo[b]
        BY <1>1, <1>4, <2>2, <3>1, <3>3
      <4>2. Current(image[from[b]], t, frame[b][t])
        BY <1>2, <1>10, <4>1 DEF Sound
      <4> QED BY <4>1, <4>2 DEF Current, Covers
    <3> QED BY <3>2, <3>3
  <2>5. Sound(b)'
    BY <1>1, <1>2, <1>7, <1>8, <1>10, <2>1, <2>4 DEF Sound
  <2>6. HandedWhole' /\ HandedCurrent'
    BY <2>1, <2>3, NothingHanded
  <2> QED BY <2>3, <2>5, <2>6, BatchStep
<1>11. CASE state[b] = "encoding" /\ todo[b] = {s}
  <2>1. frame' = [frame EXCEPT ![b] = Zero]
    BY <1>11 DEF Encoded
  <2>2. \/ state' = [state EXCEPT ![b] = "rejected"] /\ UNCHANGED handed
        \/ state' = [state EXCEPT ![b] = "handed"] /\ handed' = handed \cup HandedOver(b, f)
    BY <1>11 DEF Encoded
  <2>3. frame' \in [Batches -> [Subjects -> Nat]]
    BY <2>1 DEF TypeOK, Zero
  <2>4. state' \in [Batches -> States] /\ state'[b] \in {"rejected", "handed"}
    BY <2>2 DEF TypeOK, States
  <2>5. OnlyBatch(b)
    BY <1>6, <2>1, <2>2 DEF OnlyBatch, TypeOK
  <2>6. Sound(b)'
    BY <1>1, <1>7, <1>8, <1>11, <2>4 DEF Sound
  <2>7. CASE UNCHANGED handed
    <3>1. TypeOK'
      BY <1>5, <2>3, <2>4, <2>7 DEF TypeOK
    <3>2. HandedWhole' /\ HandedCurrent'
      BY <2>4, <2>5, <2>7, NothingHanded
    <3> QED BY <2>5, <2>6, <3>1, <3>2, BatchStep
  <2>8. CASE handed' = handed \cup HandedOver(b, f)
    <3>1. \A t \in content[b] : t \in Subjects /\ f[t] \in Nat /\ Current(image[from[b]], t, f[t])
      <4> SUFFICES ASSUME NEW t \in content[b]
                   PROVE  t \in Subjects /\ f[t] \in Nat /\ Current(image[from[b]], t, f[t])
        BY Zenon
      <4>1. t \in Subjects /\ f[t] \in Nat
        BY <1>4 DEF TypeOK
      <4>2. CASE t = s
        BY <1>4, <4>1, <4>2
      <4>3. CASE t # s
        <5>1. f[t] = frame[b][t] /\ Current(image[from[b]], t, frame[b][t])
          BY <1>2, <1>4, <1>11, <4>1, <4>3 DEF Sound
        <5> QED BY <4>1, <5>1
      <4> QED BY <4>2, <4>3
    <3>2. \A m \in HandedOver(b, f) :
            /\ m \in [batch : Batches, image : Images, subject : Subjects, version : Nat]
            /\ m.batch = b /\ m.subject \in content[b] /\ m.image = image[from[b]]
            /\ m.version = f[m.subject]
      BY <1>3, <3>1 DEF HandedOver
    <3>3. \A t \in content[b] : \E m \in HandedOver(b, f) : m.batch = b /\ m.subject = t
      <4> SUFFICES ASSUME NEW t \in content[b]
                   PROVE  \E m \in HandedOver(b, f) : m.batch = b /\ m.subject = t
        OBVIOUS
      <4> DEFINE m == [batch |-> b, image |-> image[from[b]], subject |-> t, version |-> f[t]]
      <4>1. m \in HandedOver(b, f)
        BY DEF HandedOver
      <4>2. m.batch = b /\ m.subject = t
        OBVIOUS
      <4> QED BY <4>1, <4>2, Zenon
    <3> HIDE DEF f
    <3>4. TypeOK'
      <4>1. handed' \subseteq [batch : Batches, image : Images, subject : Subjects, version : Nat]
        BY <2>8, <3>2 DEF TypeOK
      <4> QED BY <1>5, <2>3, <2>4, <4>1 DEF TypeOK
    <3>5. HandedCurrent'
      <4> SUFFICES ASSUME NEW m \in handed'
                   PROVE  Current(m.image, m.subject, m.version)'
        BY Zenon DEF HandedCurrent
      <4>1. Current(m.image, m.subject, m.version)
        BY <2>8, <3>1, <3>2 DEF HandedCurrent
      <4> QED BY <4>1 DEF Current, Covers
    <3>6. HandedWhole'
      <4> SUFFICES ASSUME NEW c \in Batches
                   PROVE  /\ state'[c] \in {"idle", "encoding"} => \A m \in handed' : m.batch # c
                          /\ \A m \in handed' :
                                m.batch = c => bad'[c] = {} /\ m.subject \in content'[c]
                          /\ \A m \in handed', t \in content'[c] :
                                m.batch = c => \E o \in handed' : o.batch = c /\ o.subject = t
        BY Zenon DEF HandedWhole
      <4>1. CASE c = b
        <5>1. bad[b] = {} /\ \A m \in handed : m.batch # b
          BY <1>2, <1>11 DEF Sound, HandedWhole
        <5> QED BY <2>4, <2>8, <3>2, <3>3, <4>1, <5>1
      <4>2. CASE c # b
        <5>1. state'[c] = state[c]
          BY <2>5, <4>2 DEF OnlyBatch
        <5>2. \A m \in handed' : m.batch = c => m \in handed
          BY <2>8, <3>2, <4>2
        <5>3. handed \subseteq handed'
          BY <2>8
        <5> QED BY <5>1, <5>2, <5>3 DEF HandedWhole
      <4> QED BY <4>1, <4>2
    <3> QED BY <2>5, <2>6, <3>4, <3>5, <3>6, BatchStep
  <2> QED BY <2>2, <2>7, <2>8
<1> QED BY <1>9, <1>10, <1>11

\* The version is a cached one, or an answer that is then cached.
LEMMA EncodeInv ==
    ASSUME BootAssumption, IInv, NEW b \in Batches, NEW s \in Subjects,
           EncodeCached(b, s) \/ EncodeAnswered(b, s)
    PROVE  IInv'
<1> USE DEF IInv
<1>1. s \in todo[b] /\ UNCHANGED <<ledger, phase, image, pending, from, content, bad>>
  BY DEF EncodeCached, EncodeAnswered, podVars
<1>2. Live(from[b]) /\ from[b] \in Pods /\ image[from[b]] \in Images
  BY <1>1 DEF SendsLive, Live, TypeOK
<1>3. CASE EncodeCached(b, s)
  <2>1. /\ answer[b][s] = 0 /\ latest[from[b]][s] # 0
        /\ Encoded(b, s, latest[from[b]][s]) /\ UNCHANGED <<latest, answer>>
    BY <1>3 DEF EncodeCached, podVars
  <2>2. latest[from[b]][s] \in Nat /\ Current(image[from[b]], s, latest[from[b]][s])
    BY <1>2, <2>1 DEF CacheCurrent, TypeOK
  <2>3. answer' = [answer EXCEPT ![b][s] = 0]
    BY <2>1 DEF TypeOK
  <2>4. latest' \in [Pods -> [Subjects -> Nat]] /\ CacheCurrent'
    BY <1>1, <2>1 DEF CacheCurrent, Live, Current, Covers, TypeOK
  <2> QED BY <1>1, <2>1, <2>2, <2>3, <2>4, EncodedInv
<1>4. CASE EncodeAnswered(b, s)
  <2>1. /\ answer[b][s] # 0 /\ Encoded(b, s, answer[b][s])
        /\ answer' = [answer EXCEPT ![b][s] = 0]
        /\ latest' = [latest EXCEPT ![from[b]][s] = answer[b][s]]
    BY <1>4 DEF EncodeAnswered
  <2>2. answer[b][s] \in Nat /\ Current(image[from[b]], s, answer[b][s])
    BY <2>1 DEF LookupsCurrent, TypeOK
  <2>3. latest' \in [Pods -> [Subjects -> Nat]]
    BY <1>2, <2>1, <2>2 DEF TypeOK
  <2>4. CacheCurrent'
    <3> SUFFICES ASSUME NEW q \in Pods, NEW t \in Subjects, latest'[q][t] # 0
                 PROVE  Live(q)' /\ Current(image[q], t, latest[q][t])'
      BY Zenon DEF CacheCurrent
    <3>1. CASE q = from[b] /\ t = s
      <4>1. latest'[q][t] = answer[b][s]
        BY <2>1, <3>1 DEF TypeOK
      <4> QED BY <1>1, <1>2, <2>2, <3>1, <4>1 DEF Live, Current, Covers
    <3>2. CASE ~(q = from[b] /\ t = s)
      <4>1. latest'[q][t] = latest[q][t]
        BY <1>2, <2>1, <3>2 DEF TypeOK
      <4>2. Live(q) /\ Current(image[q], t, latest[q][t])
        BY <4>1 DEF CacheCurrent
      <4> QED BY <1>1, <4>1, <4>2 DEF Live, Current, Covers
    <3> QED BY <3>1, <3>2
  <2> QED BY <1>1, <2>1, <2>2, <2>3, <2>4, EncodedInv
<1> QED BY <1>3, <1>4

-----------------------------------------------------------------------------
\* Every step keeps the invariant.
LEMMA NextInv ==
    ASSUME BootAssumption, IInv, [Next]_vars
    PROVE  IInv'
<1>1. ASSUME NEW p \in Pods,
             \/ \E v \in Images : Boot(p, v)
             \/ Register(p) \/ RegisterRejected(p) \/ RegisterFails(p)
             \/ Serve(p) \/ Stop(p) \/ Crash(p)
             \/ \E s \in Subjects : Expire(p, s)
             \/ ClearSchemaCache(p)
      PROVE  IInv'
  BY <1>1, BootInv, RegisterInv, PhaseInv, CrashInv, ForgetInv, Zenon
<1>2. ASSUME NEW b \in Batches,
             \/ \E p \in Pods, vals \in Requests(Subjects) : Send(b, p, vals)
             \/ \E s \in Subjects :
                  Ask(b, s) \/ EncodeCached(b, s) \/ EncodeAnswered(b, s) \/ EncodeFails(b, s)
             \/ Produced(b)
      PROVE  IInv'
  BY <1>2, SendInv, AskInv, EncodeInv, EncodeFailsInv, ProducedInv, Zenon
<1>3. CASE (\E v \in Images : Check(v)) \/ CheckNext \/ CheckEnds \/ UNCHANGED vars
  BY <1>3, CheckInv
<1> QED BY <1>1, <1>2, <1>3 DEF Next

\* Whatever pods boot, fail, crash or roll back, IInv is an invariant.
THEOREM RolloutInv == Spec => []IInv
<1>1. Init => IInv
  BY InitInv
<1>2. IInv /\ [Next]_vars => IInv'
  BY BootAssumption, NextInv
<1> QED BY <1>1, <1>2, PTL DEF Spec

\* A pod that owns a topic's contract frames no message with a version older than
\* the contract it booted with (registerSchemas(), producer.send()).
THEOREM FramesCoverContractAlways == Spec => []FramesCoverContract
<1>1. IInv => FramesCoverContract
  BY DEF IInv, HandedCurrent, Current, FramesCoverContract
<1> QED BY <1>1, RolloutInv, PTL

\* All the messages of a batch reach the raw producer, each framed with a version
\* the registry has, or none does (producer.send()).
THEOREM BatchAtomicAlways == Spec => []BatchAtomic
<1>1. ASSUME IInv
      PROVE  BatchAtomic
  <2> SUFFICES ASSUME NEW b \in Batches, NEW o \in handed, o.batch = b
               PROVE  /\ {m.subject : m \in {x \in handed : x.batch = b}} = content[b]
                      /\ bad[b] = {}
                      /\ \A m \in {x \in handed : x.batch = b} :
                            m.version \in 1 .. Len(ledger[m.subject])
    BY DEF BatchAtomic
  <2>1. bad[b] = {} /\ \A m \in {x \in handed : x.batch = b} : m.subject \in content[b]
    BY <1>1 DEF IInv, HandedWhole
  <2>2. \A s \in content[b] : \E m \in {x \in handed : x.batch = b} : m.subject = s
    BY <1>1 DEF IInv, HandedWhole
  <2>3. \A m \in handed : m.version \in 1 .. Len(ledger[m.subject])
    BY <1>1 DEF IInv, HandedCurrent, Current
  <2> QED BY <2>1, <2>2, <2>3
<1> QED BY <1>1, RolloutInv, PTL

-----------------------------------------------------------------------------
(***************************************************************************)
(* The check from CI, against pods that boot meanwhile.                    *)
(***************************************************************************)
\* While nothing moves, the registry answers the same.
LEMMA VerdictStays ==
    ASSUME NEW s, ledger'[s] = ledger[s]
    PROVE  \A x : Verdict(s, x)' = Verdict(s, x)
  BY DEF Verdict, Admits

\* No check has begun, and no pod has booted.
LEMMA CheckedInit == ASSUME BootAssumption, Init PROVE CheckedInv
<1>1. AnImage \in Images
  BY DEF BootAssumption, AnImage
<1>2. NoReport \in [Subjects -> Verdicts]
  BY DEF NoReport, Verdicts
<1>3. CheckTypeOK
  BY <1>1, <1>2 DEF Init, CheckTypeOK
<1>4. ReportCurrent /\ PendingOwned
  BY DEF Init, ReportCurrent, PendingOwned
<1> QED BY <1>3, <1>4 DEF CheckedInv

\* A step of a pod leaves the check alone and marks what it moves.
LEMMA CheckedPods ==
    ASSUME CheckedInv, UNCHANGED checked, moved \subseteq moved', moved' \subseteq Subjects,
           \A s \in Subjects : s \notin moved' => ledger'[s] = ledger[s],
           \A v \in Images : Files[v] \subseteq Subjects,
           \A p \in Pods : \/ pending'[p] \subseteq pending[p] /\ image'[p] = image[p]
                           \/ pending'[p] = Files[image'[p]]
    PROVE  CheckedInv'
<1>1. CheckTypeOK'
  BY DEF CheckedInv, CheckTypeOK
<1>2. ASSUME checked.state # "idle", NEW s \in Files[checked.image] \ (checked.left \cup moved')
      PROVE  checked'.report[s] = Verdict(s, SchemaOf[checked.image][s])'
  <2>1. s \in Subjects /\ s \in Files[checked.image] \ (checked.left \cup moved)
    BY <1>2 DEF CheckedInv, CheckTypeOK
  <2>2. Verdict(s, SchemaOf[checked.image][s])' = Verdict(s, SchemaOf[checked.image][s])
    BY <2>1, <1>2, VerdictStays
  <2> QED BY <1>2, <2>1, <2>2 DEF CheckedInv, ReportCurrent
<1>3. ReportCurrent'
  BY <1>2 DEF CheckedInv, ReportCurrent
<1>4. PendingOwned'
  BY DEF CheckedInv, PendingOwned
<1> QED BY <1>1, <1>3, <1>4 DEF CheckedInv

\* What posts moves its subject.
LEMMA PostMoves ==
    ASSUME TypeOK, CheckTypeOK, NEW s \in Subjects, NEW x, Post(s, x) \/ UNCHANGED <<ledger, moved>>
    PROVE  /\ moved \subseteq moved' /\ moved' \subseteq Subjects
           /\ \A t \in Subjects : t \notin moved' => ledger'[t] = ledger[t]
  BY DEF TypeOK, CheckTypeOK, Post

\* The steps of the check itself.
LEMMA CheckedCheck ==
    ASSUME BootAssumption, CheckedInv, (\E v \in Images : Check(v)) \/ CheckNext \/ CheckEnds
    PROVE  CheckedInv'
<1>1. UNCHANGED <<ledger, pending, image>>
  BY DEF Check, CheckNext, CheckEnds, podVars
<1>2. PendingOwned'
  BY <1>1 DEF CheckedInv, PendingOwned
<1>3. \A s, x : Verdict(s, x)' = Verdict(s, x) /\ Verdict(s, x) \in Verdicts
  BY <1>1 DEF Verdict, Admits, Verdicts
<1>4. ASSUME NEW v \in Images, Check(v)
      PROVE  CheckTypeOK' /\ ReportCurrent'
  <2>1. Files[v] \subseteq Subjects /\ NoReport \in [Subjects -> Verdicts]
    BY DEF BootAssumption, NoReport, Verdicts
  <2>2. checked'.state = "checking" /\ checked'.left = Files[v] /\ checked'.image = v
    BY <1>4 DEF Check
  <2> QED BY <1>4, <2>1, <2>2 DEF Check, CheckTypeOK, ReportCurrent
<1>5. ASSUME CheckNext
      PROVE  CheckTypeOK' /\ ReportCurrent'
  <2> DEFINE least == CHOOSE s \in checked.left : \A t \in checked.left : s <= t
             verdict == Verdict(least, SchemaOf[checked.image][least])
  <2>1. checked.left \in SUBSET Subjects /\ checked.left # {}
    BY <1>5 DEF CheckNext, CheckedInv, CheckTypeOK
  <2>2. least \in checked.left
    BY <2>1, LeastIsThere
  <2>3. /\ checked' = [checked EXCEPT !.left = @ \ {least}, !.report[least] = verdict]
        /\ moved' = moved
    BY <1>5 DEF CheckNext
  <2>4. verdict \in Verdicts
    BY <1>3
  <2>5. verdict = Verdict(least, SchemaOf[checked.image][least])
    OBVIOUS
  <2> HIDE DEF least, verdict
  <2>6. /\ checked'.image = checked.image /\ checked'.state = checked.state
        /\ checked'.left = checked.left \ {least}
        /\ checked'.report = [checked.report EXCEPT ![least] = verdict]
    BY <2>3 DEF CheckedInv, CheckTypeOK
  <2>7. CheckTypeOK'
    BY <2>2, <2>3, <2>4 DEF CheckedInv, CheckTypeOK
  <2>8. checked'.state = "checking"
    BY <1>5, <2>6 DEF CheckNext
  <2>9. ASSUME NEW s \in Files[checked.image] \ ((checked.left \ {least}) \cup moved)
        PROVE  checked'.report[s] = Verdict(s, SchemaOf[checked.image][s])
    <3>1. CASE s = least
      BY <2>1, <2>2, <2>5, <2>6, <3>1 DEF CheckedInv, CheckTypeOK
    <3>2. CASE s # least
      <4>1. checked'.report[s] = checked.report[s]
        BY <2>6, <3>2 DEF CheckedInv, CheckTypeOK
      <4> QED BY <1>5, <2>9, <3>2, <4>1 DEF CheckNext, CheckedInv, ReportCurrent
    <3> QED BY <3>1, <3>2
  <2> QED BY <1>3, <2>3, <2>6, <2>7, <2>8, <2>9 DEF ReportCurrent
<1>6. ASSUME CheckEnds
      PROVE  CheckTypeOK' /\ ReportCurrent'
  <2>1. PICK end \in {"reported", "thrown"} :
            /\ end = "reported" => checked.left = {}
            /\ checked' = [checked EXCEPT !.state = end]
    BY <1>6 DEF CheckEnds
  <2>2. /\ checked'.image = checked.image /\ checked'.left = checked.left
        /\ checked'.report = checked.report /\ checked'.state = end /\ moved' = moved
        /\ checked.state # "idle"
    BY <1>6, <2>1 DEF CheckEnds, CheckedInv, CheckTypeOK
  <2>3. CheckTypeOK'
    BY <2>1, <2>2 DEF CheckedInv, CheckTypeOK
  <2> QED BY <1>3, <2>1, <2>2, <2>3 DEF CheckedInv, ReportCurrent
<1> QED BY <1>2, <1>4, <1>5, <1>6 DEF CheckedInv

\* Every step keeps what is known of the check.
LEMMA CheckedStep ==
    ASSUME BootAssumption, TypeOK, CheckedInv, [Next]_vars
    PROVE  CheckedInv'
<1>0. \A v \in Images : Files[v] \subseteq Subjects
  BY DEF BootAssumption
<1>1. CASE UNCHANGED <<ledger, pending, image, checkVars>>
  <2>1. moved \subseteq moved' /\ moved' \subseteq Subjects
    BY <1>1 DEF checkVars, CheckedInv, CheckTypeOK
  <2> QED BY <1>0, <1>1, <2>1, CheckedPods DEF checkVars
<1>2. ASSUME NEW p \in Pods, Register(p) \/ RegisterFails(p)
      PROVE  CheckedInv'
  <2>1. FirstPending(p) \in Subjects
    BY <1>2, RegistersOne
  <2>2. /\ moved \subseteq moved' /\ moved' \subseteq Subjects
        /\ \A t \in Subjects : t \notin moved' => ledger'[t] = ledger[t]
    <3>1. \/ Post(FirstPending(p), SchemaOf[image[p]][FirstPending(p)])
          \/ UNCHANGED <<ledger, moved>>
      BY <1>2 DEF Register, RegisterFails
    <3> QED BY <2>1, <3>1, PostMoves DEF CheckedInv
  <2>3. /\ UNCHANGED <<checked, image>>
        /\ \A q \in Pods : pending'[q] \subseteq pending[q]
    <3>1. CASE Register(p)
      BY <3>1 DEF Register, TypeOK
    <3>2. CASE RegisterFails(p)
      BY <3>2 DEF RegisterFails, TypeOK
    <3> QED BY <1>2, <3>1, <3>2
  <2> QED BY <1>0, <2>2, <2>3, CheckedPods
<1>3. ASSUME NEW p \in Pods,
             (\E v \in Images : Boot(p, v)) \/ Crash(p)
      PROVE  CheckedInv'
  <2>1. UNCHANGED <<ledger, checked, moved>>
    BY <1>3 DEF Boot, Crash, checkVars
  <2>2. \A q \in Pods : \/ pending'[q] \subseteq pending[q] /\ image'[q] = image[q]
                        \/ pending'[q] = Files[image'[q]]
    <3>1. ASSUME NEW v \in Images, Boot(p, v)
          PROVE  \A q \in Pods : \/ q # p /\ pending'[q] = pending[q] /\ image'[q] = image[q]
                                 \/ pending'[q] = Files[image'[q]]
      BY <3>1 DEF Boot, TypeOK
    <3>2. CASE Crash(p)
      BY <3>2 DEF Crash, TypeOK
    <3> QED BY <1>3, <3>1, <3>2
  <2>3. moved \subseteq moved' /\ moved' \subseteq Subjects
    BY <2>1 DEF CheckedInv, CheckTypeOK
  <2> QED BY <1>0, <2>1, <2>2, <2>3, CheckedPods
<1>4. ASSUME NEW p \in Pods,
             \/ RegisterRejected(p) \/ Serve(p) \/ Stop(p)
             \/ (\E s \in Subjects : Expire(p, s)) \/ ClearSchemaCache(p)
      PROVE  UNCHANGED <<ledger, pending, image, checkVars>>
  BY <1>4 DEF RegisterRejected, Serve, Stop, Expire, ClearSchemaCache, Forget
<1>5. ASSUME NEW b \in Batches,
             \/ \E p \in Pods, vals \in Requests(Subjects) : Send(b, p, vals)
             \/ \E s \in Subjects :
                  Ask(b, s) \/ EncodeCached(b, s) \/ EncodeAnswered(b, s) \/ EncodeFails(b, s)
             \/ Produced(b)
      PROVE  UNCHANGED <<ledger, pending, image, checkVars>>
  BY <1>5 DEF Send, Ask, EncodeCached, EncodeAnswered, EncodeFails, Produced, podVars
<1>6. CASE UNCHANGED vars
  BY <1>1, <1>6 DEF vars, podVars
<1> QED BY <1>1, <1>2, <1>3, <1>4, <1>5, <1>6, CheckedCheck DEF Next

\* What is known of the check holds however pods boot and fail while it runs.
THEOREM CheckedCorrect == Spec => []CheckedInv
<1>1. Init => CheckedInv
  BY BootAssumption, CheckedInit
<1>2. IInv /\ CheckedInv /\ [Next]_vars => CheckedInv'
  BY BootAssumption, CheckedStep DEF IInv
<1> QED BY <1>1, <1>2, RolloutInv, PTL DEF Spec

\* An image reported compatible is rejected at boot only over a subject that gained
\* a version since the check began (checkSchemaCompatibility() and registerSchemas()).
THEOREM CheckPredictsBootAlways == Spec => CheckPredictsBoot
<1> DEFINE Predicted(p) ==
              \/ \E s \in Files[image[p]] : checked.report[s] = "incompatible"
              \/ FirstPending(p) \in moved
           Predicts ==
              \A p \in Pods :
                 /\ phase[p] = "booting" /\ phase'[p] = "rejected"
                 /\ checked.state = "reported" /\ checked.image = image[p]
                 => Predicted(p)
<1>1. ASSUME IInv, CheckedInv, [Next]_vars
      PROVE  Predicts
  <2> SUFFICES ASSUME NEW p \in Pods, phase[p] = "booting", phase'[p] = "rejected",
                      checked.state = "reported", checked.image = image[p]
               PROVE  Predicted(p)
    OBVIOUS
  <2>1. RegisterRejected(p)
    <3> USE DEF IInv, TypeOK
    <3>1. ASSUME NEW q \in Pods,
                 \/ \E v \in Images : Boot(q, v)
                 \/ Register(q) \/ RegisterRejected(q) \/ RegisterFails(q)
                 \/ Serve(q) \/ Stop(q) \/ Crash(q)
                 \/ \E s \in Subjects : Expire(q, s)
                 \/ ClearSchemaCache(q)
          PROVE  RegisterRejected(p)
      BY <1>1, <3>1 DEF Boot, Register, RegisterRejected, RegisterFails, Serve, Stop, Crash,
                        Expire, ClearSchemaCache, Forget
    <3>2. CASE UNCHANGED phase
      BY <3>2
    <3>3. ASSUME NEW b \in Batches,
                 \/ \E q \in Pods, vals \in Requests(Subjects) : Send(b, q, vals)
                 \/ \E s \in Subjects :
                      Ask(b, s) \/ EncodeCached(b, s) \/ EncodeAnswered(b, s) \/ EncodeFails(b, s)
                 \/ Produced(b)
          PROVE  UNCHANGED phase
      BY <3>3 DEF Send, Ask, EncodeCached, EncodeAnswered, EncodeFails, Produced, podVars
    <3>4. CASE (\E v \in Images : Check(v)) \/ CheckNext \/ CheckEnds \/ UNCHANGED vars
      BY <3>2, <3>4 DEF Check, CheckNext, CheckEnds, vars, podVars
    <3> QED BY <1>1, <3>1, <3>2, <3>3, <3>4 DEF Next
  <2>2. FirstPending(p) \in pending[p]
    BY <1>1, <2>1, BootAssumption, FirstIsPending DEF RegisterRejected, IInv, TypeOK
  <2>3. /\ ~Admits(FirstPending(p), SchemaOf[image[p]][FirstPending(p)])
        /\ ledger[FirstPending(p)] # <<>>
    BY <2>1 DEF RegisterRejected, Admits
  <2>4. FirstPending(p) \in Files[image[p]]
    BY <1>1, <2>2 DEF CheckedInv, PendingOwned
  <2>5. CASE FirstPending(p) \notin moved
    <3>1. checked.report[FirstPending(p)]
             = Verdict(FirstPending(p), SchemaOf[image[p]][FirstPending(p)])
      BY <1>1, <2>4, <2>5 DEF CheckedInv, ReportCurrent
    <3> QED BY <2>3, <2>4, <3>1 DEF Verdict
  <2> QED BY <2>5
<1>2. IInv /\ CheckedInv /\ [Next]_vars => [Predicts]_vars
  BY <1>1
<1>3. CheckPredictsBoot <=> [][Predicts]_vars
  BY DEF CheckPredictsBoot
<1> HIDE DEF Predicts
<1> QED BY <1>2, <1>3, RolloutInv, CheckedCorrect, PTL DEF Spec
=============================================================================
