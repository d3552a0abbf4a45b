--------------------------- MODULE ConsumerProofs ---------------------------
(***************************************************************************)
(* Proofs about Consumer for every set of lanes and callers, log length,   *)
(* concurrency, number of retries, policy, choice of faults and bound.     *)
(***************************************************************************)
EXTENDS Consumer, SequenceTheorems, TLAPS

USE DEF durableVars, laneVars, loopVars, flagVars, clientVars, boundVars,
        hostVars, workVars, vars

\* What the types of the data rest on.
DataInv ==
    /\ DataTypeOK
    /\ \A p \in Lanes : stage[p] # "idle" => queue[p] # <<>>
    /\ \A p \in Lanes : stage[p] = "backoff" => attempt[p] < TotalAttempts
    /\ \A p \in Lanes : stage[p] = "publishing" => Policy = "dlq"

\* Counting keeps the counters natural numbers.
LEMMA BumpType ==
    ASSUME NEW s \in [Stats -> Nat], NEW name \in Stats
    PROVE  Bump(s, name) \in [Stats -> Nat]
BY DEF Bump

\* The outcomes each policy adds.
LEMMA OutcomesOfPolicy ==
    /\ "handled" \in Outcomes
    /\ Policy = "skip" => "skipped" \in Outcomes
    /\ Policy = "dlq" => "dead" \in Outcomes
BY ConsumerAssumption DEF Outcomes

LEMMA InitData == Init => DataInv
<1> SUFFICES ASSUME Init PROVE DataInv
    OBVIOUS
<1>1. committed \in [Lanes -> 0 .. LogLen] /\ position \in [Lanes -> 0 .. LogLen]
    BY ConsumerAssumption DEF Init
<1>2. fate \in [Lanes -> [Offsets -> SUBSET Outcomes]]
    BY DEF Init
<1>3. queue \in [Lanes -> Seq(Offsets)]
    BY DEF Init
<1>4. stage \in [Lanes -> Stages]
    BY DEF Init, Stages
<1>5. attempt \in [Lanes -> 0 .. TotalAttempts]
    BY ConsumerAssumption DEF Init, TotalAttempts
<1>6. stats \in [Stats -> Nat]
    BY DEF Init
<1>7. crashes \in 0 .. MaxCrashes /\ refetches \in 0 .. MaxRefetches
    BY ConsumerAssumption DEF Init
<1>8. inFlight \in Int
    BY DEF Init
<1>9. \A p \in Lanes : stage[p] = "idle"
    BY DEF Init
<1> QED BY <1>1, <1>2, <1>3, <1>4, <1>5, <1>6, <1>7, <1>8, <1>9
        DEF DataInv, DataTypeOK

LEMMA InitControl == Init => ControlTypeOK
BY DEF Init, ControlTypeOK, LoopPcs, StopPcs

\* The steps that touch neither the data nor the queues.
HostStep ==
    \/ Start \/ ConsumeRejects \/ LoopStep
    \/ \E c \in Callers : StopBare(c) \/ Stop(c) \/ StopStep(c)
    \/ StreamCloses \/ StreamCloseFails \/ StreamBreaks
    \/ UNCHANGED vars

\* The steps of a lane that touch nothing but its data.
WorkStep(p) ==
    \/ BeginMessage(p) \/ DecodeResolves(p) \/ HandlerResolves(p)
    \/ AttemptFails(p) \/ BackoffElapses(p)
    \/ PublishResolves(p) \/ PublishRejects(p) \/ CommitSettles(p)

LEMMA NextCases ==
    [Next]_vars <=>
        \/ HostStep
        \/ \E p \in Lanes : WorkStep(p)
        \/ \E p \in Lanes : Read(p) \/ MarkFatal(p) \/ FinishTask(p) \/ Refetch(p)
        \/ ConsumeResolves \/ Crash
BY Zenon DEF Next, LaneStep, HostStep, WorkStep, Idle

LEMMA HostLeavesData ==
    HostStep => UNCHANGED <<durableVars, laneVars, position, inFlight, stats,
                            boundVars>>
BY DEF HostStep, Start, ConsumeRejects, LoopStep, ReadBreaks, ReadEnds,
       SlotReleased, LoopSettles, StopBare, Stop, StopStep, BareClosesDlq,
       StopAwaitsLoop, StopClosesRaw, StopClosesDlq, StopReturns, StreamCloses,
       StreamCloseFails, StreamBreaks

LEMMA WorkLeavesHost ==
    ASSUME NEW p \in Lanes, WorkStep(p)
    PROVE  UNCHANGED <<queue, hostVars>>
BY DEF WorkStep, BeginMessage, DecodeResolves, HandlerResolves, AttemptFails,
       BackoffElapses, PublishResolves, PublishRejects, CommitSettles

LEMMA ControlStep == ControlTypeOK /\ [Next]_vars => ControlTypeOK'
<1> SUFFICES ASSUME ControlTypeOK, [Next]_vars PROVE ControlTypeOK'
    OBVIOUS
<1> USE DEF ControlTypeOK
<1>1. CASE HostStep
  <2>1. CASE Start \/ ConsumeRejects
    <3>1. started' \in BOOLEAN /\ joining' \in BOOLEAN
      BY <2>1 DEF Start, ConsumeRejects
    <3>2. UNCHANGED <<stream, loop, finished, stopPc, slot, stopping, fatal,
                      rawOpen, dlqOpen>>
      BY <2>1 DEF Start, ConsumeRejects
    <3> QED BY <3>1, <3>2
  <2>2. CASE LoopStep
    <3>1. UNCHANGED <<flagVars, slot, rawOpen, dlqOpen, stopPc>>
      BY <2>2 DEF LoopStep, ReadBreaks, ReadEnds, SlotReleased, LoopSettles
    <3>2. CASE ReadBreaks \/ SlotReleased
      BY <3>1, <3>2 DEF ReadBreaks, SlotReleased, LoopPcs
    <3>3. CASE ReadEnds \/ LoopSettles
      BY <3>1, <3>3 DEF ReadEnds, LoopSettles, LoopOutcome, LoopPcs
    <3> QED BY <2>2, <3>2, <3>3 DEF LoopStep
  <2>3. ASSUME NEW c \in Callers, StopBare(c) \/ Stop(c) PROVE ControlTypeOK'
    <3>1. CASE StopBare(c)
      BY <3>1 DEF StopBare, StopPcs
    <3>2. CASE Stop(c)
      <4>1. stopPc' \in [Callers -> StopPcs]
        BY <3>2 DEF Stop, StopPcs
      <4> QED BY <3>2, <4>1 DEF Stop, Closing
    <3> QED BY <2>3, <3>1, <3>2
  <2>4. ASSUME NEW c \in Callers, StopStep(c) PROVE ControlTypeOK'
    <3>1. UNCHANGED <<stream, loop, finished, slot, stopping, fatal, joining>>
      BY <2>4 DEF StopStep, BareClosesDlq, StopAwaitsLoop, StopClosesRaw,
                  StopClosesDlq, StopReturns
    <3>2. stopPc' \in [Callers -> StopPcs]
      BY <2>4 DEF StopStep, BareClosesDlq, StopAwaitsLoop, StopClosesRaw,
                  StopClosesDlq, StopReturns, StopPcs
    <3>3. started' \in BOOLEAN /\ rawOpen' \in BOOLEAN /\ dlqOpen' \in BOOLEAN
      BY <2>4 DEF StopStep, BareClosesDlq, StopAwaitsLoop, StopClosesRaw,
                  StopClosesDlq, StopReturns
    <3> QED BY <3>1, <3>2, <3>3
  <2>5. CASE StreamCloses \/ StreamCloseFails \/ StreamBreaks
    BY <2>5 DEF StreamCloses, StreamCloseFails, StreamBreaks
  <2>6. CASE UNCHANGED vars
    BY <2>6
  <2> QED BY <1>1, <2>1, <2>2, <2>3, <2>4, <2>5, <2>6 DEF HostStep
<1>2. ASSUME NEW p \in Lanes, WorkStep(p) PROVE ControlTypeOK'
    BY <1>2, WorkLeavesHost
<1>3. ASSUME NEW p \in Lanes, Read(p) \/ MarkFatal(p) PROVE ControlTypeOK'
  <2>1. CASE Read(p)
    BY <2>1 DEF Read, LoopPcs
  <2>2. CASE MarkFatal(p)
    BY <2>2 DEF MarkFatal, Closing
  <2> QED BY <1>3, <2>1, <2>2
<1>4. ASSUME NEW p \in Lanes, FinishTask(p) \/ Refetch(p) PROVE ControlTypeOK'
  <2>1. CASE FinishTask(p)
    BY <2>1 DEF FinishTask
  <2>2. CASE Refetch(p)
    BY <2>2 DEF Refetch
  <2> QED BY <1>4, <2>1, <2>2
<1>5. CASE ConsumeResolves
    BY <1>5 DEF ConsumeResolves, LoopPcs
<1>6. CASE Crash
  <2>1. stopPc' \in [Callers -> StopPcs]
    BY <1>6 DEF Crash, StopPcs
  <2> QED BY <1>6, <2>1 DEF Crash, LoopPcs
<1> QED BY <1>1, <1>2, <1>3, <1>4, <1>5, <1>6, NextCases

\* A settled message keeps the type of the history.
LEMMA SettleType ==
    ASSUME DataInv, NEW p \in Lanes, NEW o \in Offsets,
           NEW outcome \in Outcomes, Settle(p, o, outcome)
    PROVE  fate' \in [Lanes -> [Offsets -> SUBSET Outcomes]]
<1>1. fate[p] \in [Offsets -> SUBSET Outcomes]
    BY DEF DataInv, DataTypeOK
<1>2. [fate[p] EXCEPT ![o] = @ \cup {outcome}] \in [Offsets -> SUBSET Outcomes]
    BY <1>1
<1> QED BY <1>2 DEF Settle, DataInv, DataTypeOK

\* What the policy does to the lane it is applied to.
LEMMA PolicyData ==
    ASSUME DataInv, NEW p \in Lanes, queue[p] # <<>>,
           NEW s \in [Stats -> Nat], ApplyFailurePolicy(p, s)
    PROVE  /\ fate' \in [Lanes -> [Offsets -> SUBSET Outcomes]]
           /\ stage' \in [Lanes -> Stages]
           /\ stage'[p] \in {"rejected", "committing", "publishing"}
           /\ stage'[p] = "publishing" => Policy = "dlq"
           /\ \A q \in Lanes : q # p => stage'[q] = stage[q]
           /\ stats' \in [Stats -> Nat]
<1> USE DEF DataInv, DataTypeOK
<1>1. Head(queue[p]) \in Offsets
    OBVIOUS
<1>2. stats' \in [Stats -> Nat]
  <2>1. stats' = s \/ stats' = Bump(s, "failed") \/ stats' = Bump(s, "skipped")
    BY DEF ApplyFailurePolicy
  <2>2. "failed" \in Stats /\ "skipped" \in Stats
    BY DEF Stats
  <2> QED BY <2>1, <2>2, BumpType
<1>3. /\ stage' \in [Lanes -> Stages]
      /\ stage'[p] \in {"rejected", "committing", "publishing"}
      /\ stage'[p] = "publishing" => Policy = "dlq"
      /\ \A q \in Lanes : q # p => stage'[q] = stage[q]
    BY DEF ApplyFailurePolicy, Stages
<1>4. fate' \in [Lanes -> [Offsets -> SUBSET Outcomes]]
    BY <1>1, OutcomesOfPolicy, SettleType DEF ApplyFailurePolicy
<1> QED BY <1>2, <1>3, <1>4

LEMMA DataStep == DataInv /\ ControlTypeOK /\ [Next]_vars => DataInv'
<1> SUFFICES ASSUME DataInv, ControlTypeOK, [Next]_vars PROVE DataInv'
    OBVIOUS
<1> USE DEF DataInv, DataTypeOK
<1>1. CASE HostStep
    BY <1>1, HostLeavesData
<1>2. ASSUME NEW p \in Lanes, WorkStep(p) PROVE DataInv'
  <2>1. UNCHANGED <<queue, hostVars>>
    BY <1>2, WorkLeavesHost
  <2>2. queue[p] # <<>>
    BY <1>2 DEF WorkStep, BeginMessage, DecodeResolves, HandlerResolves,
                AttemptFails, BackoffElapses, PublishResolves, PublishRejects,
                CommitSettles
  <2>3. Head(queue[p]) \in Offsets
    BY <2>2
  <2>4. Bump(stats, "received") \in [Stats -> Nat]
    BY BumpType DEF Stats
  <2>5. CASE BeginMessage(p)
    <3>1. CASE fatal \/ stopping
      <4>1. /\ stage' = [stage EXCEPT ![p] = "settled"]
            /\ UNCHANGED <<committed, attempt, fate, stats>>
        BY <2>5, <3>1 DEF BeginMessage
      <4> QED BY <4>1, <2>1, <2>2 DEF Stages
    <3>2. CASE ~fatal /\ ~stopping /\ p \in BoundLanes
      <4>1. /\ stage' = [stage EXCEPT ![p] = "decoding"]
            /\ attempt' = [attempt EXCEPT ![p] = 1]
            /\ stats' = Bump(stats, "received")
            /\ UNCHANGED <<committed, fate>>
        BY <2>5, <3>2 DEF BeginMessage
      <4> QED BY <4>1, <2>1, <2>2, <2>4, ConsumerAssumption DEF Stages, TotalAttempts
    <3>3. CASE ~fatal /\ ~stopping /\ p \notin BoundLanes
      <4>1. /\ attempt' = [attempt EXCEPT ![p] = 0]
            /\ ApplyFailurePolicy(p, Bump(stats, "received"))
            /\ UNCHANGED committed
        BY <2>5, <3>3 DEF BeginMessage
      <4>2. attempt' \in [Lanes -> 0 .. TotalAttempts]
        BY <4>1, ConsumerAssumption DEF TotalAttempts
      <4>3. \A q \in Lanes : q # p => attempt'[q] = attempt[q]
        BY <4>1
      <4> QED BY <4>1, <4>2, <4>3, <2>1, <2>2, <2>4, PolicyData
    <3> QED BY <3>1, <3>2, <3>3
  <2>6. CASE DecodeResolves(p)
    BY <2>6, <2>1 DEF DecodeResolves, Stages
  <2>7. CASE HandlerResolves(p)
    BY <2>7, <2>1, <2>2, <2>3, SettleType, OutcomesOfPolicy, BumpType
       DEF HandlerResolves, Stages, Stats
  <2>8. CASE AttemptFails(p)
    <3>1. CASE attempt[p] < TotalAttempts /\ ~stopping
      <4>1. /\ stats' = Bump(stats, "retried")
            /\ stage' = [stage EXCEPT ![p] = "backoff"]
            /\ UNCHANGED <<committed, fate, attempt>>
        BY <2>8, <3>1 DEF AttemptFails
      <4>2. stats' \in [Stats -> Nat]
        BY <4>1, BumpType DEF Stats
      <4> QED BY <3>1, <4>1, <4>2, <2>1, <2>2 DEF Stages
    <3>2. CASE ~(attempt[p] < TotalAttempts /\ ~stopping)
      <4>1. /\ ApplyFailurePolicy(p, stats)
            /\ UNCHANGED <<committed, attempt>>
        BY <2>8, <3>2 DEF AttemptFails
      <4> QED BY <4>1, <2>1, <2>2, PolicyData
    <3> QED BY <3>1, <3>2
  <2>9. CASE BackoffElapses(p)
    <3>1. CASE stopping
      <4>1. /\ ApplyFailurePolicy(p, stats)
            /\ UNCHANGED <<committed, attempt>>
        BY <2>9, <3>1 DEF BackoffElapses
      <4> QED BY <4>1, <2>1, <2>2, PolicyData
    <3>2. CASE ~stopping
      <4>1. /\ stage' = [stage EXCEPT ![p] = "decoding"]
            /\ attempt' = [attempt EXCEPT ![p] = @ + 1]
            /\ UNCHANGED <<committed, fate, stats>>
        BY <2>9, <3>2 DEF BackoffElapses
      <4>2. attempt[p] + 1 \in 0 .. TotalAttempts
        BY <2>9, ConsumerAssumption DEF BackoffElapses, TotalAttempts
      <4> QED BY <4>1, <4>2, <2>1, <2>2 DEF Stages
    <3> QED BY <3>1, <3>2
  <2>10. CASE PublishResolves(p)
    <3>1. /\ stage[p] = "publishing" /\ stage' = [stage EXCEPT ![p] = "committing"]
          /\ Settle(p, Head(queue[p]), "dead")
          /\ stats' = Bump(stats, "dlq")
          /\ UNCHANGED <<committed, attempt>>
      BY <2>10 DEF PublishResolves
    <3> QED BY <3>1, <2>1, <2>2, <2>3, SettleType, OutcomesOfPolicy, BumpType
            DEF Stages, Stats
  <2>11. CASE PublishRejects(p)
    <3>1. /\ stage[p] = "publishing" /\ stage' = [stage EXCEPT ![p] = "rejected"]
          /\ Settle(p, Head(queue[p]), "dead") \/ UNCHANGED fate
          /\ stats' = Bump(stats, "failed")
          /\ UNCHANGED <<committed, attempt>>
      BY <2>11 DEF PublishRejects
    <3> QED BY <3>1, <2>1, <2>2, <2>3, SettleType, OutcomesOfPolicy, BumpType
            DEF Stages, Stats
  <2>12. CASE CommitSettles(p)
    <3>1. Head(queue[p]) + 1 \in 0 .. LogLen
      BY <2>3, ConsumerAssumption DEF Offsets
    <3> QED BY <2>12, <3>1, <2>1, <2>2 DEF CommitSettles, Stages
  <2> QED BY <1>2, <2>5, <2>6, <2>7, <2>8, <2>9, <2>10, <2>11, <2>12 DEF WorkStep
<1>3. ASSUME NEW p \in Lanes, Read(p) PROVE DataInv'
  <2>1. position[p] \in Offsets /\ position[p] + 1 \in 0 .. LogLen
    BY <1>3, ConsumerAssumption DEF Read, Offsets
  <2>2. queue' = [queue EXCEPT ![p] = Append(@, position[p])]
    BY <1>3 DEF Read
  <2>4. /\ Append(queue[p], position[p]) \in Seq(Offsets)
        /\ Append(queue[p], position[p]) # <<>>
    <3>1. queue[p] \in Seq(Offsets)
      OBVIOUS
    <3> HIDE DEF DataInv, DataTypeOK
    <3> QED BY <2>1, <3>1, AppendProperties
  <2>3. /\ position' = [position EXCEPT ![p] = @ + 1]
        /\ inFlight' = inFlight + 1
        /\ UNCHANGED <<durableVars, stage, attempt, stats, boundVars>>
    BY <1>3 DEF Read
  <2> QED BY <2>1, <2>2, <2>3, <2>4
<1>4. ASSUME NEW p \in Lanes, MarkFatal(p) PROVE DataInv'
  <2>1. /\ stage' = [stage EXCEPT ![p] = "settled"] /\ stage[p] = "rejected"
        /\ UNCHANGED <<durableVars, queue, attempt, position, inFlight, stats,
                       boundVars>>
    BY <1>4 DEF MarkFatal
  <2> QED BY <2>1 DEF Stages
<1>5. ASSUME NEW p \in Lanes, FinishTask(p) PROVE DataInv'
  <2>1. /\ stage' = [stage EXCEPT ![p] = "idle"] /\ stage[p] = "settled"
        /\ queue' = [queue EXCEPT ![p] = Tail(@)]
        /\ inFlight' = inFlight - 1
        /\ UNCHANGED <<durableVars, attempt, position, stats, boundVars>>
    BY <1>5 DEF FinishTask
  <2>2. Tail(queue[p]) \in Seq(Offsets)
    BY <2>1
  <2> QED BY <2>1, <2>2 DEF Stages
<1>6. ASSUME NEW p \in Lanes, Refetch(p) PROVE DataInv'
    BY <1>6, ConsumerAssumption DEF Refetch
<1>7. CASE ConsumeResolves
    BY <1>7 DEF ConsumeResolves
<1>8. CASE Crash
    BY <1>8, InitData, ConsumerAssumption DEF Crash, Stages, TotalAttempts
<1> QED BY <1>1, <1>2, <1>3, <1>4, <1>5, <1>6, <1>7, <1>8, NextCases

\* Every variable keeps its type.
THEOREM TypeCorrect == Spec => []TypeOK
<1>1. Init => DataInv /\ ControlTypeOK
    BY InitData, InitControl
<1>2. DataInv /\ ControlTypeOK /\ [Next]_vars => (DataInv /\ ControlTypeOK)'
    BY DataStep, ControlStep
<1>3. DataInv /\ ControlTypeOK => TypeOK
    BY DEF DataInv, TypeOK
<1> QED BY <1>1, <1>2, <1>3, PTL DEF Spec

-----------------------------------------------------------------------------
\* No step takes an outcome away.
LEMMA FateGrows ==
    ASSUME DataInv, [Next]_vars
    PROVE  \A p \in Lanes, o \in Offsets : fate[p][o] \subseteq fate'[p][o]
<1> USE DEF DataInv, DataTypeOK
<1> DEFINE Grows == \A p \in Lanes, o \in Offsets : fate[p][o] \subseteq fate'[p][o]
<1>1. ASSUME NEW p \in Lanes, NEW o \in Offsets, NEW f, Settle(p, o, f)
      PROVE  Grows
    BY <1>1 DEF Settle
<1>2. ASSUME NEW p \in Lanes, queue[p] # <<>>, NEW s, ApplyFailurePolicy(p, s)
      PROVE  Grows
  <2>1. Head(queue[p]) \in Offsets
    BY <1>2
  <2> QED BY <1>1, <1>2, <2>1 DEF ApplyFailurePolicy
<1>3. ASSUME NEW p \in Lanes, WorkStep(p) PROVE Grows
  <2>1. queue[p] # <<>> /\ Head(queue[p]) \in Offsets
    BY <1>3 DEF WorkStep, BeginMessage, DecodeResolves, HandlerResolves,
                AttemptFails, BackoffElapses, PublishResolves, PublishRejects,
                CommitSettles
  <2>2. \/ UNCHANGED fate
        \/ \E f : Settle(p, Head(queue[p]), f)
        \/ \E s : ApplyFailurePolicy(p, s)
    BY <1>3, Zenon DEF WorkStep, BeginMessage, DecodeResolves, HandlerResolves,
                AttemptFails, BackoffElapses, PublishResolves, PublishRejects,
                CommitSettles
  <2> QED BY <2>1, <2>2, <1>1, <1>2
<1>4. CASE UNCHANGED fate
    BY <1>4
<1>5. ASSUME NEW p \in Lanes, Read(p) \/ MarkFatal(p) \/ FinishTask(p) \/ Refetch(p)
      PROVE  UNCHANGED fate
    BY <1>5 DEF Read, MarkFatal, FinishTask, Refetch
<1>6. ConsumeResolves \/ Crash => UNCHANGED fate
    BY DEF ConsumeResolves, Crash
<1> QED BY <1>3, <1>4, <1>5, <1>6, NextCases, HostLeavesData

\* So what was settled stays settled, and what precedes a message in a queue
\* that did not change still does.
LEMMA CoveredGrows ==
    ASSUME DataInv, [Next]_vars, NEW p \in Lanes, NEW n, Covered(p, n)
    PROVE  Covered(p, n)'
<1>1. \A o \in Offsets : fate[p][o] \subseteq fate'[p][o]
    BY FateGrows
<1> QED BY <1>1 DEF Covered

LEMMA PrecededGrows ==
    ASSUME NEW f, NEW g, NEW s, \A e \in Offsets : f[e] \subseteq g[e]
    PROVE  /\ \A o, i : Preceded(f, s, o, i) => Preceded(g, s, o, i)
           /\ InOrder(f, s) => InOrder(g, s)
BY DEF Preceded, InOrder

\* Appending the message the reader is at, which everything unsettled before it
\* precedes, keeps the queue in order and moves the reader past it.
LEMMA AppendInOrder ==
    ASSUME NEW f, NEW s \in Seq(Offsets), NEW o \in Offsets,
           InOrder(f, s), Preceded(f, s, o, Len(s) + 1)
    PROVE  /\ InOrder(f, Append(s, o))
           /\ Preceded(f, Append(s, o), o + 1, Len(Append(s, o)) + 1)
<1> DEFINE t == Append(s, o)
<1>1. /\ Len(t) = Len(s) + 1 /\ Len(s) \in Nat
      /\ \A i \in 1 .. Len(s) : t[i] = s[i]
      /\ t[Len(s) + 1] = o
    BY AppendProperties
<1> HIDE DEF t
<1>2. ASSUME NEW i \in 1 .. Len(s) + 1, NEW e, Preceded(f, s, e, i)
      PROVE  Preceded(f, t, e, i)
    BY <1>1, <1>2 DEF Preceded
<1>3. InOrder(f, t)
  <2> SUFFICES ASSUME NEW i \in 1 .. Len(t) PROVE Preceded(f, t, t[i], i)
      BY DEF InOrder
  <2>1. CASE i \in 1 .. Len(s)
    BY <1>1, <1>2, <2>1 DEF InOrder
  <2>2. CASE i = Len(s) + 1
    BY <1>1, <1>2, <2>2
  <2> QED BY <1>1, <2>1, <2>2
<1>4. Preceded(f, t, o + 1, Len(t) + 1)
  <2> SUFFICES ASSUME NEW e \in Offsets, e < o + 1, f[e] = {}
               PROVE  \E j \in 1 .. Len(t) + 1 - 1 : t[j] = e
      BY DEF Preceded
  <2>1. CASE e = o
    BY <1>1, <2>1
  <2>2. CASE e < o
    <3>1. PICK j \in 1 .. (Len(s) + 1) - 1 : s[j] = e
      BY <2>2 DEF Preceded
    <3> QED BY <1>1, <3>1
  <2> QED BY <2>1, <2>2 DEF Offsets
<1> QED BY <1>3, <1>4 DEF t

\* Dropping a settled head loses nothing that is not settled.
LEMMA TailInOrder ==
    ASSUME NEW f, NEW s \in Seq(Offsets), s # <<>>, f[Head(s)] # {}
    PROVE  /\ InOrder(f, s) => InOrder(f, Tail(s))
           /\ \A o : Preceded(f, s, o, Len(s) + 1)
                        => Preceded(f, Tail(s), o, Len(Tail(s)) + 1)
<1> DEFINE t == Tail(s)
<1>1. /\ Len(t) = Len(s) - 1 /\ Len(s) \in Nat \ {0}
      /\ \A i \in 1 .. Len(t) : t[i] = s[i + 1]
      /\ f[s[1]] # {}
    BY HeadTailProperties, EmptySeq
<1> HIDE DEF t
<1>2. ASSUME NEW i \in 1 .. Len(t) + 1, NEW o, Preceded(f, s, o, i + 1)
      PROVE  Preceded(f, t, o, i)
  <2> SUFFICES ASSUME NEW e \in Offsets, e < o, f[e] = {}
               PROVE  \E j \in 1 .. i - 1 : t[j] = e
      BY DEF Preceded
  <2>1. PICK j \in 1 .. (i + 1) - 1 : s[j] = e
    BY <1>2 DEF Preceded
  <2>2. j # 1
    BY <1>1, <2>1
  <2>3. j - 1 \in 1 .. i - 1 /\ t[j - 1] = s[j]
    BY <1>1, <2>1, <2>2
  <2> QED BY <2>1, <2>3
<1>3. ASSUME InOrder(f, s) PROVE InOrder(f, t)
  <2> SUFFICES ASSUME NEW i \in 1 .. Len(t) PROVE Preceded(f, t, t[i], i)
      BY DEF InOrder
  <2>1. i + 1 \in 1 .. Len(s) /\ t[i] = s[i + 1] /\ i \in 1 .. Len(t) + 1
    BY <1>1
  <2>2. Preceded(f, s, s[i + 1], i + 1)
    BY <1>3, <2>1 DEF InOrder
  <2> QED BY <1>2, <2>1, <2>2
<1>4. ASSUME NEW o, Preceded(f, s, o, Len(s) + 1)
      PROVE  Preceded(f, t, o, Len(t) + 1)
  <2>1. Len(t) + 1 \in 1 .. Len(t) + 1 /\ (Len(t) + 1) + 1 = Len(s) + 1
    BY <1>1
  <2> QED BY <1>2, <1>4, <2>1
<1> QED BY <1>3, <1>4 DEF t

\* A step of a task ends in a commit, or in the end of the task, only with the
\* message settled or the consumer stopping.
LEMMA WorkStage ==
    ASSUME DataInv, StageInv, fatal => stopping, NEW p \in Lanes, WorkStep(p)
    PROVE  /\ stage'[p] = "committing" => fate'[p][Head(queue[p])] # {}
           /\ stage'[p] = "settled" => fate'[p][Head(queue[p])] # {} \/ stopping
<1> USE DEF DataInv, DataTypeOK
<1>1. queue[p] # <<>> /\ Head(queue[p]) \in Offsets
    BY DEF WorkStep, BeginMessage, DecodeResolves, HandlerResolves,
           AttemptFails, BackoffElapses, PublishResolves, PublishRejects,
           CommitSettles
<1>2. ASSUME NEW f, Settle(p, Head(queue[p]), f)
      PROVE  fate'[p][Head(queue[p])] # {}
    BY <1>1, <1>2 DEF Settle
<1>3. ASSUME NEW s, ApplyFailurePolicy(p, s)
      PROVE  /\ stage'[p] = "committing" => fate'[p][Head(queue[p])] # {}
             /\ stage'[p] # "settled"
    BY <1>2, <1>3 DEF ApplyFailurePolicy
<1>4. CASE BeginMessage(p)
    BY <1>3, <1>4 DEF BeginMessage
<1>5. CASE DecodeResolves(p)
    BY <1>5 DEF DecodeResolves
<1>6. CASE HandlerResolves(p)
    BY <1>2, <1>6 DEF HandlerResolves
<1>7. CASE AttemptFails(p)
    BY <1>3, <1>7 DEF AttemptFails
<1>8. CASE BackoffElapses(p)
    BY <1>3, <1>8 DEF BackoffElapses
<1>9. CASE PublishResolves(p)
    BY <1>2, <1>9 DEF PublishResolves
<1>10. CASE PublishRejects(p)
    BY <1>10 DEF PublishRejects
<1>11. CASE CommitSettles(p)
    BY <1>11 DEF CommitSettles, StageInv
<1> QED BY <1>4, <1>5, <1>6, <1>7, <1>8, <1>9, <1>10, <1>11 DEF WorkStep

\* A task's step changes its own lane only, and begins only when nothing stops.
LEMMA WorkOther ==
    ASSUME DataInv, NEW p \in Lanes, WorkStep(p)
    PROVE  /\ \A q \in Lanes \ {p} : /\ stage'[q] = stage[q]
                                     /\ attempt'[q] = attempt[q]
                                     /\ committed'[q] = committed[q]
           /\ queue[p] # <<>>
           /\ Active(p) \/ stopping \/ stage[p] = "idle"
           /\ stage[p] = "idle" /\ (fatal \/ stopping) => stage'[p] = "settled"
<1> USE DEF DataInv, DataTypeOK
<1>1. ASSUME NEW s, ApplyFailurePolicy(p, s)
      PROVE  \A q \in Lanes \ {p} : stage'[q] = stage[q]
    BY <1>1 DEF ApplyFailurePolicy
<1>2. CASE BeginMessage(p)
    BY <1>1, <1>2 DEF BeginMessage, Active
<1>3. CASE AttemptFails(p) \/ BackoffElapses(p)
    BY <1>1, <1>3 DEF AttemptFails, BackoffElapses, Active
<1>4. CASE DecodeResolves(p) \/ HandlerResolves(p) \/ CommitSettles(p)
    BY <1>4 DEF DecodeResolves, HandlerResolves, CommitSettles, Active
<1>5. CASE PublishResolves(p) \/ PublishRejects(p)
    BY <1>5 DEF PublishResolves, PublishRejects, Active
<1> QED BY <1>2, <1>3, <1>4, <1>5 DEF WorkStep

\* Only a crash of the process makes it stop stopping.
LEMMA StoppingStays ==
    ASSUME [Next]_vars, stopping
    PROVE  stopping' \/ Crash
<1>1. CASE HostStep
    BY <1>1 DEF HostStep, Start, ConsumeRejects, LoopStep, ReadBreaks, ReadEnds,
       SlotReleased, LoopSettles, StopBare, Stop, StopStep, BareClosesDlq,
       StopAwaitsLoop, StopClosesRaw, StopClosesDlq, StopReturns, StreamCloses,
       StreamCloseFails, StreamBreaks
<1>2. ASSUME NEW p \in Lanes, WorkStep(p) PROVE stopping'
    BY <1>2, WorkLeavesHost
<1>3. ASSUME NEW p \in Lanes, Read(p) \/ MarkFatal(p) \/ FinishTask(p) \/ Refetch(p)
      PROVE  stopping'
    BY <1>3 DEF Read, MarkFatal, FinishTask, Refetch
<1>4. CASE ConsumeResolves
    BY <1>4 DEF ConsumeResolves
<1> QED BY <1>1, <1>2, <1>3, <1>4, NextCases

LEMMA StageStep ==
    ASSUME DataInv, ControlTypeOK, StageInv, fatal => stopping, [Next]_vars
    PROVE  StageInv'
<1> USE DEF DataInv, DataTypeOK
<1>1. DataInv'
    BY DataStep
<1>2. ASSUME NEW q \in Lanes, stage'[q] = stage[q], queue'[q] = queue[q],
             stopping => stopping'
      PROVE  /\ stage'[q] = "committing" => fate'[q][Head(queue'[q])] # {}
             /\ stage'[q] = "settled" => fate'[q][Head(queue'[q])] # {} \/ stopping'
  <2>1. CASE stage[q] = "idle"
    BY <1>2, <2>1
  <2>2. CASE stage[q] # "idle"
    <3>1. Head(queue[q]) \in Offsets
      BY <2>2
    <3>2. fate[q][Head(queue[q])] \subseteq fate'[q][Head(queue[q])]
      BY <3>1, FateGrows
    <3> QED BY <1>2, <3>2 DEF StageInv
  <2> QED BY <2>1, <2>2
<1> DEFINE Goal(q) ==
      /\ stage'[q] = "committing" => fate'[q][Head(queue'[q])] # {}
      /\ stage'[q] = "settled" => fate'[q][Head(queue'[q])] # {} \/ stopping'
<1> SUFFICES ASSUME NEW q \in Lanes PROVE Goal(q)
    BY <1>1 DEF StageInv
<1>3. CASE HostStep
    BY <1>2, <1>3, HostLeavesData, StoppingStays, StoppingStays DEF Crash
<1>4. ASSUME NEW p \in Lanes, WorkStep(p) PROVE Goal(q)
  <2>1. UNCHANGED <<queue, hostVars>>
    BY <1>4, WorkLeavesHost
  <2>2. CASE q = p
    BY <1>4, <2>1, <2>2, WorkStage
  <2>3. CASE q # p
    <3>1. stage'[q] = stage[q] /\ queue'[q] = queue[q] /\ stopping' = stopping
      BY <1>4, <2>1, <2>3, WorkOther
    <3> QED BY <1>2, <3>1
  <2> QED BY <2>2, <2>3
<1>5. ASSUME NEW p \in Lanes, Read(p) PROVE Goal(q)
  <2>1. stage' = stage /\ queue' = [queue EXCEPT ![p] = Append(@, position[p])]
        /\ stopping' = stopping /\ position[p] \in Offsets
    BY <1>5, ConsumerAssumption DEF Read, Offsets
  <2>2. CASE q # p
    BY <1>2, <2>1, <2>2
  <2>3. CASE q = p /\ stage[q] # "idle"
    <3>1. queue[q] # <<>> /\ Head(queue[q]) \in Offsets
      BY <2>3
    <3>2. Head(queue'[q]) = Head(queue[q])
      BY <2>1, <2>3, <3>1, HeadTailAppend
    <3>3. fate[q][Head(queue[q])] \subseteq fate'[q][Head(queue[q])]
      BY <3>1, FateGrows
    <3> QED BY <2>1, <3>2, <3>3 DEF StageInv
  <2>4. CASE q = p /\ stage[q] = "idle"
    BY <2>1, <2>4
  <2> QED BY <2>2, <2>3, <2>4
<1>6. ASSUME NEW p \in Lanes, MarkFatal(p) PROVE Goal(q)
  <2>1. stage' = [stage EXCEPT ![p] = "settled"] /\ stopping' = TRUE /\ queue' = queue
    BY <1>6 DEF MarkFatal
  <2> QED BY <1>2, <2>1
<1>7. ASSUME NEW p \in Lanes, FinishTask(p) PROVE Goal(q)
  <2>1. /\ stage' = [stage EXCEPT ![p] = "idle"] /\ stopping' = stopping
        /\ queue' = [queue EXCEPT ![p] = Tail(@)]
    BY <1>7 DEF FinishTask
  <2> QED BY <1>2, <2>1
<1>8. ASSUME NEW p \in Lanes, Refetch(p) PROVE Goal(q)
    BY <1>2, <1>8 DEF Refetch
<1>9. CASE ConsumeResolves
    BY <1>2, <1>9 DEF ConsumeResolves
<1>10. CASE Crash
    BY <1>10 DEF Crash
<1> QED BY <1>3, <1>4, <1>5, <1>6, <1>7, <1>8, <1>9, <1>10, NextCases

\* Only CommitSettles moves a committed offset, to just after the head.
LEMMA CommittedChanges ==
    ASSUME DataInv, [Next]_vars, NEW q \in Lanes, committed'[q] # committed[q]
    PROVE  /\ stage[q] = "committing" /\ queue[q] # <<>>
           /\ committed'[q] = Head(queue[q]) + 1
<1> USE DEF DataInv, DataTypeOK
<1>1. CASE HostStep
    BY <1>1, HostLeavesData
<1>2. ASSUME NEW p \in Lanes, WorkStep(p)
      PROVE  CommitSettles(p) \/ committed' = committed
    BY <1>2 DEF WorkStep, BeginMessage, DecodeResolves, HandlerResolves,
           AttemptFails, BackoffElapses, PublishResolves, PublishRejects
<1>3. ASSUME NEW p \in Lanes, CommitSettles(p)
      PROVE  /\ q = p /\ stage[q] = "committing" /\ queue[q] # <<>>
             /\ committed'[q] = Head(queue[q]) + 1
    BY <1>3 DEF CommitSettles
<1>4. ASSUME NEW p \in Lanes, Read(p) \/ MarkFatal(p) \/ FinishTask(p) \/ Refetch(p)
      PROVE  committed' = committed
    BY <1>4 DEF Read, MarkFatal, FinishTask, Refetch
<1>5. ConsumeResolves \/ Crash => committed' = committed
    BY DEF ConsumeResolves, Crash
<1> QED BY <1>1, <1>2, <1>3, <1>4, <1>5, NextCases

LEMMA NoLossStep ==
    ASSUME DataInv, StageInv, NoLoss, LaneOrder, [Next]_vars
    PROVE  NoLoss'
<1> SUFFICES ASSUME NEW q \in Lanes PROVE Covered(q, committed[q])'
    BY DEF NoLoss
<1>1. CASE committed'[q] = committed[q]
    BY <1>1, CoveredGrows DEF NoLoss, Covered
<1>2. CASE committed'[q] # committed[q]
  <2>1. /\ stage[q] = "committing" /\ queue[q] # <<>>
        /\ committed'[q] = Head(queue[q]) + 1
    BY <1>2, CommittedChanges
  <2>2. Head(queue[q]) \in Offsets
    BY <2>1 DEF DataInv, DataTypeOK
  <2>3. Covered(q, Head(queue[q])) /\ fate[q][Head(queue[q])] # {}
    BY <2>1 DEF LaneOrder, StageInv, Active
  <2>4. Covered(q, Head(queue[q]) + 1)
    BY <2>2, <2>3 DEF Covered, Offsets
  <2> QED BY <2>1, <2>4, CoveredGrows DEF Covered
<1> QED BY <1>1, <1>2

LEMMA LaneOrderStep ==
    ASSUME DataInv, LaneOrder, QueueInv, [Next]_vars
    PROVE  LaneOrder'
<1> USE DEF DataInv, DataTypeOK
<1> SUFFICES ASSUME NEW q \in Lanes, Active(q)' PROVE Covered(q, Head(queue[q]))'
    BY DEF LaneOrder
<1>1. ASSUME Active(q), Head(queue'[q]) = Head(queue[q])
      PROVE  Covered(q, Head(queue[q]))'
    BY <1>1, CoveredGrows DEF LaneOrder, Covered
<1>2. CASE HostStep
    BY <1>1, <1>2, HostLeavesData DEF Active
<1>3. ASSUME NEW p \in Lanes, WorkStep(p) PROVE Covered(q, Head(queue[q]))'
  <2>1. queue' = queue
    BY <1>3, WorkLeavesHost
  <2>2. CASE q # p \/ Active(q)
    BY <1>1, <1>3, <2>1, <2>2, WorkOther DEF Active
  <2>3. CASE q = p /\ ~Active(q)
    <3>1. stage[q] = "idle" /\ ~stopping /\ queue[q] # <<>>
      BY <1>3, <2>3, WorkOther DEF Active, WorkStep, BeginMessage,
         DecodeResolves, HandlerResolves, AttemptFails, BackoffElapses,
         PublishResolves, PublishRejects, CommitSettles
    <3>2. 1 \in 1 .. Len(queue[q]) /\ Head(queue[q]) = queue[q][1]
      BY <3>1
    <3>3. Preceded(fate[q], queue[q], Head(queue[q]), 1)
      BY <3>1, <3>2 DEF QueueInv, InOrder
    <3>4. Covered(q, Head(queue[q]))
      BY <3>3 DEF Preceded, Covered
    <3> QED BY <2>1, <3>4, CoveredGrows DEF Covered
  <2> QED BY <2>2, <2>3
<1>4. ASSUME NEW p \in Lanes, Read(p) PROVE Covered(q, Head(queue[q]))'
  <2>1. stage' = stage /\ queue' = [queue EXCEPT ![p] = Append(@, position[p])]
        /\ position[p] \in Offsets
    BY <1>4, ConsumerAssumption DEF Read, Offsets
  <2>2. Active(q) /\ queue[q] # <<>>
    BY <2>1 DEF Active
  <2>3. Head(queue'[q]) = Head(queue[q])
    BY <2>1, <2>2, HeadTailAppend
  <2> QED BY <1>1, <2>2, <2>3
<1>5. ASSUME NEW p \in Lanes, MarkFatal(p) \/ FinishTask(p)
      PROVE  Covered(q, Head(queue[q]))'
  <2>1. q # p
    BY <1>5 DEF MarkFatal, FinishTask, Active
  <2>2. stage'[q] = stage[q] /\ queue'[q] = queue[q]
    BY <1>5, <2>1 DEF MarkFatal, FinishTask
  <2> QED BY <1>1, <2>2 DEF Active
<1>6. ASSUME NEW p \in Lanes, Refetch(p) PROVE Covered(q, Head(queue[q]))'
    BY <1>1, <1>6 DEF Refetch, Active
<1>7. CASE ConsumeResolves
    BY <1>1, <1>7 DEF ConsumeResolves, Active
<1>8. CASE Crash
    BY <1>8 DEF Crash, Active
<1> QED BY <1>2, <1>3, <1>4, <1>5, <1>6, <1>7, <1>8, NextCases

\* What precedes the reader precedes the message it appends, and what the head
\* of a queue left behind was settled.
LEMMA QueueStep ==
    ASSUME DataInv, StageInv, NoLoss, QueueInv, [Next]_vars
    PROVE  QueueInv'
<1> DEFINE QueueOK(q) ==
      /\ InOrder(fate'[q], queue'[q])
      /\ loop' \in {"reading", "waiting"} =>
            Preceded(fate'[q], queue'[q], position'[q], Len(queue'[q]) + 1)
<1> DEFINE Goal ==
      /\ fatal' => stopping'
      /\ ~stopping' => \A q \in Lanes : QueueOK(q)
<1>1. Goal => QueueInv'
    BY DEF QueueInv
<1>2. ASSUME NEW q \in Lanes, queue'[q] = queue[q], ~stopping
      PROVE  /\ InOrder(fate'[q], queue'[q])
             /\ position'[q] = position[q] /\ loop \in {"reading", "waiting"}
                  => QueueOK(q)
    BY <1>2, FateGrows, PrecededGrows DEF QueueInv
<1> HIDE DEF QueueOK
<1>3. ASSUME UNCHANGED <<queue, position>>, fatal' => stopping',
             stopping => stopping',
             loop' \in {"reading", "waiting"} => loop \in {"reading", "waiting"}
      PROVE  Goal
  <2> SUFFICES ASSUME ~stopping', NEW q \in Lanes PROVE QueueOK(q)
      BY <1>3
  <2>1. CASE loop' \in {"reading", "waiting"}
    BY <1>2, <1>3, <2>1
  <2>2. CASE loop' \notin {"reading", "waiting"}
    BY <1>2, <1>3, <2>2 DEF QueueOK
  <2> QED BY <2>1, <2>2
<1>4. ASSUME HostStep PROVE Goal
  <2>1. UNCHANGED <<queue, position>>
    BY <1>4, HostLeavesData
  <2>2. /\ fatal' => stopping'
        /\ stopping => stopping'
        /\ loop' \in {"reading", "waiting"} => loop \in {"reading", "waiting"}
    BY <1>4 DEF HostStep, Start, ConsumeRejects, LoopStep, ReadBreaks, ReadEnds,
       SlotReleased, LoopSettles, LoopOutcome, StopBare, Stop, StopStep, BareClosesDlq,
       StopAwaitsLoop, StopClosesRaw, StopClosesDlq, StopReturns, StreamCloses,
       StreamCloseFails, StreamBreaks, QueueInv
  <2> QED BY <1>3, <2>1, <2>2
<1>5. ASSUME NEW p \in Lanes, WorkStep(p) PROVE Goal
  <2>1. UNCHANGED <<queue, hostVars>>
    BY <1>5, WorkLeavesHost
  <2> QED BY <1>3, <2>1 DEF QueueInv
<1>6. ASSUME NEW p \in Lanes, MarkFatal(p) PROVE Goal
    BY <1>6 DEF MarkFatal
<1>7. ASSUME NEW p \in Lanes, Read(p) PROVE Goal
  <2>1. /\ ~stopping /\ fatal' = fatal /\ loop = "reading" /\ fate' = fate
        /\ queue' = [queue EXCEPT ![p] = Append(@, position[p])]
        /\ position' = [position EXCEPT ![p] = @ + 1]
        /\ stopping' = stopping
    BY <1>7 DEF Read
  <2>2. position[p] \in Offsets
    BY <1>7, ConsumerAssumption DEF Read, Offsets, DataInv, DataTypeOK
  <2>3. ASSUME NEW q \in Lanes, q # p PROVE QueueOK(q)
    BY <1>2, <2>1, <2>3 DEF DataInv, DataTypeOK
  <2>4. QueueOK(p)
    <3>1. /\ queue'[p] = Append(queue[p], position[p])
          /\ position'[p] = position[p] + 1
          /\ queue[p] \in Seq(Offsets)
      BY <2>1 DEF DataInv, DataTypeOK
    <3>2. /\ InOrder(fate[p], queue[p])
          /\ Preceded(fate[p], queue[p], position[p], Len(queue[p]) + 1)
      BY <2>1 DEF QueueInv
    <3> QED BY <2>1, <2>2, <3>1, <3>2, AppendInOrder DEF QueueOK
  <2>5. fatal' => stopping'
    BY <2>1 DEF QueueInv
  <2> QED BY <2>3, <2>4, <2>5
<1>8. ASSUME NEW p \in Lanes, FinishTask(p) PROVE Goal
  <2>1. /\ UNCHANGED <<stopping, fatal, loop, position, fate>>
        /\ queue' = [queue EXCEPT ![p] = Tail(@)] /\ stage[p] = "settled"
    BY <1>8 DEF FinishTask
  <2>2. ASSUME ~stopping, NEW q \in Lanes, q # p PROVE QueueOK(q)
    <3>1. queue'[q] = queue[q] /\ position'[q] = position[q]
      BY <2>1, <2>2 DEF DataInv, DataTypeOK
    <3> QED BY <1>2, <2>1, <2>2, <3>1 DEF QueueOK
  <2>3. ASSUME ~stopping PROVE QueueOK(p)
    <3>1. /\ queue'[p] = Tail(queue[p]) /\ queue[p] \in Seq(Offsets)
          /\ queue[p] # <<>>
      BY <2>1 DEF DataInv, DataTypeOK
    <3>2. fate[p][Head(queue[p])] # {}
      BY <2>1, <2>3 DEF StageInv
    <3>3. /\ InOrder(fate[p], queue[p])
          /\ loop \in {"reading", "waiting"} =>
               Preceded(fate[p], queue[p], position[p], Len(queue[p]) + 1)
      BY <2>3 DEF QueueInv
    <3> QED BY <2>1, <3>1, <3>2, <3>3, TailInOrder DEF QueueOK
  <2>4. fatal' => stopping'
    BY <2>1 DEF QueueInv
  <2> QED BY <2>1, <2>2, <2>3, <2>4
<1>9. ASSUME NEW q \in Lanes, position'[q] = committed[q], ~stopping,
             queue'[q] = queue[q]
      PROVE  QueueOK(q)
  <2>1. \A e \in Offsets : e < position'[q] => fate'[q][e] # {}
    BY <1>9, FateGrows DEF NoLoss, Covered
  <2>2. Preceded(fate'[q], queue'[q], position'[q], Len(queue'[q]) + 1)
    BY <2>1 DEF Preceded
  <2> QED BY <1>2, <1>9, <2>2 DEF QueueOK
<1>10. ASSUME NEW p \in Lanes, Refetch(p) PROVE Goal
  <2>1. /\ UNCHANGED <<queue, stopping, fatal, loop>>
        /\ position' = [position EXCEPT ![p] = committed[p]]
    BY <1>10 DEF Refetch
  <2>2. ASSUME ~stopping, NEW q \in Lanes PROVE QueueOK(q)
    <3>1. position'[q] = position[q] \/ position'[q] = committed[q]
      BY <2>1 DEF DataInv, DataTypeOK
    <3> QED BY <1>2, <1>9, <2>1, <2>2, <3>1 DEF QueueOK
  <2>3. fatal' => stopping'
    BY <2>1 DEF QueueInv
  <2> QED BY <2>1, <2>2, <2>3
<1>11. ASSUME ConsumeResolves PROVE Goal
  <2>1. UNCHANGED <<queue, stopping, fatal>> /\ position' = committed
    BY <1>11 DEF ConsumeResolves
  <2>2. fatal' => stopping'
    BY <2>1 DEF QueueInv
  <2> QED BY <1>9, <2>1, <2>2
<1>12. ASSUME Crash PROVE Goal
  <2>1. /\ queue' = [q \in Lanes |-> <<>>] /\ ~fatal' /\ loop' = "none"
    BY <1>12 DEF Crash
  <2>2. \A f : InOrder(f, <<>>)
    BY DEF InOrder
  <2> QED BY <2>1, <2>2 DEF QueueOK
<1> QED BY <1>1, <1>4, <1>5, <1>6, <1>7, <1>8, <1>10, <1>11, <1>12, NextCases

\* A message is given up only in its last attempt, unless the consumer stops.
LEMMA RetriesStep ==
    ASSUME DataInv, RetriesFirst, [Next]_vars
    PROVE  RetriesFirst'
<1> USE DEF DataInv, DataTypeOK
<1> SUFFICES ASSUME NEW q \in BoundLanes, ~stopping',
                    stage'[q] \in {"publishing", "rejected"}
             PROVE  attempt'[q] = TotalAttempts
    BY DEF RetriesFirst
<1>0. q \in Lanes
    BY ConsumerAssumption
<1>1. ASSUME stage'[q] = stage[q], attempt'[q] = attempt[q], ~stopping
      PROVE  attempt'[q] = TotalAttempts
    BY <1>1 DEF RetriesFirst
<1>2. ~Crash
    BY <1>0 DEF Crash
<1>3. ~stopping
    BY <1>2, StoppingStays
<1>4. CASE HostStep
    BY <1>0, <1>1, <1>3, <1>4, HostLeavesData
<1>5. ASSUME NEW p \in Lanes, WorkStep(p) PROVE attempt'[q] = TotalAttempts
  <2>1. CASE q # p
    BY <1>0, <1>1, <1>3, <1>5, <2>1, WorkOther
  <2>2. CASE q = p
    <3>1. CASE BeginMessage(q)
      BY <1>0, <3>1 DEF BeginMessage
    <3>2. CASE DecodeResolves(q) \/ HandlerResolves(q) \/ PublishResolves(q) \/ CommitSettles(q)
      BY <1>0, <3>2 DEF DecodeResolves, HandlerResolves, PublishResolves, CommitSettles
    <3>3. CASE AttemptFails(q)
      <4>1. ~(attempt[q] < TotalAttempts) /\ attempt'[q] = attempt[q]
        BY <1>0, <1>3, <3>3 DEF AttemptFails
      <4> QED BY <1>0, <4>1, ConsumerAssumption DEF TotalAttempts
    <3>4. CASE BackoffElapses(q)
      BY <1>0, <1>3, <3>4 DEF BackoffElapses
    <3>5. CASE PublishRejects(q)
      BY <1>0, <1>3, <3>5 DEF PublishRejects, RetriesFirst
    <3> QED BY <1>5, <2>2, <3>1, <3>2, <3>3, <3>4, <3>5 DEF WorkStep
  <2> QED BY <2>1, <2>2
<1>6. ASSUME NEW p \in Lanes, Read(p) \/ MarkFatal(p) \/ FinishTask(p) \/ Refetch(p)
      PROVE  attempt'[q] = TotalAttempts
  <2>1. attempt' = attempt /\ (stage'[q] = stage[q] \/ stage'[q] \in {"settled", "idle"})
    BY <1>0, <1>6 DEF Read, MarkFatal, FinishTask, Refetch
  <2> QED BY <1>1, <1>3, <2>1
<1>7. CASE ConsumeResolves
    BY <1>1, <1>3, <1>7 DEF ConsumeResolves
<1> QED BY <1>2, <1>4, <1>5, <1>6, <1>7, NextCases

-----------------------------------------------------------------------------
LEMMA LaneInvInit == Init => LaneInv
<1> SUFFICES ASSUME Init PROVE LaneInv
    OBVIOUS
<1>1. TypeOK
    BY InitData, InitControl DEF DataInv, TypeOK
<1>2. /\ \A p \in Lanes : stage[p] = "idle" /\ queue[p] = <<>> /\ committed[p] = 0
      /\ ~fatal /\ loop = "none"
    BY DEF Init
<1>3. StageInv /\ RetriesFirst /\ LaneOrder
    BY <1>2, ConsumerAssumption DEF StageInv, RetriesFirst, LaneOrder, Active
<1>4. NoLoss
    BY <1>2, ConsumerAssumption DEF NoLoss, Covered, Offsets
<1>5. QueueInv
    BY <1>2 DEF QueueInv, InOrder
<1> QED BY <1>1, <1>3, <1>4, <1>5 DEF LaneInv

LEMMA LaneInvStep == LaneInv /\ [Next]_vars => LaneInv'
<1> SUFFICES ASSUME LaneInv, [Next]_vars PROVE LaneInv'
    OBVIOUS
<1>1. DataInv /\ ControlTypeOK /\ (fatal => stopping)
    BY DEF LaneInv, TypeOK, DataInv, StageInv, QueueInv
<1>2. TypeOK'
    BY <1>1, DataStep, ControlStep DEF TypeOK, DataInv
<1>3. StageInv'
    BY <1>1, StageStep DEF LaneInv
<1>4. RetriesFirst'
    BY <1>1, RetriesStep DEF LaneInv
<1>5. NoLoss' /\ LaneOrder'
    BY <1>1, NoLossStep, LaneOrderStep DEF LaneInv
<1>6. QueueInv'
    BY <1>1, QueueStep DEF LaneInv
<1> QED BY <1>2, <1>3, <1>4, <1>5, <1>6 DEF LaneInv

\* What is true of the lanes in every reachable state.
THEOREM LaneInvCorrect == Spec => []LaneInv
BY LaneInvInit, LaneInvStep, PTL DEF Spec

\* No message is lost: a committed offset covers only settled messages.
THEOREM NoLossCorrect == Spec => []NoLoss
<1>1. LaneInv => NoLoss
    BY DEF LaneInv
<1> QED BY LaneInvCorrect, <1>1, PTL

\* Within a partition messages are worked on in order.
THEOREM LaneOrderCorrect == Spec => []LaneOrder
<1>1. LaneInv => LaneOrder
    BY DEF LaneInv
<1> QED BY LaneInvCorrect, <1>1, PTL

\* No message is given up before its last attempt, unless the consumer stops.
THEOREM RetriesFirstCorrect == Spec => []RetriesFirst
<1>1. LaneInv => RetriesFirst
    BY DEF LaneInv
<1> QED BY LaneInvCorrect, <1>1, PTL

-----------------------------------------------------------------------------
\* A step of the consumer settles one message in order, commits behind settled
\* messages, or does nothing to either.
LEMMA RefinesStep == LaneInv /\ [Next]_vars => [ALO!Next]_(ALO!vars)
<1> SUFFICES ASSUME LaneInv, [Next]_vars PROVE [ALO!Next]_(ALO!vars)
    OBVIOUS
<1>1. DataInv
    BY DEF LaneInv, TypeOK, DataInv, StageInv
<1> USE <1>1 DEF ALO!vars
<1>2. CASE UNCHANGED <<committed, fate>>
    BY <1>2
<1>3. ASSUME NEW p \in Lanes, queue[p] # <<>>, Covered(p, Head(queue[p])),
             NEW f \in Outcomes, Settle(p, Head(queue[p]), f), UNCHANGED committed
      PROVE  ALO!Next
  <2>1. Head(queue[p]) \in Offsets
    BY <1>3 DEF DataInv, DataTypeOK
  <2>2. ALO!Settle(p, Head(queue[p]), f)
    BY <1>3 DEF ALO!Settle, ALO!Covered, Covered, Settle
  <2> QED BY <2>1, <2>2 DEF ALO!Next
<1>4. ASSUME NEW p \in Lanes, WorkStep(p) PROVE [ALO!Next]_(ALO!vars)
  <2>1. queue[p] # <<>>
    BY <1>4, WorkOther
  <2>2. Head(queue[p]) \in Offsets
    BY <2>1 DEF DataInv, DataTypeOK
  <2>3. ~stopping \/ Active(p) => Covered(p, Head(queue[p]))
    <3>1. Active(p) => Covered(p, Head(queue[p]))
      BY DEF LaneInv, LaneOrder
    <3>2. ASSUME ~stopping PROVE Covered(p, Head(queue[p]))
      <4>1. 1 \in 1 .. Len(queue[p]) /\ Head(queue[p]) = queue[p][1]
        BY <2>1 DEF DataInv, DataTypeOK
      <4>2. Preceded(fate[p], queue[p], Head(queue[p]), 1)
        BY <3>2, <4>1 DEF LaneInv, QueueInv, InOrder
      <4> QED BY <4>2 DEF Preceded, Covered
    <3> QED BY <3>1, <3>2
  <2>4. ASSUME NEW s, ApplyFailurePolicy(p, s), Covered(p, Head(queue[p])),
               UNCHANGED committed
        PROVE  [ALO!Next]_(ALO!vars)
    BY <1>2, <1>3, <2>1, <2>4, OutcomesOfPolicy DEF ApplyFailurePolicy
  <2>5. CASE BeginMessage(p)
    <3>1. \/ UNCHANGED <<committed, fate>>
          \/ /\ ApplyFailurePolicy(p, Bump(stats, "received")) /\ ~stopping
             /\ UNCHANGED committed
      BY <2>5 DEF BeginMessage
    <3> QED BY <1>2, <2>3, <2>4, <3>1
  <2>6. CASE DecodeResolves(p)
    BY <1>2, <2>6 DEF DecodeResolves
  <2>7. CASE HandlerResolves(p)
    BY <1>3, <2>1, <2>3, <2>7, OutcomesOfPolicy DEF HandlerResolves, Active
  <2>8. CASE AttemptFails(p) \/ BackoffElapses(p)
    <3>1. /\ UNCHANGED fate \/ \E s : ApplyFailurePolicy(p, s)
          /\ UNCHANGED committed
          /\ Active(p)
      BY <2>8 DEF AttemptFails, BackoffElapses, Active
    <3> QED BY <1>2, <2>3, <2>4, <3>1
  <2>9. CASE PublishResolves(p) \/ PublishRejects(p)
    <3>1. /\ UNCHANGED fate \/ Settle(p, Head(queue[p]), "dead")
          /\ UNCHANGED committed
          /\ Active(p) /\ stage[p] = "publishing"
      BY <2>9 DEF PublishResolves, PublishRejects, Active
    <3>2. "dead" \in Outcomes
      BY <3>1, OutcomesOfPolicy DEF LaneInv, StageInv
    <3> QED BY <1>2, <1>3, <2>1, <2>3, <3>1, <3>2
  <2>10. CASE CommitSettles(p)
    <3>1. CASE UNCHANGED committed
      BY <1>2, <2>10, <3>1 DEF CommitSettles
    <3>2. CASE committed' = [committed EXCEPT ![p] = Head(queue[p]) + 1]
      <4>1. UNCHANGED fate /\ Active(p) /\ fate[p][Head(queue[p])] # {}
        BY <2>10 DEF CommitSettles, Active, LaneInv, StageInv
      <4>2. ALO!Covered(p, Head(queue[p]) + 1)
        BY <2>2, <2>3, <4>1 DEF Covered, ALO!Covered, Offsets
      <4>3. ALO!Commit(p, Head(queue[p]))
        BY <3>2, <4>1, <4>2 DEF ALO!Commit
      <4> QED BY <2>2, <4>3 DEF ALO!Next
    <3> QED BY <2>10, <3>1, <3>2 DEF CommitSettles
  <2> QED BY <1>4, <2>5, <2>6, <2>7, <2>8, <2>9, <2>10 DEF WorkStep
<1>5. ASSUME NEW p \in Lanes, Read(p) \/ MarkFatal(p) \/ FinishTask(p) \/ Refetch(p)
      PROVE  UNCHANGED <<committed, fate>>
    BY <1>5 DEF Read, MarkFatal, FinishTask, Refetch
<1>6. ConsumeResolves \/ Crash => UNCHANGED <<committed, fate>>
    BY DEF ConsumeResolves, Crash
<1>7. HostStep => UNCHANGED <<committed, fate>>
    BY HostLeavesData
<1> QED BY <1>2, <1>4, <1>5, <1>6, <1>7, NextCases

\* The consumer implements the abstract at-least-once delivery.
THEOREM ConsumerImplementsAtLeastOnce == Spec => ImplementsAtLeastOnce
<1>1. Init => ALO!Init
    BY DEF Init, ALO!Init
<1> QED BY <1>1, LaneInvCorrect, RefinesStep, PTL DEF Spec, ALO!Spec, ImplementsAtLeastOnce

-----------------------------------------------------------------------------
(***************************************************************************)
(* What that is worth.                                                     *)
(***************************************************************************)
LEMMA DeliveredStep ==
    ASSUME ALO!Delivered, [ALO!Next]_(ALO!vars)
    PROVE  ALO!Delivered'
<1> USE DEF ALO!Delivered, ALO!Types, ALO!NothingLost, ALO!SettledInOrder, ALO!Covered
<1>1. ASSUME NEW p \in Lanes, NEW o \in Offsets, NEW f \in Outcomes, ALO!Settle(p, o, f)
      PROVE  ALO!Delivered'
  <2>1. /\ fate' \in [Lanes -> [Offsets -> SUBSET Outcomes]]
        /\ \A q \in Lanes, x \in Offsets :
               fate'[q][x] = IF q = p /\ x = o THEN fate[q][x] \cup {f} ELSE fate[q][x]
    BY <1>1 DEF ALO!Settle
  <2>2. \A q \in Lanes, x \in Offsets :
            fate[q][x] # {} => fate'[q][x] # {}
    BY <2>1
  <2>3. ALO!NothingLost'
    BY <1>1, <2>2 DEF ALO!Settle
  <2>4. ALO!SettledInOrder'
    BY <1>1, <2>1, <2>2 DEF ALO!Settle
  <2> QED BY <1>1, <2>1, <2>3, <2>4 DEF ALO!Settle
<1>2. ASSUME NEW p \in Lanes, NEW o \in Offsets, ALO!Commit(p, o)
      PROVE  ALO!Delivered'
  <2>1. committed' \in [Lanes -> Nat]
    BY <1>2 DEF ALO!Commit, Offsets
  <2>2. ALO!NothingLost'
    BY <1>2 DEF ALO!Commit
  <2> QED BY <1>2, <2>1, <2>2 DEF ALO!Commit
<1>3. CASE UNCHANGED ALO!vars
  BY <1>3 DEF ALO!vars
<1> QED BY <1>1, <1>2, <1>3 DEF ALO!Next

\* Whatever implements AtLeastOnce commits no offset past a message that was never
\* settled, and settles a partition in order.
THEOREM DeliveredCorrect == ALO!Spec => []ALO!Delivered
<1>1. ALO!Init => ALO!Delivered
  BY DEF ALO!Init, ALO!Delivered, ALO!Types, ALO!NothingLost, ALO!SettledInOrder,
         ALO!Covered, Offsets
<1> QED BY <1>1, DeliveredStep, PTL DEF ALO!Spec

\* So does the consumer: a message is not settled before those of lower offsets in
\* its partition, whatever was redelivered or abandoned in between.
THEOREM SettledInOrderAlways == Spec => []ALO!SettledInOrder
<1>1. ALO!Delivered => ALO!SettledInOrder
  BY DEF ALO!Delivered
<1> QED BY <1>1, DeliveredCorrect, ConsumerImplementsAtLeastOnce, PTL DEF ImplementsAtLeastOnce
=============================================================================
