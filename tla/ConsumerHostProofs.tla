------------------------- MODULE ConsumerHostProofs -------------------------
(***************************************************************************)
(* Proofs about what surrounds the lanes of Consumer: the counter and the  *)
(* slot of the run loop, the clients that stop() closes, `finished`, the   *)
(* counters and the order of the commits.  ConsumerProofs gives what they  *)
(* need of the lanes.                                                      *)
(***************************************************************************)
EXTENDS ConsumerProofs, FiniteSetTheorems

USE DEF durableVars, laneVars, loopVars, flagVars, clientVars, boundVars,
        hostVars, workVars, vars

\* What the steps of the host need to know of the lanes.
LEMMA LaneFacts ==
    ASSUME LaneInv
    PROVE  /\ DataInv /\ ControlTypeOK
           /\ \A p \in Lanes : stage[p] # "idle" => queue[p] # <<>>
           /\ fatal => stopping
BY DEF LaneInv, TypeOK, DataInv, StageInv, QueueInv

-----------------------------------------------------------------------------
(***************************************************************************)
(* The counter of the loop counts the tasks.                               *)
(***************************************************************************)
LEMMA TaskMember ==
    \A t : t \in Tasks <=> \E p \in Lanes : \E i \in 1 .. Len(queue[p]) : t = <<p, i>>
BY DEF Tasks

LEMMA TasksAppend ==
    ASSUME queue \in [Lanes -> Seq(Offsets)], NEW p \in Lanes, NEW o \in Offsets,
           queue' = [queue EXCEPT ![p] = Append(@, o)]
    PROVE  /\ Tasks' = Tasks \cup {<<p, Len(queue[p]) + 1>>}
           /\ <<p, Len(queue[p]) + 1>> \notin Tasks
<1>1. /\ Len(queue'[p]) = Len(queue[p]) + 1 /\ Len(queue[p]) \in Nat
      /\ \A q \in Lanes \ {p} : queue'[q] = queue[q]
    BY AppendProperties
<1>2. \A t : t \in Tasks' <=> \E q \in Lanes : \E i \in 1 .. Len(queue'[q]) : t = <<q, i>>
    BY DEF Tasks
<1>3. \A t : t \in Tasks' <=> t \in Tasks \/ t = <<p, Len(queue[p]) + 1>>
  <2>1. ASSUME NEW q \in Lanes, NEW i \in 1 .. Len(queue'[q])
        PROVE  <<q, i>> \in Tasks \/ <<q, i>> = <<p, Len(queue[p]) + 1>>
    <3>1. CASE q # p
      BY <1>1, <2>1, <3>1, TaskMember
    <3>2. CASE q = p /\ i # Len(queue[p]) + 1
      <4>1. i \in 1 .. Len(queue[p])
        BY <1>1, <2>1, <3>2
      <4> QED BY <4>1, <3>2, TaskMember
    <3> QED BY <3>1, <3>2
  <2>2. ASSUME NEW q \in Lanes, NEW i \in 1 .. Len(queue[q])
        PROVE  i \in 1 .. Len(queue'[q])
    BY <1>1, <2>2
  <2>3. Len(queue[p]) + 1 \in 1 .. Len(queue'[p])
    BY <1>1
  <2> QED BY <1>2, <2>1, <2>2, <2>3, TaskMember
<1>4. <<p, Len(queue[p]) + 1>> \notin Tasks
  <2>1. Len(queue[p]) + 1 \notin 1 .. Len(queue[p])
    BY <1>1
  <2> QED BY <2>1, TaskMember
<1> QED BY <1>3, <1>4

LEMMA TasksTail ==
    ASSUME NEW p \in Lanes, Len(queue[p]) \in Nat \ {0},
           Len(queue'[p]) = Len(queue[p]) - 1,
           \A q \in Lanes \ {p} : queue'[q] = queue[q]
    PROVE  /\ Tasks' = Tasks \ {<<p, Len(queue[p])>>}
           /\ <<p, Len(queue[p])>> \in Tasks
<1>2. \A t : t \in Tasks' <=> \E q \in Lanes : \E i \in 1 .. Len(queue'[q]) : t = <<q, i>>
    BY DEF Tasks
<1>3. \A t : t \in Tasks' <=> t \in Tasks /\ t # <<p, Len(queue[p])>>
  <2>1. \A i : i \in 1 .. Len(queue'[p]) <=> i \in 1 .. Len(queue[p]) /\ i # Len(queue[p])
    OBVIOUS
  <2>2. ASSUME NEW q \in Lanes, NEW i
        PROVE  i \in 1 .. Len(queue'[q]) <=>
                  i \in 1 .. Len(queue[q]) /\ <<q, i>> # <<p, Len(queue[p])>>
    BY <2>1
  <2> QED BY <1>2, <2>2, TaskMember
<1>4. Len(queue[p]) \in 1 .. Len(queue[p])
    OBVIOUS
<1> QED BY <1>3, <1>4, TaskMember

\* The steps that leave the queues and the counter alone.
LEMMA QueueLeft ==
    ASSUME [Next]_vars
    PROVE  \/ UNCHANGED <<queue, inFlight>>
           \/ \E p \in Lanes : Read(p) \/ FinishTask(p)
           \/ ConsumeResolves \/ Crash
<1>1. ASSUME NEW p \in Lanes, WorkStep(p) PROVE UNCHANGED <<queue, inFlight>>
    BY <1>1, WorkLeavesHost
<1>2. ASSUME NEW p \in Lanes, MarkFatal(p) \/ Refetch(p)
      PROVE  UNCHANGED <<queue, inFlight>>
    BY <1>2 DEF MarkFatal, Refetch
<1> QED BY <1>1, <1>2, HostLeavesData, NextCases

Counted == IsFiniteSet(Tasks) /\ inFlight = Cardinality(Tasks)

LEMMA NoTasks ==
    /\ Drained => Tasks = {}
    /\ Drained' => Tasks' = {}
BY DEF Drained, Tasks

LEMMA CountedStep ==
    ASSUME LaneInv, ClosingInv, Counted, [Next]_vars
    PROVE  Counted'
<1>1. queue \in [Lanes -> Seq(Offsets)] /\ position \in [Lanes -> 0 .. LogLen]
    BY LaneFacts DEF DataInv, DataTypeOK
<1>2. Cardinality(Tasks) \in Nat
    BY FS_CardinalityType DEF Counted
<1>3. CASE UNCHANGED <<queue, inFlight>>
    BY <1>3 DEF Counted, Tasks
<1>4. ASSUME NEW p \in Lanes, Read(p) PROVE Counted'
  <2>1. position[p] \in Offsets
    BY <1>1, <1>4, ConsumerAssumption DEF Read, Offsets
  <2>2. /\ Tasks' = Tasks \cup {<<p, Len(queue[p]) + 1>>}
        /\ <<p, Len(queue[p]) + 1>> \notin Tasks
    BY <1>1, <1>4, <2>1, TasksAppend DEF Read
  <2>3. inFlight' = inFlight + 1
    BY <1>4 DEF Read
  <2> QED BY <2>2, <2>3, FS_AddElement DEF Counted
<1>5. ASSUME NEW p \in Lanes, FinishTask(p) PROVE Counted'
  <2>1. queue[p] # <<>> /\ queue' = [queue EXCEPT ![p] = Tail(@)]
    BY <1>5, LaneFacts DEF FinishTask
  <2>2. /\ Tasks' = Tasks \ {<<p, Len(queue[p])>>}
        /\ <<p, Len(queue[p])>> \in Tasks
    <3>1. /\ Len(queue'[p]) = Len(queue[p]) - 1 /\ Len(queue[p]) \in Nat \ {0}
          /\ \A q \in Lanes \ {p} : queue'[q] = queue[q]
      BY <1>1, <2>1, HeadTailProperties, EmptySeq
    <3> QED BY <3>1, TasksTail
  <2>3. inFlight' = inFlight - 1
    BY <1>5 DEF FinishTask
  <2> QED BY <1>2, <2>2, <2>3, FS_RemoveElement DEF Counted
<1>6. CASE ConsumeResolves
  <2>1. Drained' /\ inFlight' = 0
    BY <1>6 DEF ConsumeResolves, ClosingInv, LoopRunning, Drained
  <2> QED BY <2>1, NoTasks, FS_EmptySet DEF Counted
<1>7. CASE Crash
  <2>1. Drained' /\ inFlight' = 0
    BY <1>7 DEF Crash, Drained
  <2> QED BY <2>1, NoTasks, FS_EmptySet DEF Counted
<1> QED BY <1>3, <1>4, <1>5, <1>6, <1>7, QueueLeft

-----------------------------------------------------------------------------
(***************************************************************************)
(* The slot of the loop.                                                   *)
(***************************************************************************)
\* What the steps of the host do to the slot and what it depends on.
LEMMA HostSlot ==
    ASSUME HostStep
    PROVE  /\ inFlight' = inFlight
           /\ \/ UNCHANGED <<loop, slot, stopping>>
              \/ loop' \notin {"reading", "waiting"} /\ loop # "waiting"
                 /\ UNCHANGED <<slot, stopping>>
              \/ SlotReleased
              \/ loop' = loop /\ ~slot' /\ stopping'
<1>1. CASE LoopStep
  <2>1. CASE ReadBreaks \/ ReadEnds \/ LoopSettles
    BY <2>1 DEF ReadBreaks, ReadEnds, LoopSettles, LoopOutcome
  <2>2. CASE SlotReleased
    BY <2>2 DEF SlotReleased
  <2> QED BY <1>1, <2>1, <2>2 DEF LoopStep
<1>2. ASSUME NEW c \in Callers, StopBare(c) \/ StopStep(c)
      PROVE  UNCHANGED <<loop, slot, stopping, inFlight>>
    BY <1>2 DEF StopBare, StopStep, BareClosesDlq, StopAwaitsLoop, StopClosesRaw,
                StopClosesDlq, StopReturns
<1>3. ASSUME NEW c \in Callers, Stop(c)
      PROVE  loop' = loop /\ ~slot' /\ stopping' /\ inFlight' = inFlight
    BY <1>3 DEF Stop
<1>4. CASE Start \/ ConsumeRejects \/ UNCHANGED vars
    BY <1>4 DEF Start, ConsumeRejects
<1>5. CASE StreamCloses \/ StreamCloseFails \/ StreamBreaks
    BY <1>5 DEF StreamCloses, StreamCloseFails, StreamBreaks
<1> QED BY <1>1, <1>2, <1>3, <1>4, <1>5 DEF HostStep

LEMMA SlotStep ==
    ASSUME LaneInv, SlotInv, inFlight \in 0 .. Concurrency, [Next]_vars
    PROVE  SlotInv'
<1> USE ConsumerAssumption DEF SlotInv
<1>1. CASE HostStep
  <2>1. CASE SlotReleased
    BY <2>1 DEF SlotReleased
  <2> QED BY <1>1, <2>1, HostSlot
<1>2. ASSUME NEW p \in Lanes, WorkStep(p) PROVE SlotInv'
    BY <1>2, WorkLeavesHost
<1>3. ASSUME NEW p \in Lanes, Read(p) PROVE SlotInv'
  <2>1. CASE inFlight + 1 >= Concurrency
    BY <1>3, <2>1 DEF Read
  <2>2. CASE ~(inFlight + 1 >= Concurrency)
    <3>1. slot' = (inFlight + 1 >= Concurrency)
      BY <1>3 DEF Read
    <3>2. ~slot'
      BY <2>2, <3>1, Zenon
    <3>3. inFlight' < Concurrency
      BY <1>3, <2>2 DEF Read
    <3> QED BY <3>2, <3>3
  <2> QED BY <2>1, <2>2
<1>4. ASSUME NEW p \in Lanes, MarkFatal(p) PROVE SlotInv'
  <2>1. slot => slot' = FALSE
    BY <1>4, LaneFacts DEF MarkFatal
  <2> QED BY <1>4, <2>1 DEF MarkFatal
<1>5. ASSUME NEW p \in Lanes, FinishTask(p) PROVE SlotInv'
  <2>1. ~slot' /\ inFlight' < Concurrency
    BY <1>5 DEF FinishTask
  <2> QED BY <1>5, <2>1 DEF FinishTask
<1>6. ASSUME NEW p \in Lanes, Refetch(p) PROVE SlotInv'
    BY <1>6 DEF Refetch
<1>7. CASE ConsumeResolves
    BY <1>7 DEF ConsumeResolves
<1>8. CASE Crash
    BY <1>8 DEF Crash
<1> QED BY <1>1, <1>2, <1>3, <1>4, <1>5, <1>6, <1>7, <1>8, NextCases

-----------------------------------------------------------------------------
(***************************************************************************)
(* What is closed, and when.                                               *)
(***************************************************************************)
LEMMA ClosingStep ==
    ASSUME LaneInv, ClosingInv, [Next]_vars
    PROVE  ClosingInv'
<1> USE DEF ClosingInv, LoopRunning, Drained
<1>1. CASE HostStep
  <2>1. UNCHANGED queue
    BY <1>1, HostLeavesData
  <2>2. CASE Start \/ ConsumeRejects
    BY <2>1, <2>2 DEF Start, ConsumeRejects
  <2>3. CASE LoopStep
    <3>1. UNCHANGED <<flagVars, rawOpen, dlqOpen, stopPc>> /\ loop # "none"
      BY <2>3 DEF LoopStep, ReadBreaks, ReadEnds, SlotReleased, LoopSettles, LoopOutcome
    <3>2. CASE ReadBreaks \/ SlotReleased
      BY <2>1, <3>1, <3>2 DEF ReadBreaks, SlotReleased
    <3>3. CASE ReadEnds
      BY <2>1, <3>1, <3>3 DEF ReadEnds
    <3>4. CASE LoopSettles
      BY <2>1, <3>1, <3>4 DEF LoopSettles, LoopOutcome
    <3> QED BY <2>3, <3>2, <3>3, <3>4 DEF LoopStep
  <2>4. ASSUME NEW c \in Callers, StopBare(c) \/ Stop(c) \/ StopStep(c)
        PROVE  ClosingInv'
    <3> stopPc \in [Callers -> StopPcs]
      BY LaneFacts DEF ControlTypeOK
    <3>1. CASE StopBare(c)
      BY <2>1, <3>1 DEF StopBare
    <3>2. CASE Stop(c)
      BY <2>1, <3>2 DEF Stop
    <3>3. CASE BareClosesDlq(c) \/ StopClosesDlq(c)
      BY <2>1, <3>3 DEF BareClosesDlq, StopClosesDlq
    <3>4. CASE StopAwaitsLoop(c)
      BY <2>1, <3>4 DEF StopAwaitsLoop
    <3>5. CASE StopClosesRaw(c)
      BY <2>1, <3>5 DEF StopClosesRaw
    <3>6. CASE StopReturns(c)
      BY <2>1, <3>6 DEF StopReturns
    <3> QED BY <2>4, <3>1, <3>2, <3>3, <3>4, <3>5, <3>6 DEF StopStep
  <2>5. CASE StreamCloses \/ StreamCloseFails \/ StreamBreaks \/ UNCHANGED vars
    BY <2>1, <2>5 DEF StreamCloses, StreamCloseFails, StreamBreaks
  <2> QED BY <1>1, <2>2, <2>3, <2>4, <2>5 DEF HostStep
<1>2. ASSUME NEW p \in Lanes, WorkStep(p) PROVE ClosingInv'
    BY <1>2, WorkLeavesHost
<1>3. ASSUME NEW p \in Lanes, Read(p) PROVE ClosingInv'
    BY <1>3 DEF Read
<1>4. ASSUME NEW p \in Lanes, MarkFatal(p) PROVE ClosingInv'
    BY <1>4 DEF MarkFatal
<1>5. ASSUME NEW p \in Lanes, FinishTask(p) PROVE ClosingInv'
  <2>1. queue[p] # <<>>
    BY <1>5, LaneFacts DEF FinishTask
  <2>2. UNCHANGED <<loop, flagVars, clientVars, stopPc>>
    BY <1>5 DEF FinishTask
  <2> QED BY <2>1, <2>2
<1>6. ASSUME NEW p \in Lanes, Refetch(p) PROVE ClosingInv'
    BY <1>6 DEF Refetch
<1>7. CASE ConsumeResolves
    BY <1>7 DEF ConsumeResolves
<1>8. CASE Crash
  <2>1. \A c \in Callers : stopPc'[c] = "idle"
    BY <1>8 DEF Crash
  <2> QED BY <1>8, <2>1 DEF Crash
<1> QED BY <1>1, <1>2, <1>3, <1>4, <1>5, <1>6, <1>7, <1>8, NextCases

LEMMA FinishedStep ==
    ASSUME LaneInv, ClosingInv, FinishedTruthful, [Next]_vars
    PROVE  FinishedTruthful'
<1> USE DEF FinishedTruthful, Drained
<1>1. CASE HostStep
  <2>1. UNCHANGED <<queue, fatal>>
    <3>1. UNCHANGED fatal
      BY <1>1 DEF HostStep, Start, ConsumeRejects, LoopStep, ReadBreaks, ReadEnds,
         SlotReleased, LoopSettles, StopBare, Stop, StopStep, BareClosesDlq,
         StopAwaitsLoop, StopClosesRaw, StopClosesDlq, StopReturns, StreamCloses,
         StreamCloseFails, StreamBreaks
    <3> QED BY <1>1, <3>1, HostLeavesData
  <2>2. CASE LoopSettles
    <3>1. finished = "pending" /\ \A p \in Lanes : queue[p] = <<>>
      BY <2>2 DEF LoopSettles, LoopOutcome
    <3>2. CASE UNCHANGED finished
      BY <3>1, <3>2
    <3>3. CASE loop = "draining" /\ loop' = "ended"
               /\ finished' = IF fatal THEN "rejected" ELSE "resolved"
      <4>1. loop' = "ended" /\ Drained'
        BY <2>1, <3>1, <3>3
      <4>2. fatal => finished' = "rejected"
        BY <3>3
      <4>3. ~fatal => finished' = "resolved"
        BY <3>3
      <4> QED BY <2>1, <4>1, <4>2, <4>3
    <3> QED BY <2>2, <3>2, <3>3 DEF LoopSettles, LoopOutcome
  <2>3. CASE ReadBreaks \/ ReadEnds \/ SlotReleased
    BY <2>1, <2>3 DEF ReadBreaks, ReadEnds, SlotReleased
  <2>4. CASE ~LoopStep
    <3>1. UNCHANGED <<loop, finished>>
      BY <1>1, <2>4 DEF HostStep, Start, ConsumeRejects, StopBare, Stop, StopStep,
         BareClosesDlq, StopAwaitsLoop, StopClosesRaw, StopClosesDlq,
         StopReturns, StreamCloses, StreamCloseFails, StreamBreaks
    <3> QED BY <2>1, <3>1
  <2> QED BY <2>2, <2>3, <2>4 DEF LoopStep
<1>2. ASSUME NEW p \in Lanes, WorkStep(p) PROVE FinishedTruthful'
    BY <1>2, WorkLeavesHost
<1>3. ASSUME NEW p \in Lanes, Read(p) PROVE FinishedTruthful'
    BY <1>3 DEF Read
<1>4. ASSUME NEW p \in Lanes, MarkFatal(p) \/ FinishTask(p) PROVE FinishedTruthful'
  <2>1. finished = "pending"
    BY <1>4, LaneFacts DEF MarkFatal, FinishTask
  <2> QED BY <1>4, <2>1 DEF MarkFatal, FinishTask
<1>5. ASSUME NEW p \in Lanes, Refetch(p) PROVE FinishedTruthful'
    BY <1>5 DEF Refetch
<1>6. CASE ConsumeResolves
    BY <1>6 DEF ConsumeResolves, ClosingInv
<1>7. CASE Crash
    BY <1>7 DEF Crash
<1> QED BY <1>1, <1>2, <1>3, <1>4, <1>5, <1>6, <1>7, NextCases

-----------------------------------------------------------------------------
(***************************************************************************)
(* The counters.                                                           *)
(***************************************************************************)
\* What was received less what was counted as processed or given up: the number
\* of the lanes that are still deciding.
Balance(s) ==
    s["received"] - (s["processed"] + s["skipped"] + s["dlq"] + s["failed"])

Deciding == {p \in Lanes : Undecided(p)}

Balanced == IsFiniteSet(Deciding) /\ Balance(stats) = Cardinality(Deciding)

LEMMA BumpBalance ==
    ASSUME NEW s \in [Stats -> Nat]
    PROVE  /\ Balance(s) \in Int
           /\ Balance(Bump(s, "received")) = Balance(s) + 1
           /\ Balance(Bump(s, "retried")) = Balance(s)
           /\ \A n \in {"processed", "skipped", "dlq", "failed"} :
                 Balance(Bump(s, n)) = Balance(s) - 1
<1> USE DEF Balance, Bump, Stats
<1>1. \A n \in Stats : s[n] \in Nat
    OBVIOUS
<1>2. Balance(s) \in Int
    BY <1>1
<1>3. Balance(Bump(s, "received")) = Balance(s) + 1
    BY <1>1
<1>4. Balance(Bump(s, "retried")) = Balance(s)
    BY <1>1
<1>5. /\ Balance(Bump(s, "processed")) = Balance(s) - 1
      /\ Balance(Bump(s, "skipped")) = Balance(s) - 1
    BY <1>1
<1>6. /\ Balance(Bump(s, "dlq")) = Balance(s) - 1
      /\ Balance(Bump(s, "failed")) = Balance(s) - 1
    BY <1>1
<1> QED BY <1>2, <1>3, <1>4, <1>5, <1>6

\* The policy counts the message, or leaves it to the publish.
LEMMA PolicyBalance ==
    ASSUME DataInv, NEW p \in Lanes, NEW s \in [Stats -> Nat],
           ApplyFailurePolicy(p, s)
    PROVE  \/ Balance(stats') = Balance(s) - 1 /\ ~Undecided(p)'
           \/ Balance(stats') = Balance(s) /\ Undecided(p)'
<1> USE DEF DataInv, DataTypeOK, Undecided
<1>1. CASE Policy = "throw"
    BY <1>1, BumpBalance DEF ApplyFailurePolicy
<1>2. CASE Policy = "skip"
    BY <1>2, BumpBalance DEF ApplyFailurePolicy
<1>3. CASE Policy = "dlq"
    BY <1>3 DEF ApplyFailurePolicy
<1> QED BY <1>1, <1>2, <1>3 DEF ApplyFailurePolicy

\* A step of a task counts what it decides.
LEMMA WorkBalance ==
    ASSUME DataInv, NEW p \in Lanes, WorkStep(p)
    PROVE  \/ Balance(stats') = Balance(stats) + 1 /\ ~Undecided(p) /\ Undecided(p)'
           \/ Balance(stats') = Balance(stats) - 1 /\ Undecided(p) /\ ~Undecided(p)'
           \/ Balance(stats') = Balance(stats) /\ (Undecided(p) <=> Undecided(p)')
<1> USE DEF DataInv, DataTypeOK
<1> DEFINE Received == Bump(stats, "received")
<1>1. /\ Balance(stats) \in Int /\ Balance(Received) = Balance(stats) + 1
      /\ Received \in [Stats -> Nat]
    BY BumpBalance, BumpType DEF Stats
<1>2. stage[p] \in Stages
    OBVIOUS
<1>3. CASE BeginMessage(p)
  <2>1. ~Undecided(p)
    BY <1>3 DEF BeginMessage, Undecided
  <2>2. CASE fatal \/ stopping
    BY <1>3, <2>1, <2>2 DEF BeginMessage, Undecided
  <2>3. CASE ~fatal /\ ~stopping /\ p \in BoundLanes
    <3>1. stats' = Received /\ stage'[p] = "decoding"
      BY <1>3, <2>3 DEF BeginMessage
    <3> QED BY <1>1, <2>1, <3>1 DEF Undecided
  <2>4. CASE ~fatal /\ ~stopping /\ p \notin BoundLanes
    <3>1. ApplyFailurePolicy(p, Received)
      BY <1>3, <2>4 DEF BeginMessage
    <3>2. \/ Balance(stats') = Balance(Received) - 1 /\ ~Undecided(p)'
          \/ Balance(stats') = Balance(Received) /\ Undecided(p)'
      BY <1>1, <3>1, PolicyBalance
    <3> HIDE DEF Received
    <3>3. CASE Balance(stats') = Balance(Received) - 1 /\ ~Undecided(p)'
      <4>1. Balance(stats') = Balance(stats)
        BY <1>1, <3>3
      <4> QED BY <2>1, <3>3, <4>1
    <3>4. CASE Balance(stats') = Balance(Received) /\ Undecided(p)'
      BY <1>1, <2>1, <3>4
    <3> QED BY <3>2, <3>3, <3>4
  <2> QED BY <1>3, <2>2, <2>3, <2>4 DEF BeginMessage
<1>4. CASE DecodeResolves(p)
    BY <1>4 DEF DecodeResolves, Undecided
<1>5. CASE HandlerResolves(p)
    BY <1>5, BumpBalance DEF HandlerResolves, Undecided
<1>6. ASSUME ApplyFailurePolicy(p, stats), Undecided(p)
      PROVE  \/ Balance(stats') = Balance(stats) - 1 /\ Undecided(p) /\ ~Undecided(p)'
             \/ Balance(stats') = Balance(stats) /\ (Undecided(p) <=> Undecided(p)')
    BY <1>6, PolicyBalance
<1>7. CASE AttemptFails(p)
  <2>1. Undecided(p)
    BY <1>7 DEF AttemptFails, Undecided
  <2>2. CASE attempt[p] < TotalAttempts /\ ~stopping
    <3>1. stats' = Bump(stats, "retried") /\ stage'[p] = "backoff"
      BY <1>7, <2>2 DEF AttemptFails
    <3> QED BY <2>1, <3>1, BumpBalance DEF Undecided
  <2>3. CASE ~(attempt[p] < TotalAttempts /\ ~stopping)
    BY <1>6, <1>7, <2>1, <2>3 DEF AttemptFails
  <2> QED BY <2>2, <2>3
<1>8. CASE BackoffElapses(p)
  <2>1. Undecided(p)
    BY <1>8 DEF BackoffElapses, Undecided
  <2>2. CASE stopping
    BY <1>6, <1>8, <2>1, <2>2 DEF BackoffElapses
  <2>3. CASE ~stopping
    <3>1. UNCHANGED stats /\ stage'[p] = "decoding"
      BY <1>8, <2>3 DEF BackoffElapses
    <3> QED BY <2>1, <3>1 DEF Undecided
  <2> QED BY <2>2, <2>3
<1>9. CASE PublishResolves(p)
    BY <1>9, BumpBalance DEF PublishResolves, Undecided
<1>10. CASE PublishRejects(p)
    BY <1>10, BumpBalance DEF PublishRejects, Undecided
<1>11. CASE CommitSettles(p)
    BY <1>11 DEF CommitSettles, Undecided
<1> QED BY <1>3, <1>4, <1>5, <1>7, <1>8, <1>9, <1>10, <1>11 DEF WorkStep

\* The steps that are not a task's decide nothing.
LEMMA OthersDecideNothing ==
    ASSUME DataInv, [Next]_vars, ~Crash, \A p \in Lanes : ~WorkStep(p)
    PROVE  stats' = stats /\ Deciding' = Deciding
<1>1. ASSUME UNCHANGED <<stage, stats>> PROVE stats' = stats /\ Deciding' = Deciding
    BY <1>1 DEF Deciding, Undecided
<1>2. CASE HostStep
    BY <1>1, <1>2, HostLeavesData
<1>3. ASSUME NEW p \in Lanes, Read(p) \/ Refetch(p) PROVE UNCHANGED <<stage, stats>>
    BY <1>3 DEF Read, Refetch
<1>4. ASSUME NEW p \in Lanes, MarkFatal(p) \/ FinishTask(p)
      PROVE  stats' = stats /\ Deciding' = Deciding
  <2>1. /\ stats' = stats
        /\ \A q \in Lanes \ {p} : stage'[q] = stage[q]
        /\ stage[p] \in {"rejected", "settled"} /\ stage'[p] \in {"settled", "idle"}
    BY <1>4 DEF MarkFatal, FinishTask, DataInv, DataTypeOK
  <2> QED BY <2>1 DEF Deciding, Undecided
<1>5. CASE ConsumeResolves
    BY <1>1, <1>5 DEF ConsumeResolves
<1> QED BY <1>1, <1>2, <1>3, <1>4, <1>5, NextCases

LEMMA BalancedStep ==
    ASSUME DataInv, Balanced, [Next]_vars
    PROVE  Balanced'
<1>1. CASE Crash
  <2>1. Deciding' = {} /\ Balance(stats') = 0
    BY <1>1 DEF Crash, Deciding, Undecided, Balance, Stats
  <2> QED BY <2>1, FS_EmptySet DEF Balanced
<1>2. ASSUME NEW p \in Lanes, WorkStep(p) PROVE Balanced'
  <2>1. \A q \in Lanes \ {p} : Undecided(q)' = Undecided(q)
    BY <1>2, WorkOther DEF Undecided
  <2>2. Cardinality(Deciding) \in Nat /\ IsFiniteSet(Deciding)
    BY FS_CardinalityType DEF Balanced
  <2>3. CASE Balance(stats') = Balance(stats) + 1 /\ ~Undecided(p) /\ Undecided(p)'
    <3>1. Deciding' = Deciding \cup {p} /\ p \notin Deciding
      BY <2>1, <2>3 DEF Deciding
    <3> QED BY <2>2, <2>3, <3>1, FS_AddElement DEF Balanced
  <2>4. CASE Balance(stats') = Balance(stats) - 1 /\ Undecided(p) /\ ~Undecided(p)'
    <3>1. Deciding' = Deciding \ {p} /\ p \in Deciding
      BY <2>1, <2>4 DEF Deciding
    <3> QED BY <2>2, <2>4, <3>1, FS_RemoveElement DEF Balanced
  <2>5. CASE Balance(stats') = Balance(stats) /\ (Undecided(p) <=> Undecided(p)')
    <3>1. Deciding' = Deciding
      BY <2>1, <2>5 DEF Deciding
    <3> QED BY <2>5, <3>1 DEF Balanced
  <2> QED BY <1>2, <2>3, <2>4, <2>5, WorkBalance
<1>3. CASE ~Crash /\ \A p \in Lanes : ~WorkStep(p)
    BY <1>3, OthersDecideNothing DEF Balanced
<1> QED BY <1>1, <1>2, <1>3

\* The run's form of it.
LEMMA BalancedConserves ==
    ASSUME stats \in [Stats -> Nat], IsFiniteSet(Deciding)
    PROVE  StatsConserved <=> Balanced
<1>1. \A n \in Stats : stats[n] \in Nat
    OBVIOUS
<1>2. Cardinality(Deciding) \in Nat
    BY FS_CardinalityType
<1> QED BY <1>1, <1>2 DEF StatsConserved, Balanced, Balance, Deciding, Stats

-----------------------------------------------------------------------------
(***************************************************************************)
(* The order of the commits.                                               *)
(***************************************************************************)
\* What CursorInv says of one lane: its queue s, reader n and offset c.
Cursor(s, n, c) ==
    /\ c <= n
    /\ \A i \in 1 .. Len(s) :
          /\ c <= s[i] + 1 /\ s[i] < n
          /\ \A j \in 1 .. i - 1 : s[j] < s[i]

LEMMA CursorAppend ==
    ASSUME NEW s \in Seq(Offsets), NEW n \in Offsets, NEW c \in Nat, Cursor(s, n, c)
    PROVE  Cursor(Append(s, n), n + 1, c)
<1>1. /\ Len(Append(s, n)) = Len(s) + 1 /\ Len(s) \in Nat
      /\ \A i \in 1 .. Len(s) : Append(s, n)[i] = s[i]
      /\ Append(s, n)[Len(s) + 1] = n
    BY AppendProperties
<1>2. n \in Int /\ \A i \in 1 .. Len(s) : s[i] \in Int
    BY ConsumerAssumption DEF Offsets
<1> DEFINE t == Append(s, n)
<1> HIDE DEF t
<1>3. ASSUME NEW i \in 1 .. Len(t)
      PROVE  /\ c <= t[i] + 1 /\ t[i] < n + 1
             /\ \A j \in 1 .. i - 1 : t[j] < t[i]
  <2>1. CASE i = Len(s) + 1
    <3>1. \A j \in 1 .. i - 1 : j \in 1 .. Len(s) /\ t[j] = s[j]
      BY <1>1, <2>1 DEF t
    <3>2. t[i] = n
      BY <1>1, <2>1 DEF t
    <3> QED BY <1>2, <2>1, <3>1, <3>2 DEF Cursor
  <2>2. CASE i # Len(s) + 1
    <3>1. i \in 1 .. Len(s) /\ t[i] = s[i]
      BY <1>1, <2>2 DEF t
    <3>2. \A j \in 1 .. i - 1 : j \in 1 .. Len(s) /\ t[j] = s[j]
      BY <1>1, <3>1 DEF t
    <3> QED BY <1>2, <3>1, <3>2 DEF Cursor
  <2> QED BY <2>1, <2>2
<1> QED BY <1>2, <1>3 DEF Cursor, t

LEMMA CursorTail ==
    ASSUME NEW s \in Seq(Offsets), s # <<>>, NEW n, NEW c, Cursor(s, n, c)
    PROVE  Cursor(Tail(s), n, c)
<1> DEFINE t == Tail(s)
<1>1. /\ Len(t) = Len(s) - 1 /\ Len(s) \in Nat \ {0}
      /\ \A i \in 1 .. Len(t) : t[i] = s[i + 1]
    BY HeadTailProperties, EmptySeq
<1> HIDE DEF t
<1>2. ASSUME NEW i \in 1 .. Len(t)
      PROVE  /\ c <= t[i] + 1 /\ t[i] < n
             /\ \A j \in 1 .. i - 1 : t[j] < t[i]
  <2>1. i + 1 \in 1 .. Len(s) /\ t[i] = s[i + 1]
    BY <1>1
  <2>2. \A j \in 1 .. i - 1 : j + 1 \in 1 .. (i + 1) - 1 /\ t[j] = s[j + 1]
    BY <1>1
  <2> QED BY <2>1, <2>2 DEF Cursor
<1> QED BY <1>2 DEF Cursor, t

\* Committing the head.
LEMMA CursorCommit ==
    ASSUME NEW s \in Seq(Offsets), s # <<>>, NEW n \in Nat, NEW c \in Nat,
           Cursor(s, n, c)
    PROVE  Cursor(s, n, Head(s) + 1) /\ c <= Head(s) + 1
<1>1. Len(s) \in Nat \ {0} /\ Head(s) = s[1] /\ 1 \in 1 .. Len(s)
    BY EmptySeq
<1>2. \A i \in 1 .. Len(s) : s[i] \in Int
    BY ConsumerAssumption DEF Offsets
<1>3. ASSUME NEW i \in 1 .. Len(s) PROVE s[1] <= s[i]
  <2>1. i = 1 \/ 1 \in 1 .. i - 1
    BY <1>1
  <2> QED BY <1>1, <1>2, <2>1 DEF Cursor
<1>4. s[1] + 1 <= n
    BY <1>1, <1>2 DEF Cursor
<1>5. \A i \in 1 .. Len(s) : s[1] + 1 <= s[i] + 1
    BY <1>1, <1>2, <1>3
<1> QED BY <1>1, <1>4, <1>5 DEF Cursor

LEMMA CursorStep ==
    ASSUME LaneInv, ClosingInv, CursorInv, [Next]_vars
    PROVE  CursorInv'
<1>1. DataInv /\ DataTypeOK /\ (refetches = 0 => refetches \in Nat)
    BY LaneFacts DEF DataInv
<1>2. refetches' = 0 => refetches = 0
  <2>1. ASSUME NEW p \in Lanes, Refetch(p) PROVE refetches' # 0
    BY <1>1, <2>1 DEF Refetch, DataTypeOK
  <2>2. ASSUME NEW p \in Lanes, Read(p) \/ MarkFatal(p) \/ FinishTask(p)
        PROVE  refetches' = refetches
    BY <2>2 DEF Read, MarkFatal, FinishTask
  <2>3. ConsumeResolves \/ Crash => refetches' = refetches
    BY DEF ConsumeResolves, Crash
  <2>4. HostStep \/ (\E p \in Lanes : WorkStep(p)) => refetches' = refetches
    BY HostLeavesData, WorkLeavesHost
  <2> QED BY <2>1, <2>2, <2>3, <2>4, NextCases
<1> SUFFICES ASSUME refetches' = 0, NEW p \in Lanes
             PROVE  Cursor(queue'[p], position'[p], committed'[p])
    BY DEF CursorInv, Cursor
<1>3. Cursor(queue[p], position[p], committed[p])
    BY <1>2 DEF CursorInv, Cursor
<1>4. /\ queue[p] \in Seq(Offsets)
      /\ position[p] \in 0 .. LogLen /\ committed[p] \in 0 .. LogLen
      /\ 0 .. LogLen \subseteq Nat
    BY <1>1, ConsumerAssumption DEF DataTypeOK
<1>5. CASE UNCHANGED <<queue[p], position[p]>>
  <2>1. CASE committed'[p] = committed[p]
    BY <1>3, <1>5, <2>1
  <2>2. CASE committed'[p] # committed[p]
    BY <1>1, <1>3, <1>4, <1>5, <2>2, CommittedChanges, CursorCommit
  <2> QED BY <2>1, <2>2
<1>6. ASSUME NEW q \in Lanes, Read(q)
      PROVE  Cursor(queue'[p], position'[p], committed'[p])
  <2>1. CASE p # q
    <3>1. UNCHANGED <<queue[p], position[p]>>
      BY <1>1, <1>6, <2>1 DEF Read, DataTypeOK
    <3> QED BY <1>5, <3>1
  <2>2. CASE p = q
    <3>1. position[p] \in Offsets
      BY <1>4, <1>6, <2>2, ConsumerAssumption DEF Read, Offsets
    <3>2. /\ queue'[p] = Append(queue[p], position[p])
          /\ position'[p] = position[p] + 1 /\ committed'[p] = committed[p]
      BY <1>1, <1>6, <2>2 DEF Read, DataTypeOK
    <3> QED BY <1>3, <1>4, <3>1, <3>2, CursorAppend
  <2> QED BY <2>1, <2>2
<1>7. ASSUME NEW q \in Lanes, FinishTask(q)
      PROVE  Cursor(queue'[p], position'[p], committed'[p])
  <2>1. CASE p # q
    <3>1. UNCHANGED <<queue[p], position[p]>>
      BY <1>1, <1>7, <2>1 DEF FinishTask, DataTypeOK
    <3> QED BY <1>5, <3>1
  <2>2. CASE p = q
    <3>1. queue[p] # <<>>
      BY <1>7, <2>2, LaneFacts DEF FinishTask
    <3>2. /\ queue'[p] = Tail(queue[p])
          /\ position'[p] = position[p] /\ committed'[p] = committed[p]
      BY <1>1, <1>7, <2>2 DEF FinishTask, DataTypeOK
    <3> QED BY <1>3, <1>4, <3>1, <3>2, CursorTail
  <2> QED BY <2>1, <2>2
<1>8. CASE ConsumeResolves \/ Crash
  <2>1. queue'[p] = <<>> /\ position'[p] = committed'[p]
    BY <1>8 DEF ConsumeResolves, Crash, ClosingInv, LoopRunning, Drained
  <2>2. committed'[p] = committed[p]
    BY <1>8 DEF ConsumeResolves, Crash
  <2> QED BY <1>4, <2>1, <2>2 DEF Cursor
<1>9. ASSUME NEW q \in Lanes, Refetch(q) PROVE FALSE
    BY <1>1, <1>9 DEF Refetch, DataTypeOK
<1>10. ASSUME NEW q \in Lanes, MarkFatal(q) PROVE UNCHANGED <<queue[p], position[p]>>
    BY <1>10 DEF MarkFatal
<1>11. HostStep \/ (\E q \in Lanes : WorkStep(q)) => UNCHANGED <<queue[p], position[p]>>
    BY HostLeavesData, WorkLeavesHost
<1> QED BY <1>5, <1>6, <1>7, <1>8, <1>9, <1>10, <1>11, NextCases

-----------------------------------------------------------------------------
LEMMA HostInit == Init => SlotInv /\ ClosingInv /\ FinishedTruthful /\ CursorInv
<1> SUFFICES ASSUME Init PROVE SlotInv /\ ClosingInv /\ FinishedTruthful /\ CursorInv
    OBVIOUS
<1>1. SlotInv /\ FinishedTruthful
    BY DEF Init, SlotInv, FinishedTruthful
<1>2. ClosingInv
    BY DEF Init, ClosingInv, LoopRunning, Drained
<1>3. CursorInv
    BY DEF Init, CursorInv
<1> QED BY <1>1, <1>2, <1>3

LEMMA CountsInit == Init => Counted /\ inFlight <= Concurrency /\ Balanced
<1> SUFFICES ASSUME Init PROVE Counted /\ inFlight <= Concurrency /\ Balanced
    OBVIOUS
<1>1. Tasks = {} /\ inFlight = 0
    BY NoTasks DEF Init, Drained
<1>2. Deciding = {} /\ Balance(stats) = 0
    BY DEF Init, Deciding, Undecided, Balance, Stats
<1> QED BY <1>1, <1>2, FS_EmptySet, ConsumerAssumption DEF Counted, Balanced

\* The loop never has more in flight than it may.
LEMMA BoundStep ==
    ASSUME LaneInv, SlotInv, inFlight \in 0 .. Concurrency, [Next]_vars
    PROVE  inFlight' <= Concurrency
<1> USE ConsumerAssumption
<1>1. ASSUME NEW p \in Lanes, Read(p) PROVE inFlight' <= Concurrency
    BY <1>1 DEF Read, SlotInv
<1>2. ASSUME NEW p \in Lanes, FinishTask(p) PROVE inFlight' <= Concurrency
    BY <1>2 DEF FinishTask
<1>3. ConsumeResolves \/ Crash => inFlight' = 0
    BY DEF ConsumeResolves, Crash
<1> QED BY <1>1, <1>2, <1>3, QueueLeft

\* All that an induction over the steps needs: IInv, and that the sets which are
\* counted are finite.
Steady ==
    /\ LaneInv /\ SlotInv /\ ClosingInv /\ FinishedTruthful /\ CursorInv
    /\ Counted /\ inFlight <= Concurrency /\ Balanced

LEMMA SteadyStep == Steady /\ [Next]_vars => Steady'
<1> SUFFICES ASSUME Steady, [Next]_vars PROVE Steady'
    OBVIOUS
<1> USE DEF Steady
<1>1. inFlight \in 0 .. Concurrency
    BY FS_CardinalityType, ConsumerAssumption DEF Counted
<1>2. LaneInv' /\ SlotInv' /\ inFlight' <= Concurrency
    BY <1>1, LaneInvStep, SlotStep, BoundStep
<1>3. ClosingInv' /\ FinishedTruthful' /\ CursorInv' /\ Counted'
    BY ClosingStep, FinishedStep, CursorStep, CountedStep
<1>4. Balanced'
    BY LaneFacts, BalancedStep
<1> QED BY <1>2, <1>3, <1>4

LEMMA SteadyIsIInv == Steady => IInv
<1> SUFFICES ASSUME Steady PROVE IInv
    OBVIOUS
<1>1. StatsConserved
    BY LaneFacts, BalancedConserves DEF Steady, Balanced, DataInv, DataTypeOK
<1> QED BY <1>1 DEF Steady, IInv, HostInv, InFlightExact, Counted

\* The inductive invariant holds in every reachable state: what is true of the
\* lanes, and what is true of the loop, the clients and the counters around them.
THEOREM InvCorrect == Spec => []IInv
<1>1. Init => Steady
    BY LaneInvInit, HostInit, CountsInit DEF Steady
<1> QED BY <1>1, SteadyStep, SteadyIsIInv, PTL DEF Spec

\* runLoop's counter is the number of tasks that have not finished, and is never
\* above opts.concurrency.
THEOREM InFlightExactAlways == Spec => []InFlightExact
<1>1. IInv => InFlightExact
    BY DEF IInv, HostInv
<1> QED BY InvCorrect, <1>1, PTL

\* A loop that waits for a slot is registered for the finally of a task, or was
\* released: no wakeup is lost.
THEOREM NoLostWakeupAlways == Spec => []NoLostWakeup
<1>1. IInv => NoLostWakeup
    BY DEF IInv, HostInv, SlotInv, NoLostWakeup
<1> QED BY InvCorrect, <1>1, PTL

\* stop() closes the clients only when no task uses them.
THEOREM DrainBeforeDisconnectAlways == Spec => []DrainBeforeDisconnect
<1>1. IInv => DrainBeforeDisconnect
  <2>1. LaneInv => \A p \in Lanes : Active(p) => queue[p] # <<>>
    BY LaneFacts DEF Active
  <2> QED BY <2>1 DEF IInv, HostInv, ClosingInv, DrainBeforeDisconnect, Drained
<1> QED BY InvCorrect, <1>1, PTL

\* `finished` settles only when all is drained, and rejects exactly on a fatal error.
THEOREM FinishedTruthfulAlways == Spec => []FinishedTruthful
<1>1. IInv => FinishedTruthful
    BY DEF IInv, HostInv
<1> QED BY InvCorrect, <1>1, PTL

\* Every message that was received is counted once.
THEOREM StatsConservedAlways == Spec => []StatsConserved
<1>1. IInv => StatsConserved
    BY DEF IInv, HostInv
<1> QED BY InvCorrect, <1>1, PTL

\* Without a rebalance the committed offset of a lane never moves back.
THEOREM CommitsAdvanceAlways == Spec => CommitsAdvance
<1>1. ASSUME IInv, [Next]_vars, NEW p \in Lanes, refetches = 0
      PROVE  committed'[p] >= committed[p]
  <2>1. DataInv /\ DataTypeOK
    BY <1>1, LaneFacts DEF IInv, DataInv
  <2>2. Cursor(queue[p], position[p], committed[p])
    BY <1>1 DEF IInv, HostInv, CursorInv, Cursor
  <2>3. /\ queue[p] \in Seq(Offsets)
        /\ position[p] \in Nat /\ committed[p] \in Nat
    BY <2>1, ConsumerAssumption DEF DataTypeOK
  <2>4. CASE committed'[p] = committed[p]
    BY <2>3, <2>4
  <2>5. CASE committed'[p] # committed[p]
    <3>1. queue[p] # <<>> /\ committed'[p] = Head(queue[p]) + 1
      BY <2>1, <2>5, <1>1, CommittedChanges
    <3>2. committed[p] <= Head(queue[p]) + 1
      BY <2>2, <2>3, <3>1, CursorCommit
    <3>3. Head(queue[p]) \in Int
      BY <2>3, <3>1, ConsumerAssumption DEF Offsets
    <3> QED BY <2>3, <3>1, <3>2, <3>3
  <2> QED BY <2>4, <2>5
<1>2. IInv /\ [Next]_vars
        => [\A p \in Lanes : refetches = 0 => committed'[p] >= committed[p]]_vars
    BY <1>1
<1> QED BY InvCorrect, <1>2, PTL DEF Spec, CommitsAdvance
=============================================================================
