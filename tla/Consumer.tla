------------------------------ MODULE Consumer ------------------------------
(***************************************************************************)
(* The at-least-once event consumer of @moribashi/kafka                    *)
(* (packages/kafka/src/consumer.ts): one run loop reading a stream, one    *)
(* sequential lane per partition, a bound on the messages in flight,       *)
(* in-process retries, a failure policy, manual commits, a fatal state and *)
(* a draining stop.                                                        *)
(*                                                                         *)
(* JavaScript runs one callback at a time, so an action is the code        *)
(* between two awaits, and every interleaving of callbacks is explored.    *)
(* The broker, the message stream and the DLQ producer are external: they  *)
(* answer late, fail, or fail after taking effect, as Faults allows.       *)
(***************************************************************************)
EXTENDS Integers, Sequences, FiniteSets

CONSTANTS
    Lanes,        \* topic:partition pairs the stream delivers from
    BoundLanes,   \* the lanes whose topic has a handler
    LogLen,       \* messages on each lane (the bound on the logs)
    Concurrency,  \* opts.concurrency
    MaxRetries,   \* opts.maxRetries
    Policy,       \* "throw", "skip" or "dlq"
    Callers,      \* callers of stop(), each of which calls it once
    Faults,       \* which external calls may fail
    MaxCrashes,   \* bound: crashes of the process
    MaxRefetches  \* bound: rebalances that rewind a lane

FaultKinds == {"bind", "consume", "stream", "close", "decode", "handler",
               "publish", "commit", "onFatal"}

ASSUME ConsumerAssumption ==
    /\ BoundLanes \subseteq Lanes
    /\ LogLen \in Nat
    /\ Concurrency \in Nat \ {0}
    /\ MaxRetries \in Nat
    /\ Policy \in {"throw", "skip", "dlq"}
    /\ Faults \subseteq FaultKinds
    /\ MaxCrashes \in Nat
    /\ MaxRefetches \in Nat

Offsets == 0 .. LogLen - 1
TotalAttempts == MaxRetries + 1

\* "dead": the original bytes were republished to the DLQ topic.
Outcomes == {"handled"} \cup (CASE Policy = "skip" -> {"skipped"}
                                [] Policy = "dlq" -> {"dead"}
                                [] OTHER -> {})

VARIABLES
    committed,  \* the group's committed offset of each lane, at the broker
    fate,       \* history: the ways each message was settled so far
    position,   \* the next offset the stream delivers, per lane
    stream,     \* the MessagesStream
    queue,      \* per lane, the offsets whose task has not finished
    stage,      \* per lane, where the task at the head of its queue is
    attempt,    \* per lane, the head's delivery attempt (0: none made)
    loop,       \* where runLoop is
    slot,       \* whether releaseSlot is set
    inFlight,   \* runLoop's counter
    started, stopping, fatal,  \* the flags of the closure (fatalError is set)
    joining,    \* a start() is waiting for consume()
    finished,   \* the `finished` promise
    rawOpen,    \* the raw consumer has not been closed
    dlqOpen,    \* the DLQ producer has not been closed
    stopPc,     \* per caller, where its stop() is
    stats,      \* the counters
    crashes, refetches  \* how often each bounded event happened

durableVars == <<committed, fate>>
laneVars    == <<queue, stage, attempt>>
loopVars    == <<position, loop, slot, inFlight, finished>>
flagVars    == <<started, stopping, fatal, joining>>
clientVars  == <<stream, rawOpen, dlqOpen>>
boundVars   == <<crashes, refetches>>
vars == <<durableVars, laneVars, loopVars, flagVars, clientVars, stopPc, stats,
          boundVars>>

\* What a step of a lane's task leaves alone, and what a step of stop() does.
hostVars == <<loopVars, flagVars, clientVars, stopPc, boundVars>>
workVars == <<durableVars, laneVars, loopVars, stats, boundVars>>

Stats == {"received", "processed", "retried", "skipped", "dlq", "failed"}

Stages == {"idle", "decoding", "handling", "backoff", "publishing",
           "committing", "rejected", "settled"}
LoopPcs == {"none", "reading", "waiting", "draining", "drainingErr", "ended",
            "failed"}
StopPcs == {"idle", "closingStream", "joiningLoop", "closingRaw", "closingDlq",
            "bareDlq", "done"}

\* runLoop has not settled yet.
LoopRunning == loop \in {"reading", "waiting", "draining", "drainingErr"}

\* A message of the lane is between its first synchronous step and its last.
Active(p) == stage[p] \notin {"idle", "settled"}

\* The outcome of the head is not decided yet.
Undecided(p) == stage[p] \in {"decoding", "handling", "backoff", "publishing"}

Drained == \A p \in Lanes : queue[p] = <<>>

\* The tasks that have not finished, each by its lane and its place there.
Tasks == UNION {{p} \X (1 .. Len(queue[p])) : p \in Lanes}

MessageAvailable == \E p \in Lanes : position[p] < LogLen

Bump(s, name) == [s EXCEPT ![name] = @ + 1]

\* stream?.close() on a stream that is already closed or broken does nothing.
Closing(s) == IF s = "open" THEN "closing" ELSE s

-----------------------------------------------------------------------------
\* The closure as createKafkaConsumer builds it, and an untouched log.
Init ==
    /\ committed = [p \in Lanes |-> 0]
    /\ fate = [p \in Lanes |-> [o \in Offsets |-> {}]]
    /\ position = [p \in Lanes |-> 0]
    /\ queue = [p \in Lanes |-> <<>>]
    /\ stage = [p \in Lanes |-> "idle"]
    /\ attempt = [p \in Lanes |-> 0]
    /\ stream = "none" /\ loop = "none" /\ slot = FALSE /\ inFlight = 0
    /\ started = FALSE /\ stopping = FALSE /\ fatal = FALSE /\ joining = FALSE
    /\ finished = "pending" /\ rawOpen = TRUE /\ dlqOpen = TRUE
    /\ stopPc = [c \in Callers |-> "idle"]
    /\ stats = [s \in Stats |-> 0]
    /\ crashes = 0 /\ refetches = 0

-----------------------------------------------------------------------------
\* start(): the flag is set before the bindings are resolved and consume() is
\* called; either may throw, and nothing resets the flag then.
Start ==
    /\ ~started
    /\ started' = TRUE
    /\ \/ rawOpen /\ joining' = TRUE
       \/ ("bind" \in Faults \/ ~rawOpen) /\ UNCHANGED joining
    /\ UNCHANGED <<stopping, fatal, clientVars, stopPc, workVars>>

\* Mutant: the stream starts from the earliest offset, not the committed one.
ConsumeFromEarliest ==
    /\ joining
    /\ joining' = FALSE
    /\ stream' = "open"
    /\ position' = [p \in Lanes |-> 0]
    /\ loop' = "reading"
    /\ slot' = FALSE
    /\ inFlight' = 0
    /\ UNCHANGED <<durableVars, laneVars, finished, started, stopping, fatal,
                   rawOpen, dlqOpen, stopPc, stats, boundVars>>

\* consume() resolved: a stream per lane from the committed offset (mode
\* 'committed', fallback 'earliest'), and the loop starts.
ConsumeResolves ==
    /\ joining
    /\ joining' = FALSE
    /\ stream' = "open"
    /\ position' = committed
    /\ loop' = "reading"
    /\ slot' = FALSE
    /\ inFlight' = 0
    /\ UNCHANGED <<durableVars, laneVars, finished, started, stopping, fatal,
                   rawOpen, dlqOpen, stopPc, stats, boundVars>>

ConsumeRejects ==
    /\ joining
    /\ "consume" \in Faults \/ ~rawOpen
    /\ joining' = FALSE
    /\ UNCHANGED <<started, stopping, fatal, clientVars, stopPc, workVars>>

-----------------------------------------------------------------------------
\* Mutant: the loop waits one message too late.
ReadOverBound(p) ==
    /\ loop = "reading" /\ stream = "open" /\ ~stopping
    /\ position[p] < LogLen
    /\ position' = [position EXCEPT ![p] = @ + 1]
    /\ queue' = [queue EXCEPT ![p] = Append(@, position[p])]
    /\ inFlight' = inFlight + 1
    /\ slot' = (inFlight + 1 > Concurrency)
    /\ loop' = IF inFlight + 1 > Concurrency THEN "waiting" ELSE "reading"
    /\ UNCHANGED <<durableVars, stage, attempt, finished, flagVars,
                   clientVars, stopPc, stats, boundVars>>

\* One iteration of the for-await: the message joins its lane, and the loop
\* waits for a slot when `concurrency` messages are in flight.
Read(p) ==
    /\ loop = "reading" /\ stream = "open" /\ ~stopping
    /\ position[p] < LogLen
    /\ position' = [position EXCEPT ![p] = @ + 1]
    /\ queue' = [queue EXCEPT ![p] = Append(@, position[p])]
    /\ inFlight' = inFlight + 1
    /\ slot' = (inFlight + 1 >= Concurrency)
    /\ loop' = IF inFlight + 1 >= Concurrency THEN "waiting" ELSE "reading"
    /\ UNCHANGED <<durableVars, stage, attempt, finished, flagVars,
                   clientVars, stopPc, stats, boundVars>>

\* A message delivered while stopping ends the loop; leaving a for-await
\* closes the stream.
ReadBreaks ==
    /\ loop = "reading" /\ stream \in {"open", "closing"} /\ stopping
    /\ MessageAvailable
    /\ loop' = "draining"
    /\ stream' = "closed"
    /\ UNCHANGED <<durableVars, laneVars, position, slot, inFlight, finished,
                   flagVars, rawOpen, dlqOpen, stopPc, stats, boundVars>>

\* The stream ended, or the iterator threw what broke it.
ReadEnds ==
    /\ loop = "reading" /\ stream \in {"closed", "broken"}
    /\ loop' = IF stream = "closed" THEN "draining" ELSE "drainingErr"
    /\ UNCHANGED <<durableVars, laneVars, position, slot, inFlight, finished,
                   flagVars, clientVars, stopPc, stats, boundVars>>

\* The awaited slot promise was resolved.
SlotReleased ==
    /\ loop = "waiting" /\ ~slot
    /\ loop' = "reading"
    /\ UNCHANGED <<durableVars, laneVars, position, slot, inFlight, finished,
                   flagVars, clientVars, stopPc, stats, boundVars>>

\* How runLoop ends: it settles `finished`, rejected under a fatal error once
\* onFatal has returned; or it throws what the iterator or onFatal threw, and
\* `finished` stays as it is.
LoopOutcome ==
    \/ /\ loop = "draining"
       /\ loop' = "ended"
       /\ finished' = IF fatal THEN "rejected" ELSE "resolved"
    \/ /\ loop = "drainingErr" \/ (fatal /\ "onFatal" \in Faults)
       /\ loop' = "failed"
       /\ UNCHANGED finished

\* Mutant: the lanes are not awaited.
LoopSettlesEarly ==
    /\ loop \in {"draining", "drainingErr"}
    /\ LoopOutcome
    /\ UNCHANGED <<durableVars, laneVars, position, slot, inFlight, flagVars,
                   clientVars, stopPc, stats, boundVars>>

\* After the finally, which waits for every lane.
LoopSettles ==
    /\ loop \in {"draining", "drainingErr"}
    /\ Drained
    /\ LoopOutcome
    /\ UNCHANGED <<durableVars, laneVars, position, slot, inFlight, flagVars,
                   clientVars, stopPc, stats, boundVars>>

-----------------------------------------------------------------------------
\* How a lane's task ends its part of the work on offset o of lane p.
Settle(p, o, outcome) == fate' = [fate EXCEPT ![p][o] = @ \cup {outcome}]

\* applyFailurePolicy, up to its first await, from the counters s.
ApplyFailurePolicy(p, s) ==
    \/ /\ Policy = "throw"
       /\ stats' = Bump(s, "failed")
       /\ stage' = [stage EXCEPT ![p] = "rejected"]
       /\ UNCHANGED fate
    \/ /\ Policy = "skip"
       /\ stats' = Bump(s, "skipped")
       /\ stage' = [stage EXCEPT ![p] = "committing"]
       /\ Settle(p, Head(queue[p]), "skipped")
    \/ /\ Policy = "dlq"
       /\ stats' = s
       /\ stage' = [stage EXCEPT ![p] = "publishing"]
       /\ UNCHANGED fate

\* Mutant: the lane goes on whether or not the consumer is stopping.
BeginMessageUnguarded(p) ==
    /\ stage[p] = "idle" /\ queue[p] # <<>>
    /\ \/ /\ p \in BoundLanes
          /\ stage' = [stage EXCEPT ![p] = "decoding"]
          /\ attempt' = [attempt EXCEPT ![p] = 1]
          /\ stats' = Bump(stats, "received")
          /\ UNCHANGED fate
       \/ /\ p \notin BoundLanes
          /\ attempt' = [attempt EXCEPT ![p] = 0]
          /\ ApplyFailurePolicy(p, Bump(stats, "received"))
    /\ UNCHANGED <<committed, queue, hostVars>>

\* Mutant: a message that is abandoned is never settled.
BeginMessageStuck(p) ==
    /\ stage[p] = "idle" /\ queue[p] # <<>> /\ ~fatal /\ ~stopping
    /\ BeginMessageUnguarded(p)

\* processMessage starts on the head of the lane, once the task before it has
\* finished: abandon when stopping, give up when no handler is bound, else
\* make the first attempt.
BeginMessage(p) ==
    /\ stage[p] = "idle" /\ queue[p] # <<>>
    /\ \/ /\ fatal \/ stopping
          /\ stage' = [stage EXCEPT ![p] = "settled"]
          /\ UNCHANGED <<attempt, fate, stats>>
       \/ /\ ~fatal /\ ~stopping /\ p \in BoundLanes
          /\ stage' = [stage EXCEPT ![p] = "decoding"]
          /\ attempt' = [attempt EXCEPT ![p] = 1]
          /\ stats' = Bump(stats, "received")
          /\ UNCHANGED fate
       \/ /\ ~fatal /\ ~stopping /\ p \notin BoundLanes
          /\ attempt' = [attempt EXCEPT ![p] = 0]
          /\ ApplyFailurePolicy(p, Bump(stats, "received"))
    /\ UNCHANGED <<committed, queue, hostVars>>

DecodeResolves(p) ==
    /\ stage[p] = "decoding"
    /\ stage' = [stage EXCEPT ![p] = "handling"]
    /\ UNCHANGED <<durableVars, queue, attempt, stats, hostVars>>

\* The handler resolved and its scope was disposed: counted, then committed.
HandlerResolves(p) ==
    /\ stage[p] = "handling"
    /\ stage' = [stage EXCEPT ![p] = "committing"]
    /\ Settle(p, Head(queue[p]), "handled")
    /\ stats' = Bump(stats, "processed")
    /\ UNCHANGED <<committed, queue, attempt, hostVars>>

\* Mutant: one attempt too few.
AttemptFailsSoon(p) ==
    /\ \/ stage[p] = "decoding" /\ "decode" \in Faults
       \/ stage[p] = "handling" /\ "handler" \in Faults
    /\ IF attempt[p] < MaxRetries /\ ~stopping
       THEN /\ stats' = Bump(stats, "retried")
            /\ stage' = [stage EXCEPT ![p] = "backoff"]
            /\ UNCHANGED fate
       ELSE ApplyFailurePolicy(p, stats)
    /\ UNCHANGED <<committed, queue, attempt, hostVars>>

\* Decoding or the handler threw: back off and retry while attempts are left
\* and nobody is stopping, else apply the policy.
AttemptFails(p) ==
    /\ \/ stage[p] = "decoding" /\ "decode" \in Faults
       \/ stage[p] = "handling" /\ "handler" \in Faults
    /\ IF attempt[p] < TotalAttempts /\ ~stopping
       THEN /\ stats' = Bump(stats, "retried")
            /\ stage' = [stage EXCEPT ![p] = "backoff"]
            /\ UNCHANGED fate
       ELSE ApplyFailurePolicy(p, stats)
    /\ UNCHANGED <<committed, queue, attempt, hostVars>>

\* The backoff timer fired: the next attempt, unless stopping.
BackoffElapses(p) ==
    /\ stage[p] = "backoff"
    /\ IF stopping
       THEN ApplyFailurePolicy(p, stats) /\ UNCHANGED attempt
       ELSE /\ stage' = [stage EXCEPT ![p] = "decoding"]
            /\ attempt' = [attempt EXCEPT ![p] = @ + 1]
            /\ UNCHANGED <<fate, stats>>
    /\ UNCHANGED <<committed, queue, hostVars>>

\* Mutant: the counter is forgotten.
PublishUncounted(p) ==
    /\ stage[p] = "publishing" /\ dlqOpen
    /\ stage' = [stage EXCEPT ![p] = "committing"]
    /\ Settle(p, Head(queue[p]), "dead")
    /\ UNCHANGED stats
    /\ UNCHANGED <<committed, queue, attempt, hostVars>>

PublishResolves(p) ==
    /\ stage[p] = "publishing" /\ dlqOpen
    /\ stage' = [stage EXCEPT ![p] = "committing"]
    /\ Settle(p, Head(queue[p]), "dead")
    /\ stats' = Bump(stats, "dlq")
    /\ UNCHANGED <<committed, queue, attempt, hostVars>>

\* Mutant: the offset is committed although the publish failed.
PublishSwallowed(p) ==
    /\ stage[p] = "publishing"
    /\ "publish" \in Faults \/ ~dlqOpen
    /\ stage' = [stage EXCEPT ![p] = "committing"]
    /\ \/ dlqOpen /\ Settle(p, Head(queue[p]), "dead")
       \/ UNCHANGED fate
    /\ stats' = Bump(stats, "failed")
    /\ UNCHANGED <<committed, queue, attempt, hostVars>>

\* The publish failed, whether or not the record reached the DLQ topic.
PublishRejects(p) ==
    /\ stage[p] = "publishing"
    /\ "publish" \in Faults \/ ~dlqOpen
    /\ stage' = [stage EXCEPT ![p] = "rejected"]
    /\ \/ dlqOpen /\ Settle(p, Head(queue[p]), "dead")
       \/ UNCHANGED fate
    /\ stats' = Bump(stats, "failed")
    /\ UNCHANGED <<committed, queue, attempt, hostVars>>

\* Mutant: commits what was read, not what was processed.
CommitPosition(p) ==
    /\ stage[p] = "committing"
    /\ stage' = [stage EXCEPT ![p] = "settled"]
    /\ \/ committed' = [committed EXCEPT ![p] = position[p]]
       \/ "commit" \in Faults /\ UNCHANGED committed
    /\ UNCHANGED <<fate, queue, attempt, stats, hostVars>>

\* commitMessage: an error is logged and swallowed, whether or not the commit
\* took effect.
CommitSettles(p) ==
    /\ stage[p] = "committing"
    /\ stage' = [stage EXCEPT ![p] = "settled"]
    /\ \/ committed' = [committed EXCEPT ![p] = Head(queue[p]) + 1]
       \/ "commit" \in Faults /\ UNCHANGED committed
    /\ UNCHANGED <<fate, queue, attempt, stats, hostVars>>

\* Mutants: the error is only logged; the consumer is not told to stop.
MarkFatalForgets(p) ==
    /\ stage[p] = "rejected"
    /\ stage' = [stage EXCEPT ![p] = "settled"]
    /\ UNCHANGED <<durableVars, queue, attempt, position, loop, inFlight,
                   finished, started, stopping, fatal, joining,
                   slot, stream, rawOpen, dlqOpen, stopPc,
                   stats, boundVars>>

MarkFatalRunsOn(p) ==
    /\ stage[p] = "rejected"
    /\ stage' = [stage EXCEPT ![p] = "settled"]
    /\ fatal' = TRUE
    /\ UNCHANGED <<durableVars, queue, attempt, position, loop, inFlight,
                   finished, started, stopping, joining, slot,
                   stream, rawOpen, dlqOpen, stopPc,
                   stats, boundVars>>

\* The task's catch: markFatal, which acts on the first error only.
MarkFatal(p) ==
    /\ stage[p] = "rejected"
    /\ stage' = [stage EXCEPT ![p] = "settled"]
    /\ fatal' = TRUE
    /\ stopping' = TRUE
    /\ IF fatal THEN UNCHANGED <<slot, stream>>
                ELSE slot' = FALSE /\ stream' = Closing(stream)
    /\ UNCHANGED <<durableVars, queue, attempt, position, loop, inFlight,
                   finished, started, joining, rawOpen, dlqOpen, stopPc,
                   stats, boundVars>>

\* Mutant: releaseSlot is not called.
FinishKeepsSlot(p) ==
    /\ stage[p] = "settled"
    /\ stage' = [stage EXCEPT ![p] = "idle"]
    /\ queue' = [queue EXCEPT ![p] = Tail(@)]
    /\ inFlight' = inFlight - 1
    /\ UNCHANGED <<durableVars, attempt, position, loop, slot, finished,
                   flagVars, clientVars, stopPc, stats, boundVars>>

\* The task's finally: the slot is free and the lane's next task may start.
FinishTask(p) ==
    /\ stage[p] = "settled"
    /\ stage' = [stage EXCEPT ![p] = "idle"]
    /\ queue' = [queue EXCEPT ![p] = Tail(@)]
    /\ inFlight' = inFlight - 1
    /\ slot' = FALSE
    /\ UNCHANGED <<durableVars, attempt, position, loop, finished, flagVars,
                   clientVars, stopPc, stats, boundVars>>

-----------------------------------------------------------------------------
\* stop() before a start(), or after another stop() finished, only closes the
\* clients.
StopBare(c) ==
    /\ stopPc[c] = "idle" /\ ~started
    /\ rawOpen' = FALSE
    /\ stopPc' = [stopPc EXCEPT ![c] = "bareDlq"]
    /\ UNCHANGED <<flagVars, stream, dlqOpen, workVars>>

BareClosesDlq(c) ==
    /\ stopPc[c] = "bareDlq"
    /\ dlqOpen' = FALSE
    /\ stopPc' = [stopPc EXCEPT ![c] = "done"]
    /\ UNCHANGED <<flagVars, stream, rawOpen, workVars>>

Stop(c) ==
    /\ stopPc[c] = "idle" /\ started
    /\ stopping' = TRUE
    /\ slot' = FALSE
    /\ stream' = Closing(stream)
    /\ stopPc' = [stopPc EXCEPT ![c] = "closingStream"]
    /\ UNCHANGED <<durableVars, laneVars, position, loop, inFlight, finished,
                   started, fatal, joining, rawOpen, dlqOpen, stats,
                   boundVars>>

\* `await loop`, which is skipped when there is no loop at that moment.
StopAwaitsLoop(c) ==
    /\ stopPc[c] = "closingStream" /\ stream # "closing"
    /\ IF loop = "none"
       THEN /\ stopPc' = [stopPc EXCEPT ![c] = "closingRaw"]
            /\ rawOpen' = FALSE
       ELSE /\ stopPc' = [stopPc EXCEPT ![c] = "joiningLoop"]
            /\ UNCHANGED rawOpen
    /\ UNCHANGED <<flagVars, stream, dlqOpen, workVars>>

\* Mutant: the loop is not awaited.
StopClosesEarly(c) ==
    /\ stopPc[c] = "joiningLoop"
    /\ stopPc' = [stopPc EXCEPT ![c] = "closingRaw"]
    /\ rawOpen' = FALSE
    /\ UNCHANGED <<flagVars, stream, dlqOpen, workVars>>

StopClosesRaw(c) ==
    /\ stopPc[c] = "joiningLoop" /\ ~LoopRunning
    /\ stopPc' = [stopPc EXCEPT ![c] = "closingRaw"]
    /\ rawOpen' = FALSE
    /\ UNCHANGED <<flagVars, stream, dlqOpen, workVars>>

StopClosesDlq(c) ==
    /\ stopPc[c] = "closingRaw"
    /\ stopPc' = [stopPc EXCEPT ![c] = "closingDlq"]
    /\ dlqOpen' = FALSE
    /\ UNCHANGED <<flagVars, stream, rawOpen, workVars>>

StopReturns(c) ==
    /\ stopPc[c] = "closingDlq"
    /\ stopPc' = [stopPc EXCEPT ![c] = "done"]
    /\ started' = FALSE
    /\ UNCHANGED <<stopping, fatal, joining, clientVars, workVars>>

-----------------------------------------------------------------------------
\* The environment: the library closes the stream it was asked to close (or
\* the close fails, which its callers swallow), the stream breaks under the
\* loop, a rebalance gives a lane back from its committed offset, and the
\* process crashes and is restarted.
StreamCloses ==
    /\ stream = "closing"
    /\ stream' = "closed"
    /\ UNCHANGED <<flagVars, rawOpen, dlqOpen, stopPc, workVars>>

StreamCloseFails ==
    /\ stream = "closing" /\ "close" \in Faults
    /\ stream' = "open"
    /\ UNCHANGED <<flagVars, rawOpen, dlqOpen, stopPc, workVars>>

StreamBreaks ==
    /\ stream = "open" /\ "stream" \in Faults
    /\ stream' = "broken"
    /\ UNCHANGED <<flagVars, rawOpen, dlqOpen, stopPc, workVars>>

Refetch(p) ==
    /\ stream = "open"
    /\ refetches < MaxRefetches
    /\ position' = [position EXCEPT ![p] = committed[p]]
    /\ refetches' = refetches + 1
    /\ UNCHANGED <<durableVars, laneVars, loop, slot, inFlight, finished,
                   flagVars, clientVars, stopPc, stats, crashes>>

Crash ==
    /\ crashes < MaxCrashes
    /\ crashes' = crashes + 1
    /\ queue' = [p \in Lanes |-> <<>>]
    /\ stage' = [p \in Lanes |-> "idle"]
    /\ attempt' = [p \in Lanes |-> 0]
    /\ stream' = "none" /\ loop' = "none" /\ slot' = FALSE /\ inFlight' = 0
    /\ started' = FALSE /\ stopping' = FALSE /\ fatal' = FALSE
    /\ joining' = FALSE /\ finished' = "pending"
    /\ rawOpen' = TRUE /\ dlqOpen' = TRUE
    /\ stopPc' = [c \in Callers |-> "idle"]
    /\ stats' = [s \in Stats |-> 0]
    /\ position' = committed
    /\ UNCHANGED <<durableVars, refetches>>

\* Nothing of the consumer is running: it waits for a call or for a message,
\* and so may a stop() whose stream was not closed.
Quiescent ==
    /\ Drained /\ ~joining
    /\ \/ /\ ~LoopRunning
          /\ \A c \in Callers : stopPc[c] \in {"idle", "done"}
       \/ /\ loop = "reading" /\ stream = "open" /\ ~MessageAvailable
          /\ \A c \in Callers : stopPc[c] \in {"idle", "done", "joiningLoop"}

Idle == Quiescent /\ UNCHANGED vars

-----------------------------------------------------------------------------
LaneStep(p) ==
    \/ BeginMessage(p) \/ DecodeResolves(p) \/ HandlerResolves(p)
    \/ AttemptFails(p) \/ BackoffElapses(p)
    \/ PublishResolves(p) \/ PublishRejects(p)
    \/ CommitSettles(p) \/ MarkFatal(p) \/ FinishTask(p)

LoopStep == ReadBreaks \/ ReadEnds \/ SlotReleased \/ LoopSettles

StopStep(c) ==
    \/ BareClosesDlq(c) \/ StopAwaitsLoop(c) \/ StopClosesRaw(c)
    \/ StopClosesDlq(c) \/ StopReturns(c)

Next ==
    \/ Start \/ ConsumeResolves \/ ConsumeRejects
    \/ \E p \in Lanes : Read(p) \/ LaneStep(p) \/ Refetch(p)
    \/ LoopStep
    \/ \E c \in Callers : StopBare(c) \/ Stop(c) \/ StopStep(c)
    \/ StreamCloses \/ StreamCloseFails \/ StreamBreaks
    \/ Crash
    \/ Idle

Spec == Init /\ [][Next]_vars

\* Promises that are started settle: consume(), decoding, handlers, timers,
\* publishes, commits and close() answer one way or another, and a message
\* that is there is delivered.  Nobody has to call start() or stop(), and
\* nothing has to fail.
Fairness ==
    /\ WF_vars(ConsumeResolves \/ ConsumeRejects)
    /\ WF_vars(\E p \in Lanes : Read(p))
    /\ \A p \in Lanes : WF_vars(LaneStep(p))
    /\ WF_vars(LoopStep)
    /\ \A c \in Callers : WF_vars(StopStep(c))
    /\ WF_vars(StreamCloses)

FairSpec == Spec /\ Fairness

-----------------------------------------------------------------------------
(***************************************************************************)
(* Properties.                                                             *)
(***************************************************************************)

\* Every variable has its type: what is moved and counted, and the control.
DataTypeOK ==
    /\ committed \in [Lanes -> 0 .. LogLen]
    /\ fate \in [Lanes -> [Offsets -> SUBSET Outcomes]]
    /\ position \in [Lanes -> 0 .. LogLen]
    /\ queue \in [Lanes -> Seq(Offsets)]
    /\ stage \in [Lanes -> Stages]
    /\ attempt \in [Lanes -> 0 .. TotalAttempts]
    /\ inFlight \in Int
    /\ stats \in [Stats -> Nat]
    /\ crashes \in 0 .. MaxCrashes
    /\ refetches \in 0 .. MaxRefetches

ControlTypeOK ==
    /\ stream \in {"none", "open", "closing", "closed", "broken"}
    /\ loop \in LoopPcs
    /\ finished \in {"pending", "resolved", "rejected"}
    /\ stopPc \in [Callers -> StopPcs]
    /\ slot \in BOOLEAN /\ started \in BOOLEAN /\ stopping \in BOOLEAN
    /\ fatal \in BOOLEAN /\ joining \in BOOLEAN
    /\ rawOpen \in BOOLEAN /\ dlqOpen \in BOOLEAN

TypeOK == DataTypeOK /\ ControlTypeOK

\* Every offset of lane p below n has been settled.
Covered(p, n) == \A o \in Offsets : o < n => fate[p][o] # {}

\* No message is lost: the committed offset of a lane passes only over
\* messages that were handled, skipped or republished, whatever fails, stops,
\* crashes or is redelivered.  This is what abandoning queued work is for: a
\* later offset of the lane must not be committed past a poison message.
NoLoss == \A p \in Lanes : Covered(p, committed[p])

\* A lane works on a message only after every message before it in the
\* partition was settled: ordering within a partition survives retries, a
\* failing message, a stop and a rebalance.
LaneOrder == \A p \in Lanes : Active(p) => Covered(p, Head(queue[p]))

\* The counter of the run loop is the number of messages whose task has not
\* finished, and never exceeds opts.concurrency.
InFlightExact == inFlight = Cardinality(Tasks) /\ inFlight <= Concurrency

\* A loop that waits for a slot is waiting for something: it is registered
\* for the next finally, or it was released already; it is never registered
\* when nothing is in flight or once the consumer is stopping.
NoLostWakeup ==
    loop = "waiting" => \/ ~slot
                        \/ inFlight >= Concurrency /\ ~stopping

\* The clients are closed only after every task has finished, so no handler
\* runs on a disconnected consumer and no commit or DLQ publish is attempted
\* through a closed client.
DrainBeforeDisconnect == ~rawOpen \/ ~dlqOpen => \A p \in Lanes : ~Active(p)

\* Every message that was received is in exactly one of the other counters,
\* or its lane is still deciding.
StatsConserved ==
    stats["received"] =
        stats["processed"] + stats["skipped"] + stats["dlq"] + stats["failed"]
        + Cardinality({p \in Lanes : Undecided(p)})

\* `finished` settles only when nothing is left to run, and resolves only when
\* no failed message is behind it.
FinishedTruthful ==
    finished # "pending" => /\ Drained
                            /\ loop = "ended"
                            /\ (finished = "rejected") <=> fatal

\* While nobody stops the consumer, no message with a handler is given up
\* (routed to the DLQ, or fatal) before it had all of its attempts.
RetriesFirst ==
    \A p \in BoundLanes :
        ~stopping /\ stage[p] \in {"publishing", "rejected"}
            => attempt[p] = TotalAttempts

\* Every offset below o is settled according to f or is among the first i - 1
\* of the queue s.
Preceded(f, s, o, i) ==
    \A e \in Offsets : e < o => f[e] # {} \/ \E j \in 1 .. i - 1 : s[j] = e

InOrder(f, s) == \A i \in 1 .. Len(s) : Preceded(f, s, s[i], i)

\* What the place of a task says about its message: it is at the head of a
\* queue, has an attempt left when it backs off, and only the DLQ policy
\* publishes; it commits only what has an outcome.
StageInv ==
    \A p \in Lanes :
        /\ stage[p] # "idle" => queue[p] # <<>>
        /\ stage[p] = "backoff" => attempt[p] < TotalAttempts
        /\ stage[p] = "publishing" => Policy = "dlq"
        /\ stage[p] = "committing" => fate[p][Head(queue[p])] # {}
        /\ stage[p] = "settled" => fate[p][Head(queue[p])] # {} \/ stopping

\* Why NoLoss and LaneOrder hold: while the consumer is not stopping, a queue
\* (and the reader behind it) skips nothing that is not settled; once it is
\* stopping, no further task gets past its first guard.
QueueInv ==
    /\ fatal => stopping
    /\ ~stopping => \A p \in Lanes : InOrder(fate[p], queue[p])
    /\ ~stopping /\ loop \in {"reading", "waiting"} =>
          \A p \in Lanes :
              Preceded(fate[p], queue[p], position[p], Len(queue[p]) + 1)

LaneInv == TypeOK /\ StageInv /\ RetriesFirst /\ NoLoss /\ LaneOrder /\ QueueInv

\* Why NoLostWakeup and the bound hold: the loop registers for a slot only when
\* it has to wait, and reads on only below the bound, or to find out that the
\* consumer is stopping.
SlotInv ==
    /\ slot => loop = "waiting" /\ ~stopping /\ inFlight >= Concurrency
    /\ loop \in {"reading", "waiting"} =>
           slot \/ stopping \/ inFlight < Concurrency

\* Why DrainBeforeDisconnect holds: tasks need a running loop, a client is closed
\* when there is none, and no loop that starts after that reads a message.
ClosingInv ==
    /\ joining => loop = "none"
    /\ ~LoopRunning => Drained
    /\ ~started => ~rawOpen \/ (~joining /\ loop = "none")
    /\ ~rawOpen => Drained /\ (stopping \/ (~joining /\ loop = "none"))
    /\ ~dlqOpen => ~rawOpen
    /\ \A c \in Callers :
           /\ stopPc[c] \in {"closingStream", "joiningLoop"} => stopping
           /\ stopPc[c] \in {"bareDlq", "closingRaw", "closingDlq"} => ~rawOpen

\* Why CommitsAdvance holds: without a rebalance a lane is read, and so worked
\* on, in the order of its offsets, from its committed offset.
CursorInv ==
    refetches = 0 =>
        \A p \in Lanes :
            /\ committed[p] <= position[p]
            /\ \A i \in 1 .. Len(queue[p]) :
                   /\ committed[p] <= queue[p][i] + 1
                   /\ queue[p][i] < position[p]
                   /\ \A j \in 1 .. i - 1 : queue[p][j] < queue[p][i]

HostInv ==
    /\ InFlightExact /\ SlotInv /\ ClosingInv
    /\ FinishedTruthful /\ StatsConserved /\ CursorInv

IInv == LaneInv /\ HostInv

\* Without redelivery the committed offset of a lane never moves back.
CommitsAdvance ==
    [][\A p \in Lanes : refetches = 0 => committed'[p] >= committed[p]]_vars

\* The consumer implements the abstract at-least-once delivery.
ALO == INSTANCE AtLeastOnce WITH
           Lanes <- Lanes, Offsets <- Offsets, Outcomes <- Outcomes,
           committed <- committed, fate <- fate
ImplementsAtLeastOnce == ALO!Spec

\* A start() joined after stop() had looked for its stream: the loop waits for
\* a message on a stream that nobody closes.
LeftOpen == stopping /\ loop = "reading" /\ stream = "open"

\* Every call of stop() returns, whatever it interrupts: a full pool, a lane in
\* a backoff, a failing handler, a fatal error or another stop(); only a start()
\* that is still joining may leave it waiting.
StopCompletes ==
    \A c \in Callers :
        (stopPc[c] # "idle") ~> (stopPc[c] \in {"done", "idle"} \/ LeftOpen)

\* A fatal error is reported: onFatal is called and `finished` rejects, though
\* stop() and the other lanes are in the middle of something.  It takes that the
\* stream's iterator does not throw ("stream"), that closing the stream does not
\* reject and leave the loop waiting for a message ("close"), and that onFatal
\* returns ("onFatal"); under each of these `finished` may never settle.
FatalReported == fatal ~> (finished = "rejected" \/ ~fatal)

\* While the loop runs and nobody stops it, every message of every lane is
\* eventually settled: no lane is starved by the bound on what is in flight.
EveryMessageSettled ==
    \A p \in Lanes, o \in Offsets :
        (loop = "reading") ~> (fate[p][o] # {} \/ stopping \/ ~LoopRunning)

=============================================================================
