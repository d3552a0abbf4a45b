----------------------------- MODULE MCConsumer -----------------------------
(***************************************************************************)
(* Instances of Consumer for TLC: the lanes and the callers are model      *)
(* values, the rest of each instance is in its configuration.              *)
(***************************************************************************)
EXTENDS Consumer

\* What a comment of the package says, checked as it is written.  consumer.ts,
\* KafkaConsumer.stop: "Stops consuming, drains in-flight messages,
\* disconnects."  No loop runs once a stop() has returned.
StoppedMeansStopped ==
    (\E c \in Callers : stopPc[c] = "done") => ~LoopRunning
=============================================================================
