----------------------------- MODULE MCKafkaBoot -----------------------------
(***************************************************************************)
(* An instance of KafkaBoot: a first image, a second whose contract the    *)
(* first is compatible with, and a third whose second file the registry    *)
(* rejects.                                                                *)
(***************************************************************************)
EXTENDS KafkaBoot, TLC

CONSTANTS v1, v2, v3

MCFiles == (v1 :> {1, 2}) @@ (v2 :> {1, 2}) @@ (v3 :> {1, 2})
MCSchemaOf == (v1 :> <<"a1", "b1">>) @@ (v2 :> <<"a2", "b1">>) @@ (v3 :> <<"a2", "b3">>)
MCCompatible == {<<"a1", "a2">>}
MCMessages == (1 :> "A") @@ (2 :> "B")

\* What the run leaves out: sends while a check goes on, and sends of different
\* pods, which share nothing but the ledger that they read; and a second batch of
\* two messages, since what two batches share is the cached version of a subject.
OneAtATime ==
    /\ checked.state = "idle" \/ \A b \in Batches : state[b] = "idle"
    /\ \A b, c \in Batches : b # c =>
          /\ from[b] = from[c] \/ NoPod \in {from[b], from[c]}
          /\ Cardinality(content[b]) < 2 \/ Cardinality(content[c]) < 2

Symmetric == Permutations(Pods) \cup Permutations(Batches)
=============================================================================
