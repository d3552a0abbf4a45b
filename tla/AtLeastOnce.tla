----------------------------- MODULE AtLeastOnce -----------------------------
(***************************************************************************)
(* What the event consumer promises, with no consumer in it: every         *)
(* partition is settled in order, an offset is committed only when it and  *)
(* every offset before it were settled, and a message is settled only in   *)
(* one of the ways the failure policy allows.  A message may be settled    *)
(* more than once and the committed offset may move back, because commits  *)
(* of redelivered messages overwrite later ones: at least once, never at   *)
(* most once.                                                              *)
(***************************************************************************)
EXTENDS Naturals

CONSTANTS
    Lanes,     \* topic:partition pairs
    Offsets,   \* the offsets of a partition, 0 .. n-1
    Outcomes   \* how a message may be settled under the failure policy

VARIABLES
    committed, \* [Lanes -> Nat], the next offset the broker hands out
    fate       \* [Lanes -> [Offsets -> SUBSET Outcomes]], how each was settled

vars == <<committed, fate>>

\* Every offset of lane p below n has been settled.
Covered(p, n) == \A o \in Offsets : o < n => fate[p][o] # {}

Init ==
    /\ committed = [p \in Lanes |-> 0]
    /\ fate = [p \in Lanes |-> [o \in Offsets |-> {}]]

Settle(p, o, f) ==
    /\ Covered(p, o)
    /\ fate' = [fate EXCEPT ![p][o] = @ \cup {f}]
    /\ UNCHANGED committed

Commit(p, o) ==
    /\ Covered(p, o + 1)
    /\ committed' = [committed EXCEPT ![p] = o + 1]
    /\ UNCHANGED fate

Next ==
    \E p \in Lanes, o \in Offsets :
        \/ \E f \in Outcomes : Settle(p, o, f)
        \/ Commit(p, o)

Spec == Init /\ [][Next]_vars

-----------------------------------------------------------------------------
(***************************************************************************)
(* What the delivery is good for.                                          *)
(***************************************************************************)
\* No offset is committed past a message that was never settled: whoever takes over
\* a partition from its committed offset (consumer.ts:346) is handed what was not.
NothingLost == \A p \in Lanes : Covered(p, committed[p])

\* The first settlements of a partition's messages come in the order of its offsets
\* (consumer.ts:442).
SettledInOrder == \A p \in Lanes, o \in Offsets : fate[p][o] # {} => Covered(p, o)

Types ==
    /\ committed \in [Lanes -> Nat]
    /\ fate \in [Lanes -> [Offsets -> SUBSET Outcomes]]

Delivered == Types /\ NothingLost /\ SettledInOrder
=============================================================================
