------------------------- MODULE AppLifecycleProofs -------------------------
(***************************************************************************)
(* Proofs about AppLifecycle for every number of singletons, every set of  *)
(* plugins, callers and workers, every choice of faults and every bound.   *)
(***************************************************************************)
EXTENDS AppLifecycle, FiniteSetTheorems, SequenceTheorems, TLAPS

USE DEF pluginVars, startVars, stopVars, scopeVars, workVars, serviceVars,
        callerVars, vars

-----------------------------------------------------------------------------
(***************************************************************************)
(* Sequences.                                                              *)
(***************************************************************************)
LEMMA ToSetMember ==
    ASSUME NEW s PROVE \A e : e \in ToSet(s) <=> \E i \in DOMAIN s : s[i] = e
BY DEF ToSet

LEMMA ReverseProperties ==
    ASSUME NEW S, NEW s \in Seq(S)
    PROVE  /\ Reverse(s) \in Seq(S) /\ Len(Reverse(s)) = Len(s)
           /\ \A i \in 1 .. Len(s) : Reverse(s)[i] = s[(Len(s) - i) + 1]
           /\ ToSet(Reverse(s)) = ToSet(s)
<1>1. /\ DOMAIN s = 1 .. Len(s) /\ Len(s) \in Nat
      /\ \A i \in 1 .. Len(s) : (Len(s) - i) + 1 \in 1 .. Len(s)
    OBVIOUS
<1>2. /\ Reverse(s) \in Seq(S) /\ Len(Reverse(s)) = Len(s)
      /\ \A i \in 1 .. Len(s) : Reverse(s)[i] = s[(Len(s) - i) + 1]
  <2>1. \A i \in 1 .. Len(s) : s[(Len(s) - i) + 1] \in S
    BY <1>1
  <2> QED BY <1>1, <2>1, IsASeq DEF Reverse
<1>3. \A e : (\E i \in 1 .. Len(s) : s[i] = e)
             <=> (\E i \in 1 .. Len(s) : Reverse(s)[i] = e)
  <2>1. ASSUME NEW i \in 1 .. Len(s)
        PROVE  Reverse(s)[(Len(s) - i) + 1] = s[i]
    <3>1. (Len(s) - ((Len(s) - i) + 1)) + 1 = i
      BY <1>1
    <3> QED BY <1>1, <1>2, <3>1
  <2> QED BY <1>1, <1>2, <2>1
<1>4. DOMAIN Reverse(s) = 1 .. Len(s)
    BY <1>1 DEF Reverse
<1> QED BY <1>1, <1>2, <1>3, <1>4 DEF ToSet

\* Dropping a scope keeps the others, in their order.
LEMMA RemoveFirstProperties ==
    ASSUME NEW S, NEW s \in Seq(S), NEW e,
           \A m, n \in DOMAIN s : s[m] = s[n] => m = n
    PROVE  LET t == RemoveFirst(s, e)
           IN  /\ t \in Seq(S)
               /\ ToSet(t) = ToSet(s) \ {e}
               /\ \A m, n \in DOMAIN t : t[m] = t[n] => m = n
<1>1. DOMAIN s = 1 .. Len(s) /\ Len(s) \in Nat
    OBVIOUS
<1>2. CASE ~\E i \in 1 .. Len(s) : s[i] = e
  <2>1. RemoveFirst(s, e) = s
    BY <1>2 DEF RemoveFirst
  <2> QED BY <1>1, <1>2, <2>1 DEF ToSet
<1>3. CASE \E i \in 1 .. Len(s) : s[i] = e
  <2> DEFINE I == {i \in 1 .. Len(s) : s[i] = e}
             k == CHOOSE x \in I : \A y \in I : x <= y
  <2>1. PICK i \in 1 .. Len(s) : s[i] = e
    BY <1>3
  <2>2. I = {i}
    BY <1>1, <2>1
  <2>3. k = i
    BY <2>2, <2>1
  <2>4. RemoveFirst(s, e) = SubSeq(s, 1, i - 1) \o SubSeq(s, i + 1, Len(s))
    BY <1>3, <2>2, <2>3 DEF RemoveFirst, RemoveAt, SelectInSeq, Min
  <2> DEFINE t == SubSeq(s, 1, i - 1) \o SubSeq(s, i + 1, Len(s))
  <2>5. /\ SubSeq(s, 1, i - 1) \in Seq(S) /\ Len(SubSeq(s, 1, i - 1)) = i - 1
        /\ \A j \in 1 .. i - 1 : SubSeq(s, 1, i - 1)[j] = s[j]
    BY <1>1, <2>1, SubSeqProperties
  <2>6. /\ SubSeq(s, i + 1, Len(s)) \in Seq(S)
        /\ Len(SubSeq(s, i + 1, Len(s))) = Len(s) - i
        /\ \A j \in 1 .. Len(s) - i : SubSeq(s, i + 1, Len(s))[j] = s[i + j]
    <3> DEFINE h == i + 1
               n == Len(s)
    <3>1. h \in Int /\ n \in Int /\ (n - h) + 1 = n - i /\ n - i \in Nat
      BY <1>1, <2>1
    <3>2. /\ \A j \in h .. n : s[j] \in S
          /\ (IF h <= n THEN (n - h) + 1 ELSE 0) = n - i
      <4> HIDE DEF h, n
      <4>1. \A j \in h .. n : s[j] \in S
        <5>1. \A j \in h .. n : j \in 1 .. Len(s)
          BY <1>1, <2>1 DEF h, n
        <5>2. \A j \in 1 .. Len(s) : s[j] \in S
          OBVIOUS
        <5> QED BY <5>1, <5>2
      <4>2. h <= n \/ n - i = 0
        <5>1. \A l \in Nat : \A a \in 1 .. l : a + 1 <= l \/ l - a = 0
          OBVIOUS
        <5>2. i + 1 <= Len(s) \/ Len(s) - i = 0
          BY <1>1, <2>1, <5>1, ZenonT(30)
        <5> QED BY <5>2 DEF h, n
      <4>3. ~(h <= n) => n - i = 0
        BY <4>2
      <4> QED BY <3>1, <4>1, <4>3
    <3> HIDE DEF h, n
    <3>3. /\ SubSeq(s, h, n) \in Seq(S) /\ Len(SubSeq(s, h, n)) = n - i
          /\ \A j \in 1 .. n - i : SubSeq(s, h, n)[j] = s[(h + j) - 1]
      BY <3>1, <3>2, SubSeqProperties
    <3>4. \A j \in 1 .. n - i : (h + j) - 1 = i + j
      BY <1>1, <2>1 DEF h, n
    <3> QED BY <3>3, <3>4 DEF h, n
  <2>7. /\ t \in Seq(S) /\ Len(t) = Len(s) - 1
        /\ \A j \in 1 .. Len(s) - 1 : t[j] = IF j < i THEN s[j] ELSE s[j + 1]
    <3> DEFINE a == SubSeq(s, 1, i - 1)
               b == SubSeq(s, i + 1, Len(s))
    <3>1. /\ a \in Seq(S) /\ b \in Seq(S) /\ Len(a) = i - 1 /\ Len(b) = Len(s) - i
          /\ \A j \in 1 .. i - 1 : a[j] = s[j]
          /\ \A j \in 1 .. Len(s) - i : b[j] = s[i + j]
      BY <2>5, <2>6
    <3> HIDE DEF a, b
    <3>2. /\ a \o b \in Seq(S) /\ Len(a \o b) = Len(a) + Len(b)
          /\ \A j \in 1 .. Len(a) + Len(b) : (a \o b)[j] =
                IF j <= Len(a) THEN a[j] ELSE b[j - Len(a)]
      BY <3>1, ConcatProperties, ZenonT(30)
    <3>3. Len(a) + Len(b) = Len(s) - 1
      BY <1>1, <2>1, <3>1
    <3>4. ASSUME NEW j \in 1 .. Len(s) - 1
          PROVE  (a \o b)[j] = IF j < i THEN s[j] ELSE s[j + 1]
      <4>1. CASE j < i
        BY <1>1, <2>1, <3>1, <3>2, <3>3, <4>1
      <4>2. CASE ~(j < i)
        <5>1. /\ ~(j <= Len(a)) /\ j - Len(a) \in 1 .. Len(s) - i
              /\ i + (j - Len(a)) = j + 1
          BY <1>1, <2>1, <3>1, <4>2
        <5>2. (a \o b)[j] = b[j - Len(a)] /\ b[j - Len(a)] = s[j + 1]
          BY <3>1, <3>2, <3>3, <5>1
        <5> QED BY <4>2, <5>2
      <4> QED BY <4>1, <4>2
    <3> QED BY <3>2, <3>3, <3>4 DEF a, b
  <2> HIDE DEF t
  <2>8. DOMAIN t = 1 .. Len(s) - 1
    BY <2>7
  <2>9. \A m, n \in DOMAIN t : t[m] = t[n] => m = n
    <3> DEFINE from(j) == IF j < i THEN j ELSE j + 1
    <3>1. \A j \in 1 .. Len(s) - 1 : from(j) \in 1 .. Len(s) /\ t[j] = s[from(j)]
      BY <1>1, <2>1, <2>7
    <3>2. \A m, n \in 1 .. Len(s) - 1 : from(m) = from(n) => m = n
      BY <1>1, <2>1
    <3> HIDE DEF from
    <3> QED BY <1>1, <2>8, <3>1, <3>2
  <2>10. ToSet(t) = ToSet(s) \ {e}
    <3>1. ASSUME NEW j \in 1 .. Len(s) - 1 PROVE t[j] \in ToSet(s) \ {e}
      <4>1. CASE j < i
        BY <1>1, <2>1, <2>7, <4>1 DEF ToSet
      <4>2. CASE ~(j < i)
        BY <1>1, <2>1, <2>7, <4>2 DEF ToSet
      <4> QED BY <4>1, <4>2
    <3>2. ASSUME NEW j \in 1 .. Len(s), s[j] # e PROVE s[j] \in ToSet(t)
      <4>1. CASE j < i
        <5>1. j \in 1 .. Len(s) - 1 /\ t[j] = s[j]
          BY <1>1, <2>1, <2>7, <4>1
        <5> QED BY <2>8, <5>1 DEF ToSet
      <4>2. CASE ~(j < i)
        <5>1. j - 1 \in 1 .. Len(s) - 1 /\ t[j - 1] = s[j]
          BY <1>1, <2>1, <2>7, <3>2, <4>2
        <5> QED BY <2>8, <5>1 DEF ToSet
      <4> QED BY <4>1, <4>2
    <3> QED BY <1>1, <2>8, <3>1, <3>2 DEF ToSet
  <2> QED BY <2>4, <2>7, <2>9, <2>10 DEF t
<1> QED BY <1>2, <1>3

LEMMA ToSetAppend ==
    ASSUME NEW S, NEW s \in Seq(S), NEW e \in S
    PROVE  ToSet(Append(s, e)) = ToSet(s) \cup {e}
<1>1. /\ DOMAIN s = 1 .. Len(s) /\ Len(s) \in Nat
      /\ DOMAIN Append(s, e) = 1 .. Len(s) + 1
      /\ \A i \in 1 .. Len(s) : Append(s, e)[i] = s[i]
      /\ Append(s, e)[Len(s) + 1] = e
    BY AppendProperties
<1> QED BY <1>1 DEF ToSet

LEMMA HeadTail ==
    ASSUME NEW S, NEW s \in Seq(S), s # <<>>
    PROVE  /\ Head(s) \in S /\ Tail(s) \in Seq(S)
           /\ 1 \in DOMAIN s /\ s[1] = Head(s)
           /\ Len(s) \in Nat \ {0} /\ Len(Tail(s)) = Len(s) - 1
           /\ \A i \in 1 .. Len(s) - 1 : Tail(s)[i] = s[i + 1]
           /\ ToSet(s) = ToSet(Tail(s)) \cup {Head(s)}
<1>1. /\ Head(s) \in S /\ Tail(s) \in Seq(S) /\ s[1] = Head(s)
      /\ DOMAIN s = 1 .. Len(s) /\ Len(s) \in Nat \ {0}
      /\ Len(Tail(s)) = Len(s) - 1
      /\ DOMAIN Tail(s) = 1 .. Len(s) - 1
      /\ \A i \in 1 .. Len(s) - 1 : Tail(s)[i] = s[i + 1]
    OBVIOUS
<1>2. ASSUME NEW i \in 1 .. Len(s), i # 1
      PROVE  i - 1 \in 1 .. Len(s) - 1 /\ Tail(s)[i - 1] = s[i]
    BY <1>1, <1>2
<1>3. \A i \in 1 .. Len(s) - 1 : i + 1 \in 1 .. Len(s)
    BY <1>1
<1>4. 1 \in 1 .. Len(s)
    BY <1>1
<1>5. \A e : (\E i \in 1 .. Len(s) : s[i] = e)
             <=> e = s[1] \/ (\E i \in 1 .. Len(s) - 1 : Tail(s)[i] = e)
    BY <1>1, <1>2, <1>3, <1>4
<1> QED BY <1>1, <1>4, <1>5 DEF ToSet

-----------------------------------------------------------------------------
(***************************************************************************)
(* The actions by what they do to the state.                               *)
(***************************************************************************)
LEMMA InitFromTypes ==
    ASSUME TypeOK, NEW c \in Starters, NEW s \in 1 .. N + 1,
           NEW l \in [Instances -> Lives], InitFrom(c, s, l)
    PROVE  /\ startPc' \in
                 [Starters -> {"idle", "plugins", "initing", "done", "failed"}]
           /\ started' \in BOOLEAN
           /\ life' \in [Instances -> Lives]
           /\ at' \in [Starters -> Instances]
           /\ initialized' \in Seq(Instances)
<1>0. \A B : Construct(B, l) \in [Instances -> Lives]
    BY DEF Construct, Lives
<1>1. CASE Finish(c, s, l)
    BY <1>1 DEF Finish, TypeOK
<1>2. CASE Initialise(c, s, l)
  <2>1. <<s, gen>> \in Instances
    BY <1>2, AppAssumption DEF Initialise, Instances, TypeOK
  <2>2. /\ initialized \in Seq(Instances)
        /\ initialized' = Append(initialized, <<s, gen>>)
        /\ at' = [at EXCEPT ![c] = <<s, gen>>]
        /\ startPc' = [startPc EXCEPT ![c] = "initing"] /\ started' = started
    BY <1>2 DEF Initialise, TypeOK
  <2>3. life' \in [Instances -> Lives]
    BY <1>0, <1>2, <2>1 DEF Initialise, Lives
  <2>4. initialized' \in Seq(Instances)
    BY <2>1, <2>2, AppendProperties
  <2>5. at' \in [Starters -> Instances]
    BY <2>1, <2>2 DEF TypeOK
  <2> QED BY <2>2, <2>3, <2>4, <2>5 DEF TypeOK
<1>3. CASE ResolveThrows(c, s, l)
    BY <1>0, <1>3 DEF ResolveThrows, TypeOK
<1> QED BY <1>1, <1>2, <1>3 DEF InitFrom

LEMMA DestroyFromTypes ==
    ASSUME TypeOK, NEW c \in Stoppers, NEW list \in Seq(Instances),
           NEW l \in [Instances -> Lives], DestroyFrom(c, list, l)
    PROVE  /\ stopPc' \in [Stoppers -> {"idle", "scopes", "destroying",
                                        "container", "done", "failed"}]
           /\ stopList' \in [Stoppers -> Seq(Instances)]
           /\ life' \in [Instances -> Lives]
<1>1. CASE list = <<>>
    BY <1>1 DEF DestroyFrom, TypeOK
<1>2. CASE list # <<>>
  <2>1. Head(list) \in Instances
    BY <1>2, HeadTail
  <2>2. life' \in [Instances -> Lives]
    BY <1>2, <2>1 DEF DestroyFrom, Lives
  <2> QED BY <1>2, <2>2 DEF DestroyFrom, TypeOK
<1> QED BY <1>1, <1>2

LEMMA BeginDisposeTypes ==
    ASSUME TypeOK, DisposeInv, NEW d \in Disposers, NEW w \in Workers,
           BeginDispose(d, w)
    PROVE  /\ activeScopes' \in Seq(Workers)
           /\ built' \in [Workers -> Nat] /\ cached' \in [Workers -> Nat]
           /\ destroyed' \in [Workers -> SUBSET Nat]
           /\ disposing' \in [Disposers -> {NoCall} \cup (Workers \X Nat)]
<1>1. RemoveFirst(activeScopes, w) \in Seq(Workers)
    BY RemoveFirstProperties DEF TypeOK, DisposeInv
<1>2. cached[w] \in Nat /\ <<w, cached[w]>> \in Workers \X Nat
    BY DEF TypeOK
<1>3. disposing' \in [Disposers -> {NoCall} \cup (Workers \X Nat)]
    BY <1>2 DEF BeginDispose, TypeOK
<1>4. destroyed' \in [Workers -> SUBSET Nat]
  <2>1. destroyed[w] \cup {cached[w]} \in SUBSET Nat
    BY <1>2 DEF TypeOK
  <2>2. destroyed' \in {destroyed, [destroyed EXCEPT ![w] = @ \cup {cached[w]}]}
    BY DEF BeginDispose
  <2> QED BY <2>1, <2>2 DEF TypeOK
<1> QED BY <1>1, <1>3, <1>4 DEF BeginDispose, TypeOK

LEMMA DisposeNextTypes ==
    ASSUME TypeOK, DisposeInv, NEW c \in Stoppers, NEW seen \in SUBSET Workers,
           DisposeNext(c, seen)
    PROVE  /\ stopPc' \in [Stoppers -> {"idle", "scopes", "destroying",
                                        "container", "done", "failed"}]
           /\ stopList' \in [Stoppers -> Seq(Instances)]
           /\ passed' \in [Stoppers -> SUBSET Workers]
           /\ life' \in [Instances -> Lives]
           /\ activeScopes' \in Seq(Workers)
           /\ built' \in [Workers -> Nat] /\ cached' \in [Workers -> Nat]
           /\ destroyed' \in [Workers -> SUBSET Nat]
           /\ disposing' \in [Disposers -> {NoCall} \cup (Workers \X Nat)]
<1>1. ASSUME NEW w \in Workers, DisposeScope(c, seen, w)
      PROVE  /\ stopPc' \in [Stoppers -> {"idle", "scopes", "destroying",
                                        "container", "done", "failed"}]
             /\ stopList' \in [Stoppers -> Seq(Instances)]
             /\ passed' \in [Stoppers -> SUBSET Workers]
             /\ life' \in [Instances -> Lives]
             /\ activeScopes' \in Seq(Workers)
             /\ built' \in [Workers -> Nat] /\ cached' \in [Workers -> Nat]
             /\ destroyed' \in [Workers -> SUBSET Nat]
             /\ disposing' \in [Disposers -> {NoCall} \cup (Workers \X Nat)]
  <2>1. BeginDispose(c, w) /\ c \in Disposers
    BY <1>1 DEF DisposeScope, Disposers
  <2>2. /\ stopPc' \in [Stoppers -> {"idle", "scopes", "destroying",
                                     "container", "done", "failed"}]
        /\ passed' \in [Stoppers -> SUBSET Workers]
        /\ stopList' = stopList /\ life' = life
    BY <1>1 DEF DisposeScope, TypeOK
  <2> QED BY <2>1, <2>2, BeginDisposeTypes DEF TypeOK
<1>2. CASE DestroyFrom(c, Reverse(initialized), life)
           /\ passed' = [passed EXCEPT ![c] = {}] /\ UNCHANGED scopeVars
  <2>1. Reverse(initialized) \in Seq(Instances)
    BY ReverseProperties DEF TypeOK
  <2> QED BY <1>2, <2>1, DestroyFromTypes DEF TypeOK
<1> QED BY <1>1, <1>2 DEF DisposeNext

LEMMA TypeStep ==
    ASSUME TypeOK, CallsInv, DisposeInv, [Next]_vars, gen' \in Generations
    PROVE  TypeOK'
<1>1. ASSUME NEW p \in Plugins, Use(p) PROVE TypeOK'
    BY <1>1 DEF Use, TypeOK
<1>2. ASSUME NEW p \in Plugins, PluginSettles(p) PROVE TypeOK'
  <2>1. plugin' \in [Plugins -> {"unused", "registering", "registered", "failed"}]
    BY <1>2 DEF PluginSettles, TypeOK
  <2> QED BY <1>2, <2>1 DEF PluginSettles, TypeOK
<1>3. ASSUME NEW c \in Starters, Start(c) PROVE TypeOK'
  <2>1. calls' \in [Starters \cup Stoppers -> 0 .. MaxCalls]
    BY <1>3, AppAssumption DEF Start, TypeOK
  <2>2. CASE ~started /\ pending = {}
    <3>1. 1 \in 1 .. N + 1 /\ life \in [Instances -> Lives]
      BY AppAssumption DEF TypeOK
    <3>2. /\ startPc' \in
                 [Starters -> {"idle", "plugins", "initing", "done", "failed"}]
          /\ started' \in BOOLEAN /\ life' \in [Instances -> Lives]
          /\ at' \in [Starters -> Instances] /\ initialized' \in Seq(Instances)
      BY <1>3, <2>2, <3>1, InitFromTypes DEF Start
    <3>3. UNCHANGED <<pluginVars, gen, batch, stopVars, scopeVars, workVars>>
      BY <1>3, <2>2 DEF Start
    <3> QED BY <2>1, <3>2, <3>3 DEF TypeOK
  <2>3. CASE started \/ pending # {}
    BY <1>3, <2>1, <2>3 DEF Start, TypeOK
  <2> QED BY <2>2, <2>3
<1>4. ASSUME NEW c \in Starters, PluginsReady(c) PROVE TypeOK'
  <2>1. 1 \in 1 .. N + 1 /\ life \in [Instances -> Lives] /\ InitFrom(c, 1, life)
    BY <1>4, AppAssumption DEF PluginsReady, TypeOK
  <2> QED BY <1>4, <2>1, InitFromTypes DEF PluginsReady, TypeOK
<1>5. ASSUME NEW c \in Starters, PluginsReject(c) PROVE TypeOK'
    BY <1>5 DEF PluginsReject, TypeOK
<1>6. ASSUME NEW c \in Starters, InitSettles(c) PROVE TypeOK'
  <2> DEFINE l == [life EXCEPT ![at[c]] = "up"]
  <2>1. at[c] \in Instances /\ at[c][1] + 1 \in 1 .. N + 1
    BY AppAssumption DEF TypeOK, Instances
  <2>2. l \in [Instances -> Lives] /\ InitFrom(c, at[c][1] + 1, l)
    BY <1>6, <2>1 DEF InitSettles, TypeOK, Lives
  <2> HIDE DEF l
  <2> QED BY <1>6, <2>1, <2>2, InitFromTypes DEF InitSettles, TypeOK
<1>7. ASSUME NEW c \in Starters, InitFails(c) PROVE TypeOK'
    BY <1>7 DEF InitFails, TypeOK, Lives
<1>8. ASSUME NEW c \in Stoppers, Stop(c) PROVE TypeOK'
  <2>1. calls' \in [Starters \cup Stoppers -> 0 .. MaxCalls]
    BY <1>8, AppAssumption DEF Stop, TypeOK
  <2>2. CASE started
    <3>1. DisposeNext(c, {})
      BY <1>8, <2>2 DEF Stop
    <3> QED BY <1>8, <2>1, <3>1, DisposeNextTypes DEF Stop, TypeOK
  <2>3. CASE ~started
    BY <1>8, <2>1, <2>3 DEF Stop, TypeOK
  <2> QED BY <2>2, <2>3
<1>9. ASSUME NEW c \in Stoppers, ScopeDisposed(c) PROVE TypeOK'
  <2>1. passed[c] \in SUBSET Workers
    BY DEF TypeOK
  <2> QED BY <1>9, <2>1, DisposeNextTypes DEF ScopeDisposed, TypeOK
<1>10. ASSUME NEW c \in Stoppers, DestroySettles(c) PROVE TypeOK'
  <2> DEFINE l == [life EXCEPT ![Head(stopList[c])] = "down"]
  <2>1. stopList[c] \in Seq(Instances) /\ stopList[c] # <<>>
    BY <1>10 DEF DestroySettles, CallsInv, TypeOK
  <2>2. Tail(stopList[c]) \in Seq(Instances) /\ Head(stopList[c]) \in Instances
    BY <2>1, HeadTail
  <2>3. l \in [Instances -> Lives] /\ DestroyFrom(c, Tail(stopList[c]), l)
    BY <1>10, <2>2 DEF DestroySettles, TypeOK, Lives
  <2> HIDE DEF l
  <2> QED BY <1>10, <2>2, <2>3, DestroyFromTypes DEF DestroySettles, TypeOK
<1>11. ASSUME NEW c \in Stoppers, DestroyFails(c) PROVE TypeOK'
    BY <1>11 DEF DestroyFails, TypeOK, Lives
<1>12. ASSUME NEW c \in Stoppers, StopReturns(c) PROVE TypeOK'
    BY <1>12 DEF StopReturns, TypeOK
<1>13. ASSUME NEW d \in Disposers, DisposeSettles(d) PROVE TypeOK'
  <2> DEFINE w == disposing[d][1]
             k == disposing[d][2]
  <2>1. w \in Workers /\ k \in Nat /\ cached[w] \in Nat
    BY <1>13 DEF DisposeSettles, TypeOK
  <2>2. RemoveFirst(activeScopes, w) \in Seq(Workers)
    BY <2>1, RemoveFirstProperties DEF TypeOK, DisposeInv
  <2>3. workPc' \in [Workers -> {"idle", "open", "using", "disposing", "done"}]
    BY <1>13 DEF DisposeSettles, Returns, TypeOK
  <2>4. disposing' \in [Disposers -> {NoCall} \cup (Workers \X Nat)]
    <3>1. NoCall \in {NoCall} \cup (Workers \X Nat)
      OBVIOUS
    <3>2. <<w, cached[w]>> \in {NoCall} \cup (Workers \X Nat)
      BY <2>1
    <3>3. \/ disposing' = [disposing EXCEPT ![d] = NoCall]
          \/ disposing' = [disposing EXCEPT ![d] = <<w, cached[w]>>]
      BY <1>13 DEF DisposeSettles
    <3> QED BY <3>1, <3>2, <3>3 DEF TypeOK
  <2>5. destroyed' \in [Workers -> SUBSET Nat]
    <3>1. destroyed[w] \cup {cached[w]} \in SUBSET Nat
      BY <2>1 DEF TypeOK
    <3>2. destroyed' \in {destroyed, [destroyed EXCEPT ![w] = @ \cup {cached[w]}]}
      BY <1>13 DEF DisposeSettles
    <3> QED BY <3>1, <3>2 DEF TypeOK
  <2>6. activeScopes' \in Seq(Workers) /\ cached' \in [Workers -> Nat]
    <3>1. /\ activeScopes' \in {activeScopes, RemoveFirst(activeScopes, w)}
          /\ cached' \in {cached, [cached EXCEPT ![w] = 0]}
      BY <1>13 DEF DisposeSettles
    <3> HIDE DEF w
    <3>2. activeScopes' \in Seq(Workers)
      BY <2>2, <3>1 DEF TypeOK
    <3>3. [cached EXCEPT ![w] = 0] \in [Workers -> Nat]
      BY DEF TypeOK
    <3> QED BY <3>1, <3>2, <3>3 DEF TypeOK
  <2> HIDE DEF w, k
  <2> QED BY <1>13, <2>3, <2>4, <2>5, <2>6 DEF DisposeSettles, TypeOK
<1>14. ASSUME NEW d \in Disposers, DisposeFails(d) PROVE TypeOK'
  <2>1. disposing' \in [Disposers -> {NoCall} \cup (Workers \X Nat)]
    BY <1>14 DEF DisposeFails, TypeOK
  <2> QED BY <1>14, <2>1 DEF DisposeFails, Returns, TypeOK
<1>15. ASSUME NEW w \in Workers, Arrive(w) PROVE TypeOK'
  <2>1. activeScopes' \in Seq(Workers)
    <3>1. activeScopes \in Seq(Workers) /\ activeScopes' = Append(activeScopes, w)
      BY <1>15 DEF Arrive, TypeOK
    <3> QED BY <3>1, AppendProperties
  <2> QED BY <1>15, <2>1 DEF Arrive, Admitting, TypeOK
<1>16. ASSUME NEW w \in Workers, UseScoped(w) PROVE TypeOK'
    BY <1>16 DEF UseScoped, TypeOK
<1>17. ASSUME NEW w \in Workers, Close(w) PROVE TypeOK'
  <2>1. w \in Disposers /\ BeginDispose(w, w)
    BY <1>17 DEF Close, Disposers
  <2> QED BY <1>17, <2>1, BeginDisposeTypes DEF Close, TypeOK
<1>18. ASSUME NEW w \in Workers, Abort(w) PROVE TypeOK'
  <2>1. <<"abort", w>> \in Disposers /\ BeginDispose(<<"abort", w>>, w)
    BY <1>18 DEF Abort, Disposers, Aborts
  <2> QED BY <1>18, <2>1, BeginDisposeTypes DEF Abort, TypeOK
<1>19. ASSUME UNCHANGED vars PROVE TypeOK'
    BY <1>19 DEF TypeOK
<1> QED BY <1>1, <1>2, <1>3, <1>4, <1>5, <1>6, <1>7, <1>8, <1>9, <1>10, <1>11,
           <1>12, <1>13, <1>14, <1>15, <1>16, <1>17, <1>18, <1>19
        DEF Next, StartStep, StopStep, DisposeStep, Idle

-----------------------------------------------------------------------------
(***************************************************************************)
(* Each call of stop() ends at most one life of the container.             *)
(***************************************************************************)
LEMMA CallSets ==
    \A B \in SUBSET (Stoppers \X (1 .. MaxCalls)) :
        /\ Cardinality(B) \in Nat
        /\ Cardinality(B) <= Cardinality(Stoppers) * MaxCalls
        /\ \A A \in SUBSET B :
              /\ Cardinality(A) <= Cardinality(B)
              /\ A # B => Cardinality(A) + 1 <= Cardinality(B)
<1> DEFINE U == Stoppers \X (1 .. MaxCalls)
<1>1. /\ IsFiniteSet(Stoppers) /\ IsFiniteSet(1 .. MaxCalls)
      /\ Cardinality(1 .. MaxCalls) = MaxCalls
    BY AppAssumption, FS_Interval
<1>2. /\ IsFiniteSet(U)
      /\ Cardinality(U) = Cardinality(Stoppers) * MaxCalls
    BY <1>1, FS_Product
<1>3. ASSUME NEW B \in SUBSET U
      PROVE  /\ Cardinality(B) \in Nat
             /\ Cardinality(B) <= Cardinality(U)
             /\ \A A \in SUBSET B :
                   /\ Cardinality(A) <= Cardinality(B)
                   /\ A # B => Cardinality(A) + 1 <= Cardinality(B)
  <2>1. IsFiniteSet(B) /\ Cardinality(B) <= Cardinality(U)
    BY <1>2, FS_Subset
  <2>2. ASSUME NEW A \in SUBSET B
        PROVE  /\ Cardinality(A) <= Cardinality(B)
               /\ A # B => Cardinality(A) + 1 <= Cardinality(B)
    <3>1. /\ IsFiniteSet(A) /\ Cardinality(A) <= Cardinality(B)
          /\ Cardinality(B) = Cardinality(A) => B = A
      BY <2>1, FS_Subset
    <3>2. Cardinality(A) \in Nat /\ Cardinality(B) \in Nat
      BY <2>1, <3>1, FS_CardinalityType
    <3> QED BY <3>1, <3>2
  <2> QED BY <2>1, <2>2, FS_CardinalityType
<1> QED BY <1>2, <1>3

LEMMA EndedStep ==
    ASSUME TypeOK, CallsInv,
           calls' \in [Starters \cup Stoppers -> 0 .. MaxCalls],
           \A c \in Stoppers :
              \/ calls'[c] > calls[c]
              \/ /\ calls'[c] = calls[c]
                 /\ stopPc'[c] \in {"scopes", "destroying"} =>
                       stopPc[c] \in {"scopes", "destroying"},
           \/ gen' = gen
           \/ /\ gen' = gen + 1
              /\ \E c \in Stoppers :
                    /\ stopPc'[c] = "container"
                    /\ \/ calls'[c] > calls[c]
                       \/ stopPc[c] \in {"scopes", "destroying"}
    PROVE  gen' \in Generations /\ gen' <= Cardinality(Ended')
<1>1. calls \in [Starters \cup Stoppers -> 0 .. MaxCalls] /\ MaxCalls \in Nat
    BY AppAssumption DEF TypeOK
<1>2. /\ Ended \in SUBSET (Stoppers \X (1 .. MaxCalls))
      /\ Ended' \in SUBSET (Stoppers \X (1 .. MaxCalls))
    BY DEF Ended
<1>3. Ended \subseteq Ended'
  <2> SUFFICES ASSUME NEW e \in Ended PROVE e \in Ended'
      OBVIOUS
  <2>1. /\ e[1] \in Stoppers /\ e[2] \in 1 .. MaxCalls /\ e[2] <= calls[e[1]]
        /\ e[2] = calls[e[1]] => stopPc[e[1]] \notin {"scopes", "destroying"}
    BY DEF Ended
  <2>2. calls[e[1]] \in Nat /\ calls'[e[1]] \in Nat /\ calls'[e[1]] >= calls[e[1]]
    BY <1>1, <2>1
  <2>3. /\ e[2] <= calls'[e[1]]
        /\ e[2] = calls'[e[1]] => stopPc'[e[1]] \notin {"scopes", "destroying"}
    BY <2>1, <2>2
  <2> QED BY <1>2, <2>3 DEF Ended
<1>4. /\ Cardinality(Ended) \in Nat /\ Cardinality(Ended') \in Nat
      /\ Cardinality(Ended) <= Cardinality(Ended')
      /\ \A n \in Nat : n <= Cardinality(Ended') => n \in Generations
  <2>1. /\ Cardinality(Ended) \in Nat /\ Cardinality(Ended') \in Nat
        /\ Cardinality(Ended) <= Cardinality(Ended')
        /\ Cardinality(Ended') <= Cardinality(Stoppers) * MaxCalls
    BY <1>2, <1>3, CallSets
  <2>2. Cardinality(Stoppers) \in Nat /\ Cardinality(Stoppers) * MaxCalls \in Nat
    BY <1>1, AppAssumption, FS_CardinalityType
  <2> QED BY <2>1, <2>2 DEF Generations
<1>5. CASE gen' = gen
  <2>1. gen \in Nat /\ gen' \in Nat /\ gen' <= Cardinality(Ended)
    BY <1>5 DEF CallsInv, TypeOK, Generations
  <2> QED BY <1>4, <2>1
<1>6. CASE gen' # gen
  <2>1. PICK c \in Stoppers :
            /\ stopPc'[c] = "container"
            /\ \/ calls'[c] > calls[c]
               \/ stopPc[c] \in {"scopes", "destroying"}
    BY <1>6
  <2> DEFINE e == <<c, calls'[c]>>
  <2>2. /\ calls[c] \in 0 .. MaxCalls /\ calls'[c] \in 0 .. MaxCalls
        /\ calls'[c] >= calls[c]
    BY <1>1
  <2>3. calls'[c] > 0
    <3>1. CASE calls'[c] > calls[c]
      BY <2>2, <3>1
    <3>2. CASE stopPc[c] \in {"scopes", "destroying"}
      BY <2>2, <3>2 DEF CallsInv
    <3> QED BY <2>1, <3>1, <3>2
  <2>4. e \in Stoppers \X (1 .. MaxCalls) /\ e[1] = c /\ e[2] = calls'[c]
    BY <1>1, <2>2, <2>3
  <2>5. e \in Ended'
    BY <2>1, <2>2, <2>4 DEF Ended
  <2>6. e \notin Ended
    BY <2>1, <2>2, <2>4 DEF Ended
  <2>7. Cardinality(Ended) + 1 <= Cardinality(Ended')
    BY <1>2, <1>3, <2>5, <2>6, CallSets
  <2>8. gen' = gen + 1 /\ gen \in Nat /\ gen <= Cardinality(Ended)
    BY <1>6 DEF TypeOK, Generations, CallsInv
  <2> QED BY <1>4, <2>7, <2>8
<1> QED BY <1>5, <1>6

LEMMA CallsStep ==
    ASSUME TypeOK, CallsInv, [Next]_vars
    PROVE  gen' \in Generations /\ CallsInv'
<1> DEFINE X == {"scopes", "destroying"}
           Pcs == {"idle", "scopes", "destroying", "container", "done", "failed"}
<1>1. /\ calls \in [Starters \cup Stoppers -> 0 .. MaxCalls]
      /\ stopPc \in [Stoppers -> Pcs]
      /\ startPc \in
            [Starters -> {"idle", "plugins", "initing", "done", "failed"}]
      /\ disposing \in [Disposers -> {NoCall} \cup (Workers \X Nat)]
      /\ stopList \in [Stoppers -> Seq(Instances)]
      /\ MaxCalls \in Nat /\ Starters \cap Stoppers = {}
      /\ Stoppers \subseteq Disposers
    BY AppAssumption DEF TypeOK, Disposers
<1>0. Workers \cap Stoppers = {} /\ Aborts \cap (Workers \cup Stoppers) = {}
    BY AppAssumption DEF Aborts
\* The actions that leave the calls of stop() alone.
<1>2. ASSUME calls' \in [Starters \cup Stoppers -> 0 .. MaxCalls],
             \A c \in Stoppers : calls'[c] = calls[c] /\ disposing'[c] = disposing[c],
             \A c \in Starters : startPc'[c] # "idle" => calls'[c] > 0,
             UNCHANGED <<stopVars, gen>>,
             initialized # <<>> => initialized' # <<>>
      PROVE  gen' \in Generations /\ CallsInv'
  <2>1. gen' \in Generations /\ gen' <= Cardinality(Ended')
    BY <1>1, <1>2, EndedStep
  <2> QED BY <1>1, <1>2, <2>1 DEF CallsInv
<1>3. ASSUME NEW p \in Plugins, Use(p) \/ PluginSettles(p)
      PROVE  gen' \in Generations /\ CallsInv'
  <2>1. UNCHANGED <<callerVars, gen, initialized, disposing>>
    BY <1>3 DEF Use, PluginSettles
  <2> QED BY <1>1, <1>2, <2>1 DEF CallsInv
<1>4. ASSUME NEW c \in Starters, NEW s, NEW l, InitFrom(c, s, l)
      PROVE  /\ \A b \in Starters \ {c} : startPc'[b] = startPc[b]
             /\ initialized # <<>> => initialized' # <<>>
  <2>1. initialized' = initialized \/ initialized' # <<>>
    <3>1. CASE Initialise(c, s, l)
      <4>1. initialized \in Seq(Instances)
            /\ initialized' = Append(initialized, <<s, gen>>)
        BY <3>1 DEF Initialise, TypeOK
      <4> QED BY <4>1
    <3> QED BY <1>4, <3>1 DEF InitFrom, Finish, ResolveThrows
  <2> QED BY <1>1, <1>4, <2>1 DEF InitFrom, Finish, Initialise, ResolveThrows
<1>5. ASSUME NEW c \in Starters, Start(c)
      PROVE  gen' \in Generations /\ CallsInv'
  <2>1. /\ calls' = [calls EXCEPT ![c] = @ + 1] /\ calls[c] < MaxCalls
        /\ UNCHANGED <<stopVars, gen, disposing>>
    BY <1>5 DEF Start
  <2>2. /\ calls' \in [Starters \cup Stoppers -> 0 .. MaxCalls] /\ calls'[c] > 0
        /\ \A b \in Starters \ {c} : calls'[b] = calls[b]
        /\ \A b \in Stoppers : calls'[b] = calls[b]
    BY <1>1, <2>1
  <2>3. /\ \A b \in Starters \ {c} : startPc'[b] = startPc[b]
        /\ initialized # <<>> => initialized' # <<>>
    BY <1>1, <1>4, <1>5 DEF Start
  <2> QED BY <1>2, <2>1, <2>2, <2>3 DEF CallsInv
<1>6. ASSUME NEW c \in Starters, StartStep(c)
      PROVE  gen' \in Generations /\ CallsInv'
  <2>1. UNCHANGED <<calls, stopVars, gen, disposing>> /\ startPc[c] # "idle"
    BY <1>6 DEF StartStep, PluginsReady, PluginsReject, InitSettles, InitFails
  <2>2. /\ \A b \in Starters \ {c} : startPc'[b] = startPc[b]
        /\ initialized # <<>> => initialized' # <<>>
    <3>1. CASE PluginsReady(c) \/ InitSettles(c)
      BY <1>4, <3>1 DEF PluginsReady, InitSettles
    <3>2. CASE PluginsReject(c) \/ InitFails(c)
      BY <1>1, <3>2 DEF PluginsReject, InitFails
    <3> QED BY <1>6, <3>1, <3>2 DEF StartStep
  <2> QED BY <1>1, <1>2, <2>1, <2>2 DEF CallsInv
\* The actions of stop(), by what they do to its caller.
<1>7. ASSUME NEW c \in Stoppers,
             calls' \in [Starters \cup Stoppers -> 0 .. MaxCalls],
             calls'[c] >= calls[c], calls'[c] > 0,
             \A b \in (Starters \cup Stoppers) \ {c} : calls'[b] = calls[b],
             \A b \in Stoppers \ {c} : /\ stopPc'[b] = stopPc[b]
                                       /\ stopList'[b] = stopList[b]
                                       /\ disposing'[b] = disposing[b],
             stopPc'[c] \in X => stopPc[c] \in X \/ calls'[c] > calls[c],
             \/ gen' = gen
             \/ /\ gen' = gen + 1 /\ stopPc'[c] = "container"
                /\ stopPc[c] \in X \/ calls'[c] > calls[c],
             disposing'[c] # NoCall => stopPc'[c] = "scopes",
             stopPc'[c] = "destroying" => stopList'[c] # <<>> /\ initialized # <<>>,
             UNCHANGED <<startPc, initialized>>
      PROVE  gen' \in Generations /\ CallsInv'
  <2>1. gen' \in Generations /\ gen' <= Cardinality(Ended')
    <3>1. \A b \in Stoppers :
              \/ calls'[b] > calls[b]
              \/ calls'[b] = calls[b] /\ (stopPc'[b] \in X => stopPc[b] \in X)
      BY <1>1, <1>7
    <3>2. \/ gen' = gen
          \/ /\ gen' = gen + 1
             /\ \E b \in Stoppers :
                   /\ stopPc'[b] = "container"
                   /\ calls'[b] > calls[b] \/ stopPc[b] \in X
      BY <1>7
    <3> QED BY <1>7, <3>1, <3>2, EndedStep
  <2>2. \A b \in Starters : startPc'[b] # "idle" => calls'[b] > 0
    BY <1>1, <1>7 DEF CallsInv
  <2>3. ASSUME NEW b \in Stoppers
        PROVE  /\ stopPc'[b] # "idle" => calls'[b] > 0
               /\ stopPc'[b] = "destroying" =>
                     stopList'[b] # <<>> /\ initialized' # <<>>
               /\ disposing'[b] # NoCall => stopPc'[b] = "scopes"
    BY <1>7 DEF CallsInv
  <2> QED BY <2>1, <2>2, <2>3 DEF CallsInv

<1>8. ASSUME NEW c \in Stoppers, NEW list, NEW l, DestroyFrom(c, list, l),
             list # <<>> => initialized # <<>>
      PROVE  /\ \A b \in Stoppers \ {c} : /\ stopPc'[b] = stopPc[b]
                                          /\ stopList'[b] = stopList[b]
             /\ stopPc'[c] \in {"container", "destroying"}
             /\ gen' = gen \/ (gen' = gen + 1 /\ stopPc'[c] = "container")
             /\ stopPc'[c] = "destroying" => stopList'[c] # <<>> /\ initialized # <<>>
    BY <1>1, <1>8 DEF DestroyFrom
<1>9. ASSUME NEW c \in Stoppers, NEW w, BeginDispose(c, w)
      PROVE  \A b \in Stoppers \ {c} : disposing'[b] = disposing[b]
    BY <1>1, <1>9 DEF BeginDispose
<1>10. ASSUME NEW c \in Stoppers, NEW seen, DisposeNext(c, seen),
              disposing[c] = NoCall
       PROVE  /\ \A b \in Stoppers \ {c} : /\ stopPc'[b] = stopPc[b]
                                           /\ stopList'[b] = stopList[b]
                                           /\ disposing'[b] = disposing[b]
              /\ stopPc'[c] \in {"scopes", "container", "destroying"}
              /\ gen' = gen \/ (gen' = gen + 1 /\ stopPc'[c] = "container")
              /\ stopPc'[c] = "destroying" =>
                    stopList'[c] # <<>> /\ initialized # <<>>
              /\ disposing'[c] # NoCall => stopPc'[c] = "scopes"
  <2>1. ASSUME NEW w \in Workers, DisposeScope(c, seen, w)
        PROVE  /\ stopPc' = [stopPc EXCEPT ![c] = "scopes"] /\ gen' = gen
               /\ stopList' = stopList
               /\ \A b \in Stoppers \ {c} : disposing'[b] = disposing[b]
    BY <1>9, <2>1 DEF DisposeScope
  <2>2. CASE DestroyFrom(c, Reverse(initialized), life) /\ disposing' = disposing
    <3>1. Reverse(initialized) # <<>> => initialized # <<>>
      BY ReverseProperties DEF TypeOK
    <3> QED BY <1>8, <1>10, <2>2, <3>1
  <2>3. CASE \E w \in Workers : DisposeScope(c, seen, w)
    BY <1>1, <2>1, <2>3
  <2> QED BY <1>10, <2>2, <2>3 DEF DisposeNext
<1>11. ASSUME NEW c \in Stoppers, Stop(c)
       PROVE  gen' \in Generations /\ CallsInv'
  <2>1. /\ calls' = [calls EXCEPT ![c] = @ + 1] /\ calls[c] < MaxCalls
        /\ UNCHANGED <<startPc, initialized>>
        /\ disposing[c] = NoCall
    BY <1>1, <1>11 DEF Stop, CallsInv
  <2>2. /\ calls' \in [Starters \cup Stoppers -> 0 .. MaxCalls]
        /\ calls'[c] > calls[c] /\ calls'[c] >= calls[c] /\ calls'[c] > 0
        /\ \A b \in (Starters \cup Stoppers) \ {c} : calls'[b] = calls[b]
    BY <1>1, <2>1
  <2>3. CASE started
    <3>1. DisposeNext(c, {})
      BY <1>11, <2>3 DEF Stop
    <3>2. /\ \A b \in Stoppers \ {c} : /\ stopPc'[b] = stopPc[b]
                                       /\ stopList'[b] = stopList[b]
                                       /\ disposing'[b] = disposing[b]
          /\ gen' = gen \/ (gen' = gen + 1 /\ stopPc'[c] = "container")
          /\ stopPc'[c] = "destroying" =>
                stopList'[c] # <<>> /\ initialized # <<>>
          /\ disposing'[c] # NoCall => stopPc'[c] = "scopes"
      BY <1>10, <2>1, <3>1
    <3> QED BY <1>7, <2>1, <2>2, <3>2
  <2>4. CASE ~started
    <3>1. /\ stopPc' = [stopPc EXCEPT ![c] = "done"]
          /\ UNCHANGED <<stopList, gen, disposing>>
      BY <1>11, <2>4 DEF Stop
    <3>2. /\ \A b \in Stoppers \ {c} : stopPc'[b] = stopPc[b]
          /\ stopPc'[c] = "done" /\ disposing'[c] = NoCall
      BY <1>1, <2>1, <3>1
    <3> QED BY <1>7, <2>1, <2>2, <3>1, <3>2
  <2> QED BY <2>3, <2>4
<1>12. ASSUME NEW c \in Stoppers, ScopeDisposed(c)
       PROVE  gen' \in Generations /\ CallsInv'
  <2>1. /\ stopPc[c] = "scopes" /\ disposing[c] = NoCall /\ DisposeNext(c, passed[c])
        /\ UNCHANGED <<calls, startPc, initialized>>
    BY <1>12 DEF ScopeDisposed
  <2>2. calls'[c] >= calls[c] /\ calls'[c] > 0
    BY <1>1, <2>1 DEF CallsInv
  <2>3. /\ \A b \in Stoppers \ {c} : /\ stopPc'[b] = stopPc[b]
                                     /\ stopList'[b] = stopList[b]
                                     /\ disposing'[b] = disposing[b]
        /\ gen' = gen \/ (gen' = gen + 1 /\ stopPc'[c] = "container")
        /\ stopPc'[c] = "destroying" => stopList'[c] # <<>> /\ initialized # <<>>
        /\ disposing'[c] # NoCall => stopPc'[c] = "scopes"
    BY <1>10, <2>1
  <2> QED BY <1>1, <1>7, <2>1, <2>2, <2>3
<1>13. ASSUME NEW c \in Stoppers, DestroySettles(c)
       PROVE  gen' \in Generations /\ CallsInv'
  <2> DEFINE l == [life EXCEPT ![Head(stopList[c])] = "down"]
  <2>1. /\ stopPc[c] = "destroying" /\ DestroyFrom(c, Tail(stopList[c]), l)
        /\ UNCHANGED <<calls, startPc, initialized, disposing>>
    BY <1>13 DEF DestroySettles
  <2> HIDE DEF l
  <2>2. calls'[c] >= calls[c] /\ calls'[c] > 0 /\ disposing'[c] = NoCall
        /\ initialized # <<>>
    BY <1>1, <2>1 DEF CallsInv
  <2>3. /\ \A b \in Stoppers \ {c} : /\ stopPc'[b] = stopPc[b]
                                     /\ stopList'[b] = stopList[b]
        /\ gen' = gen \/ (gen' = gen + 1 /\ stopPc'[c] = "container")
        /\ stopPc'[c] = "destroying" => stopList'[c] # <<>> /\ initialized # <<>>
    BY <1>8, <2>1, <2>2
  <2> QED BY <1>1, <1>7, <2>1, <2>2, <2>3
<1>14. ASSUME NEW c \in Stoppers, DestroyFails(c) \/ StopReturns(c)
       PROVE  gen' \in Generations /\ CallsInv'
  <2>1. /\ stopPc[c] \in {"destroying", "container"}
        /\ \E r \in {"failed", "done"} : stopPc' = [stopPc EXCEPT ![c] = r]
        /\ UNCHANGED <<calls, gen, startPc, initialized, stopList, disposing>>
    BY <1>14 DEF DestroyFails, StopReturns
  <2>2. /\ calls'[c] >= calls[c] /\ calls'[c] > 0 /\ disposing'[c] = NoCall
        /\ stopPc'[c] \in {"failed", "done"}
        /\ \A b \in Stoppers \ {c} : stopPc'[b] = stopPc[b]
    BY <1>1, <2>1 DEF CallsInv
  <2> QED BY <1>1, <1>7, <2>1, <2>2
<1>15. ASSUME NEW d \in Disposers, DisposeSettles(d)
       PROVE  gen' \in Generations /\ CallsInv'
  <2>1. /\ UNCHANGED <<calls, startPc, stopVars, gen, initialized>>
        /\ disposing[d] # NoCall
        /\ \A b \in Disposers \ {d} : disposing'[b] = disposing[b]
    BY <1>1, <1>15 DEF DisposeSettles
  <2>2. ASSUME NEW b \in Stoppers, disposing'[b] # NoCall
        PROVE  stopPc'[b] = "scopes"
    BY <1>1, <2>1, <2>2 DEF CallsInv
  <2>3. gen' \in Generations /\ gen' <= Cardinality(Ended')
    BY <1>1, <2>1, EndedStep
  <2> QED BY <1>1, <2>1, <2>2, <2>3 DEF CallsInv
<1>16. ASSUME NEW d \in Disposers, DisposeFails(d)
       PROVE  gen' \in Generations /\ CallsInv'
  <2>1. /\ UNCHANGED <<calls, startPc, stopList, gen, initialized>>
        /\ disposing[d] # NoCall /\ disposing'[d] = NoCall
        /\ \A b \in Disposers \ {d} : disposing'[b] = disposing[b]
        /\ \A b \in Stoppers :
              stopPc'[b] = IF b = d THEN "failed" ELSE stopPc[b]
    BY <1>1, <1>16 DEF DisposeFails
  <2>2. CASE d \in Stoppers
    <3>1. /\ stopPc'[d] = "failed" /\ \A b \in Stoppers \ {d} : stopPc'[b] = stopPc[b]
          /\ calls'[d] >= calls[d] /\ calls'[d] > 0
      BY <1>1, <2>1, <2>2 DEF CallsInv
    <3> QED BY <1>1, <1>7, <2>1, <2>2, <3>1
  <2>3. CASE d \notin Stoppers
    <3>1. /\ \A b \in Stoppers : stopPc'[b] = stopPc[b] /\ disposing'[b] = disposing[b]
      BY <1>1, <2>1, <2>3
    <3>2. gen' \in Generations /\ gen' <= Cardinality(Ended')
      BY <1>1, <2>1, <3>1, EndedStep
    <3> QED BY <1>1, <2>1, <3>1, <3>2 DEF CallsInv
  <2> QED BY <2>2, <2>3
<1>17. ASSUME NEW w \in Workers, Arrive(w) \/ UseScoped(w) \/ Close(w) \/ Abort(w)
       PROVE  gen' \in Generations /\ CallsInv'
  <2>1. UNCHANGED <<callerVars, gen, initialized>>
    BY <1>17 DEF Arrive, UseScoped, Close, Abort
  <2>2. ASSUME NEW b \in Stoppers PROVE disposing'[b] = disposing[b]
    <3>1. b # w /\ b # <<"abort", w>>
      BY <1>0 DEF Aborts
    <3> QED BY <1>1, <1>17, <3>1 DEF Arrive, UseScoped, Close, Abort, BeginDispose
  <2> QED BY <1>1, <1>2, <2>1, <2>2 DEF CallsInv
<1>18. ASSUME UNCHANGED vars
       PROVE  gen' \in Generations /\ CallsInv'
    BY <1>1, <1>2, <1>18 DEF CallsInv
<1> QED BY <1>3, <1>5, <1>6, <1>11, <1>12, <1>13, <1>14, <1>15, <1>16, <1>17, <1>18
        DEF Next, StopStep, DisposeStep, Idle

-----------------------------------------------------------------------------
(***************************************************************************)
(* start() waits for the plugins.                                          *)
(***************************************************************************)
LEMMA PluginsStep ==
    ASSUME TypeOK, PluginsInv, [Next]_vars
    PROVE  PluginsInv'
<1>1. /\ startPc \in [Starters -> {"idle", "plugins", "initing", "done", "failed"}]
      /\ plugin \in [Plugins -> {"unused", "registering", "registered", "failed"}]
      /\ batch \in [Starters -> SUBSET Plugins]
      /\ timely \subseteq Plugins /\ Unregistered \subseteq Plugins
    BY DEF TypeOK, Unregistered
\* The actions after which no start() is awaited that was not awaited before.
<1>2. ASSUME UNCHANGED <<pluginVars, batch>>,
             \A c \in Starters : startPc'[c] \in {startPc[c], "done", "failed"}
      PROVE  PluginsInv'
  <2>1. Unregistered' = Unregistered
    BY <1>2 DEF Unregistered
  <2> QED BY <1>2, <2>1 DEF PluginsInv
<1>3. ASSUME NEW p \in Plugins, Use(p) PROVE PluginsInv'
  <2>1. /\ plugin[p] = "unused" /\ plugin' = [plugin EXCEPT ![p] = "registering"]
        /\ pending' = pending \cup {p}
        /\ UNCHANGED <<startPc, batch>>
        /\ p \notin timely
    BY <1>3 DEF Use, PluginsInv
  <2>2. CASE \E c \in Starters : Starting(c)
    <3>1. timely' = timely
      BY <1>3, <2>2 DEF Use
    <3>2. Unregistered' = Unregistered
      BY <1>1, <2>1, <3>1 DEF Unregistered
    <3> QED BY <1>1, <2>1, <3>1, <3>2 DEF PluginsInv
  <2>3. CASE ~\E c \in Starters : Starting(c)
    <3>1. timely' = timely \cup {p}
      BY <1>3, <2>3 DEF Use
    <3>2. Unregistered' = Unregistered \cup {p}
      BY <1>1, <2>1, <3>1 DEF Unregistered
    <3>3. \A c \in Starters : startPc'[c] \notin {"plugins", "initing"}
      BY <2>1, <2>3 DEF Starting
    <3> QED BY <1>1, <2>1, <3>1, <3>2, <3>3 DEF PluginsInv
  <2> QED BY <2>2, <2>3
<1>4. ASSUME NEW p \in Plugins, PluginSettles(p) PROVE PluginsInv'
  <2>1. /\ UNCHANGED <<pending, timely, startPc, batch>> /\ plugin[p] = "registering"
        /\ \A q \in Plugins \ {p} : plugin'[q] = plugin[q]
        /\ plugin'[p] \in {"registered", "failed"}
    BY <1>1, <1>4 DEF PluginSettles
  <2>2. Unregistered' \subseteq Unregistered
    BY <1>1, <2>1 DEF Unregistered
  <2>3. \A q \in timely' : plugin'[q] # "unused"
    BY <1>1, <2>1 DEF PluginsInv
  <2> QED BY <2>1, <2>2, <2>3 DEF PluginsInv
\* The loop of start() begins, or goes on, when every timely plugin registered.
<1>5. ASSUME NEW c \in Starters, NEW s, NEW l, InitFrom(c, s, l),
             UNCHANGED <<plugin, timely, batch>>, Unregistered = {}
      PROVE  PluginsInv'
  <2>1. Unregistered' = {}
    BY <1>5 DEF Unregistered
  <2> QED BY <1>5, <2>1 DEF PluginsInv
<1>6. ASSUME NEW c \in Starters, Start(c) PROVE PluginsInv'
  <2>1. UNCHANGED pluginVars
    BY <1>6 DEF Start
  <2>2. CASE started
    BY <1>1, <1>2, <1>6, <2>1, <2>2 DEF Start
  <2>3. CASE ~started /\ pending # {}
    <3>1. /\ startPc' = [startPc EXCEPT ![c] = "plugins"]
          /\ batch' = [batch EXCEPT ![c] = pending]
      BY <1>6, <2>3 DEF Start
    <3>2. Unregistered' = Unregistered
      BY <2>1 DEF Unregistered
    <3> QED BY <1>1, <2>1, <3>1, <3>2 DEF PluginsInv
  <2>4. CASE ~started /\ pending = {}
    <3>1. InitFrom(c, 1, life) /\ UNCHANGED batch /\ Unregistered = {}
      BY <1>6, <2>4 DEF Start, PluginsInv
    <3> QED BY <1>5, <2>1, <3>1
  <2> QED BY <2>2, <2>3, <2>4
<1>7. ASSUME NEW c \in Starters, PluginsReady(c) PROVE PluginsInv'
  <2>1. /\ startPc[c] = "plugins" /\ \A p \in batch[c] : plugin[p] = "registered"
        /\ InitFrom(c, 1, life) /\ UNCHANGED <<plugin, timely, batch>>
    BY <1>7 DEF PluginsReady
  <2>2. Unregistered = {}
    BY <2>1 DEF PluginsInv, Unregistered
  <2> QED BY <1>5, <2>1, <2>2
<1>8. ASSUME NEW c \in Starters, InitSettles(c) PROVE PluginsInv'
  <2>1. /\ startPc[c] = "initing" /\ UNCHANGED <<plugin, timely, batch>>
        /\ InitFrom(c, at[c][1] + 1, [life EXCEPT ![at[c]] = "up"])
    BY <1>8 DEF InitSettles
  <2>2. Unregistered = {}
    BY <2>1 DEF PluginsInv
  <2> QED BY <1>5, <2>1, <2>2
<1>9. ASSUME NEW c \in Starters, PluginsReject(c) \/ InitFails(c) PROVE PluginsInv'
    BY <1>1, <1>2, <1>9 DEF PluginsReject, InitFails
<1>10. ASSUME UNCHANGED <<pluginVars, startVars>> PROVE PluginsInv'
    BY <1>2, <1>10
<1>11. ASSUME NEW c \in Stoppers, Stop(c) \/ StopStep(c) PROVE PluginsInv'
    BY <1>10, <1>11
       DEF Stop, StopStep, ScopeDisposed, DestroySettles, DestroyFails, StopReturns
<1>12. ASSUME NEW d \in Disposers, DisposeStep(d) PROVE PluginsInv'
    BY <1>10, <1>12 DEF DisposeStep, DisposeSettles, DisposeFails
<1>13. ASSUME NEW w \in Workers, Arrive(w) \/ UseScoped(w) \/ Close(w) \/ Abort(w)
       PROVE  PluginsInv'
    BY <1>10, <1>13 DEF Arrive, UseScoped, Close, Abort
<1>14. ASSUME UNCHANGED vars PROVE PluginsInv'
    BY <1>10, <1>14
<1> QED BY <1>3, <1>4, <1>6, <1>7, <1>8, <1>9, <1>11, <1>12, <1>13, <1>14
        DEF Next, StartStep, Idle

-----------------------------------------------------------------------------
(***************************************************************************)
(* No scoped instance is dropped without its onDestroy.                    *)
(***************************************************************************)
LEMMA BeginDisposeStep ==
    ASSUME TypeOK, DisposeInv, ScopedDestroyed,
           NEW d \in Disposers, NEW w \in Workers, BeginDispose(d, w),
           \/ d \notin Workers /\ workPc' = workPc
           \/ /\ d = w /\ workPc[w] \in {"open", "using"}
              /\ workPc' = [workPc EXCEPT ![w] = "disposing"]
    PROVE  DisposeInv' /\ ScopedDestroyed'
<1>1. /\ disposing \in [Disposers -> {NoCall} \cup (Workers \X Nat)]
      /\ activeScopes \in Seq(Workers) /\ Workers \subseteq Disposers
      /\ cached \in [Workers -> Nat] /\ destroyed \in [Workers -> SUBSET Nat]
      /\ workPc \in [Workers -> {"idle", "open", "using", "disposing", "done"}]
    BY DEF TypeOK, Disposers
<1>0. ToSet(activeScopes) \subseteq Workers
    BY <1>1 DEF ToSet
<1>2. /\ disposing' = [disposing EXCEPT ![d] = <<w, cached[w]>>]
      /\ UNCHANGED <<built, cached>>
    BY DEF BeginDispose
<1>3. /\ \A v \in Workers : destroyed[v] \subseteq destroyed'[v]
      /\ cached[w] # 0 => cached[w] \in destroyed'[w]
    BY <1>1 DEF BeginDispose
<1>4. /\ ToSet(activeScopes') \subseteq ToSet(activeScopes)
      /\ w \in ToSet(activeScopes') => cached[w] # 0
      /\ \A m, n \in DOMAIN activeScopes' :
            activeScopes'[m] = activeScopes'[n] => m = n
  <2>1. CASE cached[w] # 0
    BY <2>1 DEF BeginDispose, DisposeInv
  <2>2. CASE cached[w] = 0
    <3>1. activeScopes' = RemoveFirst(activeScopes, w)
      BY <2>2 DEF BeginDispose
    <3>2. \A m, n \in DOMAIN activeScopes : activeScopes[m] = activeScopes[n] => m = n
      BY DEF DisposeInv
    <3> QED BY <1>1, <3>1, <3>2, RemoveFirstProperties
  <2> QED BY <2>1, <2>2
<1>5. disposing'[d] = <<w, cached[w]>> /\ \A e \in Disposers \ {d} : disposing'[e] = disposing[e]
    BY <1>1, <1>2
<1>6. ASSUME NEW e \in Disposers, disposing'[e] # NoCall, disposing'[e][2] # 0
      PROVE  disposing'[e][2] \in destroyed'[disposing'[e][1]]
  <2>1. CASE e = d
    BY <1>3, <1>5, <1>6, <2>1
  <2>2. CASE e # d
    <3>1. disposing[e] \in Workers \X Nat /\ disposing'[e] = disposing[e]
      BY <1>1, <1>5, <1>6, <2>2
    <3>2. disposing[e][2] \in destroyed[disposing[e][1]]
      BY <1>6, <3>1 DEF DisposeInv
    <3> QED BY <1>3, <3>1, <3>2
  <2> QED BY <2>1, <2>2
<1>7. ASSUME NEW v \in Workers, disposing'[v] # NoCall
      PROVE  disposing'[v][1] = v /\ workPc'[v] = "disposing"
  <2>1. CASE v = d
    BY <1>1, <1>5, <2>1
  <2>2. CASE v # d
    BY <1>1, <1>5, <1>7, <2>2 DEF DisposeInv
  <2> QED BY <2>1, <2>2
<1>8. ASSUME NEW v \in ToSet(activeScopes')
      PROVE  /\ workPc'[v] # "idle"
             /\ disposing'[v] # NoCall => disposing'[v][2] # 0
             /\ "scope" \notin Faults => Working(v)'
  <2>1. v \in ToSet(activeScopes) /\ v \in Workers
    BY <1>0, <1>4, <1>8
  <2>2. /\ workPc[v] # "idle"
        /\ disposing[v] # NoCall => disposing[v][2] # 0
        /\ "scope" \notin Faults => Working(v)
    BY <2>1 DEF DisposeInv
  <2>3. CASE v = d
    <3>1. v = w /\ workPc'[v] = "disposing"
      BY <1>1, <2>1, <2>3
    <3> QED BY <1>4, <1>5, <1>8, <2>3, <3>1 DEF Working
  <2>4. CASE v # d
    <3>1. disposing'[v] = disposing[v] /\ workPc'[v] = workPc[v]
      BY <1>1, <1>5, <2>1, <2>4
    <3> QED BY <2>2, <3>1 DEF Working
  <2> QED BY <2>3, <2>4
<1>9. ScopedDestroyed'
    BY <1>2, <1>3 DEF ScopedDestroyed
<1> QED BY <1>4, <1>6, <1>7, <1>8, <1>9 DEF DisposeInv

LEMMA DisposeStepsInv ==
    ASSUME TypeOK, DisposeInv, ScopedDestroyed, [Next]_vars
    PROVE  DisposeInv' /\ ScopedDestroyed'
<1>1. /\ disposing \in [Disposers -> {NoCall} \cup (Workers \X Nat)]
      /\ activeScopes \in Seq(Workers) /\ Workers \subseteq Disposers
      /\ cached \in [Workers -> Nat] /\ destroyed \in [Workers -> SUBSET Nat]
      /\ built \in [Workers -> Nat]
      /\ workPc \in [Workers -> {"idle", "open", "using", "disposing", "done"}]
      /\ Workers \cap Stoppers = {} /\ Aborts \cap (Workers \cup Stoppers) = {}
    BY AppAssumption DEF TypeOK, Disposers, Aborts
<1>0. ToSet(activeScopes) \subseteq Workers
    BY <1>1 DEF ToSet
<1>2. ASSUME UNCHANGED <<scopeVars, workPc>>
      PROVE  DisposeInv' /\ ScopedDestroyed'
    BY <1>2 DEF DisposeInv, ScopedDestroyed, Working
<1>3. ASSUME NEW p \in Plugins, Use(p) \/ PluginSettles(p)
      PROVE  DisposeInv' /\ ScopedDestroyed'
    BY <1>2, <1>3 DEF Use, PluginSettles
<1>4. ASSUME NEW c \in Starters, Start(c) \/ StartStep(c)
      PROVE  DisposeInv' /\ ScopedDestroyed'
    BY <1>2, <1>4
       DEF Start, StartStep, PluginsReady, PluginsReject, InitSettles, InitFails
<1>5. ASSUME NEW c \in Stoppers, NEW seen, DisposeNext(c, seen), workPc' = workPc
      PROVE  DisposeInv' /\ ScopedDestroyed'
  <2>1. ASSUME NEW w \in Workers, DisposeScope(c, seen, w)
        PROVE  DisposeInv' /\ ScopedDestroyed'
    <3>1. BeginDispose(c, w) /\ c \in Disposers /\ c \notin Workers
      BY <1>1, <2>1 DEF DisposeScope, Disposers
    <3> QED BY <1>5, <3>1, BeginDisposeStep
  <2> QED BY <1>2, <1>5, <2>1 DEF DisposeNext
<1>6. ASSUME NEW c \in Stoppers, Stop(c) \/ StopStep(c)
      PROVE  DisposeInv' /\ ScopedDestroyed'
  <2>1. \/ (\E seen : DisposeNext(c, seen)) /\ workPc' = workPc
        \/ UNCHANGED <<scopeVars, workPc>>
    BY <1>6 DEF Stop, StopStep, ScopeDisposed, DestroySettles, DestroyFails, StopReturns
  <2> QED BY <1>2, <1>5, <2>1
<1>7. ASSUME NEW w \in Workers, Arrive(w)
      PROVE  DisposeInv' /\ ScopedDestroyed'
  <2>1. /\ workPc[w] = "idle" /\ workPc' = [workPc EXCEPT ![w] = "open"]
        /\ activeScopes' = Append(activeScopes, w)
        /\ UNCHANGED <<built, cached, destroyed, disposing>>
    BY <1>7 DEF Arrive
  <2>2. w \notin ToSet(activeScopes) /\ disposing[w] = NoCall
    BY <2>1 DEF DisposeInv
  <2>3. /\ DOMAIN activeScopes' = 1 .. Len(activeScopes) + 1
        /\ DOMAIN activeScopes = 1 .. Len(activeScopes) /\ Len(activeScopes) \in Nat
        /\ \A i \in 1 .. Len(activeScopes) : activeScopes'[i] = activeScopes[i]
        /\ activeScopes'[Len(activeScopes) + 1] = w
    BY <1>1, <2>1, AppendProperties
  <2>4. \A i \in DOMAIN activeScopes : activeScopes[i] # w
    BY <2>2 DEF ToSet
  <2>5. \A m, n \in DOMAIN activeScopes' : activeScopes'[m] = activeScopes'[n] => m = n
    <3>1. \A m, n \in 1 .. Len(activeScopes) :
              activeScopes'[m] = activeScopes'[n] => m = n
      BY <2>3 DEF DisposeInv
    <3> QED BY <2>3, <2>4, <3>1
  <2>6. ToSet(activeScopes') = ToSet(activeScopes) \cup {w}
    BY <1>1, <2>1, ToSetAppend
  <2>7. ASSUME NEW v \in ToSet(activeScopes')
        PROVE  /\ workPc'[v] # "idle"
               /\ disposing'[v] # NoCall => disposing'[v][2] # 0
               /\ "scope" \notin Faults => Working(v)'
    <3>1. CASE v = w
      BY <1>1, <2>1, <2>2, <3>1 DEF Working
    <3>2. CASE v # w
      <4>1. v \in ToSet(activeScopes) /\ v \in Workers
        BY <1>0, <2>6, <2>7, <3>2
      <4> QED BY <1>1, <2>1, <3>2, <4>1 DEF DisposeInv, Working
    <3> QED BY <3>1, <3>2
  <2>8. \A v \in Workers : disposing'[v] # NoCall => workPc'[v] = workPc[v]
    BY <1>1, <2>1, <2>2
  <2> QED BY <2>1, <2>5, <2>7, <2>8 DEF DisposeInv, ScopedDestroyed
<1>8. ASSUME NEW w \in Workers, UseScoped(w)
      PROVE  DisposeInv' /\ ScopedDestroyed'
  <2>1. /\ workPc[w] \in {"open", "using"} /\ cached[w] = 0
        /\ workPc' = [workPc EXCEPT ![w] = "using"]
        /\ built' = [built EXCEPT ![w] = @ + 1]
        /\ cached' = [cached EXCEPT ![w] = built[w] + 1]
        /\ UNCHANGED <<activeScopes, destroyed, disposing>>
    BY <1>8 DEF UseScoped
  <2>2. disposing[w] = NoCall
    BY <2>1 DEF DisposeInv
  <2>3. ScopedDestroyed'
    <3> SUFFICES ASSUME NEW v \in Workers, NEW k \in 1 .. built'[v]
                 PROVE  k = cached'[v] \/ k \in destroyed'[v]
        BY DEF ScopedDestroyed
    <3>1. CASE v = w
      <4>1. k = built[w] + 1 \/ k \in 1 .. built[w]
        BY <1>1, <2>1, <3>1
      <4>2. k \in 1 .. built[w] => k # 0
        BY <1>1
      <4> QED BY <1>1, <2>1, <3>1, <4>1, <4>2 DEF ScopedDestroyed
    <3>2. CASE v # w
      BY <1>1, <2>1, <3>2 DEF ScopedDestroyed
    <3> QED BY <3>1, <3>2
  <2>4. \A v \in Workers : v # w => workPc'[v] = workPc[v]
    BY <1>1, <2>1
  <2>5. ASSUME NEW v \in ToSet(activeScopes')
        PROVE  /\ workPc'[v] # "idle"
               /\ disposing'[v] # NoCall => disposing'[v][2] # 0
               /\ "scope" \notin Faults => Working(v)'
    <3>1. v \in ToSet(activeScopes) /\ v \in Workers
      BY <1>0, <2>1, <2>5
    <3>2. workPc'[w] = "using"
      BY <1>1, <2>1
    <3> QED BY <2>1, <2>4, <3>1, <3>2 DEF DisposeInv, Working
  <2> QED BY <2>1, <2>2, <2>3, <2>4, <2>5 DEF DisposeInv
<1>9. ASSUME NEW w \in Workers, Close(w)
      PROVE  DisposeInv' /\ ScopedDestroyed'
    BY <1>1, <1>9, BeginDisposeStep DEF Close
<1>10. ASSUME NEW w \in Workers, Abort(w)
       PROVE  DisposeInv' /\ ScopedDestroyed'
  <2>1. <<"abort", w>> \in Aborts
    BY DEF Aborts
  <2>2. <<"abort", w>> \in Disposers /\ <<"abort", w>> \notin Workers
    BY <1>1, <2>1 DEF Disposers
  <2> QED BY <1>10, <2>2, BeginDisposeStep DEF Abort

\* The second alternative of DisposeSettles: the scope is dropped.
<1>11. ASSUME NEW d \in Disposers, DisposeSettles(d)
       PROVE  DisposeInv' /\ ScopedDestroyed'
  <2> DEFINE w == disposing[d][1]
             k == disposing[d][2]
  <2>1. /\ disposing[d] # NoCall /\ w \in Workers /\ k \in Nat
        /\ k # 0 => k \in destroyed[w]
        /\ d \in Workers => w = d
        /\ built' = built
    BY <1>1, <1>11 DEF DisposeSettles, DisposeInv
  <2>2. CASE k # 0 /\ cached[w] \notin {0, k}
    <3>1. /\ disposing' = [disposing EXCEPT ![d] = <<w, cached[w]>>]
          /\ destroyed' = [destroyed EXCEPT ![w] = @ \cup {cached[w]}]
          /\ UNCHANGED <<activeScopes, cached, workPc>>
      BY <1>11, <2>2 DEF DisposeSettles
    <3> HIDE DEF w, k
    <3>2. /\ disposing'[d] = <<w, cached[w]>> /\ cached[w] # 0
          /\ \A e \in Disposers \ {d} : disposing'[e] = disposing[e]
          /\ \A v \in Workers : destroyed[v] \subseteq destroyed'[v]
          /\ cached[w] \in destroyed'[w]
      BY <1>1, <2>1, <2>2, <3>1
    <3>3. ScopedDestroyed'
      BY <2>1, <3>1, <3>2 DEF ScopedDestroyed
    <3>4. ASSUME NEW e \in Disposers, disposing'[e] # NoCall, disposing'[e][2] # 0
          PROVE  disposing'[e][2] \in destroyed'[disposing'[e][1]]
      <4>1. CASE e = d
        BY <3>2, <4>1
      <4>2. CASE e # d
        <5>1. disposing[e] \in Workers \X Nat /\ disposing'[e] = disposing[e]
          BY <1>1, <3>2, <3>4, <4>2
        <5>2. disposing[e][2] \in destroyed[disposing[e][1]]
          BY <3>4, <5>1 DEF DisposeInv
        <5> QED BY <3>2, <5>1, <5>2
      <4> QED BY <4>1, <4>2
    <3>5. ASSUME NEW v \in Workers, disposing'[v] # NoCall
          PROVE  disposing'[v][1] = v /\ workPc'[v] = "disposing"
      <4>1. disposing[v] # NoCall
        BY <1>1, <2>1, <3>2, <3>5
      <4>2. disposing[v][1] = v /\ workPc[v] = "disposing"
        BY <4>1 DEF DisposeInv
      <4>3. CASE v = d
        BY <2>1, <3>1, <3>2, <4>2, <4>3
      <4>4. CASE v # d
        BY <1>1, <3>1, <3>2, <4>2, <4>4
      <4> QED BY <4>3, <4>4
    <3>6. ASSUME NEW v \in ToSet(activeScopes')
          PROVE  /\ workPc'[v] # "idle"
                 /\ disposing'[v] # NoCall => disposing'[v][2] # 0
                 /\ "scope" \notin Faults => Working(v)'
      <4>1. v \in ToSet(activeScopes) /\ v \in Workers
        BY <1>0, <3>1, <3>6
      <4>2. disposing'[v] # NoCall => disposing'[v][2] # 0
        BY <1>1, <3>2, <4>1 DEF DisposeInv
      <4> QED BY <3>1, <4>1, <4>2 DEF DisposeInv, Working
    <3> QED BY <3>1, <3>3, <3>4, <3>5, <3>6 DEF DisposeInv
  <2>3. CASE k = 0 \/ cached[w] \in {0, k}
    <3>1. /\ disposing' = [disposing EXCEPT ![d] = NoCall] /\ destroyed' = destroyed
          /\ workPc' = [v \in Workers |-> IF v = d THEN "done" ELSE workPc[v]]
          /\ \/ /\ k = 0 /\ activeScopes' = activeScopes /\ cached' = cached
             \/ /\ k # 0 /\ activeScopes' = RemoveFirst(activeScopes, w)
                /\ cached' = [cached EXCEPT ![w] = 0]
      BY <1>11, <2>3 DEF DisposeSettles, Returns
    <3>2. /\ disposing'[d] = NoCall
          /\ \A e \in Disposers \ {d} : disposing'[e] = disposing[e]
      BY <1>1, <3>1
    <3>3. d \in Workers => d \notin ToSet(activeScopes')
      <4>1. CASE k = 0
        <5>1. activeScopes' = activeScopes
          BY <3>1, <4>1
        <5> QED BY <2>1, <4>1, <5>1 DEF DisposeInv
      <4>2. CASE k # 0
        <5>1. activeScopes' = RemoveFirst(activeScopes, w)
          BY <3>1, <4>2
        <5>2. \A m, n \in DOMAIN activeScopes :
                  activeScopes[m] = activeScopes[n] => m = n
          BY DEF DisposeInv
        <5>3. w \notin ToSet(activeScopes')
          <6> HIDE DEF w
          <6> QED BY <1>1, <5>1, <5>2, RemoveFirstProperties
        <5> QED BY <2>1, <5>3
      <4> QED BY <4>1, <4>2
    <3>4. /\ ToSet(activeScopes') \subseteq ToSet(activeScopes)
          /\ \A m, n \in DOMAIN activeScopes' :
                activeScopes'[m] = activeScopes'[n] => m = n
      <4>1. CASE k = 0
        BY <3>1, <4>1 DEF DisposeInv
      <4>2. CASE k # 0
        <5>1. activeScopes' = RemoveFirst(activeScopes, w)
          BY <3>1, <4>2
        <5>2. \A m, n \in DOMAIN activeScopes :
                  activeScopes[m] = activeScopes[n] => m = n
          BY DEF DisposeInv
        <5> HIDE DEF w
        <5> QED BY <1>1, <5>1, <5>2, RemoveFirstProperties
      <4> QED BY <4>1, <4>2
    <3>5. ScopedDestroyed'
      <4> SUFFICES ASSUME NEW v \in Workers, NEW j \in 1 .. built[v]
                   PROVE  j = cached'[v] \/ j \in destroyed[v]
          BY <2>1, <3>1 DEF ScopedDestroyed
      <4>1. j # 0 /\ (j = cached[v] \/ j \in destroyed[v])
        <5>1. built[v] \in Nat
          BY <1>1
        <5>2. j # 0
          BY <5>1
        <5> QED BY <5>2 DEF ScopedDestroyed
      <4>2. \/ cached' = cached
            \/ k # 0 /\ cached' = [cached EXCEPT ![w] = 0]
        BY <3>1
      <4> HIDE DEF w, k
      <4>3. CASE cached'[v] = cached[v]
        BY <4>1, <4>3
      <4>4. CASE cached'[v] # cached[v]
        <5>1. k # 0 /\ cached' = [cached EXCEPT ![w] = 0]
          BY <4>2, <4>4
        <5>2. v = w
          BY <1>1, <4>4, <5>1
        <5> QED BY <2>1, <2>3, <4>1, <5>1, <5>2
      <4> QED BY <4>3, <4>4
    <3>6. \A e \in Disposers : disposing'[e] # NoCall => disposing'[e] = disposing[e]
      BY <3>2
    <3>7. \A v \in Workers : v # d => workPc'[v] = workPc[v]
      BY <3>1
    <3>8. ASSUME NEW v \in Workers, disposing'[v] # NoCall
          PROVE  disposing'[v][1] = v /\ workPc'[v] = "disposing"
      BY <1>1, <3>2, <3>7, <3>8 DEF DisposeInv
    <3>9. ASSUME NEW v \in ToSet(activeScopes')
          PROVE  /\ workPc'[v] # "idle"
                 /\ disposing'[v] # NoCall => disposing'[v][2] # 0
                 /\ "scope" \notin Faults => Working(v)'
      <4>1. v \in ToSet(activeScopes) /\ v \in Workers /\ v # d
        BY <1>0, <3>3, <3>4, <3>9
      <4>2. disposing'[v] = disposing[v] /\ workPc'[v] = workPc[v]
        BY <1>1, <3>2, <3>7, <4>1
      <4> QED BY <4>1, <4>2 DEF DisposeInv, Working
    <3> HIDE DEF w, k
    <3> QED BY <3>1, <3>4, <3>5, <3>6, <3>8, <3>9 DEF DisposeInv
  <2> QED BY <2>2, <2>3
<1>12. ASSUME NEW d \in Disposers, DisposeFails(d)
       PROVE  DisposeInv' /\ ScopedDestroyed'
  <2>1. /\ "scope" \in Faults /\ disposing' = [disposing EXCEPT ![d] = NoCall]
        /\ workPc' = [v \in Workers |-> IF v = d THEN "done" ELSE workPc[v]]
        /\ UNCHANGED <<activeScopes, built, cached, destroyed>>
    BY <1>12 DEF DisposeFails, Returns
  <2>2. \A e \in Disposers :
            disposing'[e] # NoCall => e # d /\ disposing'[e] = disposing[e]
    BY <1>1, <2>1
  <2>3. \A v \in Workers : v # d => workPc'[v] = workPc[v]
    BY <2>1
  <2>4. \A v \in Workers : workPc[v] # "idle" => workPc'[v] # "idle"
    BY <2>1
  <2>5. ScopedDestroyed'
    BY <2>1 DEF ScopedDestroyed
  <2>6. \A v \in Workers :
            disposing'[v] # NoCall => disposing'[v][1] = v /\ workPc'[v] = "disposing"
    BY <1>1, <2>2, <2>3 DEF DisposeInv
  <2>7. \A v \in ToSet(activeScopes') :
            /\ workPc'[v] # "idle"
            /\ disposing'[v] # NoCall => disposing'[v][2] # 0
    BY <1>0, <1>1, <2>1, <2>2, <2>4 DEF DisposeInv
  <2> QED BY <2>1, <2>2, <2>5, <2>6, <2>7 DEF DisposeInv
<1>13. ASSUME UNCHANGED vars
       PROVE  DisposeInv' /\ ScopedDestroyed'
    BY <1>2, <1>13
<1> QED BY <1>3, <1>4, <1>6, <1>7, <1>8, <1>9, <1>10, <1>11, <1>12, <1>13
        DEF Next, DisposeStep, Idle

-----------------------------------------------------------------------------
(***************************************************************************)
(* What holds whatever the callers of start() and stop() do.               *)
(***************************************************************************)
LEMMA CallerFreeInit == Init => CallerFreeInv
<1> SUFFICES ASSUME Init PROVE CallerFreeInv
    OBVIOUS
<1>1. Cardinality(Stoppers) * MaxCalls \in Nat /\ MaxCalls \in Nat /\ N \in Nat
    BY AppAssumption, FS_CardinalityType
<1>2. 0 \in Generations /\ 1 \in 1 .. N
    BY <1>1, AppAssumption DEF Generations
<1>3. /\ Ended \in SUBSET (Stoppers \X (1 .. MaxCalls))
      /\ Cardinality(Ended) \in Nat
  <2>1. Ended \in SUBSET (Stoppers \X (1 .. MaxCalls))
    BY DEF Ended
  <2> QED BY <2>1, CallSets
<1>4. TypeOK
  <2>1. /\ life \in [Instances -> Lives] /\ at \in [Starters -> Instances]
        /\ initialized \in Seq(Instances) /\ activeScopes \in Seq(Workers)
        /\ stopList \in [Stoppers -> Seq(Instances)]
    BY <1>2 DEF Init, Instances, Lives
  <2>2. calls \in [Starters \cup Stoppers -> 0 .. MaxCalls]
    BY <1>1 DEF Init
  <2>3. /\ destroyed \in [Workers -> SUBSET Nat] /\ server \in [Workers -> Generations]
        /\ disposing \in [Disposers -> {NoCall} \cup (Workers \X Nat)]
    BY <1>2 DEF Init
  <2> QED BY <1>2, <2>1, <2>2, <2>3 DEF Init, TypeOK
<1>5. CallsInv
    BY <1>1, <1>3 DEF Init, CallsInv, Disposers
<1>6. PluginsInv
    BY DEF Init, PluginsInv, Unregistered
<1>7. DisposeInv
    BY DEF Init, DisposeInv, ToSet, Disposers
<1>8. ScopedDestroyed
    BY DEF Init, ScopedDestroyed
<1> QED BY <1>4, <1>5, <1>6, <1>7, <1>8 DEF CallerFreeInv

LEMMA CallerFreeStep ==
    ASSUME CallerFreeInv, [Next]_vars PROVE CallerFreeInv'
<1>1. TypeOK /\ CallsInv /\ PluginsInv /\ DisposeInv /\ ScopedDestroyed
    BY DEF CallerFreeInv
<1>2. gen' \in Generations /\ CallsInv'
    BY <1>1, CallsStep
<1>3. TypeOK'
    BY <1>1, <1>2, TypeStep
<1>4. PluginsInv'
    BY <1>1, PluginsStep
<1>5. DisposeInv' /\ ScopedDestroyed'
    BY <1>1, DisposeStepsInv
<1> QED BY <1>2, <1>3, <1>4, <1>5 DEF CallerFreeInv

\* The types, who waits for plugins and who destroys scoped instances, however
\* calls of start() and stop() overlap, fail and are repeated.
THEOREM CallerFreeCorrect == Spec => []CallerFreeInv
<1>1. CallerFreeInv /\ [Next]_vars => CallerFreeInv'
    BY CallerFreeStep
<1> QED BY <1>1, CallerFreeInit, PTL DEF Spec

\* start() awaits the promises of use() before it initialises singletons: those of the
\* plugins that were used while no start() was in progress have resolved by then, and
\* none was rejected, also when starts overlap, fail and are repeated.
THEOREM PluginsBeforeSingletonsAlways == Spec => []PluginsBeforeSingletons
<1>1. CallerFreeInv => PluginsBeforeSingletons
    BY DEF CallerFreeInv, PluginsInv, Unregistered, PluginsBeforeSingletons
<1> QED BY <1>1, CallerFreeCorrect, PTL

\* scope.dispose() of stop(), of an abort and of the worker never drop an instance
\* whose onDestroy was not called, in whatever order they run.
THEOREM ScopedDestroyedAlways == Spec => []ScopedDestroyed
<1>1. CallerFreeInv => ScopedDestroyed
    BY DEF CallerFreeInv
<1> QED BY <1>1, CallerFreeCorrect, PTL

-----------------------------------------------------------------------------
(***************************************************************************)
(* What holds while calls of start() overlap no other call: Serialised.    *)
(***************************************************************************)
LEMMA InstanceFacts ==
    /\ \A i \in Instances : /\ i[1] \in 1 .. N /\ i[2] \in Generations
                            /\ i = <<i[1], i[2]>>
    /\ \A s \in 1 .. N, g \in Generations : <<s, g>> \in Instances
    /\ Generations \subseteq Nat /\ Server \in 1 .. N /\ N \in Nat
BY AppAssumption, FS_CardinalityType DEF Instances, Generations

\* Services come up in order, and what was destroyed is not among them.
LEMMA UpStep ==
    ASSUME TypeOK, OrderInv, ReverseDestroy, WorkOnLiveServices,
           \A i \in Instances :
              \/ life'[i] = life[i]
              \/ /\ life[i] \notin Touched /\ life'[i] \notin Touched
                 /\ life[i] = "up" => life'[i] = "up",
           \A g \in Generations : \A s, t \in 1 .. N :
              s < t /\ life'[<<t, g>>] = "up" => life'[<<s, g>>] = "up",
           Reached \subseteq Reached', UNCHANGED workVars
    PROVE  OrderInv' /\ ReverseDestroy' /\ WorkOnLiveServices'
<1>1. \A i \in Instances :
         /\ life'[i] = "down" <=> life[i] = "down"
         /\ life'[i] \in Touched => life[i] \in Touched
         /\ life[i] = "up" => life'[i] = "up"
    BY DEF Touched
<1>2. OrderInv'
  <2>1. \A g \in Generations : life'[<<Server, g>>] = "down" => Busy(g)' = {}
    BY <1>1, InstanceFacts DEF OrderInv, Busy, Working
  <2>2. \A w \in Workers : workPc'[w] # "idle" => <<Server, server'[w]>> \in Reached'
    BY DEF OrderInv
  <2>3. ASSUME NEW g \in Generations, NEW s \in 1 .. N, NEW t \in 1 .. N, s < t,
               life'[<<t, g>>] \in Standing
        PROVE  life'[<<s, g>>] = "up"
    <3>1. <<s, g>> \in Instances /\ <<t, g>> \in Instances
      BY InstanceFacts
    <3>2. CASE life'[<<t, g>>] = "up"
      BY <2>3, <3>2
    <3>3. CASE life'[<<t, g>>] # "up"
      <4>1. life[<<t, g>>] \in Standing
        BY <2>3, <3>1, <3>3 DEF Standing, Touched
      <4> QED BY <1>1, <2>3, <3>1, <4>1 DEF OrderInv
    <3> QED BY <3>2, <3>3
  <2> QED BY <2>1, <2>2, <2>3 DEF OrderInv
<1>3. ReverseDestroy'
    BY <1>1, InstanceFacts DEF ReverseDestroy
<1>4. WorkOnLiveServices'
  <2> SUFFICES ASSUME NEW w \in Workers \ aborted, Working(w),
                      NEW s \in 1 .. Server - 1
               PROVE  life'[<<s, server[w]>>] = "up"
      BY DEF WorkOnLiveServices, Working
  <2>1. <<s, server[w]>> \in Instances
    <3>1. s \in 1 .. N
      BY InstanceFacts
    <3>2. server[w] \in Generations
      BY DEF TypeOK
    <3> QED BY <3>1, <3>2, InstanceFacts
  <2> QED BY <1>1, <2>1 DEF WorkOnLiveServices
<1> QED BY <1>2, <1>3, <1>4

\* A service goes down when all after it are down, the server when its work is done.
LEMMA DownStep ==
    ASSUME TypeOK, OrderInv, ReverseDestroy, WorkOnLiveServices,
           \A i \in Instances :
              \/ life'[i] = life[i]
              \/ /\ life[i] \in Standing /\ life'[i] \in Touched
                 /\ \A t \in i[1] + 1 .. N : life'[<<t, i[2]>>] = "down"
                 /\ life'[i] = "down" /\ i[1] = Server => Busy(i[2]) = {},
           Reached' = Reached, UNCHANGED workVars
    PROVE  OrderInv' /\ ReverseDestroy' /\ WorkOnLiveServices'
<1>1. \A i \in Instances :
         /\ life[i] = "down" => life'[i] = "down"
         /\ life'[i] \in Standing => life[i] \in Standing
    BY DEF Touched, Standing
<1>2. ASSUME NEW g \in Generations, NEW s \in 1 .. N, NEW t \in 1 .. N, s < t,
             life'[<<s, g>>] # life[<<s, g>>]
      PROVE  life'[<<t, g>>] = "down"
  <2>1. <<s, g>> \in Instances /\ t \in s + 1 .. N
    BY <1>2, InstanceFacts
  <2> QED BY <1>2, <2>1
<1>3. \A g \in Generations : life'[<<Server, g>>] = "down" => Busy(g) = {}
    BY InstanceFacts DEF OrderInv
<1>4. OrderInv'
  <2>1. ASSUME NEW g \in Generations, NEW s \in 1 .. N, NEW t \in 1 .. N, s < t,
               life'[<<t, g>>] \in Standing
        PROVE  life'[<<s, g>>] = "up"
    <3>1. life[<<t, g>>] \in Standing
      BY <1>1, <2>1, InstanceFacts
    <3>2. life[<<s, g>>] = "up" /\ life'[<<t, g>>] # "down"
      BY <2>1, <3>1 DEF OrderInv, Standing
    <3> QED BY <1>2, <2>1, <3>2
  <2>2. \A g \in Generations : life'[<<Server, g>>] = "down" => Busy(g)' = {}
    BY <1>3 DEF Busy, Working
  <2>3. \A w \in Workers : workPc'[w] # "idle" => <<Server, server'[w]>> \in Reached'
    BY DEF OrderInv
  <2> QED BY <2>1, <2>2, <2>3 DEF OrderInv
<1>5. ReverseDestroy'
  <2> SUFFICES ASSUME NEW g \in Generations, NEW s \in 1 .. N, NEW t \in 1 .. N,
                      s < t, life'[<<s, g>>] \in Touched
               PROVE  life'[<<t, g>>] = "down"
      BY DEF ReverseDestroy
  <2>1. CASE life'[<<s, g>>] = life[<<s, g>>]
    BY <1>1, <2>1, InstanceFacts DEF ReverseDestroy
  <2>2. CASE life'[<<s, g>>] # life[<<s, g>>]
    BY <1>2, <2>2
  <2> QED BY <2>1, <2>2
<1>6. WorkOnLiveServices'
  <2> SUFFICES ASSUME NEW w \in Workers \ aborted, Working(w),
                      NEW s \in 1 .. Server - 1
               PROVE  life'[<<s, server[w]>>] = "up"
      BY DEF WorkOnLiveServices, Working
  <2>1. /\ server[w] \in Generations /\ s \in 1 .. N /\ s < Server
        /\ w \in Busy(server[w])
    BY InstanceFacts DEF TypeOK, Busy
  <2>2. life[<<s, server[w]>>] = "up"
    BY DEF WorkOnLiveServices
  <2>3. life'[<<Server, server[w]>>] # "down"
    BY <1>3, <2>1
  <2> QED BY <1>2, <2>1, <2>2, <2>3, InstanceFacts
<1> QED BY <1>4, <1>5, <1>6

\* What a stop() finds in initialized came up.
LEMMA StandingReached ==
    ASSUME TypeOK, SerialInv, started \/ (\E c \in Stoppers : Stopping(c)),
           NEW i \in Reached, life[i] # "down"
    PROVE  life[i] \in Standing
<1>1. /\ i \in Instances /\ i[1] \in 1 .. N /\ i = <<i[1], i[2]>>
      /\ i[2] \in Nat /\ gen \in Nat
    BY InstanceFacts DEF TypeOK, Reached, ToSet
<1>2. i[2] <= gen /\ ~(i[2] < gen)
    BY DEF SerialInv, InitializedInv, StopInv
<1>3. started /\ \A c \in Stoppers : stopPc[c] # "container"
    BY <1>2 DEF SerialInv, InitializedInv
<1>4. i = <<i[1], gen>>
    BY <1>1, <1>2
<1>5. life[i] \in {"up"} \cup Touched
    BY <1>1, <1>3, <1>4 DEF SerialInv, StartedInv
<1> QED BY <1>5 DEF Standing, Touched

\* The actions that move neither a service nor the start or the end of a call.
LEMMA FrameStep ==
    ASSUME SerialInv, UNCHANGED <<started, serviceVars, at, stopList, server>>,
           \A c \in Starters :
              /\ Starting(c)' => ~started
              /\ startPc'[c] = "initing" => startPc[c] = "initing",
           \A c \in Stoppers :
              /\ stopPc'[c] \in {"destroying", "container"} => stopPc'[c] = stopPc[c]
              /\ stopPc[c] = "container" => stopPc'[c] = "container"
              /\ Stopping(c)' => Stopping(c) \/ started
              /\ started /\ ~Stopping(c)' =>
                    stopPc'[c] = stopPc[c] \/ stopPc'[c] = "failed",
           aborted \subseteq aborted',
           \A w \in Workers : /\ workPc'[w] # "idle" => workPc[w] # "idle"
                              /\ Working(w)' => Working(w)
    PROVE  SerialInv'
<1>1. StartInv'
    BY DEF SerialInv, StartInv
<1>2. InitializedInv'
  <2>1. \/ \E c \in Stoppers : stopPc'[c] = "container"
        \/ ~started' /\ \E c \in Stoppers : Stopping(c)'
        => \A i \in Reached' : i[2] < gen'
    <3>1. \A c \in Stoppers :
              /\ stopPc'[c] = "container" => stopPc[c] = "container"
              /\ ~started /\ Stopping(c)' => Stopping(c)
      OBVIOUS
    <3> QED BY <3>1 DEF SerialInv, InitializedInv, Reached
  <2>2. \A m : Closed(m)' <=> Closed(m)
    BY DEF Closed
  <2> QED BY <2>1, <2>2 DEF SerialInv, InitializedInv, Reached
<1>3. StopInv'
  <2>1. /\ Reached' = Reached /\ stopList' = stopList /\ life' = life
        /\ \A list : Remains(list, life)' <=> Remains(list, life)
    BY DEF Reached, Remains
  <2>2. \A c \in Stoppers : stopPc'[c] = "destroying" => stopPc[c] = "destroying"
    OBVIOUS
  <2> QED BY <2>1, <2>2 DEF SerialInv, StopInv
<1>4. OrderInv'
  <2>1. \A g : Busy(g)' \subseteq Busy(g)
    BY DEF Busy
  <2> QED BY <2>1 DEF SerialInv, OrderInv, Reached
<1>5. ReverseDestroy'
    BY DEF SerialInv, ReverseDestroy
<1>6. WorkOnLiveServices'
    BY DEF SerialInv, WorkOnLiveServices
<1>7. StartedInv'
    BY DEF SerialInv, StartedInv
<1>8. StartedTruthful'
  <2> SUFFICES ASSUME started, \A c \in Stoppers : ~Stopping(c)'
               PROVE  \/ \A s \in 1 .. N : life[<<s, gen>>] = "up"
                      \/ /\ \E c \in Stoppers : stopPc'[c] = "failed"
                         /\ \A s \in 1 .. N : life[<<s, gen>>] \in {"up"} \cup Touched
      BY DEF StartedTruthful
  <2>1. CASE \E c \in Stoppers : stopPc'[c] = "failed"
    <3>1. \A c \in Stoppers : stopPc'[c] # "container"
      BY DEF Stopping
    <3> QED BY <1>7, <2>1, <3>1 DEF StartedInv
  <2>2. CASE ~\E c \in Stoppers : stopPc'[c] = "failed"
    <3>1. \A c \in Stoppers : stopPc'[c] = stopPc[c]
      BY <2>2
    <3>2. \A c \in Stoppers : ~Stopping(c) /\ stopPc[c] # "failed"
      BY <2>2, <3>1 DEF Stopping
    <3> QED BY <3>2 DEF SerialInv, StartedTruthful
  <2> QED BY <2>1, <2>2
<1> QED BY <1>1, <1>2, <1>3, <1>4, <1>5, <1>6, <1>7, <1>8 DEF SerialInv

LEMMA RemainsDown ==
    ASSUME TypeOK, NEW list \in Seq(Instances), NEW l, NEW k, Remains(list, l),
           \A i \in Instances : l[i] = "down" => k[i] = "down"
    PROVE  Remains(list, k)
<1>1. Reached \subseteq Instances
    BY DEF TypeOK, Reached, ToSet
<1>2. ASSUME NEW m \in DOMAIN list, NEW t \in list[m][1] + 1 .. N
      PROVE  \/ k[<<t, list[m][2]>>] = "down"
             \/ \E n \in 1 .. m - 1 : list[n] = <<t, list[m][2]>>
  <2>1. list[m] \in Instances
    OBVIOUS
  <2>2. t \in 1 .. N /\ list[m][2] \in Generations
    BY <2>1, InstanceFacts
  <2>3. <<t, list[m][2]>> \in Instances
    BY <2>2, InstanceFacts
  <2> QED BY <2>3 DEF Remains
<1> QED BY <1>1, <1>2 DEF Remains

\* start() rejects, and services that are not up may have been constructed or have
\* failed.
LEMMA RejectStep ==
    ASSUME TypeOK, SerialInv, ~started, NEW c \in Starters,
           startPc' = [startPc EXCEPT ![c] = "failed"],
           \A i \in Instances :
              \/ life'[i] = life[i]
              \/ /\ life[i] \notin Touched /\ life'[i] \notin Touched
                 /\ life[i] = "up" => life'[i] = "up"
                 /\ i \in Reached \/ (i[2] = gen /\ life'[i] = "built"),
           \A g \in Generations : \A a, b \in 1 .. N :
              a < b /\ life'[<<b, g>>] = "up" => life'[<<a, g>>] = "up",
           UNCHANGED <<started, gen, initialized, at, stopVars, workVars>>
    PROVE  SerialInv'
<1>1. /\ life \in [Instances -> Lives] /\ gen \in Generations
      /\ startPc \in [Starters -> {"idle", "plugins", "initing", "done", "failed"}]
      /\ Reached \subseteq Instances
      /\ \A d \in Stoppers : stopList[d] \in Seq(Instances)
    BY DEF TypeOK, Reached, ToSet
<1>2. /\ Reached' = Reached /\ \A m : Closed(m)' <=> Closed(m)
      /\ \A list, k : Remains(list, k)' <=> Remains(list', k')
    BY DEF Reached, Closed, Remains
<1>3. \A i \in Instances : /\ life[i] = "up" => life'[i] = "up"
                           /\ life'[i] \in Touched <=> life[i] \in Touched
                           /\ life[i] = "down" => life'[i] = "down"
    BY DEF Touched
<1>4. OrderInv' /\ ReverseDestroy' /\ WorkOnLiveServices'
    BY <1>2, UpStep DEF SerialInv
<1>5. StartInv'
  <2>1. \A b \in Starters : startPc'[b] = "initing" => startPc[b] = "initing"
    BY <1>1
  <2>2. \A b \in Starters : startPc[b] = "initing" =>
            at[b][1] \in 1 .. N /\ gen \in Generations
    BY InstanceFacts DEF TypeOK
  <2>3. ASSUME NEW b \in Starters, startPc[b] = "initing",
               NEW t \in 1 .. at[b][1] - 1
        PROVE  life'[<<t, gen>>] = "up"
    <3>1. t \in 1 .. N /\ <<t, gen>> \in Instances
      BY <2>2, <2>3, InstanceFacts
    <3>2. life[<<t, gen>>] = "up"
      BY <2>3 DEF SerialInv, StartInv
    <3> QED BY <1>3, <3>1, <3>2
  <2> QED BY <2>1, <2>3 DEF SerialInv, StartInv
<1>6. InitializedInv'
  <2>1. \A i \in Instances : life'[i] \in {"none", "built"} \/ i \in Reached'
    BY <1>2 DEF SerialInv, InitializedInv
  <2>2. ASSUME NEW g \in Generations, NEW t \in 1 .. N, g > gen'
        PROVE  life'[<<t, g>>] = "none"
    <3>0. g > gen
      BY <2>2
    <3>1. <<t, g>> \in Instances /\ g # gen /\ ~(g <= gen)
      BY <1>1, <3>0, InstanceFacts
    <3>2. life[<<t, g>>] = "none" /\ <<t, g>> \notin Reached
      BY <3>0, <3>1 DEF SerialInv, InitializedInv
    <3> QED BY <3>1, <3>2
  <2>3. \A t \in 1 .. N : life'[<<t, gen>>] \notin Touched
    BY <1>1, <1>3, InstanceFacts DEF SerialInv, InitializedInv
  <2>4. \A m \in DOMAIN initialized' :
            started' \/ initialized'[m][2] < gen' => Closed(m)'
    BY <1>2 DEF SerialInv, InitializedInv
  <2>5. stopPc' = stopPc /\ started' = started /\ gen' = gen
    OBVIOUS
  <2> QED BY <1>2, <2>1, <2>2, <2>3, <2>4, <2>5 DEF SerialInv, InitializedInv, Stopping
<1>7. StopInv'
  <2>1. \A d \in Stoppers :
            Remains(stopList[d], life) => Remains(stopList[d], life')
    BY <1>1, <1>3, RemainsDown
  <2>2. \A i \in Reached : life[i] = "down" => life'[i] = "down"
    BY <1>1, <1>3
  <2>3. stopPc' = stopPc /\ stopList' = stopList
    OBVIOUS
  <2> QED BY <1>2, <2>1, <2>2, <2>3 DEF SerialInv, StopInv
<1>8. StartedInv' /\ StartedTruthful'
    BY DEF StartedInv, StartedTruthful
<1> QED BY <1>4, <1>5, <1>6, <1>7, <1>8 DEF SerialInv

\* start() goes on to a service.
LEMMA InitNextStep ==
    ASSUME TypeOK, SerialInv, Serialised', NEW c \in Starters, ~started,
           NEW s \in 1 .. N, NEW l \in [Instances -> Lives], Initialise(c, s, l),
           \A i \in Instances :
              \/ l[i] = life[i]
              \/ i \in Reached /\ l[i] = "up" /\ life[i] \notin Touched,
           \A g \in Generations : \A a, b \in 1 .. N :
              a < b /\ l[<<b, g>>] = "up" => l[<<a, g>>] = "up",
           Len(initialized) - (s - 1) >= 0,
           \A t \in 1 .. s - 1 :
              /\ l[<<t, gen>>] = "up"
              /\ initialized[(Len(initialized) - (s - 1)) + t] = <<t, gen>>,
           UNCHANGED <<gen, stopVars, workVars>>
    PROVE  SerialInv'
<1>1. /\ startPc \in [Starters -> {"idle", "plugins", "initing", "done", "failed"}]
      /\ at \in [Starters -> Instances] /\ initialized \in Seq(Instances)
      /\ gen \in Generations /\ life \in [Instances -> Lives]
      /\ <<s, gen>> \in Instances
    BY InstanceFacts DEF TypeOK
<1>2. /\ startPc' = [startPc EXCEPT ![c] = "initing"] /\ started' = started
      /\ at' = [at EXCEPT ![c] = <<s, gen>>]
      /\ initialized' = Append(initialized, <<s, gen>>)
      /\ \A i \in Instances : life'[i] =
            IF i = <<s, gen>> /\ l[i] # "up" THEN "initing"
            ELSE IF i[2] = gen /\ i[1] \in Needs[s] /\ l[i] = "none" THEN "built"
            ELSE l[i]
  <2> DEFINE k == Construct(Needs[s], l)
  <2>1. \A i \in Instances : k[i] =
           IF i[2] = gen /\ i[1] \in Needs[s] /\ l[i] = "none" THEN "built" ELSE l[i]
    BY DEF Construct
  <2>2. DOMAIN k = Instances
    BY DEF Construct
  <2>3. /\ startPc' = [startPc EXCEPT ![c] = "initing"] /\ started' = started
        /\ at' = [at EXCEPT ![c] = <<s, gen>>]
        /\ initialized' = Append(initialized, <<s, gen>>)
        /\ life' = [k EXCEPT ![<<s, gen>>] = IF @ = "up" THEN @ ELSE "initing"]
    BY DEF Initialise
  <2> HIDE DEF k
  <2>4. \A i \in Instances : life'[i] =
           IF i = <<s, gen>> THEN IF k[i] = "up" THEN k[i] ELSE "initing" ELSE k[i]
    BY <1>1, <2>2, <2>3
  <2> QED BY <2>1, <2>3, <2>4
<1>3. /\ Len(initialized) \in Nat /\ Len(initialized') = Len(initialized) + 1
      /\ DOMAIN initialized = 1 .. Len(initialized)
      /\ DOMAIN initialized' = 1 .. Len(initialized) + 1
      /\ \A n \in 1 .. Len(initialized) : initialized'[n] = initialized[n]
      /\ initialized'[Len(initialized) + 1] = <<s, gen>>
    BY <1>1, <1>2, AppendProperties
<1>4. Reached' = Reached \cup {<<s, gen>>}
    BY <1>1, <1>2, ToSetAppend DEF Reached
<1>5. /\ startPc'[c] = "initing"
      /\ \A d \in Stoppers : ~Stopping(d)'
      /\ \A b \in Starters : Starting(b)' => b = c
    BY <1>1, <1>2 DEF Serialised, Starting
<1>6. \A t \in 1 .. N : life[<<t, gen>>] \notin Touched
    BY DEF SerialInv, InitializedInv
<1>7. \A i \in Instances :
         \/ life'[i] = life[i]
         \/ /\ life[i] \notin Touched /\ life'[i] \notin Touched
            /\ life[i] = "up" => life'[i] = "up"
            /\ i \in Reached' \/ life'[i] = "built"
            /\ i[2] = gen \/ i \in Reached
  <2> SUFFICES ASSUME NEW i \in Instances, life'[i] # life[i]
               PROVE  /\ life[i] \notin Touched /\ life'[i] \notin Touched
                      /\ life[i] = "up" => life'[i] = "up"
                      /\ i \in Reached' \/ life'[i] = "built"
                      /\ i[2] = gen \/ i \in Reached
      OBVIOUS
  <2>1. CASE i = <<s, gen>> /\ l[i] # "up"
    <3>1. life'[i] = "initing" /\ i \in Reached' /\ i[2] = gen /\ l[i] = life[i]
      BY <1>2, <1>4, <2>1
    <3> QED BY <1>6, <2>1, <3>1 DEF Touched
  <2>2. CASE ~(i = <<s, gen>> /\ l[i] # "up") /\ life'[i] = "built" /\ life'[i] # l[i]
    <3>1. i[2] = gen /\ l[i] = "none"
      BY <1>2, <2>2
    <3> QED BY <2>2, <3>1 DEF Touched
  <2>3. CASE life'[i] = l[i]
    BY <1>4, <2>3 DEF Touched
  <2> QED BY <1>2, <2>1, <2>2, <2>3
<1>8. \A i \in Instances : life'[i] = "up" <=> l[i] = "up"
    BY <1>2
<1>9. OrderInv' /\ ReverseDestroy' /\ WorkOnLiveServices'
  <2>1. \A g \in Generations : \A a, b \in 1 .. N :
            a < b /\ life'[<<b, g>>] = "up" => life'[<<a, g>>] = "up"
    BY <1>8, InstanceFacts
  <2>2. Reached \subseteq Reached'
    BY <1>4
  <2> QED BY <1>7, <2>1, <2>2, UpStep DEF SerialInv
<1>10. StartInv'
  <2> DEFINE k == (Len(initialized) + 1) - s
  <2>1. /\ k = Len(initialized) - (s - 1) /\ k >= 0 /\ k \in Nat
        /\ k + s = Len(initialized) + 1
    BY <1>3
  <2>2. \A t \in 1 .. s : initialized'[k + t] = <<t, gen>>
    <3> SUFFICES ASSUME NEW t \in 1 .. s PROVE initialized'[k + t] = <<t, gen>>
        OBVIOUS
    <3>1. CASE t = s
      BY <1>3, <2>1, <3>1
    <3>2. CASE t # s
      <4>1. t \in 1 .. s - 1 /\ k + t \in 1 .. Len(initialized)
        BY <1>3, <2>1, <3>2
      <4>2. initialized[k + t] = <<t, gen>>
        BY <2>1, <4>1
      <4> QED BY <1>3, <4>1, <4>2
    <3> QED BY <3>1, <3>2
  <2>3. \A t \in 1 .. s - 1 : life'[<<t, gen>>] = "up"
    <3>1. \A t \in 1 .. s - 1 : t \in 1 .. N
      BY InstanceFacts
    <3> QED BY <1>1, <1>8, <3>1, InstanceFacts
  <2>4. ASSUME NEW b \in Starters, startPc'[b] = "initing"
        PROVE  at'[b][1] = s /\ at'[b][2] = gen
    BY <1>1, <1>2, <1>5, <2>4 DEF Starting
  <2> HIDE DEF k
  <2>5. Len(initialized') - s = k
    BY <1>3 DEF k
  <2>6. ASSUME NEW b \in Starters, startPc'[b] = "initing"
        PROVE  LET u == at'[b][1]
                   j == Len(initialized') - u
               IN  /\ at'[b][2] = gen' /\ j >= 0
                   /\ \A t \in 1 .. u : initialized'[j + t] = <<t, gen'>>
                   /\ \A t \in 1 .. u - 1 : life'[<<t, gen'>>] = "up"
    <3>1. at'[b][1] = s /\ at'[b][2] = gen /\ gen' = gen
      BY <2>4, <2>6
    <3> QED BY <2>1, <2>2, <2>3, <2>5, <3>1
  <2> QED BY <1>2, <2>6 DEF StartInv
<1>11. InitializedInv'
  <2>1. \A i \in Instances : life'[i] \in {"none", "built"} \/ i \in Reached'
    BY <1>4, <1>7 DEF SerialInv, InitializedInv
  <2>2. ASSUME NEW g \in Generations, NEW t \in 1 .. N, g > gen'
        PROVE  life'[<<t, g>>] = "none"
    <3>0. g > gen
      BY <2>2
    <3>1. <<t, g>> \in Instances /\ g # gen /\ ~(g <= gen)
      BY <1>1, <3>0, InstanceFacts
    <3>2. life[<<t, g>>] = "none" /\ <<t, g>> \notin Reached
      BY <3>0, <3>1 DEF SerialInv, InitializedInv
    <3> QED BY <1>7, <3>1, <3>2
  <2>3. \A i \in Reached' : i[2] <= gen'
    BY <1>1, <1>4, InstanceFacts DEF SerialInv, InitializedInv
  <2>4. ASSUME NEW m \in DOMAIN initialized', initialized'[m][2] < gen
        PROVE  Closed(m)'
    <3>1. m \in 1 .. Len(initialized) /\ initialized'[m] = initialized[m]
      BY <1>1, <1>3, <2>4, InstanceFacts
    <3>2. Closed(m)
      BY <1>3, <2>4, <3>1 DEF SerialInv, InitializedInv
    <3>3. \A n \in m + 1 .. Len(initialized) :
              /\ n \in m + 1 .. Len(initialized')
              /\ initialized'[n] = initialized[n]
      BY <1>3, <3>1
    <3> QED BY <3>1, <3>2, <3>3 DEF Closed
  <2>5. \A t \in 1 .. N : life'[<<t, gen>>] \notin Touched
    BY <1>1, <1>6, <1>7, InstanceFacts
  <2>6. \A d \in Stoppers : ~Stopping(d)' /\ stopPc'[d] # "container"
    BY <1>5 DEF Stopping
  <2> QED BY <1>2, <2>1, <2>2, <2>3, <2>4, <2>5, <2>6 DEF InitializedInv
<1>12. StopInv'
  <2>1. ASSUME NEW i \in Reached', i[2] < gen PROVE life'[i] = "down"
    <3>1. i \in Reached /\ i \in Instances
      <4>1. i # <<s, gen>>
        BY <1>1, <2>1, InstanceFacts
      <4>2. i \in Reached
        BY <1>4, <2>1, <4>1
      <4> QED BY <1>1, <4>2 DEF Reached, ToSet
    <3>2. life[i] = "down"
      BY <2>1, <3>1 DEF SerialInv, StopInv
    <3> QED BY <1>7, <3>1, <3>2 DEF Touched
  <2> QED BY <1>5, <2>1 DEF StopInv, Stopping
<1>13. StartedInv' /\ StartedTruthful'
    BY <1>2 DEF StartedInv, StartedTruthful
<1> QED BY <1>9, <1>10, <1>11, <1>12, <1>13 DEF SerialInv

\* A constructor throws, and start() rejects.
LEMMA ResolveThrowsStep ==
    ASSUME TypeOK, SerialInv, NEW c \in Starters, ~started,
           NEW s, NEW l \in [Instances -> Lives], ResolveThrows(c, s, l),
           \A i \in Instances :
              \/ l[i] = life[i]
              \/ i \in Reached /\ l[i] = "up" /\ life[i] \notin Touched,
           \A g \in Generations : \A a, b \in 1 .. N :
              a < b /\ l[<<b, g>>] = "up" => l[<<a, g>>] = "up",
           UNCHANGED <<gen, stopVars, workVars>>
    PROVE  SerialInv'
<1>1. PICK B : life' = Construct(B, l)
    BY DEF ResolveThrows
<1>2. /\ startPc' = [startPc EXCEPT ![c] = "failed"]
      /\ UNCHANGED <<started, gen, initialized, at, stopVars, workVars>>
    BY DEF ResolveThrows
<1>3. \A i \in Instances :
         life'[i] = l[i] \/ (life'[i] = "built" /\ l[i] = "none" /\ i[2] = gen)
  <2>1. \A i \in Instances : Construct(B, l)[i] =
           IF i[2] = gen /\ i[1] \in B /\ l[i] = "none" THEN "built" ELSE l[i]
    BY DEF Construct
  <2> QED BY <1>1, <2>1
<1>4. \A i \in Instances : life'[i] = "up" <=> l[i] = "up"
    BY <1>3
<1>5. \A g \in Generations : \A a, b \in 1 .. N :
         a < b /\ life'[<<b, g>>] = "up" => life'[<<a, g>>] = "up"
    BY <1>4, InstanceFacts
<1>6. \A i \in Instances :
         \/ life'[i] = life[i]
         \/ /\ life[i] \notin Touched /\ life'[i] \notin Touched
            /\ life[i] = "up" => life'[i] = "up"
            /\ i \in Reached \/ (i[2] = gen /\ life'[i] = "built")
    BY <1>3 DEF Touched
<1> QED BY <1>2, <1>5, <1>6, RejectStep

\* The service whose onInit start() awaits.
LEMMA AwaitedService ==
    ASSUME TypeOK, SerialInv, NEW c \in Starters, startPc[c] = "initing"
    PROVE  LET s == at[c][1]
               k == Len(initialized) - s
           IN  /\ s \in 1 .. N /\ at[c] = <<s, gen>> /\ at[c] \in Instances
               /\ at[c] \in Reached /\ life[at[c]] \notin Touched /\ ~started
               /\ k \in Nat /\ k + s = Len(initialized)
               /\ \A t \in 1 .. s : initialized[k + t] = <<t, gen>>
               /\ \A t \in 1 .. s - 1 : life[<<t, gen>>] = "up"
<1> DEFINE s == at[c][1]
           k == Len(initialized) - s
<1>1. /\ at[c] \in Instances /\ initialized \in Seq(Instances)
      /\ DOMAIN initialized = 1 .. Len(initialized) /\ Len(initialized) \in Nat
    BY DEF TypeOK
<1>2. s \in 1 .. N /\ at[c] = <<s, gen>> /\ k >= 0 /\ ~started
    BY <1>1, InstanceFacts DEF SerialInv, StartInv, Starting
<1>3. k \in Nat /\ k + s = Len(initialized) /\ s \in 1 .. s
    BY <1>1, <1>2, InstanceFacts
<1>4. /\ \A t \in 1 .. s : initialized[k + t] = <<t, gen>>
      /\ \A t \in 1 .. s - 1 : life[<<t, gen>>] = "up"
    BY DEF SerialInv, StartInv
<1>5. at[c] \in Reached
  <2>1. initialized[k + s] = at[c]
    BY <1>2, <1>3, <1>4
  <2>2. k + s \in DOMAIN initialized
    BY <1>1, <1>2, <1>3
  <2> QED BY <2>1, <2>2 DEF Reached, ToSet
<1>6. life[at[c]] \notin Touched
    BY <1>2 DEF SerialInv, InitializedInv
<1> QED BY <1>1, <1>2, <1>3, <1>4, <1>5, <1>6

\* The awaited onInit resolved: start() goes on to the next service, or is done.
LEMMA InitSettlesStep ==
    ASSUME TypeOK, SerialInv, Serialised, Serialised', NEW c \in Starters,
           InitSettles(c)
    PROVE  SerialInv'
<1> DEFINE s == at[c][1]
           k == Len(initialized) - s
           l == [life EXCEPT ![at[c]] = "up"]
<1>1. /\ startPc[c] = "initing" /\ InitFrom(c, s + 1, l)
      /\ UNCHANGED <<gen, stopVars, workVars>>
    BY DEF InitSettles
<1>2. /\ s \in 1 .. N /\ at[c] = <<s, gen>> /\ at[c] \in Instances
      /\ at[c] \in Reached /\ life[at[c]] \notin Touched /\ ~started
      /\ k \in Nat /\ k + s = Len(initialized)
      /\ \A t \in 1 .. s : initialized[k + t] = <<t, gen>>
      /\ \A t \in 1 .. s - 1 : life[<<t, gen>>] = "up"
    BY <1>1, AwaitedService
<1>3. /\ gen \in Generations /\ life \in [Instances -> Lives]
      /\ initialized \in Seq(Instances) /\ Len(initialized) \in Nat
      /\ DOMAIN initialized = 1 .. Len(initialized)
      /\ startPc \in [Starters -> {"idle", "plugins", "initing", "done", "failed"}]
    BY DEF TypeOK
<1>4. /\ l \in [Instances -> Lives] /\ l[at[c]] = "up"
      /\ \A i \in Instances : i # at[c] => l[i] = life[i]
    BY <1>2, <1>3 DEF Lives
<1>5. \A i \in Instances :
         \/ l[i] = life[i]
         \/ i \in Reached /\ l[i] = "up" /\ life[i] \notin Touched
    BY <1>2, <1>4
<1> HIDE DEF l
<1>6. \A t \in 1 .. s : t \in 1 .. N /\ l[<<t, gen>>] = "up"
  <2> SUFFICES ASSUME NEW t \in 1 .. s PROVE t \in 1 .. N /\ l[<<t, gen>>] = "up"
      OBVIOUS
  <2>1. t \in 1 .. N
    BY <1>2, InstanceFacts
  <2>2. CASE t = s
    BY <1>2, <1>4, <2>1, <2>2
  <2>3. CASE t # s
    <3>1. t \in 1 .. s - 1 /\ <<t, gen>> \in Instances
      BY <1>2, <1>3, <2>1, <2>3, InstanceFacts
    <3> QED BY <1>2, <1>4, <2>1, <3>1
  <2> QED BY <2>2, <2>3
<1>7. ASSUME NEW g \in Generations, NEW a \in 1 .. N, NEW b \in 1 .. N,
             a < b, l[<<b, g>>] = "up"
      PROVE  l[<<a, g>>] = "up"
  <2>1. <<a, g>> \in Instances /\ <<b, g>> \in Instances
    BY InstanceFacts
  <2>2. CASE <<b, g>> = at[c]
    BY <1>2, <1>6, <1>7, <2>2
  <2>3. CASE <<b, g>> # at[c]
    <3>1. life[<<b, g>>] = "up"
      BY <1>4, <1>7, <2>1, <2>3
    <3>2. life[<<a, g>>] = "up"
      BY <1>7, <3>1 DEF SerialInv, OrderInv, Standing
    <3> QED BY <1>4, <2>1, <3>2
  <2> QED BY <2>2, <2>3
<1>8. CASE Initialise(c, s + 1, l)
  <2>0. s + 1 \in 1 .. N
    BY <1>2, <1>8, InstanceFacts DEF Initialise
  <2>1. /\ Len(initialized) - ((s + 1) - 1) = k /\ k >= 0
        /\ \A t \in 1 .. (s + 1) - 1 : t \in 1 .. s
    BY <1>2, <1>3
  <2> HIDE DEF s, k
  <2>2. /\ Len(initialized) - ((s + 1) - 1) >= 0
        /\ \A t \in 1 .. (s + 1) - 1 :
              /\ l[<<t, gen>>] = "up"
              /\ initialized[(Len(initialized) - ((s + 1) - 1)) + t] = <<t, gen>>
    BY <1>2, <1>6, <2>1
  <2> QED BY <1>1, <1>2, <1>4, <1>5, <1>7, <1>8, <2>0, <2>2, InitNextStep
<1>10. CASE ResolveThrows(c, s + 1, l)
    BY <1>1, <1>2, <1>4, <1>5, <1>7, <1>10, ResolveThrowsStep
<1>9. CASE Finish(c, s + 1, l)
  <2>1. s = N /\ s + 1 > N
    BY <1>2, <1>9, InstanceFacts DEF Finish
  <2>2. /\ startPc' = [startPc EXCEPT ![c] = "done"] /\ started' = TRUE
        /\ life' = l /\ UNCHANGED <<at, initialized>>
    BY <1>9 DEF Finish
  <2>3. Reached' = Reached
    BY <2>2 DEF Reached
  <2>4. \A d \in Stoppers : stopPc'[d] = stopPc[d] /\ ~Stopping(d)
    BY <1>1 DEF Serialised, Starting
  <2>5. \A b \in Starters : startPc'[b] \notin {"plugins", "initing"}
    BY <1>1, <1>3, <2>2 DEF Serialised, Starting
  <2>6. StartInv'
    BY <2>5 DEF StartInv, Starting
  <2>7. ASSUME NEW m \in DOMAIN initialized PROVE Closed(m)'
    <3>1. CASE initialized[m][2] < gen
      <4>1. Closed(m)
        BY <3>1 DEF SerialInv, InitializedInv
      <4> QED BY <2>2, <4>1 DEF Closed
    <3>2. CASE ~(initialized[m][2] < gen)
      <4>1. initialized[m] \in Reached /\ initialized[m] \in Instances
        BY <1>3 DEF Reached, ToSet
      <4>2. initialized[m][2] = gen
        <5>1. initialized[m][2] <= gen
          BY <4>1 DEF SerialInv, InitializedInv
        <5>2. initialized[m][2] \in Nat /\ gen \in Nat
          BY <1>3, <4>1, InstanceFacts
        <5> QED BY <3>2, <5>1, <5>2
      <4>3. ASSUME NEW t \in initialized[m][1] + 1 .. N
            PROVE  \E n \in m + 1 .. Len(initialized) : initialized[n] = <<t, gen>>
        <5>1. /\ initialized[m][1] \in 1 .. N /\ t \in 1 .. N /\ t > initialized[m][1]
              /\ t \in 1 .. s
          BY <2>1, <4>1, <4>3, InstanceFacts
        <5>2. initialized[k + t] = <<t, gen>>
          BY <1>2, <5>1
        <5>3. k + t \in 1 .. Len(initialized)
          BY <1>2, <1>3, <2>1, <5>1
        <5>4. k + t > m
          <6>1. CASE m <= k
            BY <1>2, <1>3, <5>1, <6>1
          <6>2. CASE ~(m <= k)
            <7>1. m - k \in 1 .. s /\ k + (m - k) = m
              BY <1>2, <1>3, <6>2
            <7>2. initialized[m] = <<m - k, gen>>
              BY <1>2, <7>1
            <7>3. t > m - k
              BY <5>1, <7>2
            <7> QED BY <1>2, <1>3, <5>1, <7>1, <7>3
          <6> QED BY <6>1, <6>2
        <5>5. k + t \in m + 1 .. Len(initialized)
          <6> DEFINE n == k + t
          <6>1. n \in 1 .. Len(initialized) /\ n > m /\ m \in 1 .. Len(initialized)
            BY <1>3, <5>3, <5>4
          <6> HIDE DEF n
          <6>2. n \in m + 1 .. Len(initialized)
            BY <1>3, <6>1
          <6> QED BY <6>2 DEF n
        <5> QED BY <5>2, <5>5
      <4> QED BY <2>2, <4>2, <4>3 DEF Closed
    <3> QED BY <3>1, <3>2
  <2>8. InitializedInv'
    <3>1. \A i \in Instances : life'[i] \in {"none", "built"} \/ i \in Reached'
      BY <1>5, <2>2, <2>3 DEF SerialInv, InitializedInv
    <3>2. \A g \in Generations, t \in 1 .. N : g > gen' => life'[<<t, g>>] = "none"
      <4> SUFFICES ASSUME NEW g \in Generations, NEW t \in 1 .. N, g > gen
                   PROVE  l[<<t, g>>] = "none"
          BY <1>1, <2>2
      <4>1. <<t, g>> \in Instances /\ g # gen /\ g \in Nat /\ gen \in Nat
        BY <1>3, InstanceFacts
      <4>2. life[<<t, g>>] = "none" /\ <<t, g>> # at[c]
        BY <1>2, <4>1 DEF SerialInv, InitializedInv
      <4> QED BY <1>4, <4>1, <4>2
    <3>3. \A i \in Reached' : i[2] <= gen'
      BY <1>1, <2>3 DEF SerialInv, InitializedInv
    <3>4. \A m \in DOMAIN initialized' : Closed(m)'
      BY <2>2, <2>7
    <3> QED BY <2>2, <2>4, <3>1, <3>2, <3>3, <3>4 DEF InitializedInv, Stopping
  <2>9. StopInv'
    <3>1. ASSUME NEW i \in Reached, i[2] < gen PROVE life'[i] = "down"
      <4>1. life[i] = "down" /\ i \in Instances
        BY <1>3, <3>1 DEF SerialInv, StopInv, Reached, ToSet
      <4> QED BY <1>5, <2>2, <4>1 DEF Touched
    <3>2. gen' = gen
      BY <1>1
    <3> QED BY <2>3, <2>4, <3>1, <3>2 DEF StopInv, Stopping
  <2>10. OrderInv' /\ ReverseDestroy' /\ WorkOnLiveServices'
    <3>1. \A i \in Instances :
             \/ life'[i] = life[i]
             \/ /\ life[i] \notin Touched /\ life'[i] \notin Touched
                /\ life[i] = "up" => life'[i] = "up"
      BY <1>5, <2>2 DEF Touched
    <3> QED BY <1>1, <1>7, <2>2, <2>3, <3>1, UpStep DEF SerialInv
  <2>11. StartedInv' /\ StartedTruthful'
    BY <1>1, <1>6, <2>1, <2>2 DEF StartedInv, StartedTruthful
  <2> QED BY <2>6, <2>8, <2>9, <2>10, <2>11 DEF SerialInv
<1> QED BY <1>1, <1>8, <1>9, <1>10 DEF InitFrom

\* The awaited onInit rejected, and start() with it.
LEMMA InitFailsStep ==
    ASSUME TypeOK, SerialInv, NEW c \in Starters, InitFails(c)
    PROVE  SerialInv'
<1>1. /\ startPc[c] = "initing" /\ startPc' = [startPc EXCEPT ![c] = "failed"]
      /\ life' = [life EXCEPT ![at[c]] = IF @ = "initing" THEN "initFailed" ELSE @]
      /\ UNCHANGED <<started, gen, initialized, at, stopVars, workVars>>
    BY DEF InitFails
<1>2. at[c] \in Instances /\ at[c] \in Reached /\ ~started
    BY <1>1, AwaitedService
<1>3. life \in [Instances -> Lives]
    BY DEF TypeOK
<1>4. \A i \in Instances :
         \/ life'[i] = life[i]
         \/ i \in Reached /\ life[i] = "initing" /\ life'[i] = "initFailed"
    BY <1>1, <1>2, <1>3
<1>5. \A i \in Instances :
         \/ life'[i] = life[i]
         \/ /\ life[i] \notin Touched /\ life'[i] \notin Touched
            /\ life[i] = "up" => life'[i] = "up"
            /\ i \in Reached \/ (i[2] = gen /\ life'[i] = "built")
    BY <1>4 DEF Touched
<1>6. \A g \in Generations : \A a, b \in 1 .. N :
          a < b /\ life'[<<b, g>>] = "up" => life'[<<a, g>>] = "up"
  <2>1. \A i \in Instances : life'[i] = "up" <=> life[i] = "up"
    BY <1>4
  <2> QED BY <2>1, InstanceFacts DEF SerialInv, OrderInv, Standing
<1> QED BY <1>1, <1>2, <1>5, <1>6, RejectStep

\* After a complete start, or when all was reached in lives of the container that
\* ended, the reverse of initialized has dependents first.
LEMMA ReverseRemains ==
    ASSUME TypeOK, SerialInv, started \/ \A i \in Reached : i[2] < gen
    PROVE  Remains(Reverse(initialized), life)
<1> DEFINE r == Reverse(initialized)
           n == Len(initialized)
<1>1. /\ initialized \in Seq(Instances) /\ n \in Nat
      /\ DOMAIN initialized = 1 .. n
    BY DEF TypeOK
<1>2. /\ r \in Seq(Instances) /\ Len(r) = n
      /\ \A i \in 1 .. n : r[i] = initialized[(n - i) + 1]
      /\ ToSet(r) = Reached
    BY <1>1, ReverseProperties DEF Reached
<1>3. DOMAIN r = 1 .. n
    BY <1>2
<1> HIDE DEF r, n
<1>4. ASSUME NEW m \in DOMAIN r, NEW t \in r[m][1] + 1 .. N
      PROVE  \E j \in 1 .. m - 1 : r[j] = <<t, r[m][2]>>
  <2> DEFINE p == (n - m) + 1
  <2>1. p \in 1 .. n /\ m \in 1 .. n /\ r[m] = initialized[p]
    BY <1>1, <1>2, <1>3
  <2> HIDE DEF p
  <2>2. initialized[p] \in Reached
    BY <1>1, <2>1 DEF Reached, ToSet
  <2>3. Closed(p)
    BY <1>1, <2>1, <2>2 DEF SerialInv, InitializedInv
  <2>4. PICK q \in p + 1 .. n : initialized[q] = <<t, r[m][2]>>
    BY <1>4, <2>1, <2>3 DEF Closed, n
  <2> DEFINE j == (n - q) + 1
  <2>5. j \in 1 .. n /\ j \in 1 .. m - 1 /\ (n - j) + 1 = q
    BY <1>1, <2>1, <2>4 DEF p
  <2>6. r[j] = initialized[q]
    BY <1>2, <2>5
  <2> QED BY <2>4, <2>5, <2>6
<1> QED BY <1>2, <1>4 DEF Remains, r

\* The instance a stop() destroys: those after it, in its life, are down.
LEMMA HeadRemains ==
    ASSUME TypeOK, NEW list \in Seq(Instances), list # <<>>, NEW l, Remains(list, l)
    PROVE  /\ Head(list) \in Reached
           /\ \A t \in Head(list)[1] + 1 .. N : l[<<t, Head(list)[2]>>] = "down"
<1>1. 1 \in DOMAIN list /\ list[1] = Head(list) /\ Head(list) \in ToSet(list)
    BY HeadTail
<1>2. \A t \in list[1][1] + 1 .. N : l[<<t, list[1][2]>>] = "down"
    BY <1>1 DEF Remains
<1> QED BY <1>1, <1>2 DEF Remains

\* stop() goes on to an instance, or to container.dispose().
LEMMA DestroyFromStep ==
    ASSUME TypeOK, TypeOK', SerialInv, NEW c \in Stoppers, NEW list \in Seq(Instances),
           NEW l \in [Instances -> Lives], DestroyFrom(c, list, l), Remains(list, l),
           \A i \in Instances :
              \/ l[i] = life[i]
              \/ /\ l[i] = "down" /\ life[i] # "down" /\ i \in Reached
                 /\ \A t \in i[1] + 1 .. N : life[<<t, i[2]>>] = "down"
                 /\ i[1] = Server => Busy(i[2]) = {},
           started \/ (\E d \in Stoppers : Stopping(d)),
           \A b \in Starters : ~Starting(b), stopPc[c] # "container",
           UNCHANGED <<started, initialized, startVars, workVars>>
    PROVE  SerialInv'
<1>1. /\ gen \in Nat /\ gen' \in Nat /\ life \in [Instances -> Lives]
      /\ stopPc \in [Stoppers -> {"idle", "scopes", "destroying", "container",
                                  "done", "failed"}]
      /\ stopList \in [Stoppers -> Seq(Instances)]
      /\ initialized \in Seq(Instances)
    BY InstanceFacts DEF TypeOK
<1>2. Reached' = Reached /\ Reached \subseteq Instances
    BY <1>1 DEF Reached, ToSet
<1>3. /\ stopList' = [stopList EXCEPT ![c] = list]
      /\ \/ /\ list = <<>> /\ stopPc' = [stopPc EXCEPT ![c] = "container"]
            /\ gen' = gen + 1 /\ life' = l
         \/ /\ list # <<>> /\ stopPc' = [stopPc EXCEPT ![c] = "destroying"]
            /\ gen' = gen
            /\ life' = [l EXCEPT ![Head(list)] =
                           IF @ = "down" THEN @ ELSE "destroying"]
    BY DEF DestroyFrom
<1>4. list # <<>> => /\ Head(list) \in Instances /\ Head(list) \in Reached
                     /\ \A t \in Head(list)[1] + 1 .. N :
                           l[<<t, Head(list)[2]>>] = "down"
    BY <1>2, HeadRemains
<1>5. \A i \in Instances :
         /\ life[i] = "down" => l[i] = "down"
         /\ l[i] = "down" => life'[i] = "down"
         /\ life'[i] = "down" => l[i] = "down"
    BY <1>3, <1>4
<1>6. ASSUME NEW i \in Instances, life'[i] # life[i]
      PROVE  /\ life[i] \in Standing /\ life'[i] \in Touched /\ i \in Reached
             /\ \A t \in i[1] + 1 .. N : life'[<<t, i[2]>>] = "down"
             /\ life'[i] = "down" /\ i[1] = Server => Busy(i[2]) = {}
  <2>1. \A t \in i[1] + 1 .. N : <<t, i[2]>> \in Instances
    <3>1. \A t \in i[1] + 1 .. N : t \in 1 .. N
      BY InstanceFacts
    <3> QED BY <3>1, InstanceFacts
  <2>2. CASE l[i] # life[i]
    <3>1. life[i] \in Standing
      BY <2>2, StandingReached
    <3> QED BY <1>5, <2>1, <2>2, <3>1 DEF Touched
  <2>3. CASE l[i] = life[i]
    <3>1. list # <<>> /\ i = Head(list)
      BY <1>3, <1>6, <2>3
    <3>2. life'[i] = "destroying" /\ life[i] # "down"
      BY <1>3, <1>4, <1>6, <2>3, <3>1
    <3>3. life[i] \in Standing
      BY <1>4, <3>1, <3>2, StandingReached
    <3> QED BY <1>4, <1>5, <2>1, <3>1, <3>2, <3>3 DEF Touched
  <2> QED BY <2>2, <2>3
<1>7. OrderInv' /\ ReverseDestroy' /\ WorkOnLiveServices'
    BY <1>2, <1>6, DownStep DEF SerialInv
<1>8. /\ stopPc'[c] \in {"container", "destroying"}
      /\ \A d \in Stoppers : d # c => /\ stopPc'[d] = stopPc[d]
                                      /\ stopList'[d] = stopList[d]
    BY <1>1, <1>3
<1>9. StartInv'
    BY DEF StartInv, Starting
<1>10. StopInv'
  <2> SUFFICES ASSUME NEW d \in Stoppers, stopPc'[d] = "destroying"
               PROVE  Remains(stopList'[d], life')
    <3>1. \A q, k : Remains(q, k)' <=> Remains(q', k')
      BY <1>2 DEF Remains
    <3>2. ASSUME NEW i \in Reached, i[2] < gen' PROVE life'[i] = "down"
      <4>1. CASE gen' = gen
        <5>1. life[i] = "down"
          BY <3>2, <4>1 DEF SerialInv, StopInv
        <5> QED BY <1>2, <1>5, <5>1
      <4>2. CASE gen' # gen
        <5>1. list = <<>>
          BY <1>3, <4>2
        <5>2. ToSet(<<>>) = {}
          BY DEF ToSet
        <5> QED BY <1>2, <1>5, <5>1, <5>2 DEF Remains
      <4> QED BY <4>1, <4>2
    <3> QED BY <1>2, <3>1, <3>2 DEF StopInv
  <2>1. CASE d = c
    <3>1. Remains(list, life') /\ stopList'[c] = list
      BY <1>1, <1>3, <1>5, RemainsDown
    <3> QED BY <2>1, <3>1
  <2>2. CASE d # c
    <3>1. stopPc'[d] = stopPc[d] /\ stopList'[d] = stopList[d]
      BY <1>8, <2>2
    <3>2. Remains(stopList[d], life)
      BY <3>1 DEF SerialInv, StopInv
    <3>3. \A i \in Instances : life[i] = "down" => life'[i] = "down"
      BY <1>5
    <3>4. stopList[d] \in Seq(Instances)
      BY <1>1
    <3> QED BY <3>1, <3>2, <3>3, <3>4, RemainsDown
  <2> QED BY <2>1, <2>2
<1>11. InitializedInv'
  <2>1. \A i \in Instances : life'[i] \in {"none", "built"} \/ i \in Reached'
    BY <1>2, <1>6 DEF SerialInv, InitializedInv
  <2>2. \A g \in Generations, s \in 1 .. N : g > gen' => life'[<<s, g>>] = "none"
    <3> SUFFICES ASSUME NEW g \in Generations, NEW s \in 1 .. N, g > gen'
                 PROVE  life'[<<s, g>>] = "none"
        OBVIOUS
    <3>1. <<s, g>> \in Instances /\ g > gen /\ ~(g <= gen)
      BY <1>1, <1>3, InstanceFacts
    <3>2. <<s, g>> \notin Reached /\ life[<<s, g>>] = "none"
      BY <3>1 DEF SerialInv, InitializedInv
    <3> QED BY <1>6, <3>1, <3>2
  <2>3. \A i \in Reached : i[2] \in Nat /\ i[2] <= gen
    BY <1>2, InstanceFacts DEF SerialInv, InitializedInv
  <2>4. \A i \in Reached : i[2] <= gen'
    BY <1>1, <1>3, <2>3
  <2>5. \A m \in DOMAIN initialized :
            started \/ initialized[m][2] < gen' => Closed(m)
    <3>1. \A m \in DOMAIN initialized : initialized[m] \in Reached
      BY DEF Reached, ToSet
    <3> QED BY <3>1 DEF SerialInv, InitializedInv
  <2>6. \A m \in DOMAIN initialized : Closed(m)' <=> Closed(m)
    BY DEF Closed
  <2>7. ASSUME ~started, NEW s \in 1 .. N
        PROVE  life'[<<s, gen'>>] \notin Touched
    <3>0. \A i \in Reached : i[2] < gen
      BY <2>7 DEF SerialInv, InitializedInv
    <3>1. <<s, gen'>> \in Instances /\ <<s, gen'>> \notin Reached
      BY <1>1, <1>3, <2>3, <3>0, InstanceFacts DEF TypeOK
    <3>2. life'[<<s, gen'>>] \in {"none", "built"}
      BY <1>2, <2>1, <3>1
    <3> QED BY <3>2 DEF Touched
  <2>8. ASSUME \/ \E d \in Stoppers : stopPc'[d] = "container"
               \/ ~started /\ \E d \in Stoppers : Stopping(d)',
               NEW i \in Reached
        PROVE  i[2] < gen'
    <3>1. CASE gen' = gen + 1
      BY <1>1, <2>3, <3>1
    <3>2. CASE gen' # gen + 1
      <4>1. gen' = gen /\ stopPc'[c] # "container"
        BY <1>1, <1>3, <3>2
      <4>2. CASE ~started
        BY <2>8, <4>1, <4>2 DEF SerialInv, InitializedInv
      <4>3. CASE started
        <5>1. \E d \in Stoppers : stopPc[d] = "container"
          BY <1>8, <2>8, <4>1, <4>3
        <5> QED BY <2>8, <4>1, <5>1 DEF SerialInv, InitializedInv
      <4> QED BY <4>2, <4>3
    <3> QED BY <3>1, <3>2
  <2> QED BY <1>2, <2>1, <2>2, <2>4, <2>5, <2>6, <2>7, <2>8 DEF InitializedInv
<1>12. StartedInv'
  <2>1. ASSUME started, \A d \in Stoppers : stopPc'[d] # "container", NEW s \in 1 .. N
        PROVE  life'[<<s, gen'>>] \in {"up"} \cup Touched
    <3>1. stopPc'[c] = "destroying" /\ gen' = gen
      BY <1>1, <1>3, <1>8, <2>1
    <3>2. \A d \in Stoppers : stopPc[d] # "container"
      BY <1>8, <2>1
    <3>3. life[<<s, gen>>] \in {"up"} \cup Touched /\ <<s, gen>> \in Instances
      BY <2>1, <3>2, InstanceFacts DEF SerialInv, StartedInv, TypeOK
    <3> QED BY <1>6, <3>1, <3>3
  <2>2. started' => started
    OBVIOUS
  <2>3. started' /\ (\A d \in Stoppers : stopPc'[d] # "container") =>
            \A s \in 1 .. N : life'[<<s, gen'>>] \in {"up"} \cup Touched
    BY <2>1, <2>2
  <2> QED BY <2>3 DEF StartedInv, Touched
<1>13. StartedTruthful'
    BY <1>8 DEF StartedTruthful, Stopping
<1> QED BY <1>7, <1>9, <1>10, <1>11, <1>12, <1>13 DEF SerialInv

\* The awaited onDestroy resolved.
LEMMA DestroySettlesStep ==
    ASSUME TypeOK, TypeOK', CallsInv, SerialInv, Serialised, NEW c \in Stoppers,
           DestroySettles(c)
    PROVE  SerialInv'
<1> DEFINE list == stopList[c]
           h == Head(list)
           l == [life EXCEPT ![h] = "down"]
<1>1. /\ stopPc[c] = "destroying" /\ DestroyFrom(c, Tail(list), l)
      /\ h[1] = Server => Busy(h[2]) = {}
      /\ UNCHANGED <<started, initialized, startVars, workVars>>
    BY DEF DestroySettles
<1>2. /\ list \in Seq(Instances) /\ list # <<>> /\ Remains(list, life)
      /\ life \in [Instances -> Lives]
    BY <1>1 DEF TypeOK, CallsInv, SerialInv, StopInv
<1>3. /\ h \in Reached /\ \A t \in h[1] + 1 .. N : life[<<t, h[2]>>] = "down"
    BY <1>2, HeadRemains
<1>4. /\ h \in Instances /\ Tail(list) \in Seq(Instances) /\ list[1] = h
      /\ Len(list) \in Nat \ {0} /\ Len(Tail(list)) = Len(list) - 1
      /\ \A i \in 1 .. Len(list) - 1 : Tail(list)[i] = list[i + 1]
      /\ ToSet(list) = ToSet(Tail(list)) \cup {h}
    BY <1>2, HeadTail
<1>5. /\ l \in [Instances -> Lives] /\ l[h] = "down"
      /\ \A i \in Instances : i # h => l[i] = life[i]
    BY <1>2, <1>4 DEF Lives
<1> HIDE DEF l
<1>6. Remains(list, l)
    BY <1>2, <1>5, RemainsDown
<1> HIDE DEF list, h
<1>7. Remains(Tail(list), l)
  <2>1. ToSet(Tail(list)) \subseteq Reached
    BY <1>4, <1>6 DEF Remains
  <2>2. \A i \in Reached : l[i] = "down" \/ i \in ToSet(Tail(list))
    BY <1>4, <1>5, <1>6 DEF Remains
  <2>3. ASSUME NEW m \in DOMAIN Tail(list), NEW t \in Tail(list)[m][1] + 1 .. N
        PROVE  \/ l[<<t, Tail(list)[m][2]>>] = "down"
               \/ \E n \in 1 .. m - 1 : Tail(list)[n] = <<t, Tail(list)[m][2]>>
    <3>1. m \in 1 .. Len(list) - 1
      BY <1>4
    <3>2. /\ m + 1 \in DOMAIN list /\ Tail(list)[m] = list[m + 1]
          /\ (m + 1) - 1 = m /\ m \in Nat
      BY <1>2, <1>4, <3>1
    <3>3. \/ l[<<t, Tail(list)[m][2]>>] = "down"
          \/ \E n \in 1 .. m : list[n] = <<t, Tail(list)[m][2]>>
      BY <1>6, <2>3, <3>2 DEF Remains
    <3>4. CASE \E n \in 1 .. m : list[n] = <<t, Tail(list)[m][2]>>
      <4>1. PICK n \in 1 .. m : list[n] = <<t, Tail(list)[m][2]>>
        BY <3>4
      <4>2. CASE n = 1
        BY <1>4, <1>5, <4>1, <4>2
      <4>3. CASE n # 1
        <5>1. /\ n - 1 \in 1 .. m - 1 /\ n - 1 \in 1 .. Len(list) - 1
              /\ (n - 1) + 1 = n
          BY <1>4, <3>1, <4>1, <4>3
        <5>2. Tail(list)[n - 1] = list[n]
          BY <1>4, <5>1
        <5> QED BY <4>1, <5>1, <5>2
      <4> QED BY <4>2, <4>3
    <3> QED BY <3>3, <3>4
  <2> QED BY <2>1, <2>2, <2>3 DEF Remains
<1>8. \A i \in Instances :
         \/ l[i] = life[i]
         \/ /\ l[i] = "down" /\ life[i] # "down" /\ i \in Reached
            /\ \A t \in i[1] + 1 .. N : life[<<t, i[2]>>] = "down"
            /\ i[1] = Server => Busy(i[2]) = {}
    BY <1>1, <1>3, <1>5 DEF h, list
<1>9. started \/ (\E d \in Stoppers : Stopping(d))
    BY <1>1 DEF Stopping
<1>10. \A b \in Starters : ~Starting(b)
    BY <1>1 DEF Serialised, Stopping
<1> QED BY <1>1, <1>4, <1>5, <1>7, <1>8, <1>9, <1>10, DestroyFromStep DEF list

\* It rejected: the instance is not down, and those before it are left alone.
LEMMA DestroyFailsStep ==
    ASSUME TypeOK, CallsInv, SerialInv, Serialised, NEW c \in Stoppers, DestroyFails(c)
    PROVE  SerialInv'
<1> DEFINE h == Head(stopList[c])
<1>1. /\ stopPc[c] = "destroying" /\ stopPc' = [stopPc EXCEPT ![c] = "failed"]
      /\ life' = [life EXCEPT ![h] = IF @ = "down" THEN @ ELSE "destroyFailed"]
      /\ UNCHANGED <<started, gen, initialized, startVars, stopList, workVars>>
    BY DEF DestroyFails
<1>2. /\ stopList[c] \in Seq(Instances) /\ stopList[c] # <<>>
      /\ Remains(stopList[c], life)
      /\ life \in [Instances -> Lives] /\ initialized \in Seq(Instances)
      /\ stopPc \in [Stoppers -> {"idle", "scopes", "destroying", "container",
                                  "done", "failed"}]
      /\ \A d \in Stoppers : stopList[d] \in Seq(Instances)
    BY <1>1 DEF TypeOK, CallsInv, SerialInv, StopInv
<1>3. /\ Reached' = Reached /\ Reached \subseteq Instances
      /\ \A m : Closed(m)' <=> Closed(m)
      /\ \A s, k : Remains(s, k)' <=> Remains(s', k')
    BY <1>1, <1>2 DEF Reached, ToSet, Closed, Remains
<1>4. /\ h \in Reached /\ \A t \in h[1] + 1 .. N : life[<<t, h[2]>>] = "down"
    BY <1>2, HeadRemains
<1>5. \A i \in Instances : life[i] = "down" => life'[i] = "down"
    BY <1>1, <1>2, <1>3, <1>4
<1> HIDE DEF h
<1>6. ASSUME NEW i \in Instances, life'[i] # life[i]
      PROVE  /\ i = h /\ life[i] \in Standing /\ life'[i] = "destroyFailed"
             /\ \A t \in i[1] + 1 .. N : life'[<<t, i[2]>>] = "down"
  <2>1. i = h /\ life[i] # "down" /\ life'[i] = "destroyFailed"
    BY <1>1, <1>2, <1>6
  <2>2. \A t \in i[1] + 1 .. N : <<t, i[2]>> \in Instances
    <3>1. \A t \in i[1] + 1 .. N : t \in 1 .. N
      BY InstanceFacts
    <3> QED BY <3>1, InstanceFacts
  <2>3. life[i] \in Standing
    BY <1>1, <1>4, <2>1, StandingReached DEF Stopping
  <2> QED BY <1>4, <1>5, <2>1, <2>2, <2>3
<1>7. OrderInv' /\ ReverseDestroy' /\ WorkOnLiveServices'
  <2>1. \A i \in Instances :
           \/ life'[i] = life[i]
           \/ /\ life[i] \in Standing /\ life'[i] \in Touched
              /\ \A t \in i[1] + 1 .. N : life'[<<t, i[2]>>] = "down"
              /\ life'[i] = "down" /\ i[1] = Server => Busy(i[2]) = {}
    BY <1>6 DEF Touched
  <2> QED BY <1>1, <1>3, <2>1, DownStep DEF SerialInv
<1>8. \A i \in Reached : started \/ i[2] < gen
    BY <1>1 DEF SerialInv, InitializedInv, Stopping
<1>9. \A d \in Stoppers : /\ stopPc'[d] = "destroying" => stopPc[d] = "destroying"
                          /\ stopPc'[d] = "container" => stopPc[d] = "container"
                          /\ Stopping(d)' => Stopping(d)
    BY <1>1, <1>2 DEF Stopping
<1>10. StartInv'
  <2>1. \A b \in Starters : ~Starting(b)'
    BY <1>1 DEF Serialised, Starting, Stopping
  <2> QED BY <2>1 DEF StartInv, Starting
<1>11. InitializedInv'
  <2>1. \A i \in Instances : life'[i] \in {"none", "built"} \/ i \in Reached'
    BY <1>3, <1>4, <1>6 DEF SerialInv, InitializedInv
  <2>2. \A g \in Generations, s \in 1 .. N : g > gen => life'[<<s, g>>] = "none"
    <3> SUFFICES ASSUME NEW g \in Generations, NEW s \in 1 .. N, g > gen
                 PROVE  life'[<<s, g>>] = "none"
        OBVIOUS
    <3>1. <<s, g>> \in Instances /\ gen \in Nat /\ ~(g <= gen)
      BY InstanceFacts DEF TypeOK
    <3>2. <<s, g>> \notin Reached /\ life[<<s, g>>] = "none"
      BY <3>1 DEF SerialInv, InitializedInv
    <3> QED BY <1>4, <1>6, <3>1, <3>2
  <2>3. ASSUME ~started, NEW s \in 1 .. N PROVE life'[<<s, gen>>] \notin Touched
    <3>1. /\ <<s, gen>> \in Instances /\ <<s, gen>> \notin Reached /\ gen \in Nat
      BY <1>8, <2>3, InstanceFacts DEF TypeOK
    <3>2. life'[<<s, gen>>] = life[<<s, gen>>]
      BY <1>4, <1>6, <3>1
    <3> QED BY <2>3, <3>2 DEF SerialInv, InitializedInv
  <2>4. \A m \in DOMAIN initialized' :
            started' \/ initialized'[m][2] < gen' => Closed(m)'
    BY <1>1, <1>3 DEF SerialInv, InitializedInv
  <2>5. \/ \E d \in Stoppers : stopPc'[d] = "container"
        \/ ~started' /\ \E d \in Stoppers : Stopping(d)'
        => \A i \in Reached' : i[2] < gen'
    BY <1>1, <1>3, <1>9 DEF SerialInv, InitializedInv
  <2>6. \A i \in Reached' : i[2] <= gen'
    BY <1>1, <1>3 DEF SerialInv, InitializedInv
  <2> QED BY <1>1, <2>1, <2>2, <2>3, <2>4, <2>5, <2>6 DEF InitializedInv
<1>12. StopInv'
  <2> SUFFICES ASSUME NEW d \in Stoppers, stopPc'[d] = "destroying"
               PROVE  Remains(stopList[d], life')
    <3>1. \A i \in Reached : i[2] < gen => life'[i] = "down"
      BY <1>3, <1>5 DEF SerialInv, StopInv
    <3> QED BY <1>1, <1>3, <3>1 DEF StopInv
  <2>1. Remains(stopList[d], life) /\ stopList[d] \in Seq(Instances)
    BY <1>2, <1>9 DEF SerialInv, StopInv
  <2> QED BY <1>5, <2>1, RemainsDown
<1>13. StartedInv'
  <2> SUFFICES ASSUME started, \A d \in Stoppers : stopPc'[d] # "container",
                      NEW s \in 1 .. N
               PROVE  life'[<<s, gen>>] \in {"up"} \cup Touched
      BY <1>1 DEF StartedInv
  <2>1. \A d \in Stoppers : stopPc[d] # "container"
    BY <1>1, <1>2
  <2>2. life[<<s, gen>>] \in {"up"} \cup Touched /\ <<s, gen>> \in Instances
    BY <2>1, InstanceFacts DEF SerialInv, StartedInv, TypeOK
  <2> QED BY <1>6, <2>2 DEF Touched
<1>14. StartedTruthful'
  <2>1. stopPc'[c] = "failed"
    BY <1>1, <1>2
  <2> QED BY <1>13, <2>1 DEF StartedTruthful, StartedInv, Stopping
<1> QED BY <1>7, <1>10, <1>11, <1>12, <1>13, <1>14 DEF SerialInv

\* container.dispose() resolved, and the app is no longer started.
LEMMA StopReturnsStep ==
    ASSUME TypeOK, SerialInv, NEW c \in Stoppers, StopReturns(c)
    PROVE  SerialInv'
<1>1. /\ stopPc[c] = "container" /\ stopPc' = [stopPc EXCEPT ![c] = "done"]
      /\ started' = FALSE
      /\ UNCHANGED <<serviceVars, startVars, stopList, workVars>>
    BY DEF StopReturns
<1>2. /\ stopPc \in [Stoppers -> {"idle", "scopes", "destroying", "container",
                                  "done", "failed"}]
      /\ gen \in Generations
    BY DEF TypeOK
<1>3. /\ Reached' = Reached /\ \A m : Closed(m)' <=> Closed(m)
      /\ \A s, k : Remains(s, k)' <=> Remains(s', k')
    BY <1>1 DEF Reached, Closed, Remains
<1>4. \A i \in Reached : i[2] < gen
    BY <1>1 DEF SerialInv, InitializedInv
<1>5. InitializedInv'
  <2>1. ASSUME NEW s \in 1 .. N PROVE life[<<s, gen>>] \notin Touched
    <3>1. <<s, gen>> \in Instances /\ <<s, gen>> \notin Reached
      BY <1>2, <1>4, InstanceFacts
    <3>2. life[<<s, gen>>] \in {"none", "built"}
      BY <3>1 DEF SerialInv, InitializedInv
    <3> QED BY <3>2 DEF Touched
  <2> QED BY <1>1, <1>3, <1>4, <2>1 DEF SerialInv, InitializedInv
<1>6. StopInv'
  <2>1. \A d \in Stoppers : stopPc'[d] = "destroying" => stopPc[d] = "destroying"
    BY <1>1, <1>2
  <2> QED BY <1>1, <1>3, <2>1 DEF SerialInv, StopInv
<1>7. StartInv'
    BY <1>1 DEF SerialInv, StartInv
<1>8. OrderInv'
    BY <1>1, <1>3 DEF SerialInv, OrderInv, Busy, Working
<1>9. ReverseDestroy' /\ WorkOnLiveServices' /\ StartedTruthful'
    BY <1>1 DEF SerialInv, ReverseDestroy, WorkOnLiveServices, Working, StartedTruthful
<1>10. StartedInv'
    BY <1>1 DEF StartedInv
<1> QED BY <1>5, <1>6, <1>7, <1>8, <1>9, <1>10 DEF SerialInv

\* A request or message gets its scope while the server is up or closing, and all
\* before it is up.
LEMMA ArriveStep ==
    ASSUME TypeOK, SerialInv, NEW w \in Workers, Arrive(w)
    PROVE  SerialInv'
<1>1. /\ workPc[w] = "idle" /\ workPc' = [workPc EXCEPT ![w] = "open"]
      /\ UNCHANGED <<started, serviceVars, callerVars, aborted>>
    BY DEF Arrive
<1>2. PICK g \in Generations : /\ life[<<Server, g>>] \in {"up", "destroying"}
                               /\ server' = [server EXCEPT ![w] = g]
    BY DEF Arrive, Admitting
<1>3. /\ workPc \in [Workers -> {"idle", "open", "using", "disposing", "done"}]
      /\ server \in [Workers -> Generations]
    BY DEF TypeOK
<1>4. /\ server'[w] = g
      /\ \A v \in Workers : v # w => server'[v] = server[v] /\ workPc'[v] = workPc[v]
    BY <1>1, <1>2, <1>3
<1>5. Reached' = Reached
    BY <1>1 DEF Reached
<1>6. StartInv' /\ ReverseDestroy' /\ StartedInv' /\ StartedTruthful'
    BY <1>1 DEF SerialInv, StartInv, Starting, ReverseDestroy, StartedInv,
                StartedTruthful, Stopping
<1>7. InitializedInv'
  <2>1. \A m : Closed(m)' <=> Closed(m)
    BY <1>1 DEF Closed
  <2> QED BY <1>1, <1>5, <2>1 DEF SerialInv, InitializedInv, Stopping
<1>8. StopInv'
  <2>1. \A s, k : Remains(s, k)' <=> Remains(s', k')
    BY <1>5 DEF Remains
  <2> QED BY <1>1, <1>5, <2>1 DEF SerialInv, StopInv
<1>9. OrderInv'
  <2>1. \A h \in Generations : life[<<Server, h>>] = "down" => Busy(h)' = {}
    <3> SUFFICES ASSUME NEW h \in Generations, life[<<Server, h>>] = "down",
                        NEW v \in Workers \ aborted, server'[v] = h, Working(v)'
                 PROVE  FALSE
        BY <1>1 DEF Busy
    <3>1. h # g
      BY <1>2
    <3>2. v # w
      BY <1>4, <3>1
    <3>3. v \in Busy(h)
      BY <1>4, <3>2 DEF Busy, Working
    <3> QED BY <3>3 DEF SerialInv, OrderInv
  <2>2. <<Server, g>> \in Reached
    <3>1. <<Server, g>> \in Instances
      BY InstanceFacts
    <3> QED BY <1>2, <3>1 DEF SerialInv, InitializedInv
  <2>3. \A v \in Workers : workPc'[v] # "idle" => <<Server, server'[v]>> \in Reached
    BY <1>4, <2>2 DEF SerialInv, OrderInv
  <2> QED BY <1>1, <1>5, <2>1, <2>3 DEF SerialInv, OrderInv
<1>10. WorkOnLiveServices'
  <2> SUFFICES ASSUME NEW v \in Workers \ aborted, Working(v)',
                      NEW s \in 1 .. Server - 1
               PROVE  life[<<s, server'[v]>>] = "up"
      BY <1>1 DEF WorkOnLiveServices
  <2>1. s \in 1 .. N /\ s < Server
    BY InstanceFacts
  <2>2. CASE v = w
    BY <1>2, <1>4, <2>1, <2>2, InstanceFacts DEF SerialInv, OrderInv, Standing
  <2>3. CASE v # w
    BY <1>4, <2>3 DEF SerialInv, WorkOnLiveServices, Working
  <2> QED BY <2>2, <2>3
<1> QED BY <1>6, <1>7, <1>8, <1>9, <1>10 DEF SerialInv

LEMMA StartStepSerial ==
    ASSUME TypeOK, SerialInv, Serialised, Serialised', NEW c \in Starters,
           Start(c) \/ StartStep(c)
    PROVE  SerialInv'
<1>1. /\ startPc \in [Starters -> {"idle", "plugins", "initing", "done", "failed"}]
      /\ initialized \in Seq(Instances) /\ Len(initialized) \in Nat
      /\ life \in [Instances -> Lives] /\ 1 \in 1 .. N
    BY InstanceFacts DEF TypeOK
\* start() reached the first service.
<1>2. ASSUME ~started, InitFrom(c, 1, life), UNCHANGED <<gen, stopVars, workVars>>
      PROVE  SerialInv'
  <2>1. \A g \in Generations : \A a, b \in 1 .. N :
            a < b /\ life[<<b, g>>] = "up" => life[<<a, g>>] = "up"
    BY DEF SerialInv, OrderInv, Standing
  <2>2. /\ Len(initialized) - (1 - 1) >= 0
        /\ \A t \in 1 .. 1 - 1 :
              /\ life[<<t, gen>>] = "up"
              /\ initialized[(Len(initialized) - (1 - 1)) + t] = <<t, gen>>
    BY <1>1
  <2>3. CASE Initialise(c, 1, life)
    BY <1>1, <1>2, <2>1, <2>2, <2>3, InitNextStep
  <2>4. CASE ResolveThrows(c, 1, life)
    BY <1>1, <1>2, <2>1, <2>4, ResolveThrowsStep
  <2>5. ~Finish(c, 1, life)
    BY InstanceFacts DEF Finish
  <2> QED BY <1>2, <2>3, <2>4, <2>5 DEF InitFrom
\* start() was refused, waits for the plugins, or one of them rejected.
<1>3. ASSUME NEW pc \in {"plugins", "failed"}, startPc' = [startPc EXCEPT ![c] = pc],
             pc = "plugins" => ~started,
             UNCHANGED <<started, serviceVars, at, stopVars, workVars>>
      PROVE  SerialInv'
  <2>1. \A b \in Starters :
           /\ Starting(b)' => ~started
           /\ startPc'[b] = "initing" => startPc[b] = "initing"
    <3> SUFFICES ASSUME NEW b \in Starters
                 PROVE  /\ Starting(b)' => ~started
                        /\ startPc'[b] = "initing" => startPc[b] = "initing"
        OBVIOUS
    <3>1. CASE b = c
      BY <1>1, <1>3, <3>1 DEF Starting
    <3>2. CASE b # c
      BY <1>1, <1>3, <3>2 DEF SerialInv, StartInv, Starting
    <3> QED BY <3>1, <3>2
  <2>2. /\ \A d \in Stoppers : Stopping(d)' <=> Stopping(d)
        /\ \A w \in Workers : Working(w)' <=> Working(w)
    BY <1>3 DEF Stopping, Working
  <2> QED BY <1>3, <2>1, <2>2, FrameStep
<1>4. CASE Start(c)
  <2>1. CASE started
    BY <1>3, <1>4, <2>1 DEF Start
  <2>2. CASE ~started /\ pending # {}
    BY <1>3, <1>4, <2>2 DEF Start
  <2>3. CASE ~started /\ pending = {}
    BY <1>2, <1>4, <2>3 DEF Start
  <2> QED BY <2>1, <2>2, <2>3
<1>5. CASE PluginsReady(c)
  <2>1. ~started
    BY <1>5 DEF PluginsReady, SerialInv, StartInv, Starting
  <2> QED BY <1>2, <1>5, <2>1 DEF PluginsReady
<1>6. CASE PluginsReject(c)
    BY <1>3, <1>6 DEF PluginsReject
<1>7. CASE InitSettles(c)
    BY <1>7, InitSettlesStep
<1>8. CASE InitFails(c)
    BY <1>8, InitFailsStep
<1> QED BY <1>4, <1>5, <1>6, <1>7, <1>8 DEF StartStep

LEMMA StopStepSerial ==
    ASSUME TypeOK, TypeOK', CallsInv, SerialInv, Serialised, NEW c \in Stoppers,
           Stop(c) \/ StopStep(c)
    PROVE  SerialInv'
<1>1. /\ initialized \in Seq(Instances) /\ life \in [Instances -> Lives]
      /\ stopPc \in [Stoppers -> {"idle", "scopes", "destroying", "container",
                                  "done", "failed"}]
    BY DEF TypeOK
\* stop() returned at once, or disposes a scope.
<1>2. ASSUME NEW pc \in {"done", "scopes"}, stopPc' = [stopPc EXCEPT ![c] = pc],
             pc = "done" => ~started, stopPc[c] # "container",
             pc = "scopes" => started \/ Stopping(c),
             UNCHANGED <<started, serviceVars, startVars, stopList, workVars>>
      PROVE  SerialInv'
  <2>1. \A d \in Stoppers :
           /\ stopPc'[d] \in {"destroying", "container"} => stopPc'[d] = stopPc[d]
           /\ stopPc[d] = "container" => stopPc'[d] = "container"
           /\ Stopping(d)' => Stopping(d) \/ started
           /\ started /\ ~Stopping(d)' =>
                 stopPc'[d] = stopPc[d] \/ stopPc'[d] = "failed"
    <3> SUFFICES ASSUME NEW d \in Stoppers
                 PROVE  /\ stopPc'[d] \in {"destroying", "container"} =>
                              stopPc'[d] = stopPc[d]
                        /\ stopPc[d] = "container" => stopPc'[d] = "container"
                        /\ Stopping(d)' => Stopping(d) \/ started
                        /\ started /\ ~Stopping(d)' =>
                              stopPc'[d] = stopPc[d] \/ stopPc'[d] = "failed"
        OBVIOUS
    <3>1. CASE d = c
      BY <1>1, <1>2, <3>1 DEF Stopping
    <3>2. CASE d # c
      BY <1>1, <1>2, <3>2 DEF Stopping
    <3> QED BY <3>1, <3>2
  <2>2. /\ \A b \in Starters : Starting(b)' => ~started
        /\ \A w \in Workers : Working(w)' <=> Working(w)
    BY <1>2 DEF SerialInv, StartInv, Starting, Working
  <2> QED BY <1>2, <2>1, <2>2, FrameStep
\* The loop over the scopes, and the first instance after it.
<1>3. ASSUME NEW seen, DisposeNext(c, seen), started \/ Stopping(c),
             stopPc[c] # "container",
             UNCHANGED <<started, initialized, startVars, workVars>>
      PROVE  SerialInv'
  <2>1. CASE \E w \in Workers : DisposeScope(c, seen, w)
    <3>1. /\ stopPc' = [stopPc EXCEPT ![c] = "scopes"]
          /\ UNCHANGED <<stopList, gen, life>>
      BY <2>1 DEF DisposeScope
    <3> QED BY <1>2, <1>3, <3>1
  <2>2. CASE DestroyFrom(c, Reverse(initialized), life)
    <3>1. started \/ \A i \in Reached : i[2] < gen
      BY <1>3 DEF SerialInv, InitializedInv
    <3>2. \A b \in Starters : ~Starting(b)
      BY <1>3 DEF SerialInv, StartInv, Serialised
    <3>3. Reverse(initialized) \in Seq(Instances)
      BY <1>1, ReverseProperties
    <3>4. Remains(Reverse(initialized), life)
      BY <3>1, ReverseRemains
    <3> QED BY <1>1, <1>3, <2>2, <3>2, <3>3, <3>4, DestroyFromStep
  <2> QED BY <1>3, <2>1, <2>2 DEF DisposeNext
<1>4. CASE Stop(c)
  <2>1. CASE started
    BY <1>3, <1>4, <2>1 DEF Stop
  <2>2. CASE ~started
    BY <1>2, <1>4, <2>2 DEF Stop
  <2> QED BY <2>1, <2>2
<1>5. CASE ScopeDisposed(c)
    BY <1>3, <1>5 DEF ScopeDisposed, Stopping
<1>6. CASE DestroySettles(c)
    BY <1>6, DestroySettlesStep
<1>7. CASE DestroyFails(c)
    BY <1>7, DestroyFailsStep
<1>8. CASE StopReturns(c)
    BY <1>8, StopReturnsStep
<1> QED BY <1>4, <1>5, <1>6, <1>7, <1>8 DEF StopStep

LEMMA SerialStep ==
    ASSUME CallerFreeInv, CallerFreeInv', SerialInv, Serialised, Serialised',
           [Next]_vars
    PROVE  SerialInv'
<1>1. /\ TypeOK /\ TypeOK' /\ CallsInv
      /\ workPc \in [Workers -> {"idle", "open", "using", "disposing", "done"}]
      /\ stopPc \in [Stoppers -> {"idle", "scopes", "destroying", "container",
                                  "done", "failed"}]
    BY DEF CallerFreeInv, TypeOK
\* The actions of plugins, scopes and work.
<1>2. ASSUME UNCHANGED <<started, serviceVars, startVars, stopList, server>>,
             \A d \in Stoppers :
                stopPc'[d] = stopPc[d] \/ (stopPc[d] = "scopes" /\ stopPc'[d] = "failed"),
             aborted \subseteq aborted',
             \A w \in Workers : /\ workPc'[w] # "idle" => workPc[w] # "idle"
                                /\ Working(w)' => Working(w)
      PROVE  SerialInv'
  <2>1. \A d \in Stoppers :
           /\ stopPc'[d] \in {"destroying", "container"} => stopPc'[d] = stopPc[d]
           /\ stopPc[d] = "container" => stopPc'[d] = "container"
           /\ Stopping(d)' => Stopping(d) \/ started
           /\ started /\ ~Stopping(d)' =>
                 stopPc'[d] = stopPc[d] \/ stopPc'[d] = "failed"
    BY <1>2 DEF Stopping
  <2>2. \A b \in Starters : Starting(b)' => ~started
    BY <1>2 DEF SerialInv, StartInv, Starting
  <2> QED BY <1>2, <2>1, <2>2, FrameStep
<1>3. ASSUME NEW p \in Plugins, Use(p) \/ PluginSettles(p) PROVE SerialInv'
  <2>1. UNCHANGED <<started, serviceVars, startVars, stopVars, workVars>>
    BY <1>3 DEF Use, PluginSettles
  <2> QED BY <1>2, <2>1 DEF Working
<1>4. ASSUME NEW c \in Starters, Start(c) \/ StartStep(c) PROVE SerialInv'
    BY <1>1, <1>4, StartStepSerial
<1>5. ASSUME NEW c \in Stoppers, Stop(c) \/ StopStep(c) PROVE SerialInv'
    BY <1>1, <1>5, StopStepSerial
<1>6. ASSUME NEW d \in Disposers, DisposeStep(d) PROVE SerialInv'
  <2>1. /\ UNCHANGED <<started, serviceVars, startVars, stopList, server, aborted>>
        /\ disposing[d] # NoCall
        /\ workPc' = workPc \/ Returns(d)
    BY <1>6 DEF DisposeStep, DisposeSettles, DisposeFails
  <2>4. \A c \in Stoppers :
           stopPc'[c] = stopPc[c] \/ (stopPc[c] = "scopes" /\ stopPc'[c] = "failed")
    BY <1>1, <1>6, <2>1 DEF DisposeStep, DisposeSettles, DisposeFails, CallsInv
  <2>2. d \in Workers => workPc[d] = "disposing"
    BY <2>1 DEF CallerFreeInv, DisposeInv
  <2>3. ASSUME NEW w \in Workers
        PROVE  /\ workPc'[w] # "idle" => workPc[w] # "idle"
               /\ Working(w)' => Working(w)
    <3>1. CASE w = d
      BY <2>2, <3>1 DEF Working
    <3>2. CASE w # d
      <4>1. workPc'[w] = workPc[w]
        BY <2>1, <3>2 DEF Returns
      <4> QED BY <4>1 DEF Working
    <3> QED BY <3>1, <3>2
  <2> QED BY <1>2, <2>1, <2>3, <2>4
<1>7. ASSUME NEW w \in Workers, Arrive(w) PROVE SerialInv'
    BY <1>1, <1>7, ArriveStep
<1>8. ASSUME NEW w \in Workers, UseScoped(w) \/ Close(w) \/ Abort(w) PROVE SerialInv'
  <2>1. /\ UNCHANGED <<started, serviceVars, startVars, stopVars, server>>
        /\ aborted \subseteq aborted'
        /\ workPc[w] \in {"open", "using"}
        /\ \/ workPc' = workPc
           \/ \E pc \in {"using", "disposing"} : workPc' = [workPc EXCEPT ![w] = pc]
    BY <1>8 DEF UseScoped, Close, Abort
  <2>2. ASSUME NEW v \in Workers
        PROVE  /\ workPc'[v] # "idle" => workPc[v] # "idle"
               /\ Working(v)' => Working(v)
    BY <1>1, <2>1 DEF Working
  <2> QED BY <1>2, <2>1, <2>2
<1>9. ASSUME UNCHANGED vars PROVE SerialInv'
    BY <1>2, <1>9 DEF Working
<1> QED BY <1>3, <1>4, <1>5, <1>6, <1>7, <1>8, <1>9 DEF Next, Idle

LEMMA SerialInit == Init => SerialInv
<1> SUFFICES ASSUME Init PROVE SerialInv
    OBVIOUS
<1>1. Reached = {} /\ DOMAIN initialized = {} /\ 0 \in Generations
  <2>1. initialized = <<>>
    BY DEF Init
  <2>2. Reached = {} /\ DOMAIN initialized = {}
    BY <2>1 DEF Reached, ToSet
  <2>3. gen \in Generations
    BY CallerFreeInit DEF CallerFreeInv, TypeOK
  <2>4. gen = 0
    BY DEF Init
  <2> QED BY <2>2, <2>3, <2>4
<1>2. \A s \in 1 .. N, g \in Generations : life[<<s, g>>] = "none"
  <2>1. \A i \in Instances : life[i] = "none"
    BY DEF Init
  <2> QED BY <2>1, InstanceFacts
<1>3. StartInv
    BY DEF Init, StartInv, Starting
<1>4. InitializedInv
  <2>1. \A i \in Instances : life[i] = "none"
    BY DEF Init
  <2>2. gen = 0 /\ ~started
    BY DEF Init
  <2>3. \A s \in 1 .. N : life[<<s, gen>>] \notin Touched
    BY <1>1, <1>2, <2>2 DEF Touched
  <2>4. \A g \in Generations, s \in 1 .. N : life[<<s, g>>] = "none"
    BY <1>2
  <2> QED BY <1>1, <2>1, <2>2, <2>3, <2>4 DEF InitializedInv
<1>5. StopInv
    BY <1>1 DEF Init, StopInv
<1>6. OrderInv
  <2>1. \A w \in Workers : workPc[w] = "idle"
    BY DEF Init
  <2>2. \A g \in Generations, s \in 1 .. N : life[<<s, g>>] \notin Standing \cup {"down"}
    BY <1>2 DEF Standing
  <2> QED BY <2>1, <2>2, InstanceFacts DEF OrderInv
<1>7. ReverseDestroy
    BY <1>2 DEF ReverseDestroy, Touched
<1>8. WorkOnLiveServices
    BY DEF Init, WorkOnLiveServices, Working
<1>9. StartedInv /\ StartedTruthful
    BY DEF Init, StartedInv, StartedTruthful
<1> QED BY <1>3, <1>4, <1>5, <1>6, <1>7, <1>8, <1>9 DEF SerialInv

\* As long as no start() overlaps another call in progress, whatever fails and
\* however stops overlap and starts are repeated: services come up in order, work
\* is admitted in between, and they go down in reverse order.
THEOREM SerialCorrect == Spec /\ []Serialised => []SerialInv
<1>1. CallerFreeInv /\ CallerFreeInv' /\ Serialised /\ Serialised' /\ SerialInv
      /\ [Next]_vars => SerialInv'
    BY SerialStep
<1> QED BY <1>1, CallerFreeCorrect, SerialInit, PTL DEF Spec

\* No request or message in progress is left on a singleton that is not up.
THEOREM WorkOnLiveServicesAlways == Spec /\ []Serialised => []WorkOnLiveServices
<1>1. SerialInv => WorkOnLiveServices
    BY DEF SerialInv
<1> QED BY <1>1, SerialCorrect, PTL

\* stop() destroys the singletons in the reverse order of start(), each after the
\* onDestroy of those that came after it resolved, also when stops overlap.
THEOREM ReverseDestroyAlways == Spec /\ []Serialised => []ReverseDestroy
<1>1. SerialInv => ReverseDestroy
    BY DEF SerialInv
<1> QED BY <1>1, SerialCorrect, PTL

\* An app that counts as started has its singletons up, until a stop() rejects: then
\* the flag may count some that this stop() destroyed.
THEOREM StartedTruthfulAlways == Spec /\ []Serialised => []StartedTruthful
<1>1. SerialInv => StartedTruthful
    BY DEF SerialInv
<1> QED BY <1>1, SerialCorrect, PTL

\* Unless onDestroy of a scoped service rejects, stop() disposes every scope before
\* container.dispose() but those of aborted requests.
THEOREM ScopesReleasedAlways ==
    ASSUME "scope" \notin Faults
    PROVE  Spec /\ []Serialised => []ScopesReleased
<1>1. CallerFreeInv /\ SerialInv => ScopesReleased
  <2> SUFFICES ASSUME CallerFreeInv, SerialInv, NEW c \in Stoppers,
                      stopPc[c] = "container", NEW w \in ToSet(activeScopes)
               PROVE  w \in aborted
      BY DEF ScopesReleased
  <2>1. w \in Workers /\ Working(w) /\ workPc[w] # "idle" /\ server[w] \in Generations
    BY DEF CallerFreeInv, TypeOK, DisposeInv, ToSet
  <2>2. <<Server, server[w]>> \in Reached
    BY <2>1 DEF SerialInv, OrderInv
  <2>3. life[<<Server, server[w]>>] = "down"
    <3>1. <<Server, server[w]>>[2] < gen
      BY <2>2 DEF SerialInv, InitializedInv
    <3> QED BY <2>2, <3>1 DEF SerialInv, StopInv
  <2>4. Busy(server[w]) = {}
    BY <2>1, <2>3 DEF SerialInv, OrderInv
  <2> QED BY <2>1, <2>4 DEF Busy
<1> QED BY <1>1, CallerFreeCorrect, SerialCorrect, PTL

-----------------------------------------------------------------------------
(***************************************************************************)
(* Who keeps Serialised: one caller of start() that calls after its stop() *)
(* returned, or calls once and leaves any number of stops to others.       *)
(***************************************************************************)
\* How an action moves the calls in progress.
LEMMA CallEffects ==
    ASSUME TypeOK, [Next]_vars
    PROVE  \/ /\ started' = started
              /\ \A c \in Starters : startPc'[c] = startPc[c] \/ ~Starting(c)'
              /\ \A c \in Starters : startPc'[c] = startPc[c] \/ Starting(c)
                                     \/ calls[c] < MaxCalls
              /\ \A d \in Stoppers : Stopping(d)' => Stopping(d) \/ started
           \/ \E c \in Starters :
                 /\ ~started \/ Starting(c)
                 /\ calls[c] < MaxCalls \/ Starting(c)
                 /\ started' = started \/ (started' /\ startPc'[c] = "done")
                 /\ \A b \in Starters : b # c => startPc'[b] = startPc[b]
                 /\ stopPc' = stopPc
           \/ \E d \in Stoppers :
                 /\ Stopping(d) /\ ~Stopping(d)' /\ ~started'
                 /\ startPc' = startPc
                 /\ \A b \in Stoppers : b # d => stopPc'[b] = stopPc[b]
<1> DEFINE Quiet == /\ started' = started /\ startPc' = startPc
                    /\ \A d \in Stoppers : Stopping(d)' => Stopping(d) \/ started
<1>1. /\ startPc \in [Starters -> {"idle", "plugins", "initing", "done", "failed"}]
      /\ stopPc \in [Stoppers -> {"idle", "scopes", "destroying", "container",
                                  "done", "failed"}]
    BY DEF TypeOK
<1>2. ASSUME NEW p \in Plugins, Use(p) \/ PluginSettles(p) PROVE Quiet
    BY <1>2 DEF Use, PluginSettles, Stopping
<1>3. ASSUME NEW d \in Disposers, DisposeStep(d) PROVE Quiet
    BY <1>3 DEF DisposeStep, DisposeSettles, DisposeFails, Stopping
<1>4. ASSUME NEW w \in Workers, Arrive(w) \/ UseScoped(w) \/ Close(w) \/ Abort(w)
      PROVE  Quiet
    BY <1>4 DEF Arrive, UseScoped, Close, Abort, Stopping
<1>5. ASSUME UNCHANGED vars PROVE Quiet
    BY <1>5 DEF Stopping
<1>6. ASSUME NEW c \in Stoppers, Stop(c) \/ ScopeDisposed(c) \/ DestroySettles(c)
                                 \/ DestroyFails(c)
      PROVE  Quiet
  <2>1. /\ started' = started /\ startPc' = startPc
        /\ \E pc \in {"done", "scopes", "destroying", "container", "failed"} :
              /\ stopPc' = [stopPc EXCEPT ![c] = pc]
              /\ pc \in {"scopes", "destroying", "container"} => started \/ Stopping(c)
    BY <1>6 DEF Stop, ScopeDisposed, DestroySettles, DestroyFails, DisposeNext,
                DisposeScope, DestroyFrom, Stopping
  <2> QED BY <1>1, <2>1 DEF Stopping
<1>7. ASSUME NEW d \in Stoppers, StopReturns(d)
      PROVE  /\ Stopping(d) /\ ~Stopping(d)' /\ ~started' /\ startPc' = startPc
             /\ \A b \in Stoppers : b # d => stopPc'[b] = stopPc[b]
    BY <1>1, <1>7 DEF StopReturns, Stopping
<1>8. ASSUME NEW c \in Starters, Start(c) \/ StartStep(c)
      PROVE  \/ /\ started' = started /\ stopPc' = stopPc
                /\ \A b \in Starters : startPc'[b] = startPc[b] \/ ~Starting(b)'
                /\ \A b \in Starters : startPc'[b] = startPc[b] \/ Starting(b)
                                       \/ calls[b] < MaxCalls
             \/ /\ ~started \/ Starting(c)
                /\ calls[c] < MaxCalls \/ Starting(c)
                /\ started' = started \/ (started' /\ startPc'[c] = "done")
                /\ \A b \in Starters : b # c => startPc'[b] = startPc[b]
                /\ stopPc' = stopPc
  <2>1. ASSUME NEW s, NEW l, InitFrom(c, s, l)
        PROVE  /\ started' = started \/ (started' /\ startPc'[c] = "done")
               /\ \A b \in Starters : b # c => startPc'[b] = startPc[b]
    BY <1>1, <2>1 DEF InitFrom, Finish, Initialise, ResolveThrows
  <2>2. CASE Start(c)
    <3>1. stopPc' = stopPc /\ calls[c] < MaxCalls
      BY <2>2 DEF Start
    <3>2. CASE started
      BY <1>1, <2>2, <3>1, <3>2 DEF Start, Starting
    <3>3. CASE ~started /\ pending # {}
      BY <1>1, <2>2, <3>1, <3>3 DEF Start
    <3>4. CASE ~started /\ pending = {}
      BY <2>1, <2>2, <3>1, <3>4 DEF Start
    <3> QED BY <3>2, <3>3, <3>4
  <2>3. CASE PluginsReady(c) \/ InitSettles(c)
    BY <2>1, <2>3 DEF PluginsReady, InitSettles, Starting
  <2>4. CASE PluginsReject(c) \/ InitFails(c)
    BY <1>1, <2>4 DEF PluginsReject, InitFails, Starting
  <2> QED BY <1>8, <2>2, <2>3, <2>4 DEF StartStep
<1>9. \A d : stopPc' = stopPc => (Stopping(d)' <=> Stopping(d))
    BY DEF Stopping
<1>10. CASE Quiet
    BY <1>10
<1>11. CASE \E c \in Starters : Start(c) \/ StartStep(c)
  <2>1. PICK c \in Starters : Start(c) \/ StartStep(c)
    BY <1>11
  <2>2. CASE /\ started' = started /\ stopPc' = stopPc
             /\ \A b \in Starters : startPc'[b] = startPc[b] \/ ~Starting(b)'
             /\ \A b \in Starters : startPc'[b] = startPc[b] \/ Starting(b)
                                    \/ calls[b] < MaxCalls
    BY <1>9, <2>2
  <2> QED BY <1>8, <2>1, <2>2
<1>12. CASE \E d \in Stoppers : StopReturns(d)
    BY <1>7, <1>12
<1> HIDE DEF Quiet
<1> QED BY <1>2, <1>3, <1>4, <1>5, <1>6, <1>10, <1>11, <1>12
        DEF Next, StopStep, DisposeStep, Idle

\* One caller of each: a stop() in progress finds the app started, and a start() not.
THEOREM SerialisedOneCaller ==
    ASSUME \A c, d \in Starters : c = d, \A c, d \in Stoppers : c = d
    PROVE  Spec => []Serialised
<1> DEFINE Inv == /\ \A c \in Starters : Starting(c) => ~started
                  /\ \A d \in Stoppers : Stopping(d) => started
<1>1. Init => Inv
    BY DEF Init, Starting, Stopping
<1>2. CallerFreeInv /\ Inv /\ [Next]_vars => Inv'
  <2> SUFFICES ASSUME CallerFreeInv, Inv, [Next]_vars PROVE Inv'
      OBVIOUS
  <2> USE DEF Starting, Stopping
  <2> QED BY CallEffects DEF CallerFreeInv
<1>3. Inv => Serialised
    BY DEF Serialised
<1> HIDE DEF Inv
<1> QED BY <1>1, <1>2, <1>3, CallerFreeCorrect, PTL DEF Spec

\* One start() in all: the stops, however many overlap, come after it.
THEOREM SerialisedOneStart ==
    ASSUME \A c, d \in Starters : c = d, MaxCalls = 1
    PROVE  Spec => []Serialised
<1> DEFINE Inv == /\ \A c \in Starters : Starting(c) => ~started
                  /\ \A c \in Starters :
                        started \/ (\E d \in Stoppers : Stopping(d)) => startPc[c] = "done"
<1>1. Init => Inv
    BY DEF Init, Starting, Stopping
<1>2. CallerFreeInv /\ Inv /\ [Next]_vars => Inv'
  <2> SUFFICES ASSUME CallerFreeInv, Inv, [Next]_vars PROVE Inv'
      OBVIOUS
  <2>1. ASSUME NEW c \in Starters, startPc[c] # "idle" PROVE ~(calls[c] < MaxCalls)
    <3>1. calls[c] \in 0 .. MaxCalls /\ calls[c] > 0
      BY <2>1 DEF CallerFreeInv, TypeOK, CallsInv
    <3> QED BY <3>1
  <2> USE DEF Starting, Stopping
  <2> QED BY <2>1, CallEffects DEF CallerFreeInv
<1>3. Inv => Serialised
    BY DEF Serialised, Starting
<1> HIDE DEF Inv
<1> QED BY <1>1, <1>2, <1>3, CallerFreeCorrect, PTL DEF Spec
=============================================================================
