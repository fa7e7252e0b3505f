--------------------------- MODULE TickSystemProofs ---------------------------
(***************************************************************************)
(* Theorems about the tickables of the loop, for any number of objects,    *)
(* however the world and the objects change: nobody is listed twice, gone  *)
(* and listed, called twice, or skipped.                                   *)
(***************************************************************************)
EXTENDS WorldProofs, SequenceTheorems

-----------------------------------------------------------------------------
(* What is listed. Picked is a recursive function: that there is one, and  *)
(* what it returns, is shown by the shortest prefix for which it fails.    *)

PickStep(g, s, T, i) ==
    IF i = 0 THEN <<>> ELSE IF s[i] \in T THEN Append(g[i - 1], s[i]) ELSE g[i - 1]
Picks(g, s, T, n) == g = [i \in 0 .. n |-> PickStep(g, s, T, i)]

LEMMA PickedSolves ==
    ASSUME NEW s, NEW T
    PROVE  Picked(s, T) = (CHOOSE g : Picks(g, s, T, Len(s)))[Len(s)]
BY DEF Picked, Picks, PickStep

LEMMA PicksExist ==
    ASSUME NEW s, NEW T, NEW n \in Nat
    PROVE  \E g : Picks(g, s, T, n)
<1> DEFINE Bad == {m \in Nat : ~ \E g : Picks(g, s, T, m)}
<1>1. Bad = {}
  <2> SUFFICES ASSUME Bad # {} PROVE FALSE
    OBVIOUS
  <2>1. PICK m \in Bad : \A k \in Bad : m <= k
    BY LeastNatural
  <2>2. m \in Nat /\ ~ \E g : Picks(g, s, T, m)
    OBVIOUS
  <2>3. CASE m = 0
    <3> DEFINE g == [i \in 0 .. m |-> <<>>]
    <3>1. \A i \in 0 .. m : PickStep(g, s, T, i) = <<>>
      BY <2>3 DEF PickStep
    <3>2. Picks(g, s, T, m)
      BY <3>1 DEF Picks
    <3>3. QED
      BY <2>2, <3>2
  <2>4. CASE m # 0
    <3>1. m - 1 \in Nat /\ m - 1 \notin Bad
      BY <2>1, <2>2, <2>4
    <3>2. PICK f : Picks(f, s, T, m - 1)
      BY <3>1
    <3> DEFINE g == [i \in 0 .. m |-> PickStep(f, s, T, i)]
    <3>3. ASSUME NEW i \in 0 .. m PROVE PickStep(f, s, T, i) = PickStep(g, s, T, i)
      <4>1. CASE i = 0
        BY <4>1 DEF PickStep
      <4>2. CASE i # 0
        <5>1. i - 1 \in 0 .. m - 1 /\ i - 1 \in 0 .. m
          BY <2>2, <4>2
        <5>2. f[i - 1] = PickStep(f, s, T, i - 1)
          BY <3>2, <5>1 DEF Picks
        <5>3. g[i - 1] = PickStep(f, s, T, i - 1)
          BY <5>1
        <5>4. QED
          BY <4>2, <5>2, <5>3 DEF PickStep
      <4>3. QED
        BY <4>1, <4>2
    <3>4. g = [i \in 0 .. m |-> PickStep(g, s, T, i)]
      BY <3>3
    <3>5. Picks(g, s, T, m)
      BY <3>4 DEF Picks
    <3>6. QED
      BY <2>2, <3>5
  <2>5. QED
    BY <2>3, <2>4
<1>2. QED
  BY <1>1

LEMMA Appended ==
    ASSUME NEW S, NEW s \in Seq(S), NEW e \in S
    PROVE  /\ Append(s, e) \in Seq(S) /\ ToSet(Append(s, e)) = ToSet(s) \cup {e}
           /\ (IsInjective(s) /\ e \notin ToSet(s)) => IsInjective(Append(s, e))
<1> DEFINE a == Append(s, e)
<1>1. /\ a \in Seq(S) /\ Len(a) = Len(s) + 1 /\ a[Len(s) + 1] = e
      /\ \A i \in 1 .. Len(s) : a[i] = s[i]
  BY AppendProperties
<1>2. Len(s) \in Nat /\ DOMAIN s = 1 .. Len(s) /\ DOMAIN a = 1 .. Len(s) + 1
  BY <1>1, LenProperties
<1> HIDE DEF a
<1>3. \A i \in DOMAIN a : \/ i \in DOMAIN s /\ a[i] = s[i]
                          \/ i = Len(s) + 1 /\ a[i] = e
  <2> TAKE i \in DOMAIN a
  <2>1. i \in 1 .. Len(s) \/ i = Len(s) + 1
    BY <1>2
  <2>2. QED
    BY <1>1, <1>2, <2>1
<1>4. ToSet(a) = ToSet(s) \cup {e}
  <2>1. ToSet(a) \subseteq ToSet(s) \cup {e}
    BY <1>3 DEF ToSet
  <2>2. \A i \in DOMAIN s : i \in DOMAIN a /\ a[i] = s[i]
    BY <1>1, <1>2
  <2>3. ToSet(s) \subseteq ToSet(a)
    BY <2>2 DEF ToSet
  <2>4. Len(s) + 1 \in DOMAIN a
    BY <1>2
  <2>5. e \in ToSet(a)
    BY <1>1, <2>4 DEF ToSet
  <2>6. QED
    BY <2>1, <2>3, <2>5
<1>5. ASSUME IsInjective(s), e \notin ToSet(s) PROVE IsInjective(a)
  <2>1. \A i \in DOMAIN s : s[i] # e
    BY <1>5 DEF ToSet
  <2>2. ASSUME NEW i \in DOMAIN a, NEW k \in DOMAIN a, a[i] = a[k] PROVE i = k
    BY <1>3, <1>5, <2>1, <2>2 DEF IsInjective
  <2>3. QED
    BY <2>2 DEF IsInjective
<1>6. QED
  BY <1>1, <1>4, <1>5 DEF a

LEMMA Joined ==
    ASSUME NEW S, NEW s \in Seq(S), NEW t \in Seq(S)
    PROVE  /\ s \o t \in Seq(S) /\ ToSet(s \o t) = ToSet(s) \cup ToSet(t)
           /\ (IsInjective(s) /\ IsInjective(t) /\ ToSet(s) \cap ToSet(t) = {})
              => IsInjective(s \o t)
<1> DEFINE a == s \o t
<1>1. /\ a \in Seq(S) /\ Len(a) = Len(s) + Len(t)
      /\ \A i \in 1 .. Len(s) + Len(t) : a[i] = IF i <= Len(s) THEN s[i] ELSE t[i - Len(s)]
  BY ConcatProperties
<1>2. /\ Len(s) \in Nat /\ DOMAIN s = 1 .. Len(s)
      /\ Len(t) \in Nat /\ DOMAIN t = 1 .. Len(t)
      /\ DOMAIN a = 1 .. Len(s) + Len(t)
  BY <1>1, LenProperties
<1>3. ToSet(a) = ToSet(s) \cup ToSet(t)
  <2>1. Range(a) = Range(s) \cup Range(t)
    BY RangeConcatenation
  <2>2. QED
    BY <2>1 DEF Range, ToSet
<1> HIDE DEF a
<1>4. \A i \in DOMAIN a : \/ i \in DOMAIN s /\ a[i] = s[i]
                          \/ i - Len(s) \in DOMAIN t /\ a[i] = t[i - Len(s)]
  BY <1>1, <1>2
<1>5. ASSUME IsInjective(s), IsInjective(t), ToSet(s) \cap ToSet(t) = {} PROVE IsInjective(a)
  <2>1. \A i \in DOMAIN s, k \in DOMAIN t : s[i] # t[k]
    BY <1>5 DEF ToSet
  <2>2. ASSUME NEW i \in DOMAIN a, NEW k \in DOMAIN a, a[i] = a[k] PROVE i = k
    <3>1. i \in Nat /\ k \in Nat
      BY <1>2
    <3>2. CASE i \in DOMAIN s /\ a[i] = s[i] /\ k \in DOMAIN s /\ a[k] = s[k]
      BY <1>5, <2>2, <3>2 DEF IsInjective
    <3>3. CASE /\ i - Len(s) \in DOMAIN t /\ a[i] = t[i - Len(s)]
               /\ k - Len(s) \in DOMAIN t /\ a[k] = t[k - Len(s)]
      <4>1. i - Len(s) = k - Len(s)
        BY <1>5, <2>2, <3>3 DEF IsInjective
      <4>2. QED
        BY <1>2, <3>1, <4>1
    <3>4. QED
      BY <1>4, <2>1, <2>2, <3>2, <3>3
  <2>3. QED
    BY <2>2 DEF IsInjective
<1>6. QED
  BY <1>1, <1>3, <1>5 DEF a

(* Registering and unregistering keep what is in T, and nobody twice.      *)
LEMMA PickedIs ==
    ASSUME NEW S, NEW s \in Seq(S), NEW T
    PROVE  /\ Picked(s, T) \in Seq(S) /\ ToSet(Picked(s, T)) = ToSet(s) \cap T
           /\ IsInjective(s) => IsInjective(Picked(s, T))
<1>1. Len(s) \in Nat /\ DOMAIN s = 1 .. Len(s)
  BY LenProperties
<1> DEFINE g == CHOOSE g : Picks(g, s, T, Len(s))
           Before(n) == {s[i] : i \in 1 .. n}
           Good(n) == /\ g[n] \in Seq(S) /\ ToSet(g[n]) = Before(n) \cap T
                      /\ IsInjective(s) => IsInjective(g[n])
           Bad == {n \in 0 .. Len(s) : ~Good(n)}
<1>2. \A i \in 0 .. Len(s) : g[i] = PickStep(g, s, T, i)
  <2>1. Picks(g, s, T, Len(s))
    BY <1>1, PicksExist
  <2>2. QED
    BY <2>1 DEF Picks
<1> HIDE DEF g
<1>3. Bad = {}
  <2> SUFFICES ASSUME Bad # {} PROVE FALSE
    OBVIOUS
  <2>1. Bad \subseteq Nat
    BY <1>1
  <2>2. PICK n \in Bad : \A m \in Bad : n <= m
    BY <2>1, LeastNatural
  <2>3. n \in 0 .. Len(s) /\ ~Good(n)
    OBVIOUS
  <2>4. CASE n = 0
    <3>1. g[n] = <<>>
      BY <1>2, <2>3, <2>4 DEF PickStep
    <3>2. <<>> \in Seq(S) /\ ToSet(<<>>) = {} /\ IsInjective(<<>>)
      BY DEF ToSet, IsInjective
    <3>3. Before(n) = {}
      BY <2>4
    <3>4. QED
      BY <2>3, <3>1, <3>2, <3>3
  <2>5. CASE n # 0
    <3> DEFINE m == n - 1
    <3>1. /\ m \in 0 .. Len(s) /\ n \in 1 .. Len(s) /\ m < n
          /\ 1 .. n = (1 .. m) \cup {n} /\ n \notin 1 .. m
      BY <1>1, <2>3, <2>5
    <3>2. Good(m)
      <4>1. m \notin Bad
        <5>1. m \in Nat /\ n \in Nat /\ ~(n <= m)
          BY <2>1, <3>1
        <5>2. QED
          BY <2>2, <5>1
      <4>2. QED
        BY <3>1, <4>1
    <3>3. s[n] \in S /\ Before(n) = Before(m) \cup {s[n]}
      BY <3>1, ElementOfSeq
    <3>4. CASE s[n] \notin T
      <4>1. g[n] = g[m]
        BY <1>2, <2>3, <2>5, <3>4 DEF PickStep
      <4>2. Before(n) \cap T = Before(m) \cap T
        BY <3>3, <3>4
      <4>3. QED
        BY <2>3, <3>2, <4>1, <4>2
    <3>5. CASE s[n] \in T
      <4>1. g[n] = Append(g[m], s[n])
        BY <1>2, <2>3, <2>5, <3>5 DEF PickStep
      <4>2. IsInjective(s) => s[n] \notin Before(m)
        <5>1. \A i \in 1 .. m : i \in DOMAIN s /\ i # n
          BY <1>1, <3>1
        <5>2. QED
          BY <1>1, <3>1, <5>1 DEF IsInjective
      <4>3. g[m] \in Seq(S) /\ ToSet(g[m]) = Before(m) \cap T
            /\ (IsInjective(s) => IsInjective(g[m]))
        BY <3>2
      <4>4. /\ g[n] \in Seq(S) /\ ToSet(g[n]) = ToSet(g[m]) \cup {s[n]}
            /\ (IsInjective(g[m]) /\ s[n] \notin ToSet(g[m])) => IsInjective(g[n])
        BY <3>3, <4>1, <4>3, Appended
      <4>5. ToSet(g[n]) = Before(n) \cap T
        BY <3>3, <3>5, <4>3, <4>4
      <4>6. QED
        BY <2>3, <4>2, <4>3, <4>4, <4>5
    <3>6. QED
      BY <3>4, <3>5
  <2>6. QED
    BY <2>4, <2>5
<1>4. Good(Len(s))
  <2>1. Len(s) \in 0 .. Len(s)
    BY <1>1
  <2>2. QED
    BY <1>3, <2>1
<1>5. g[Len(s)] = Picked(s, T)
  BY PickedSolves DEF g
<1>6. Before(Len(s)) = ToSet(s)
  BY <1>1 DEF ToSet
<1>7. QED
  BY <1>4, <1>5, <1>6

-----------------------------------------------------------------------------
(* The inductive invariants. What the queue and the lists hold: an object  *)
(* that is not destroyed before it is registered is queued, or else        *)
(* registered under its flags, once. And who was called.                   *)

QueuedFirst == "early" \notin TickUses
OneFlag == "both" \notin TickUses
KeptDuring == "during" \notin TickUses

ListsOK ==
    /\ IsInjective(tickable_queue) /\ ToSet(tickable_queue) \subseteq constructed
    /\ \A f \in Flags :
          /\ IsInjective(tickables[f])
          /\ \A t \in ToSet(tickables[f]) :
                f \in TickFlags[t] /\ t \in constructed \ ToSet(tickable_queue)
    /\ \A t \in (constructed \ ToSet(tickable_queue)) \cap CanTick :
          \A f \in TickFlags[t] : t \in ToSet(tickables[f])

(* A late object is called in no pass but its own: none of its calls is    *)
(* left when the late pass begins.                                         *)
CallsOK ==
    /\ pass # "none" => pass = due
    /\ pass = "Variable" \/ (pass = "none" /\ due = "Late") =>
          \A t \in Tickables : calls[t]["Late"] = 0
    /\ CalledOncePerFrame

(* When a pass is over, everybody who exists and could be registered for   *)
(* it was called in it, exactly once.                                      *)
NobodySkipped ==
    pass # "none" /\ ~InPass =>
        \A t \in (constructed \ ToSet(tickable_queue)) \cap CanTick :
            pass \in TickFlags[t] => calls[t][pass] = 1

(* Nobody is called twice in a frame, in a list or no longer.              *)
NobodyTwice == \A t \in Tickables : \A f \in Passes : calls[t][f] <= 1

-----------------------------------------------------------------------------
(* Types. They need nothing of the clients.                                *)

LEMMA LoopTicks ==
    ASSUME scope \in Scopes, [LoopNext]_loopVars
    PROVE  scope' \in Scopes /\ [TickNext]_tickVars
<1>1. scope.tickables \subseteq Tickables
  BY WorldAssumption
<1>2. ChangeWorld => UNCHANGED tickVars
  BY DEF ChangeWorld
<1>3. ChangeTickables => TickNext
  BY <1>1 DEF ChangeTickables, TickNext
<1>4. Loop => TickNext
  BY DEF Loop, TickNext
<1>5. QED
  BY <1>2, <1>3, <1>4, LoopSteps DEF LoopNext, loopVars

LEMMA TickFacts ==
    ASSUME TickTypeOK
    PROVE  /\ constructed \subseteq Tickables /\ tickable_queue \in Seq(Tickables)
           /\ \A f \in Flags : tickables[f] \in Seq(Tickables)
           /\ \A f \in Flags : \A i \in DOMAIN tickables[f] :
                 i \in Nat \ {0} /\ tickables[f][i] \in Tickables
                 /\ tickables[f][i] \in ToSet(tickables[f])
           /\ Passes \subseteq Flags
<1>1. ASSUME NEW f \in Flags, NEW i \in DOMAIN tickables[f]
      PROVE  i \in Nat \ {0} /\ tickables[f][i] \in Tickables
             /\ tickables[f][i] \in ToSet(tickables[f])
  <2>1. tickables[f] \in Seq(Tickables)
    BY DEF TickTypeOK
  <2>2. DOMAIN tickables[f] = 1 .. Len(tickables[f]) /\ Len(tickables[f]) \in Nat
    BY <2>1, LenProperties
  <2>3. QED
    BY <2>1, <2>2, ElementOfSeq DEF ToSet
<1>2. QED
  BY <1>1 DEF TickTypeOK, Passes, Flags

(* Of the object called, the pass is known to be one of its flags.         *)
LEMMA CurrentIs ==
    ASSUME TickTypeOK, InPass
    PROVE  /\ pass \in Passes /\ pass \in Flags /\ position \in DOMAIN tickables[pass]
           /\ Current \in Tickables /\ Current \in ToSet(tickables[pass])
<1>1. pass \in Passes /\ pass \in Flags
  BY TickFacts DEF InPass, TickTypeOK
<1>2. position \in DOMAIN tickables[pass]
  <2>1. tickables[pass] \in Seq(Tickables)
    BY <1>1, TickFacts
  <2>2. DOMAIN tickables[pass] = 1 .. Len(tickables[pass]) /\ Len(tickables[pass]) \in Nat
    BY <2>1, LenProperties
  <2>3. QED
    BY <2>2 DEF InPass, TickTypeOK
<1>3. QED
  BY <1>1, <1>2, TickFacts DEF Current

LEMMA WithoutIs ==
    ASSUME TickTypeOK, NEW t \in Tickables, NEW f \in Flags
    PROVE  /\ Without(f, t) \in Seq(Tickables)
           /\ IsInjective(tickables[f]) => IsInjective(Without(f, t))
           /\ ToSet(Without(f, t)) =
                 IF f \in TickFlags[t] THEN ToSet(tickables[f]) \ {t} ELSE ToSet(tickables[f])
<1>1. tickables[f] \in Seq(Tickables) /\ ToSet(tickables[f]) \subseteq Tickables
  <2>1. tickables[f] \in Seq(Tickables)
    BY TickFacts
  <2>2. Range(tickables[f]) \in SUBSET Tickables
    BY <2>1, RangeOfSeq
  <2>3. QED
    BY <2>1, <2>2 DEF Range, ToSet
<1> DEFINE p == Picked(tickables[f], Tickables \ {t})
<1>2. /\ p \in Seq(Tickables) /\ ToSet(p) = ToSet(tickables[f]) \cap (Tickables \ {t})
      /\ IsInjective(tickables[f]) => IsInjective(p)
  BY <1>1, PickedIs
<1>3. Without(f, t) = IF f \in TickFlags[t] THEN p ELSE tickables[f]
  BY DEF Without
<1> HIDE DEF p
<1>4. QED
  BY <1>1, <1>2, <1>3

LEMMA RegisteredIs ==
    ASSUME TickTypeOK, NEW f \in Flags
    PROVE  /\ Registered(f) \in Seq(Tickables)
           /\ ToSet(Registered(f)) = ToSet(tickables[f]) \cup
                 {t \in ToSet(tickable_queue) : t \in CanTick /\ f \in TickFlags[t]}
           /\ (/\ IsInjective(tickable_queue) /\ IsInjective(tickables[f])
               /\ ToSet(tickables[f]) \cap ToSet(tickable_queue) = {})
              => IsInjective(Registered(f))
<1> DEFINE T == {t \in CanTick : f \in TickFlags[t]}
           p == Picked(tickable_queue, T)
<1>1. tickables[f] \in Seq(Tickables) /\ tickable_queue \in Seq(Tickables)
  BY TickFacts
<1>2. /\ p \in Seq(Tickables) /\ ToSet(p) = ToSet(tickable_queue) \cap T
      /\ IsInjective(tickable_queue) => IsInjective(p)
  BY <1>1, PickedIs
<1>3. Registered(f) = tickables[f] \o p
  BY DEF Registered
<1>4. T = {t \in CanTick : f \in TickFlags[t]}
  OBVIOUS
<1> HIDE DEF p, T
<1>5. /\ tickables[f] \o p \in Seq(Tickables)
      /\ ToSet(tickables[f] \o p) = ToSet(tickables[f]) \cup ToSet(p)
      /\ (IsInjective(tickables[f]) /\ IsInjective(p) /\ ToSet(tickables[f]) \cap ToSet(p) = {})
         => IsInjective(tickables[f] \o p)
  BY <1>1, <1>2, Joined
<1>6. QED
  BY <1>2, <1>3, <1>4, <1>5

LEMMA TickTypeStep ==
    ASSUME TickTypeOK, [TickNext]_tickVars
    PROVE  TickTypeOK'
<1>1. ASSUME NEW t \in Tickables, Construct(t) PROVE TickTypeOK'
  <2>1. Append(tickable_queue, t) \in Seq(Tickables)
    BY TickFacts, AppendProperties
  <2>2. NoCalls[t] \in [Passes -> Nat]
    BY DEF NoCalls
  <2>3. QED
    BY <1>1, <2>1, <2>2 DEF Construct, TickTypeOK
<1>2. ASSUME NEW t \in Tickables, Destruct(t) PROVE TickTypeOK'
  <2>1. \A f \in Flags : Without(f, t) \in Seq(Tickables)
    BY WithoutIs
  <2>2. tickables' \in [Flags -> Seq(Tickables)]
    BY <1>2, <2>1 DEF Destruct
  <2>3. QED
    BY <1>2, <2>2 DEF Destruct, TickTypeOK
<1>3. CASE BeginPass
  <2>1. \A f \in Flags : Registered(f) \in Seq(Tickables)
    BY RegisteredIs
  <2>2. tickables' \in [Flags -> Seq(Tickables)]
    BY <1>3, <2>1 DEF BeginPass
  <2>3. NoCalls \in [Tickables -> [Passes -> Nat]]
    BY DEF NoCalls
  <2>4. <<>> \in Seq(Tickables)
    OBVIOUS
  <2>5. QED
    BY <1>3, <2>2, <2>3, <2>4 DEF BeginPass, Emptied, TickTypeOK
<1>4. CASE Call
  <2>1. Current \in Tickables
    BY <1>4, CurrentIs DEF Call
  <2>2. calls[Current] \in [Passes -> Nat]
    BY <2>1 DEF TickTypeOK
  <2>3. [f \in Passes |-> IF f \in TickFlags[Current]
                          THEN calls[Current][f] + 1 ELSE calls[Current][f]] \in [Passes -> Nat]
    BY <2>2
  <2>4. calls' \in [Tickables -> [Passes -> Nat]]
    BY <1>4, <2>1, <2>3 DEF Call, TickTypeOK
  <2>5. QED
    BY <1>4, <2>4 DEF Call, TickTypeOK
<1>5. CASE EndPass
  BY <1>5 DEF EndPass, After, Passes, TickTypeOK
<1>6. CASE UNCHANGED tickVars
  BY <1>6 DEF tickVars, TickTypeOK
<1>7. QED
  BY <1>1, <1>2, <1>3, <1>4, <1>5, <1>6 DEF TickNext

LEMMA TickTypeStart ==
    ASSUME TickInit
    PROVE  TickTypeOK
<1>1. <<>> \in Seq(Tickables)
  OBVIOUS
<1>2. QED
  BY <1>1 DEF TickInit, TickTypeOK, NoCalls, Passes, Flags

-----------------------------------------------------------------------------
(* Whatever is registered, is destroyed or registered again is in its      *)
(* lists once.                                                             *)

LEMMA ListsStart ==
    ASSUME TickInit
    PROVE  ListsOK
<1>1. IsInjective(<<>>) /\ ToSet(<<>>) = {}
  BY DEF IsInjective, ToSet
<1>2. QED
  BY <1>1 DEF TickInit, ListsOK, Flags

LEMMA ConstructLists ==
    ASSUME TickTypeOK, ListsOK, NEW t \in Tickables, Construct(t)
    PROVE  ListsOK'
<1>1. t \notin ToSet(tickable_queue) /\ t \notin constructed
  BY DEF Construct, ListsOK
<1>2. ToSet(tickable_queue') = ToSet(tickable_queue) \cup {t} /\ IsInjective(tickable_queue')
  BY <1>1, TickFacts, Appended DEF Construct, ListsOK
<1>3. \A f \in Flags : \A x \in ToSet(tickables[f]) : x # t
  BY <1>1 DEF ListsOK
<1>4. QED
  BY <1>1, <1>2, <1>3 DEF Construct, ListsOK

LEMMA DestructLists ==
    ASSUME QueuedFirst, TickTypeOK, ListsOK, NEW t \in Tickables, Destruct(t)
    PROVE  ListsOK'
<1>1. t \notin ToSet(tickable_queue)
  <2>1. ~Contains(tickable_queue, t)
    BY DEF Destruct, QueuedFirst
  <2>2. DOMAIN tickable_queue = 1 .. Len(tickable_queue)
    BY TickFacts, LenProperties
  <2>3. QED
    BY <2>1, <2>2 DEF Contains, ToSet
<1>2. ASSUME NEW f \in Flags
      PROVE  /\ tickables'[f] = Without(f, t) /\ IsInjective(tickables'[f])
             /\ ToSet(tickables'[f]) = ToSet(tickables[f]) \ {t}
  <2>1. tickables'[f] = Without(f, t)
    BY DEF Destruct
  <2>2. f \notin TickFlags[t] => t \notin ToSet(tickables[f])
    BY DEF ListsOK
  <2>3. QED
    BY <2>1, <2>2, WithoutIs DEF ListsOK
<1>3. \A x \in Tickables : TickFlags[x] \subseteq Flags
  BY TickAssumption
<1>4. QED
  BY <1>1, <1>2, <1>3, TickFacts DEF Destruct, ListsOK

LEMMA BeginLists ==
    ASSUME TickTypeOK, ListsOK, BeginPass
    PROVE  ListsOK'
<1>1. tickable_queue' = <<>> /\ IsInjective(<<>>) /\ ToSet(<<>>) = {}
  BY DEF BeginPass, Emptied, IsInjective, ToSet
<1>2. ASSUME NEW f \in Flags
      PROVE  /\ IsInjective(tickables'[f])
             /\ ToSet(tickables'[f]) = ToSet(tickables[f]) \cup
                   {t \in ToSet(tickable_queue) : t \in CanTick /\ f \in TickFlags[t]}
  <2>1. tickables'[f] = Registered(f)
    BY DEF BeginPass
  <2>2. ToSet(tickables[f]) \cap ToSet(tickable_queue) = {}
    BY DEF ListsOK
  <2>3. QED
    BY <2>1, <2>2, RegisteredIs DEF ListsOK
<1>3. \A t \in Tickables : TickFlags[t] \subseteq Flags
  BY TickAssumption
<1>4. constructed' = constructed
  BY DEF BeginPass
<1>5. ASSUME NEW t \in constructed \cap CanTick, NEW f \in TickFlags[t]
      PROVE  t \in ToSet(tickables'[f])
  <2>1. f \in Flags
    BY <1>3, TickFacts
  <2>2. t \in ToSet(tickable_queue) \/ t \in ToSet(tickables[f])
    BY DEF ListsOK
  <2>3. QED
    BY <1>2, <2>1, <2>2
<1>6. QED
  BY <1>1, <1>2, <1>4, <1>5 DEF ListsOK

LEMMA ListsStep ==
    ASSUME QueuedFirst, TickTypeOK, ListsOK, [TickNext]_tickVars
    PROVE  ListsOK'
<1>1. CASE Call \/ EndPass \/ UNCHANGED tickVars
  BY <1>1 DEF Call, EndPass, tickVars, ListsOK
<1>2. QED
  BY <1>1, ConstructLists, DestructLists, BeginLists DEF TickNext

-----------------------------------------------------------------------------
(* Calls.                                                                  *)

LEMMA SingleFlag ==
    ASSUME OneFlag, NEW t \in Tickables, NEW f \in TickFlags[t], NEW g \in TickFlags[t]
    PROVE  f = g
<1> DEFINE S == TickFlags[t]
<1>1. S \subseteq Flags /\ Cardinality(S) <= 1
  BY TickAssumption DEF OneFlag
<1>2. IsFiniteSet(Flags)
  <2>1. IsFiniteSet({}) /\ Flags = (({} \cup {"Fixed"}) \cup {"Variable"}) \cup {"Late"}
    BY FS_EmptySet DEF Flags
  <2>2. QED
    BY <2>1, FS_AddElement
<1>3. IsFiniteSet(S) /\ Cardinality(S) \in Nat
  BY <1>1, <1>2, FS_Subset, FS_CardinalityType
<1>4. IsFiniteSet(S \ {f}) /\ Cardinality(S \ {f}) = Cardinality(S) - 1
  BY <1>3, FS_RemoveElement
<1>5. Cardinality(S \ {f}) \in Nat
  BY <1>4, FS_CardinalityType
<1> HIDE DEF S
<1>6. Cardinality(S \ {f}) = 0
  BY <1>1, <1>3, <1>4, <1>5
<1>7. S \ {f} = {}
  BY <1>4, <1>6, FS_EmptySet
<1>8. QED
  BY <1>7 DEF S

LEMMA CallsStart ==
    ASSUME TickInit
    PROVE  CallsOK
BY DEF TickInit, CallsOK, CalledOncePerFrame, NoCalls, Passes

LEMMA ConstructCalls ==
    ASSUME TickTypeOK, ListsOK, CallsOK, NEW t \in Tickables, Construct(t)
    PROVE  CallsOK'
<1>1. pass' = pass /\ due' = due /\ position' = position /\ tickables' = tickables
  BY DEF Construct
<1>2. calls'[t]["Late"] = 0 /\ \A x \in Tickables : x # t => calls'[x] = calls[x]
  BY DEF Construct, TickTypeOK, NoCalls, Passes
<1>3. ASSUME pass # "none", NEW i \in DOMAIN tickables[pass]
      PROVE  calls'[tickables[pass][i]] = calls[tickables[pass][i]]
  <2>1. pass \in Flags
    BY <1>3, TickFacts DEF TickTypeOK
  <2>2. tickables[pass][i] \in Tickables /\ tickables[pass][i] \in constructed
    BY <2>1, TickFacts DEF ListsOK
  <2>3. QED
    BY <1>2, <2>2 DEF Construct
<1>4. QED
  BY <1>1, <1>2, <1>3 DEF CallsOK, CalledOncePerFrame

LEMMA DestructCalls ==
    ASSUME KeptDuring, TickTypeOK, CallsOK, NEW t \in Tickables, Destruct(t)
    PROVE  CallsOK'
<1>1. pass' = pass /\ due' = due /\ position' = position /\ calls' = calls
  BY DEF Destruct
<1>2. ASSUME pass # "none" PROVE tickables'[pass] = tickables[pass]
  <2>1. pass \in Flags /\ pass \notin TickFlags[t]
    BY <1>2, TickFacts DEF Destruct, TickTypeOK, KeptDuring
  <2>2. QED
    BY <2>1 DEF Destruct, Without
<1>3. QED
  BY <1>1, <1>2 DEF CallsOK, CalledOncePerFrame

LEMMA ListedIs ==
    TickTypeOK => \A f \in Flags : \A i \in DOMAIN tickables[f] :
                      i \in Nat \ {0} /\ tickables[f][i] \in Tickables
BY TickFacts

LEMMA BeginCalls ==
    ASSUME TickTypeOK, CallsOK, BeginPass
    PROVE  CallsOK'
<1>1. TickTypeOK'
  BY TickTypeStep DEF TickNext
<1>2. pass' = due /\ due' = due /\ due \in Passes /\ position' = 1
  BY DEF BeginPass, TickTypeOK
<1>3. \A t \in Tickables : calls'[t][due] = 0
  BY <1>2 DEF BeginPass, CallsOK, NoCalls, Passes
<1>4. due = "Variable" => \A t \in Tickables : calls'[t]["Late"] = 0
  BY DEF BeginPass, NoCalls, Passes
<1>5. \A f \in Flags : \A i \in DOMAIN tickables'[f] :
          i \in Nat \ {0} /\ tickables'[f][i] \in Tickables
  <2>1. TickTypeOK' => (\A f \in Flags : \A i \in DOMAIN tickables[f] :
                           i \in Nat \ {0} /\ tickables[f][i] \in Tickables)'
    BY ListedIs, PTL
  <2>2. QED
    BY <1>1, <2>1
<1>6. due \in Flags /\ due # "none"
  BY <1>2, TickFacts DEF Passes
<1>7. CalledOncePerFrame'
  BY <1>2, <1>3, <1>5, <1>6 DEF CalledOncePerFrame
<1>8. QED
  BY <1>2, <1>4, <1>6, <1>7 DEF CallsOK, Passes

LEMMA CallCalls ==
    ASSUME OneFlag, TickTypeOK, ListsOK, CallsOK, Call
    PROVE  CallsOK'
<1>1. /\ pass \in Passes /\ pass \in Flags /\ position \in DOMAIN tickables[pass]
      /\ Current \in Tickables /\ pass \in TickFlags[Current]
  BY CurrentIs DEF Call, ListsOK
<1>2. /\ pass' = pass /\ due' = due /\ tickables' = tickables /\ position' = position + 1
      /\ position \in Nat
  BY DEF Call, TickTypeOK
<1>3. /\ \A f \in Passes : calls'[Current][f] = IF f \in TickFlags[Current]
                                              THEN calls[Current][f] + 1 ELSE calls[Current][f]
      /\ \A t \in Tickables : t # Current => calls'[t] = calls[t]
  BY <1>1 DEF Call, TickTypeOK
<1>4. ASSUME pass = "Variable" PROVE calls'[Current]["Late"] = calls[Current]["Late"]
  <2>1. "Late" \notin TickFlags[Current]
    BY <1>1, <1>4, SingleFlag
  <2>2. QED
    BY <1>3, <2>1 DEF Passes
<1>5. ASSUME NEW i \in DOMAIN tickables[pass]
      PROVE  calls'[tickables[pass][i]][pass] = IF i < position + 1 THEN 1 ELSE 0
  <2>1. i \in Nat /\ tickables[pass][i] \in Tickables
    BY <1>1, TickFacts
  <2>2. calls[tickables[pass][i]][pass] = IF i < position THEN 1 ELSE 0
    BY <1>1 DEF CallsOK, CalledOncePerFrame, Passes
  <2>3. CASE i = position
    <3>1. tickables[pass][i] = Current
      BY <2>3 DEF Current
    <3>2. calls'[Current][pass] = calls[Current][pass] + 1
      BY <1>1, <1>3
    <3>3. QED
      BY <1>2, <2>1, <2>2, <2>3, <3>1, <3>2
  <2>4. CASE i # position
    <3>1. tickables[pass][i] # Current
      BY <1>1, <2>4 DEF Current, ListsOK, IsInjective
    <3>2. i < position + 1 <=> i < position
      BY <1>2, <2>1, <2>4
    <3>3. QED
      BY <1>3, <2>1, <2>2, <3>1, <3>2
  <2>5. QED
    BY <2>3, <2>4
<1>6. CalledOncePerFrame'
  BY <1>2, <1>5 DEF CalledOncePerFrame
<1>7. pass = "Variable" => \A t \in Tickables : calls'[t]["Late"] = 0
  BY <1>1, <1>3, <1>4 DEF CallsOK
<1>8. QED
  BY <1>1, <1>2, <1>6, <1>7 DEF CallsOK, Passes

LEMMA CallsStep ==
    ASSUME OneFlag, KeptDuring, TickTypeOK, ListsOK, CallsOK, [TickNext]_tickVars
    PROVE  CallsOK'
<1>1. CASE EndPass
  BY <1>1 DEF EndPass, After, CallsOK, CalledOncePerFrame, TickTypeOK, Passes
<1>2. CASE UNCHANGED tickVars
  BY <1>2 DEF tickVars, CallsOK, CalledOncePerFrame
<1>3. QED
  BY <1>1, <1>2, ConstructCalls, DestructCalls, BeginCalls, CallCalls DEF TickNext

-----------------------------------------------------------------------------
(* Theorems.                                                               *)

LEMMA TickTypeInvariance == LoopSpec => [](scope \in Scopes /\ TickTypeOK)
<1>1. LoopInit => scope \in Scopes /\ TickTypeOK
  BY TickTypeStart DEF LoopInit
<1>2. (scope \in Scopes /\ TickTypeOK) /\ [LoopNext]_loopVars => (scope \in Scopes /\ TickTypeOK)'
  BY LoopTicks, TickTypeStep
<1>3. QED
  BY <1>1, <1>2, PTL DEF LoopSpec

(* Every variable of the loop has its type: of the world, while nobody     *)
(* makes a hole or refills a chunk, and of the tickables, whatever their   *)
(* owners do (World, ticksystem).                                          *)
THEOREM LoopTypeCorrect ==
    ASSUME NoHoles, RowsFit
    PROVE  LoopSpec => []LoopTypeOK
<1>1. LoopSpec => []WorldTypeOK
  BY WorldTypeCorrect
<1>2. WorldTypeOK /\ TickTypeOK => LoopTypeOK
  BY DEF LoopTypeOK
<1>3. QED
  BY <1>1, <1>2, TickTypeInvariance, PTL

LEMMA ListsInvariance ==
    ASSUME QueuedFirst
    PROVE  LoopSpec => []ListsOK
<1>1. LoopInit => ListsOK
  BY ListsStart DEF LoopInit
<1>2. (scope \in Scopes /\ TickTypeOK) /\ ListsOK /\ [LoopNext]_loopVars => ListsOK'
  BY LoopTicks, ListsStep
<1>3. QED
  BY <1>1, <1>2, TickTypeInvariance, PTL DEF LoopSpec

(* Whatever is queued, listed or about to be called exists, and is queued  *)
(* or listed once, though the destructor does not look at the queue and    *)
(* callbacks make and destroy tickables (unregister_tickable, tick).       *)
THEOREM TickablesStayLive ==
    ASSUME QueuedFirst, OneFlag
    PROVE  LoopSpec => []TickablesLive
<1>1. ASSUME TickTypeOK, ListsOK PROVE TickablesLive
  <2> DEFINE a == tickables["Fixed"] \o tickables["Variable"]
             b == a \o tickables["Late"]
             c == b \o tickable_queue
  <2>1. "Fixed" \in Flags /\ "Variable" \in Flags /\ "Late" \in Flags
    BY DEF Flags
  <2>2. \A f \in Flags : tickables[f] \in Seq(Tickables) /\ ToSet(tickables[f]) \subseteq Tickables
    BY <1>1, TickFacts DEF ListsOK
  <2>3. \A f, g \in Flags : f # g => ToSet(tickables[f]) \cap ToSet(tickables[g]) = {}
    BY <1>1, <2>2, SingleFlag DEF ListsOK
  <2>4. /\ a \in Seq(Tickables) /\ IsInjective(a)
        /\ ToSet(a) = ToSet(tickables["Fixed"]) \cup ToSet(tickables["Variable"])
    <3>1. \A f \in Flags : IsInjective(tickables[f])
      BY <1>1 DEF ListsOK
    <3>2. ToSet(tickables["Fixed"]) \cap ToSet(tickables["Variable"]) = {}
      BY <2>1, <2>3
    <3>3. QED
      BY <2>1, <2>2, <3>1, <3>2, Joined
  <2> HIDE DEF a
  <2>5. ToSet(a) \cap ToSet(tickables["Late"]) = {}
    BY <2>1, <2>3, <2>4
  <2>6. /\ b \in Seq(Tickables) /\ IsInjective(b)
        /\ ToSet(b) = ToSet(a) \cup ToSet(tickables["Late"])
    BY <1>1, <2>1, <2>2, <2>4, <2>5, Joined DEF ListsOK
  <2> HIDE DEF b
  <2>7. ToSet(b) \cap ToSet(tickable_queue) = {} /\ ToSet(b) \subseteq constructed
    BY <1>1, <2>1, <2>4, <2>6 DEF ListsOK
  <2>8. IsInjective(c) /\ ToSet(c) = ToSet(b) \cup ToSet(tickable_queue)
    BY <1>1, <2>6, <2>7, TickFacts, Joined DEF ListsOK
  <2>9. IsInjective(c) /\ ToSet(c) \subseteq constructed
    BY <1>1, <2>7, <2>8 DEF ListsOK
  <2>10. QED
    BY <2>9 DEF TickablesLive, a, b
<1>2. QED
  BY <1>1, TickTypeInvariance, ListsInvariance, PTL

LEMMA CallsInvariance ==
    ASSUME QueuedFirst, OneFlag, KeptDuring
    PROVE  LoopSpec => []CallsOK
<1>1. LoopInit => CallsOK
  BY CallsStart DEF LoopInit
<1>2. /\ scope \in Scopes /\ TickTypeOK
      /\ ListsOK /\ CallsOK /\ [LoopNext]_loopVars
      => CallsOK'
  BY LoopTicks, CallsStep
<1>3. QED
  BY <1>1, <1>2, TickTypeInvariance, ListsInvariance, PTL DEF LoopSpec

(* A pass has called everyone it is past exactly once in the frame, and    *)
(* nobody else yet, however callbacks change the queue and the other lists *)
(* (tick).                                                                 *)
THEOREM OneCallPerFrame ==
    ASSUME QueuedFirst, OneFlag, KeptDuring
    PROVE  LoopSpec => []CalledOncePerFrame
<1>1. CallsOK => CalledOncePerFrame
  BY DEF CallsOK
<1>2. QED
  BY <1>1, CallsInvariance, PTL

(* When a pass is over, everyone who exists, can tick, was not queued      *)
(* since and has its flag was called in it, exactly once: registration     *)
(* loses nobody, and no change during the pass makes it skip one (tick).   *)
THEOREM PassesSkipNobody ==
    ASSUME QueuedFirst, OneFlag, KeptDuring
    PROVE  LoopSpec => []NobodySkipped
<1>1. ASSUME TickTypeOK, ListsOK, CallsOK PROVE NobodySkipped
  <2> SUFFICES ASSUME pass # "none", ~InPass,
                      NEW t \in (constructed \ ToSet(tickable_queue)) \cap CanTick,
                      pass \in TickFlags[t]
               PROVE  calls[t][pass] = 1
    BY DEF NobodySkipped
  <2>1. pass \in Flags
    BY <1>1, TickFacts DEF TickTypeOK
  <2>2. t \in ToSet(tickables[pass])
    BY <1>1 DEF ListsOK
  <2>3. PICK i \in DOMAIN tickables[pass] : tickables[pass][i] = t
    BY <2>2 DEF ToSet
  <2>4. i < position
    <3>1. /\ DOMAIN tickables[pass] = 1 .. Len(tickables[pass])
          /\ Len(tickables[pass]) \in Nat /\ position \in Nat
      BY <1>1, <2>1, TickFacts, LenProperties DEF TickTypeOK
    <3>2. ~(position <= Len(tickables[pass]))
      BY DEF InPass
    <3>3. QED
      BY <3>1, <3>2
  <2>5. QED
    BY <1>1, <2>3, <2>4 DEF CallsOK, CalledOncePerFrame
<1>2. QED
  BY <1>1, TickTypeInvariance, ListsInvariance, CallsInvariance, PTL

LEMMA TwiceStep ==
    ASSUME OneFlag, TickTypeOK, ListsOK, CallsOK, NobodyTwice, [TickNext]_tickVars
    PROVE  NobodyTwice'
<1>1. ASSUME NEW t \in Tickables, Construct(t) PROVE NobodyTwice'
  BY <1>1 DEF Construct, NobodyTwice, TickTypeOK, NoCalls, Passes
<1>2. CASE BeginPass
  BY <1>2 DEF BeginPass, NobodyTwice, NoCalls, Passes
<1>3. CASE Call
  <2>1. /\ pass \in Passes /\ pass \in Flags /\ position \in DOMAIN tickables[pass]
        /\ Current \in Tickables /\ pass \in TickFlags[Current]
    BY <1>3, CurrentIs DEF Call, ListsOK
  <2>2. calls[Current][pass] = 0
    <3>1. calls[Current][pass] = IF position < position THEN 1 ELSE 0
      BY <2>1 DEF CallsOK, CalledOncePerFrame, Current, Passes
    <3>2. ~(position < position)
      BY DEF TickTypeOK
    <3>3. QED
      BY <3>1, <3>2
  <2>3. ASSUME NEW f \in Passes PROVE calls'[Current][f] <= 1
    <3>1. calls'[Current][f] = IF f \in TickFlags[Current]
                               THEN calls[Current][f] + 1 ELSE calls[Current][f]
      BY <1>3, <2>1 DEF Call, TickTypeOK
    <3>2. f \in TickFlags[Current] => f = pass
      BY <2>1, SingleFlag
    <3>3. calls[Current][f] <= 1
      BY <2>1 DEF NobodyTwice
    <3>4. QED
      BY <2>2, <3>1, <3>2, <3>3
  <2>4. \A t \in Tickables : t # Current => calls'[t] = calls[t]
    BY <1>3, <2>1 DEF Call, TickTypeOK
  <2>5. QED
    BY <2>1, <2>3, <2>4 DEF NobodyTwice
<1>4. ASSUME UNCHANGED calls PROVE NobodyTwice'
  BY <1>4 DEF NobodyTwice
<1>5. (\E t \in Tickables : Destruct(t)) \/ EndPass \/ UNCHANGED tickVars => UNCHANGED calls
  BY DEF Destruct, EndPass, tickVars
<1>6. QED
  BY <1>1, <1>2, <1>3, <1>4, <1>5 DEF TickNext

(* variable_tick and late_tick of an object run at most once in a frame,   *)
(* also when the object left its list after its call (tick, loop).         *)
THEOREM TickedOnce ==
    ASSUME QueuedFirst, OneFlag, KeptDuring
    PROVE  LoopSpec => []NobodyTwice
<1>1. LoopInit => NobodyTwice
  BY DEF LoopInit, TickInit, NobodyTwice, NoCalls, Passes
<1>2. /\ scope \in Scopes /\ TickTypeOK
      /\ ListsOK /\ CallsOK /\ NobodyTwice /\ [LoopNext]_loopVars
      => NobodyTwice'
  BY LoopTicks, TwiceStep
<1>3. QED
  BY <1>1, <1>2, TickTypeInvariance, ListsInvariance, CallsInvariance, PTL DEF LoopSpec
=============================================================================
