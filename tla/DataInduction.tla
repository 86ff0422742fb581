---------------------------- MODULE DataInduction ----------------------------
(***************************************************************************)
(* Induction over the naturals for a set instead of a predicate.  The          *)
(* library's induction theorems are stated for an operator, which the provers    *)
(* here cannot instantiate; its theorem that a well-founded relation has          *)
(* minimal elements is stated for a set, and says as much.  With it, what         *)
(* FlattenSeq of the community modules makes of one sequence more.               *)
(***************************************************************************)
EXTENDS Integers, SequencesExt, SequenceTheorems, WellFoundedInduction, TLAPS

LessThan == {p \in Nat \X Nat : p[1] < p[2]}

LEMMA LessThanIsWellFounded == IsWellFoundedOn(LessThan, Nat)
  BY NatLessThanWellFounded DEF LessThan, OpToRel

LEMMA LeastNatural ==
    ASSUME NEW T \in SUBSET Nat, T # {}
    PROVE  \E x \in T : \A y \in T : x <= y
  <1>1. \E x \in T : \A y \in T : <<y, x>> \notin LessThan
    BY LessThanIsWellFounded, WFMin
  <1>2. \A x, y \in Nat : <<y, x>> \in LessThan <=> y < x
    BY DEF LessThan
  <1>3. \A x, y \in Nat : ~(y < x) => x <= y
    OBVIOUS
  <1> QED
    BY <1>1, <1>2, <1>3

\* A set of naturals with 0 and every successor of its members is all of them.
LEMMA SetInduction ==
    ASSUME NEW T \in SUBSET Nat, 0 \in T, \A n \in T : n + 1 \in T
    PROVE  T = Nat
  <1> SUFFICES ASSUME Nat \ T # {} PROVE FALSE
    OBVIOUS
  <1>1. PICK x \in Nat \ T : \A y \in Nat \ T : x <= y
    BY LeastNatural
  <1>2. x # 0 /\ x - 1 \in T
    BY <1>1
  <1> QED
    BY <1>1, <1>2

-----------------------------------------------------------------------------
(* Sequences flattened.                                                      *)

\* f holds the elements of s run together, from the first to each.
Running(s, f) == f = [i \in 1..Len(s) |-> IF i = 1 THEN s[i] ELSE f[i - 1] \o s[i]]

LEMMA RunningStep ==
    ASSUME NEW S, NEW n \in Nat, NEW s \in Seq(Seq(S)), Len(s) = n + 1,
           NEW f \in [1..n -> Seq(S)], Running(SubSeq(s, 1, n), f)
    PROVE  \E g \in [1..(n + 1) -> Seq(S)] : Running(s, g)
  <1> DEFINE last == IF n = 0 THEN s[1] ELSE f[n] \o s[n + 1]
             g == [i \in 1..(n + 1) |-> IF i = n + 1 THEN last ELSE f[i]]
  <1>1. \A i \in 1..n : f[i] = IF i = 1 THEN s[i] ELSE f[i - 1] \o s[i]
    <2>1. SubSeq(s, 1, n) \in Seq(Seq(S)) /\ Len(SubSeq(s, 1, n)) = n
          /\ \A i \in 1..n : SubSeq(s, 1, n)[i] = s[i]
      OBVIOUS
    <2> QED
      BY <2>1 DEF Running
  <1>2. \A i \in 1..(n + 1) : s[i] \in Seq(S)
    OBVIOUS
  <1>3. last \in Seq(S)
    <2>1. CASE n = 0
      BY <1>2, <2>1
    <2>2. CASE n # 0
      <3>1. f[n] \in Seq(S) /\ s[n + 1] \in Seq(S)
        BY <1>2, <2>2
      <3> QED
        BY <2>2, <3>1
    <2> QED
      BY <2>1, <2>2
  <1>4. g \in [1..(n + 1) -> Seq(S)]
    <2> HIDE DEF last
    <2> QED
      BY <1>3
  <1>5. ASSUME NEW i \in 1..(n + 1)
        PROVE  g[i] = IF i = 1 THEN s[i] ELSE g[i - 1] \o s[i]
    <2>1. CASE i = n + 1 /\ n = 0
      BY <2>1
    <2>2. CASE i = n + 1 /\ n # 0
      <3>1. n \in 1..(n + 1) /\ n + 1 \in 1..(n + 1) /\ n # n + 1 /\ (n + 1) - 1 = n /\ n + 1 # 1
        BY <2>2
      <3>2. last = f[n] \o s[n + 1]
        BY <2>2
      <3> HIDE DEF last
      <3>3. g[n + 1] = last /\ g[n] = f[n]
        BY <3>1
      <3> HIDE DEF g
      <3> QED
        BY <2>2, <3>1, <3>2, <3>3
    <2>3. CASE i # n + 1
      <3>1. i \in 1..n /\ g[i] = f[i] /\ (i # 1 => g[i - 1] = f[i - 1])
        BY <2>3
      <3> QED
        BY <1>1, <3>1
    <2> QED
      BY <2>1, <2>2, <2>3
  <1>6. Running(s, g)
    <2>1. g = [i \in 1..(n + 1) |-> IF i = 1 THEN s[i] ELSE g[i - 1] \o s[i]]
      <3>1. DOMAIN g = 1..(n + 1)
        OBVIOUS
      <3> HIDE DEF g
      <3> QED
        BY <1>4, <1>5
    <2> QED
      BY <2>1 DEF Running
  <1> QED
    BY <1>4, <1>6

LEMMA RunningExists ==
    ASSUME NEW S
    PROVE  \A s \in Seq(Seq(S)) : \E f \in [1..Len(s) -> Seq(S)] : Running(s, f)
  <1> DEFINE T == {n \in Nat : \A s \in Seq(Seq(S)) :
                     Len(s) = n => \E f \in [1..n -> Seq(S)] : Running(s, f)}
  <1>1. 0 \in T
    <2> SUFFICES ASSUME NEW s \in Seq(Seq(S)), Len(s) = 0
                 PROVE  \E f \in [1..0 -> Seq(S)] : Running(s, f)
      OBVIOUS
    <2> DEFINE f == [i \in 1..0 |-> <<>>]
    <2>1. f \in [1..0 -> Seq(S)] /\ Running(s, f)
      BY DEF Running
    <2> QED
      BY <2>1
  <1>2. ASSUME NEW n \in T PROVE n + 1 \in T
    <2>1. n \in Nat /\ n + 1 \in Nat
      OBVIOUS
    <2>2. ASSUME NEW s \in Seq(Seq(S)), Len(s) = n + 1
          PROVE  \E g \in [1..(n + 1) -> Seq(S)] : Running(s, g)
      <3>1. SubSeq(s, 1, n) \in Seq(Seq(S)) /\ Len(SubSeq(s, 1, n)) = n
        BY <2>1, <2>2
      <3>2. PICK f \in [1..n -> Seq(S)] : Running(SubSeq(s, 1, n), f)
        BY <1>2, <3>1
      <3> QED
        BY <2>1, <2>2, <3>2, RunningStep
    <2> QED
      BY <2>1, <2>2
  <1>3. T = Nat
    <2> HIDE DEF T
    <2>1. T \in SUBSET Nat
      BY DEF T
    <2> QED
      BY <1>1, <1>2, <2>1, SetInduction
  <1> QED
    <2> SUFFICES ASSUME NEW s \in Seq(Seq(S))
                 PROVE  \E f \in [1..Len(s) -> Seq(S)] : Running(s, f)
      OBVIOUS
    <2>1. Len(s) \in T
      BY <1>3
    <2> QED
      BY <2>1

LEMMA RunningUnique ==
    ASSUME NEW S, NEW s \in Seq(Seq(S)), NEW f, NEW g, Running(s, f), Running(s, g)
    PROVE  f = g
  <1> DEFINE T == {k \in Nat : k \in 1..Len(s) => f[k] = g[k]}
  <1>1. /\ DOMAIN f = 1..Len(s) /\ DOMAIN g = 1..Len(s)
        /\ \A i \in 1..Len(s) : f[i] = IF i = 1 THEN s[i] ELSE f[i - 1] \o s[i]
        /\ \A i \in 1..Len(s) : g[i] = IF i = 1 THEN s[i] ELSE g[i - 1] \o s[i]
    BY DEF Running
  <1>2. 0 \in T
    OBVIOUS
  <1>3. ASSUME NEW n \in T PROVE n + 1 \in T
    <2>1. n + 1 \in Nat /\ n \in Nat /\ (n \in 1..Len(s) => f[n] = g[n])
      OBVIOUS
    <2>2. ASSUME n + 1 \in 1..Len(s) PROVE f[n + 1] = g[n + 1]
      <3> HIDE DEF T
      <3>1. CASE n = 0
        <4>1. n + 1 = 1
          BY <3>1
        <4> QED
          BY <1>1, <2>2, <4>1
      <3>2. CASE n # 0
        <4>1. n \in 1..Len(s) /\ (n + 1) - 1 = n /\ n + 1 # 1
          BY <2>1, <2>2, <3>2
        <4>2. f[n] = g[n]
          BY <2>1, <4>1
        <4>3. /\ f[n + 1] = IF n + 1 = 1 THEN s[n + 1] ELSE f[(n + 1) - 1] \o s[n + 1]
              /\ g[n + 1] = IF n + 1 = 1 THEN s[n + 1] ELSE g[(n + 1) - 1] \o s[n + 1]
          BY <1>1, <2>2, Zenon
        <4> QED
          BY <4>1, <4>2, <4>3, Zenon
      <3> QED
        BY <3>1, <3>2
    <2> QED
      BY <2>1, <2>2
  <1>4. T = Nat
    <2> HIDE DEF T
    <2>1. T \in SUBSET Nat
      BY DEF T
    <2> QED
      BY <1>2, <1>3, <2>1, SetInduction
  <1>5. \A k \in 1..Len(s) : f[k] = g[k]
    <2>1. \A k \in 1..Len(s) : k \in T
      BY <1>4
    <2> QED
      BY <2>1
  <1>6. f = [i \in 1..Len(s) |-> f[i]] /\ g = [i \in 1..Len(s) |-> g[i]]
    BY DEF Running
  <1> QED
    BY <1>5, <1>6

LEMMA FlattenIs ==
    ASSUME NEW S, NEW s \in Seq(Seq(S)), Len(s) # 0, NEW f, Running(s, f)
    PROVE  FlattenSeq(s) = f[Len(s)]
  <1> DEFINE F == CHOOSE g : Running(s, g)
  <1>1. Running(s, F)
    OBVIOUS
  <1>2. F = f
    <2> HIDE DEF F
    <2> QED
      BY <1>1, RunningUnique
  <1>3. FlattenSeq(s) = F[Len(s)]
    BY DEF FlattenSeq, Running
  <1> QED
    BY <1>2, <1>3

LEMMA FlattenType ==
    ASSUME NEW S, NEW s \in Seq(Seq(S))
    PROVE  FlattenSeq(s) \in Seq(S)
  <1>1. CASE Len(s) = 0
    <2>1. s = <<>> /\ FlattenSeq(s) = s
      BY <1>1, EmptySeq DEF FlattenSeq
    <2> QED
      BY <2>1, EmptySeq
  <1>2. CASE Len(s) # 0
    <2>1. PICK f \in [1..Len(s) -> Seq(S)] : Running(s, f)
      BY RunningExists
    <2>2. FlattenSeq(s) = f[Len(s)]
      BY <1>2, <2>1, FlattenIs
    <2>3. Len(s) \in 1..Len(s)
      BY <1>2
    <2>4. f[Len(s)] \in Seq(S)
      BY <2>1, <2>3
    <2> QED
      BY <2>2, <2>4
  <1> QED
    BY <1>1, <1>2

LEMMA FlattenAppend ==
    ASSUME NEW S, NEW s \in Seq(Seq(S)), NEW x \in Seq(S)
    PROVE  FlattenSeq(Append(s, x)) = FlattenSeq(s) \o x
  <1>1. PICK t \in Seq(Seq(S)), n \in Nat : t = Append(s, x) /\ n = Len(s)
    <2>1. Append(s, x) \in Seq(Seq(S)) /\ Len(s) \in Nat
      OBVIOUS
    <2> QED
      BY <2>1
  <1>2. Len(t) = n + 1 /\ t[n + 1] = x /\ \A i \in 1..n : t[i] = s[i]
    BY <1>1
  <1>3. PICK g \in [1..(n + 1) -> Seq(S)] : Running(t, g)
    BY <1>2, RunningExists
  <1>4. FlattenSeq(t) = g[n + 1]
    BY <1>2, <1>3, FlattenIs
  <1>5. \A i \in 1..(n + 1) : g[i] = IF i = 1 THEN t[i] ELSE g[i - 1] \o t[i]
    BY <1>2, <1>3 DEF Running
  <1>6. CASE n = 0
    <2>1. s = <<>> /\ FlattenSeq(s) = s
      BY <1>1, <1>6, EmptySeq DEF FlattenSeq
    <2>2. 1 \in 1..(n + 1) /\ n + 1 = 1
      BY <1>6
    <2>3. g[1] = t[1]
      BY <1>5, <2>2
    <2>4. FlattenSeq(t) = x
      BY <1>2, <1>4, <2>2, <2>3
    <2>5. <<>> \o x = x
      OBVIOUS
    <2> QED
      BY <1>1, <2>1, <2>4, <2>5
  <1>7. CASE n # 0
    <2>1. PICK f \in [1..n -> Seq(S)] : Running(s, f)
      <3>1. \E f \in [1..Len(s) -> Seq(S)] : Running(s, f)
        BY RunningExists
      <3> QED
        BY <1>1, <3>1
    <2> DEFINE h == [i \in 1..n |-> g[i]]
    <2>2. ASSUME NEW i \in 1..n PROVE h[i] = IF i = 1 THEN s[i] ELSE h[i - 1] \o s[i]
      <3>1. i \in 1..(n + 1) /\ h[i] = g[i] /\ (i # 1 => h[i - 1] = g[i - 1]) /\ t[i] = s[i]
        BY <1>2
      <3> QED
        BY <1>5, <3>1
    <2>3. Running(s, h)
      <3>1. h = [i \in 1..n |-> h[i]]
        OBVIOUS
      <3> HIDE DEF h
      <3> QED
        BY <1>1, <2>2, <3>1 DEF Running
    <2>4. h = f
      <3> HIDE DEF h
      <3> QED
        BY <2>1, <2>3, RunningUnique
    <2>5. FlattenSeq(s) = g[n]
      <3>1. FlattenSeq(s) = f[n]
        BY <1>1, <1>7, <2>1, FlattenIs
      <3>2. f[n] = g[n]
        BY <1>7, <2>4
      <3> QED
        BY <3>1, <3>2
    <2>6. g[n + 1] = g[n] \o x
      <3>1. n + 1 \in 1..(n + 1) /\ n + 1 # 1 /\ (n + 1) - 1 = n
        BY <1>7
      <3> QED
        BY <1>2, <1>5, <3>1
    <2> QED
      BY <1>1, <1>4, <2>5, <2>6
  <1> QED
    BY <1>6, <1>7

=============================================================================
