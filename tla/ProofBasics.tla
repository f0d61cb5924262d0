---------------------------- MODULE ProofBasics ----------------------------
(***************************************************************************)
(* What the proofs about several models need: induction over the numbers   *)
(* as a fact about sets, loops whose steps are functions, orders of a      *)
(* finite set, and the callbacks that tell the app of a connection.        *)
(***************************************************************************)
EXTENDS Integers, Sequences, FiniteSets, SequencesExt, TLAPS, FiniteSetTheorems,
        WellFoundedInduction

-----------------------------------------------------------------------------
(* Numbers.                                                                *)

\* < is well-founded: this is all the induction there is here.
LEMMA NatLeast ==
  ASSUME NEW S \in SUBSET Nat, S # {}
  PROVE  \E n \in S : \A m \in S : n <= m
<1>1. \E n \in S : \A m \in S : <<m, n>> \notin OpToRel(<, Nat)
  BY NatLessThanWellFounded, WFMin
<1>2. OpToRel(<, Nat) = {ss \in Nat \X Nat : ss[1] < ss[2]}
  BY Zenon DEF OpToRel
<1>3. PICK n \in S : \A m \in S : <<m, n>> \notin {ss \in Nat \X Nat : ss[1] < ss[2]}
  BY <1>1, <1>2
<1>4. \A m \in S : ~(m < n)
  BY <1>3
<1> QED BY <1>4

\* What holds of 0, and of n + 1 if of n, holds of all numbers.
LEMMA NatStep ==
  ASSUME NEW H \in SUBSET Nat, 0 \in H, \A n \in H : n + 1 \in H
  PROVE  H = Nat
<1> SUFFICES ASSUME Nat \ H # {} PROVE FALSE
  OBVIOUS
<1>1. PICK n \in Nat \ H : \A m \in Nat \ H : n <= m
  BY NatLeast
<1>2. n # 0 /\ n - 1 \in Nat /\ (n - 1) + 1 = n /\ ~(n <= n - 1)
  BY <1>1
<1>3. n - 1 \in H
  BY <1>1, <1>2
<1> QED BY <1>2, <1>3, <1>1

\* A finite set has a minimal element in every order: one with the fewest
\* elements before it.
LEMMA FiniteMinimal ==
  ASSUME NEW S, IsFiniteSet(S), S # {}, NEW R,
         \A x \in S : <<x, x>> \notin R,
         \A x, y, z \in S : <<x, y>> \in R /\ <<y, z>> \in R => <<x, z>> \in R
  PROVE  \E m \in S : \A x \in S : <<x, m>> \notin R
<1> DEFINE Lower == [x \in S |-> {y \in S : <<y, x>> \in R}]
           Size == [x \in S |-> Cardinality(Lower[x])]
           Sizes == {Size[x] : x \in S}
<1>1. \A x \in S : IsFiniteSet(Lower[x]) /\ Cardinality(Lower[x]) \in Nat
  BY FS_Subset, FS_CardinalityType
<1>2. ASSUME NEW x \in S, NEW y \in S, <<y, x>> \in R PROVE Size[y] < Size[x]
  <2>1. Lower[y] \subseteq Lower[x] /\ Lower[y] # Lower[x]
    BY <1>2
  <2> HIDE DEF Lower
  <2>2. Cardinality(Lower[y]) <= Cardinality(Lower[x]) /\ Cardinality(Lower[y]) # Cardinality(Lower[x])
    BY <1>1, <2>1, FS_Subset
  <2> QED BY <1>1, <2>2
<1>3. \A x \in S : Size[x] \in Nat
  BY <1>1
<1> HIDE DEF Size
<1>4. Sizes \in SUBSET Nat /\ Sizes # {}
  BY <1>3
<1>5. PICK n \in Sizes : \A m \in Sizes : n <= m
  <2> HIDE DEF Sizes
  <2> QED BY <1>4, NatLeast
<1>6. PICK x \in S : n = Size[x]
  OBVIOUS
<1>7. \A y \in S : ~(Size[y] < Size[x])
  BY <1>3, <1>5, <1>6
<1> QED BY <1>2, <1>7

LEMMA ImageIsFinite ==
  ASSUME NEW S, IsFiniteSet(S), NEW g
  PROVE  IsFiniteSet({g[x] : x \in S})
<1> DEFINE h == [x \in S |-> g[x]]
           T == {g[x] : x \in S}
<1>1. h \in [S -> T] /\ \A y \in T : \E x \in S : h[x] = y
  OBVIOUS
<1> HIDE DEF h, T
<1>2. h \in Surjection(S, T)
  BY <1>1 DEF Surjection
<1> QED BY <1>2, FS_Surjection DEF T

LEMMA MinIsThere ==
  ASSUME NEW S \in SUBSET Nat, S # {}
  PROVE  Min(S) \in S /\ \A x \in S : Min(S) <= x
<1>1. \E n \in S : \A m \in S : n <= m
  BY NatLeast
<1> QED BY <1>1 DEF Min

LEMMA MaxIsThere ==
  ASSUME NEW S \in SUBSET Nat, S # {}, IsFiniteSet(S)
  PROVE  Max(S) \in S /\ \A x \in S : x <= Max(S)
<1> DEFINE R == {p \in S \X S : p[1] > p[2]}
<1>1. \A x, y \in S : <<x, y>> \in R <=> x > y
  OBVIOUS
<1> HIDE DEF R
<1>2. \A x, y, z \in S : ~(x > x) /\ (x > y /\ y > z => x > z)
  OBVIOUS
<1>3. /\ \A x \in S : <<x, x>> \notin R
      /\ \A x, y, z \in S : <<x, y>> \in R /\ <<y, z>> \in R => <<x, z>> \in R
  BY <1>1, <1>2
<1>4. PICK m \in S : \A x \in S : <<x, m>> \notin R
  BY <1>3, FiniteMinimal
<1>5. ASSUME NEW x \in S PROVE m >= x
  <2>1. ~(x > m) /\ x \in Nat /\ m \in Nat
    BY <1>1, <1>4
  <2> QED BY <2>1
<1>6. \E x \in S : \A y \in S : x >= y
  BY <1>5
<1>7. Max(S) \in S /\ \A y \in S : Max(S) >= y
  <2>1. Max(S) = CHOOSE x \in S : \A y \in S : x >= y
    BY DEF Max
  <2> QED BY <1>6, <2>1
<1> QED BY <1>7

LEMMA MaxUpTo ==
  ASSUME NEW n \in Nat, NEW S \in SUBSET (1 .. n), S # {}
  PROVE  Max(S) \in S /\ \A i \in S : i <= Max(S)
<1>1. S \in SUBSET Nat
  OBVIOUS
<1>2. IsFiniteSet(1 .. n)
  BY FS_Interval
<1>3. S \subseteq 1 .. n
  OBVIOUS
<1>4. IsFiniteSet(S)
  BY <1>2, <1>3, FS_Subset
<1> QED BY <1>1, <1>4, MaxIsThere

-----------------------------------------------------------------------------
(* Loops and orders.                                                       *)

\* A loop defines a function: a recursive definition by steps in a set has a
\* value.
LEMMA LoopIsDefined ==
  ASSUME NEW S, NEW a \in S, NEW step \in [S -> S]
  PROVE  \E g \in [Nat -> S] : g = [n \in Nat |-> IF n = 0 THEN a ELSE step[g[n - 1]]]
<1> DEFINE IsRun(f, n) == f[0] = a /\ \A i \in 0 .. n - 1 : f[i + 1] = step[f[i]]
           H == {n \in Nat : \E f \in [Nat -> S] : IsRun(f, n)}
<1>1. H = Nat
  <2>1. 0 \in H
    <3>1. IsRun([i \in Nat |-> a], 0)
      OBVIOUS
    <3> HIDE DEF IsRun
    <3> QED BY <3>1
  <2>2. ASSUME NEW n \in H PROVE n + 1 \in H
    <3>1. PICK f \in [Nat -> S] : IsRun(f, n)
      OBVIOUS
    <3>2. f[n] \in S /\ step[f[n]] \in S
      OBVIOUS
    <3> DEFINE f1 == [f EXCEPT ![n + 1] = step[f[n]]]
    <3>3. f1 \in [Nat -> S] /\ IsRun(f1, n + 1)
      BY <3>1, <3>2
    <3> HIDE DEF IsRun, f1
    <3> QED BY <3>3
  <2> HIDE DEF H
  <2> QED BY <2>1, <2>2, NatStep DEF H
<1> DEFINE run == [n \in Nat |-> CHOOSE f \in [Nat -> S] : IsRun(f, n)]
<1>2. \A n \in Nat : run[n] \in [Nat -> S] /\ IsRun(run[n], n)
  <2> HIDE DEF IsRun
  <2> QED BY <1>1
<1> HIDE DEF run, H
\* Two runs agree as far as both go.
<1>3. ASSUME NEW n \in Nat PROVE \A i \in 0 .. n : run[n][i] = run[n + 1][i]
  <2> DEFINE A == {i \in Nat : i <= n => run[n][i] = run[n + 1][i]}
  <2>1. 0 \in A
    BY <1>2
  <2>2. ASSUME NEW i \in A PROVE i + 1 \in A
    <3>1. CASE ~(i + 1 <= n)
      BY <3>1
    <3>2. CASE i + 1 <= n
      <4>1. run[n][i + 1] = step[run[n][i]] /\ run[n + 1][i + 1] = step[run[n + 1][i]]
        BY <1>2, <3>2
      <4> QED BY <3>2, <4>1
    <3> QED BY <3>1, <3>2
  <2>3. A = Nat
    <3> HIDE DEF A
    <3> QED BY <2>1, <2>2, NatStep DEF A
  <2> QED BY <2>3
<1> DEFINE g == [n \in Nat |-> run[n][n]]
<1>4. g \in [Nat -> S]
  BY <1>2
<1>5. g[0] = a
  BY <1>2
<1>6. ASSUME NEW n \in Nat, n # 0 PROVE g[n] = step[g[n - 1]]
  <2>1. n - 1 \in Nat /\ (n - 1) + 1 = n /\ n - 1 \in 0 .. n - 1
    BY <1>6
  <2>2. run[n][n] = step[run[n][n - 1]]
    BY <1>2, <2>1
  <2>3. run[n - 1][n - 1] = run[n][n - 1]
    BY <1>3, <2>1
  <2> QED BY <2>1, <2>2, <2>3
<1>7. g = [n \in Nat |-> IF n = 0 THEN a ELSE step[g[n - 1]]]
  BY <1>4, <1>5, <1>6
<1> HIDE DEF g
<1> QED BY <1>4, <1>7

\* What g says of each turn of a loop over 1 .. n.
IsLoop(g, S, n, a, step) ==
  g \in [0 .. n -> S] /\ g[0] = a /\ \A i \in 1 .. n : g[i] = step[i][g[i - 1]]

\* The loop has a result.
LEMMA LoopRuns ==
  ASSUME NEW S, NEW a \in S, NEW n \in Nat, NEW step \in [1 .. n -> [S -> S]]
  PROVE  \E g : IsLoop(g, S, n, a, step)
<1> DEFINE IsRun(f, m) == f[0] = a /\ \A i \in 1 .. m : f[i] = step[i][f[i - 1]]
           H == {m \in Nat : m <= n => \E f \in [0 .. m -> S] : IsRun(f, m)}
<1>1. 0 \in H
  <2>1. [i \in 0 .. 0 |-> a] \in [0 .. 0 -> S] /\ IsRun([i \in 0 .. 0 |-> a], 0)
    OBVIOUS
  <2> HIDE DEF IsRun
  <2> QED BY <2>1
<1>2. ASSUME NEW m \in H PROVE m + 1 \in H
  <2> HIDE DEF IsRun
  <2> SUFFICES ASSUME m + 1 <= n PROVE \E f \in [0 .. m + 1 -> S] : IsRun(f, m + 1)
    OBVIOUS
  <2> USE DEF IsRun
  <2>1. PICK f \in [0 .. m -> S] : IsRun(f, m)
    OBVIOUS
  <2>2. m \in 0 .. m /\ f[m] \in S /\ m + 1 \in 1 .. n /\ step[m + 1] \in [S -> S]
    OBVIOUS
  <2> DEFINE g == [i \in 0 .. m + 1 |-> IF i = m + 1 THEN step[m + 1][f[m]] ELSE f[i]]
  <2>3. g \in [0 .. m + 1 -> S]
    BY <2>2
  <2>4. g[0] = a
    BY <2>1
  <2>5. ASSUME NEW i \in 1 .. m + 1 PROVE g[i] = step[i][g[i - 1]]
    <3>1. CASE i = m + 1
      BY <3>1, <2>2
    <3>2. CASE i # m + 1
      <4>1. i \in 1 .. m /\ i - 1 \in 0 .. m /\ i - 1 # m + 1
        BY <3>2
      <4>2. g[i] = f[i] /\ g[i - 1] = f[i - 1]
        BY <4>1, <3>2
      <4> QED BY <2>1, <4>1, <4>2
    <3> QED BY <3>1, <3>2
  <2> QED BY <2>3, <2>4, <2>5
<1>3. H = Nat
  <2> HIDE DEF H
  <2> QED BY <1>1, <1>2, NatStep DEF H
<1> QED BY <1>3 DEF IsLoop

\* What each turn keeps, the loop keeps.
LEMMA LoopStays ==
  ASSUME NEW S, NEW n \in Nat, NEW after, after[0] \in S,
         \A i \in 1 .. n : after[i - 1] \in S => after[i] \in S
  PROVE  after[n] \in S
<1> DEFINE H == {m \in Nat : m <= n => after[m] \in S}
<1>1. 0 \in H
  OBVIOUS
<1>2. ASSUME NEW m \in H PROVE m + 1 \in H
  <2>1. m + 1 <= n => m + 1 \in 1 .. n /\ (m + 1) - 1 = m /\ m <= n
    OBVIOUS
  <2> QED BY <2>1
<1>3. H = Nat
  <2> HIDE DEF H
  <2> QED BY <1>1, <1>2, NatStep DEF H
<1> QED BY <1>3

\* SetToSeq puts every element of a finite set somewhere.
LEMMA OrderOf ==
  ASSUME NEW S, IsFiniteSet(S)
  PROVE  /\ SetToSeq(S) \in Seq(S)
         /\ \A s \in S : \E i \in 1 .. Len(SetToSeq(S)) : SetToSeq(S)[i] = s
<1> DEFINE n == Cardinality(S)
           f == SetToSeq(S)
<1>1. n \in Nat /\ ExistsBijection(1 .. n, S)
  BY FS_CardinalityType
<1>2. \E g \in [1 .. n -> S] : IsInjective(g)
  BY <1>1 DEF ExistsBijection, Bijection, Injection, IsInjective
<1>3. f \in [1 .. n -> S] /\ IsInjective(f)
  BY <1>2 DEF SetToSeq
<1> HIDE DEF f
<1>4. f \in Injection(1 .. n, S)
  BY <1>3 DEF Injection, IsInjective
<1>5. Cardinality(1 .. n) = n
  BY <1>1, FS_Interval
<1>6. f \in Surjection(1 .. n, S)
  BY <1>4, <1>5, FS_Injection
<1>7. f \in Seq(S) /\ Len(f) = n
  BY <1>1, <1>3
<1>8. \A s \in S : \E i \in 1 .. n : f[i] = s
  BY <1>6 DEF Surjection
<1> QED BY <1>7, <1>8 DEF f

-----------------------------------------------------------------------------
(* Sequences.                                                              *)

\* What is in t is in s or in r.
IsMadeOf(t, s, r) ==
  /\ \A i \in DOMAIN t : (\E j \in DOMAIN s : t[i] = s[j]) \/ (\E j \in DOMAIN r : t[i] = r[j])
  /\ \A j \in DOMAIN s : \E i \in DOMAIN t : t[i] = s[j]
  /\ \A j \in DOMAIN r : \E i \in DOMAIN t : t[i] = r[j]

\* What is in two sequences put together.
LEMMA ConcatHas ==
  ASSUME NEW S, NEW s \in Seq(S), NEW r \in Seq(S)
  PROVE  s \o r \in Seq(S) /\ IsMadeOf(s \o r, s, r)
<1> DEFINE t == s \o r
<1>1. /\ t \in Seq(S) /\ Len(t) = Len(s) + Len(r) /\ Len(s) \in Nat /\ Len(r) \in Nat
      /\ DOMAIN t = 1 .. Len(t) /\ DOMAIN s = 1 .. Len(s) /\ DOMAIN r = 1 .. Len(r)
      /\ \A i \in 1 .. Len(s) : t[i] = s[i]
      /\ \A i \in 1 .. Len(r) : t[i + Len(s)] = r[i]
      /\ \A i \in 1 .. Len(t) : i > Len(s) => t[i] = r[i - Len(s)]
  OBVIOUS
<1> HIDE DEF t
<1>2. ASSUME NEW i \in DOMAIN t
      PROVE  (\E j \in DOMAIN s : t[i] = s[j]) \/ (\E j \in DOMAIN r : t[i] = r[j])
  <2>1. CASE i <= Len(s)
    BY <2>1, <1>1
  <2>2. CASE i > Len(s)
    <3>1. i - Len(s) \in DOMAIN r /\ t[i] = r[i - Len(s)]
      BY <2>2, <1>1
    <3> QED BY <3>1
  <2> QED BY <2>1, <2>2, <1>1
<1>3. ASSUME NEW j \in DOMAIN s PROVE \E i \in DOMAIN t : t[i] = s[j]
  <2>1. j \in DOMAIN t /\ t[j] = s[j]
    BY <1>1
  <2> QED BY <2>1
<1>4. ASSUME NEW j \in DOMAIN r PROVE \E i \in DOMAIN t : t[i] = r[j]
  <2>1. j + Len(s) \in DOMAIN t /\ t[j + Len(s)] = r[j]
    BY <1>1
  <2> QED BY <2>1
<1> QED BY <1>1, <1>2, <1>3, <1>4 DEF t, IsMadeOf

-----------------------------------------------------------------------------
(* Connections that the app has not heard of yet.                          *)

Connecting(calls) == {i \in DOMAIN calls : calls[i].name = "connected"}

LEMMA ConnectingType ==
  ASSUME NEW C, NEW s \in Seq(C)
  PROVE  IsFiniteSet(Connecting(s)) /\ Cardinality(Connecting(s)) \in Nat
<1>1. IsFiniteSet(1 .. Len(s)) /\ Connecting(s) \in SUBSET (1 .. Len(s))
  BY FS_Interval DEF Connecting
<1> QED BY <1>1, FS_Subset, FS_CardinalityType

LEMMA ConnectingRaised ==
  ASSUME NEW C, NEW s \in Seq(C), NEW r \in Seq(C), \A i \in DOMAIN r : r[i].name # "connected"
  PROVE  Connecting(s \o r) = Connecting(s)
<1>1. \A i \in 1 .. Len(s) + Len(r) :
        (s \o r)[i] = IF i <= Len(s) THEN s[i] ELSE r[i - Len(s)]
  OBVIOUS
<1>2. \A i \in 1 .. Len(s) + Len(r) : i <= Len(s) \/ (s \o r)[i].name # "connected"
  BY <1>1
<1> QED BY <1>1, <1>2 DEF Connecting

LEMMA ConnectingAppend ==
  ASSUME NEW C, NEW s \in Seq(C), NEW c \in C
  PROVE  Cardinality(Connecting(Append(s, c)))
           = Cardinality(Connecting(s)) + (IF c.name = "connected" THEN 1 ELSE 0)
<1>1. \A i \in 1 .. Len(s) + 1 : Append(s, c)[i] = IF i = Len(s) + 1 THEN c ELSE s[i]
  OBVIOUS
<1>2. Connecting(Append(s, c))
        = IF c.name = "connected" THEN Connecting(s) \cup {Len(s) + 1} ELSE Connecting(s)
  BY <1>1 DEF Connecting
<1>3. Len(s) + 1 \notin Connecting(s)
  BY DEF Connecting
<1>4. IsFiniteSet(Connecting(s)) /\ Cardinality(Connecting(s)) \in Nat
  BY ConnectingType
<1>5. Cardinality(Connecting(s) \cup {Len(s) + 1}) = Cardinality(Connecting(s)) + 1
  BY <1>3, <1>4, FS_AddElement
<1>6. CASE c.name = "connected"
  BY <1>2, <1>4, <1>5, <1>6
<1>7. CASE c.name # "connected"
  BY <1>2, <1>4, <1>7
<1> QED BY <1>6, <1>7

LEMMA ConnectingTail ==
  ASSUME NEW C, NEW s \in Seq(C), s # <<>>
  PROVE  Cardinality(Connecting(Tail(s)))
           = Cardinality(Connecting(s)) - (IF Head(s).name = "connected" THEN 1 ELSE 0)
<1> DEFINE A == Connecting(Tail(s))
           B == Connecting(s) \ {1}
           f == [i \in A |-> i + 1]
<1>1. /\ Tail(s) \in Seq(C) /\ DOMAIN Tail(s) = 1 .. Len(s) - 1 /\ Len(s) \in Nat
      /\ \A i \in 1 .. Len(s) - 1 : Tail(s)[i] = s[i + 1]
  OBVIOUS
<1>2. \A i \in A : i \in 1 .. Len(s) - 1 /\ i + 1 \in B
  BY <1>1 DEF Connecting
<1>3. \A j \in B : j - 1 \in A /\ (j - 1) + 1 = j
  <2> SUFFICES ASSUME NEW j \in B PROVE j - 1 \in A /\ (j - 1) + 1 = j
    OBVIOUS
  <2>1. j \in 2 .. Len(s) /\ s[j].name = "connected"
    BY DEF Connecting
  <2>2. j - 1 \in 1 .. Len(s) - 1 /\ (j - 1) + 1 = j
    BY <2>1
  <2>3. Tail(s)[j - 1] = s[j]
    BY <1>1, <2>2
  <2> QED BY <2>1, <2>2, <2>3, <1>1 DEF Connecting
<1> HIDE DEF A, B
<1>4. f \in Bijection(A, B)
  <2>1. f \in [A -> B]
    BY <1>2
  <2>2. \A i, j \in A : f[i] = f[j] => i = j
    BY <1>2
  <2>3. \A j \in B : \E i \in A : f[i] = j
    BY <1>3
  <2> HIDE DEF f
  <2>4. f \in Injection(A, B)
    BY <2>1, <2>2 DEF Injection, IsInjective
  <2>5. f \in Surjection(A, B)
    BY <2>1, <2>3 DEF Surjection
  <2> QED BY <2>4, <2>5 DEF Bijection
<1>5. IsFiniteSet(A)
  BY <1>1, ConnectingType DEF A
<1>6. Cardinality(B) = Cardinality(A)
  BY <1>4, <1>5, FS_Bijection DEF ExistsBijection
<1>7. Cardinality(B) = IF 1 \in Connecting(s) THEN Cardinality(Connecting(s)) - 1 ELSE Cardinality(Connecting(s))
  BY ConnectingType, FS_RemoveElement DEF B
<1>8. 1 \in Connecting(s) <=> Head(s).name = "connected"
  BY <1>1 DEF Connecting
<1> QED BY <1>6, <1>7, <1>8, ConnectingType DEF A

=============================================================================
