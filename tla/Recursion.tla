------------------------------- MODULE Recursion -------------------------------
(***************************************************************************)
(* Induction over the natural numbers for a set of them; that a function   *)
(* defined by recursion on a number exists, so that its definition can be  *)
(* unfolded; and what follows for FlattenSeq.                              *)
(***************************************************************************)
EXTENDS Integers, SequencesExt, SequenceTheorems, NaturalsInduction, WellFoundedInduction, TLAPS

\* A set of natural numbers that is not empty has a least element.
LEMMA LeastOf ==
    ASSUME NEW S \in SUBSET Nat, S # {}
    PROVE  \E x \in S : \A y \in S : x <= y
<1>1. PICK x \in S : \A y \in S : ~(<<y, x>> \in OpToRel(<, Nat))
  BY NatLessThanWellFounded, WFMin
<1>2. ASSUME NEW y \in S, y < x PROVE FALSE
  <2>1. <<y, x>> \in Nat \X Nat /\ <<y, x>>[1] < <<y, x>>[2]
    BY <1>2
  <2>2. <<y, x>> \in OpToRel(<, Nat)
    BY <2>1, Zenon DEF OpToRel
  <2> QED
    BY <1>1, <2>2
<1>3. \A y \in S : x <= y
  BY <1>2
<1> QED
  BY <1>3

\* Induction, for a set of natural numbers.
LEMMA SetInduction ==
    ASSUME NEW S, 0 \in S, \A n \in Nat : n \in S => n + 1 \in S
    PROVE  Nat \subseteq S
<1> SUFFICES ASSUME Nat \ S # {} PROVE FALSE
  OBVIOUS
<1>1. PICK n \in Nat \ S : \A m \in Nat \ S : n <= m
  BY LeastOf
<1>2. n # 0 /\ n - 1 \in Nat /\ ~(n <= n - 1) /\ (n - 1) + 1 = n
  OBVIOUS
<1> QED
  BY <1>1, <1>2

\* Induction up to a bound.
LEMMA BoundedInduction ==
    ASSUME NEW N \in Nat, NEW S, 0 \in S, \A n \in 0 .. N : n < N /\ n \in S => n + 1 \in S
    PROVE  0 .. N \subseteq S /\ N \in S
<1> DEFINE T == {n \in Nat : n <= N => n \in S}
<1>1. 0 \in T
  OBVIOUS
<1>2. ASSUME NEW n \in Nat, n \in T PROVE n + 1 \in T
  BY <1>2
<1> HIDE DEF T
<1>3. Nat \subseteq T
  BY <1>1, <1>2, SetInduction
<1> QED
  BY <1>3 DEF T

\* A sequence of values each of which is made from the one before.
Iterates(g, N, first, step) ==
    g[0] = first /\ \A k \in 1 .. N : g[k] = step[<<k, g[k - 1]>>]

\* Values can be made one from the other, any number of times.
LEMMA Iteration ==
    ASSUME NEW N \in Nat, NEW V, NEW first \in V, NEW step \in [(1 .. N) \X V -> V]
    PROVE  \E g \in [0 .. N -> V] : Iterates(g, N, first, step)
<1> USE DEF Iterates
<1> DEFINE Good(n, g) == Iterates(g, n, first, step)
           S == {n \in 0 .. N : \E g \in [0 .. n -> V] : Good(n, g)}
<1>1. 0 \in S
  <2> DEFINE g == [k \in 0 .. 0 |-> first]
  <2>1. g \in [0 .. 0 -> V] /\ g[0] = first
    OBVIOUS
  <2> HIDE DEF g
  <2>2. Good(0, g)
    BY <2>1
  <2> QED
    BY <2>1, <2>2
<1>2. ASSUME NEW n \in 0 .. N, n < N, n \in S PROVE n + 1 \in S
  <2>1. PICK g \in [0 .. n -> V] : Good(n, g)
    BY <1>2
  <2> DEFINE h == [k \in 0 .. n + 1 |-> IF k <= n THEN g[k] ELSE step[<<n + 1, g[n]>>]]
  <2>2. n + 1 \in 1 .. N /\ g[n] \in V
    BY <1>2
  <2>3. step[<<n + 1, g[n]>>] \in V
    BY <2>2
  <2>4. h \in [0 .. n + 1 -> V]
    BY <2>3
  <2>5. h[0] = first /\ h[n + 1] = step[<<n + 1, h[n]>>] /\ \A k \in 0 .. n : h[k] = g[k]
    <3>1. /\ 0 \in 0 .. n + 1 /\ n \in 0 .. n + 1 /\ n + 1 \in 0 .. n + 1
          /\ 0 <= n /\ n <= n /\ ~ (n + 1 <= n)
      OBVIOUS
    <3>2. h[0] = g[0] /\ h[n] = g[n] /\ h[n + 1] = step[<<n + 1, g[n]>>]
      BY <3>1
    <3>3. \A k \in 0 .. n : h[k] = g[k]
      OBVIOUS
    <3> QED
      BY <2>1, <3>2, <3>3
  <2>6. ASSUME NEW k \in 1 .. n + 1 PROVE h[k] = step[<<k, h[k - 1]>>]
    <3>1. CASE k = n + 1
      <4>1. k - 1 = n
        BY <3>1, <1>2
      <4> QED
        BY <2>5, <3>1, <4>1
    <3>2. CASE k # n + 1
      <4>1. k \in 1 .. n /\ k - 1 \in 0 .. n /\ k \in 0 .. n
        BY <3>2
      <4> QED
        BY <2>1, <2>5, <4>1
    <3> QED
      BY <3>1, <3>2
  <2> HIDE DEF h
  <2>7. Good(n + 1, h)
    BY <2>5, <2>6
  <2> QED
    BY <1>2, <2>4, <2>7
<1> HIDE DEF S
<1>3. N \in S
  BY <1>1, <1>2, BoundedInduction
<1> QED
  BY <1>3 DEF S

-----------------------------------------------------------------------------
(* FlattenSeq.                                                              *)

\* The sequences of ss one after the other, up to the k-th.
Joins(f, ss) ==
    /\ f[0] = <<>>
    /\ \A k \in 1 .. Len(ss) : f[k] = f[k - 1] \o ss[k]

\* FlattenSeq joins the sequences one after the other.
LEMMA FlattenJoins ==
    ASSUME NEW S, NEW ss \in Seq(Seq(S))
    PROVE  \E f \in [0 .. Len(ss) -> Seq(S)] : Joins(f, ss) /\ FlattenSeq(ss) = f[Len(ss)]
<1> DEFINE n == Len(ss)
           step == [x \in (1 .. n) \X Seq(S) |-> x[2] \o ss[x[1]]]
           Unfolded(g) == g = [i \in 1 .. n |-> IF i = 1 THEN ss[i] ELSE g[i - 1] \o ss[i]]
<1>1. n \in Nat /\ \A k \in 1 .. n : ss[k] \in Seq(S)
  OBVIOUS
<1>2. step \in [(1 .. n) \X Seq(S) -> Seq(S)]
  <2>1. \A s, t \in Seq(S) : s \o t \in Seq(S)
    OBVIOUS
  <2> QED
    BY <1>1, <2>1
<1>3. <<>> \in Seq(S)
  OBVIOUS
<1>4. PICK f \in [0 .. n -> Seq(S)] :
        Iterates(f, n, <<>>, step)
  <2> HIDE DEF n, step
  <2> QED
    BY <1>1, <1>2, <1>3, Iteration, Zenon
<1>5. Joins(f, ss)
  <2>1. ASSUME NEW k \in 1 .. n PROVE f[k] = f[k - 1] \o ss[k]
    <3>1. k - 1 \in 0 .. n
      BY <1>1
    <3>2. <<k, f[k - 1]>> \in (1 .. n) \X Seq(S)
      BY <1>4, <3>1
    <3> QED
      BY <1>4, <3>2 DEF Iterates
  <2> QED
    BY <1>4, <2>1 DEF Joins, Iterates
<1>6. CASE n = 0
  <2>1. ss = <<>> /\ FlattenSeq(ss) = ss
    BY <1>6 DEF FlattenSeq
  <2> QED
    BY <1>4, <1>5, <1>6, <2>1
<1>7. CASE n # 0
  <2> DEFINE chosen == CHOOSE g : Unfolded(g)
  <2>1. FlattenSeq(ss) = chosen[n]
    BY <1>7 DEF FlattenSeq
  <2>2. Unfolded([i \in 1 .. n |-> f[i]])
    <3> DEFINE h == [i \in 1 .. n |-> f[i]]
    <3>1. ASSUME NEW i \in 1 .. n PROVE f[i] = IF i = 1 THEN ss[i] ELSE h[i - 1] \o ss[i]
      <4>1. f[i] = f[i - 1] \o ss[i]
        BY <1>5 DEF Joins
      <4>2. CASE i = 1
        <5>1. <<>> \o ss[i] = ss[i]
          BY <1>1
        <5>2. f[i - 1] = <<>>
          BY <1>4, <4>2 DEF Iterates
        <5> QED
          BY <4>1, <4>2, <5>1, <5>2, Zenon
      <4>3. CASE i # 1
        <5>1. i - 1 \in 1 .. n
          BY <1>1, <4>3
        <5>2. h[i - 1] = f[i - 1]
          BY <5>1
        <5> HIDE DEF h
        <5> QED
          BY <4>1, <4>3, <5>2
      <4> QED
        BY <4>2, <4>3
    <3> QED
      BY <3>1
  <2>3. Unfolded(chosen)
    <3> HIDE DEF Unfolded
    <3> QED
      BY <2>2, Zenon
  <2> HIDE DEF chosen
  <2>4. \A i \in 1 .. n : chosen[i] = IF i = 1 THEN ss[i] ELSE chosen[i - 1] \o ss[i]
    BY <2>3
  <2> DEFINE T == {k \in 0 .. n : k # 0 => chosen[k] = f[k]}
  <2>5. ASSUME NEW k \in 0 .. n, k < n, k \in T PROVE k + 1 \in T
    <3>1. k + 1 \in 1 .. n /\ (k + 1) - 1 = k
      BY <1>1, <2>5
    <3>2. f[k + 1] = f[k] \o ss[k + 1]
      BY <1>5, <3>1 DEF Joins
    <3>3. chosen[k + 1] = IF k + 1 = 1 THEN ss[k + 1] ELSE chosen[k] \o ss[k + 1]
      BY <2>4, <3>1
    <3>4. chosen[k + 1] = f[k + 1]
      <4>1. CASE k = 0
        <5>1. <<>> \o ss[k + 1] = ss[k + 1] /\ f[k] = <<>>
          BY <1>1, <1>4, <3>1, <4>1 DEF Iterates
        <5> QED
          BY <3>2, <3>3, <4>1, <5>1
      <4>2. CASE k # 0
        <5>1. k + 1 # 1 /\ chosen[k] = f[k]
          BY <2>5, <4>2
        <5> QED
          BY <3>2, <3>3, <5>1
      <4> QED
        BY <4>1, <4>2
    <3> QED
      BY <3>1, <3>4
  <2>6. 0 \in T
    BY <1>1
  <2> HIDE DEF T
  <2>7. \A k \in 0 .. n : k < n /\ k \in T => k + 1 \in T
    BY <2>5
  <2>8. n \in T
    <3> HIDE DEF n
    <3> QED
      BY <1>1, <2>6, <2>7, BoundedInduction, Zenon
  <2> QED
    BY <1>4, <1>5, <1>7, <2>1, <2>8 DEF T
<1> QED
  BY <1>6, <1>7

Associates(S) == \A e, s, t \in Seq(S) : (e \o s) \o t = e \o (s \o t)

\* Concatenation is associative.
LEMMA Associative ==
    ASSUME NEW S
    PROVE  Associates(S)
BY DEF Associates

\* The join of sequences over S is one.
LEMMA FlattenType ==
    ASSUME NEW S, NEW ss \in Seq(Seq(S))
    PROVE  FlattenSeq(ss) \in Seq(S)
<1>1. PICK f \in [0 .. Len(ss) -> Seq(S)] : FlattenSeq(ss) = f[Len(ss)]
  BY FlattenJoins
<1> QED
  BY <1>1

\* The join of nothing is empty.
LEMMA FlattenEmpty == FlattenSeq(<<>>) = <<>>
BY DEF FlattenSeq

\* One more sequence at the end is joined at the end ...
LEMMA FlattenAppend ==
    ASSUME NEW S, NEW ss \in Seq(Seq(S)), NEW e \in Seq(S)
    PROVE  FlattenSeq(Append(ss, e)) = FlattenSeq(ss) \o e
<1> DEFINE n == Len(ss)
           tt == Append(ss, e)
<1>1. /\ n \in Nat /\ tt \in Seq(Seq(S)) /\ Len(tt) = n + 1 /\ tt[n + 1] = e
      /\ \A k \in 1 .. n : tt[k] = ss[k]
  BY AppendProperties
<1>2. PICK f \in [0 .. n -> Seq(S)] : Joins(f, ss) /\ FlattenSeq(ss) = f[n]
  BY FlattenJoins
<1>3. PICK g \in [0 .. n + 1 -> Seq(S)] : Joins(g, tt) /\ FlattenSeq(tt) = g[n + 1]
  BY <1>1, FlattenJoins
<1> DEFINE T == {k \in 0 .. n : g[k] = f[k]}
<1>4. 0 \in T
  BY <1>1, <1>2, <1>3 DEF Joins
<1>5. \A k \in 0 .. n : k < n /\ k \in T => k + 1 \in T
  <2> SUFFICES ASSUME NEW k \in 0 .. n, k < n, k \in T PROVE k + 1 \in T
    BY Zenon
  <2>1. k + 1 \in 1 .. n /\ k + 1 \in 1 .. n + 1 /\ (k + 1) - 1 = k
    BY <1>1
  <2>2. g[k + 1] = g[k] \o tt[k + 1] /\ f[k + 1] = f[k] \o ss[k + 1]
    BY <1>1, <1>2, <1>3, <2>1 DEF Joins
  <2>3. g[k] = f[k] /\ tt[k + 1] = ss[k + 1]
    BY <1>1, <2>1
  <2>4. g[k + 1] = f[k + 1]
    BY <2>2, <2>3
  <2> QED
    BY <2>1, <2>4
<1> HIDE DEF T
<1>6. n \in T
  <2> HIDE DEF n
  <2> QED
    BY <1>1, <1>4, <1>5, BoundedInduction, Zenon
<1>7. g[n + 1] = g[n] \o e
  <2>1. n + 1 \in 1 .. n + 1 /\ (n + 1) - 1 = n
    BY <1>1
  <2> QED
    BY <1>1, <1>3, <2>1 DEF Joins
<1> QED
  BY <1>2, <1>3, <1>6, <1>7 DEF T

\* ... and one more in front in front.
LEMMA FlattenCons ==
    ASSUME NEW S, NEW ss \in Seq(Seq(S)), NEW e \in Seq(S)
    PROVE  FlattenSeq(<<e>> \o ss) = e \o FlattenSeq(ss)
<1>0. Associates(S)
  BY Associative, Zenon
<1> DEFINE n == Len(ss)
           tt == <<e>> \o ss
<1>1. /\ n \in Nat /\ tt \in Seq(Seq(S)) /\ Len(tt) = n + 1 /\ tt[1] = e
      /\ \A k \in 1 .. n : tt[k + 1] = ss[k]
  <2>1. <<e>> \in Seq(Seq(S)) /\ Len(<<e>>) = 1 /\ <<e>>[1] = e
    OBVIOUS
  <2>2. /\ tt \in Seq(Seq(S)) /\ Len(tt) = 1 + n
        /\ \A i \in 1 .. 1 + n : tt[i] = IF i <= 1 THEN <<e>>[i] ELSE ss[i - 1]
    BY <2>1, ConcatProperties
  <2>3. n \in Nat
    OBVIOUS
  <2> HIDE DEF tt, n
  <2>4. 1 \in 1 .. 1 + n /\ 1 + n = n + 1
    BY <2>3
  <2>5. ASSUME NEW k \in 1 .. n PROVE tt[k + 1] = ss[k]
    <3>1. k + 1 \in 1 .. 1 + n /\ ~ (k + 1 <= 1) /\ (k + 1) - 1 = k
      BY <2>3
    <3> QED
      BY <2>2, <3>1
  <2>6. tt[1] = <<e>>[1]
    BY <2>2, <2>4
  <2>7. Len(tt) = n + 1
    BY <2>2, <2>4
  <2> QED
    BY <2>1, <2>2, <2>3, <2>5, <2>6, <2>7, Zenon
<1>2. PICK f \in [0 .. n -> Seq(S)] : Joins(f, ss) /\ FlattenSeq(ss) = f[n]
  BY FlattenJoins
<1> HIDE DEF tt
<1>3. PICK g \in [0 .. n + 1 -> Seq(S)] : Joins(g, tt) /\ FlattenSeq(tt) = g[n + 1]
  <2>1. \E g \in [0 .. Len(tt) -> Seq(S)] : Joins(g, tt) /\ FlattenSeq(tt) = g[Len(tt)]
    BY <1>1, FlattenJoins
  <2> QED
    BY <1>1, <2>1
<1> DEFINE T == {k \in 0 .. n : g[k + 1] = e \o f[k]}
<1>4. 0 \in T
  <2>1. 1 \in 1 .. n + 1 /\ 0 \in 0 .. n
    BY <1>1
  <2>2. g[1] = g[1 - 1] \o tt[1]
    BY <1>1, <1>3, <2>1 DEF Joins
  <2>3. g[1 - 1] = <<>> /\ f[0] = <<>>
    BY <1>2, <1>3 DEF Joins
  <2>4. <<>> \o e = e /\ e \o <<>> = e
    OBVIOUS
  <2>5. g[0 + 1] = e \o f[0]
    BY <1>1, <2>2, <2>3, <2>4
  <2> QED
    BY <2>1, <2>5
<1>5. \A k \in 0 .. n : k < n /\ k \in T => k + 1 \in T
  <2> SUFFICES ASSUME NEW k \in 0 .. n, k < n, k \in T PROVE k + 1 \in T
    BY Zenon
  <2>1. /\ k + 1 \in 1 .. n /\ k + 1 \in 0 .. n /\ (k + 1) + 1 \in 1 .. n + 1
        /\ (k + 1) - 1 = k /\ ((k + 1) + 1) - 1 = k + 1
    BY <1>1
  <2>2. f[k + 1] = f[k] \o ss[k + 1]
    BY <1>2, <2>1 DEF Joins
  <2>3. g[(k + 1) + 1] = g[k + 1] \o tt[(k + 1) + 1]
    BY <1>1, <1>3, <2>1 DEF Joins
  <2>4. ss[k + 1] \in Seq(S) /\ f[k] \in Seq(S)
    BY <1>2, <2>1, ElementOfSeq
  <2>5. (e \o f[k]) \o ss[k + 1] = e \o (f[k] \o ss[k + 1])
    BY <1>0, <2>4, Zenon DEF Associates
  <2>6. g[(k + 1) + 1] = e \o f[k + 1]
    BY <1>1, <2>1, <2>2, <2>3, <2>5
  <2> QED
    BY <2>1, <2>6
<1> HIDE DEF T
<1>6. n \in T
  <2> HIDE DEF n
  <2> QED
    BY <1>1, <1>4, <1>5, BoundedInduction, Zenon
<1> QED
  BY <1>2, <1>3, <1>6 DEF T, tt

\* FlattenSeq of two sequences of sequences over S, one after the other.
FlattensParts(S) ==
    \A ss, tt \in Seq(Seq(S)) : FlattenSeq(ss \o tt) = FlattenSeq(ss) \o FlattenSeq(tt)

\* Two lists of sequences can be joined separately.
LEMMA FlattenConcat ==
    ASSUME NEW S
    PROVE  FlattensParts(S)
<1> SUFFICES ASSUME NEW ss \in Seq(Seq(S)), NEW tt \in Seq(Seq(S))
             PROVE  FlattenSeq(ss \o tt) = FlattenSeq(ss) \o FlattenSeq(tt)
  BY DEF FlattensParts
<1>0. Associates(S)
  BY Associative, Zenon
<1> DEFINE m == Len(ss)
           n == Len(tt)
           uu == ss \o tt
<1>1. /\ m \in Nat /\ n \in Nat /\ uu \in Seq(Seq(S)) /\ Len(uu) = m + n
      /\ \A k \in 1 .. m + n : uu[k] = IF k <= m THEN ss[k] ELSE tt[k - m]
  BY ConcatProperties
<1>2. PICK f \in [0 .. m -> Seq(S)] : Joins(f, ss) /\ FlattenSeq(ss) = f[m]
  BY FlattenJoins
<1>3. PICK g \in [0 .. n -> Seq(S)] : Joins(g, tt) /\ FlattenSeq(tt) = g[n]
  BY FlattenJoins
<1> HIDE DEF uu
<1>4. PICK h \in [0 .. Len(uu) -> Seq(S)] : Joins(h, uu) /\ FlattenSeq(uu) = h[Len(uu)]
  BY <1>1, FlattenJoins
<1> DEFINE T == {k \in 0 .. m : h[k] = f[k]}
           U == {k \in 0 .. n : h[m + k] = f[m] \o g[k]}
<1>5. 0 \in T
  BY <1>1, <1>2, <1>4 DEF Joins
<1>6. \A k \in 0 .. m : k < m /\ k \in T => k + 1 \in T
  <2> SUFFICES ASSUME NEW k \in 0 .. m, k < m, k \in T PROVE k + 1 \in T
    BY Zenon
  <2>1. k + 1 \in 1 .. m /\ k + 1 \in 1 .. m + n /\ k + 1 <= m /\ (k + 1) - 1 = k
    BY <1>1
  <2>2. uu[k + 1] = ss[k + 1]
    BY <1>1, <2>1
  <2>3. h[k + 1] = h[k] \o uu[k + 1] /\ f[k + 1] = f[k] \o ss[k + 1]
    BY <1>1, <1>2, <1>4, <2>1 DEF Joins
  <2>4. h[k + 1] = f[k + 1]
    BY <2>2, <2>3
  <2> QED
    BY <2>1, <2>4
<1> HIDE DEF T
<1>7. m \in T
  <2> HIDE DEF m
  <2> QED
    BY <1>1, <1>5, <1>6, BoundedInduction, Zenon
<1>8. f[m] \in Seq(S)
  <2> HIDE DEF m
  <2> QED
    BY <1>1, <1>2
<1>9. 0 \in U
  <2>1. h[m + 0] = f[m]
    BY <1>1, <1>7 DEF T
  <2>2. g[0] = <<>> /\ f[m] \o <<>> = f[m]
    BY <1>3, <1>8 DEF Joins
  <2>3. h[m + 0] = f[m] \o g[0] /\ 0 \in 0 .. n
    BY <1>1, <2>1, <2>2
  <2> QED
    BY <2>3
<1>10. \A k \in 0 .. n : k < n /\ k \in U => k + 1 \in U
  <2> SUFFICES ASSUME NEW k \in 0 .. n, k < n, k \in U PROVE k + 1 \in U
    BY Zenon
  <2>1. /\ k + 1 \in 1 .. n /\ k + 1 \in 0 .. n /\ (k + 1) - 1 = k /\ m + (k + 1) \in 1 .. m + n
        /\ ~ (m + (k + 1) <= m) /\ (m + (k + 1)) - m = k + 1 /\ (m + (k + 1)) - 1 = m + k
    BY <1>1
  <2>2. uu[m + (k + 1)] = tt[k + 1]
    BY <1>1, <2>1
  <2>3. h[m + (k + 1)] = h[m + k] \o uu[m + (k + 1)]
    BY <1>1, <1>4, <2>1 DEF Joins
  <2>4. g[k + 1] = g[k] \o tt[k + 1]
    BY <1>3, <2>1 DEF Joins
  <2>5. tt[k + 1] \in Seq(S) /\ g[k] \in Seq(S)
    BY <1>3, <2>1, ElementOfSeq
  <2>6. (f[m] \o g[k]) \o tt[k + 1] = f[m] \o (g[k] \o tt[k + 1])
    BY <1>0, <1>8, <2>5, Zenon DEF Associates
  <2>7. h[m + (k + 1)] = f[m] \o g[k + 1]
    BY <2>2, <2>3, <2>4, <2>6
  <2> QED
    BY <2>1, <2>7
<1> HIDE DEF U
<1>11. n \in U
  <2> HIDE DEF n
  <2> QED
    BY <1>1, <1>9, <1>10, BoundedInduction, Zenon
<1>12. FlattenSeq(uu) = FlattenSeq(ss) \o FlattenSeq(tt)
  BY <1>1, <1>2, <1>3, <1>4, <1>11 DEF U
<1> QED
  BY <1>12 DEF uu
===============================================================================
