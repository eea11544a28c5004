----------------------------- MODULE Recursion ------------------------------
(***************************************************************************)
(* Induction and recursion without operator parameters: the least element  *)
(* of a set of numbers, induction as a fact about such a set, and that the *)
(* equation of a recursive function has a solution when every call is made *)
(* on an argument of smaller measure.  The recursive functions of the      *)
(* models are unfolded by the last one: base, step and the argument of the *)
(* call are given to it as functions.                                      *)
(***************************************************************************)
EXTENDS Integers, SequencesExt, SequenceTheorems, WellFoundedInduction, TLAPS

\* A set of natural numbers that is not empty has a least element.
LEMMA LeastNat ==
    ASSUME NEW T \in SUBSET Nat, T # {}
    PROVE  \E x \in T : \A y \in T : x <= y
<1>1. \E x \in T : \A y \in T : ~ (<<y, x>> \in OpToRel(<, Nat))
  BY NatLessThanWellFounded, WFMin
<1>2. \A x, y \in Nat : <<y, x>> \in OpToRel(<, Nat) <=> y < x
  BY DEF OpToRel
<1>3. PICK x \in T : \A y \in T : ~ (<<y, x>> \in OpToRel(<, Nat))
  BY <1>1
<1>4. ASSUME NEW y \in T PROVE x <= y
  <2>1. x \in Nat /\ y \in Nat /\ ~(y < x)
    BY <1>2, <1>3
  <2> QED BY <2>1
<1> QED BY <1>4

\* A set of natural numbers that holds 0 and the successor of each member is Nat.
LEMMA InductionOnNat ==
    ASSUME NEW T \in SUBSET Nat, 0 \in T, \A n \in T : n + 1 \in T
    PROVE  T = Nat
<1>1. SUFFICES ASSUME Nat \ T # {} PROVE FALSE
  OBVIOUS
<1>2. PICK x \in Nat \ T : \A y \in Nat \ T : x <= y
  BY <1>1, LeastNat
<1>3. x # 0 /\ x - 1 \in Nat /\ x - 1 \in T
  BY <1>2
<1> QED BY <1>2, <1>3

\* A function on D with values in V that calls itself once, on next[x], but for
\* an x of stop, where it is base[x]; and that there is one.
Descends(D, V, measure, stop, base, next, step) ==
    /\ measure \in [D -> Nat] /\ stop \in SUBSET D /\ base \in [D -> V]
    /\ next \in [D -> D] /\ step \in [D \X V -> V]
    /\ \A x \in D \ stop : measure[next[x]] < measure[x]

Unfolds(D, V, stop, base, next, step, f) ==
    /\ f \in [D -> V]
    /\ \A x \in D : f[x] = IF x \in stop THEN base[x] ELSE step[<<x, f[next[x]]>>]

\* The equation of a recursion has a solution if every call is of smaller measure.
LEMMA RecursionByMeasure ==
    ASSUME NEW D, NEW V, NEW measure, NEW stop, NEW base, NEW next, NEW step,
           Descends(D, V, measure, stop, base, next, step)
    PROVE  \E f : Unfolds(D, V, stop, base, next, step, f)
<1>0. /\ measure \in [D -> Nat] /\ stop \in SUBSET D /\ base \in [D -> V]
      /\ next \in [D -> D] /\ step \in [D \X V -> V]
      /\ \A x \in D \ stop : measure[next[x]] < measure[x]
  BY DEF Descends
<1> USE <1>0
<1> DEFINE Below(n) == {x \in D : measure[x] < n}
           Equation(f, x) == f[x] = IF x \in stop THEN base[x] ELSE step[<<x, f[next[x]]>>]
           Solves(f, n) == f \in [Below(n) -> V] /\ \A x \in Below(n) : Equation(f, x)
           Solved == {n \in Nat : \E f : Solves(f, n)}
<1>1. Solved = Nat
  <2>1. 0 \in Solved
    <3>1. Below(0) = {}
      OBVIOUS
    <3>2. Solves([x \in {} |-> x], 0)
      BY <3>1
    <3> QED BY <3>2
  <2>2. ASSUME NEW n \in Solved PROVE n + 1 \in Solved
    <3>1. PICK f : Solves(f, n)
      BY <2>2
    <3>2. n \in Nat /\ n + 1 \in Nat
      BY <2>2
    <3> DEFINE g == [x \in Below(n + 1) |-> IF x \in stop THEN base[x] ELSE step[<<x, f[next[x]]>>]]
    <3>3. \A x \in Below(n + 1) \ stop : next[x] \in Below(n)
      BY <3>2
    <3>4. g \in [Below(n + 1) -> V]
      BY <3>1, <3>3
    <3>5. \A x \in Below(n) : x \in Below(n + 1) /\ g[x] = f[x]
      BY <3>1, <3>2
    <3>6. \A x \in Below(n + 1) : Equation(g, x)
      BY <3>3, <3>5
    <3>7. Solves(g, n + 1)
      BY <3>4, <3>6
    <3> QED BY <3>2, <3>7
  <2>3. Solved \in SUBSET Nat
    OBVIOUS
  <2> HIDE DEF Solved
  <2> QED BY <2>1, <2>2, <2>3, InductionOnNat
<1>2. ASSUME NEW n \in Nat, NEW m \in Nat, NEW f, NEW g, Solves(f, n), Solves(g, m)
      PROVE  \A x \in Below(n) \cap Below(m) : f[x] = g[x]
  <2> DEFINE Bad == {measure[x] : x \in {y \in Below(n) \cap Below(m) : f[y] # g[y]}}
  <2> SUFFICES ASSUME Bad # {} PROVE FALSE
    OBVIOUS
  <2>1. PICK k \in Bad : \A j \in Bad : k <= j
    <3>1. Bad \in SUBSET Nat
      OBVIOUS
    <3> HIDE DEF Bad
    <3> QED BY <3>1, LeastNat
  <2>2. PICK x \in Below(n) \cap Below(m) : f[x] # g[x] /\ k = measure[x]
    BY <2>1
  <2>3. x \notin stop /\ x \in D
    BY <1>2, <2>2
  <2>4. next[x] \in Below(n) \cap Below(m) /\ measure[next[x]] < k
    BY <2>2, <2>3
  <2>5. f[next[x]] = g[next[x]]
    <3>1. measure[next[x]] \notin Bad
      <4>1. k \in Nat /\ measure[next[x]] \in Nat
        BY <2>1, <2>4
      <4> HIDE DEF Bad
      <4> QED BY <2>1, <2>4, <4>1
    <3> QED BY <2>4, <3>1
  <2> QED BY <1>2, <2>2, <2>3, <2>5
<1> DEFINE part(x) == CHOOSE f : Solves(f, measure[x] + 1)
           F == [x \in D |-> part(x)[x]]
<1>3. ASSUME NEW x \in D PROVE Solves(part(x), measure[x] + 1) /\ x \in Below(measure[x] + 1)
  <2>1. measure[x] + 1 \in Nat /\ x \in Below(measure[x] + 1)
    OBVIOUS
  <2>2. measure[x] + 1 \in Solved
    <3> HIDE DEF Solved
    <3> QED BY <1>1, <2>1
  <2>3. \E f : Solves(f, measure[x] + 1)
    <3> HIDE DEF Solves
    <3> QED BY <2>2
  <2>4. Solves(part(x), measure[x] + 1)
    <3> HIDE DEF Solves
    <3> QED BY <2>3
  <2> QED BY <2>1, <2>4
<1>4. F \in [D -> V]
  BY <1>3
<1>5. ASSUME NEW x \in D PROVE Equation(F, x)
  <2>1. Equation(part(x), x)
    BY <1>3
  <2>2. CASE x \in stop
    BY <2>1, <2>2
  <2>3. CASE x \notin stop
    <3>1. next[x] \in D /\ next[x] \in Below(measure[x] + 1)
      <4>1. measure[next[x]] < measure[x] /\ measure[x] \in Nat /\ next[x] \in D /\ measure[next[x]] \in Nat
        BY <2>3
      <4> QED BY ONLY <4>1
    <3>2. Solves(part(next[x]), measure[next[x]] + 1) /\ next[x] \in Below(measure[next[x]] + 1)
      BY <1>3, <3>1
    <3>3. part(x)[next[x]] = part(next[x])[next[x]]
      <4>1. measure[x] + 1 \in Nat /\ measure[next[x]] + 1 \in Nat
        BY <3>1
      <4> HIDE DEF part, Solves, Below
      <4> QED BY <1>2, <1>3, <3>1, <3>2, <4>1
    <3>4. F[next[x]] = part(next[x])[next[x]] /\ F[x] = part(x)[x]
      BY <3>1
    <3> HIDE DEF F, part
    <3> QED BY <2>1, <2>3, <3>3, <3>4
  <2> QED BY <2>2, <2>3
<1> HIDE DEF F
<1> QED BY <1>4, <1>5 DEF Unfolds
-----------------------------------------------------------------------------
(* FlattenSeq *)

\* FlattenSeq adds one sequence after the other: what it has after each.
Flattens(S, n, seqs, flat) ==
    /\ flat \in [0..n -> Seq(S)] /\ flat[0] = <<>>
    /\ \A i \in 1..n : flat[i] = flat[i - 1] \o seqs[i]
    /\ FlattenSeq(seqs) = flat[n]

\* FlattenSeq is what there is after the last of them.
LEMMA Flattening ==
    ASSUME NEW S, NEW n \in Nat, NEW seqs \in [1..n -> Seq(S)]
    PROVE  \E flat : Flattens(S, n, seqs, flat)
<1>0. Len(seqs) = n
  OBVIOUS
<1>1. CASE n = 0
  <2>1. seqs = <<>>
    BY <1>1
  <2>2. FlattenSeq(seqs) = <<>>
    BY <1>0, <1>1, <2>1 DEF FlattenSeq
  <2> DEFINE flat == [i \in 0..0 |-> <<>>]
  <2>3. flat \in [0..n -> Seq(S)] /\ flat[0] = <<>> /\ FlattenSeq(seqs) = flat[n]
    BY <1>1, <2>2
  <2>4. \A i \in 1..n : flat[i] = flat[i - 1] \o seqs[i]
    BY <1>1
  <2> HIDE DEF flat
  <2> QED BY ONLY <2>3, <2>4 DEF Flattens
<1>2. CASE n > 0
  <2> DEFINE Solves(f) == f = [i \in 1..n |-> IF i = 1 THEN seqs[i] ELSE f[i - 1] \o seqs[i]]
             f == CHOOSE f : Solves(f)
  <2>1. FlattenSeq(seqs) = f[n]
    BY <1>0, <1>2 DEF FlattenSeq
  <2>2. \E g : Solves(g) /\ g \in [1..n -> Seq(S)]
    <3> DEFINE measure == [i \in 1..n |-> i]
               next == [i \in 1..n |-> IF i = 1 THEN 1 ELSE i - 1]
               step == [p \in (1..n) \X Seq(S) |-> p[2] \o seqs[p[1]]]
    <3>1. Descends(1..n, Seq(S), measure, {1}, seqs, next, step)
      <4>1. measure \in [1..n -> Nat] /\ {1} \in SUBSET (1..n) /\ next \in [1..n -> 1..n]
        BY <1>2
      <4>2. step \in [(1..n) \X Seq(S) -> Seq(S)]
        BY ConcatProperties
      <4>3. \A i \in (1..n) \ {1} : measure[next[i]] < measure[i]
        BY <1>2
      <4> HIDE DEF measure, next, step
      <4> QED BY <4>1, <4>2, <4>3 DEF Descends
    <3>2. \E g : Unfolds(1..n, Seq(S), {1}, seqs, next, step, g)
      <4> HIDE DEF measure, next, step
      <4> QED BY ONLY <3>1, RecursionByMeasure
    <3>3. PICK g : Unfolds(1..n, Seq(S), {1}, seqs, next, step, g)
      BY <3>2
    <3>4. /\ g \in [1..n -> Seq(S)]
          /\ \A i \in 1..n : g[i] = IF i \in {1} THEN seqs[i] ELSE step[<<i, g[next[i]]>>]
      <4> HIDE DEF next, step
      <4> QED BY ONLY <3>3 DEF Unfolds
    <3>5. ASSUME NEW i \in 1..n PROVE g[i] = IF i = 1 THEN seqs[i] ELSE g[i - 1] \o seqs[i]
      <4>1. i # 1 => next[i] = i - 1 /\ i - 1 \in 1..n
        OBVIOUS
      <4>2. i # 1 => step[<<i, g[i - 1]>>] = g[i - 1] \o seqs[i]
        <5>1. i # 1 => <<i, g[i - 1]>> \in (1..n) \X Seq(S)
          BY <3>4, <4>1
        <5> QED BY ONLY <5>1
      <4> HIDE DEF next, step
      <4> QED BY <3>4, <4>1, <4>2
    <3>6. Solves(g)
      BY ONLY <3>4, <3>5
    <3> QED BY <3>4, <3>6
  <2>4. Solves(f)
    BY <2>2
  <2> HIDE DEF f
  <2>5. \A i \in 1..n : f[i] = IF i = 1 THEN seqs[i] ELSE f[i - 1] \o seqs[i]
    BY <2>4
  <2>6. \A i \in 1..n : f[i] \in Seq(S)
    <3> DEFINE Good == {i \in Nat : i + 1 \in 1..n => f[i + 1] \in Seq(S)}
    <3>1. 0 \in Good
      BY <1>2, <2>5
    <3>2. ASSUME NEW i \in Good PROVE i + 1 \in Good
      <4>1. ASSUME i + 2 \in 1..n PROVE f[i + 2] \in Seq(S)
        <5>1. i \in Nat /\ i + 1 \in 1..n /\ i + 2 # 1 /\ (i + 2) - 1 = i + 1
          BY <3>2, <4>1
        <5>2. f[i + 1] \in Seq(S) /\ seqs[i + 2] \in Seq(S)
          BY <3>2, <4>1, <5>1
        <5>3. f[i + 2] = f[i + 1] \o seqs[i + 2]
          BY <2>5, <4>1, <5>1
        <5> QED BY <5>2, <5>3, ConcatProperties
      <4> QED BY <4>1
    <3>3. Good = Nat
      <4>1. Good \in SUBSET Nat
        OBVIOUS
      <4> HIDE DEF Good
      <4> QED BY <3>1, <3>2, <4>1, InductionOnNat
    <3>4. ASSUME NEW i \in 1..n PROVE f[i] \in Seq(S)
      <4>1. i - 1 \in Good
        <5>1. i - 1 \in Nat
          OBVIOUS
        <5> HIDE DEF Good
        <5> QED BY <3>3, <5>1
      <4>2. (i - 1) + 1 = i
        OBVIOUS
      <4> QED BY <4>1, <4>2
    <3> QED BY <3>4
  <2> DEFINE flat == [i \in 0..n |-> IF i = 0 THEN <<>> ELSE f[i]]
  <2>7. flat \in [0..n -> Seq(S)]
    BY <2>6
  <2>8. flat[0] = <<>> /\ flat[n] = f[n]
    BY <1>2
  <2>9. ASSUME NEW i \in 1..n PROVE flat[i] = flat[i - 1] \o seqs[i]
    <3>1. CASE i = 1
      BY <2>5, <3>1, ConcatEmptySeq
    <3>2. CASE i > 1
      <4>1. i - 1 \in 0..n /\ i - 1 # 0 /\ i \in 0..n /\ i # 0
        BY <3>2
      <4>2. flat[i - 1] = f[i - 1] /\ flat[i] = f[i]
        BY ONLY <4>1
      <4>3. f[i] = f[i - 1] \o seqs[i]
        <5>1. i # 1 /\ i \in 1..n
          BY <3>2
        <5> QED BY ONLY <2>5, <5>1
      <4> QED BY ONLY <4>2, <4>3
    <3>3. i = 1 \/ i > 1
      OBVIOUS
    <3> QED BY ONLY <3>1, <3>2, <3>3
  <2> HIDE DEF flat
  <2>10. FlattenSeq(seqs) = flat[n]
    BY ONLY <2>1, <2>8
  <2> QED BY ONLY <2>7, <2>8, <2>9, <2>10 DEF Flattens
<1>3. n = 0 \/ n > 0
  OBVIOUS
<1> QED BY ONLY <1>1, <1>2, <1>3

\* Sequences one after the other are a sequence.
LEMMA FlattenType ==
    ASSUME NEW S, NEW seqs \in Seq(Seq(S))
    PROVE  FlattenSeq(seqs) \in Seq(S)
<1>1. PICK n \in Nat : n = Len(seqs) /\ seqs \in [1..n -> Seq(S)]
  BY LenProperties
<1>2. PICK flat : Flattens(S, n, seqs, flat)
  BY ONLY n \in Nat, <1>1, Flattening
<1>3. n \in 0..n
  OBVIOUS
<1> QED BY ONLY <1>2, <1>3 DEF Flattens

\* Concatenation is associative.
LEMMA Regroup ==
    ASSUME NEW S, NEW x \in Seq(S), NEW y \in Seq(S), NEW z \in Seq(S)
    PROVE  (x \o y) \o z = x \o (y \o z)
BY ConcatAssociative

\* FlattenSeq of two lists is that of the first and then that of the second.
LEMMA FlattenConcat ==
    ASSUME NEW S, NEW a \in Seq(Seq(S)), NEW b \in Seq(Seq(S))
    PROVE  FlattenSeq(a \o b) = FlattenSeq(a) \o FlattenSeq(b)
<1>0. \A x, y, z \in Seq(S) : (x \o y) \o z = x \o (y \o z)
  BY Regroup
<1>1. PICK n \in Nat : n = Len(a) /\ a \in [1..n -> Seq(S)]
  BY LenProperties
<1>2. PICK m \in Nat : m = Len(b) /\ b \in [1..m -> Seq(S)]
  BY LenProperties
<1>3. PICK c : c = a \o b
  OBVIOUS
<1>4. PICK l \in Nat : l = n + m
  OBVIOUS
<1>5. /\ c \in [1..l -> Seq(S)]
      /\ \A i \in 1..n : i \in 1..l /\ c[i] = a[i]
      /\ \A i \in 1..m : n + i \in 1..l /\ c[n + i] = b[i]
  <2>1. /\ c \in Seq(Seq(S)) /\ Len(c) = Len(a) + Len(b)
        /\ \A i \in 1..Len(a) + Len(b) : c[i] = IF i <= Len(a) THEN a[i] ELSE b[i - Len(a)]
    BY ONLY a \in Seq(Seq(S)), b \in Seq(Seq(S)), <1>3, ConcatProperties
  <2>2. Len(c) = l /\ \A i \in 1..l : c[i] = IF i <= n THEN a[i] ELSE b[i - n]
    BY ONLY <1>1, <1>2, <1>4, <2>1
  <2>3. c \in [1..l -> Seq(S)]
    BY ONLY <2>1, <2>2, LenProperties
  <2>4. \A i \in 1..n : i \in 1..l /\ c[i] = a[i]
    BY ONLY n \in Nat, m \in Nat, <1>4, <2>2
  <2>5. \A i \in 1..m : n + i \in 1..l /\ c[n + i] = b[i]
    BY ONLY n \in Nat, m \in Nat, <1>4, <2>2
  <2> QED BY <2>3, <2>4, <2>5
<1>6. PICK fa : Flattens(S, n, a, fa)
  BY ONLY n \in Nat, <1>1, Flattening
<1>6a. /\ fa \in [0..n -> Seq(S)] /\ fa[0] = <<>>
       /\ \A i \in 1..n : fa[i] = fa[i - 1] \o a[i]
       /\ FlattenSeq(a) = fa[n]
  BY ONLY <1>6 DEF Flattens
<1>7. PICK fb : Flattens(S, m, b, fb)
  BY ONLY m \in Nat, <1>2, Flattening
<1>7a. /\ fb \in [0..m -> Seq(S)] /\ fb[0] = <<>>
       /\ \A i \in 1..m : fb[i] = fb[i - 1] \o b[i]
       /\ FlattenSeq(b) = fb[m]
  BY ONLY <1>7 DEF Flattens
<1>8. PICK fc : Flattens(S, l, c, fc)
  BY ONLY l \in Nat, <1>5, Flattening
<1>8a. /\ fc \in [0..l -> Seq(S)] /\ fc[0] = <<>>
       /\ \A i \in 1..l : fc[i] = fc[i - 1] \o c[i]
       /\ FlattenSeq(c) = fc[l]
  BY ONLY <1>8 DEF Flattens
<1>9. fc[n] = fa[n]
  <2> DEFINE T == {i \in Nat : i <= n => fc[i] = fa[i]}
  <2>1. 0 \in T
    BY <1>6a, <1>8a
  <2>2. ASSUME NEW i \in T PROVE i + 1 \in T
    <3>1. ASSUME i + 1 <= n PROVE fc[i + 1] = fa[i + 1]
      <4>0. i \in Nat /\ (i <= n => fc[i] = fa[i])
        BY ONLY <2>2
      <4>1. i \in Nat /\ i + 1 \in 1..n /\ (i + 1) - 1 = i /\ fc[i] = fa[i]
        BY ONLY <3>1, <4>0, n \in Nat
      <4>2. fa[i + 1] = fa[i] \o a[i + 1]
        BY ONLY <1>6a, <4>1
      <4>3. c[i + 1] = a[i + 1] /\ i + 1 \in 1..l
        BY ONLY <1>5, <4>1
      <4>4. fc[i + 1] = fc[i] \o c[i + 1]
        BY ONLY <1>8a, <4>1, <4>3
      <4> QED BY ONLY <4>1, <4>2, <4>3, <4>4
    <3>2. i + 1 \in Nat
      BY <2>2
    <3> QED BY ONLY <3>1, <3>2
  <2>3. T \in SUBSET Nat
    OBVIOUS
  <2>4. n \in T
    <3> HIDE DEF T
    <3> QED BY <2>1, <2>2, <2>3, InductionOnNat
  <2> QED BY <2>4
<1>10. fc[l] = fa[n] \o fb[m]
  <2> DEFINE T == {i \in Nat : i <= m => fc[n + i] = fa[n] \o fb[i]}
  <2>1. 0 \in T
    <3>1. n + 0 = n /\ fb[0] = <<>> /\ fa[n] \in Seq(S)
      BY <1>6a, <1>7a
    <3>2. fa[n] \o <<>> = fa[n]
      BY ONLY <3>1, ConcatEmptySeq
    <3> QED BY <1>9, <3>1, <3>2
  <2>2. ASSUME NEW i \in T PROVE i + 1 \in T
    <3>1. ASSUME i + 1 <= m PROVE fc[n + (i + 1)] = fa[n] \o fb[i + 1]
      <4>0. i \in Nat /\ (i <= m => fc[n + i] = fa[n] \o fb[i])
        BY ONLY <2>2
      <4>1. i \in Nat /\ i + 1 \in 1..m /\ (i + 1) - 1 = i /\ (n + (i + 1)) - 1 = n + i
            /\ fc[n + i] = fa[n] \o fb[i] /\ i \in 0..m /\ n \in 0..n
        <5>1. i <= m /\ i + 1 \in 1..m /\ (i + 1) - 1 = i /\ i \in 0..m
          BY ONLY <3>1, <4>0, m \in Nat
        <5>2. (n + (i + 1)) - 1 = n + i /\ n \in 0..n
          BY ONLY <4>0, n \in Nat
        <5> QED BY ONLY <4>0, <5>1, <5>2
      <4>2. fb[i + 1] = fb[i] \o b[i + 1]
        BY ONLY <1>7a, <4>1
      <4>3. c[n + (i + 1)] = b[i + 1] /\ n + (i + 1) \in 1..l
        BY ONLY <1>5, <4>1
      <4>4. fc[n + (i + 1)] = fc[n + i] \o c[n + (i + 1)]
        BY ONLY <1>8a, <4>1, <4>3
      <4>5. fa[n] \in Seq(S) /\ fb[i] \in Seq(S) /\ b[i + 1] \in Seq(S)
        BY <1>2, <1>6a, <1>7a, <4>1
      <4>6. (fa[n] \o fb[i]) \o b[i + 1] = fa[n] \o (fb[i] \o b[i + 1])
        BY ONLY <4>5, <1>0
      <4> QED BY ONLY <4>1, <4>2, <4>3, <4>4, <4>6
    <3>2. i + 1 \in Nat
      BY <2>2
    <3> QED BY ONLY <3>1, <3>2
  <2>3. T \in SUBSET Nat
    OBVIOUS
  <2>4. m \in T
    <3> HIDE DEF T
    <3> QED BY <2>1, <2>2, <2>3, InductionOnNat
  <2>5. fc[n + m] = fa[n] \o fb[m]
    <3>1. m <= m => fc[n + m] = fa[n] \o fb[m]
      BY ONLY <2>4
    <3>2. m <= m
      BY ONLY m \in Nat
    <3> QED BY ONLY <3>1, <3>2
  <2> QED BY ONLY <1>4, <2>5
<1> QED BY <1>3, <1>6a, <1>7a, <1>8a, <1>10

\* One sequence, or none, flattened.
LEMMA FlattenOne ==
    ASSUME NEW S, NEW s \in Seq(S)
    PROVE  FlattenSeq(<<s>>) = s /\ FlattenSeq(<<>>) = <<>>
<1>1. FlattenSeq(<<>>) = <<>>
  BY DEF FlattenSeq
<1>2. PICK seqs : seqs = <<s>>
  OBVIOUS
<1>3. seqs \in [1..1 -> Seq(S)] /\ seqs[1] = s
  BY <1>2
<1>4. PICK n \in Nat : n = 1
  OBVIOUS
<1>5. PICK flat : Flattens(S, n, seqs, flat)
  BY ONLY n \in Nat, <1>3, <1>4, Flattening
<1>6. FlattenSeq(seqs) = flat[1] /\ flat[1] = flat[1 - 1] \o s /\ flat[0] = <<>>
  BY ONLY <1>3, <1>4, <1>5 DEF Flattens
<1>7. flat[1] = <<>> \o s
  BY ONLY <1>6
<1>8. <<>> \o s = s
  BY ConcatEmptySeq
<1> QED BY ONLY <1>1, <1>2, <1>6, <1>7, <1>8
=============================================================================
