---------------------------- MODULE SequenceLemmas ----------------------------
(* Facts about numbers and sequences that the proofs of several modules rest   *)
(* on.  Induction is by the least counterexample: the library's induction      *)
(* theorems take an operator as a parameter, but that < is well founded on Nat *)
(* is a theorem about sets (WFMin).                                            *)
EXTENDS Integers, SequencesExt, WellFoundedInduction, SequenceTheorems, FiniteSetTheorems,
        TLAPS

(* Every set of numbers that is not empty has a least element.                 *)
LEMMA LeastElement ==
    ASSUME NEW T \in SUBSET Nat, T # {}
    PROVE  \E m \in T : \A k \in T : m <= k
<1> DEFINE R == {p \in Nat \X Nat : p[1] < p[2]}
<1>1. IsWellFoundedOn(R, Nat)
  BY NatLessThanWellFounded DEF OpToRel
<1>2. PICK m \in T : \A k \in T : <<k, m>> \notin R
  BY <1>1, WFMin
<1>3. ASSUME NEW k \in T
      PROVE  m <= k
  <2>1. <<k, m>> \in Nat \X Nat
    OBVIOUS
  <2>2. ~(k < m)
    BY <1>2, <2>1
  <2> QED
    BY <2>2
<1> QED
  BY <1>3

(* A set of numbers that has 0, and with every number below n the next one,    *)
(* has all numbers up to n.                                                    *)
LEMMA UpTo ==
    ASSUME NEW n \in Nat, NEW P, 0 \in P, \A i \in 0..(n - 1) : i \in P => i + 1 \in P
    PROVE  0..n \subseteq P
<1> DEFINE T == {i \in 0..n : i \notin P}
<1>1. ASSUME T # {}
      PROVE  FALSE
  <2>1. T \in SUBSET Nat
    OBVIOUS
  <2>2. PICK m \in T : \A k \in T : m <= k
    BY <1>1, <2>1, LeastElement
  <2>3. m # 0 /\ m - 1 \in 0..(n - 1) /\ m - 1 \notin T
    BY <2>2
  <2>4. m - 1 \in P
    BY <2>3
  <2>5. (m - 1) + 1 \in P
    BY <2>3, <2>4
  <2> QED
    BY <2>2, <2>5
<1> QED
  BY <1>1

(* The greatest element of a set of numbers that has a bound.                  *)
LEMMA MaxOfBounded ==
    ASSUME NEW n \in Nat, NEW T \in SUBSET (1..n), T # {}
    PROVE  Max(T) \in T /\ \A k \in T : k <= Max(T)
<1> DEFINE U == {n - k : k \in T}
<1>1. \A k \in T : k \in Int /\ n - k \in Nat
  OBVIOUS
<1>2. U \in SUBSET Nat /\ U # {}
  BY <1>1
<1>3. PICK m \in U : \A k \in U : m <= k
  BY <1>2, LeastElement
<1>4. PICK x \in T : m = n - x
  BY <1>3
<1>5. ASSUME NEW k \in T
      PROVE  x >= k
  <2>1. n - k \in U
    OBVIOUS
  <2>2. n - x <= n - k
    BY <1>3, <1>4, <2>1
  <2> HIDE DEF U
  <2>3. x \in Int /\ k \in Int
    BY <1>1
  <2> QED
    BY <2>2, <2>3
<1>6. Max(T) \in T /\ \A k \in T : Max(T) >= k
  BY <1>5 DEF Max
<1>7. Max(T) \in Int
  BY <1>1, <1>6
<1> QED
  BY <1>1, <1>6, <1>7

(* The greatest number up to n is n.                                           *)
LEMMA UpperEnd ==
    ASSUME NEW n \in Nat \ {0}
    PROVE  Max(1..n) = n
<1>1. n \in 1..n /\ \A k \in 1..n : n >= k
  OBVIOUS
<1>2. Max(1..n) \in 1..n /\ \A k \in 1..n : Max(1..n) >= k
  BY <1>1 DEF Max
<1> QED
  BY <1>1, <1>2

(* A fold over a sequence is taken from a function over sets of positions: G   *)
(* is one step, with the element at a position.                                *)
Folding(g, m, base, G) ==
    \A s \in SUBSET (1..m) :
       g[s] = IF s = {} THEN base ELSE G[<<Max(s), g[s \ {Max(s)}]>>]

(* There is such a function, for any step and length.                          *)
LEMMA FoldingExists ==
    ASSUME NEW D, NEW base \in D, NEW n \in Nat, NEW G \in [(1..n) \X D -> D]
    PROVE  \E g \in [SUBSET (1..n) -> D] : Folding(g, n, base, G)
<1> DEFINE P == {m \in 0..n : \E g \in [SUBSET (1..m) -> D] : Folding(g, m, base, G)}
<1>1. 0 \in P
  <2> DEFINE g == [s \in SUBSET (1..0) |-> base]
  <2>1. g \in [SUBSET (1..0) -> D] /\ \A s \in SUBSET (1..0) : s = {} /\ g[s] = base
    OBVIOUS
  <2> HIDE DEF g
  <2>2. Folding(g, 0, base, G)
    BY <2>1 DEF Folding
  <2>3. 0 \in 0..n
    OBVIOUS
  <2> QED
    BY <2>1, <2>2, <2>3
<1>2. ASSUME NEW m \in 0..(n - 1), m \in P
      PROVE  m + 1 \in P
  <2>1. PICK g \in [SUBSET (1..m) -> D] : Folding(g, m, base, G)
    BY <1>2
  <2> DEFINE k == m + 1
             h == [s \in SUBSET (1..k) |-> IF k \in s THEN G[<<k, g[s \ {k}]>>] ELSE g[s]]
  <2>2. k \in Nat /\ k \in 1..n /\ \A s \in SUBSET (1..k) : s \ {k} \in SUBSET (1..m)
    OBVIOUS
  <2>3. \A s \in SUBSET (1..k) : k \notin s => s \in SUBSET (1..m)
    OBVIOUS
  <2>4. k \notin 1..m /\ \A x \in 1..k : x <= k /\ x \in Int
    OBVIOUS
  <2>5. \A s \in SUBSET (1..k) : h[s] = IF k \in s THEN G[<<k, g[s \ {k}]>>] ELSE g[s]
    OBVIOUS
  <2>6. ASSUME NEW s \in SUBSET (1..k)
        PROVE  h[s] \in D
    <3>1. CASE k \in s
      <4>1. g[s \ {k}] \in D
        BY <2>2
      <4> QED
        BY <2>2, <2>5, <3>1, <4>1
    <3>2. CASE k \notin s
      BY <2>3, <2>5, <3>2
    <3> QED
      BY <3>1, <3>2
  <2>7. h \in [SUBSET (1..k) -> D]
    BY <2>6
  <2> HIDE DEF h, k
  <2>8. ASSUME NEW s \in SUBSET (1..k)
        PROVE  h[s] = IF s = {} THEN base ELSE G[<<Max(s), h[s \ {Max(s)}]>>]
    <3>1. CASE s = {}
      <4>1. h[s] = g[s] /\ s \in SUBSET (1..m)
        BY <2>3, <2>5, <3>1
      <4> QED
        BY <2>1, <3>1, <4>1 DEF Folding
    <3>2. CASE s # {}
      <4>1. Max(s) \in s /\ \A x \in s : x <= Max(s)
        BY <2>2, <3>2, MaxOfBounded
      <4>2. CASE k \in s
        <5>1. Max(s) \in 1..k /\ k <= Max(s)
          BY <4>1, <4>2
        <5>2. Max(s) = k
          BY <2>2, <2>4, <5>1
        <5>3. h[s \ {k}] = g[s \ {k}]
          <6>1. s \ {k} \in SUBSET (1..k) /\ k \notin s \ {k}
            OBVIOUS
          <6> QED
            BY <2>5, <6>1
        <5> QED
          BY <2>5, <3>2, <4>2, <5>2, <5>3
      <4>3. CASE k \notin s
        <5>1. s \in SUBSET (1..m)
          BY <2>3, <4>3
        <5>2. s \ {Max(s)} \in SUBSET (1..k) /\ k \notin s \ {Max(s)}
          BY <4>3
        <5>3. h[s] = g[s] /\ h[s \ {Max(s)}] = g[s \ {Max(s)}]
          BY <2>5, <4>3, <5>2
        <5>4. g[s] = G[<<Max(s), g[s \ {Max(s)}]>>]
          BY <2>1, <3>2, <5>1 DEF Folding
        <5> QED
          BY <3>2, <5>3, <5>4
      <4> QED
        BY <4>2, <4>3
    <3> QED
      BY <3>1, <3>2
  <2>9. Folding(h, k, base, G)
    BY <2>8 DEF Folding
  <2>10. k \in 0..n
    BY <2>2
  <2>11. k \in P
    BY <2>7, <2>9, <2>10
  <2> QED
    BY <2>11 DEF k
<1> HIDE DEF P
<1>3. 0..n \subseteq P
  BY <1>1, <1>2, UpTo
<1>4. n \in P
  BY <1>3
<1> QED
  BY <1>4 DEF P

(* The same of a function of which it is not known that its values are in D.   *)
FoldingIn(D, g, m, base, G) ==
    /\ base \in D /\ m \in Nat /\ G \in [(1..m) \X D -> D]
    /\ g[{}] = base
    /\ \A s \in SUBSET (1..m) :
          s # {} /\ g[s \ {Max(s)}] \in D => g[s] = G[<<Max(s), g[s \ {Max(s)}]>>]

(* h holds the results of the steps, one after the other.                      *)
Unfolded(h, D, m, base, G, last) ==
    /\ h \in [0..m -> D] /\ h[0] = base /\ h[m] = last
    /\ \A i \in 1..m : h[i] = G[<<i, h[i - 1]>>]

(* The results of the steps of a fold, one after the other.                    *)
LEMMA FoldingSteps ==
    ASSUME NEW D, NEW base, NEW n, NEW G, NEW g, FoldingIn(D, g, n, base, G)
    PROVE  \E h : Unfolded(h, D, n, base, G, g[1..n])
<1> DEFINE h == [i \in 0..n |-> g[1..i]]
           P == {i \in 0..n : h[i] \in D}
<1>9. base \in D /\ n \in Nat /\ G \in [(1..n) \X D -> D]
  BY DEF FoldingIn
<1>1. h[0] = base /\ h[n] = g[1..n] /\ 0 \in 0..n
  <2>1. 1..0 = {} /\ 0 \in 0..n /\ n \in 0..n
    BY <1>9
  <2> QED
    BY <2>1 DEF FoldingIn
<1>2. ASSUME NEW i \in 1..n, h[i - 1] \in D
      PROVE  h[i] = G[<<i, h[i - 1]>>] /\ h[i] \in D
  <2>1. /\ 1..i \in SUBSET (1..n) /\ 1..i # {} /\ i \in 0..n /\ i - 1 \in 0..n /\ i \in Nat \ {0}
    <3>1. n \in Nat
      BY <1>9
    <3> QED
      BY ONLY <3>1, i \in 1..n
  <2>2. Max(1..i) = i
    BY <2>1, UpperEnd
  <2>3. (1..i) \ {i} = 1..(i - 1)
    BY <2>1
  <2>4. h[i] = g[1..i] /\ h[i - 1] = g[(1..i) \ {Max(1..i)}]
    BY <2>1, <2>2, <2>3
  <2> HIDE DEF h
  <2>5. h[i] = G[<<i, h[i - 1]>>]
    BY <1>9, <1>2, <2>1, <2>2, <2>4 DEF FoldingIn
  <2> QED
    BY <1>9, <1>2, <2>5
<1> HIDE DEF h
<1>3. ASSUME NEW i \in 0..(n - 1), i \in P
      PROVE  i + 1 \in P
  <2>1. i + 1 \in 1..n /\ (i + 1) - 1 = i /\ i + 1 \in 0..n /\ h[i] \in D
    BY <1>9, <1>3
  <2> QED
    BY <1>2, <2>1
<1>4. 0 \in P
  BY <1>9, <1>1
<1> HIDE DEF P
<1>5. 0..n \subseteq P
  BY <1>9, <1>3, <1>4, UpTo
<1>6. \A i \in 0..n : h[i] \in D
  BY <1>5 DEF P
<1>7. \A i \in 1..n : h[i] = G[<<i, h[i - 1]>>]
  <2> TAKE i \in 1..n
  <2>1. i - 1 \in 0..n
    BY <1>9
  <2> QED
    BY <1>2, <1>6, <2>1
<1>8. h \in [0..n -> D]
  BY <1>6 DEF h
<1> QED
  BY <1>1, <1>7, <1>8 DEF Unfolded

(* What RemoveAt leaves.                                                       *)
LEMMA RemoveAtFacts ==
    ASSUME NEW S, NEW q \in Seq(S), NEW i \in 1..Len(q)
    PROVE  /\ RemoveAt(q, i) \in Seq(S)
           /\ Len(RemoveAt(q, i)) = Len(q) - 1
           /\ \A j \in 1..(Len(q) - 1) : RemoveAt(q, i)[j] = IF j < i THEN q[j] ELSE q[j + 1]
<1> DEFINE front == SubSeq(q, 1, i - 1)
           back == SubSeq(q, i + 1, Len(q))
<1>1. /\ front \in Seq(S) /\ Len(front) = i - 1
      /\ \A j \in 1..(i - 1) : front[j] = q[j]
  BY SubSeqProperties
<1>2. /\ back \in Seq(S) /\ Len(back) = Len(q) - i
      /\ \A j \in 1..(Len(q) - i) : back[j] = q[i + j]
  BY SubSeqProperties
<1>3. RemoveAt(q, i) = front \o back
  BY DEF RemoveAt
<1> HIDE DEF front, back
<1>4. /\ front \o back \in Seq(S)
      /\ Len(front \o back) = Len(q) - 1
  BY <1>1, <1>2
<1>5. \A j \in 1..(Len(q) - 1) : (front \o back)[j] = IF j < i THEN front[j] ELSE back[j - (i - 1)]
  BY <1>1, <1>2
<1>6. \A j \in 1..(Len(q) - 1) : (front \o back)[j] = IF j < i THEN q[j] ELSE q[j + 1]
  <2> TAKE j \in 1..(Len(q) - 1)
  <2>1. CASE j < i
    BY <1>1, <1>5, <2>1
  <2>2. CASE ~(j < i)
    <3> DEFINE k == j - (i - 1)
    <3>1. k \in 1..(Len(q) - i) /\ i + k = j + 1
      BY <2>2
    <3>2. (front \o back)[j] = back[k]
      BY <1>5, <2>2
    <3> HIDE DEF k
    <3>3. back[k] = q[i + k]
      BY <1>2, <3>1
    <3> QED
      BY <2>2, <3>1, <3>2, <3>3
  <2> QED
    BY <2>1, <2>2
<1> QED
  BY <1>3, <1>4, <1>6

(* Two sequences of which one ends the other, element by element.              *)
LEMMA SuffixByElements ==
    ASSUME NEW S, NEW s \in Seq(S), NEW t \in Seq(S), NEW d \in Nat,
           Len(t) = d + Len(s), \A i \in 1..Len(s) : s[i] = t[d + i]
    PROVE  IsSuffix(s, t)
<1> DEFINE rs == Reverse(s)
           rt == Reverse(t)
<1>1. rs \in Seq(S) /\ Len(rs) = Len(s) /\ \A i \in 1..Len(s) : rs[i] = s[(Len(s) - i) + 1]
  BY DEF Reverse
<1>2. rt \in Seq(S) /\ Len(rt) = Len(t) /\ \A i \in 1..Len(t) : rt[i] = t[(Len(t) - i) + 1]
  BY DEF Reverse
<1> HIDE DEF rs, rt
<1>3. \A i \in 1..Len(s) : rs[i] = rt[i]
  <2> TAKE i \in 1..Len(s)
  <2>1. s[(Len(s) - i) + 1] = t[d + ((Len(s) - i) + 1)]
    OBVIOUS
  <2>2. d + ((Len(s) - i) + 1) = (Len(t) - i) + 1
    OBVIOUS
  <2> QED
    BY <1>1, <1>2, <2>1, <2>2
<1>4. SubSeq(rs, 1, Len(rs)) = SubSeq(rt, 1, Len(rs))
  BY <1>1, <1>2, <1>3
<1>5. IsPrefix(rs, rt)
  BY <1>1, <1>2, <1>4 DEF IsPrefix
<1> QED
  BY <1>5 DEF IsSuffix, rs, rt

(* No element twice.                                                           *)
Distinct(q) == \A i, j \in 1..Len(q) : q[i] = q[j] => i = j

(* The length of such a sequence is the number of its elements.                *)
LEMMA DistinctCount ==
    ASSUME NEW S, NEW q \in Seq(S), Distinct(q)
    PROVE  IsFiniteSet(ToSet(q)) /\ Cardinality(ToSet(q)) = Len(q)
<1>1. q \in [1..Len(q) -> ToSet(q)]
  BY DEF ToSet
<1>2. q \in Bijection(1..Len(q), ToSet(q))
  BY <1>1 DEF Bijection, Injection, Surjection, IsInjective, ToSet, Distinct
<1>3. ExistsBijection(1..Len(q), ToSet(q)) /\ Len(q) \in Nat
  BY <1>2 DEF ExistsBijection
<1> QED
  BY <1>3, FS_NatBijection, FS_CountingElements

(* A flattened sequence is made part by part.                                  *)
LEMMA Flattened ==
    ASSUME NEW S, NEW ss \in Seq(Seq(S)), ss # <<>>
    PROVE  \E h \in [0..Len(ss) -> Seq(S)] :
              /\ h[0] = <<>> /\ h[Len(ss)] = FlattenSeq(ss)
              /\ \A i \in 1..Len(ss) : h[i] = h[i - 1] \o ss[i]
<1> DEFINE D == Seq(S)
           n == Len(ss)
           step(f, i) == IF i = 1 THEN ss[i] ELSE f[i - 1] \o ss[i]
           flat == CHOOSE f : f = [i \in 1..n |-> step(f, i)]
           G == [p \in (1..n) \X D |-> p[2] \o ss[p[1]]]
           base == <<>>
<1>1. n \in Nat \ {0} /\ \A i \in 1..n : ss[i] \in D
  OBVIOUS
<1>2. FlattenSeq(ss) = flat[n]
  BY <1>1 DEF FlattenSeq
<1>3. G \in [(1..n) \X D -> D] /\ base \in D
  BY <1>1
<1>4. \A i \in 1..n, l \in D : G[<<i, l>>] = l \o ss[i]
  OBVIOUS
<1>5. \A l \in D : base \o l = l
  OBVIOUS
<1> HIDE DEF G, n, D, base
<1>6. PICK g \in [SUBSET (1..n) -> D] : Folding(g, n, base, G)
  BY <1>1, <1>3, FoldingExists
<1>7. FoldingIn(D, g, n, base, G)
  <2>1. g[{}] = base
    BY <1>6 DEF Folding
  <2>2. \A s \in SUBSET (1..n) : s # {} /\ g[s \ {Max(s)}] \in D => g[s] = G[<<Max(s), g[s \ {Max(s)}]>>]
    BY <1>6 DEF Folding
  <2> QED
    BY <1>1, <1>3, <2>1, <2>2 DEF FoldingIn
<1>8. PICK h : Unfolded(h, D, n, base, G, g[1..n])
  BY <1>7, FoldingSteps
<1>9. h \in [0..n -> D] /\ h[0] = base /\ \A i \in 1..n : h[i] = h[i - 1] \o ss[i]
  <2>1. h \in [0..n -> D] /\ h[0] = base /\ \A i \in 1..n : h[i] = G[<<i, h[i - 1]>>]
    BY <1>8 DEF Unfolded
  <2>2. \A i \in 1..n : i - 1 \in 0..n
    BY <1>1
  <2> QED
    BY <1>4, <2>1, <2>2
<1>10. h[1] = ss[1]
  <2>1. 1 \in 1..n /\ ss[1] \in D
    BY <1>1
  <2>2. h[1] = h[1 - 1] \o ss[1]
    BY <1>9, <2>1
  <2>3. 1 - 1 = 0 /\ h[0] = base
    BY <1>9
  <2>4. base \o ss[1] = ss[1]
    BY <1>5, <2>1
  <2> QED
    BY <2>2, <2>3, <2>4
<1> DEFINE f == [i \in 1..n |-> h[i]]
<1>11. f = [i \in 1..n |-> step(f, i)]
  <2> SUFFICES ASSUME NEW i \in 1..n
               PROVE  h[i] = step(f, i)
    OBVIOUS
  <2>1. CASE i = 1
    BY <1>10, <2>1
  <2>2. CASE i # 1
    <3>1. i - 1 \in 1..n
      BY <1>1, <2>2
    <3> QED
      BY <1>9, <2>2, <3>1
  <2> QED
    BY <2>1, <2>2
<1>12. flat = [i \in 1..n |-> step(flat, i)]
  BY <1>11
<1> HIDE DEF flat, f
<1> DEFINE P == {i \in 0..n : i > 0 => flat[i] = h[i]}
<1>13. ASSUME NEW i \in 0..(n - 1), i \in P
       PROVE  i + 1 \in P
  <2>1. i + 1 \in 1..n /\ (i + 1) - 1 = i
    BY <1>1
  <2>2. CASE i = 0
    BY <1>1, <1>10, <1>12, <2>1, <2>2
  <2>3. CASE i # 0
    <3>1. flat[i + 1] = step(flat, i + 1)
      BY <1>12, <2>1
    <3>2. i + 1 # 1 /\ i > 0 /\ i + 1 \in 0..n
      BY <1>1, <2>3
    <3>3. flat[i + 1] = flat[i] \o ss[i + 1]
      BY <2>1, <3>1, <3>2
    <3>4. flat[i] = h[i]
      BY <1>13, <3>2
    <3>5. h[i + 1] = h[i] \o ss[i + 1]
      BY <1>9, <2>1
    <3>6. flat[i + 1] = h[i + 1]
      BY <3>3, <3>4, <3>5
    <3> QED
      BY <3>2, <3>6
  <2> QED
    BY <2>2, <2>3
<1>14. 0 \in P
  BY <1>1
<1> HIDE DEF P
<1>15. 0..n \subseteq P
  BY <1>1, <1>13, <1>14, UpTo
<1>16. flat[n] = h[n]
  BY <1>1, <1>15 DEF P
<1> QED
  BY <1>2, <1>9, <1>16 DEF n, D, base

(* Flattening goes through a concatenation.                                    *)
LEMMA FlattenConcat ==
    ASSUME NEW S, NEW ss \in Seq(Seq(S)), NEW tt \in Seq(Seq(S))
    PROVE  FlattenSeq(ss \o tt) = FlattenSeq(ss) \o FlattenSeq(tt) /\ FlattenSeq(ss) \in Seq(S)
<1>1. ASSUME NEW uu \in Seq(Seq(S))
      PROVE  \E h \in [0..Len(uu) -> Seq(S)] :
                /\ h[0] = <<>> /\ h[Len(uu)] = FlattenSeq(uu)
                /\ \A i \in 1..Len(uu) : h[i] = h[i - 1] \o uu[i]
  <2>1. CASE uu = <<>>
    <3> DEFINE h == [i \in 0..0 |-> <<>>]
    <3>1. Len(uu) = 0 /\ FlattenSeq(uu) = <<>> /\ 1..0 = {}
      BY <2>1 DEF FlattenSeq
    <3>2. h \in [0..0 -> Seq(S)] /\ h[0] = <<>>
      OBVIOUS
    <3> HIDE DEF h
    <3> QED
      BY <3>1, <3>2
  <2>2. CASE uu # <<>>
    BY <2>2, Flattened
  <2> QED
    BY <2>1, <2>2
<1> DEFINE m == Len(ss)
           n == Len(tt)
           uu == ss \o tt
<1>2. /\ m \in Nat /\ n \in Nat /\ uu \in Seq(Seq(S)) /\ Len(uu) = m + n
      /\ \A i \in 1..m : uu[i] = ss[i] /\ ss[i] \in Seq(S)
      /\ \A i \in 1..n : uu[m + i] = tt[i] /\ tt[i] \in Seq(S)
  OBVIOUS
<1>3. PICK f \in [0..m -> Seq(S)] : f[0] = <<>> /\ f[m] = FlattenSeq(ss) /\ \A i \in 1..m : f[i] = f[i - 1] \o ss[i]
  BY <1>1
<1>4. PICK g \in [0..n -> Seq(S)] : g[0] = <<>> /\ g[n] = FlattenSeq(tt) /\ \A i \in 1..n : g[i] = g[i - 1] \o tt[i]
  BY <1>1
<1> HIDE DEF uu
<1>5. PICK h \in [0..(m + n) -> Seq(S)] :
         h[0] = <<>> /\ h[m + n] = FlattenSeq(uu) /\ \A i \in 1..(m + n) : h[i] = h[i - 1] \o uu[i]
  <2>1. \E h \in [0..Len(uu) -> Seq(S)] :
           h[0] = <<>> /\ h[Len(uu)] = FlattenSeq(uu) /\ \A i \in 1..Len(uu) : h[i] = h[i - 1] \o uu[i]
    BY <1>1, <1>2
  <2>2. Len(uu) = m + n
    BY <1>2
  <2> HIDE DEF m, n
  <2> QED
    BY <2>1, <2>2
<1> HIDE DEF m, n
<1> DEFINE P == {i \in 0..m : h[i] = f[i]}
<1>6. 0 \in P
  BY <1>2, <1>3, <1>5
<1>7. ASSUME NEW i \in 0..(m - 1), i \in P
      PROVE  i + 1 \in P
  <2>1. i + 1 \in 1..m /\ i + 1 \in 1..(m + n) /\ i + 1 \in 0..m /\ (i + 1) - 1 = i
    BY <1>2
  <2>2. h[i] = f[i]
    BY <1>7
  <2>3. h[i + 1] = h[i] \o uu[i + 1] /\ f[i + 1] = f[i] \o ss[i + 1] /\ uu[i + 1] = ss[i + 1]
    BY <1>2, <1>3, <1>5, <2>1
  <2> QED
    BY <2>1, <2>2, <2>3
<1> HIDE DEF P
<1>8. 0..m \subseteq P
  BY <1>2, <1>6, <1>7, UpTo
<1>9. h[m] = f[m] /\ f[m] \in Seq(S)
  BY <1>2, <1>3, <1>8 DEF P
<1> DEFINE Q == {i \in 0..n : h[m + i] = f[m] \o g[i]}
<1>10. 0 \in Q
  <2>1. f[m] \o <<>> = f[m] /\ m + 0 = m /\ 0 \in 0..n
    BY <1>2, <1>9
  <2> QED
    BY <1>4, <1>9, <2>1
<1>11. ASSUME NEW i \in 0..(n - 1), i \in Q
       PROVE  i + 1 \in Q
  <2>1. /\ i + 1 \in 1..n /\ i \in 0..n /\ m + (i + 1) \in 1..(m + n) /\ i + 1 \in 0..n
        /\ (i + 1) - 1 = i /\ (m + (i + 1)) - 1 = m + i
    BY <1>2
  <2>2. h[m + i] = f[m] \o g[i]
    BY <1>11
  <2>3. h[m + (i + 1)] = h[m + i] \o uu[m + (i + 1)] /\ g[i + 1] = g[i] \o tt[i + 1] /\ uu[m + (i + 1)] = tt[i + 1]
    BY <1>2, <1>4, <1>5, <2>1
  <2>4. g[i] \in Seq(S) /\ tt[i + 1] \in Seq(S)
    BY <1>2, <1>4, <2>1
  <2> DEFINE a == f[m]
             b == g[i]
             c == tt[i + 1]
  <2>5. a \in Seq(S) /\ b \in Seq(S) /\ c \in Seq(S)
    BY <1>9, <2>4
  <2> HIDE DEF a, b, c
  <2>6. (a \o b) \o c = a \o (b \o c)
    BY ONLY <2>5
  <2> QED
    BY <2>1, <2>2, <2>3, <2>6 DEF a, b, c
<1> HIDE DEF Q
<1>12. 0..n \subseteq Q
  BY <1>2, <1>10, <1>11, UpTo
<1>13. h[m + n] = f[m] \o g[n]
  <2>1. n \in Q
    BY <1>2, <1>12
  <2> QED
    BY <2>1 DEF Q
<1> QED
  BY <1>3, <1>4, <1>5, <1>9, <1>13 DEF uu

-----------------------------------------------------------------------------
(* What is made of a sequence element by element. *)

(* A set that has the empty sequence, and with every sequence each of its      *)
(* extensions by one element, has all sequences.                               *)
LEMMA Extending ==
    ASSUME NEW S, NEW P, <<>> \in P, \A s \in Seq(S), x \in S : s \in P => Append(s, x) \in P
    PROVE  Seq(S) \subseteq P
<1> SUFFICES ASSUME NEW s \in Seq(S)
             PROVE  s \in P
  OBVIOUS
<1> DEFINE n == Len(s)
           front(k) == SubSeq(s, 1, k)
           Q == {k \in 0..n : front(k) \in P}
<1>1. n \in Nat /\ front(0) = <<>> /\ front(n) = s
  OBVIOUS
<1> HIDE DEF n, front
<1>2. 0 \in Q
  BY <1>1
<1>3. ASSUME NEW k \in 0..(n - 1), k \in Q
      PROVE  k + 1 \in Q
  <2>1. front(k) \in Seq(S) /\ s[k + 1] \in S /\ k + 1 \in 0..n
    BY <1>1 DEF front, n
  <2>2. front(k + 1) = Append(front(k), s[k + 1])
    BY <1>1 DEF front, n
  <2> QED
    BY <1>3, <2>1, <2>2
<1> HIDE DEF Q
<1>4. 0..n \subseteq Q
  BY <1>1, <1>2, <1>3, UpTo
<1>5. n \in Q
  BY <1>1, <1>4
<1> QED
  BY <1>1, <1>5 DEF Q

(* A sequence that is a and then b, element by element.                        *)
LEMMA Joined ==
    ASSUME NEW D, NEW a \in Seq(D), NEW b \in Seq(D), NEW c \in Seq(D), Len(c) = Len(a) + Len(b),
           \A i \in 1..Len(a) : c[i] = a[i], \A i \in 1..Len(b) : c[Len(a) + i] = b[i]
    PROVE  c = a \o b
<1> DEFINE d == a \o b
<1>1. ASSUME NEW i \in 1..(Len(a) + Len(b))
      PROVE  c[i] = d[i]
  <2>1. CASE i <= Len(a)
    BY <2>1
  <2>2. CASE i > Len(a)
    <3>1. i - Len(a) \in 1..Len(b) /\ Len(a) + (i - Len(a)) = i
      BY <2>2
    <3>2. c[Len(a) + (i - Len(a))] = b[i - Len(a)]
      BY <3>1
    <3>3. d[i] = b[i - Len(a)]
      BY <2>2
    <3> HIDE DEF d
    <3> QED
      BY <3>1, <3>2, <3>3
  <2> QED
    BY <2>1, <2>2
<1>2. d \in Seq(D) /\ Len(d) = Len(a) + Len(b)
  OBVIOUS
<1> HIDE DEF d
<1>3. c = d
  BY <1>1, <1>2
<1> QED
  BY <1>3 DEF d

(* What g makes of the elements of a sequence, in one sequence.                *)
Flat(g, s) == FlattenSeq([i \in DOMAIN s |-> g[s[i]]])

(* What g makes of an element of S is a sequence of elements of T.             *)
Makes(g, S, T) == \A x \in S : g[x] \in Seq(T)

(* It goes through a concatenation.                                            *)
LEMMA FlatConcat ==
    ASSUME NEW S, NEW T, NEW g, Makes(g, S, T), NEW s \in Seq(S), NEW t \in Seq(S)
    PROVE  Flat(g, s \o t) = Flat(g, s) \o Flat(g, t) /\ Flat(g, s) \in Seq(T)
<1> DEFINE of(u) == [i \in DOMAIN u |-> g[u[i]]]
<1>1. ASSUME NEW u \in Seq(S)
      PROVE  of(u) \in Seq(Seq(T)) /\ Len(of(u)) = Len(u) /\ \A i \in 1..Len(u) : of(u)[i] = g[u[i]]
  <2>1. Len(u) \in Nat /\ DOMAIN u = 1..Len(u) /\ \A i \in 1..Len(u) : u[i] \in S /\ g[u[i]] \in Seq(T)
    BY DEF Makes
  <2>2. of(u) \in [1..Len(u) -> Seq(T)]
    BY <2>1
  <2> QED
    BY <2>1, <2>2
<1> DEFINE st == s \o t
<1>2. /\ st \in Seq(S) /\ Len(st) = Len(s) + Len(t) /\ Len(s) \in Nat /\ Len(t) \in Nat
      /\ \A i \in 1..Len(s) : st[i] = s[i]
      /\ \A i \in 1..Len(t) : st[Len(s) + i] = t[i]
  OBVIOUS
<1> HIDE DEF of, st
<1>3. /\ of(st) \in Seq(Seq(T)) /\ Len(of(st)) = Len(s) + Len(t)
      /\ \A i \in 1..(Len(s) + Len(t)) : of(st)[i] = g[st[i]]
  BY <1>1, <1>2
<1>4. of(s) \in Seq(Seq(T)) /\ Len(of(s)) = Len(s) /\ \A i \in 1..Len(s) : of(s)[i] = g[s[i]]
  BY <1>1
<1>5. of(t) \in Seq(Seq(T)) /\ Len(of(t)) = Len(t) /\ \A i \in 1..Len(t) : of(t)[i] = g[t[i]]
  BY <1>1
<1>6. of(st) = of(s) \o of(t)
  <2> DEFINE a == of(s)
             b == of(t)
             c == of(st)
             m == Len(s)
             n == Len(t)
  <2>1. /\ a \in Seq(Seq(T)) /\ b \in Seq(Seq(T)) /\ c \in Seq(Seq(T))
        /\ Len(a) = m /\ Len(b) = n /\ Len(c) = m + n /\ m \in Nat /\ n \in Nat
    BY <1>2, <1>3, <1>4, <1>5
  <2>2. ASSUME NEW i \in 1..m
        PROVE  c[i] = a[i]
    <3>1. i \in 1..(m + n)
      BY <2>1
    <3>2. of(st)[i] = g[st[i]] /\ st[i] = s[i] /\ of(s)[i] = g[s[i]]
      BY <1>2, <1>3, <1>4, <3>1
    <3> QED
      BY <3>2
  <2>3. ASSUME NEW i \in 1..n
        PROVE  c[m + i] = b[i]
    <3>1. m + i \in 1..(m + n)
      BY <2>1
    <3>2. of(st)[m + i] = g[st[m + i]] /\ st[m + i] = t[i] /\ of(t)[i] = g[t[i]]
      BY <1>2, <1>3, <1>5, <3>1
    <3> QED
      BY <3>2
  <2> HIDE DEF a, b, c, m, n
  <2>4. c = a \o b
    <3> DEFINE D == Seq(T)
    <3>1. a \in Seq(D) /\ b \in Seq(D) /\ c \in Seq(D)
      BY <2>1
    <3> HIDE DEF D
    <3>2. Len(c) = Len(a) + Len(b)
      BY <2>1
    <3>3. (\A i \in 1..Len(a) : c[i] = a[i]) /\ (\A i \in 1..Len(b) : c[Len(a) + i] = b[i])
      BY <2>1, <2>2, <2>3
    <3> QED
      BY ONLY <3>1, <3>2, <3>3, Joined
  <2> QED
    BY <2>4 DEF a, b, c
<1>7. FlattenSeq(of(s) \o of(t)) = FlattenSeq(of(s)) \o FlattenSeq(of(t)) /\ FlattenSeq(of(s)) \in Seq(T)
  BY <1>4, <1>5, FlattenConcat
<1> QED
  BY <1>6, <1>7 DEF Flat, of, st

(* Of no element, and of one.                                                  *)
LEMMA FlatOne ==
    ASSUME NEW S, NEW T, NEW g, Makes(g, S, T), NEW x \in S
    PROVE  Flat(g, <<>>) = <<>> /\ Flat(g, <<x>>) = g[x] /\ g[x] \in Seq(T)
<1>0. g[x] \in Seq(T)
  BY DEF Makes
<1>1. Flat(g, <<>>) = <<>>
  BY DEF Flat, FlattenSeq
<1>2. [i \in DOMAIN <<x>> |-> g[<<x>>[i]]] = <<g[x]>>
  OBVIOUS
<1>3. FlattenSeq(<<g[x]>>) = g[x]
  <2> DEFINE h == <<g[x]>>
  <2>1. h \in Seq(Seq(T)) /\ Len(h) = 1 /\ h # <<>> /\ h[1] = g[x]
    BY <1>0
  <2> HIDE DEF h
  <2>2. PICK f \in [0..Len(h) -> Seq(T)] :
              /\ f[0] = <<>> /\ f[Len(h)] = FlattenSeq(h)
              /\ \A i \in 1..Len(h) : f[i] = f[i - 1] \o h[i]
    BY <2>1, Flattened
  <2>3. f[1] = <<>> \o g[x]
    <3>1. 1 \in 1..Len(h) /\ 1 - 1 = 0
      BY <2>1
    <3>2. f[1] = f[1 - 1] \o h[1]
      BY <2>2, <3>1
    <3> QED
      BY <2>1, <2>2, <3>1, <3>2
  <2> QED
    BY <1>0, <2>1, <2>2, <2>3 DEF h
<1> QED
  BY <1>0, <1>1, <1>2, <1>3 DEF Flat

(* And of one more.                                                            *)
LEMMA FlatAppend ==
    ASSUME NEW S, NEW T, NEW g, Makes(g, S, T), NEW s \in Seq(S), NEW x \in S
    PROVE  Flat(g, Append(s, x)) = Flat(g, s) \o g[x] /\ Flat(g, s) \in Seq(T) /\ g[x] \in Seq(T)
<1> DEFINE one == <<x>>
<1>1. one \in Seq(S) /\ Append(s, x) = s \o one
  OBVIOUS
<1>2. Flat(g, one) = g[x] /\ g[x] \in Seq(T)
  BY FlatOne
<1> HIDE DEF one
<1>3. Flat(g, s \o one) = Flat(g, s) \o Flat(g, one) /\ Flat(g, s) \in Seq(T)
  BY <1>1, FlatConcat
<1> QED
  BY <1>1, <1>2, <1>3

(* Doing it twice is doing it once with what both make of an element.          *)
LEMMA FlatFlat ==
    ASSUME NEW S, NEW T, NEW U, NEW g, Makes(g, S, T), NEW h, Makes(h, T, U), NEW s \in Seq(S)
    PROVE  Flat(h, Flat(g, s)) = Flat([x \in S |-> Flat(h, g[x])], s)
<1> DEFINE k == [x \in S |-> Flat(h, g[x])]
           P == {q \in Seq(S) : Flat(h, Flat(g, q)) = Flat(k, q)}
<1>1. Makes(k, S, U)
  <2>1. ASSUME NEW x \in S
        PROVE  Flat(h, g[x]) \in Seq(U)
    <3>1. g[x] \in Seq(T)
      BY DEF Makes
    <3> QED
      BY <3>1, FlatConcat
  <2> QED
    BY <2>1 DEF Makes
<1>2. <<>> \in P
  <2>1. <<>> \in Seq(S) /\ Flat(g, <<>>) = <<>> /\ Flat(h, <<>>) = <<>> /\ Flat(k, <<>>) = <<>>
    BY DEF Flat, FlattenSeq
  <2> QED
    BY <2>1
<1>3. ASSUME NEW q \in Seq(S), NEW x \in S, q \in P
      PROVE  Append(q, x) \in P
  <2>1. Flat(g, Append(q, x)) = Flat(g, q) \o g[x] /\ Flat(g, q) \in Seq(T) /\ g[x] \in Seq(T)
    BY FlatAppend
  <2>2. Flat(h, Flat(g, q) \o g[x]) = Flat(h, Flat(g, q)) \o Flat(h, g[x])
    <3> DEFINE a == Flat(g, q)
               b == g[x]
    <3>1. a \in Seq(T) /\ b \in Seq(T) /\ Makes(h, T, U)
      BY <2>1
    <3> HIDE DEF a, b
    <3>2. Flat(h, a \o b) = Flat(h, a) \o Flat(h, b)
      BY ONLY <3>1, FlatConcat
    <3> QED
      BY <3>2 DEF a, b
  <2>3. Flat(k, Append(q, x)) = Flat(k, q) \o k[x]
    <3> HIDE DEF k
    <3> QED
      BY <1>1, FlatAppend
  <2>4. k[x] = Flat(h, g[x]) /\ Append(q, x) \in Seq(S)
    OBVIOUS
  <2> HIDE DEF k
  <2> QED
    BY <1>3, <2>1, <2>2, <2>3, <2>4
<1> HIDE DEF P
<1>4. s \in P
  BY <1>2, <1>3, Extending
<1> QED
  BY <1>4 DEF P

(* What is in a concatenation.                                                 *)
LEMMA SetOfConcat ==
    ASSUME NEW S, NEW s \in Seq(S), NEW t \in Seq(S)
    PROVE  ToSet(s \o t) = ToSet(s) \cup ToSet(t)
<1>1. ToSet(s \o t) \subseteq ToSet(s) \cup ToSet(t)
  BY DEF ToSet
<1>2. ASSUME NEW i \in 1..Len(s)
      PROVE  s[i] \in ToSet(s \o t)
  <2>1. i \in DOMAIN (s \o t) /\ (s \o t)[i] = s[i]
    OBVIOUS
  <2> QED
    BY <2>1 DEF ToSet
<1>3. ASSUME NEW i \in 1..Len(t)
      PROVE  t[i] \in ToSet(s \o t)
  <2>1. Len(s) + i \in DOMAIN (s \o t) /\ (s \o t)[Len(s) + i] = t[i]
    OBVIOUS
  <2> QED
    BY <2>1 DEF ToSet
<1>4. DOMAIN s = 1..Len(s) /\ DOMAIN t = 1..Len(t)
  OBVIOUS
<1> QED
  BY <1>1, <1>2, <1>3, <1>4 DEF ToSet

(* What is in the sequence that g makes.                                       *)
LEMMA SetOfFlat ==
    ASSUME NEW S, NEW T, NEW g, Makes(g, S, T), NEW s \in Seq(S)
    PROVE  ToSet(Flat(g, s)) = UNION {ToSet(g[x]) : x \in ToSet(s)}
<1> DEFINE P == {q \in Seq(S) : ToSet(Flat(g, q)) = UNION {ToSet(g[x]) : x \in ToSet(q)}}
<1>1. <<>> \in P
  <2>1. <<>> \in Seq(S) /\ Flat(g, <<>>) = <<>>
    BY DEF Flat, FlattenSeq
  <2>2. ToSet(<<>>) = {}
    BY DEF ToSet
  <2> QED
    BY <2>1, <2>2
<1>2. ASSUME NEW q \in Seq(S), NEW x \in S, q \in P
      PROVE  Append(q, x) \in P
  <2>1. Flat(g, Append(q, x)) = Flat(g, q) \o g[x] /\ Flat(g, q) \in Seq(T) /\ g[x] \in Seq(T)
    BY FlatAppend
  <2>2. ToSet(Flat(g, q) \o g[x]) = ToSet(Flat(g, q)) \cup ToSet(g[x])
    BY <2>1, SetOfConcat
  <2>3. ToSet(Append(q, x)) = ToSet(q) \cup {x}
    <3> DEFINE one == <<x>>
    <3>1. one \in Seq(S) /\ Append(q, x) = q \o one
      OBVIOUS
    <3>2. ToSet(one) = {x}
      BY DEF ToSet
    <3> HIDE DEF one
    <3> QED
      BY <3>1, <3>2, SetOfConcat
  <2>4. Append(q, x) \in Seq(S)
    OBVIOUS
  <2> QED
    BY <1>2, <2>1, <2>2, <2>3, <2>4
<1> HIDE DEF P
<1>3. s \in P
  BY <1>1, <1>2, Extending
<1> QED
  BY <1>3 DEF P

(* It depends on what g makes of the elements there are.                       *)
LEMMA FlatSame ==
    ASSUME NEW g, NEW h, NEW s, \A x \in ToSet(s) : g[x] = h[x]
    PROVE  Flat(g, s) = Flat(h, s)
<1>1. \A i \in DOMAIN s : g[s[i]] = h[s[i]]
  BY DEF ToSet
<1> QED
  BY <1>1 DEF Flat

(* Of every two elements of s, the earlier one comes first in R.               *)
InOrder(R, s) == \A i, j \in DOMAIN s : i < j => <<s[i], s[j]>> \in R

(* A concatenation is in order if its parts are, and one to the other.         *)
LEMMA OrderOfConcat ==
    ASSUME NEW R, NEW S, NEW s \in Seq(S), NEW t \in Seq(S), InOrder(R, s), InOrder(R, t),
           \A x \in ToSet(s), y \in ToSet(t) : <<x, y>> \in R
    PROVE  InOrder(R, s \o t)
<1> SUFFICES ASSUME NEW i \in DOMAIN (s \o t), NEW j \in DOMAIN (s \o t), i < j
             PROVE  <<(s \o t)[i], (s \o t)[j]>> \in R
  BY DEF InOrder
<1>1. /\ i \in Nat /\ j \in Nat /\ i >= 1 /\ i < j /\ j <= Len(s) + Len(t)
      /\ Len(s) \in Nat /\ Len(t) \in Nat
  OBVIOUS
<1>2. CASE j <= Len(s)
  <2>1. i \in DOMAIN s /\ j \in DOMAIN s /\ (s \o t)[i] = s[i] /\ (s \o t)[j] = s[j]
    BY <1>1, <1>2
  <2> QED
    BY <1>1, <2>1 DEF InOrder
<1>3. CASE i <= Len(s) /\ j > Len(s)
  <2>1. i \in DOMAIN s /\ j - Len(s) \in DOMAIN t /\ (s \o t)[i] = s[i] /\ (s \o t)[j] = t[j - Len(s)]
    BY <1>1, <1>3
  <2> QED
    BY <2>1 DEF ToSet
<1>4. CASE i > Len(s)
  <2>1. /\ i - Len(s) \in DOMAIN t /\ j - Len(s) \in DOMAIN t
        /\ (s \o t)[i] = t[i - Len(s)] /\ (s \o t)[j] = t[j - Len(s)]
    BY <1>1, <1>4
  <2>2. i - Len(s) < j - Len(s)
    BY <1>1
  <2> QED
    BY <2>1, <2>2 DEF InOrder
<1> QED
  BY <1>1, <1>2, <1>3, <1>4

(* What g makes of s is in order if what it makes of every element is, and     *)
(* what it makes of an earlier one comes before what it makes of a later one.  *)
LEMMA OrderOfFlat ==
    ASSUME NEW R, NEW S, NEW T, NEW g, Makes(g, S, T), NEW s \in Seq(S),
           \A x \in ToSet(s) : InOrder(R, g[x]),
           \A i, j \in DOMAIN s : i < j => \A x \in ToSet(g[s[i]]), y \in ToSet(g[s[j]]) : <<x, y>> \in R
    PROVE  InOrder(R, Flat(g, s))
<1> DEFINE Fine(q) == /\ \A x \in ToSet(q) : InOrder(R, g[x])
                      /\ \A i, j \in DOMAIN q : i < j =>
                            \A x \in ToSet(g[q[i]]), y \in ToSet(g[q[j]]) : <<x, y>> \in R
           P == {q \in Seq(S) : Fine(q) => InOrder(R, Flat(g, q))}
<1>1. <<>> \in P
  <2>1. <<>> \in Seq(S) /\ Flat(g, <<>>) = <<>>
    BY DEF Flat, FlattenSeq
  <2>2. InOrder(R, <<>>)
    BY DEF InOrder
  <2> QED
    BY <2>1, <2>2
<1>2. ASSUME NEW q \in Seq(S), NEW x \in S, q \in P
      PROVE  Append(q, x) \in P
  <2>1. Append(q, x) \in Seq(S)
    OBVIOUS
  <2> SUFFICES ASSUME Fine(Append(q, x))
               PROVE  InOrder(R, Flat(g, Append(q, x)))
    BY <2>1
  <2>2. /\ \A i \in DOMAIN q : i \in DOMAIN Append(q, x) /\ Append(q, x)[i] = q[i]
        /\ Len(q) + 1 \in DOMAIN Append(q, x) /\ Append(q, x)[Len(q) + 1] = x
        /\ \A i \in DOMAIN q : i < Len(q) + 1
    OBVIOUS
  <2>3. Fine(q)
    <3>1. \A y \in ToSet(q) : y \in ToSet(Append(q, x))
      BY <2>2 DEF ToSet
    <3>2. \A y \in ToSet(q) : InOrder(R, g[y])
      BY <3>1
    <3>3. ASSUME NEW i \in DOMAIN q, NEW j \in DOMAIN q, i < j,
                 NEW y \in ToSet(g[q[i]]), NEW z \in ToSet(g[q[j]])
          PROVE  <<y, z>> \in R
      <4>1. i \in DOMAIN Append(q, x) /\ j \in DOMAIN Append(q, x) /\ Append(q, x)[i] = q[i] /\ Append(q, x)[j] = q[j]
        BY <2>2
      <4> QED
        BY <3>3, <4>1
    <3> QED
      BY <3>2, <3>3
  <2>4. InOrder(R, g[x])
    BY <2>2 DEF ToSet
  <2>5. \A y \in ToSet(Flat(g, q)), z \in ToSet(g[x]) : <<y, z>> \in R
    <3> TAKE y \in ToSet(Flat(g, q)), z \in ToSet(g[x])
    <3>0. ToSet(Flat(g, q)) = UNION {ToSet(g[w]) : w \in ToSet(q)}
      BY SetOfFlat
    <3>1. PICK w \in ToSet(q) : y \in ToSet(g[w])
      BY <3>0
    <3>2. PICK i \in DOMAIN q : w = q[i]
      BY <3>1 DEF ToSet
    <3> QED
      BY <2>2, <3>1, <3>2
  <2>6. InOrder(R, Flat(g, q))
    BY <1>2, <2>3
  <2> HIDE DEF Fine
  <2>7. Flat(g, Append(q, x)) = Flat(g, q) \o g[x] /\ Flat(g, q) \in Seq(T) /\ g[x] \in Seq(T)
    BY FlatAppend
  <2> QED
    BY <2>4, <2>5, <2>6, <2>7, OrderOfConcat
<1>3. Fine(s)
  OBVIOUS
<1> HIDE DEF P, Fine
<1>4. s \in P
  BY <1>1, <1>2, Extending
<1> QED
  BY <1>3, <1>4 DEF P

(* Nothing comes of elements of which g makes nothing.                         *)
LEMMA FlatNothing ==
    ASSUME NEW S, NEW g, NEW s \in Seq(S), \A x \in ToSet(s) : g[x] = <<>>
    PROVE  Flat(g, s) = <<>>
<1> DEFINE k == [x \in S |-> <<>>]
           P == {q \in Seq(S) : Flat(k, q) = <<>>}
<1>1. Makes(k, S, {}) /\ \A x \in S : k[x] = <<>>
  BY DEF Makes
<1>2. \A x \in ToSet(s) : x \in S /\ g[x] = k[x]
  BY DEF ToSet
<1> HIDE DEF k
<1>3. <<>> \in P
  <2>1. Flat(k, <<>>) = <<>> /\ <<>> \in Seq(S)
    BY DEF Flat, FlattenSeq
  <2> QED
    BY <2>1
<1>4. ASSUME NEW q \in Seq(S), NEW x \in S, q \in P
      PROVE  Append(q, x) \in P
  <2>1. Flat(k, Append(q, x)) = Flat(k, q) \o k[x]
    BY <1>1, FlatAppend
  <2>2. <<>> \o <<>> = <<>>
    OBVIOUS
  <2>3. Flat(k, q) = <<>> /\ k[x] = <<>> /\ Append(q, x) \in Seq(S)
    BY <1>1, <1>4
  <2> QED
    BY <2>1, <2>2, <2>3
<1> HIDE DEF P
<1>5. s \in P
  BY <1>3, <1>4, Extending
<1>6. Flat(k, s) = <<>>
  BY <1>5 DEF P
<1> QED
  BY <1>2, <1>6, FlatSame

(* A sequence with g of every element.                                         *)
EachMade(g, s) == [i \in DOMAIN s |-> g[s[i]]]
Ones(S, g) == [x \in S |-> <<g[x]>>]

(* What makes one element of one changes every element.                        *)
LEMMA FlatOnes ==
    ASSUME NEW S, NEW T, NEW g \in [S -> T], NEW s \in Seq(S)
    PROVE  Makes(Ones(S, g), S, T) /\ Flat(Ones(S, g), s) = EachMade(g, s)
<1> DEFINE k == Ones(S, g)
           P == {q \in Seq(S) : Flat(k, q) = [i \in DOMAIN q |-> g[q[i]]]}
<1>1. Makes(k, S, T) /\ \A x \in S : k[x] = <<g[x]>> /\ g[x] \in T
  BY DEF Makes, Ones
<1> HIDE DEF k
<1>2. <<>> \in P
  <2>1. Flat(k, <<>>) = <<>> /\ <<>> \in Seq(S)
    BY DEF Flat, FlattenSeq
  <2>2. [i \in DOMAIN <<>> |-> g[<<>>[i]]] = <<>>
    OBVIOUS
  <2> QED
    BY <2>1, <2>2
<1>3. ASSUME NEW q \in Seq(S), NEW x \in S, q \in P
      PROVE  Append(q, x) \in P
  <2> DEFINE a == [i \in DOMAIN q |-> g[q[i]]]
             r == Append(q, x)
             b == [i \in DOMAIN r |-> g[r[i]]]
  <2>1. Flat(k, r) = Flat(k, q) \o k[x]
    BY <1>1, FlatAppend
  <2>2. /\ r \in Seq(S) /\ Len(r) = Len(q) + 1 /\ r[Len(q) + 1] = x
        /\ \A i \in 1..Len(q) : r[i] = q[i] /\ q[i] \in S
        /\ Len(q) \in Nat /\ DOMAIN q = 1..Len(q) /\ DOMAIN r = 1..(Len(q) + 1)
    OBVIOUS
  <2> HIDE DEF r
  <2>3. a \in Seq(T) /\ Len(a) = Len(q) /\ \A i \in 1..Len(q) : a[i] = g[q[i]]
    BY <1>1, <2>2
  <2>4. /\ b \in [1..(Len(q) + 1) -> T] /\ b[Len(q) + 1] = g[x]
        /\ \A i \in 1..Len(q) : b[i] = g[q[i]]
    <3>1. \A i \in 1..(Len(q) + 1) : i \in 1..Len(q) \/ i = Len(q) + 1
      BY <2>2
    <3>2. \A i \in 1..(Len(q) + 1) : r[i] \in S
      BY <2>2
    <3> QED
      BY <1>1, <2>2, <3>1, <3>2
  <2> HIDE DEF a, b
  <2>5. b = a \o <<g[x]>>
    BY <1>1, <2>2, <2>3, <2>4
  <2>6. Flat(k, q) = a
    BY <1>3 DEF a
  <2> QED
    BY <1>1, <2>1, <2>2, <2>5, <2>6 DEF r, b
<1> HIDE DEF P
<1>4. s \in P
  BY <1>2, <1>3, Extending
<1> QED
  BY <1>1, <1>4 DEF P, k, EachMade

(* The elements of a set.                                                      *)
Sel(D, A) == [x \in D |-> IF x \in A THEN <<x>> ELSE <<>>]

(* Selecting elements, and doing something with those selected.                *)
LEMMA FlatOfSel ==
    ASSUME NEW D, NEW A, NEW T, NEW h, Makes(h, D, T), NEW s \in Seq(D)
    PROVE  /\ Makes(Sel(D, A), D, D) /\ Flat(Sel(D, A), s) \in Seq(D)
           /\ Flat(h, Flat(Sel(D, A), s)) = Flat([x \in D |-> IF x \in A THEN h[x] ELSE <<>>], s)
<1> DEFINE g == Sel(D, A)
           k == [x \in D |-> Flat(h, g[x])]
           l == [x \in D |-> IF x \in A THEN h[x] ELSE <<>>]
<1>1. Makes(g, D, D)
  BY DEF Makes, Sel
<1>2. \A x \in D : g[x] = IF x \in A THEN <<x>> ELSE <<>>
  BY DEF Sel
<1> HIDE DEF g
<1>3. Flat(g, s) \in Seq(D)
  BY <1>1, FlatConcat
<1>4. Flat(h, Flat(g, s)) = Flat(k, s)
  BY <1>1, FlatFlat
<1>5. \A x \in ToSet(s) : k[x] = l[x]
  <2> TAKE x \in ToSet(s)
  <2>1. x \in D
    BY DEF ToSet
  <2>2. Flat(h, <<>>) = <<>> /\ Flat(h, <<x>>) = h[x]
    BY <2>1, FlatOne
  <2>3. k[x] = Flat(h, g[x]) /\ l[x] = IF x \in A THEN h[x] ELSE <<>>
    BY <2>1
  <2> HIDE DEF k, l
  <2>4. CASE x \in A
    BY <1>2, <2>1, <2>2, <2>3, <2>4
  <2>5. CASE x \notin A
    BY <1>2, <2>1, <2>2, <2>3, <2>5
  <2> QED
    BY <2>4, <2>5
<1> HIDE DEF k, l
<1>6. Flat(k, s) = Flat(l, s)
  BY <1>5, FlatSame
<1> QED
  BY <1>1, <1>3, <1>4, <1>6 DEF g, l

(* Whoever selects no fewer elements than there are has selected them all.     *)
LEMMA AllSelected ==
    ASSUME NEW D, NEW A, NEW s \in Seq(D)
    PROVE  /\ Len(Flat(Sel(D, A), s)) <= Len(s)
           /\ Len(Flat(Sel(D, A), s)) = Len(s) => Flat(Sel(D, A), s) = s
<1> DEFINE g == Sel(D, A)
           P == {q \in Seq(D) : /\ Len(Flat(g, q)) <= Len(q)
                                /\ Len(Flat(g, q)) = Len(q) => Flat(g, q) = q}
<1>1. Makes(g, D, D) /\ \A x \in D : g[x] = IF x \in A THEN <<x>> ELSE <<>>
  BY DEF Makes, Sel
<1> HIDE DEF g
<1>2. <<>> \in P
  <2>1. Flat(g, <<>>) = <<>> /\ <<>> \in Seq(D) /\ Len(<<>>) = 0
    BY DEF Flat, FlattenSeq
  <2> QED
    BY <2>1
<1>3. ASSUME NEW q \in Seq(D), NEW x \in D, q \in P
      PROVE  Append(q, x) \in P
  <2>1. Flat(g, Append(q, x)) = Flat(g, q) \o g[x] /\ Flat(g, q) \in Seq(D)
    BY <1>1, FlatAppend
  <2> DEFINE a == Flat(g, q)
             b == Flat(g, Append(q, x))
  <2>2. a \in Seq(D) /\ b = a \o g[x] /\ Len(a) <= Len(q) /\ (Len(a) = Len(q) => a = q)
    BY <1>3, <2>1
  <2> HIDE DEF a, b
  <2>3. Append(q, x) \in Seq(D) /\ Len(Append(q, x)) = Len(q) + 1 /\ Len(q) \in Nat /\ Len(a) \in Nat
    BY <2>2
  <2>4. CASE x \in A
    <3>1. a \o <<x>> = Append(a, x) /\ Len(Append(a, x)) = Len(a) + 1
      BY <2>2
    <3>2. g[x] = <<x>>
      BY <1>1, <2>4
    <3>3. b = Append(a, x) /\ Len(b) = Len(a) + 1
      BY <2>2, <3>1, <3>2
    <3> QED
      BY <2>2, <2>3, <3>3 DEF b
  <2>5. CASE x \notin A
    <3>1. a \o <<>> = a
      BY <2>2
    <3>2. g[x] = <<>>
      BY <1>1, <2>5
    <3>3. b = a
      BY <2>2, <3>1, <3>2
    <3> QED
      BY <2>2, <2>3, <3>3 DEF b
  <2> QED
    BY <2>4, <2>5
<1> HIDE DEF P
<1>4. s \in P
  BY <1>2, <1>3, Extending
<1> QED
  BY <1>4 DEF P, g
=============================================================================
