---------------------------- MODULE DataTheorems ----------------------------
(***************************************************************************)
(* Facts about data that several proofs need: induction over the naturals, *)
(* sequences and the enumerations of a finite set, and sums.               *)
(***************************************************************************)
EXTENDS Collections, SequencesExt, SequenceTheorems, FiniteSetTheorems, TLAPS

\* Induction, stated for a set: the members are the numbers for which the claim
\* holds.
LEMMA NatInductionSet ==
  ASSUME NEW T, 0 \in T, \A n \in Nat : n \in T => n + 1 \in T
  PROVE  Nat \subseteq T
<1>1. SUFFICES ASSUME Nat \ T # {} PROVE FALSE
  OBVIOUS
<1> DEFINE R == OpToRel(<, Nat)
<1>2. IsWellFoundedOn(R, Nat)
  BY NatLessThanWellFounded
<1>3. \A x, y \in Nat : <<x, y>> \in R <=> x < y
  BY DEF OpToRel
<1> HIDE DEF R
<1>4. PICK x \in Nat \ T : \A y \in Nat \ T : <<y, x>> \notin R
  BY <1>1, <1>2, WFMin
<1>5. x # 0 /\ x - 1 \in Nat /\ x - 1 < x
  BY <1>4
<1>6. x - 1 \in T
  BY <1>3, <1>4, <1>5
<1> QED
  BY <1>4, <1>5, <1>6

\* A set of naturals that is not empty has a least member.
LEMMA LeastNatural ==
  ASSUME NEW T, T \subseteq Nat, T # {}
  PROVE  \E x \in T : \A y \in T : x <= y
<1> DEFINE R == OpToRel(<, Nat)
<1>1. IsWellFoundedOn(R, Nat)
  BY NatLessThanWellFounded
<1>2. \A x, y \in Nat : <<x, y>> \in R <=> x < y
  BY DEF OpToRel
<1> HIDE DEF R
<1>3. PICK x \in T : \A y \in T : <<y, x>> \notin R
  BY <1>1, WFMin
<1>4. \A y \in T : x \in Nat /\ y \in Nat /\ ~(y < x)
  BY <1>2, <1>3
<1> QED
  BY <1>4

\* The greatest member of a set of naturals with a bound.
LEMMA GreatestNatural ==
  ASSUME NEW n \in Nat, NEW T \in SUBSET (0..n), T # {}
  PROVE  Max(T) \in T /\ \A y \in T : y <= Max(T)
<1> DEFINE U == {n - x : x \in T}
<1>0. \A x \in T : x \in Nat /\ n - x \in Nat
  OBVIOUS
<1>1. U \subseteq Nat /\ U # {}
  BY <1>0
<1>2. PICK u \in U : \A v \in U : u <= v
  BY <1>1, LeastNatural
<1>3. PICK x \in T : u = n - x
  BY <1>2
<1>4. \A y \in T : n - x <= n - y
  BY <1>2, <1>3
<1>5. \A y \in T : x >= y
  BY <1>0, <1>4
<1> QED
  BY <1>5 DEF Max

\* The least member of a set of naturals.
LEMMA MinNatural ==
  ASSUME NEW T, T \subseteq Nat, T # {}
  PROVE  Min(T) \in T /\ \A y \in T : Min(T) <= y
<1>1. PICK x \in T : \A y \in T : x <= y
  BY LeastNatural
<1> QED
  BY <1>1 DEF Min

\* The smaller of two numbers.
LEMMA MinOfTwo ==
  ASSUME NEW a \in Int, NEW b \in Int
  PROVE  Min({a, b}) = IF a <= b THEN a ELSE b
<1> DEFINE m == IF a <= b THEN a ELSE b
<1>1. m \in {a, b} /\ \A y \in {a, b} : m <= y
  OBVIOUS
<1>2. \A x \in {a, b} : (\A y \in {a, b} : x <= y) => x = m
  OBVIOUS
<1> HIDE DEF m
<1>3. Min({a, b}) = m
  BY <1>1, <1>2 DEF Min
<1> QED
  BY <1>3 DEF m

\* A sequence is one over its own members.
LEMMA OverItsMembers ==
  ASSUME NEW S, NEW s \in Seq(S)
  PROVE  s \in Seq(ToSet(s))
<1>1. DOMAIN s = 1..Len(s) /\ Len(s) \in Nat /\ s \in [1..Len(s) -> S]
  BY LenProperties
<1>2. \A i \in 1..Len(s) : s[i] \in ToSet(s)
  BY <1>1 DEF ToSet
<1>3. s \in [1..Len(s) -> ToSet(s)]
  BY <1>1, <1>2
<1>4. s \in UNION {[1..n -> ToSet(s)] : n \in Nat}
  BY <1>1, <1>3
<1> QED
  BY <1>4, SeqDef, Zenon

\* A sequence without repetitions is as long as it has members.
LEMMA DistinctLength ==
  ASSUME NEW S, NEW s \in Seq(S),
         \A i, j \in DOMAIN s : s[i] = s[j] => i = j
  PROVE  IsFiniteSet(ToSet(s)) /\ Cardinality(ToSet(s)) = Len(s)
<1>1. DOMAIN s = 1..Len(s) /\ Len(s) \in Nat
  OBVIOUS
<1>2. IsFiniteSet(1..Len(s)) /\ Cardinality(1..Len(s)) = Len(s)
  BY <1>1, FS_Interval
<1>3. s \in [1..Len(s) -> ToSet(s)] /\ \A t \in ToSet(s) : \E i \in 1..Len(s) : s[i] = t
  BY <1>1 DEF ToSet
<1>4. s \in Surjection(1..Len(s), ToSet(s))
  BY <1>3 DEF Surjection
<1>5. s \in Injection(1..Len(s), ToSet(s))
  BY <1>1, <1>3 DEF Injection, IsInjective
<1> QED
  BY <1>2, <1>4, <1>5, FS_Surjection

\* The tail of a sequence without repetitions is what is left without its head.
LEMMA DistinctTail ==
  ASSUME NEW S, NEW s \in Seq(S), s # <<>>,
         \A i, j \in DOMAIN s : s[i] = s[j] => i = j
  PROVE  /\ Head(s) \in ToSet(s)
         /\ Tail(s) \in Seq(S) /\ Len(s) = Len(Tail(s)) + 1
         /\ \A i, j \in DOMAIN Tail(s) : Tail(s)[i] = Tail(s)[j] => i = j
         /\ ToSet(Tail(s)) = ToSet(s) \ {Head(s)}
<1>1. /\ DOMAIN s = 1..Len(s) /\ Len(s) \in Nat /\ Len(s) # 0
      /\ Head(s) = s[1]
  OBVIOUS
<1>2. /\ Tail(s) \in Seq(S) /\ Len(s) = Len(Tail(s)) + 1
      /\ DOMAIN Tail(s) = 1..(Len(s) - 1)
      /\ \A i \in 1..(Len(s) - 1) : Tail(s)[i] = s[i + 1]
  OBVIOUS
<1>3. \A i \in 1..(Len(s) - 1) : i + 1 \in 1..Len(s) /\ i + 1 # 1
  BY <1>1
<1>4. \A i, j \in 1..(Len(s) - 1) : i + 1 = j + 1 => i = j
  OBVIOUS
<1>5. \A i, j \in DOMAIN Tail(s) : Tail(s)[i] = Tail(s)[j] => i = j
  BY <1>1, <1>2, <1>3, <1>4
<1>6. 1 \in DOMAIN s
  BY <1>1
<1>7. ASSUME NEW x \in ToSet(s), x # s[1] PROVE x \in ToSet(Tail(s))
  <2>1. PICK i \in 1..Len(s) : x = s[i]
    BY <1>1 DEF ToSet
  <2>2. i - 1 \in 1..(Len(s) - 1) /\ (i - 1) + 1 = i
    BY <1>1, <1>7, <2>1
  <2>3. Tail(s)[i - 1] = x
    BY <1>2, <2>1, <2>2
  <2> QED
    BY <1>2, <2>2, <2>3 DEF ToSet
<1>8. ASSUME NEW x \in ToSet(Tail(s)) PROVE x \in ToSet(s) /\ x # s[1]
  <2>1. PICK i \in 1..(Len(s) - 1) : x = s[i + 1]
    BY <1>2 DEF ToSet
  <2> QED
    BY <1>1, <1>3, <1>6, <2>1 DEF ToSet
<1> QED
  BY <1>1, <1>2, <1>5, <1>6, <1>7, <1>8 DEF ToSet

\* A subsequence takes each of its positions once.  The k-th one is well defined
\* because the ranks of the positions are 1, 2, ...: ranking is injective, hence
\* onto.
LEMMA PickedPositions ==
  ASSUME NEW S, NEW s \in Seq(S), NEW I \in SUBSET DOMAIN s
  PROVE  /\ Picked(s, I) \in Seq(S)
         /\ IsFiniteSet(I) /\ Len(Picked(s, I)) = Cardinality(I)
         /\ \A k \in DOMAIN Picked(s, I) :
              Position(I, k) \in I /\ Picked(s, I)[k] = s[Position(I, k)]
         /\ \A k, l \in DOMAIN Picked(s, I) : Position(I, k) = Position(I, l) => k = l
<1> DEFINE upto(i) == {j \in I : j <= i}
           c == Cardinality(I)
           rank == [i \in I |-> Cardinality(upto(i))]
           result == [k \in 1..c |-> s[Position(I, k)]]
<1>1. Picked(s, I) = result
  BY DEF Picked
<1>2. /\ I \subseteq 1..Len(s) /\ Len(s) \in Nat
      /\ \A i \in I : i \in Nat /\ s[i] \in S
  OBVIOUS
<1>4. IsFiniteSet(I)
  <2>1. IsFiniteSet(1..Len(s))
    BY <1>2, FS_Interval
  <2> QED
    BY <1>2, <2>1, FS_Subset
<1>5. c \in Nat
  BY <1>4, FS_CardinalityType
<1>6. \A i \in I : /\ IsFiniteSet(upto(i))
                       /\ Cardinality(upto(i)) \in Nat
                       /\ Cardinality(upto(i)) \in 1..c
  <2>1. TAKE i \in I
  <2>2. upto(i) \in SUBSET I /\ i \in upto(i)
    BY <1>2
  <2>3. IsFiniteSet(upto(i)) /\ Cardinality(upto(i)) <= c
    BY <1>4, <2>2, FS_Subset
  <2>4. Cardinality(upto(i)) \in Nat /\ Cardinality(upto(i)) # 0
    BY <2>2, <2>3, FS_CardinalityType, FS_EmptySet
  <2> QED
    BY <1>5, <2>3, <2>4
<1>7. \A i, j \in I : i < j => Cardinality(upto(i)) < Cardinality(upto(j))
  <2>1. SUFFICES ASSUME NEW i \in I, NEW j \in I, i < j
                 PROVE  Cardinality(upto(i)) < Cardinality(upto(j))
    OBVIOUS
  <2> DEFINE A == upto(i)
             B == upto(j)
  <2>2. A \in SUBSET (B \ {j}) /\ j \in B
    <3>1. \A x \in I : x <= i => x <= j /\ x # j
      BY <1>2, <2>1
    <3>2. j <= j
      BY <1>2
    <3> QED
      BY <3>1, <3>2
  <2>3. /\ IsFiniteSet(A) /\ IsFiniteSet(B)
        /\ Cardinality(A) \in Nat /\ Cardinality(B) \in Nat
    BY <1>5, <1>6
  <2> HIDE DEF A, B
  <2>4. IsFiniteSet(B \ {j}) /\ Cardinality(B \ {j}) = Cardinality(B) - 1
    BY <2>2, <2>3, FS_RemoveElement
  <2>5. Cardinality(A) <= Cardinality(B \ {j})
    BY <2>2, <2>4, FS_Subset
  <2>6. Cardinality(A) < Cardinality(B)
    BY <2>3, <2>4, <2>5
  <2> QED
    BY <2>6 DEF A, B
<1>8. \A i, j \in I : Cardinality(upto(i)) = Cardinality(upto(j)) => i = j
  <2>1. SUFFICES ASSUME NEW i \in I, NEW j \in I, i # j
                 PROVE  Cardinality(upto(i)) # Cardinality(upto(j))
    OBVIOUS
  <2>2. i < j \/ j < i
    BY <1>2, <2>1
  <2>3. Cardinality(upto(i)) \in Nat /\ Cardinality(upto(j)) \in Nat
    BY <1>5, <1>6
  <2> HIDE DEF upto
  <2> QED
    BY <1>7, <2>2, <2>3
<1>9. \A k \in 1..c : \E i \in I : Cardinality(upto(i)) = k
  <2>1. rank \in [I -> 1..c]
    BY <1>6
  <2>2. rank \in Injection(I, 1..c)
    <3> HIDE DEF upto
    <3> QED
      BY <1>8, <2>1 DEF Injection, IsInjective
  <2>3. IsFiniteSet(1..c) /\ Cardinality(1..c) = c
    BY <1>5, FS_Interval
  <2>4. rank \in Surjection(I, 1..c)
    <3> HIDE DEF rank
    <3> QED
      BY <2>2, <2>3, FS_Injection
  <2> HIDE DEF upto
  <2> QED
    BY <2>4 DEF Surjection
<1>10. \A k \in 1..c : Position(I, k) \in I /\ Cardinality(upto(Position(I, k))) = k
  <2>1. \A k \in 1..c : Position(I, k) = CHOOSE i \in I : Cardinality(upto(i)) = k
    BY DEF Position
  <2> HIDE DEF upto
  <2> QED
    BY <1>9, <2>1
<1> HIDE DEF upto
<1>11. \A k \in 1..c : s[Position(I, k)] \in S
  BY <1>2, <1>10
<1>12. result \in Seq(S)
  BY <1>5, <1>11
<1>13. \A k, l \in 1..c : Position(I, k) = Position(I, l) => k = l
  BY <1>10
<1>14. DOMAIN result = 1..c /\ \A k \in 1..c : result[k] = s[Position(I, k)]
  OBVIOUS
<1> HIDE DEF result
<1>15. Len(result) = c
  BY <1>5, <1>12, <1>14
<1> QED
  BY <1>1, <1>4, <1>10, <1>12, <1>13, <1>14, <1>15

\* Sequences one after the other are a sequence.  The recursion that FlattenSeq
\* chooses exists: for every k there is a function that obeys it up to k.
LEMMA FlattenType ==
  ASSUME NEW S, NEW seqs \in Seq(Seq(S))
  PROVE  FlattenSeq(seqs) \in Seq(S)
<1>1. CASE Len(seqs) = 0
  BY <1>1 DEF FlattenSeq
<1>2. CASE Len(seqs) # 0
  <2> DEFINE n == Len(seqs)
             step(f, i) == IF i = 1 THEN seqs[i] ELSE f[i - 1] \o seqs[i]
             Q(f) == f = [i \in 1..n |-> step(f, i)]
             P(k) == \E f \in [1..n -> Seq(S)] :
                       \A i \in 1..n : i <= k => f[i] = step(f, i)
             T == {k \in Nat : P(k)}
  <2>1. n \in Nat \ {0} /\ \A i \in 1..n : seqs[i] \in Seq(S)
    BY <1>2
  <2> HIDE DEF n
  <2>2. P(0)
    <3>1. [i \in 1..n |-> seqs[i]] \in [1..n -> Seq(S)]
      BY <2>1
    <3>2. \A i \in 1..n : ~(i <= 0)
      BY <2>1
    <3> HIDE DEF step
    <3> QED
      BY <3>1, <3>2
  <2>3. ASSUME NEW k \in Nat, P(k) PROVE P(k + 1)
    <3>1. PICK f \in [1..n -> Seq(S)] : \A i \in 1..n : i <= k => f[i] = step(f, i)
      BY <2>3
    <3> DEFINE h == [i \in 1..n |-> step(f, i)]
    <3>2. \A i \in 1..n : i # 1 => i - 1 \in 1..n /\ f[i - 1] \in Seq(S)
      BY <2>1
    <3>3. \A i \in 1..n : step(f, i) \in Seq(S)
      BY <2>1, <3>2
    <3>4. h \in [1..n -> Seq(S)]
      BY <3>3
    <3>5. ASSUME NEW i \in 1..n, i <= k + 1 PROVE h[i] = step(h, i)
      <4>1. CASE i = 1
        BY <4>1
      <4>2. CASE i # 1
        <5>1. i - 1 \in 1..n /\ i - 1 <= k
          BY <3>5, <4>2, <2>1
        <5>2. h[i - 1] = f[i - 1]
          BY <5>1, <3>1
        <5> QED
          BY <5>2
      <4> QED
        BY <4>1, <4>2
    <3> HIDE DEF h, step
    <3> QED
      BY <3>4, <3>5
  <2>4. P(n)
    <3> HIDE DEF P
    <3>1. 0 \in T /\ \A k \in Nat : k \in T => k + 1 \in T
      BY <2>2, <2>3
    <3>2. Nat \subseteq T
      <4> HIDE DEF T
      <4> QED
        BY <3>1, NatInductionSet
    <3> QED
      BY <2>1, <3>2
  <2>5. PICK f \in [1..n -> Seq(S)] : \A i \in 1..n : f[i] = step(f, i)
    <3>1. \A i \in 1..n : i <= n
      BY <2>1
    <3> HIDE DEF step
    <3> QED
      BY <2>4, <3>1
  <2>6. Q(f)
    BY <2>5
  <2> DEFINE g == CHOOSE h : Q(h)
  <2>7. Q(g)
    BY <2>6
  <2>8. FlattenSeq(seqs) = g[n]
    BY <1>2 DEF FlattenSeq, n
  <2> DEFINE V == {k \in Nat : k \in 1..n => g[k] \in Seq(S)}
  <2>9. \A i \in 1..n : g[i] = step(g, i)
    <3> HIDE DEF g
    <3> QED
      BY <2>7
  <2> HIDE DEF g
  <2>10. 0 \in V
    OBVIOUS
  <2>11. ASSUME NEW k \in Nat, k \in V PROVE k + 1 \in V
    <3>1. CASE k + 1 \notin 1..n
      BY <3>1
    <3>2. CASE k + 1 \in 1..n /\ k = 0
      <4>1. 1 \in 1..n /\ k + 1 = 1
        BY <3>2
      <4>2. g[1] = seqs[1] /\ seqs[1] \in Seq(S)
        BY <2>1, <2>9, <4>1
      <4> QED
        BY <4>1, <4>2
    <3>3. CASE k + 1 \in 1..n /\ k # 0
      <4>1. k \in 1..n /\ g[k] \in Seq(S)
        BY <2>1, <2>11, <3>3
      <4>2. k + 1 # 1 /\ (k + 1) - 1 = k
        BY <3>3
      <4>3. g[k + 1] = g[k] \o seqs[k + 1]
        BY <2>9, <3>3, <4>2
      <4>4. seqs[k + 1] \in Seq(S)
        BY <2>1, <3>3
      <4>5. g[k] \o seqs[k + 1] \in Seq(S)
        BY <4>1, <4>4
      <4>6. g[k + 1] \in Seq(S)
        BY <4>3, <4>5
      <4> QED
        BY <4>6
    <3> QED
      BY <3>1, <3>2, <3>3
  <2>12. n \in V
    <3> HIDE DEF V
    <3>1. Nat \subseteq V
      BY <2>10, <2>11, NatInductionSet
    <3> QED
      BY <2>1, <3>1
  <2> QED
    BY <2>1, <2>8, <2>12
<1> QED
  BY <1>1, <1>2

\* An enumeration of a finite set names each of its members once.
LEMMA Enumeration ==
  ASSUME NEW S, IsFiniteSet(S), NEW f \in SetToSeqs(S)
  PROVE  /\ f \in Seq(S)
         /\ Len(f) = Cardinality(S)
         /\ ToSet(f) = S
         /\ \A i, j \in 1..Len(f) : f[i] = f[j] => i = j
<1>1. Cardinality(S) \in Nat
  BY FS_CardinalityType
<1>2. f \in Injection(1..Cardinality(S), S)
  BY DEF SetToSeqs, Injection, IsInjective
<1>3. f \in Seq(S) /\ Len(f) = Cardinality(S)
  BY <1>1 DEF SetToSeqs
<1>4. Cardinality(1..Cardinality(S)) = Cardinality(S)
  BY <1>1, FS_Interval
<1>5. f \in Surjection(1..Cardinality(S), S)
  BY <1>2, <1>4, FS_Injection
<1>6. ToSet(f) = S
  BY <1>1, <1>3, <1>5 DEF ToSet, Surjection
<1> QED
  BY <1>2, <1>3, <1>6 DEF Injection, IsInjective

-----------------------------------------------------------------------------
\* The units of one position are as many as its amount.
LEMMA UnitsOfOne ==
  ASSUME NEW p, NEW n \in Nat
  PROVE  /\ IsFiniteSet({p} \X (1..n))
         /\ Cardinality({p} \X (1..n)) = n
<1>1. IsFiniteSet({p}) /\ Cardinality({p}) = 1
  BY FS_Singleton
<1>2. IsFiniteSet(1..n) /\ Cardinality(1..n) = n
  BY FS_Interval
<1>3. /\ IsFiniteSet({p} \X (1..n))
      /\ Cardinality({p} \X (1..n)) = Cardinality({p}) * Cardinality(1..n)
  BY <1>1, <1>2, FS_Product
<1> QED
  BY <1>1, <1>2, <1>3

\* The units of finitely many positions are finitely many.
LEMMA UnitsFinite ==
  ASSUME NEW S, IsFiniteSet(S), NEW amount, \A p \in S : amount[p] \in Nat
  PROVE  IsFiniteSet(Units(amount, S))
<1> DEFINE U(p) == {p} \X (1..amount[p])
           T == {U(p) : p \in S}
           f == [p \in S |-> U(p)]
<1>1. f \in Surjection(S, T)
  BY DEF Surjection
<1>2. IsFiniteSet(T)
  BY <1>1, FS_Surjection
<1>3. \A t \in T : IsFiniteSet(t)
  <2>1. \A p \in S : IsFiniteSet(U(p))
    BY UnitsOfOne
  <2> QED
    BY <2>1
<1>4. IsFiniteSet(UNION T)
  BY <1>2, <1>3, FS_UNION
<1> QED
  BY <1>4 DEF Units

\* A sum is a natural number.
LEMMA TotalType ==
  ASSUME NEW S, IsFiniteSet(S), NEW amount, \A p \in S : amount[p] \in Nat
  PROVE  Total(amount, S) \in Nat
BY UnitsFinite, FS_CardinalityType DEF Total

\* Nothing sums to nothing.
LEMMA TotalEmpty ==
  ASSUME NEW amount
  PROVE  Total(amount, {}) = 0
<1>1. Units(amount, {}) = {}
  BY DEF Units
<1> QED
  BY <1>1, FS_EmptySet DEF Total

\* One position sums to its amount.
LEMMA TotalOne ==
  ASSUME NEW p, NEW amount, amount[p] \in Nat
  PROVE  Total(amount, {p}) = amount[p]
<1>1. Units(amount, {p}) = {p} \X (1..amount[p])
  BY DEF Units
<1> QED
  BY <1>1, UnitsOfOne DEF Total

\* The sum over a disjoint union is the sum of the sums.
LEMMA TotalUnion ==
  ASSUME NEW S, IsFiniteSet(S), NEW T, IsFiniteSet(T), S \cap T = {},
         NEW amount, \A p \in S \cup T : amount[p] \in Nat
  PROVE  Total(amount, S \cup T) = Total(amount, S) + Total(amount, T)
<1>1. Units(amount, S \cup T) = Units(amount, S) \cup Units(amount, T)
  BY DEF Units
<1>2. Units(amount, S) \cap Units(amount, T) = {}
  <2>1. SUFFICES ASSUME NEW u \in Units(amount, S), u \in Units(amount, T)
                 PROVE  FALSE
    OBVIOUS
  <2>2. PICK p \in S : u \in {p} \X (1..amount[p])
    BY DEF Units
  <2>3. PICK q \in T : u \in {q} \X (1..amount[q])
    BY <2>1 DEF Units
  <2>4. p = q
    BY <2>2, <2>3
  <2> QED
    BY <2>4
<1>3. IsFiniteSet(Units(amount, S)) /\ IsFiniteSet(Units(amount, T))
  BY UnitsFinite
<1>4. /\ Cardinality(Units(amount, S)) \in Nat
      /\ Cardinality(Units(amount, T)) \in Nat
  BY <1>3, FS_CardinalityType
<1>5. Cardinality(Units(amount, S) \cap Units(amount, T)) = 0
  BY <1>2, FS_EmptySet
<1>6. Cardinality(Units(amount, S) \cup Units(amount, T)) =
        Cardinality(Units(amount, S)) + Cardinality(Units(amount, T))
  <2> DEFINE A == Units(amount, S)
             B == Units(amount, T)
  <2> HIDE DEF A, B
  <2>1. IsFiniteSet(A) /\ IsFiniteSet(B)
    BY <1>3 DEF A, B
  <2>2. Cardinality(A \cup B) =
          Cardinality(A) + Cardinality(B) - Cardinality(A \cap B)
    BY <2>1, FS_Union
  <2>3. /\ Cardinality(A) \in Nat /\ Cardinality(B) \in Nat
        /\ Cardinality(A \cap B) = 0
    BY <1>4, <1>5 DEF A, B
  <2>4. Cardinality(A \cup B) = Cardinality(A) + Cardinality(B)
    BY <2>2, <2>3
  <2> QED
    BY <2>4 DEF A, B
<1> QED
  BY <1>1, <1>6 DEF Total

\* Adding a position adds its amount.
LEMMA TotalAdd ==
  ASSUME NEW S, IsFiniteSet(S), NEW p, p \notin S,
         NEW amount, \A q \in S \cup {p} : amount[q] \in Nat
  PROVE  Total(amount, S \cup {p}) = Total(amount, S) + amount[p]
<1>1. IsFiniteSet({p}) /\ S \cap {p} = {}
  BY FS_Singleton
<1>2. Total(amount, S \cup {p}) = Total(amount, S) + Total(amount, {p})
  BY <1>1, TotalUnion
<1> QED
  BY <1>2, TotalOne

\* Zero amounts sum to nothing.
LEMMA TotalZero ==
  ASSUME NEW S, NEW amount, \A p \in S : amount[p] = 0
  PROVE  Total(amount, S) = 0
<1>1. \A p \in S : 1..amount[p] = {}
  OBVIOUS
<1>2. Units(amount, S) = {}
  BY <1>1 DEF Units
<1> QED
  BY <1>2, FS_EmptySet DEF Total

\* Only the amounts of the members matter.
LEMMA TotalSame ==
  ASSUME NEW S, NEW amount, NEW other, \A p \in S : amount[p] = other[p]
  PROVE  Total(amount, S) = Total(other, S)
<1>1. Units(amount, S) = Units(other, S)
  BY DEF Units
<1> QED
  BY <1>1 DEF Total

-----------------------------------------------------------------------------
\* Finitely many integers have a greatest one: the one with most of them at or
\* below it.
LEMMA GreatestValue ==
  ASSUME NEW S, IsFiniteSet(S), S # {}, NEW f, \A i \in S : f[i] \in Int
  PROVE  \E i \in S : \A j \in S : f[j] <= f[i]
<1> DEFINE le(i) == {j \in S : f[j] <= f[i]}
           n == Cardinality(S)
           T == {Cardinality(le(i)) : i \in S}
<1>1. n \in Nat
  BY FS_CardinalityType
<1>2. \A i \in S : /\ le(i) \in SUBSET S /\ IsFiniteSet(le(i))
                   /\ Cardinality(le(i)) \in Nat /\ Cardinality(le(i)) <= n
  BY FS_Subset, FS_CardinalityType
<1>3. T \in SUBSET (0..n) /\ T # {}
  <2> HIDE DEF le
  <2> QED
    BY <1>1, <1>2
<1>4. Max(T) \in T /\ \A y \in T : y <= Max(T)
  <2> HIDE DEF T, n
  <2> QED
    BY <1>1, <1>3, GreatestNatural
<1>5. PICK i \in S : Cardinality(le(i)) = Max(T)
  <2> HIDE DEF le
  <2> QED
    BY <1>4
<1>6. ASSUME NEW j \in S, ~(f[j] <= f[i]) PROVE FALSE
  <2>1. le(i) \in SUBSET (le(j) \ {j}) /\ j \in le(j)
    BY <1>6
  <2> DEFINE A == le(i)
             B == le(j)
  <2>2. /\ A \in SUBSET (B \ {j}) /\ j \in B /\ IsFiniteSet(B)
        /\ Cardinality(A) \in Nat /\ Cardinality(B) \in Nat
    BY <1>2, <2>1
  <2>3. Cardinality(B) <= Cardinality(A)
    <3> HIDE DEF le
    <3> QED
      BY <1>4, <1>5
  <2> HIDE DEF A, B
  <2>4. IsFiniteSet(B \ {j}) /\ Cardinality(B \ {j}) = Cardinality(B) - 1
    BY <2>2, FS_RemoveElement
  <2>5. Cardinality(A) <= Cardinality(B \ {j})
    BY <2>2, <2>4, FS_Subset
  <2> QED
    BY <2>2, <2>3, <2>4, <2>5
<1> QED
  BY <1>6

\* The k-th smallest value exists: fewer than k values are below it and at
\* least k at or below it.
LEMMA KthSmallestExists ==
  ASSUME NEW S, IsFiniteSet(S), NEW f, \A i \in S : f[i] \in Int,
         NEW k \in 1..Cardinality(S)
  PROVE  LET v == KthSmallest(f, S, k)
         IN  /\ v \in {f[i] : i \in S}
             /\ Cardinality({i \in S : f[i] < v}) < k
             /\ k <= Cardinality({i \in S : f[i] <= v})
<1> DEFINE n == Cardinality(S)
           le(i) == {j \in S : f[j] <= f[i]}
           T == {Cardinality(le(i)) : i \in {j \in S : k <= Cardinality(le(j))}}
<1>1. n \in Nat /\ k \in Nat /\ 1 <= k /\ k <= n
  BY FS_CardinalityType
<1>2. S # {}
  BY <1>1, FS_EmptySet
<1>3. \A i \in S : IsFiniteSet(le(i)) /\ Cardinality(le(i)) \in Nat
  BY FS_Subset, FS_CardinalityType
<1>4. PICK g \in S : \A j \in S : f[j] <= f[g]
  BY <1>2, GreatestValue
<1>5. le(g) = S
  BY <1>4
<1>6. T \subseteq Nat /\ T # {}
  <2>1. Cardinality(le(g)) \in T
    BY <1>1, <1>5
  <2>2. T \subseteq Nat
    <3> HIDE DEF le
    <3> QED
      BY <1>3
  <2> QED
    BY <2>1, <2>2
<1>7. PICK t \in T : \A y \in T : t <= y
  <2> HIDE DEF T
  <2> QED
    BY <1>6, LeastNatural
<1>8. PICK i \in S : t = Cardinality(le(i)) /\ k <= Cardinality(le(i))
  OBVIOUS
<1> DEFINE L == {j \in S : f[j] < f[i]}
<1>9. IsFiniteSet(L) /\ Cardinality(L) \in Nat
  BY FS_Subset, FS_CardinalityType
<1>10. ASSUME ~(Cardinality(L) < k) PROVE FALSE
  <2>1. L # {}
    <3>1. Cardinality({}) = 0
      BY FS_EmptySet
    <3> QED
      BY <1>1, <1>10, <3>1
  <2>2. \A j \in L : f[j] \in Int
    OBVIOUS
  <2>3. PICK j \in L : \A m \in L : f[m] <= f[j]
    <3> HIDE DEF L
    <3> QED
      BY <1>9, <2>1, <2>2, GreatestValue
  <2>4. j \in S /\ f[j] \in Int /\ f[i] \in Int /\ f[j] < f[i]
    OBVIOUS
  <2>5. le(j) = L
    <3>1. ASSUME NEW m \in le(j) PROVE m \in L
      BY <2>4
    <3>2. ASSUME NEW m \in L PROVE m \in le(j)
      BY <2>3
    <3> QED
      BY <3>1, <3>2
  <2>6. le(j) \in SUBSET (le(i) \ {i}) /\ i \in le(i)
    BY <2>4, <2>5
  <2>7. Cardinality(le(j)) \in T
    <3>1. k <= Cardinality(le(j))
      <4> HIDE DEF L, le
      <4> QED
        BY <1>1, <1>9, <1>10, <2>5
    <3> HIDE DEF le
    <3> QED
      BY <2>4, <3>1
  <2> DEFINE A == le(j)
             B == le(i)
  <2>8. /\ A \in SUBSET (B \ {i}) /\ i \in B /\ IsFiniteSet(B)
        /\ Cardinality(A) \in Nat /\ Cardinality(B) \in Nat
        /\ Cardinality(B) <= Cardinality(A)
    BY <1>3, <1>7, <1>8, <2>4, <2>6, <2>7
  <2> HIDE DEF A, B
  <2>9. IsFiniteSet(B \ {i}) /\ Cardinality(B \ {i}) = Cardinality(B) - 1
    BY <2>8, FS_RemoveElement
  <2>10. Cardinality(A) <= Cardinality(B \ {i})
    BY <2>8, <2>9, FS_Subset
  <2> QED
    BY <2>8, <2>9, <2>10
<1> DEFINE V == {f[j] : j \in S}
           P(v) == /\ Cardinality({j \in S : f[j] < v}) < k
                   /\ k <= Cardinality({j \in S : f[j] <= v})
<1>11. f[i] \in V /\ P(f[i])
  BY <1>8, <1>10
<1>12. KthSmallest(f, S, k) = CHOOSE v \in V : P(v)
  BY DEF KthSmallest
<1>13. KthSmallest(f, S, k) \in V /\ P(KthSmallest(f, S, k))
  <2> HIDE DEF V, P
  <2> QED
    BY <1>11, <1>12
<1> QED
  BY <1>13

\* A set with at least two members has one besides any given one.
LEMMA OneBesides ==
  ASSUME NEW S, IsFiniteSet(S), Cardinality(S) >= 2, NEW odd
  PROVE  \E i \in S : i # odd
<1>1. SUFFICES ASSUME S \subseteq {odd} PROVE FALSE
  OBVIOUS
<1>2. IsFiniteSet({odd}) /\ Cardinality({odd}) = 1
  BY FS_Singleton
<1>3. Cardinality(S) <= 1 /\ Cardinality(S) \in Nat
  BY <1>1, <1>2, FS_Subset, FS_CardinalityType
<1> QED
  BY <1>3

\* A middle value lies among the others, whichever one is left out: two are at
\* or below it and two at or above it.
LEMMA MiddleRobust ==
  ASSUME NEW S, IsFiniteSet(S), NEW f, \A i \in S : f[i] \in Int,
         NEW k \in Nat, NEW odd
  PROVE  LET v == KthSmallest(f, S, k)
         IN  /\ k \in 2..Cardinality(S) => v \in Int /\ \E i \in S \ {odd} : f[i] <= v
             /\ k \in 1..(Cardinality(S) - 1) => v \in Int /\ \E i \in S \ {odd} : v <= f[i]
<1> DEFINE n == Cardinality(S)
           v == KthSmallest(f, S, k)
           below == {i \in S : f[i] < v}
           upto == {i \in S : f[i] <= v}
           from == S \ below
<1>1. n \in Nat
  BY FS_CardinalityType
<1>2. ASSUME k \in 2..n PROVE v \in Int /\ \E i \in S \ {odd} : f[i] <= v
  <2>1. k \in 1..Cardinality(S) /\ 2 <= k
    BY <1>1, <1>2
  <2>2. /\ v \in {f[i] : i \in S}
        /\ Cardinality(below) < k
        /\ k <= Cardinality(upto)
    BY <2>1, KthSmallestExists
  <2>3. IsFiniteSet(upto) /\ Cardinality(upto) \in Nat
    BY FS_Subset, FS_CardinalityType
  <2>4. Cardinality(upto) >= 2
    <3> HIDE DEF upto
    <3> QED
      BY <2>1, <2>2, <2>3
  <2>5. \E i \in upto : i # odd
    <3> HIDE DEF upto
    <3> QED
      BY <2>3, <2>4, OneBesides
  <2> QED
    BY <2>2, <2>5
<1>3. ASSUME k \in 1..(n - 1) PROVE v \in Int /\ \E i \in S \ {odd} : v <= f[i]
  <2>1. k \in 1..Cardinality(S) /\ k <= n - 1
    BY <1>1, <1>3
  <2>2. v \in {f[i] : i \in S} /\ Cardinality(below) < k
    BY <2>1, KthSmallestExists
  <2>3. v \in Int /\ \A i \in from : v <= f[i]
    BY <2>2
  <2>4. IsFiniteSet(from) /\ Cardinality(from) >= 2
    <3>1. IsFiniteSet(below) /\ Cardinality(below) \in Nat /\ S \cap below = below
      BY FS_Subset, FS_CardinalityType
    <3> HIDE DEF below
    <3>2. /\ IsFiniteSet(S \ below)
          /\ Cardinality(S \ below) = Cardinality(S) - Cardinality(S \cap below)
      BY FS_Difference
    <3> QED
      BY <1>1, <2>1, <2>2, <3>1, <3>2
  <2>5. \E i \in from : i # odd
    <3> HIDE DEF from
    <3> QED
      BY <2>4, OneBesides
  <2> QED
    BY <2>3, <2>5
<1> QED
  BY <1>2, <1>3

\* The order statistics are in order.
LEMMA KthSmallestOrdered ==
  ASSUME NEW S, IsFiniteSet(S), NEW f, \A i \in S : f[i] \in Int,
         NEW k \in 1..(Cardinality(S) - 1)
  PROVE  /\ KthSmallest(f, S, k) \in Int /\ KthSmallest(f, S, k + 1) \in Int
         /\ KthSmallest(f, S, k) <= KthSmallest(f, S, k + 1)
<1> DEFINE v == KthSmallest(f, S, k)
           w == KthSmallest(f, S, k + 1)
<1>1. /\ Cardinality(S) \in Nat
      /\ k \in 1..Cardinality(S) /\ k + 1 \in 1..Cardinality(S)
  BY FS_CardinalityType
<1>2. v \in {f[i] : i \in S} /\ Cardinality({i \in S : f[i] < v}) < k
  BY <1>1, KthSmallestExists
<1>3. /\ w \in {f[i] : i \in S}
      /\ Cardinality({i \in S : f[i] < w}) < k + 1
      /\ k + 1 <= Cardinality({i \in S : f[i] <= w})
  <2> DEFINE l == k + 1
  <2>1. l \in 1..Cardinality(S)
    BY <1>1
  <2> HIDE DEF l
  <2>2. /\ KthSmallest(f, S, l) \in {f[i] : i \in S}
        /\ Cardinality({i \in S : f[i] < KthSmallest(f, S, l)}) < l
        /\ l <= Cardinality({i \in S : f[i] <= KthSmallest(f, S, l)})
    BY <2>1, KthSmallestExists
  <2> QED
    BY <2>2 DEF l
<1>4. v \in Int /\ w \in Int
  BY <1>2, <1>3
<1> HIDE DEF v, w
<1>5. ASSUME w < v PROVE FALSE
  <2> DEFINE A == {i \in S : f[i] <= w}
             B == {i \in S : f[i] < v}
  <2>1. A \in SUBSET B
    BY <1>4, <1>5
  <2>2. IsFiniteSet(B) /\ Cardinality(B) \in Nat
    BY FS_Subset, FS_CardinalityType
  <2>3. Cardinality(B) < k /\ k + 1 <= Cardinality(A)
    BY <1>2, <1>3
  <2> HIDE DEF A, B
  <2>4. Cardinality(A) <= Cardinality(B) /\ Cardinality(A) \in Nat
    BY <2>1, <2>2, FS_Subset, FS_CardinalityType
  <2> QED
    BY <2>2, <2>3, <2>4
<1> QED
  BY <1>4, <1>5 DEF v, w
=============================================================================
