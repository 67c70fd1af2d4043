----------------------------- MODULE Collections -----------------------------
(***************************************************************************)
(* Sums, subsequences, order statistics and updated maps, each stated      *)
(* without recursion so that the prover can reason about them.             *)
(***************************************************************************)
EXTENDS Naturals, FiniteSets

\* The sum of amount[p] over the members p of S: the number of unit tokens they
\* stand for.
Units(amount, S) == UNION {{p} \X (1..amount[p]) : p \in S}
Total(amount, S) == Cardinality(Units(amount, S))

\* The k-th smallest of the positions I, and what s has at them, in order.
Position(I, k) == CHOOSE i \in I : Cardinality({j \in I : j <= i}) = k
Picked(s, I) == [k \in 1..Cardinality(I) |-> s[Position(I, k)]]

\* The k-th smallest of the values f[i] for i in S.
KthSmallest(f, S, k) ==
  CHOOSE v \in {f[i] : i \in S} :
    /\ Cardinality({i \in S : f[i] < v}) < k
    /\ k <= Cardinality({i \in S : f[i] <= v})

\* The map with a value for the key, over what it was.
Updated(map, key, value) ==
  [x \in DOMAIN map \union {key} |-> IF x = key THEN value ELSE map[x]]
=============================================================================
