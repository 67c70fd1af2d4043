--------------------------- MODULE RegistryProofs ---------------------------
(***************************************************************************)
(* Proofs that a registry refresh admits the right markets, that its       *)
(* gauges account for every deployment and that its swap routes belong to  *)
(* the markets served, for any registries, any chain and any refreshes.    *)
(***************************************************************************)
EXTENDS Registry, DataTheorems

-----------------------------------------------------------------------------
(***************************************************************************)
(* Admission.                                                              *)
(***************************************************************************)

\* The lists of the operator, as the code asks for them and as they are meant.
LEMMA ListsAgree ==
  ASSUME NEW m
  PROVE  rejected_by_list(m) <=> \/ m \in Deprecated \union Ignored
                                 \/ Allowed # {} /\ m \notin Allowed
BY DEF rejected_by_list, deprecated, outside_allowlist

\* What passes every check was justified, by the facts at each of its reads.
LEMMA PassedJustified ==
  ASSUME RegistryInv, pc = "sources", NEW read,
         composable(Head(todo), read), should_process_market(Head(todo))
  PROVE  Justified(Head(todo))
<1> DEFINE m == Head(todo)
<1>1. m \in refresh.listed /\ chain[m] \in refresh.met[m]
  BY DEF RegistryInv, Consistent, Underway
<1>2. /\ ~rejected_by_list(m) /\ config.oracle \in Proxies
      /\ \E f \in refresh.met[m] :
           f.market /\ config = [decimals |-> f.decimals, oracle |-> f.oracle]
      /\ \E g \in refresh.met[m] : g.version
  BY DEF RegistryInv, TurnSound
<1>3. PICK f \in refresh.met[m] :
        f.market /\ config = [decimals |-> f.decimals, oracle |-> f.oracle]
  BY <1>2
<1>4. PICK g \in refresh.met[m] : g.version
  BY <1>2
<1>5. f.decimals /\ f.oracle \in Proxies /\ f.oracle \in chain[m].sources
  BY <1>2, <1>3 DEF composable, should_process_market
<1>6. /\ Collateral[m] \notin IgnoredCollateral
      /\ AllowedCollateral = {} \/ Collateral[m] \in AllowedCollateral
  BY DEF should_process_market
<1> HIDE DEF m
<1>7. Serviceable(m, f, g, chain[m])
  BY <1>2, <1>3, <1>4, <1>5, <1>6, ListsAgree DEF Serviceable
<1>8. Justified(m)
  BY <1>1, <1>3, <1>4, <1>7 DEF Justified
<1> QED
  BY <1>8 DEF m

-----------------------------------------------------------------------------
(***************************************************************************)
(* The tally and the gauges.                                               *)
(***************************************************************************)

\* Counting a reason adds one.
LEMMA RecordTotal ==
  ASSUME NEW label, IsTally(tally), record(label)
  PROVE  /\ IsTally(tally')
         /\ Total(tally', DOMAIN tally') = Total(tally, DOMAIN tally) + 1
<1> DEFINE D == DOMAIN tally
           rest == D \ {label}
<1>0. /\ DOMAIN tally' = D \cup {label}
      /\ \A r \in D \cup {label} : tally'[r] =
           (IF r \in D THEN tally[r] ELSE 0) + (IF r = label THEN 1 ELSE 0)
  BY DEF record
<1>1. /\ DOMAIN tally' = rest \cup {label}
      /\ \A r \in rest : tally'[r] = tally[r]
      /\ tally'[label] = (IF label \in D THEN tally[label] ELSE 0) + 1
  BY <1>0 DEF IsTally
<1>2. IsFiniteSet(rest) /\ IsFiniteSet(rest \cup {label})
  BY FS_RemoveElement, FS_AddElement DEF IsTally
<1>3. \A r \in rest \cup {label} : tally'[r] \in Nat
  BY <1>1 DEF IsTally
<1>4. Total(tally', rest) = Total(tally, rest) /\ Total(tally, rest) \in Nat
  BY <1>1, <1>2, TotalSame, TotalType DEF IsTally
<1>5. Total(tally', rest \cup {label}) = Total(tally', rest) + tally'[label]
  BY <1>2, <1>3, TotalAdd
<1>6. Total(tally', DOMAIN tally') = Total(tally, rest) + tally'[label]
  BY <1>1, <1>4, <1>5
<1>7. CASE label \in D
  <2>1. D = rest \cup {label} /\ tally[label] \in Nat
    BY <1>7 DEF IsTally
  <2>2. Total(tally, rest \cup {label}) = Total(tally, rest) + tally[label]
    BY <1>2, <2>1, TotalAdd DEF IsTally
  <2> QED
    BY <1>1, <1>2, <1>3, <1>4, <1>6, <1>7, <2>1, <2>2 DEF IsTally
<1>8. CASE label \notin D
  <2>1. D = rest
    BY <1>8
  <2> QED
    BY <1>1, <1>2, <1>3, <1>4, <1>6, <1>8, <2>1 DEF IsTally
<1> QED
  BY <1>7, <1>8

\* The gauges of the reasons sum to the tally: what stopped occurring reads 0.
LEMMA CountsTotal ==
  ASSUME IsTally(tally), IsTally(filtered)
  PROVE  /\ IsTally(set_registry_counts(tally))
         /\ Total(set_registry_counts(tally), DOMAIN set_registry_counts(tally))
              = Total(tally, DOMAIN tally)
<1> DEFINE c == set_registry_counts(tally)
           D == DOMAIN tally
           old == DOMAIN filtered \ D
<1>1. /\ DOMAIN c = D \cup old
      /\ \A r \in D : c[r] = tally[r] /\ c[r] \in Nat
      /\ \A r \in old : c[r] = 0
  BY DEF set_registry_counts, IsTally
<1> HIDE DEF c
<1>2. IsFiniteSet(D) /\ IsFiniteSet(old) /\ IsFiniteSet(D \cup old) /\ D \cap old = {}
  BY FS_Subset, FS_Union DEF IsTally
<1>3. \A r \in D \cup old : c[r] \in Nat
  BY <1>1
<1>4. Total(c, D \cup old) = Total(c, D) + Total(c, old)
  BY <1>2, <1>3, TotalUnion
<1>5. Total(c, D) = Total(tally, D) /\ Total(tally, D) \in Nat
  BY <1>1, <1>2, TotalSame, TotalType DEF IsTally
<1>6. Total(c, old) = 0
  BY <1>1, TotalZero
<1>7. Total(c, DOMAIN c) = Total(tally, D)
  BY <1>1, <1>4, <1>5, <1>6
<1>8. IsTally(c)
  BY <1>1, <1>2, <1>3 DEF IsTally
<1> QED
  BY <1>7, <1>8 DEF c

-----------------------------------------------------------------------------
(***************************************************************************)
(* The list of a refresh.                                                  *)
(***************************************************************************)

\* Dropping the duplicates leaves each deployment once.
LEMMA DedupeDistinct ==
  ASSUME NEW S, NEW s \in Seq(S)
  PROVE  /\ dedupe_deployments(s) \in Seq(S)
         /\ \A i, j \in DOMAIN dedupe_deployments(s) :
              dedupe_deployments(s)[i] = dedupe_deployments(s)[j] => i = j
<1> DEFINE first == {i \in DOMAIN s : \A j \in 1..(i - 1) : s[j] # s[i]}
<1>1. first \in SUBSET DOMAIN s /\ \A i \in first : i \in Nat
  OBVIOUS
<1>2. \A i, j \in first : s[i] = s[j] => i = j
  <2>1. SUFFICES ASSUME NEW i \in first, NEW j \in first, s[i] = s[j], i < j
                 PROVE  FALSE
    BY <1>1
  <2>2. i \in 1..(j - 1)
    BY <1>1, <2>1
  <2> QED
    BY <2>1, <2>2
<1> HIDE DEF first
<1>3. /\ Picked(s, first) \in Seq(S)
      /\ \A k \in DOMAIN Picked(s, first) :
           Position(first, k) \in first /\ Picked(s, first)[k] = s[Position(first, k)]
      /\ \A k, l \in DOMAIN Picked(s, first) : Position(first, k) = Position(first, l) => k = l
  BY <1>1, PickedPositions
<1> QED
  BY <1>2, <1>3 DEF dedupe_deployments, first

\* Whatever order the registries answer in, a refresh lists each deployment once.
LEMMA ListDistinct ==
  ASSUME NEW order \in SetToSeqs(DOMAIN Listing),
         NEW all,
         all = dedupe_deployments(FlattenSeq([i \in DOMAIN order |-> Listing[order[i]]]))
  PROVE  /\ all \in Seq(ToSet(all))
         /\ \A i, j \in DOMAIN all : all[i] = all[j] => i = j
         /\ IsFiniteSet(ToSet(all)) /\ ToSet(all) \subseteq Deployments
         /\ Cardinality(ToSet(all)) = Len(all)
<1> DEFINE answers == [i \in DOMAIN order |-> Listing[order[i]]]
<1>1. DOMAIN Listing = 1..Len(Listing) /\ Len(Listing) \in Nat
  BY ListingAssumption
<1>2. order \in Seq(DOMAIN Listing)
  <2>1. IsFiniteSet(DOMAIN Listing)
    BY <1>1, FS_Interval
  <2> QED
    BY <2>1, Enumeration
<1>3. \A i \in DOMAIN order : order[i] \in DOMAIN Listing /\ Listing[order[i]] \in Seq(Deployments)
  BY <1>2, ListingAssumption
<1>4. answers \in Seq(Seq(Deployments))
  BY <1>2, <1>3
<1>5. FlattenSeq(answers) \in Seq(Deployments)
  BY <1>4, FlattenType
<1>6. /\ all \in Seq(Deployments)
      /\ \A i, j \in DOMAIN all : all[i] = all[j] => i = j
  BY <1>5, DedupeDistinct
<1>7. all \in Seq(ToSet(all))
  BY <1>6, OverItsMembers
<1>8. ToSet(all) \subseteq Deployments
  BY <1>6 DEF ToSet
<1> QED
  BY <1>6, <1>7, <1>8, DistinctLength

-----------------------------------------------------------------------------
(***************************************************************************)
(* The price map.                                                          *)
(***************************************************************************)

\* build_collateral_price_map goes through the markets one by one.  FoldLeft
\* chooses a function on the sets of positions that removes the last position
\* first: such a function exists, since for every k there is one that is right
\* on the sets of positions up to k.
LEMMA PriceMapSteps ==
  ASSUME NEW n \in Nat, NEW s, DOMAIN s = 1..n
  PROVE  \E R : /\ R[0] = Empty
                /\ \A k \in 1..n : R[k] = insert_price(R[k - 1], s[k])
                /\ R[n] = FoldLeft(insert_price, Empty, s)
<1> DEFINE D == SUBSET (1..n)
           rest(t) == t \ {Max(t)}
           step(g, t) == IF t = {} THEN Empty
                         ELSE insert_price(g[rest(t)], s[Max(t)])
           Q(g) == g = [t \in D |-> step(g, t)]
           upto(t, k) == \A y \in t : y <= k
           P(k) == \E g : \A t \in D : upto(t, k) => g[t] = step(g, t)
           T == {k \in Nat : P(k)}
<1>1. FoldLeft(insert_price, Empty, s) = (CHOOSE g : Q(g))[1..n]
  BY DEF FoldLeft, MapThenFoldSet
<1>2. \A t \in D : t # {} => /\ Max(t) \in t /\ \A y \in t : y <= Max(t)
                             /\ rest(t) \in D
  <2>1. TAKE t \in D
  <2>2. HAVE t # {}
  <2>3. t \in SUBSET (0..n)
    OBVIOUS
  <2>4. Max(t) \in t /\ \A y \in t : y <= Max(t)
    BY <2>2, <2>3, GreatestNatural
  <2> QED
    BY <2>4
<1>3. P(0)
  <2> DEFINE g == [t \in D |-> Empty]
  <2>1. \A t \in D : upto(t, 0) => t = {}
    OBVIOUS
  <2>2. \A t \in D : upto(t, 0) => g[t] = step(g, t)
    BY <2>1
  <2> HIDE DEF g, step, upto
  <2> QED
    BY <2>2
<1>4. ASSUME NEW k \in Nat, P(k) PROVE P(k + 1)
  <2>1. PICK g : \A t \in D : upto(t, k) => g[t] = step(g, t)
    BY <1>4
  <2> DEFINE h == [t \in D |-> step(g, t)]
  <2>2. ASSUME NEW t \in D, upto(t, k + 1), t # {}
        PROVE  rest(t) \in D /\ upto(rest(t), k)
    <3>1. Max(t) \in t /\ \A y \in t : y <= Max(t)
      BY <1>2, <2>2
    <3> DEFINE x == Max(t)
    <3>2. x \in Nat /\ x <= k + 1 /\ \A y \in t : y \in Nat /\ y <= x
      <4>1. \A y \in t : y \in Nat /\ y <= k + 1
        BY <2>2
      <4> QED
        BY <3>1, <4>1
    <3>3. \A y \in t \ {x} : y <= k
      <4> HIDE DEF x
      <4> QED
        BY <3>2
    <3> QED
      BY <3>3
  <2>3. ASSUME NEW t \in D, upto(t, k + 1) PROVE h[t] = step(h, t)
    <3>1. CASE t = {}
      BY <3>1
    <3>2. CASE t # {}
      <4>1. rest(t) \in D /\ upto(rest(t), k)
        BY <2>2, <2>3, <3>2
      <4> DEFINE u == rest(t)
      <4>2. g[u] = step(g, u) /\ h[u] = step(g, u)
        <5> HIDE DEF u, step, upto
        <5> QED
          BY <2>1, <4>1 DEF u
      <4>3. h[u] = g[u] /\ h[t] = step(g, t)
        BY <4>2
      <4> HIDE DEF h, rest
      <4> QED
        BY <3>2, <4>3
    <3> QED
      BY <3>1, <3>2
  <2> HIDE DEF h, step, upto
  <2> QED
    BY <2>3
<1>5. P(n)
  <2> HIDE DEF P
  <2>1. 0 \in T /\ \A k \in Nat : k \in T => k + 1 \in T
    BY <1>3, <1>4
  <2>2. Nat \subseteq T
    <3> HIDE DEF T
    <3> QED
      BY <2>1, NatInductionSet
  <2> QED
    BY <2>2
<1>6. PICK f : \A t \in D : f[t] = step(f, t)
  <2>1. \A t \in D : upto(t, n)
    OBVIOUS
  <2> HIDE DEF step, upto, D
  <2> QED
    BY <1>5, <2>1
<1>7. Q([t \in D |-> f[t]])
  <2> DEFINE h == [t \in D |-> f[t]]
  <2>1. ASSUME NEW t \in D PROVE h[t] = step(h, t)
    <3>1. h[t] = step(f, t)
      BY <1>6
    <3>2. t # {} => h[rest(t)] = f[rest(t)]
      <4> HIDE DEF rest
      <4> QED
        BY <1>2
    <3> HIDE DEF h, rest
    <3> QED
      BY <3>1, <3>2
  <2> HIDE DEF step
  <2> QED
    BY <2>1
<1> DEFINE G == CHOOSE g : Q(g)
<1>8. Q(G)
  <2> HIDE DEF Q
  <2> QED
    BY <1>7
<1>9. \A t \in D : G[t] = step(G, t)
  <2> HIDE DEF G, step
  <2> QED
    BY <1>8
<1> HIDE DEF G
<1> DEFINE R == [k \in 0..n |-> G[1..k]]
<1>10. R[0] = Empty
  <2>1. 1..0 = {} /\ {} \in D /\ 0 \in 0..n
    OBVIOUS
  <2>2. G[{}] = Empty
    BY <1>9, <2>1
  <2> QED
    BY <2>1, <2>2
<1>11. ASSUME NEW k \in 1..n PROVE R[k] = insert_price(R[k - 1], s[k])
  <2>1. 1..k \in D /\ 1..k # {} /\ k \in 1..k
    <3>1. k \in Nat /\ 1 <= k /\ k <= n
      BY <1>11
    <3>2. \A i \in 1..k : i \in 1..n
      BY <3>1
    <3>3. k \in 1..k
      BY <3>1
    <3> QED
      BY <3>2, <3>3
  <2>2. Max(1..k) = k
    <3>1. Max(1..k) \in 1..k /\ k <= Max(1..k)
      BY <1>2, <2>1
    <3> QED
      BY <3>1
  <2>3. rest(1..k) = 1..(k - 1)
    BY <2>2
  <2>4. G[1..k] = insert_price(G[1..(k - 1)], s[k])
    <3>1. G[1..k] = insert_price(G[rest(1..k)], s[Max(1..k)])
      BY <1>9, <2>1
    <3> QED
      BY <2>2, <2>3, <3>1
  <2>5. k \in 0..n /\ k - 1 \in 0..n
    BY <1>11
  <2> QED
    BY <2>4, <2>5
<1>12. R[n] = FoldLeft(insert_price, Empty, s)
  BY <1>1 DEF G
<1> HIDE DEF R
<1> QED
  BY <1>10, <1>11, <1>12

\* The routes map gives for the markets M: exactly their collaterals have one,
\* it is that of one of them, and it leads into USDC if it can.
RoutesFor(map, M) ==
  /\ DOMAIN map = {Collateral[m] : m \in M}
  /\ \A key \in DOMAIN map :
       /\ map[key].market \in M /\ Collateral[map[key].market] = key
       /\ map[key].target = Borrow[map[key].market]
       /\ (\E m \in M : Collateral[m] = key /\ Borrow[m] \in Usdc) => map[key].target \in Usdc

\* One market's turn extends the routes by that market.
LEMMA InsertPrice ==
  ASSUME NEW map, NEW M, RoutesFor(map, M), NEW m
  PROVE  RoutesFor(insert_price(map, m), M \cup {m})
<1> DEFINE key == Collateral[m]
           new == insert_price(map, m)
<1>1. CASE key \in DOMAIN map /\ map[key].target \in Usdc
  <2>1. new = map
    BY <1>1 DEF insert_price
  <2>2. DOMAIN map = {Collateral[x] : x \in M \cup {m}}
    BY <1>1 DEF RoutesFor
  <2> QED
    BY <1>1, <2>1, <2>2 DEF RoutesFor
<1>2. CASE ~(key \in DOMAIN map /\ map[key].target \in Usdc)
  <2>1. new = routed(map, m)
    BY <1>2 DEF insert_price
  <2>2. /\ DOMAIN new = DOMAIN map \cup {key}
        /\ new[key] = [market |-> m, target |-> Borrow[m]]
        /\ \A k \in DOMAIN map : k # key => new[k] = map[k]
    BY <2>1 DEF routed, Updated
  <2> HIDE DEF new
  <2>3. DOMAIN new = {Collateral[x] : x \in M \cup {m}}
    BY <2>2 DEF RoutesFor
  <2>4. ASSUME NEW k \in DOMAIN new
        PROVE  /\ new[k].market \in M \cup {m} /\ Collateral[new[k].market] = k
               /\ new[k].target = Borrow[new[k].market]
               /\ (\E x \in M \cup {m} : Collateral[x] = k /\ Borrow[x] \in Usdc)
                    => new[k].target \in Usdc
    <3>1. CASE k = key
      <4>1. ASSUME NEW x \in M, Collateral[x] = key, Borrow[x] \in Usdc
            PROVE  FALSE
        BY <1>2, <4>1 DEF RoutesFor
      <4> QED
        BY <2>2, <3>1, <4>1
    <3>2. CASE k # key
      BY <2>2, <3>2 DEF RoutesFor
    <3> QED
      BY <3>1, <3>2
  <2>5. RoutesFor(new, M \cup {m})
    BY <2>3, <2>4 DEF RoutesFor
  <2> QED
    BY <2>5 DEF new
<1> QED
  BY <1>1, <1>2

\* The map built from the markets, in whatever order they are visited, gives
\* their routes.
LEMMA PriceMapRoutes ==
  ASSUME NEW M, IsFiniteSet(M), NEW order \in SetToSeqs(M)
  PROVE  RoutesFor(FoldLeft(insert_price, Empty, order), M)
<1> DEFINE n == Len(order)
           seen(k) == {order[i] : i \in 1..k}
<1>1. order \in Seq(M) /\ ToSet(order) = M
  BY Enumeration
<1>2. n \in Nat /\ DOMAIN order = 1..n
  BY <1>1
<1> HIDE DEF n
<1>3. PICK R : /\ R[0] = Empty
               /\ \A k \in 1..n : R[k] = insert_price(R[k - 1], order[k])
               /\ R[n] = FoldLeft(insert_price, Empty, order)
  BY <1>2, PriceMapSteps
<1> DEFINE P(k) == k <= n => RoutesFor(R[k], seen(k))
           T == {k \in Nat : P(k)}
<1>4. P(0)
  <2>1. seen(0) = {}
    OBVIOUS
  <2>2. RoutesFor(Empty, {})
    BY DEF RoutesFor, Empty
  <2> QED
    BY <1>3, <2>1, <2>2
<1>5. ASSUME NEW k \in Nat, P(k) PROVE P(k + 1)
  <2>1. SUFFICES ASSUME k + 1 <= n PROVE RoutesFor(R[k + 1], seen(k + 1))
    OBVIOUS
  <2>2. k <= n /\ k + 1 \in 1..n /\ (k + 1) - 1 = k
    BY <1>2, <2>1
  <2>3. R[k + 1] = insert_price(R[k], order[k + 1])
    BY <1>3, <2>2
  <2>4. seen(k + 1) = seen(k) \cup {order[k + 1]}
    <3>1. 1..(k + 1) = (1..k) \cup {k + 1}
      OBVIOUS
    <3> QED
      BY <3>1
  <2> HIDE DEF seen
  <2> QED
    BY <1>5, <2>2, <2>3, <2>4, InsertPrice
<1>6. P(n)
  <2> HIDE DEF P
  <2>1. 0 \in T /\ \A k \in Nat : k \in T => k + 1 \in T
    BY <1>4, <1>5
  <2>2. Nat \subseteq T
    <3> HIDE DEF T
    <3> QED
      BY <2>1, NatInductionSet
  <2> QED
    BY <1>2, <2>2
<1>7. seen(n) = M
  BY <1>1, <1>2 DEF ToSet
<1>8. RoutesFor(R[n], M)
  BY <1>2, <1>6, <1>7
<1> QED
  BY <1>3, <1>8

-----------------------------------------------------------------------------
(***************************************************************************)
(* The invariant.                                                          *)
(***************************************************************************)

\* The service starts with nothing listed, served or counted.
LEMMA RegistryInit == Init => RegistryInv
<1> SUFFICES ASSUME Init PROVE RegistryInv
  OBVIOUS
<1>1. IsTally(Empty) /\ Total(Empty, DOMAIN Empty) = 0
  <2>1. DOMAIN Empty = {}
    BY DEF Empty
  <2> QED
    BY <2>1, FS_EmptySet, TotalEmpty DEF IsTally
<1>2. IsFiniteSet({}) /\ Cardinality({}) = 0
  BY FS_EmptySet
<1>3. Consistent
  BY <1>1, <1>2 DEF Init, Consistent, NoRefresh
<1>4. TurnSound /\ Underway /\ AdmissionSound
  BY DEF Init, TurnSound, Underway, AdmissionSound, NoRefresh
<1>5. GaugesBalance
  BY <1>1, <1>2 DEF Init, GaugesBalance, NoRefresh
<1>6. SwapRoutesSound
  BY DEF Init, SwapRoutesSound, Empty
<1> QED
  BY <1>3, <1>4, <1>5, <1>6 DEF RegistryInv

\* A listing starts a refresh with everything still to read.
LEMMA ListStep == RegistryInv /\ ListDeployments => RegistryInv'
<1> SUFFICES ASSUME RegistryInv, ListDeployments PROVE RegistryInv'
  OBVIOUS
<1>1. PICK order \in SetToSeqs(DOMAIN Listing) :
        LET all == dedupe_deployments(FlattenSeq([i \in DOMAIN order |-> Listing[order[i]]]))
        IN  /\ todo' = all
            /\ refresh' = [count |-> refresh.count + 1, listed |-> ToSet(all),
                           met |-> [m \in ToSet(all) |-> {chain[m]}], unread |-> {}]
  BY DEF ListDeployments
<1>2. /\ todo' = dedupe_deployments(FlattenSeq([i \in DOMAIN order |-> Listing[order[i]]]))
      /\ refresh' = [count |-> refresh.count + 1, listed |-> ToSet(todo'),
                     met |-> [m \in ToSet(todo') |-> {chain[m]}], unread |-> {}]
  BY <1>1
<1>3. /\ todo' \in Seq(ToSet(todo'))
      /\ \A i, j \in DOMAIN todo' : todo'[i] = todo'[j] => i = j
      /\ IsFiniteSet(ToSet(todo')) /\ ToSet(todo') \subseteq Deployments
      /\ Cardinality(ToSet(todo')) = Len(todo')
  BY <1>2, ListDistinct
<1>4. /\ pc' = "config" /\ admitted' = {} /\ tally' = Empty /\ chain' = chain
      /\ filtered' = filtered /\ proxy_cache' = proxy_cache
  BY DEF ListDeployments, installed
<1>5. IsTally(Empty) /\ Total(Empty, DOMAIN Empty) = 0
  <2>1. DOMAIN Empty = {}
    BY DEF Empty
  <2> QED
    BY <2>1, FS_EmptySet, TotalEmpty DEF IsTally
<1>6. Consistent'
  <2>1. IsTally(tally)' /\ IsTally(filtered)'
    BY <1>4, <1>5 DEF RegistryInv, Consistent, IsTally
  <2> QED
    BY <1>2, <1>3, <1>4, <2>1 DEF RegistryInv, Consistent
<1>7. Underway' /\ TurnSound'
  <2>2. Cardinality(admitted') + Total(tally', DOMAIN tally') + Len(todo') = Cardinality(refresh'.listed)
    <3>1. Len(todo') \in Nat
      BY <1>3
    <3> QED
      BY <1>2, <1>3, <1>4, <1>5, <3>1, FS_EmptySet
  <2>3. refresh'.listed = ToSet(todo') /\ \A d \in ToSet(todo') : refresh'.met[d] = {chain[d]}
    BY <1>2
  <2> QED
    BY <1>4, <2>2, <2>3 DEF Underway, TurnSound
<1>8. AdmissionSound' /\ GaugesBalance'
  BY <1>4 DEF AdmissionSound, GaugesBalance
<1>9. SwapRoutesSound'
  BY DEF RegistryInv, SwapRoutesSound, ListDeployments, installed
<1> QED
  BY <1>6, <1>7, <1>8, <1>9 DEF RegistryInv

\* The end of a turn takes its deployment off the list.
LEMMA TurnEnds ==
  ASSUME RegistryInv, todo # <<>>, todo' = Tail(todo)
  PROVE  /\ Head(todo) \in ToSet(todo) /\ Head(todo) \in refresh.listed
         /\ todo' \in Seq(refresh.listed) /\ Len(todo) = Len(todo') + 1 /\ Len(todo') \in Nat
         /\ \A i, j \in DOMAIN todo' : todo'[i] = todo'[j] => i = j
         /\ ToSet(todo') = ToSet(todo) \ {Head(todo)}
<1>1. todo \in Seq(refresh.listed) /\ \A i, j \in DOMAIN todo : todo[i] = todo[j] => i = j
  BY DEF RegistryInv, Consistent
<1>2. ToSet(todo) \subseteq refresh.listed
  BY <1>1 DEF ToSet
<1>3. /\ Head(todo) \in ToSet(todo)
      /\ todo' \in Seq(refresh.listed) /\ Len(todo) = Len(todo') + 1
      /\ \A i, j \in DOMAIN todo' : todo'[i] = todo'[j] => i = j
      /\ ToSet(todo') = ToSet(todo) \ {Head(todo)}
  BY <1>1, DistinctTail
<1>4. Len(todo') \in Nat
  BY <1>3
<1> QED
  BY <1>2, <1>3, <1>4

\* A deployment filtered: it moves from the list into the tally, rightly so if a
\* read failed or some fact met during the refresh speaks against it.
LEMMA FilterStep ==
  ASSUME RegistryInv, pc # "idle", todo # <<>>,
         NEW label, EndTurn, record(label), admitted' = admitted,
         UNCHANGED <<chain, proxy_cache, installed>>,
         \/ /\ refresh' = refresh
            /\ ~Certain(Head(todo))
         \/ refresh' = [refresh EXCEPT !.unread = @ \union {Head(todo)}]
  PROVE  RegistryInv'
<1> DEFINE m == Head(todo)
<1>1. /\ pc' = "config" /\ todo' = Tail(todo) /\ chain' = chain /\ filtered' = filtered
      /\ proxy_cache' = proxy_cache
  BY DEF EndTurn, installed
<1>2. /\ m \in ToSet(todo) /\ m \in refresh.listed
      /\ todo' \in Seq(refresh.listed) /\ Len(todo) = Len(todo') + 1 /\ Len(todo') \in Nat
      /\ \A i, j \in DOMAIN todo' : todo'[i] = todo'[j] => i = j
      /\ ToSet(todo') = ToSet(todo) \ {m}
  BY <1>1, TurnEnds
<1>3. /\ refresh'.listed = refresh.listed /\ refresh'.met = refresh.met
      /\ refresh.unread \subseteq refresh'.unread
      /\ m \in refresh'.unread \/ ~Certain(m)
      /\ refresh' = [count |-> refresh'.count, listed |-> refresh'.listed, met |-> refresh'.met,
                     unread |-> refresh'.unread]
  BY DEF RegistryInv, Consistent
<1>4. /\ IsTally(tally') /\ Total(tally', DOMAIN tally') = Total(tally, DOMAIN tally) + 1
      /\ Total(tally, DOMAIN tally) \in Nat
  BY RecordTotal, TotalType DEF RegistryInv, Consistent, IsTally
<1> HIDE DEF m
<1>5. Consistent' /\ TurnSound'
  <2>1. IsTally(tally)' /\ IsTally(filtered)'
    BY <1>1, <1>4 DEF RegistryInv, Consistent, IsTally
  <2>2. /\ IsFiniteSet(refresh'.listed) /\ refresh'.listed \subseteq Deployments
        /\ DOMAIN chain' = Deployments /\ proxy_cache' \subseteq Proxies
    BY <1>1, <1>3 DEF RegistryInv, Consistent
  <2>3. TurnSound'
    BY <1>1 DEF TurnSound
  <2> QED
    BY <1>1, <1>2, <1>3, <2>1, <2>2, <2>3 DEF Consistent
<1>6. Underway'
  <2>1. Underway /\ IsFiniteSet(refresh.listed)
    BY DEF RegistryInv, Consistent
  <2>2. admitted' \subseteq refresh'.listed \ ToSet(todo')
    BY <1>2, <1>3, <2>1 DEF Underway
  <2>3. \A d \in admitted' : Justified(d)'
    BY <1>3, <2>1 DEF Underway, Justified
  <2>4. ASSUME NEW d \in refresh'.listed \ (refresh'.unread \union ToSet(todo')),
               Certain(d)'
        PROVE  d \in admitted'
    <3>1. d # m /\ Certain(d)
      BY <1>3, <2>4 DEF Certain
    <3> QED
      BY <1>2, <1>3, <2>1, <2>4, <3>1 DEF Underway
  <2>5. \A d \in refresh'.listed : chain'[d] \in refresh'.met[d]
    BY <1>1, <1>3, <2>1 DEF Underway
  <2>6. Cardinality(admitted') + Total(tally', DOMAIN tally') + Len(todo') = Cardinality(refresh'.listed)
    <3>1. Cardinality(admitted) \in Nat
      BY <2>1, FS_Subset, FS_CardinalityType DEF Underway
    <3>2. Cardinality(admitted) + Total(tally, DOMAIN tally) + Len(todo) = Cardinality(refresh.listed)
      BY <2>1 DEF Underway
    <3> QED
      BY <1>2, <1>3, <1>4, <3>1, <3>2
  <2> QED
    BY <2>2, <2>3, <2>4, <2>5, <2>6 DEF Underway
<1>7. AdmissionSound' /\ GaugesBalance'
  BY <1>1 DEF AdmissionSound, GaugesBalance
<1>8. SwapRoutesSound'
  BY DEF RegistryInv, SwapRoutesSound, installed
<1> QED
  BY <1>5, <1>6, <1>7, <1>8 DEF RegistryInv

\* A deployment admitted: it moves from the list to the admitted markets.
LEMMA AdmitStep ==
  ASSUME RegistryInv, pc # "idle", todo # <<>>, Admit, Justified(Head(todo)),
         UNCHANGED <<chain, proxy_cache, installed>>
  PROVE  RegistryInv'
<1> DEFINE m == Head(todo)
<1>1. /\ pc' = "config" /\ todo' = Tail(todo) /\ chain' = chain /\ filtered' = filtered
      /\ proxy_cache' = proxy_cache /\ tally' = tally /\ refresh' = refresh
      /\ admitted' = admitted \union {m}
  BY DEF Admit, EndTurn, installed
<1>2. /\ m \in ToSet(todo) /\ m \in refresh.listed
      /\ todo' \in Seq(refresh.listed) /\ Len(todo) = Len(todo') + 1 /\ Len(todo') \in Nat
      /\ \A i, j \in DOMAIN todo' : todo'[i] = todo'[j] => i = j
      /\ ToSet(todo') = ToSet(todo) \ {m}
  BY <1>1, TurnEnds
<1>3. Justified(m)
  OBVIOUS
<1> HIDE DEF m
<1>4. Consistent' /\ TurnSound'
  <2>1. IsTally(tally)' /\ IsTally(filtered)'
    BY <1>1 DEF RegistryInv, Consistent, IsTally
  <2>2. TurnSound'
    BY <1>1 DEF TurnSound
  <2> QED
    BY <1>1, <1>2, <2>1, <2>2 DEF RegistryInv, Consistent
<1>5. Underway'
  <2>1. Underway /\ IsFiniteSet(refresh.listed) /\ IsTally(tally)
    BY DEF RegistryInv, Consistent
  <2>2. admitted' \subseteq refresh.listed \ ToSet(todo')
    BY <1>1, <1>2, <2>1 DEF Underway
  <2>3. \A d \in admitted' : Justified(d)'
    BY <1>1, <1>3, <2>1 DEF Underway, Justified
  <2>4. ASSUME NEW d \in refresh.listed \ (refresh.unread \union ToSet(todo')),
               Certain(d)'
        PROVE  d \in admitted'
    <3>1. Certain(d)
      BY <1>1, <2>4 DEF Certain
    <3> QED
      BY <3>1, <1>1, <1>2, <2>1, <2>4 DEF Underway
  <2>5. \A d \in refresh.listed : chain'[d] \in refresh.met[d]
    BY <1>1, <2>1 DEF Underway
  <2>6. Cardinality(admitted') + Total(tally', DOMAIN tally') + Len(todo') = Cardinality(refresh.listed)
    <3>1. IsFiniteSet(admitted) /\ m \notin admitted
      BY <1>2, <2>1, FS_Subset DEF Underway
    <3>2. Cardinality(admitted') = Cardinality(admitted) + 1 /\ Cardinality(admitted) \in Nat
      BY <1>1, <3>1, FS_AddElement, FS_CardinalityType
    <3>3. Total(tally, DOMAIN tally) \in Nat
      BY <2>1, TotalType DEF IsTally
    <3>4. Cardinality(admitted) + Total(tally, DOMAIN tally) + Len(todo) = Cardinality(refresh.listed)
      BY <2>1 DEF Underway
    <3> QED
      BY <1>1, <1>2, <3>2, <3>3, <3>4
  <2> QED
    BY <1>1, <2>2, <2>3, <2>4, <2>5, <2>6 DEF Underway
<1>6. AdmissionSound' /\ GaugesBalance'
  BY <1>1 DEF AdmissionSound, GaugesBalance
<1>7. SwapRoutesSound'
  BY DEF RegistryInv, SwapRoutesSound, installed
<1> QED
  BY <1>4, <1>5, <1>6, <1>7 DEF RegistryInv

\* The turn goes on to its next read.
LEMMA ReadStep ==
  ASSUME RegistryInv, pc # "idle", todo # <<>>,
         NEW read \in {"version", "detect", "probe", "sources"}, NextRead(read),
         UNCHANGED <<chain, installed>>, proxy_cache' \subseteq Proxies, TurnSound'
  PROVE  RegistryInv'
<1>1. /\ pc' = read /\ todo' = todo /\ admitted' = admitted /\ tally' = tally /\ refresh' = refresh
      /\ chain' = chain /\ filtered' = filtered
  BY DEF NextRead, installed
<1>2. Consistent'
  BY <1>1 DEF RegistryInv, Consistent, IsTally
<1>3. Underway'
  BY <1>1 DEF RegistryInv, Underway, Justified, Certain
<1>4. AdmissionSound' /\ GaugesBalance'
  BY <1>1 DEF AdmissionSound, GaugesBalance
<1>5. SwapRoutesSound'
  BY DEF RegistryInv, SwapRoutesSound, installed
<1> QED
  BY <1>2, <1>3, <1>4, <1>5 DEF RegistryInv

\* What the facts of now say is among what the refresh met.
LEMMA NowMet ==
  ASSUME RegistryInv, pc # "idle", todo # <<>>
  PROVE  Head(todo) \in refresh.listed /\ chain[Head(todo)] \in refresh.met[Head(todo)]
<1>1. Head(todo) \in refresh.listed
  BY DEF RegistryInv, Consistent
<1> QED
  BY <1>1 DEF RegistryInv, Underway

LEMMA ConfigStep == RegistryInv /\ ReadConfig => RegistryInv'
<1> SUFFICES ASSUME RegistryInv, ReadConfig PROVE RegistryInv'
  OBVIOUS
<1> DEFINE m == Head(todo)
<1>1. /\ pc = "config" /\ todo # <<>> /\ UNCHANGED <<chain, proxy_cache, installed>>
      /\ m \in refresh.listed /\ chain[m] \in refresh.met[m]
  BY NowMet DEF ReadConfig
<1>2. CASE rejected_by_list(m)
  <2>1. ~Certain(m)
    BY <1>1, <1>2, ListsAgree DEF Certain, Serviceable
  <2>2. \E label : EndTurn /\ record(label) /\ admitted' = admitted /\ refresh' = refresh
    BY <1>2 DEF ReadConfig, Filter
  <2> QED
    BY <1>1, <2>1, <2>2, FilterStep
<1>3. CASE FilterUnread("config-read-error")
  BY <1>1, <1>3, FilterStep DEF FilterUnread
<1>4. CASE ~chain[m].market /\ Filter("not-a-market")
  <2>1. ~Certain(m)
    BY <1>1, <1>4 DEF Certain, Serviceable
  <2> QED
    BY <1>1, <1>4, <2>1, FilterStep DEF Filter
<1>5. CASE /\ ~rejected_by_list(m) /\ chain[m].market
           /\ config' = [decimals |-> chain[m].decimals, oracle |-> chain[m].oracle]
           /\ NextRead("version")
  <2>1. pc' = "version" /\ todo' = todo /\ refresh' = refresh
    BY <1>5 DEF NextRead
  <2>2. TurnSound'
    BY <1>1, <1>5, <2>1 DEF TurnSound, rejected_by_list, deprecated, outside_allowlist
  <2>3. proxy_cache' \subseteq Proxies
    BY <1>1 DEF RegistryInv, Consistent
  <2> QED
    BY <1>1, <1>5, <2>2, <2>3, ReadStep
<1> QED
  BY <1>2, <1>3, <1>4, <1>5 DEF ReadConfig

LEMMA VersionStep == RegistryInv /\ ReadVersion => RegistryInv'
<1> SUFFICES ASSUME RegistryInv, ReadVersion PROVE RegistryInv'
  OBVIOUS
<1> DEFINE m == Head(todo)
<1>1. /\ pc = "version" /\ todo # <<>> /\ UNCHANGED <<chain, proxy_cache, installed>>
      /\ m \in refresh.listed /\ chain[m] \in refresh.met[m]
  BY NowMet DEF ReadVersion, RegistryInv, Consistent
<1>2. CASE FilterUnread("version-read-error")
  BY <1>1, <1>2, FilterStep DEF FilterUnread
<1>3. CASE ~chain[m].version /\ Filter("version")
  <2>1. ~Certain(m)
    BY <1>1, <1>3 DEF Certain, Serviceable
  <2> QED
    BY <1>1, <1>3, <2>1, FilterStep DEF Filter
<1>4. CASE chain[m].version /\ NextRead("detect") /\ UNCHANGED config
  <2>1. pc' = "detect" /\ todo' = todo /\ refresh' = refresh
    BY <1>4 DEF NextRead
  <2>2. TurnSound'
    BY <1>1, <1>4, <2>1 DEF RegistryInv, TurnSound, rejected_by_list, deprecated, outside_allowlist
  <2>3. proxy_cache' \subseteq Proxies
    BY <1>1 DEF RegistryInv, Consistent
  <2> QED
    BY <1>1, <1>4, <2>2, <2>3, ReadStep
<1> QED
  BY <1>2, <1>3, <1>4 DEF ReadVersion

LEMMA DetectStep == RegistryInv /\ DetectProxy => RegistryInv'
<1> SUFFICES ASSUME RegistryInv, DetectProxy PROVE RegistryInv'
  OBVIOUS
<1>1. /\ pc = "detect" /\ todo # <<>> /\ UNCHANGED <<chain, installed>> /\ config' = config
      /\ NextRead("probe") /\ proxy_cache' \subseteq Proxies
  BY DEF DetectProxy, RegistryInv, Consistent
<1>2. pc' = "probe" /\ todo' = todo /\ refresh' = refresh
  BY <1>1 DEF NextRead
<1>3. TurnSound'
  BY <1>1, <1>2 DEF RegistryInv, TurnSound, rejected_by_list, deprecated, outside_allowlist
<1> QED
  BY <1>1, <1>3, ReadStep

LEMMA ProbeStep == RegistryInv /\ ProbeProxy => RegistryInv'
<1> SUFFICES ASSUME RegistryInv, ProbeProxy PROVE RegistryInv'
  OBVIOUS
<1> DEFINE m == Head(todo)
<1>1. /\ pc = "probe" /\ todo # <<>> /\ UNCHANGED <<chain, installed>>
      /\ proxy_cache \subseteq Proxies
  BY DEF ProbeProxy, RegistryInv, Consistent
<1>2. CASE /\ config.oracle \in proxy_cache \union Proxies
           /\ proxy_cache' = proxy_cache \union {config.oracle}
           /\ NextRead("sources") /\ UNCHANGED config
  <2>1. pc' = "sources" /\ todo' = todo /\ refresh' = refresh
    BY <1>2 DEF NextRead
  <2>2. config.oracle \in Proxies /\ proxy_cache' \subseteq Proxies
    BY <1>1, <1>2
  <2>3. TurnSound'
    BY <1>1, <1>2, <2>1, <2>2
       DEF RegistryInv, TurnSound, rejected_by_list, deprecated, outside_allowlist
  <2> QED
    BY <1>1, <1>2, <2>2, <2>3, ReadStep
<1>3. CASE /\ config.oracle \notin proxy_cache \union Proxies
           /\ Filter("oracle") /\ UNCHANGED proxy_cache
  <2>1. PICK f \in refresh.met[m] :
          f.market /\ config = [decimals |-> f.decimals, oracle |-> f.oracle]
    BY <1>1 DEF RegistryInv, TurnSound
  <2>2. ~Certain(m)
    BY <1>3, <2>1 DEF Certain, Serviceable
  <2> QED
    BY <1>1, <1>3, <2>2, FilterStep DEF Filter
<1>4. CASE FilterUnread("oracle-probe-error") /\ UNCHANGED proxy_cache
  BY <1>1, <1>4, FilterStep DEF FilterUnread
<1> QED
  BY <1>2, <1>3, <1>4 DEF ProbeProxy

LEMMA SourcesStep == RegistryInv /\ ReadSources => RegistryInv'
<1> SUFFICES ASSUME RegistryInv, ReadSources PROVE RegistryInv'
  OBVIOUS
<1> DEFINE m == Head(todo)
<1>1. /\ pc = "sources" /\ todo # <<>> /\ UNCHANGED <<chain, proxy_cache, installed>>
      /\ m \in refresh.listed /\ chain[m] \in refresh.met[m]
  BY NowMet DEF ReadSources, RegistryInv, Consistent
<1>2. PICK f \in refresh.met[m] :
        f.market /\ config = [decimals |-> f.decimals, oracle |-> f.oracle]
  BY <1>1 DEF RegistryInv, TurnSound
<1>3. PICK read \in BOOLEAN :
        \/ ~composable(m, read) /\ read /\ Filter("oracle")
        \/ ~composable(m, read) /\ ~read /\ FilterUnread("oracle")
        \/ composable(m, read) /\ ~should_process_market(m) /\ Filter("asset-filter")
        \/ composable(m, read) /\ should_process_market(m) /\ Admit
  BY DEF ReadSources
<1>4. CASE ~composable(m, read) /\ read /\ Filter("oracle")
  \* the oracle the configuration named then, and its sources now
  <2>1. config.oracle \notin chain[m].sources
    BY <1>4 DEF composable
  <2>2. ~Certain(m)
    BY <1>1, <1>2, <2>1 DEF Certain, Serviceable
  <2> QED
    BY <1>1, <1>4, <2>2, FilterStep DEF Filter
<1>5. CASE FilterUnread("oracle")
  BY <1>1, <1>5, FilterStep DEF FilterUnread
<1>6. CASE ~should_process_market(m) /\ Filter("asset-filter")
  <2>1. ~Certain(m)
    BY <1>2, <1>6 DEF Certain, Serviceable, should_process_market
  <2> QED
    BY <1>1, <1>2, <1>6, <2>1, FilterStep DEF Filter
<1>7. CASE composable(m, read) /\ should_process_market(m) /\ Admit
  <2>1. Justified(m)
    BY <1>1, <1>7, PassedJustified
  <2> QED
    BY <1>1, <1>7, <2>1, AdmitStep
<1> QED
  BY <1>3, <1>4, <1>5, <1>6, <1>7

\* The result installed: nothing is left to read, so what is admitted is what
\* ought to be, and everything listed is admitted or counted.
LEMMA InstallStep == RegistryInv /\ Install => RegistryInv'
<1> SUFFICES ASSUME RegistryInv, Install PROVE RegistryInv'
  OBVIOUS
<1>1. /\ pc = "config" /\ pc' = "idle" /\ todo = <<>> /\ todo' = <<>>
      /\ admitted' = {} /\ tally' = Empty
      /\ markets' = admitted /\ registered' = Cardinality(admitted)
      /\ filtered' = set_registry_counts(tally)
      /\ refresh' = refresh /\ chain' = chain /\ proxy_cache' = proxy_cache
  BY DEF Install
<1>2. ToSet(todo) = {} /\ Len(todo) = 0
  BY <1>1 DEF ToSet
<1>3. IsFiniteSet(admitted) /\ Cardinality(admitted) \in Nat
  BY <1>1, FS_Subset, FS_CardinalityType DEF RegistryInv, Consistent, Underway
<1>4. /\ IsTally(filtered')
      /\ Total(filtered', DOMAIN filtered') = Total(tally, DOMAIN tally)
      /\ Total(tally, DOMAIN tally) \in Nat
  BY <1>1, CountsTotal, TotalType DEF RegistryInv, Consistent, IsTally
<1>5. Consistent'
  <2>1. IsTally(Empty)
    BY FS_EmptySet DEF IsTally, Empty
  <2> QED
    BY <1>1, <1>4, <2>1 DEF RegistryInv, Consistent
<1>6. Underway' /\ TurnSound'
  BY <1>1 DEF Underway, TurnSound
<1>7. AdmissionSound'
  BY <1>1, <1>2 DEF RegistryInv, Underway, AdmissionSound, Justified, Certain
<1>8. GaugesBalance'
  <2>1. Cardinality(admitted) + Total(tally, DOMAIN tally) = Cardinality(refresh.listed)
    BY <1>1, <1>2, <1>3, <1>4 DEF RegistryInv, Underway
  <2> QED
    BY <1>1, <1>4, <2>1 DEF GaugesBalance
<1>9. SwapRoutesSound'
  <2>1. PICK order \in SetToSeqs(admitted) :
          collateral_price_map' = FoldLeft(insert_price, Empty, order)
    BY DEF Install
  <2>2. RoutesFor(collateral_price_map', admitted)
    BY <1>3, <2>1, PriceMapRoutes
  <2>3. /\ \A x \in admitted : Borrow[x] \in inventory'
        /\ \A x \in admitted : Collateral[x] \in collateral_inventory'
    BY DEF Install
  <2> QED
    BY <1>1, <2>2, <2>3 DEF RoutesFor, SwapRoutesSound
<1> QED
  BY <1>5, <1>6, <1>7, <1>8, <1>9 DEF RegistryInv

\* The chain changes under a refresh: what is so now joins what was met, and
\* what justified an admission, or spoke against one, is met for good.
LEMMA ChangeStep ==
  ASSUME NEW m \in Deployments, NEW facts, RegistryInv, Change(m, facts)
  PROVE  RegistryInv'
<1>1. /\ pc' = pc /\ todo' = todo /\ config' = config /\ admitted' = admitted /\ tally' = tally
      /\ filtered' = filtered /\ markets' = markets /\ registered' = registered
      /\ inventory' = inventory /\ collateral_inventory' = collateral_inventory
      /\ collateral_price_map' = collateral_price_map /\ proxy_cache' = proxy_cache
      /\ DOMAIN chain' = DOMAIN chain
  BY DEF Change, installed
<1>2. CASE pc = "idle"
  <2>1. refresh' = refresh
    BY <1>2 DEF Change
  <2>2. Consistent'
    BY <1>1, <2>1 DEF RegistryInv, Consistent, IsTally
  <2>3. Underway' /\ TurnSound'
    BY <1>1, <1>2 DEF Underway, TurnSound
  <2>4. AdmissionSound'
    BY <1>1, <1>2, <2>1 DEF RegistryInv, AdmissionSound, Justified, Certain
  <2> QED
    BY <1>1, <2>1, <2>2, <2>3, <2>4 DEF RegistryInv, GaugesBalance, SwapRoutesSound
<1>3. CASE pc # "idle"
  <2> DEFINE more(d) == IF d = m THEN {facts} ELSE {}
  <2>1. refresh' = [refresh EXCEPT !.met = [d \in refresh.listed |-> refresh.met[d] \union more(d)]]
    BY <1>3 DEF Change
  <2>2. /\ refresh'.listed = refresh.listed /\ refresh'.unread = refresh.unread
        /\ \A d \in refresh.listed : refresh'.met[d] = refresh.met[d] \union more(d)
        /\ refresh' = [count |-> refresh'.count, listed |-> refresh'.listed, met |-> refresh'.met,
                       unread |-> refresh'.unread]
    BY <2>1 DEF RegistryInv, Consistent
  <2>3. \A d \in refresh.listed : refresh.met[d] \subseteq refresh'.met[d]
    BY <2>2
  <2>4. Consistent'
    BY <1>1, <2>2 DEF RegistryInv, Consistent, IsTally
  <2>5. TurnSound'
    <3>1. pc \in {"version", "detect", "probe", "sources"} => Head(todo) \in refresh.listed
      BY DEF RegistryInv, Consistent
    <3>2. TurnSound
      BY DEF RegistryInv
    <3> QED
      BY <1>1, <2>3, <3>1, <3>2 DEF TurnSound, rejected_by_list, deprecated, outside_allowlist
  <2>6. Underway'
    <3>0. Underway
      BY DEF RegistryInv
    <3>1. /\ admitted' \subseteq refresh'.listed \ ToSet(todo')
          /\ Cardinality(admitted') + Total(tally', DOMAIN tally') + Len(todo')
               = Cardinality(refresh'.listed)
      BY <1>1, <1>3, <2>2, <3>0 DEF Underway
    <3>2. \A d \in admitted' : Justified(d)'
      <4>1. TAKE d \in admitted'
      <4>2. Justified(d)
        BY <1>1, <1>3, <3>0 DEF Underway
      <4> QED
        BY <2>2, <2>3, <4>2 DEF Justified, Serviceable
    <3>3. ASSUME NEW d \in refresh'.listed \ (refresh'.unread \union ToSet(todo')),
                 Certain(d)'
          PROVE  d \in admitted'
      <4>1. Certain(d)
        BY <2>2, <2>3, <3>3 DEF Certain
      <4> QED
        BY <1>1, <1>3, <2>2, <3>0, <3>3, <4>1 DEF Underway
    <3>4. \A d \in refresh'.listed : chain'[d] \in refresh'.met[d]
      <4>1. TAKE d \in refresh'.listed
      <4>2. chain[d] \in refresh.met[d]
        BY <1>3, <2>2, <3>0 DEF Underway
      <4>3. chain'[d] = chain[d] \/ (d = m /\ chain'[d] = facts)
        <5>1. d \in DOMAIN chain
          BY <2>2 DEF RegistryInv, Consistent
        <5>2. chain' = [chain EXCEPT ![m] = facts]
          BY DEF Change
        <5> QED
          BY <5>1, <5>2
      <4> QED
        BY <2>2, <4>2, <4>3
    <3> QED
      BY <3>1, <3>2, <3>3, <3>4 DEF Underway
  <2>7. AdmissionSound' /\ GaugesBalance'
    BY <1>1, <1>3 DEF AdmissionSound, GaugesBalance
  <2>8. SwapRoutesSound'
    BY <1>1 DEF RegistryInv, SwapRoutesSound
  <2> QED
    BY <2>4, <2>5, <2>6, <2>7, <2>8 DEF RegistryInv
<1> QED
  BY <1>2, <1>3

\* Every step keeps the invariant.
LEMMA RegistryStep == RegistryInv /\ [Next]_vars => RegistryInv'
<1> SUFFICES ASSUME RegistryInv, [Next]_vars PROVE RegistryInv'
  OBVIOUS
<1>1. CASE UNCHANGED vars
  <2>1. UNCHANGED <<chain, pc, todo, config, admitted, tally, proxy_cache, refresh, installed>>
    BY <1>1 DEF vars, installed
  <2> QED
    BY <2>1 DEF installed, RegistryInv, Consistent, IsTally, TurnSound, Underway, Justified, Certain,
        AdmissionSound, GaugesBalance, SwapRoutesSound
<1>2. CASE ListFails
  BY <1>1, <1>2 DEF ListFails
<1> QED
  BY <1>1, <1>2, ListStep, ConfigStep, VersionStep, DetectStep, ProbeStep, SourcesStep, InstallStep,
     ChangeStep DEF Next

\* The invariant of the registry refresh: the list of a refresh under way, what
\* it admitted and its tally always add up to the deployments it listed, and
\* every fact that speaks for what it admitted was true when it was read.
THEOREM RegistryInvariant == Spec => []RegistryInv
BY RegistryInit, RegistryStep, PTL DEF Spec

\* A market is served exactly when it should be, as far as one refresh can know,
\* for any registries, any operator's lists, and any changes of the chain and
\* failures of the reads of refresh_registry while it runs.
THEOREM AdmissionIsSound == Spec => []AdmissionSound
<1>1. RegistryInv => AdmissionSound
  BY DEF RegistryInv
<1> QED
  BY <1>1, RegistryInvariant, PTL

\* The gauges that set_registry_counts publishes account for every listed
\* deployment once, however often registries repeat one and whatever reasons
\* earlier refreshes counted.
THEOREM GaugesAddUp == Spec => []GaugesBalance
<1>1. RegistryInv => GaugesBalance
  BY DEF RegistryInv
<1> QED
  BY <1>1, RegistryInvariant, PTL

\* The routes of build_collateral_price_map belong to the markets served, and
\* lead into USDC where they can, in whatever order the markets are visited.
THEOREM SwapRoutesAreSound == Spec => []SwapRoutesSound
<1>1. RegistryInv => SwapRoutesSound
  BY DEF RegistryInv
<1> QED
  BY <1>1, RegistryInvariant, PTL
=============================================================================
