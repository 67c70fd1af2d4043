--------------------------- MODULE StrategyProofs ---------------------------
(***************************************************************************)
(* Proofs about Strategy: for every market, balance, deposit and budget,   *)
(* what the strategies size is fundable, respects the buffered cap and     *)
(* survives the drift its buffers are meant for, and what the gate lets    *)
(* through keeps the margin.                                               *)
(***************************************************************************)
EXTENDS Strategy, TLAPS

(***************************************************************************)
(* Rounding.                                                               *)
(***************************************************************************)
\* A quotient rounded down (to_u128_floor, integer division).
LEMMA FloorFacts ==
  ASSUME NEW a \in Nat, NEW b \in Nat \ {0}
  PROVE  /\ a \div b \in Nat
         /\ (a \div b) * b <= a
         /\ a < (a \div b) * b + b
BY Z3

\* A quotient rounded up (div_ceil, to_u128_ceil).
LEMMA CeilFacts ==
  ASSUME NEW a \in Nat, NEW b \in Nat \ {0}
  PROVE  /\ div_ceil(a, b) \in Nat
         /\ a <= div_ceil(a, b) * b
         /\ div_ceil(a, b) * b < a + b
<1>1. a + b - 1 \in Nat
  OBVIOUS
<1> QED
  BY <1>1, FloorFacts DEF div_ceil

\* It is the least number that covers the dividend.
LEMMA CeilLeast ==
  ASSUME NEW a \in Nat, NEW b \in Nat \ {0}, NEW r \in Nat, a <= r * b
  PROVE  div_ceil(a, b) <= r
<1> DEFINE c == div_ceil(a, b)
<1>1. c \in Nat /\ c * b < a + b
  BY CeilFacts
<1>2. c * b < (r + 1) * b
  BY <1>1
<1> HIDE DEF c
<1>3. c < r + 1
  BY <1>1, <1>2
<1> QED
  BY <1>1, <1>3 DEF c

LEMMA FloorMonotone ==
  ASSUME NEW a \in Nat, NEW c \in Nat, NEW b \in Nat \ {0}, a <= c
  PROVE  a \div b <= c \div b
<1> DEFINE x == a \div b
<1> DEFINE y == c \div b
<1>1. x \in Nat /\ y \in Nat /\ x * b <= a /\ c < y * b + b
  BY FloorFacts
<1> HIDE DEF x, y
<1>2. x * b < (y + 1) * b
  BY <1>1
<1>3. x < y + 1
  BY <1>1, <1>2
<1> QED
  BY <1>1, <1>3 DEF x, y

(***************************************************************************)
(* The two conversions and the buffers.                                    *)
(***************************************************************************)
LEMMA Rates ==
  ASSUME NEW m \in Market
  PROVE  rate_num(m) \in Nat \ {0} /\ rate_den(m) \in Nat \ {0}
<1>1. ASSUME NEW a \in Nat \ {0}, NEW b \in Nat \ {0} PROVE a * b \in Nat \ {0}
  OBVIOUS
<1> QED
  BY <1>1 DEF Market, rate_num, rate_den

LEMMA CapFacts ==
  ASSUME NEW x \in Nat
  PROVE  /\ apply_liquidatable_cap_buffer(x) \in Nat
         /\ apply_liquidatable_cap_buffer(x) <= x
BY DEF apply_liquidatable_cap_buffer, BPS, LIQUIDATABLE_CAP_BUFFER_BPS

LEMMA BufferFacts ==
  ASSUME NEW x \in Nat
  PROVE  /\ buffer(x) \in Nat
         /\ buffer(x) * 10000 <= x * 50
         /\ x * 50 < buffer(x) * 10000 + 10000
BY DEF buffer, BPS, SAFETY_BUFFER_BPS

LEMMA RepayFacts ==
  ASSUME NEW m \in Market, NEW c \in Nat
  PROVE  /\ collateral_to_borrow(m, c) \in Nat
         /\ c * rate_num(m) <= collateral_to_borrow(m, c) * rate_den(m)
         /\ collateral_to_borrow(m, c) * rate_den(m) < c * rate_num(m) + rate_den(m)
         /\ c > 0 => collateral_to_borrow(m, c) > 0
<1> DEFINE n == rate_num(m)
<1> DEFINE d == rate_den(m)
<1> DEFINE q == collateral_to_borrow(m, c)
<1>1. n \in Nat \ {0} /\ d \in Nat \ {0}
  BY Rates
<1> HIDE DEF n, d
<1>2. c * n \in Nat
  BY <1>1
<1>3. q \in Nat /\ c * n <= q * d /\ q * d < c * n + d
  BY <1>1, <1>2, CeilFacts DEF collateral_to_borrow, n, d
<1> HIDE DEF q
<1>4. ASSUME c > 0 PROVE q > 0
  <2>1. c * n > 0
    BY <1>1, <1>4
  <2> QED
    BY <1>1, <1>3, <2>1
<1> QED
  BY <1>3, <1>4 DEF n, d, q

\* Collateral bought with a budget costs no more than the budget: rounding
\* down on the way there leaves room for rounding up on the way back.
LEMMA RoundTrip ==
  ASSUME NEW m \in Market, NEW b \in Nat, NEW c \in Nat,
         c <= borrow_to_collateral(m, b)
  PROVE  collateral_to_borrow(m, c) <= b
<1> DEFINE n == rate_num(m)
<1> DEFINE d == rate_den(m)
<1> DEFINE k == borrow_to_collateral(m, b)
<1>1. n \in Nat \ {0} /\ d \in Nat \ {0}
  BY Rates
<1> HIDE DEF n, d
<1>2. b * d \in Nat
  BY <1>1
<1>3. k \in Nat /\ k * n <= b * d
  BY <1>1, <1>2, FloorFacts DEF borrow_to_collateral, n, d
<1> HIDE DEF k
<1>4. c * n <= k * n
  BY <1>1, <1>3 DEF k
<1>5. c * n \in Nat /\ c * n <= b * d
  BY <1>1, <1>2, <1>3, <1>4
<1> QED
  BY <1>1, <1>5, CeilLeast DEF collateral_to_borrow, n, d

\* The 50 basis points the fixed strategy takes off the collateral keep the
\* repay, with its buffer, within the budget.
LEMMA SafeRoundTrip ==
  ASSUME NEW m \in Market, NEW b \in Nat, NEW c \in Nat,
         c <= (borrow_to_collateral(m, b) * (BPS - SAFETY_BUFFER_BPS)) \div BPS
  PROVE  LET need == collateral_to_borrow(m, c) IN need + buffer(need) <= b
<1> DEFINE n == rate_num(m)
<1> DEFINE d == rate_den(m)
<1> DEFINE k == borrow_to_collateral(m, b)
<1> DEFINE need == collateral_to_borrow(m, c)
<1> DEFINE spare == buffer(need)
<1>1. n \in Nat \ {0} /\ d \in Nat \ {0}
  BY Rates
<1>2. need \in Nat /\ need * d < c * n + d
  BY RepayFacts
<1>3. spare \in Nat /\ spare * 10000 <= need * 50
  BY <1>2, BufferFacts
<1> HIDE DEF n, d, need, spare
<1>4. b * d \in Nat
  BY <1>1
<1>5. k \in Nat /\ k * n <= b * d
  BY <1>1, <1>4, FloorFacts DEF borrow_to_collateral, n, d
<1>6. c <= (k * 9950) \div 10000
  BY DEF BPS, SAFETY_BUFFER_BPS
<1> HIDE DEF k
<1>7. c * 10000 <= k * 9950
  BY <1>5, <1>6
<1>8. (c * n) * 10000 <= (b * d) * 9950
  <2>1. (c * 10000) * n <= (k * 9950) * n
    BY <1>1, <1>5, <1>7
  <2>2. (c * 10000) * n = (c * n) * 10000 /\ (k * 9950) * n = (k * n) * 9950
    BY <1>1, <1>5
  <2> QED
    BY <1>1, <1>4, <1>5, <2>1, <2>2
<1>9. need * 10000 < b * 9950 + 10000
  <2>1. c * n \in Nat /\ need * d \in Nat
    BY <1>1, <1>2
  <2>2. (need * d) * 10000 < (b * d) * 9950 + 10000 * d
    BY <1>1, <1>2, <1>4, <1>8, <2>1
  <2>3. (need * 10000) * d < (b * 9950 + 10000) * d
    BY <1>1, <1>2, <2>2
  <2>4. need * 10000 \in Nat /\ b * 9950 + 10000 \in Nat
    BY <1>2
  <2> QED
    BY <1>1, <2>3, <2>4
<1>10. need + spare <= b
  BY <1>2, <1>3, <1>9
<1> QED
  BY <1>10 DEF need, spare

(***************************************************************************)
(* What the strategies size.                                               *)
(***************************************************************************)
\* A repay with its buffer, when the buffer's product fits, does not saturate.
LEMMA NoSaturation ==
  ASSUME NEW need \in Nat \ {0}, NEW extra \in Nat, fits(need * SAFETY_BUFFER_BPS),
         extra <= 1 \/ extra <= buffer(need)
  PROVE  saturating(need + extra) = need + extra
<1>1. buffer(need) \in Nat /\ buffer(need) * 10000 <= need * 50
  BY BufferFacts
<1>2. need + extra <= need * 50
  BY <1>1
<1> QED
  BY <1>2, WidthAssumption DEF fits, saturating, SAFETY_BUFFER_BPS

\* A slice cut from the balance never needs more than the balance.
LEMMA SliceFunded ==
  ASSUME NEW s \in StrategyKind, s.kind = "Percentage", NEW m \in Market,
         NEW balance \in Nat, NEW c \in Nat,
         c <= borrow_to_collateral(m,
                (((balance * (BPS - SAFETY_BUFFER_BPS)) \div BPS) * s.percentage) \div 100)
  PROVE  LET need == collateral_to_borrow(m, c) IN need + buffer(need) <= balance
<1> DEFINE after == (balance * (BPS - SAFETY_BUFFER_BPS)) \div BPS
<1> DEFINE target == (after * s.percentage) \div 100
<1> DEFINE need == collateral_to_borrow(m, c)
<1> DEFINE spare == buffer(need)
<1>1. after \in Nat /\ after * 10000 <= balance * 9950
  BY DEF BPS, SAFETY_BUFFER_BPS
<1>2. s.percentage \in 1..100
  BY DEF StrategyKind
<1> HIDE DEF after
<1>3. after * s.percentage \in Nat /\ after * s.percentage <= after * 100
  BY <1>1, <1>2
<1>4. target \in Nat /\ target <= after
  BY <1>1, <1>3
<1>5. c <= borrow_to_collateral(m, target)
  BY DEF after
<1> HIDE DEF target
<1>6. need <= target
  BY <1>4, <1>5, RoundTrip
<1>7. need \in Nat
  BY RepayFacts
<1>8. spare \in Nat /\ spare * 10000 <= need * 50
  BY <1>7, BufferFacts
<1> HIDE DEF need, spare
<1>9. need + spare <= balance
  BY <1>1, <1>4, <1>6, <1>7, <1>8
<1> QED
  BY <1>9 DEF need, spare
\* What a strategy may answer.
Answered(a, m, dep, balance) ==
  \/ a = Abort
  \/ \E r \in Reasons, site \in Sites \ {"invalid"} :
       a = Decline(r, site) /\ (site = "balance" => ~m.partial)
  \/ \E repay \in Nat, collateral \in Nat :
       a = Sized(repay, collateral) /\ WellSized(a, m, dep, balance)

LEMMA AnsweredDecline ==
  ASSUME NEW m, NEW dep, NEW balance,
         NEW r \in Reasons, NEW site \in Sites \ {"invalid"},
         site = "balance" => ~m.partial
  PROVE  Answered(Decline(r, site), m, dep, balance)
BY DEF Answered

\* PercentageLiquidationStrategy.
LEMMA PercentageAnswers ==
  ASSUME NEW s \in StrategyKind, s.kind = "Percentage", NEW m \in Market,
         NEW dep \in Nat, NEW balance \in Nat
  PROVE  Answered(percentage_amount(s, m, dep, balance), m, dep, balance)
<1> DEFINE after == (balance * (BPS - SAFETY_BUFFER_BPS)) \div BPS
<1> DEFINE target == (after * s.percentage) \div 100
<1> DEFINE coll == borrow_to_collateral(m, target)
<1> DEFINE c == IF m.partial THEN min_with_cap_buffer(coll, dep) ELSE dep
<1> DEFINE need == collateral_to_borrow(m, c)
<1> DEFINE final == saturating(need + buffer(need))
<1> DEFINE cap == apply_liquidatable_cap_buffer(dep)
<1> DEFINE amount == percentage_amount(s, m, dep, balance)
<1> DEFINE low == below_minimum_decline_reason(m, ~m.partial, coll, dep)
<1>1. amount =
        IF ~fits(balance * (BPS - SAFETY_BUFFER_BPS)) THEN Abort
        ELSE IF target = 0 THEN Decline("InsufficientInventory", "target")
        ELSE IF ~fits(coll) THEN Decline("NotViable", "collateral")
        ELSE IF m.partial /\ ~fits(dep * (BPS - LIQUIDATABLE_CAP_BUFFER_BPS))
             THEN Abort
        ELSE IF c = 0 THEN Decline("NotViable", "dust")
        ELSE IF ~fits(need) THEN Decline("NotViable", "repay")
        ELSE IF ~fits(need * SAFETY_BUFFER_BPS) THEN Abort
        ELSE IF final > balance THEN Decline("InsufficientInventory", "balance")
        ELSE IF final < m.minimum
             THEN IF below_minimum_overflows(m, dep) THEN Abort
                  ELSE Decline(low, "minimum")
        ELSE Sized(final, c)
  BY Zenon DEF percentage_amount
<1>2. coll \in Nat
  <2>1. s.percentage \in 1..100
    BY DEF StrategyKind
  <2>2. after \in Nat
    BY DEF BPS, SAFETY_BUFFER_BPS
  <2> HIDE DEF after
  <2>3. after * s.percentage \in Nat
    BY <2>1, <2>2
  <2>4. target \in Nat
    BY <2>3
  <2> HIDE DEF target
  <2>5. target * rate_den(m) \in Nat
    BY <2>4, Rates
  <2> QED
    BY <2>5, Rates, FloorFacts DEF borrow_to_collateral
<1>3. cap \in Nat /\ cap <= dep
  BY CapFacts
<1>4. low \in Reasons
  BY DEF below_minimum_decline_reason, Reasons
<1>5. m.partial => LET n == collateral_to_borrow(m, c) IN n + buffer(n) <= balance
  <2> SUFFICES ASSUME m.partial
               PROVE  LET n == collateral_to_borrow(m, c) IN n + buffer(n) <= balance
    OBVIOUS
  <2> HIDE DEF coll
  <2>1. c \in Nat /\ c <= coll
    BY <1>2, <1>3 DEF min_with_cap_buffer, least
  <2> HIDE DEF c
  <2> QED
    BY <2>1, SliceFunded DEF coll
<1> HIDE DEF coll, target
<1>6. c \in Nat /\ c <= dep /\ (m.partial => c <= cap)
  BY <1>2, <1>3 DEF min_with_cap_buffer, least
<1> HIDE DEF c, low
<1>7. need \in Nat /\ buffer(need) \in Nat /\ (c # 0 => need # 0)
  BY <1>6, RepayFacts, BufferFacts
<1>8. c # 0 /\ fits(need * SAFETY_BUFFER_BPS) => final = need + buffer(need)
  <2> HIDE DEF need
  <2> QED
    BY <1>7, NoSaturation
<1>9. ASSUME c # 0, fits(need * SAFETY_BUFFER_BPS), final <= balance
      PROVE  Answered(Sized(final, c), m, dep, balance)
  <2>1. final \in Nat /\ final = need + buffer(need)
    BY <1>7, <1>8, <1>9
  <2> HIDE DEF final, cap
  <2>2. WellSized(Sized(final, c), m, dep, balance)
    BY <1>3, <1>6, <1>9, <2>1 DEF WellSized, Sized, cap
  <2> QED
    BY <1>6, <2>1, <2>2 DEF Answered
<1>10. ASSUME c # 0, fits(need * SAFETY_BUFFER_BPS), final > balance
       PROVE  ~m.partial
  <2>1. m.partial => need + buffer(need) <= balance
    BY <1>5
  <2>2. final = need + buffer(need)
    BY <1>8, <1>10
  <2> HIDE DEF need, final
  <2> QED
    BY <1>7, <1>10, <2>1, <2>2
<1>11. c # 0 /\ fits(need * SAFETY_BUFFER_BPS) => final \in Nat
  BY <1>7, <1>8
<1> DEFINE Good(a) == Answered(a, m, dep, balance)
<1>12. /\ Good(Abort)
       /\ Good(Decline("InsufficientInventory", "target"))
       /\ Good(Decline("NotViable", "collateral"))
       /\ Good(Decline("NotViable", "dust"))
       /\ Good(Decline("NotViable", "repay"))
       /\ ~m.partial => Good(Decline("InsufficientInventory", "balance"))
       /\ Good(Decline(low, "minimum"))
  <2>1. Good(Abort)
    BY DEF Answered
  <2> QED
    BY <1>4, <2>1, AnsweredDecline DEF Reasons, Sites
<1> HIDE DEF amount, need, final, Good
<1>13. c # 0 /\ fits(need * SAFETY_BUFFER_BPS) /\ ~(final > balance)
         => Good(Sized(final, c))
  BY <1>9, <1>11 DEF Good
<1>14. Good(amount)
  BY <1>1, <1>10, <1>12, <1>13
<1> QED
  BY <1>14 DEF Good, amount
\* FixedAmountLiquidationStrategy.
LEMMA FixedAnswers ==
  ASSUME NEW s \in StrategyKind, s.kind = "Fixed", NEW m \in Market,
         NEW dep \in Nat, NEW balance \in Nat
  PROVE  Answered(fixed_amount(s, m, dep, balance), m, dep, balance)
<1> DEFINE most == borrow_to_collateral(m, s.amount)
<1> DEFINE safe == (most * (BPS - SAFETY_BUFFER_BPS)) \div BPS
<1> DEFINE c == IF m.partial THEN min_with_cap_buffer(safe, dep) ELSE dep
<1> DEFINE need == collateral_to_borrow(m, c)
<1> DEFINE extra == IF buffer(need) >= 1 THEN buffer(need) ELSE 1
<1> DEFINE with == saturating(need + extra)
<1> DEFINE final == least(with, s.amount)
<1> DEFINE cap == apply_liquidatable_cap_buffer(dep)
<1> DEFINE amount == fixed_amount(s, m, dep, balance)
<1>1. amount =
        IF s.amount > balance THEN Decline("InsufficientInventory", "budget")
        ELSE IF ~fits(most) THEN Decline("NotViable", "collateral")
        ELSE IF m.partial
                /\ \/ ~fits(most * (BPS - SAFETY_BUFFER_BPS))
                   \/ ~fits(dep * (BPS - LIQUIDATABLE_CAP_BUFFER_BPS))
             THEN Abort
        ELSE IF c = 0 THEN Decline("NotViable", "dust")
        ELSE IF ~fits(need) THEN Decline("NotViable", "repay")
        ELSE IF ~fits(need * SAFETY_BUFFER_BPS) THEN Abort
        ELSE IF ~m.partial /\ with > s.amount THEN Decline("NotViable", "full")
        ELSE IF final < m.minimum THEN Decline("NotViable", "minimum")
        ELSE IF ~m.partial /\ final > balance
             THEN Decline("InsufficientInventory", "balance")
        ELSE Sized(final, c)
  BY Zenon DEF fixed_amount
<1>2. s.amount \in Nat
  BY DEF StrategyKind
<1>3. safe \in Nat
  <2>1. s.amount * rate_den(m) \in Nat
    BY <1>2, Rates
  <2>2. most \in Nat
    BY <2>1, Rates, FloorFacts DEF borrow_to_collateral
  <2> HIDE DEF most
  <2> QED
    BY <2>2 DEF BPS, SAFETY_BUFFER_BPS
<1>4. cap \in Nat /\ cap <= dep
  BY CapFacts
<1>5. m.partial => LET n == collateral_to_borrow(m, c) IN n + buffer(n) <= s.amount
  <2> SUFFICES ASSUME m.partial
               PROVE  LET n == collateral_to_borrow(m, c) IN n + buffer(n) <= s.amount
    OBVIOUS
  <2> HIDE DEF safe
  <2>1. c \in Nat /\ c <= safe
    BY <1>3, <1>4 DEF min_with_cap_buffer, least
  <2> HIDE DEF c
  <2> QED
    BY <1>2, <2>1, SafeRoundTrip DEF safe
<1> HIDE DEF most, safe
<1>6. c \in Nat /\ c <= dep /\ (m.partial => c <= cap)
  BY <1>3, <1>4 DEF min_with_cap_buffer, least
<1> HIDE DEF c
<1>7. need \in Nat /\ buffer(need) \in Nat /\ (c # 0 => need # 0)
  BY <1>6, RepayFacts, BufferFacts
<1>8. c # 0 /\ fits(need * SAFETY_BUFFER_BPS) => with = need + extra
  <2> HIDE DEF need
  <2>1. extra \in Nat /\ (extra <= 1 \/ extra <= buffer(need))
    BY <1>7
  <2> HIDE DEF extra
  <2> QED
    BY <1>7, <2>1, NoSaturation
<1>9. ASSUME s.amount <= balance, c # 0, fits(need * SAFETY_BUFFER_BPS),
             m.partial \/ ~(with > s.amount)
      PROVE  Answered(Sized(final, c), m, dep, balance)
  <2>1. with = need + extra /\ with \in Nat /\ need + buffer(need) <= with
    BY <1>7, <1>8, <1>9
  <2>2. m.partial => need + buffer(need) <= s.amount
    BY <1>5
  <2>3. final \in Nat /\ final <= s.amount /\ need + buffer(need) <= final
    <3> HIDE DEF with, need
    <3> QED
      BY <1>2, <1>7, <1>9, <2>1, <2>2 DEF least
  <2> HIDE DEF final, cap
  <2>4. WellSized(Sized(final, c), m, dep, balance)
    BY <1>2, <1>4, <1>6, <1>9, <2>3 DEF WellSized, Sized, cap
  <2> QED
    BY <1>6, <2>3, <2>4 DEF Answered
<1> DEFINE Good(a) == Answered(a, m, dep, balance)
<1>10. /\ Good(Abort)
       /\ Good(Decline("InsufficientInventory", "budget"))
       /\ Good(Decline("NotViable", "collateral"))
       /\ Good(Decline("NotViable", "dust"))
       /\ Good(Decline("NotViable", "repay"))
       /\ Good(Decline("NotViable", "full"))
       /\ Good(Decline("NotViable", "minimum"))
       /\ ~m.partial => Good(Decline("InsufficientInventory", "balance"))
  <2>1. Good(Abort)
    BY DEF Answered
  <2> QED
    BY <2>1, AnsweredDecline DEF Reasons, Sites
<1>11. s.amount > balance \/ s.amount <= balance
  BY <1>2
<1> HIDE DEF amount, need, with, final, Good
<1>12. /\ ~(s.amount > balance) /\ c # 0 /\ fits(need * SAFETY_BUFFER_BPS)
       /\ m.partial \/ ~(with > s.amount)
       => Good(Sized(final, c))
  BY <1>9, <1>11 DEF Good
<1>13. Good(amount)
  BY <1>1, <1>10, <1>12
<1> QED
  BY <1>13 DEF Good, amount

\* The caller: its validation lets both strategies through.
LEMMA SizePositionAnswers ==
  ASSUME NEW s \in StrategyKind, NEW m \in Market, NEW dep \in Nat, NEW balance \in Nat
  PROVE  Answered(size_position(s, m, dep, balance), m, dep, balance)
<1> DEFINE a == calculate_liquidation_amount(s, m, dep, balance)
<1>1. Answered(a, m, dep, balance)
  <2>1. CASE s.kind = "Percentage"
    BY <2>1, PercentageAnswers DEF calculate_liquidation_amount
  <2>2. CASE s.kind # "Percentage"
    <3>1. s.kind = "Fixed"
      BY <2>2 DEF StrategyKind
    <3> QED
      BY <2>2, <3>1, FixedAnswers DEF calculate_liquidation_amount
  <2> QED
    BY <2>1, <2>2
<1>2. size_position(s, m, dep, balance) =
        IF balance < m.minimum THEN Decline("InsufficientInventory", "below_minimum")
        ELSE IF a.kind = "Sized" /\ ~validate_sizing(a, balance)
             THEN Decline("NotViable", "invalid")
        ELSE a
  BY Zenon DEF size_position
<1>3. Answered(Decline("InsufficientInventory", "below_minimum"), m, dep, balance)
  BY AnsweredDecline DEF Reasons, Sites
<1>4. declared_cap(balance) = balance
  BY DEF declared_cap, max_liquidation_percentage
<1> HIDE DEF a
<1>5. ASSUME a.kind = "Sized" PROVE validate_sizing(a, balance)
  <2>1. WellSized(a, m, dep, balance)
    BY <1>1, <1>5 DEF Answered, Abort, Decline
  <2> DEFINE need == collateral_to_borrow(m, a.collateral)
  <2>2. /\ a.repay \in Nat /\ a.collateral \in Nat \ {0} /\ a.repay <= balance
        /\ need + buffer(need) <= a.repay
    BY <2>1 DEF WellSized
  <2>3. need \in Nat /\ need > 0
    BY <2>2, RepayFacts
  <2>4. buffer(need) \in Nat
    BY <2>3, BufferFacts
  <2> HIDE DEF need
  <2>5. a.repay # 0
    BY <2>2, <2>3, <2>4
  <2> QED
    BY <1>4, <2>2, <2>5 DEF validate_sizing
<1> QED
  BY <1>1, <1>2, <1>3, <1>5
(***************************************************************************)
(* Execution at moved prices.                                              *)
(***************************************************************************)
LEMMA CapTolerates ==
  ASSUME NEW dep \in Nat, NEW drop \in Nat, drop <= LIQUIDATABLE_CAP_BUFFER_BPS
  PROVE  apply_liquidatable_cap_buffer(dep) <= (dep * (BPS - drop)) \div BPS
<1>1. dep * 9700 \in Nat /\ dep * (10000 - drop) \in Nat
      /\ dep * 9700 <= dep * (10000 - drop)
  <2>1. 10000 - drop \in Nat /\ 9700 <= 10000 - drop
    BY DEF LIQUIDATABLE_CAP_BUFFER_BPS
  <2> QED
    BY <2>1
<1> QED
  BY <1>1, FloorMonotone DEF apply_liquidatable_cap_buffer, BPS,
     LIQUIDATABLE_CAP_BUFFER_BPS

\* An offer r covers the request at a price `rise' basis points higher as soon
\* as it covers the request's cost at the scan scaled by the rise.
LEMMA OfferCovers ==
  ASSUME NEW m \in Market, NEW c \in Nat, NEW rise \in Nat, NEW r \in Nat,
         collateral_to_borrow(m, c) * (BPS + rise) <= r * BPS
  PROVE  div_ceil(c * rate_num(m) * (BPS + rise), rate_den(m) * BPS) <= r
<1> DEFINE n == rate_num(m)
<1> DEFINE d == rate_den(m)
<1> DEFINE need == collateral_to_borrow(m, c)
<1> DEFINE f == BPS + rise
<1>1. n \in Nat \ {0} /\ d \in Nat \ {0}
  BY Rates
<1>2. need \in Nat /\ c * n <= need * d
  BY RepayFacts
<1>3. f \in Nat /\ BPS \in Nat \ {0} /\ need * f <= r * BPS
  BY DEF BPS
<1> HIDE DEF n, d, need, f
<1>4. c * n \in Nat /\ need * d \in Nat /\ need * f \in Nat /\ r * BPS \in Nat
  BY <1>1, <1>2, <1>3
<1>5. (c * n) * f <= (need * d) * f
  BY <1>2, <1>3, <1>4
<1>6. (need * f) * d <= (r * BPS) * d
  BY <1>1, <1>3, <1>4
<1>7. (need * d) * f = (need * f) * d /\ (r * BPS) * d = r * (d * BPS)
  BY <1>1, <1>2, <1>3
<1>8. /\ (c * n) * f \in Nat /\ d * BPS \in Nat \ {0}
      /\ (need * d) * f \in Nat /\ r * (d * BPS) \in Nat
  <2>1. ASSUME NEW x \in Nat \ {0}, NEW y \in Nat \ {0} PROVE x * y \in Nat \ {0}
    OBVIOUS
  <2> QED
    BY <1>1, <1>3, <1>4, <2>1
<1>9. (c * n) * f <= r * (d * BPS)
  BY <1>5, <1>6, <1>7, <1>8
<1>10. div_ceil((c * n) * f, d * BPS) <= r
  BY <1>8, <1>9, CeilLeast
<1> QED
  BY <1>10 DEF n, d, f

(***************************************************************************)
(* The inductive invariant.                                                *)
(***************************************************************************)
StrategyInv == TypeOK /\ StagesConsistent /\ SizingIsValid

LEMMA ConstantTypes ==
  /\ Strategies \subseteq StrategyKind /\ Markets \subseteq Market
  /\ Balances \subseteq Nat /\ Deposits \subseteq Nat /\ GasCosts \subseteq Nat
  /\ CapDrops \subseteq 0..BPS /\ PriceRises \subseteq Nat /\ MarginBps \in Nat
<1>1. Strategies \subseteq StrategyKind
  BY InputsAssumption
<1>2. Markets \subseteq Market
  BY InputsAssumption
<1>3. Balances \subseteq Nat
  BY InputsAssumption, WidthAssumption
<1>4. Deposits \subseteq Nat
  BY InputsAssumption, WidthAssumption
<1>5. GasCosts \subseteq Nat
  BY InputsAssumption, WidthAssumption
<1>6. CapDrops \subseteq 0..BPS
  BY InputsAssumption
<1>7. PriceRises \subseteq Nat
  BY InputsAssumption
<1>8. MarginBps \in Nat
  BY InputsAssumption
<1> QED
  BY Zenon, <1>1, <1>2, <1>3, <1>4, <1>5, <1>6, <1>7, <1>8

LEMMA InputTypes ==
  ASSUME TypeOK
  PROVE  /\ strategy \in StrategyKind /\ market \in Market
         /\ available \in Nat /\ deposit \in Nat /\ gas \in Nat
<1>1. /\ strategy \in Strategies /\ market \in Markets
      /\ available \in Nat /\ deposit \in Deposits /\ gas \in GasCosts
  BY DEF TypeOK
<1> QED
  BY <1>1, ConstantTypes

\* What the contract asks of a well-sized attempt.
LEMMA SizedDrift ==
  ASSUME TypeOK, StagesConsistent, stage = "submit",
         NEW drop \in CapDrops, NEW rise \in PriceRises
  PROVE  /\ market.partial /\ drop <= LIQUIDATABLE_CAP_BUFFER_BPS
              => decision.collateral <= eligible_now(drop)
         /\ rise <= SAFETY_BUFFER_BPS => required_now(rise) <= decision.repay + 1
         /\ required_now(0) <= decision.repay
<1> DEFINE c == decision.collateral
<1> DEFINE r == decision.repay
<1> DEFINE need == collateral_to_borrow(market, c)
<1> DEFINE spare == buffer(need)
<1>1. /\ market \in Market /\ deposit \in Nat /\ drop \in 0..BPS /\ rise \in Nat
  BY InputTypes, ConstantTypes
<1>2. /\ r \in Nat /\ c \in Nat /\ need + spare <= r
      /\ market.partial => c <= apply_liquidatable_cap_buffer(deposit)
  BY DEF StagesConsistent, WellSized
<1>3. need \in Nat
  BY <1>1, <1>2, RepayFacts
<1>4. spare \in Nat /\ need * 50 < spare * 10000 + 10000
  BY <1>3, BufferFacts
<1>5. ASSUME market.partial, drop <= LIQUIDATABLE_CAP_BUFFER_BPS
      PROVE  c <= eligible_now(drop)
  <2>1. drop \in Nat
    BY <1>1 DEF BPS
  <2>2. apply_liquidatable_cap_buffer(deposit) <= (deposit * (BPS - drop)) \div BPS
    BY <1>1, <1>5, <2>1, CapTolerates
  <2>3. apply_liquidatable_cap_buffer(deposit) \in Nat
    BY <1>1, CapFacts
  <2>4. (deposit * (BPS - drop)) \div BPS \in Nat
    <3>1. deposit * (BPS - drop) \in Nat /\ BPS \in Nat \ {0}
      BY <1>1 DEF BPS
    <3> QED
      BY <3>1, FloorFacts
  <2> QED
    BY <1>2, <1>5, <2>2, <2>3, <2>4 DEF eligible_now
<1>6. ASSUME rise <= SAFETY_BUFFER_BPS PROVE required_now(rise) <= r + 1
  <2>1. need * (BPS + rise) <= (r + 1) * BPS
    <3> HIDE DEF r, need, spare
    <3>1. need * rise <= need * 50
      BY <1>1, <1>3, <1>6 DEF SAFETY_BUFFER_BPS
    <3>2. need * (10000 + rise) = need * 10000 + need * rise
      BY <1>1, <1>3
    <3>3. need * rise \in Nat
      BY <1>1, <1>3
    <3> QED
      BY <1>2, <1>3, <1>4, <3>1, <3>2, <3>3 DEF BPS
  <2>2. r + 1 \in Nat
    BY <1>2
  <2> QED
    BY <1>1, <1>2, <2>1, <2>2, OfferCovers DEF required_now
<1>7. required_now(0) <= r
  <2>1. need * (BPS + 0) <= r * BPS
    <3> HIDE DEF r, need, spare
    <3> QED
      BY <1>2, <1>3, <1>4 DEF BPS
  <2> QED
    BY <1>1, <1>2, <2>1, OfferCovers DEF required_now
<1> QED
  BY <1>5, <1>6, <1>7

LEMMA DecisionTypes ==
  ASSUME NEW a, NEW m, NEW dep, NEW balance, Answered(a, m, dep, balance)
  PROVE  /\ a \in Decision
         /\ a.kind = "Decline" =>
              a.site # "invalid" /\ (a.site = "balance" => ~m.partial)
         /\ a.kind = "Sized" => WellSized(a, m, dep, balance)
         /\ SkipOutcome(a) \in Results
<1>1. CASE a = Abort
  BY <1>1 DEF Abort, Decision, SkipOutcome, Results
<1>2. ASSUME NEW r \in Reasons, NEW site \in Sites \ {"invalid"},
             a = Decline(r, site), site = "balance" => ~m.partial
      PROVE  /\ a \in Decision
             /\ a.site # "invalid" /\ (a.site = "balance" => ~m.partial)
             /\ a.kind = "Decline"
             /\ SkipOutcome(a) \in Results
  BY <1>2 DEF Decline, Decision, SkipOutcome, Results
<1>3. ASSUME NEW repay \in Nat, NEW collateral \in Nat,
             a = Sized(repay, collateral), WellSized(a, m, dep, balance)
      PROVE  a \in Decision /\ a.kind = "Sized" /\ SkipOutcome(a) \in Results
  BY <1>3 DEF Sized, Decision, SkipOutcome, Results
<1> QED
  BY <1>1, <1>2, <1>3 DEF Answered, Abort

LEMMA StrategyInit == Init => StrategyInv
<1> SUFFICES ASSUME Init PROVE StrategyInv
  OBVIOUS
<1>1. available \in Nat
  BY Zenon, ConstantTypes DEF Init
<1>2. decision \in Decision /\ decision.kind = "Undecided" /\ result \in Results
  BY DEF Init, Decision, Undecided, Results
<1>3. TypeOK
  BY <1>1, <1>2 DEF Init, TypeOK
<1> QED
  BY <1>2, <1>3 DEF Init, StrategyInv, StagesConsistent, SizingIsValid

LEMMA StrategyStep == StrategyInv /\ [Next]_vars => StrategyInv'
<1> SUFFICES ASSUME StrategyInv, [Next]_vars PROVE StrategyInv'
  OBVIOUS
<1> USE DEF StrategyInv
<1>1. ASSUME SizePosition PROVE StrategyInv'
  <2> DEFINE a == size_position(strategy, market, deposit, available)
  <2>1. Answered(a, market, deposit, available)
    BY InputTypes, SizePositionAnswers
  <2>2. decision' = a /\ UNCHANGED <<strategy, market, available, deposit, gas>>
    BY <1>1 DEF SizePosition
  <2> HIDE DEF a
  <2>3. /\ a \in Decision
        /\ a.kind = "Decline" =>
             a.site # "invalid" /\ (a.site = "balance" => ~market.partial)
        /\ a.kind = "Sized" => WellSized(a, market, deposit, available)
        /\ SkipOutcome(a) \in Results
    BY <2>1, DecisionTypes
  <2>4. \/ a.kind = "Sized" /\ stage' = "assess" /\ result' = result
        \/ stage' = "end" /\ result' = SkipOutcome(a)
    BY <1>1, <2>2 DEF SizePosition, End
  <2>5. TypeOK'
    BY <2>2, <2>3, <2>4 DEF TypeOK
  <2>6. StagesConsistent'
    BY <2>2, <2>3, <2>4 DEF StagesConsistent, WellSized
  <2>7. SizingIsValid'
    BY <2>2, <2>3 DEF SizingIsValid
  <2> QED
    BY <2>5, <2>6, <2>7
<1>2. ASSUME AssessProfitability PROVE StrategyInv'
  <2> DEFINE gate == should_liquidate(theoretical_amount_for_profit(decision.repay),
                       convert_collateral_to_borrow_asset(market, decision.collateral),
                       gas)
  <2>1. /\ UNCHANGED <<strategy, market, available, deposit, gas, decision>>
        /\ \/ stage' = "end" /\ result' \in Results
           \/ stage' = "submit" /\ result' = result /\ gate
        /\ stage = "assess"
    BY <1>2 DEF AssessProfitability, End, Results
  <2>2. TypeOK'
    BY <2>1 DEF TypeOK
  <2>3. gate' <=> gate
    BY <2>1 DEF should_liquidate, theoretical_amount_for_profit,
       convert_collateral_to_borrow_asset
  <2>4. WellSized(decision, market, deposit, available)'
        <=> WellSized(decision, market, deposit, available)
    BY <2>1 DEF WellSized
  <2> HIDE DEF gate
  <2>5. StagesConsistent'
    BY <2>1, <2>3, <2>4 DEF StagesConsistent, gate
  <2>6. SizingIsValid'
    BY <2>1 DEF SizingIsValid
  <2> QED
    BY <2>2, <2>5, <2>6
<1>3. ASSUME NEW drop \in CapDrops, NEW rise \in PriceRises, Submit(drop, rise)
      PROVE  StrategyInv'
  <2>1. /\ stage' = "end" /\ result' = Verdict(drop, rise)
        /\ UNCHANGED <<strategy, market, gas, decision>>
        /\ \/ UNCHANGED <<available, deposit>>
           \/ /\ available' = available - required_now(rise)
              /\ deposit' \in Deposits
              /\ Verdict(drop, rise) = "Liquidated"
        /\ stage = "submit"
    BY <1>3 DEF Submit, End
  <2>2. Verdict(drop, rise) \in Results
    BY DEF Verdict, Results
  <2>3. available' \in Nat
    <3>1. CASE UNCHANGED <<available, deposit>>
      BY <3>1 DEF TypeOK
    <3>2. CASE available' = available - required_now(rise)
               /\ Verdict(drop, rise) = "Liquidated"
      <4>1. ~(decision.repay < required_now(rise))
        BY <3>2 DEF Verdict
      <4>2. decision.repay \in Nat /\ decision.repay <= available /\ available \in Nat
            /\ decision.collateral \in Nat
        BY <2>1 DEF StagesConsistent, WellSized, TypeOK
      <4>3. required_now(rise) \in Nat
        <5>1. market \in Market /\ rise \in Nat
          BY InputTypes, ConstantTypes
        <5> DEFINE n == rate_num(market)
        <5> DEFINE d == rate_den(market)
        <5>2. n \in Nat /\ d \in Nat \ {0}
          BY <5>1, Rates
        <5> HIDE DEF n, d
        <5>3. decision.collateral * n * (BPS + rise) \in Nat /\ d * BPS \in Nat \ {0}
          <6>1. decision.collateral * n \in Nat /\ 10000 + rise \in Nat
            BY <4>2, <5>1, <5>2
          <6> QED
            BY <5>2, <6>1 DEF BPS
        <5> QED
          BY <5>3, CeilFacts DEF required_now, n, d
      <4> QED
        BY <3>2, <4>1, <4>2, <4>3
    <3> QED
      BY <2>1, <3>1, <3>2
  <2>4. TypeOK'
    BY <2>1, <2>2, <2>3 DEF TypeOK
  <2> QED
    BY <2>1, <2>4 DEF StagesConsistent, SizingIsValid
<1>4. ASSUME NextAttempt PROVE StrategyInv'
  <2>1. /\ stage' = "size" /\ result' = "none" /\ decision' = Undecided
        /\ UNCHANGED <<strategy, market>>
        /\ available' \in Balances \/ available' = available
        /\ deposit' \in Deposits \/ deposit' = deposit
        /\ gas' \in GasCosts \/ gas' = gas
    BY <1>4 DEF NextAttempt
  <2>2. available' \in Nat
    BY Zenon, <2>1, InputTypes, ConstantTypes
  <2>3. decision' \in Decision /\ decision'.kind = "Undecided" /\ result' \in Results
    BY <2>1 DEF Decision, Undecided, Results
  <2>4. TypeOK'
    BY <2>1, <2>2, <2>3 DEF TypeOK
  <2> QED
    BY <2>1, <2>3, <2>4 DEF StagesConsistent, SizingIsValid
<1>5. ASSUME UNCHANGED vars PROVE StrategyInv'
  BY <1>5 DEF vars, TypeOK, StagesConsistent, SizingIsValid, WellSized,
     should_liquidate, theoretical_amount_for_profit,
     convert_collateral_to_borrow_asset
<1>6. ASSUME PricePairFails PROVE StrategyInv'
  BY <1>6 DEF PricePairFails, End, TypeOK, Results, StagesConsistent, SizingIsValid
<1> QED
  BY <1>1, <1>2, <1>3, <1>4, <1>5, <1>6 DEF Next, Aborted

\* The inductive invariant holds in every attempt.
THEOREM StrategyInvHolds == Spec => []StrategyInv
<1> QED
  BY StrategyInit, StrategyStep, PTL DEF Spec
\* Every variable keeps its type; in particular what the contract keeps never
\* exceeds the balance the attempt was sized from.
THEOREM StrategyTypeCorrect == Spec => []TypeOK
<1>1. StrategyInv => TypeOK
  BY DEF StrategyInv
<1> QED
  BY <1>1, StrategyInvHolds, PTL

\* validate_sizing never rejects a built-in strategy, and a slice of a market
\* with partial liquidation is always funded.
THEOREM SizingSound == Spec => []SizingIsValid
<1>1. StrategyInv => SizingIsValid
  BY DEF StrategyInv
<1> QED
  BY <1>1, StrategyInvHolds, PTL

\* The 300 and 50 basis point buffers absorb the drift they are meant for, at
\* every price, spread, balance and position size.
THEOREM BuffersSound == Spec => []DriftTolerated
<1>1. StrategyInv => DriftTolerated
  BY SizedDrift DEF StrategyInv, DriftTolerated
<1> QED
  BY <1>1, StrategyInvHolds, PTL

\* What passes should_liquidate earns the margin on what the contract keeps, to
\* within one raw unit.
THEOREM MarginSound == Spec => []MarginKept
<1>1. StrategyInv => MarginKept
  <2> SUFFICES ASSUME StrategyInv, stage = "submit", fits(decision.repay * BPS)
               PROVE  (collateral_to_borrow(market, decision.collateral) - 1 + gas)
                        * (BPS + MarginBps)
                      <= convert_collateral_to_borrow_asset(market, decision.collateral)
                           * BPS
    BY DEF MarginKept
  <2> DEFINE c == decision.collateral
  <2> DEFINE r == decision.repay
  <2> DEFINE need == collateral_to_borrow(market, c)
  <2> DEFINE spare == buffer(need)
  <2> DEFINE value == convert_collateral_to_borrow_asset(market, c)
  <2> DEFINE kept == theoretical_amount_for_profit(r)
  <2> DEFINE total == saturating(kept + gas)
  <2> DEFINE scale == BPS + MarginBps
  <2>1. market \in Market /\ gas \in Nat /\ MarginBps \in Nat
    BY InputTypes, ConstantTypes DEF StrategyInv
  <2>2. /\ r \in Nat /\ c \in Nat \ {0} /\ need + spare <= r
        /\ should_liquidate(kept, value, gas)
    BY DEF StrategyInv, StagesConsistent, WellSized
  <2>3. need \in Nat /\ need > 0
    BY <2>1, <2>2, RepayFacts
  <2>4. spare \in Nat /\ need * 50 < spare * 10000 + 10000
    BY <2>3, BufferFacts
  <2>5. value \in Nat
    <3>1. market.unit_num \in Nat /\ market.unit_den \in Nat \ {0}
      BY <2>1 DEF Market
    <3>2. c * market.unit_num \in Nat
      BY <2>2, <3>1
    <3> QED
      BY <3>1, <3>2, FloorFacts DEF convert_collateral_to_borrow_asset
  <2>6. scale \in Nat /\ scale >= 10000
    BY <2>1 DEF BPS
  <2>7. fits(total * scale) /\ value >= div_ceil(total * scale, BPS)
    BY <2>2, Zenon DEF should_liquidate
  <2>8. kept = (r * 10000) \div 10050
    BY DEF theoretical_amount_for_profit, saturating, BPS, SAFETY_BUFFER_BPS
  <2> HIDE DEF c, r, need, spare, value, kept, scale
  <2>9. kept \in Nat /\ need - 1 <= kept
    BY <2>2, <2>3, <2>4, <2>8
  <2>10. MaxU128 > 0
    <3>1. r > 0 /\ r * 10000 <= MaxU128
      BY <2>2, <2>3, <2>4 DEF fits, BPS, r
    <3> QED
      BY <2>2, <3>1, WidthAssumption
  <2>11. total = kept + gas
    <3>1. CASE fits(kept + gas)
      BY <3>1 DEF saturating
    <3>2. CASE ~fits(kept + gas)
      <4>1. total = MaxU128
        BY <3>2 DEF saturating
      <4>2. MaxU128 * 10000 <= MaxU128 * scale
        BY <2>6, WidthAssumption
      <4>3. MaxU128 * scale <= MaxU128 /\ MaxU128 * scale \in Nat
        BY <2>6, <2>7, <4>1, WidthAssumption DEF fits
      <4> QED
        BY <2>10, <4>2, <4>3, WidthAssumption
    <3> QED
      BY <3>1, <3>2
  <2> HIDE DEF total
  <2>12. total * scale \in Nat /\ total * scale <= value * BPS
    <3>1. total * scale \in Nat /\ BPS \in Nat \ {0}
      BY <2>1, <2>6, <2>9, <2>11 DEF BPS
    <3>2. /\ div_ceil(total * scale, BPS) \in Nat
          /\ total * scale <= div_ceil(total * scale, BPS) * BPS
      BY <3>1, CeilFacts
    <3>3. div_ceil(total * scale, BPS) * BPS <= value * BPS
      BY <2>5, <2>7, <3>2 DEF BPS
    <3> QED
      BY <2>5, <3>1, <3>2, <3>3 DEF BPS
  <2>13. (need - 1 + gas) * scale <= total * scale
    <3>1. need - 1 + gas \in Nat /\ total \in Nat /\ need - 1 + gas <= total
      BY <2>1, <2>3, <2>9, <2>11
    <3> QED
      BY <2>6, <3>1
  <2>14. (need - 1 + gas) * scale <= value * BPS
    <3>1. (need - 1 + gas) * scale \in Int /\ value * BPS \in Int
      BY <2>1, <2>3, <2>5, <2>6 DEF BPS
    <3> QED
      BY <2>12, <2>13, <3>1
  <2> QED
    BY <2>14 DEF need, value, scale, c
<1> QED
  BY <1>1, StrategyInvHolds, PTL

(***************************************************************************)
(* The reason given below the market's minimum.                            *)
(***************************************************************************)
\* A larger slice of collateral costs no less.
LEMMA RepayMonotone ==
  ASSUME NEW m \in Market, NEW c \in Nat, NEW e \in Nat, c <= e
  PROVE  /\ collateral_to_borrow(m, c) \in Nat /\ collateral_to_borrow(m, e) \in Nat
         /\ collateral_to_borrow(m, c) <= collateral_to_borrow(m, e)
<1> DEFINE n == rate_num(m)
           d == rate_den(m)
           q == collateral_to_borrow(m, e)
<1>1. n \in Nat \ {0} /\ d \in Nat \ {0}
  BY Rates
<1>2. q \in Nat /\ e * n <= q * d /\ collateral_to_borrow(m, c) \in Nat
  BY RepayFacts
<1> HIDE DEF n, d, q
<1>3. c * n \in Nat /\ c * n <= e * n /\ e * n \in Nat /\ q * d \in Nat
  BY <1>1, <1>2
<1>4. c * n <= q * d
  BY <1>2, <1>3
<1>5. div_ceil(c * n, d) <= q
  BY <1>1, <1>2, <1>3, <1>4, CeilLeast
<1> QED
  BY <1>2, <1>5 DEF collateral_to_borrow, n, d, q

\* A repay with its buffer, as the strategies round and saturate it.
WithBuffer(need) == saturating(need + buffer(need))

\* It grows with the repay.
LEMMA BufferMonotone ==
  ASSUME NEW x \in Nat, NEW y \in Nat, x <= y
  PROVE  WithBuffer(x) \in Nat /\ WithBuffer(y) \in Nat /\ WithBuffer(x) <= WithBuffer(y)
<1>1. x * 50 \in Nat /\ y * 50 \in Nat /\ x * 50 <= y * 50
  OBVIOUS
<1>2. buffer(x) \in Nat /\ buffer(y) \in Nat /\ buffer(x) <= buffer(y)
  BY <1>1, BufferFacts, FloorMonotone DEF buffer, BPS, SAFETY_BUFFER_BPS
<1> QED
  BY <1>2, WidthAssumption DEF WithBuffer, saturating, fits

\* The collateral a percentage of the balance buys.
Slice(s, m, balance) ==
  borrow_to_collateral(m, (((balance * (BPS - SAFETY_BUFFER_BPS)) \div BPS) * s.percentage) \div 100)

\* A larger balance buys no less.
LEMMA SliceMonotone ==
  ASSUME NEW s \in StrategyKind, s.kind = "Percentage", NEW m \in Market,
         NEW a \in Nat, NEW b \in Nat, a <= b
  PROVE  Slice(s, m, a) \in Nat /\ Slice(s, m, b) \in Nat /\ Slice(s, m, a) <= Slice(s, m, b)
<1> DEFINE p == s.percentage
           x == (a * 9950) \div 10000
           y == (b * 9950) \div 10000
           u == (x * p) \div 100
           v == (y * p) \div 100
           n == rate_num(m)
           d == rate_den(m)
<1>1. p \in Nat
  BY DEF StrategyKind
<1>2. n \in Nat \ {0} /\ d \in Nat \ {0}
  BY Rates
<1>3. x \in Nat /\ y \in Nat /\ x <= y
  <2>1. a * 9950 \in Nat /\ b * 9950 \in Nat /\ a * 9950 <= b * 9950
    OBVIOUS
  <2> QED
    BY <2>1, FloorFacts, FloorMonotone
<1> HIDE DEF x, y, n, d, p
<1>4. u \in Nat /\ v \in Nat /\ u <= v
  <2>1. x * p \in Nat /\ y * p \in Nat /\ x * p <= y * p
    BY <1>1, <1>3
  <2> QED
    BY <2>1, FloorFacts, FloorMonotone
<1> HIDE DEF u, v
<1>5. u * d \in Nat /\ v * d \in Nat /\ u * d <= v * d
  BY <1>2, <1>4
<1>6. (u * d) \div n \in Nat /\ (v * d) \div n \in Nat /\ (u * d) \div n <= (v * d) \div n
  BY <1>2, <1>5, FloorFacts, FloorMonotone
<1> QED
  BY <1>6 DEF Slice, borrow_to_collateral, BPS, SAFETY_BUFFER_BPS, x, y, u, v, n, d, p

\* Where a percentage strategy declines for the minimum, and where it sizes.
LEMMA PercentageBranches ==
  ASSUME NEW s, NEW m, NEW dep, NEW balance
  PROVE  LET c == IF m.partial THEN min_with_cap_buffer(Slice(s, m, balance), dep) ELSE dep
             answer == percentage_amount(s, m, dep, balance)
         IN  /\ answer.kind = "Sized" => ~(WithBuffer(collateral_to_borrow(m, c)) < m.minimum)
             /\ answer.kind = "Decline" /\ answer.site = "minimum" =>
                  /\ WithBuffer(collateral_to_borrow(m, c)) < m.minimum
                  /\ ~below_minimum_overflows(m, dep)
                  /\ answer.reason = below_minimum_decline_reason(m, ~m.partial, Slice(s, m, balance), dep)
BY Zenon DEF percentage_amount, Slice, WithBuffer, Abort, Decline, Sized

\* What a fixed amount repays, which no balance changes.
FixedRepay(s, m, dep) ==
  LET safe == (borrow_to_collateral(m, s.amount) * (BPS - SAFETY_BUFFER_BPS)) \div BPS
      c == IF m.partial THEN min_with_cap_buffer(safe, dep) ELSE dep
      need == collateral_to_borrow(m, c)
  IN  least(saturating(need + (IF buffer(need) >= 1 THEN buffer(need) ELSE 1)), s.amount)

\* Where a fixed-amount strategy declines for the minimum, and where it sizes.
LEMMA FixedBranches ==
  ASSUME NEW s, NEW m, NEW dep, NEW balance
  PROVE  LET answer == fixed_amount(s, m, dep, balance)
         IN  /\ answer.kind = "Sized" => ~(FixedRepay(s, m, dep) < m.minimum)
             /\ answer.kind = "Decline" /\ answer.site = "minimum" =>
                  FixedRepay(s, m, dep) < m.minimum /\ answer.reason = "NotViable"
BY Zenon DEF fixed_amount, FixedRepay, Abort, Decline, Sized

\* If a larger balance is sized where this one is declined for the minimum, the
\* reason given is the inventory.
LEMMA TopUpNamed ==
  ASSUME NEW s \in StrategyKind, NEW m \in Market, NEW dep \in Nat,
         NEW a \in Nat, NEW b \in Nat, a < b,
         size_position(s, m, dep, a).kind = "Decline",
         size_position(s, m, dep, a).site = "minimum",
         size_position(s, m, dep, b).kind = "Sized",
         s.kind = "Percentage" => fits(collateral_to_borrow(m, apply_liquidatable_cap_buffer(dep)))
  PROVE  size_position(s, m, dep, a).reason = "InsufficientInventory"
<1> DEFINE before == calculate_liquidation_amount(s, m, dep, a)
           after == calculate_liquidation_amount(s, m, dep, b)
<1>1. /\ before.kind = "Decline" /\ before.site = "minimum"
      /\ size_position(s, m, dep, a).reason = before.reason
  BY Zenon DEF size_position, Decline
<1>2. after.kind = "Sized"
  BY Zenon DEF size_position, Decline
<1>3. CASE s.kind # "Percentage"
  <2>1. before = fixed_amount(s, m, dep, a) /\ after = fixed_amount(s, m, dep, b)
    BY <1>3 DEF calculate_liquidation_amount
  <2>2. FixedRepay(s, m, dep) < m.minimum
    BY <1>1, <2>1, FixedBranches
  <2>3. ~(FixedRepay(s, m, dep) < m.minimum)
    BY <1>2, <2>1, FixedBranches
  <2> QED
    BY <2>2, <2>3
<1>4. CASE s.kind = "Percentage"
  <2> DEFINE small == Slice(s, m, a)
             large == Slice(s, m, b)
             cap == apply_liquidatable_cap_buffer(dep)
             pay(c) == WithBuffer(collateral_to_borrow(m, c))
             part(slice) == IF m.partial THEN min_with_cap_buffer(slice, dep) ELSE dep
  <2>1. before = percentage_amount(s, m, dep, a) /\ after = percentage_amount(s, m, dep, b)
    BY <1>4 DEF calculate_liquidation_amount
  <2>2. /\ pay(part(small)) < m.minimum
        /\ before.reason = below_minimum_decline_reason(m, ~m.partial, small, dep)
    BY <1>1, <2>1, PercentageBranches
  <2>3. ~(pay(part(large)) < m.minimum)
    BY <1>2, <2>1, PercentageBranches
  <2>4. small \in Nat /\ large \in Nat /\ small <= large
    BY <1>4, SliceMonotone
  <2>5. cap \in Nat /\ m.minimum \in Nat /\ m.partial \in BOOLEAN
    BY CapFacts DEF Market
  <2>6. part(small) # part(large)
    BY <2>2, <2>3
  <2> HIDE DEF small, large, cap
  <2>7. m.partial /\ small < cap /\ part(large) \in Nat /\ part(large) <= cap
    BY <2>4, <2>5, <2>6 DEF min_with_cap_buffer, least, cap
  <2> HIDE DEF part
  <2>8. pay(cap) \in Nat /\ pay(part(large)) \in Nat /\ pay(part(large)) <= pay(cap)
    BY <2>5, <2>7, RepayMonotone, BufferMonotone
  <2>9. pay(cap) >= m.minimum
    <3> HIDE DEF pay
    <3> QED
      BY <2>3, <2>5, <2>8
  <2>10. below_minimum_decline_reason(m, ~m.partial, small, dep) = "InsufficientInventory"
    BY <1>4, <2>7, <2>9 DEF below_minimum_decline_reason, WithBuffer, cap
  <2> QED
    BY <1>1, <2>2, <2>10
<1> QED
  BY <1>3, <1>4

\* What the percentage strategy may spend of a balance.
Target(s, balance) == (((balance * (BPS - SAFETY_BUFFER_BPS)) \div BPS) * s.percentage) \div 100

\* The conditions under which a percentage strategy sizes a slice.
LEMMA PercentageSizes ==
  ASSUME NEW s, NEW m, NEW dep, NEW balance, m.partial,
         fits(balance * (BPS - SAFETY_BUFFER_BPS)), Target(s, balance) # 0,
         fits(Slice(s, m, balance)), fits(dep * (BPS - LIQUIDATABLE_CAP_BUFFER_BPS)),
         NEW c, c = min_with_cap_buffer(Slice(s, m, balance), dep), c # 0,
         NEW need, need = collateral_to_borrow(m, c),
         fits(need), fits(need * SAFETY_BUFFER_BPS),
         ~(WithBuffer(need) > balance), ~(WithBuffer(need) < m.minimum)
  PROVE  percentage_amount(s, m, dep, balance).kind = "Sized"
<1>1. percentage_amount(s, m, dep, balance) = Sized(WithBuffer(need), c)
  BY Zenon DEF percentage_amount, Slice, Target, WithBuffer
<1> QED
  BY <1>1 DEF Sized

\* validate_sizing lets through what a strategy sizes.
LEMMA SizedStands ==
  ASSUME NEW s \in StrategyKind, NEW m \in Market, NEW dep \in Nat, NEW balance \in Nat,
         ~(balance < m.minimum), calculate_liquidation_amount(s, m, dep, balance).kind = "Sized"
  PROVE  size_position(s, m, dep, balance).kind = "Sized"
<1> DEFINE a == calculate_liquidation_amount(s, m, dep, balance)
           d == size_position(s, m, dep, balance)
<1>1. d = IF ~validate_sizing(a, balance) THEN Decline("NotViable", "invalid") ELSE a
  BY Zenon DEF size_position
<1>2. Answered(d, m, dep, balance)
  BY SizePositionAnswers
<1> HIDE DEF a, d
<1>3. d # Decline("NotViable", "invalid")
  BY <1>2 DEF Answered, Abort, Decline, Sized
<1>4. d = a
  BY <1>1, <1>3
<1> QED
  BY <1>4 DEF a, d

\* A balance that buys the largest slice, within the width of the amounts.
Affords(s, m, dep, balance) ==
  /\ fits(balance * (BPS - SAFETY_BUFFER_BPS))
  /\ fits(Slice(s, m, balance))
  /\ Slice(s, m, balance) >= apply_liquidatable_cap_buffer(dep)

\* There is such a balance for every position: what the largest slice costs,
\* divided by the strategy's share and by what the buffer leaves of it.
top_up(s, m, dep) ==
  LET repay == collateral_to_borrow(m, apply_liquidatable_cap_buffer(dep))
  IN  div_ceil(div_ceil(repay * 100, s.percentage) * BPS, BPS - SAFETY_BUFFER_BPS)

LEMMA TopUpAffords ==
  ASSUME NEW s \in StrategyKind, s.kind = "Percentage", NEW m \in Market, NEW dep \in Nat
  PROVE  /\ top_up(s, m, dep) \in Nat
         /\ Slice(s, m, top_up(s, m, dep)) >= apply_liquidatable_cap_buffer(dep)
<1> DEFINE p == s.percentage
           cap == apply_liquidatable_cap_buffer(dep)
           repay == collateral_to_borrow(m, cap)
           share == div_ceil(repay * 100, p)
           b == div_ceil(share * 10000, 9950)
           after == (b * 9950) \div 10000
           target == (after * p) \div 100
           n == rate_num(m)
           d == rate_den(m)
<1>1. p \in Nat \ {0}
  BY DEF StrategyKind
<1>2. n \in Nat \ {0} /\ d \in Nat \ {0}
  BY Rates
<1>3. cap \in Nat
  BY CapFacts
<1> HIDE DEF p, cap, n, d
<1>4. repay \in Nat /\ cap * n <= repay * d
  BY <1>3, RepayFacts DEF n, d
<1> HIDE DEF repay
<1>5. share \in Nat /\ repay * 100 <= share * p
  <2>1. repay * 100 \in Nat
    BY <1>4
  <2> QED
    BY <1>1, <2>1, CeilFacts
<1> HIDE DEF share
<1>6. b \in Nat /\ share * 10000 <= b * 9950
  <2> DEFINE z == share * 10000
  <2>1. z \in Nat
    BY <1>5
  <2> HIDE DEF z
  <2>2. div_ceil(z, 9950) \in Nat /\ z <= div_ceil(z, 9950) * 9950
    BY <2>1 DEF div_ceil
  <2> QED
    BY <2>2 DEF z
<1> HIDE DEF b
<1>7. after \in Nat /\ share <= after
  BY <1>5, <1>6
<1> HIDE DEF after
<1>8. target \in Nat /\ repay <= target
  <2>1. after * p \in Nat /\ share * p \in Nat /\ share * p <= after * p
    BY <1>1, <1>5, <1>7
  <2>2. repay * 100 <= after * p
    BY <1>4, <1>5, <2>1
  <2> DEFINE x == after * p
  <2> HIDE DEF x
  <2>3. x \in Nat /\ repay * 100 <= x
    BY <2>1, <2>2 DEF x
  <2>4. x \div 100 \in Nat /\ repay <= x \div 100
    BY <1>4, <2>3
  <2> QED
    BY <2>4 DEF x
<1> HIDE DEF target
<1>9. cap <= (target * d) \div n
  <2>1. target * d \in Nat /\ repay * d \in Nat /\ repay * d <= target * d /\ cap * n \in Nat
    BY <1>2, <1>3, <1>4, <1>8
  <2>2. cap * n <= target * d
    BY <1>4, <2>1
  <2>3. (target * d) \div n \in Nat /\ target * d < ((target * d) \div n) * n + n
    BY <1>2, <2>1, FloorFacts
  <2> DEFINE q == (target * d) \div n
  <2> HIDE DEF q
  <2>4. q \in Nat /\ target * d < q * n + n
    BY <2>3 DEF q
  <2>5. cap * n < (q + 1) * n
    BY <1>2, <1>3, <2>1, <2>2, <2>4
  <2>6. cap < q + 1
    BY <1>2, <1>3, <2>4, <2>5
  <2> QED
    BY <1>3, <2>4, <2>6 DEF q
<1>10. (target * d) \div n \in Nat
  BY <1>2, <1>8, FloorFacts
<1> QED
  BY <1>3, <1>6, <1>9, <1>10
     DEF top_up, Slice, borrow_to_collateral, BPS, SAFETY_BUFFER_BPS, target, after, b, share, repay,
         cap, n, d, p

\* Only a percentage is bound by the inventory below the market's minimum.
LEMMA InventoryBinds ==
  ASSUME NEW s, NEW m, NEW dep, NEW a,
         size_position(s, m, dep, a).kind = "Decline",
         size_position(s, m, dep, a).site = "minimum",
         size_position(s, m, dep, a).reason = "InsufficientInventory"
  PROVE  s.kind = "Percentage"
<1> DEFINE before == calculate_liquidation_amount(s, m, dep, a)
<1> SUFFICES ASSUME s.kind # "Percentage" PROVE FALSE
  OBVIOUS
<1>1. /\ before.kind = "Decline" /\ before.site = "minimum"
      /\ before.reason = "InsufficientInventory"
  BY Zenon DEF size_position, Decline
<1>2. before = fixed_amount(s, m, dep, a)
  BY DEF calculate_liquidation_amount
<1>3. before.reason = "NotViable"
  BY <1>1, <1>2, FixedBranches
<1> QED
  BY <1>1, <1>3

\* Where the reason given is the inventory, a balance that buys the largest
\* slice is larger, and is sized.
LEMMA TopUpHelps ==
  ASSUME NEW s \in StrategyKind, NEW m \in Market, NEW dep \in Nat, NEW a \in Nat, NEW b \in Nat,
         size_position(s, m, dep, a).kind = "Decline",
         size_position(s, m, dep, a).site = "minimum",
         size_position(s, m, dep, a).reason = "InsufficientInventory",
         Affords(s, m, dep, b)
  PROVE  a < b /\ size_position(s, m, dep, b).kind = "Sized"
<1> DEFINE before == calculate_liquidation_amount(s, m, dep, a)
           small == Slice(s, m, a)
           large == Slice(s, m, b)
           cap == apply_liquidatable_cap_buffer(dep)
           repay == collateral_to_borrow(m, cap)
<1>1. /\ before.kind = "Decline" /\ before.site = "minimum"
      /\ before.reason = "InsufficientInventory"
      /\ ~(a < m.minimum)
  BY Zenon DEF size_position, Decline
<1>2. s.kind = "Percentage"
  BY InventoryBinds
<1>3. before = percentage_amount(s, m, dep, a)
  BY <1>2 DEF calculate_liquidation_amount
<1>4. /\ below_minimum_decline_reason(m, ~m.partial, small, dep) = "InsufficientInventory"
      /\ ~below_minimum_overflows(m, dep)
  BY <1>1, <1>3, PercentageBranches
<1>5. /\ m.partial /\ small < cap /\ fits(repay) /\ WithBuffer(repay) >= m.minimum
  BY <1>4 DEF below_minimum_decline_reason, WithBuffer
<1>6. fits(dep * (BPS - LIQUIDATABLE_CAP_BUFFER_BPS)) /\ fits(repay * SAFETY_BUFFER_BPS)
  BY <1>4, <1>5, Zenon DEF below_minimum_overflows
<1>7. /\ fits(b * (BPS - SAFETY_BUFFER_BPS)) /\ fits(large) /\ large >= cap
  BY DEF Affords
<1>8. cap \in Nat /\ m.minimum \in Nat
  BY CapFacts DEF Market
<1>9. small \in Nat /\ large \in Nat /\ (b <= a => large <= small)
  BY <1>2, SliceMonotone
<1> HIDE DEF small, large, cap
<1>10. a < b
  BY <1>5, <1>7, <1>8, <1>9
<1>11. cap # 0 /\ large # 0
  BY <1>5, <1>7, <1>8, <1>9
<1>12. min_with_cap_buffer(large, dep) = cap
  BY <1>7, <1>8, <1>9 DEF min_with_cap_buffer, least, cap
<1>13. Target(s, b) # 0
  <2> SUFFICES ASSUME Target(s, b) = 0 PROVE FALSE
    OBVIOUS
  <2>1. large = borrow_to_collateral(m, 0)
    BY Zenon DEF large, Slice, Target
  <2>2. rate_den(m) \in Nat \ {0} /\ rate_num(m) \in Nat \ {0}
    BY Rates
  <2>3. 0 * rate_den(m) = 0
    BY <2>2
  <2>4. 0 \div rate_num(m) = 0
    BY <2>2
  <2> QED
    BY <1>11, <2>1, <2>3, <2>4 DEF borrow_to_collateral
<1>14. repay \in Nat \ {0}
  BY <1>8, <1>11, RepayFacts
<1>15. repay + buffer(repay) <= b
  <2>1. cap <= large
    BY <1>7, <1>8, <1>9
  <2> QED
    BY <1>2, <1>8, <2>1, SliceFunded DEF large, Slice
<1> HIDE DEF repay
<1>16. buffer(repay) \in Nat
  <2>1. repay \in Nat
    BY <1>14
  <2> QED
    BY <2>1 DEF buffer, BPS, SAFETY_BUFFER_BPS
<1>17. WithBuffer(repay) = repay + buffer(repay)
  BY <1>6, <1>14, <1>16, NoSaturation DEF WithBuffer
<1>18. ~(WithBuffer(repay) > b) /\ ~(WithBuffer(repay) < m.minimum)
  BY <1>5, <1>8, <1>14, <1>15, <1>16, <1>17
<1>19. percentage_amount(s, m, dep, b).kind = "Sized"
  BY <1>5, <1>6, <1>7, <1>11, <1>12, <1>13, <1>18, PercentageSizes DEF large, repay
<1>20. calculate_liquidation_amount(s, m, dep, b).kind = "Sized"
  BY <1>2, <1>19 DEF calculate_liquidation_amount
<1>21. ~(b < m.minimum)
  BY <1>1, <1>8, <1>10
<1> QED
  BY <1>10, <1>20, <1>21, SizedStands

\* The decision of an attempt is about the balance and the position it has.
DecisionCurrent ==
  decision.kind = "Decline" => decision = size_position(strategy, market, deposit, available)

\* Every step keeps the decision current.
LEMMA CurrentStep == StrategyInv /\ DecisionCurrent /\ [Next]_vars => DecisionCurrent'
<1> SUFFICES ASSUME StrategyInv, DecisionCurrent, [Next]_vars PROVE DecisionCurrent'
  OBVIOUS
<1>1. CASE SizePosition
  <2>1. /\ decision' = size_position(strategy, market, deposit, available)
        /\ UNCHANGED <<strategy, market, deposit, available>>
    BY <1>1 DEF SizePosition
  <2> QED
    BY <2>1, Zenon DEF DecisionCurrent
<1>2. CASE PricePairFails \/ AssessProfitability \/ UNCHANGED vars
  <2>1. UNCHANGED <<strategy, market, deposit, available, decision>>
    BY <1>2 DEF PricePairFails, AssessProfitability, vars
  <2> QED
    BY <2>1, Zenon DEF DecisionCurrent
<1>3. ASSUME NEW drop \in CapDrops, NEW rise \in PriceRises, Submit(drop, rise) PROVE DecisionCurrent'
  <2>1. stage = "submit" /\ decision' = decision
    BY <1>3 DEF Submit
  <2>2. decision.kind = "Sized"
    BY <2>1 DEF StrategyInv, StagesConsistent
  <2> QED
    BY <2>1, <2>2 DEF DecisionCurrent
<1>4. CASE NextAttempt
  <2>1. decision'.kind = "Undecided"
    BY <1>4 DEF NextAttempt, Undecided
  <2> QED
    BY <2>1 DEF DecisionCurrent
<1> QED
  BY <1>1, <1>2, <1>3, <1>4 DEF Next, Aborted

\* The half of BelowMinimumHonest that holds for every set of balances: where a
\* larger balance would be sized, the bot is never told that the position is
\* not viable, as long as the largest slice's repay fits a u128.
TopUpNeverDenied ==
  (/\ decision.kind = "Decline" /\ decision.site = "minimum" /\ Fundable
   /\ fits(collateral_to_borrow(market, apply_liquidatable_cap_buffer(deposit))))
    => decision.reason = "InsufficientInventory"

\* below_minimum_decline_reason: a top-up that helps is asked for.
THEOREM TopUpAskedFor == Spec => []TopUpNeverDenied
<1>1. Init => DecisionCurrent
  BY DEF Init, DecisionCurrent, Undecided
<1>2. StrategyInv /\ DecisionCurrent => TopUpNeverDenied
  <2> SUFFICES ASSUME StrategyInv, DecisionCurrent, decision.kind = "Decline", decision.site = "minimum",
                      Fundable,
                      fits(collateral_to_borrow(market, apply_liquidatable_cap_buffer(deposit)))
               PROVE  decision.reason = "InsufficientInventory"
    BY DEF TopUpNeverDenied
  <2>1. /\ strategy \in StrategyKind /\ market \in Market /\ available \in Nat /\ deposit \in Nat
    BY InputTypes DEF StrategyInv
  <2>2. PICK b \in Balances : b > available /\ size_position(strategy, market, deposit, b).kind = "Sized"
    BY DEF Fundable
  <2>3. b \in Nat
    BY ConstantTypes, Zenon
  <2>4. available < b
    BY <2>1, <2>2, <2>3
  <2>5. decision = size_position(strategy, market, deposit, available)
    BY DEF DecisionCurrent
  <2> QED
    BY <2>1, <2>2, <2>3, <2>4, <2>5, TopUpNamed
<1> QED
  BY <1>1, <1>2, CurrentStep, StrategyInvHolds, PTL DEF Spec

\* The largest slice is within reach: its repay fits a u128, and one of the
\* balances buys it.
CapInReach ==
  strategy.kind = "Percentage" =>
    /\ fits(collateral_to_borrow(market, apply_liquidatable_cap_buffer(deposit)))
    /\ \E b \in Balances : Affords(strategy, market, deposit, b)

\* below_minimum_decline_reason: below the market's minimum the bot asks for a
\* top-up if and only if one helps, for every market, position, percentage and
\* budget, wherever amounts stay within the width of a u128.
THEOREM BelowMinimumIsHonest == Spec => [](CapInReach => BelowMinimumHonest)
<1>1. Init => DecisionCurrent
  BY DEF Init, DecisionCurrent, Undecided
<1>2. StrategyInv /\ DecisionCurrent => (CapInReach => BelowMinimumHonest)
  <2> SUFFICES ASSUME StrategyInv, DecisionCurrent, CapInReach,
                      decision.kind = "Decline", decision.site = "minimum"
               PROVE  decision.reason = "InsufficientInventory" <=> Fundable
    BY DEF BelowMinimumHonest
  <2>1. /\ strategy \in StrategyKind /\ market \in Market /\ available \in Nat /\ deposit \in Nat
    BY InputTypes DEF StrategyInv
  <2>2. \A b \in Balances : b \in Nat
    BY ConstantTypes, Zenon
  <2>3. decision = size_position(strategy, market, deposit, available)
    BY DEF DecisionCurrent
  <2>4. ASSUME Fundable PROVE decision.reason = "InsufficientInventory"
    <3>1. PICK b \in Balances : b > available /\ size_position(strategy, market, deposit, b).kind = "Sized"
      BY <2>4 DEF Fundable
    <3>2. b \in Nat /\ available < b
      BY <2>1, <2>2, <3>1
    <3>3. strategy.kind = "Percentage" =>
            fits(collateral_to_borrow(market, apply_liquidatable_cap_buffer(deposit)))
      BY DEF CapInReach
    <3> QED
      BY <2>1, <2>3, <3>1, <3>2, <3>3, TopUpNamed
  <2>5. ASSUME decision.reason = "InsufficientInventory" PROVE Fundable
    <3>1. strategy.kind = "Percentage"
      BY <2>3, <2>5, InventoryBinds
    <3>2. PICK b \in Balances : Affords(strategy, market, deposit, b)
      BY <3>1 DEF CapInReach
    <3>3. available < b /\ size_position(strategy, market, deposit, b).kind = "Sized"
      BY <2>1, <2>2, <2>3, <2>5, <3>2, TopUpHelps
    <3>4. b > available
      BY <2>1, <2>2, <3>3
    <3> QED
      BY <3>3, <3>4 DEF Fundable
  <2> QED
    BY <2>4, <2>5
<1> QED
  BY <1>1, <1>2, CurrentStep, StrategyInvHolds, PTL DEF Spec
=============================================================================
