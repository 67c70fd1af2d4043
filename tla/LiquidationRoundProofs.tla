---------------------- MODULE LiquidationRoundProofs ----------------------
(***************************************************************************)
(* Proofs that the liquidation rounds keep their inventory honest for any  *)
(* number of positions, any concurrency and any amounts.                   *)
(***************************************************************************)
EXTENDS LiquidationRound, DataTheorems

\* Saturating subtraction never underflows, and takes off at most b.
LEMMA MonusType ==
  ASSUME NEW a \in Nat, NEW b \in Nat
  PROVE  Monus(a, b) \in Nat /\ Monus(a, b) <= a /\ a <= Monus(a, b) + b
BY DEF Monus

\* The entry after reserve, release, consume and update_balance.
LEMMA EntryMethods ==
  ASSUME NEW e \in Entry, NEW a \in Nat
  PROVE  /\ reserve(e, a) \in Entry
         /\ reserve(e, a).balance = e.balance
         /\ reserve(e, a).reserved = e.reserved + a
         /\ release(e, a) \in Entry
         /\ release(e, a).balance = e.balance
         /\ release(e, a).reserved = Monus(e.reserved, a)
         /\ consume(e, a) \in Entry
         /\ consume(e, a).balance = Monus(e.balance, a)
         /\ consume(e, a).reserved = Monus(e.reserved, a)
         /\ update_balance(e, a) \in Entry
         /\ update_balance(e, a).balance = a
         /\ update_balance(e, a).reserved = e.reserved
         /\ available(e) \in Nat
<1>1. Monus(e.reserved, a) \in Nat /\ Monus(e.balance, a) \in Nat
  BY DEF Entry, Monus
<1>2. release(e, a) \in Entry
  BY <1>1 DEF Entry, release
<1> DEFINE debited == [e EXCEPT !.balance = Monus(@, a)]
<1>3. /\ debited \in Entry
      /\ debited.balance = Monus(e.balance, a)
      /\ debited.reserved = e.reserved
  BY <1>1 DEF Entry
<1> HIDE DEF debited
<1>4. /\ release(debited, a) \in Entry
      /\ release(debited, a).balance = debited.balance
      /\ release(debited, a).reserved = Monus(debited.reserved, a)
  BY <1>1, <1>3 DEF Entry, release
<1>5. /\ consume(e, a) \in Entry
      /\ consume(e, a).balance = Monus(e.balance, a)
      /\ consume(e, a).reserved = Monus(e.reserved, a)
  BY <1>3, <1>4 DEF consume, debited
<1>6. available(e) \in Nat
  BY DEF Entry, available, Monus
<1> QED
  BY <1>1, <1>2, <1>5, <1>6 DEF Entry, reserve, release, update_balance

-----------------------------------------------------------------------------
\* Every step keeps the types.
LEMMA TypeStep ==
  TypeOK /\ ControlConsistent /\ [Next]_vars => TypeOK'
<1> SUFFICES ASSUME TypeOK, ControlConsistent, [Next]_vars
             PROVE  TypeOK'
  OBVIOUS
<1> USE LimitsAssumption, SwitchesAssumption
<1> USE DEF TypeOK, PCs, Parked, Holding, Outcomes
<1>1. ASSUME NEW p \in Positions, Start(p) PROVE TypeOK'
  BY <1>1 DEF Start, Goto
<1>2. ASSUME NEW p \in Positions, CheckStatus(p) PROVE TypeOK'
  BY <1>2 DEF CheckStatus, Goto, Finish, map_evaluation, after_success,
      max_iterations
<1>3. ASSUME NEW p \in Positions, Size(p) PROVE TypeOK'
  BY <1>3 DEF Size, Goto, Finish, map_evaluation, after_success,
      validate_sizing, available, Monus, Entry
<1>4. ASSUME NEW p \in Positions, Simulate(p) PROVE TypeOK'
  BY <1>4 DEF Simulate, Goto, Finish
<1>5. ASSUME NEW p \in Positions, Reserve(p) PROVE TypeOK'
  <2>1. reserve(inv, amt[p]) \in Entry
    BY EntryMethods
  <2>2. inv' \in Entry
    BY <1>5, <2>1 DEF Reserve
  <2> QED
    BY <1>5, <2>1, <2>2 DEF Reserve, Goto, Finish, map_evaluation,
        after_success
<1>6. ASSUME NEW p \in Positions, Push(p) PROVE TypeOK'
  BY <1>6 DEF Push, Goto
<1>7. ASSUME NEW p \in Positions, Submit(p) PROVE TypeOK'
  BY <1>7 DEF Submit, Goto
<1>8. ASSUME NEW p \in Positions, AnswerLanded(p) PROVE TypeOK'
  <2>1. inv' \in Entry
    BY <1>8, EntryMethods DEF AnswerLanded
  <2> QED
    BY <1>8, <2>1 DEF AnswerLanded, Goto
<1>9. ASSUME NEW p \in Positions, AnswerRejected(p) PROVE TypeOK'
  <2>1. inv' \in Entry
    BY <1>9, EntryMethods DEF AnswerRejected
  <2> QED
    BY <1>9, <2>1 DEF AnswerRejected, Goto, Finish
<1>10. ASSUME NEW p \in Positions, AnswerUnclear(p) PROVE TypeOK'
  <2>1. inv' \in Entry
    BY <1>10, EntryMethods DEF AnswerUnclear
  <2>2. leaked' \in BOOLEAN
    BY <1>10, Zenon DEF AnswerUnclear
  <2> QED
    BY <1>10, <2>1, <2>2 DEF AnswerUnclear, Goto, Finish
<1>11. ASSUME NEW p \in Positions, Collateral(p) PROVE TypeOK'
  BY <1>11 DEF Collateral, Goto, Finish, AfterExecution
<1>12. ASSUME NEW p \in Positions, RefreshAsset(p) PROVE TypeOK'
  <2>1. update_balance(inv, chain) \in Entry
    BY EntryMethods
  <2>2. inv' \in Entry
    BY <1>12, <2>1 DEF RefreshAsset
  <2> QED
    BY <1>12, <2>1, <2>2 DEF RefreshAsset, Goto, Finish, AfterExecution
<1>13. ASSUME NEW p \in Positions, Refetch(p) PROVE TypeOK'
  BY <1>13 DEF Refetch, Goto, Finish, ControlConsistent, BudgetConsistent,
      InBudget, max_iterations
<1>14. ASSUME NEW p \in Positions, Land(p) PROVE TypeOK'
  BY <1>14 DEF Land
<1>15. ASSUME NEW p \in Positions, Reject(p) PROVE TypeOK'
  BY <1>15 DEF Reject
<1>16. ASSUME NEW p \in Positions, OrphanDecided(p) PROVE TypeOK'
  <2>1. leaked' \in BOOLEAN
    BY <1>16, Zenon DEF OrphanDecided
  <2> QED
    BY <1>16, <2>1 DEF OrphanDecided, local
<1>17. ASSUME Deposit PROVE TypeOK'
  BY <1>17 DEF Deposit, local
<1>18. ASSUME Refresh PROVE TypeOK'
  <2>1. inv' \in Entry
    BY <1>18, EntryMethods DEF Refresh
  <2>2. leaked' \in BOOLEAN
    BY <1>18, Zenon DEF Refresh
  <2> QED
    BY <1>18, <2>1, <2>2 DEF Refresh, local
<1>19. ASSUME BeginRound PROVE TypeOK'
  BY <1>19 DEF BeginRound, local
<1>20. ASSUME EndRound PROVE TypeOK'
  BY <1>20 DEF EndRound, local
<1>21. ASSUME SignalShutdown PROVE TypeOK'
  BY <1>21 DEF SignalShutdown, local
<1>22. ASSUME Stopped PROVE TypeOK'
  BY <1>22 DEF Stopped, vars, local
<1>23. ASSUME UNCHANGED vars PROVE TypeOK'
  BY <1>23 DEF vars, local
<1> QED
  BY <1>1, <1>2, <1>3, <1>4, <1>5, <1>6, <1>7, <1>8, <1>9, <1>10, <1>11,
      <1>12, <1>13, <1>14, <1>15, <1>16, <1>17, <1>18, <1>19, <1>20, <1>21,
      <1>22, <1>23 DEF Next, Step, Chain

\* Every step keeps a position's local variables consistent with its place.
LEMMA ControlStep ==
  TypeOK /\ ControlConsistent /\ [Next]_vars => ControlConsistent'
<1> SUFFICES ASSUME TypeOK, ControlConsistent, [Next]_vars
             PROVE  ControlConsistent'
  OBVIOUS
<1> USE LimitsAssumption, SwitchesAssumption
<1> USE DEF TypeOK, PCs, Parked, Holding, Evaluating, InBudget, InFlight,
            ControlConsistent, LocalConsistent, BudgetConsistent,
            max_iterations
<1>1. ASSUME NEW p \in Positions, Start(p) PROVE ControlConsistent'
  BY <1>1 DEF Start, Goto
<1>2. ASSUME NEW p \in Positions, CheckStatus(p) PROVE ControlConsistent'
  BY <1>2 DEF CheckStatus, Goto, Finish, map_evaluation, after_success
<1>3. ASSUME NEW p \in Positions, Size(p) PROVE ControlConsistent'
  BY <1>3 DEF Size, Goto, Finish, map_evaluation, after_success,
      validate_sizing, available, Monus, Entry
<1>4. ASSUME NEW p \in Positions, Simulate(p) PROVE ControlConsistent'
  BY <1>4 DEF Simulate, Goto, Finish
<1>5. ASSUME NEW p \in Positions, Reserve(p) PROVE ControlConsistent'
  BY <1>5 DEF Reserve, Goto, Finish, map_evaluation, after_success
<1>6. ASSUME NEW p \in Positions, Push(p) PROVE ControlConsistent'
  BY <1>6 DEF Push, Goto
<1>7. ASSUME NEW p \in Positions, Submit(p) PROVE ControlConsistent'
  BY <1>7 DEF Submit, Goto
<1>8. ASSUME NEW p \in Positions, AnswerLanded(p) PROVE ControlConsistent'
  BY <1>8 DEF AnswerLanded, Goto
<1>9. ASSUME NEW p \in Positions, AnswerRejected(p) PROVE ControlConsistent'
  BY <1>9 DEF AnswerRejected, Goto, Finish
<1>10. ASSUME NEW p \in Positions, AnswerUnclear(p) PROVE ControlConsistent'
  BY <1>10 DEF AnswerUnclear, Goto, Finish
<1>11. ASSUME NEW p \in Positions, Collateral(p) PROVE ControlConsistent'
  BY <1>11 DEF Collateral, Goto, Finish, AfterExecution, loop_enabled
<1>12. ASSUME NEW p \in Positions, RefreshAsset(p) PROVE ControlConsistent'
  BY <1>12 DEF RefreshAsset, Goto, Finish, AfterExecution, loop_enabled
<1>13. ASSUME NEW p \in Positions, Refetch(p) PROVE ControlConsistent'
  BY <1>13 DEF Refetch, Goto, Finish
<1>14. ASSUME NEW p \in Positions, Land(p) PROVE ControlConsistent'
  BY <1>14 DEF Land
<1>15. ASSUME NEW p \in Positions, Reject(p) PROVE ControlConsistent'
  BY <1>15 DEF Reject
<1>16. ASSUME NEW p \in Positions, OrphanDecided(p) PROVE ControlConsistent'
  BY <1>16 DEF OrphanDecided, local
<1>17. ASSUME Deposit PROVE ControlConsistent'
  BY <1>17 DEF Deposit, local
<1>18. ASSUME Refresh PROVE ControlConsistent'
  BY <1>18 DEF Refresh, local
<1>19. ASSUME BeginRound PROVE ControlConsistent'
  BY <1>19 DEF BeginRound, local
<1>20. ASSUME EndRound PROVE ControlConsistent'
  BY <1>20 DEF EndRound, local
<1>21. ASSUME SignalShutdown PROVE ControlConsistent'
  BY <1>21 DEF SignalShutdown, local
<1>22. ASSUME Stopped PROVE ControlConsistent'
  BY <1>22 DEF Stopped, vars, local
<1>23. ASSUME UNCHANGED vars PROVE ControlConsistent'
  BY <1>23 DEF vars, local
<1> QED
  BY <1>1, <1>2, <1>3, <1>4, <1>5, <1>6, <1>7, <1>8, <1>9, <1>10, <1>11,
      <1>12, <1>13, <1>14, <1>15, <1>16, <1>17, <1>18, <1>19, <1>20, <1>21,
      <1>22, <1>23 DEF Next, Step, Chain

-----------------------------------------------------------------------------
(***************************************************************************)
(* The money.  A step either leaves the held amounts alone (Quiet), or     *)
(* adds one position to Held, Landed or Exposed or takes one out.          *)
(***************************************************************************)
Money == ReservedIsHeld /\ BalanceBacked /\ CommitmentsFunded

Quiet ==
  /\ Held' = Held
  /\ Landed' = Landed
  /\ Exposed' = Exposed
  /\ \A q \in Held : amt'[q] = amt[q]

\* The held positions are finitely many, with natural amounts.
LEMMA HeldFacts ==
  ASSUME TypeOK
  PROVE  /\ IsFiniteSet(Held) /\ IsFiniteSet(Landed) /\ IsFiniteSet(Exposed)
         /\ Landed \subseteq Held /\ Exposed \subseteq Held
         /\ Landed \cap Exposed = {}
         /\ \A q \in Held : amt[q] \in Nat
         /\ Total(amt, Held) \in Nat
         /\ Total(amt, Landed) \in Nat
         /\ Total(amt, Exposed) \in Nat
<1>1. /\ Held \in SUBSET Positions
      /\ Landed \in SUBSET Positions
      /\ Exposed \in SUBSET Positions
  BY DEF Held, Landed, Exposed
<1>2. IsFiniteSet(Held) /\ IsFiniteSet(Landed) /\ IsFiniteSet(Exposed)
  BY <1>1, PositionsAssumption, FS_Subset
<1>3. \A q \in Positions : amt[q] \in Nat
  BY DEF TypeOK
<1>4. /\ Total(amt, Held) \in Nat
      /\ Total(amt, Landed) \in Nat
      /\ Total(amt, Exposed) \in Nat
  BY <1>1, <1>2, <1>3, TotalType
<1> QED
  BY <1>1, <1>2, <1>3, <1>4 DEF Held, Landed, Exposed

\* What has landed and what is still exposed are disjoint parts of the holds.
LEMMA HeldParts ==
  ASSUME TypeOK
  PROVE  Total(amt, Landed) + Total(amt, Exposed) <= Total(amt, Held)
<1> DEFINE R == Held \ (Landed \cup Exposed)
<1>1. IsFiniteSet(R) /\ IsFiniteSet(Landed \cup Exposed)
  BY HeldFacts, FS_Subset, FS_Union
<1>2. Held = (Landed \cup Exposed) \cup R /\ (Landed \cup Exposed) \cap R = {}
  BY HeldFacts
<1>3. \A q \in (Landed \cup Exposed) \cup R : amt[q] \in Nat
  BY <1>2, HeldFacts
<1> HIDE DEF R
<1>4. Total(amt, Held) = Total(amt, Landed \cup Exposed) + Total(amt, R)
  BY <1>1, <1>2, <1>3, TotalUnion
<1>5. Total(amt, Landed \cup Exposed) = Total(amt, Landed) + Total(amt, Exposed)
  BY HeldFacts, <1>3, TotalUnion
<1>6. Total(amt, R) \in Nat
  BY <1>1, <1>3, TotalType
<1> QED
  BY <1>4, <1>5, <1>6, HeldFacts

\* A quiet step leaves the three sums alone.
LEMMA QuietTotals ==
  ASSUME TypeOK, Quiet
  PROVE  /\ Total(amt, Held)' = Total(amt, Held)
         /\ Total(amt, Landed)' = Total(amt, Landed)
         /\ Total(amt, Exposed)' = Total(amt, Exposed)
<1>1. /\ \A q \in Landed : amt'[q] = amt[q]
      /\ \A q \in Exposed : amt'[q] = amt[q]
  BY HeldFacts DEF Quiet
<1>2. /\ Total(amt', Held) = Total(amt, Held)
      /\ Total(amt', Landed) = Total(amt, Landed)
      /\ Total(amt', Exposed) = Total(amt, Exposed)
  BY <1>1, TotalSame DEF Quiet
<1> QED
  BY <1>2 DEF Quiet

\* A quiet step that neither touches the inventory nor takes money from the
\* account keeps the money invariant.
LEMMA QuietKeepsMoney ==
  ASSUME TypeOK, TypeOK', Money, Quiet, inv' = inv, chain' >= chain,
         leaked' = leaked
  PROVE  Money'
<1>1. chain \in Nat /\ chain' \in Nat /\ inv.balance \in Nat
  BY LimitsAssumption DEF TypeOK, Entry
<1> QED
  BY <1>1, QuietTotals, HeldFacts
     DEF Money, ReservedIsHeld, BalanceBacked, CommitmentsFunded

\* One position enters a set that a sum runs over.
LEMMA Enters ==
  ASSUME NEW S \in SUBSET Positions, NEW p \in Positions \ S,
         NEW a, NEW b, \A q \in Positions : a[q] \in Nat,
         \A q \in S \cup {p} : b[q] = a[q]
  PROVE  Total(b, S \cup {p}) = Total(a, S) + a[p]
<1>1. IsFiniteSet(S)
  BY PositionsAssumption, FS_Subset
<1>2. Total(a, S \cup {p}) = Total(a, S) + a[p]
  BY <1>1, TotalAdd
<1> QED
  BY <1>2, TotalSame

\* One position leaves a set that a sum runs over.
LEMMA Leaves ==
  ASSUME NEW S \in SUBSET Positions, NEW p \in S,
         NEW a, NEW b, \A q \in Positions : a[q] \in Nat,
         \A q \in S \ {p} : b[q] = a[q]
  PROVE  Total(a, S) = Total(b, S \ {p}) + a[p]
<1>1. S \ {p} \in SUBSET Positions /\ p \in Positions \ (S \ {p})
  OBVIOUS
<1>2. Total(a, (S \ {p}) \cup {p}) = Total(a, S \ {p}) + a[p]
  BY <1>1, Enters
<1>3. (S \ {p}) \cup {p} = S
  OBVIOUS
<1>4. Total(b, S \ {p}) = Total(a, S \ {p})
  BY TotalSame
<1> QED
  BY <1>2, <1>3, <1>4

\* The steps that leave the held amounts and the inventory alone.
QuietNext ==
  \/ \E p \in Positions :
       \/ Start(p) \/ CheckStatus(p) \/ Size(p) \/ Simulate(p) \/ Push(p)
       \/ Submit(p) \/ Collateral(p) \/ Refetch(p)
       \/ Reserve(p) /\ ~CanReserve(inv, amt[p])
  \/ Deposit \/ BeginRound \/ EndRound \/ SignalShutdown \/ Stopped
  \/ UNCHANGED vars

Undisturbed == Quiet /\ inv' = inv /\ chain' >= chain /\ leaked' = leaked

\* A position that holds nothing is neither submitted nor landed: its steps
\* disturb no sum.
LEMMA QuietSteps ==
  ASSUME TypeOK, ControlConsistent, QuietNext
  PROVE  Undisturbed
<1>a. /\ chain \in Nat
      /\ \A q \in Positions : tx[q] # "none" <=> pc[q] = "await"
  BY LimitsAssumption DEF TypeOK, ControlConsistent, LocalConsistent
<1> USE DEF Undisturbed
<1>1. ASSUME NEW p \in Positions, Start(p) PROVE Undisturbed
  <2>1. Quiet
    BY <1>1, <1>a DEF TypeOK, Start, Goto, Quiet, Held, Landed, Exposed,
        Holding
  <2>2. inv' = inv /\ chain' >= chain /\ leaked' = leaked
    BY <1>1, <1>a DEF Start
  <2> QED
    BY <2>1, <2>2
<1>2. ASSUME NEW p \in Positions, CheckStatus(p) PROVE Undisturbed
  <2>1. Quiet
    BY <1>2, <1>a DEF TypeOK, CheckStatus, Goto, Finish, Quiet, Held, Landed,
        Exposed, Holding
  <2>2. inv' = inv /\ chain' >= chain /\ leaked' = leaked
    BY <1>2, <1>a DEF CheckStatus
  <2> QED
    BY <2>1, <2>2
<1>3. ASSUME NEW p \in Positions, Size(p) PROVE Undisturbed
  <2>1. Quiet
    BY <1>3, <1>a DEF TypeOK, Size, Goto, Finish, Quiet, Held, Landed,
        Exposed, Holding
  <2>2. inv' = inv /\ chain' >= chain /\ leaked' = leaked
    BY <1>3, <1>a DEF Size
  <2> QED
    BY <2>1, <2>2
<1>4. ASSUME NEW p \in Positions, Simulate(p) PROVE Undisturbed
  <2>1. Quiet
    BY <1>4, <1>a DEF TypeOK, Simulate, Goto, Finish, Quiet, Held, Landed,
        Exposed, Holding
  <2>2. inv' = inv /\ chain' >= chain /\ leaked' = leaked
    BY <1>4, <1>a DEF Simulate
  <2> QED
    BY <2>1, <2>2
<1>5. ASSUME NEW p \in Positions, Push(p) PROVE Undisturbed
  <2>1. Quiet
    BY <1>5, <1>a DEF TypeOK, Push, Goto, Quiet, Held, Landed, Exposed,
        Holding
  <2>2. inv' = inv /\ chain' >= chain /\ leaked' = leaked
    BY <1>5, <1>a DEF Push
  <2> QED
    BY <2>1, <2>2
<1>6. ASSUME NEW p \in Positions, Submit(p) PROVE Undisturbed
  <2>1. Quiet
    BY <1>6, <1>a DEF TypeOK, Submit, Goto, Quiet, Held, Landed, Exposed,
        Holding
  <2>2. inv' = inv /\ chain' >= chain /\ leaked' = leaked
    BY <1>6, <1>a DEF Submit
  <2> QED
    BY <2>1, <2>2
<1>7. ASSUME NEW p \in Positions, Collateral(p) PROVE Undisturbed
  <2>1. Quiet
    BY <1>7, <1>a DEF TypeOK, Collateral, Goto, Finish, AfterExecution,
        Quiet, Held, Landed, Exposed, Holding
  <2>2. inv' = inv /\ chain' >= chain /\ leaked' = leaked
    BY <1>7, <1>a DEF Collateral
  <2> QED
    BY <2>1, <2>2
<1>8. ASSUME NEW p \in Positions, Refetch(p) PROVE Undisturbed
  <2>1. Quiet
    BY <1>8, <1>a DEF TypeOK, Refetch, Goto, Finish, Quiet, Held, Landed,
        Exposed, Holding
  <2>2. inv' = inv /\ chain' >= chain /\ leaked' = leaked
    BY <1>8, <1>a DEF Refetch
  <2> QED
    BY <2>1, <2>2
<1>9. ASSUME Deposit PROVE Undisturbed
  <2>1. Quiet
    BY <1>9, <1>a DEF TypeOK, Deposit, local, Quiet, Held, Landed, Exposed,
        Holding
  <2>2. inv' = inv /\ chain' >= chain /\ leaked' = leaked
    BY <1>9, <1>a DEF Deposit, local
  <2> QED
    BY <2>1, <2>2
<1>10. ASSUME BeginRound PROVE Undisturbed
  <2>1. Quiet
    BY <1>10, <1>a DEF TypeOK, BeginRound, local, Quiet, Held, Landed,
        Exposed, Holding, ControlConsistent, InFlight, Parked
  <2>2. inv' = inv /\ chain' >= chain /\ leaked' = leaked
    BY <1>10, <1>a DEF BeginRound, local
  <2> QED
    BY <2>1, <2>2
<1>11. ASSUME EndRound PROVE Undisturbed
  <2>1. Quiet
    BY <1>11, <1>a DEF TypeOK, EndRound, local, Quiet, Held, Landed, Exposed,
        Holding
  <2>2. inv' = inv /\ chain' >= chain /\ leaked' = leaked
    BY <1>11, <1>a DEF EndRound, local
  <2> QED
    BY <2>1, <2>2
<1>12. ASSUME SignalShutdown PROVE Undisturbed
  <2>1. Quiet
    BY <1>12, <1>a DEF TypeOK, SignalShutdown, local, Quiet, Held, Landed,
        Exposed, Holding
  <2>2. inv' = inv /\ chain' >= chain /\ leaked' = leaked
    BY <1>12, <1>a DEF SignalShutdown, local
  <2> QED
    BY <2>1, <2>2
<1>13. ASSUME Stopped PROVE Undisturbed
  <2>1. Quiet
    BY <1>13, <1>a DEF TypeOK, Stopped, vars, local, Quiet, Held, Landed,
        Exposed, Holding
  <2>2. inv' = inv /\ chain' >= chain /\ leaked' = leaked
    BY <1>13, <1>a DEF Stopped, local, vars
  <2> QED
    BY <2>1, <2>2
<1>14. ASSUME UNCHANGED vars PROVE Undisturbed
  <2>1. Quiet
    BY <1>14 DEF vars, local, Quiet, Held, Landed, Exposed
  <2>2. inv' = inv /\ chain' >= chain /\ leaked' = leaked
    BY <1>14, <1>a DEF vars
  <2> QED
    BY <2>1, <2>2
<1>15. ASSUME NEW p \in Positions, Reserve(p), ~CanReserve(inv, amt[p])
       PROVE  Undisturbed
  <2>1. Quiet
    BY <1>15, <1>a
       DEF TypeOK, Reserve, Goto, Finish, Quiet, Held, Landed, Exposed, Holding
  <2>2. inv' = inv /\ chain' >= chain /\ leaked' = leaked
    BY <1>15, <1>a DEF Reserve
  <2> QED
    BY <2>1, <2>2
<1> QED
  BY <1>1, <1>2, <1>3, <1>4, <1>5, <1>6, <1>7, <1>8, <1>9, <1>10, <1>11,
      <1>12, <1>13, <1>14, <1>15 DEF QuietNext

\* Every step keeps the money invariant.
LEMMA MoneyStep ==
  TypeOK /\ ControlConsistent /\ Money /\ [Next]_vars => Money'
<1> SUFFICES ASSUME TypeOK, ControlConsistent, Money, [Next]_vars
             PROVE  Money'
  OBVIOUS
<1>a. TypeOK' /\ ControlConsistent'
  BY TypeStep, ControlStep
<1>b. /\ chain \in Nat /\ chain' \in Nat
      /\ inv \in Entry /\ inv' \in Entry
      /\ inv.balance \in Nat /\ inv.reserved \in Nat
      /\ \A q \in Positions : amt[q] \in Nat
      /\ \A q \in Positions : tx[q] # "none" <=> pc[q] = "await"
  BY <1>a, LimitsAssumption
     DEF TypeOK, Entry, ControlConsistent, LocalConsistent
<1>c. /\ Held \in SUBSET Positions /\ Landed \in SUBSET Positions
      /\ Exposed \in SUBSET Positions
      /\ Total(amt, Held) \in Nat /\ Total(amt, Landed) \in Nat
      /\ Total(amt, Exposed) \in Nat
      /\ Total(amt, Landed) + Total(amt, Exposed) <= Total(amt, Held)
  BY HeldFacts, HeldParts DEF Held, Landed, Exposed
<1>d. /\ Total(amt, Held)' \in Nat /\ Total(amt, Landed)' \in Nat
      /\ Total(amt, Exposed)' \in Nat
  <2>1. /\ Held' \in SUBSET Positions /\ Landed' \in SUBSET Positions
        /\ Exposed' \in SUBSET Positions
        /\ \A q \in Positions : amt'[q] \in Nat
    BY <1>a DEF TypeOK, Held, Landed, Exposed
  <2>2. IsFiniteSet(Held') /\ IsFiniteSet(Landed') /\ IsFiniteSet(Exposed')
    BY <2>1, PositionsAssumption, FS_Subset
  <2>3. /\ Total(amt', Held') \in Nat
        /\ Total(amt', Landed') \in Nat
        /\ Total(amt', Exposed') \in Nat
    BY <2>1, <2>2, TotalType
  <2> QED
    BY <2>3
<1>1. ASSUME QuietNext PROVE Money'
  <2>1. Undisturbed
    BY <1>1, QuietSteps
  <2> QED
    BY <1>a, <2>1, QuietKeepsMoney DEF Undisturbed
<1>2. ASSUME NEW p \in Positions, Reserve(p), CanReserve(inv, amt[p])
      PROVE  Money'
  <2>1. /\ p \notin Held /\ Held' = Held \cup {p}
        /\ p \notin Exposed /\ Exposed' = Exposed \cup {p}
        /\ Landed' = Landed /\ amt' = amt
    BY <1>2, <1>b
       DEF TypeOK, Reserve, Goto, Held, Landed, Exposed, Holding
  <2>2. /\ inv' = reserve(inv, amt[p])
        /\ chain' = chain /\ leaked' = leaked
    BY <1>2 DEF Reserve
  <2>3. /\ inv'.balance = inv.balance
        /\ inv'.reserved = inv.reserved + amt[p]
    <3>1. inv \in Entry /\ amt[p] \in Nat
      BY <1>b
    <3> QED
      BY <2>2, <3>1, EntryMethods
  <2>4. Total(amt', Held \cup {p}) = Total(amt, Held) + amt[p]
    BY <2>1, <1>b, <1>c, Enters
  <2>5. Total(amt', Exposed \cup {p}) = Total(amt, Exposed) + amt[p]
    BY <2>1, <1>b, <1>c, Enters
  <2>6. /\ Total(amt, Held)' = Total(amt, Held) + amt[p]
        /\ Total(amt, Exposed)' = Total(amt, Exposed) + amt[p]
        /\ Total(amt, Landed)' = Total(amt, Landed)
    BY <2>1, <2>4, <2>5
  <2>7. ReservedIsHeld' /\ BalanceBacked'
    BY <2>2, <2>3, <2>6 DEF Money, ReservedIsHeld, BalanceBacked
  <2>8. amt[p] <= Monus(inv.balance, inv.reserved)
    BY <1>2 DEF CanReserve, available
  <2>9. amt[p] > 0
    BY <1>2 DEF ControlConsistent, LocalConsistent, Reserve
  <2>10. inv.reserved + amt[p] <= inv.balance
    BY <2>8, <2>9, <1>b DEF Monus
  <2>11. CommitmentsFunded'
    BY <2>2, <2>6, <2>10, <1>b, <1>c
       DEF Money, ReservedIsHeld, BalanceBacked, CommitmentsFunded
  <2> QED
    BY <2>7, <2>11 DEF Money
<1>3. ASSUME NEW p \in Positions, AnswerLanded(p) PROVE Money'
  <2>1. /\ p \in Held /\ Held' = Held \ {p}
        /\ p \in Landed /\ Landed' = Landed \ {p}
        /\ Exposed' = Exposed
        /\ \A q \in Held \ {p} : amt'[q] = amt[q]
    BY <1>3, <1>b
       DEF TypeOK, AnswerLanded, Goto, Held, Landed, Exposed, Holding
  <2>2. inv' = consume(inv, amt[p]) /\ chain' = chain /\ leaked' = leaked
    BY <1>3 DEF AnswerLanded
  <2>3. /\ inv'.balance = Monus(inv.balance, amt[p])
        /\ inv'.reserved = Monus(inv.reserved, amt[p])
    <3>1. inv \in Entry /\ amt[p] \in Nat
      BY <1>b
    <3> QED
      BY <2>2, <3>1, EntryMethods
  <2>4. Total(amt, Held) = Total(amt', Held \ {p}) + amt[p]
    BY <2>1, <1>b, <1>c, Leaves
  <2>5. Total(amt, Landed) = Total(amt', Landed \ {p}) + amt[p]
    <3>1. \A q \in Landed \ {p} : amt'[q] = amt[q]
      BY <2>1 DEF Landed
    <3>2. Landed \in SUBSET Positions /\ p \in Landed
      BY <2>1, <1>c
    <3>3. \A q \in Positions : amt[q] \in Nat
      BY <1>b
    <3> QED
      BY <3>1, <3>2, <3>3, Leaves
  <2>6. Total(amt', Exposed) = Total(amt, Exposed)
    <3>1. \A q \in Exposed : amt'[q] = amt[q]
      BY <2>1 DEF Exposed, Landed
    <3> QED
      BY <3>1, TotalSame
  <2>7. /\ Total(amt, Held) = Total(amt, Held)' + amt[p]
        /\ Total(amt, Landed) = Total(amt, Landed)' + amt[p]
        /\ Total(amt, Exposed)' = Total(amt, Exposed)
    BY <2>1, <2>4, <2>5, <2>6
  <2>8. ReservedIsHeld'
    BY <2>3, <2>7, <1>b, <1>d DEF Money, ReservedIsHeld, Monus
  <2>9. BalanceBacked'
    BY <2>2, <2>3, <2>7, <1>b, <1>d DEF Money, BalanceBacked, Monus
  <2>10. CommitmentsFunded'
    BY <2>2, <2>7 DEF Money, CommitmentsFunded
  <2> QED
    BY <2>8, <2>9, <2>10 DEF Money
<1>4. ASSUME NEW p \in Positions, AnswerRejected(p) PROVE Money'
  <2>1. /\ p \in Held /\ Held' = Held \ {p}
        /\ Landed' = Landed /\ Exposed' = Exposed
        /\ p \notin Landed /\ p \notin Exposed
        /\ \A q \in Held \ {p} : amt'[q] = amt[q]
    BY <1>4, <1>b
       DEF TypeOK, AnswerRejected, Goto, Finish, Held, Landed, Exposed, Holding
  <2>2. inv' = release(inv, amt[p]) /\ chain' = chain /\ leaked' = leaked
    BY <1>4 DEF AnswerRejected
  <2>3. /\ inv'.balance = inv.balance
        /\ inv'.reserved = Monus(inv.reserved, amt[p])
    <3>1. inv \in Entry /\ amt[p] \in Nat
      BY <1>b
    <3> QED
      BY <2>2, <3>1, EntryMethods
  <2>4. Total(amt, Held) = Total(amt', Held \ {p}) + amt[p]
    BY <2>1, <1>b, <1>c, Leaves
  <2>5. /\ Total(amt', Landed) = Total(amt, Landed)
        /\ Total(amt', Exposed) = Total(amt, Exposed)
    <3>1. \A q \in Landed \cup Exposed : amt'[q] = amt[q]
      BY <2>1 DEF Landed, Exposed
    <3> QED
      BY <3>1, TotalSame
  <2>6. /\ Total(amt, Held) = Total(amt, Held)' + amt[p]
        /\ Total(amt, Landed)' = Total(amt, Landed)
        /\ Total(amt, Exposed)' = Total(amt, Exposed)
    BY <2>1, <2>4, <2>5
  <2>7. ReservedIsHeld'
    BY <2>3, <2>6, <1>b, <1>d DEF Money, ReservedIsHeld, Monus
  <2> QED
    BY <2>2, <2>3, <2>6, <2>7 DEF Money, BalanceBacked, CommitmentsFunded
<1>5. ASSUME NEW p \in Positions, AnswerUnclear(p) PROVE Money'
  <2>1. /\ p \in Held /\ Held' = Held \ {p}
        /\ \A q \in Held \ {p} : amt'[q] = amt[q]
    BY <1>5, <1>b
       DEF TypeOK, AnswerUnclear, Goto, Finish, Held, Holding
  <2>2. inv' = release(inv, amt[p]) /\ chain' = chain
    BY <1>5 DEF AnswerUnclear
  <2>3. /\ inv'.balance = inv.balance
        /\ inv'.reserved = Monus(inv.reserved, amt[p])
    <3>1. inv \in Entry /\ amt[p] \in Nat
      BY <1>b
    <3> QED
      BY <2>2, <3>1, EntryMethods
  <2>4. Total(amt, Held) = Total(amt', Held \ {p}) + amt[p]
    BY <2>1, <1>b, <1>c, Leaves
  <2>5. Total(amt, Held) = Total(amt, Held)' + amt[p]
    BY <2>1, <2>4
  <2>6. ReservedIsHeld'
    BY <2>3, <2>5, <1>b, <1>d DEF Money, ReservedIsHeld, Monus
  <2>7. CASE tx[p] = "landed"
    <3>1. leaked' = TRUE
      BY <1>5, <2>7 DEF AnswerUnclear
    <3> QED
      BY <2>6, <3>1 DEF Money, BalanceBacked, CommitmentsFunded
  <2>8. CASE tx[p] = "pending"
    <3>1. leaked' = leaked
      BY <1>5, <2>8 DEF AnswerUnclear
    <3>2. /\ Landed' = Landed /\ p \notin Landed
          /\ p \in Exposed /\ Exposed' = Exposed \ {p}
      BY <1>5, <2>8, <1>b
         DEF TypeOK, AnswerUnclear, Goto, Finish, Held, Landed, Exposed, Holding
    <3>3. Total(amt', Landed) = Total(amt, Landed)
      <4>1. \A q \in Landed : amt'[q] = amt[q]
        BY <2>1, <3>2 DEF Landed
      <4> QED
        BY <4>1, TotalSame
    <3>4. Total(amt, Exposed) = Total(amt', Exposed \ {p}) + amt[p]
      <4>1. \A q \in Exposed \ {p} : amt'[q] = amt[q]
        BY <2>1 DEF Exposed
      <4> QED
        BY <3>2, <4>1, <1>b, <1>c, Leaves
    <3>5. /\ Total(amt, Landed)' = Total(amt, Landed)
          /\ Total(amt, Exposed) = Total(amt, Exposed)' + amt[p]
      BY <3>2, <3>3, <3>4
    <3> QED
      BY <2>2, <2>3, <2>6, <3>1, <3>5, <1>b, <1>c, <1>d
         DEF Money, BalanceBacked, CommitmentsFunded
  <2> QED
    BY <1>5, <2>7, <2>8 DEF AnswerUnclear
<1>6. ASSUME NEW p \in Positions, RefreshAsset(p) PROVE Money'
  <2>1. Quiet
    BY <1>6, <1>b
       DEF TypeOK, RefreshAsset, AfterExecution, Goto, Finish, Quiet, Held,
           Landed, Exposed, Holding
  <2>2. chain' = chain /\ leaked' = leaked
    BY <1>6 DEF RefreshAsset
  <2>3. CASE inv' = inv
    BY <1>a, <1>b, <2>1, <2>2, <2>3, QuietKeepsMoney
  <2>4. CASE inv' = update_balance(inv, chain)
    <3>1. inv'.balance = chain /\ inv'.reserved = inv.reserved
      BY <2>4, <1>b, EntryMethods
    <3> QED
      BY <2>1, <2>2, <3>1, <1>b, <1>c, QuietTotals
         DEF Money, ReservedIsHeld, BalanceBacked, CommitmentsFunded
  <2> QED
    BY <1>6, <2>3, <2>4 DEF RefreshAsset
<1>7. ASSUME NEW p \in Positions, Land(p) PROVE Money'
  <2>1. /\ Held' = Held /\ amt' = amt
        /\ p \notin Landed /\ Landed' = Landed \cup {p}
        /\ p \in Exposed /\ Exposed' = Exposed \ {p}
    BY <1>7, <1>b DEF TypeOK, Land, Held, Landed, Exposed, Holding
  <2>2. /\ inv' = inv /\ chain' = chain - amt[p] /\ leaked' = leaked
    BY <1>7 DEF Land
  <2>3. Total(amt', Landed \cup {p}) = Total(amt, Landed) + amt[p]
    BY <2>1, <1>b, <1>c, Enters
  <2>4. Total(amt, Exposed) = Total(amt', Exposed \ {p}) + amt[p]
    BY <2>1, <1>b, <1>c, Leaves
  <2>5. /\ Total(amt, Held)' = Total(amt, Held)
        /\ Total(amt, Landed)' = Total(amt, Landed) + amt[p]
        /\ Total(amt, Exposed) = Total(amt, Exposed)' + amt[p]
    BY <2>1, <2>3, <2>4
  <2> QED
    BY <2>2, <2>5, <1>b, <1>c, <1>d
       DEF Money, ReservedIsHeld, BalanceBacked, CommitmentsFunded
<1>8. ASSUME NEW p \in Positions, Reject(p) PROVE Money'
  <2>1. /\ Held' = Held /\ amt' = amt /\ Landed' = Landed
        /\ p \in Exposed /\ Exposed' = Exposed \ {p}
    BY <1>8, <1>b DEF TypeOK, Reject, Held, Landed, Exposed, Holding
  <2>2. inv' = inv /\ chain' = chain /\ leaked' = leaked
    BY <1>8 DEF Reject
  <2>3. Total(amt, Exposed) = Total(amt', Exposed \ {p}) + amt[p]
    BY <2>1, <1>b, <1>c, Leaves
  <2>4. /\ Total(amt, Held)' = Total(amt, Held)
        /\ Total(amt, Landed)' = Total(amt, Landed)
        /\ Total(amt, Exposed) = Total(amt, Exposed)' + amt[p]
    BY <2>1, <2>3
  <2> QED
    BY <2>2, <2>4, <1>b, <1>c, <1>d
       DEF Money, ReservedIsHeld, BalanceBacked, CommitmentsFunded
<1>9. ASSUME NEW p \in Positions, OrphanDecided(p) PROVE Money'
  <2>1. Quiet /\ inv' = inv
    BY <1>9 DEF OrphanDecided, local, Quiet, Held, Landed, Exposed
  <2>2. CASE chain' = chain /\ leaked' = leaked
    BY <1>a, <1>b, <2>1, <2>2, QuietKeepsMoney
  <2>3. CASE leaked' = TRUE
    BY <2>1, <2>3, QuietTotals
       DEF Money, ReservedIsHeld, BalanceBacked, CommitmentsFunded
  <2> QED
    BY <1>9, <2>2, <2>3 DEF OrphanDecided
<1>10. ASSUME Refresh PROVE Money'
  <2>1. Quiet
    BY <1>10 DEF Refresh, local, Quiet, Held, Landed, Exposed
  <2>2. inv' = update_balance(inv, chain) /\ chain' = chain
    BY <1>10 DEF Refresh
  <2>3. inv'.balance = chain /\ inv'.reserved = inv.reserved
    <3>1. inv \in Entry /\ chain \in Nat
      BY <1>b
    <3> QED
      BY <2>2, <3>1, EntryMethods
  <2>4. Exposed = {}
    BY <1>10
       DEF Refresh, ControlConsistent, InFlight, Exposed, Held, Parked, Holding
  <2>5. Total(amt, Exposed) = 0
    BY <2>4, TotalEmpty
  <2> QED
    BY <2>1, <2>2, <2>3, <2>5, <1>b, <1>c, QuietTotals
       DEF Money, ReservedIsHeld, BalanceBacked, CommitmentsFunded
<1> QED
  BY <1>1, <1>2, <1>3, <1>4, <1>5, <1>6, <1>7, <1>8, <1>9, <1>10 DEF Next,
      Step, Chain, QuietNext

\* Every step keeps an unfunded position free of a paid oracle push.
LEMMA GasStep ==
  TypeOK /\ ControlConsistent /\ UnfundedPaysNoGas /\ [Next]_vars
    => UnfundedPaysNoGas'
<1> SUFFICES ASSUME TypeOK, ControlConsistent, UnfundedPaysNoGas, [Next]_vars
             PROVE  UnfundedPaysNoGas'
  OBVIOUS
<1> USE DEF TypeOK, UnfundedPaysNoGas, ControlConsistent, LocalConsistent,
            BudgetConsistent, Evaluating
<1>1. ASSUME NEW p \in Positions, Start(p) PROVE UnfundedPaysNoGas'
  BY <1>1 DEF Start, Goto
<1>2. ASSUME NEW p \in Positions, CheckStatus(p) PROVE UnfundedPaysNoGas'
  BY <1>2 DEF CheckStatus, Goto, Finish, map_evaluation, after_success,
      max_iterations
<1>3. ASSUME NEW p \in Positions, Size(p) PROVE UnfundedPaysNoGas'
  BY <1>3 DEF Size, Goto, Finish, map_evaluation, after_success,
      validate_sizing
<1>4. ASSUME NEW p \in Positions, Simulate(p) PROVE UnfundedPaysNoGas'
  BY <1>4 DEF Simulate, Goto, Finish
<1>5. ASSUME NEW p \in Positions, Reserve(p) PROVE UnfundedPaysNoGas'
  BY <1>5 DEF Reserve, Goto, Finish, map_evaluation, after_success
<1>6. ASSUME NEW p \in Positions, Push(p) PROVE UnfundedPaysNoGas'
  BY <1>6 DEF Push, Goto
<1>7. ASSUME NEW p \in Positions, Submit(p) PROVE UnfundedPaysNoGas'
  BY <1>7 DEF Submit, Goto
<1>8. ASSUME NEW p \in Positions, AnswerLanded(p) PROVE UnfundedPaysNoGas'
  BY <1>8 DEF AnswerLanded, Goto
<1>9. ASSUME NEW p \in Positions, AnswerRejected(p) PROVE UnfundedPaysNoGas'
  BY <1>9 DEF AnswerRejected, Goto, Finish
<1>10. ASSUME NEW p \in Positions, AnswerUnclear(p) PROVE UnfundedPaysNoGas'
  BY <1>10 DEF AnswerUnclear, Goto, Finish
<1>11. ASSUME NEW p \in Positions, Collateral(p) PROVE UnfundedPaysNoGas'
  BY <1>11 DEF Collateral, Goto, Finish, AfterExecution
<1>12. ASSUME NEW p \in Positions, RefreshAsset(p) PROVE UnfundedPaysNoGas'
  BY <1>12 DEF RefreshAsset, Goto, Finish, AfterExecution
<1>13. ASSUME NEW p \in Positions, Refetch(p) PROVE UnfundedPaysNoGas'
  BY <1>13 DEF Refetch, Goto, Finish
<1>14. ASSUME NEW p \in Positions, Land(p) PROVE UnfundedPaysNoGas'
  BY <1>14 DEF Land
<1>15. ASSUME NEW p \in Positions, Reject(p) PROVE UnfundedPaysNoGas'
  BY <1>15 DEF Reject
<1>16. ASSUME NEW p \in Positions, OrphanDecided(p) PROVE UnfundedPaysNoGas'
  BY <1>16 DEF OrphanDecided, local
<1>17. ASSUME Deposit PROVE UnfundedPaysNoGas'
  BY <1>17 DEF Deposit, local
<1>18. ASSUME Refresh PROVE UnfundedPaysNoGas'
  BY <1>18 DEF Refresh, local
<1>19. ASSUME BeginRound PROVE UnfundedPaysNoGas'
  BY <1>19 DEF BeginRound, local
<1>20. ASSUME EndRound PROVE UnfundedPaysNoGas'
  BY <1>20 DEF EndRound, local
<1>21. ASSUME SignalShutdown PROVE UnfundedPaysNoGas'
  BY <1>21 DEF SignalShutdown, local
<1>22. ASSUME Stopped PROVE UnfundedPaysNoGas'
  BY <1>22 DEF Stopped, vars, local
<1>23. ASSUME UNCHANGED vars PROVE UnfundedPaysNoGas'
  BY <1>23 DEF vars, local
<1> QED
  BY <1>1, <1>2, <1>3, <1>4, <1>5, <1>6, <1>7, <1>8, <1>9, <1>10, <1>11,
      <1>12, <1>13, <1>14, <1>15, <1>16, <1>17, <1>18, <1>19, <1>20, <1>21,
      <1>22, <1>23 DEF Next, Step, Chain

-----------------------------------------------------------------------------
\* The invariant holds initially: nobody holds anything.
LEMMA InitInv == Init => Inv
<1> SUFFICES ASSUME Init PROVE Inv
  OBVIOUS
<1>1. TypeOK
  <2>1. chain \in Nat /\ inv \in Entry
    BY LimitsAssumption DEF Init, Entry
  <2>2. shutdown \in BOOLEAN /\ leaked \in BOOLEAN
    BY Zenon DEF Init
  <2>3. 0 \in 0..(MaxIterations + 1)
    BY LimitsAssumption
  <2> QED
    BY <2>1, <2>2, <2>3 DEF Init, TypeOK, PCs, Parked
<1>2. ControlConsistent
  BY LimitsAssumption
     DEF Init, ControlConsistent, LocalConsistent, BudgetConsistent, Parked,
         Holding, Evaluating, InBudget, InFlight
<1>3. UnfundedPaysNoGas
  BY DEF Init, UnfundedPaysNoGas
<1>4. Held = {} /\ Landed = {} /\ Exposed = {}
  BY DEF Init, Held, Landed, Exposed, Holding
<1>5. Total(amt, Held) = 0 /\ Total(amt, Landed) = 0 /\ Total(amt, Exposed) = 0
  BY <1>4, TotalEmpty
<1>6. ReservedIsHeld /\ BalanceBacked /\ CommitmentsFunded
  BY <1>5, LimitsAssumption
     DEF Init, ReservedIsHeld, BalanceBacked, CommitmentsFunded
<1> QED
  BY <1>1, <1>2, <1>3, <1>6 DEF Inv

\* Every step keeps the invariant.
LEMMA StepInv == Inv /\ [Next]_vars => Inv'
BY TypeStep, ControlStep, GasStep, MoneyStep DEF Inv, Money

\* The inductive invariant of the liquidation rounds.
THEOREM InvHolds == Spec => []Inv
<1>1. Init => Inv
  BY InitInv
<1>2. Inv /\ [Next]_vars => Inv'
  BY StepInv
<1> QED
  BY <1>1, <1>2, PTL DEF Spec

\* The variables keep their types, the loop counter its bound.
THEOREM TypeCorrect == Spec => []TypeOK
<1>1. Inv => TypeOK
  BY DEF Inv
<1> QED
  BY <1>1, InvHolds, PTL

\* What InventoryEntry.reserved says is held is held, and the reverse.
THEOREM ReservationsExact == Spec => []ReservedIsHeld
<1>1. Inv => ReservedIsHeld
  BY DEF Inv
<1> QED
  BY <1>1, InvHolds, PTL

\* The inventory never counts tokens that have left, until an answer is lost.
THEOREM BalanceSound == Spec => []BalanceBacked
<1>1. Inv => BalanceBacked
  BY DEF Inv
<1> QED
  BY <1>1, InvHolds, PTL

\* Concurrent positions never commit more than the account owns, until an
\* unclear gateway answer makes the code release tokens that were spent.
THEOREM CommitmentsSound == Spec => []CommitmentsFunded
<1>1. Inv => CommitmentsFunded
  BY DEF Inv
<1> QED
  BY <1>1, InvHolds, PTL

\* With a gateway that always tells what the chain did, the documented claim
\* holds as it stands: no balance is ever spent twice.
THEOREM DoubleSpendImpossible == Spec => [](TruthfulGateway => NoDoubleSpend)
<1>1. Inv => (TruthfulGateway => NoDoubleSpend)
  BY DEF Inv, ControlConsistent, CommitmentsFunded, NoDoubleSpend
<1> QED
  BY <1>1, InvHolds, PTL

\* A position skipped for want of funds never paid for an oracle push.
THEOREM RaceLoserPaysNothing == Spec => []UnfundedPaysNoGas
<1>1. Inv => UnfundedPaysNoGas
  BY DEF Inv
<1> QED
  BY <1>1, InvHolds, PTL

\* No position submits more transactions in a round than the loop allows, and
\* a dry run submits none.
THEOREM BudgetRespected == Spec => []IterationBudget
<1>1. Inv => IterationBudget
  BY DEF Inv, ControlConsistent, BudgetConsistent, IterationBudget
<1> QED
  BY <1>1, InvHolds, PTL

-----------------------------------------------------------------------------
(***************************************************************************)
(* The rounds implement ReservationLedger.                                 *)
(***************************************************************************)
Holds == [p \in Positions |-> IF p \in Held THEN amt[p] ELSE 0]

\* The ledger's holds sum to the held amounts.
LEMMA HoldsTotal ==
  ASSUME TypeOK
  PROVE  Total(Holds, Positions) = Total(amt, Held)
<1> DEFINE Free == Positions \ Held
<1>1. /\ IsFiniteSet(Held) /\ IsFiniteSet(Free)
      /\ Held \cup Free = Positions /\ Held \cap Free = {}
  BY HeldFacts, PositionsAssumption, FS_Subset DEF Held
<1>2. \A q \in Held \cup Free : Holds[q] \in Nat
  BY <1>1 DEF TypeOK, Holds
<1>3. \A q \in Free : Holds[q] = 0
  BY DEF Holds
<1>4. \A q \in Held : Holds[q] = amt[q]
  BY DEF Holds, Held
<1> HIDE DEF Free
<1>5. Total(Holds, Held \cup Free) = Total(Holds, Held) + Total(Holds, Free)
  BY <1>1, <1>2, TotalUnion
<1>6. Total(Holds, Free) = 0
  BY <1>3, TotalZero
<1>7. Total(Holds, Held) = Total(amt, Held)
  BY <1>4, TotalSame
<1> QED
  BY <1>1, <1>5, <1>6, <1>7, HeldFacts

\* When one position leaves Held, the ledger's holds change only there.
LEMMA HoldSettled ==
  ASSUME TypeOK, NEW p \in Held, Held' = Held \ {p},
         \A q \in Held \ {p} : amt'[q] = amt[q]
  PROVE  Holds' = [Holds EXCEPT ![p] = 0]
BY DEF Holds, Held

\* Every step of the rounds is a step of the ledger, or changes nothing in it.
LEMMA LedgerStep ==
  Inv /\ [Next]_vars => [Ledger!LedgerNext]_(Ledger!ledger)
<1> SUFFICES ASSUME Inv, [Next]_vars
             PROVE  [Ledger!LedgerNext]_(Ledger!ledger)
  OBVIOUS
<1>a. TypeOK /\ ControlConsistent /\ ReservedIsHeld
  BY DEF Inv
<1>b. /\ inv \in Entry /\ chain \in Nat
      /\ \A q \in Positions : amt[q] \in Nat
      /\ \A q \in Positions : tx[q] # "none" <=> pc[q] = "await"
      /\ \A q \in Positions :
           pc[q] \in Holding \cup {"reserve"} => amt[q] > 0
  BY <1>a, LimitsAssumption DEF TypeOK, ControlConsistent, LocalConsistent
<1>c. Quiet => Holds' = Holds
  BY DEF Quiet, Holds
<1>d. Holds = [p \in Positions |-> IF p \in Held THEN amt[p] ELSE 0]
  BY DEF Holds
<1>1. ASSUME QuietNext PROVE UNCHANGED Ledger!ledger
  <2>1. Quiet /\ inv' = inv
    BY <1>1, <1>a, QuietSteps DEF Undisturbed
  <2>2. Holds' = Holds
    BY <2>1, <1>c
  <2> QED
    BY <2>1, <2>2 DEF Ledger!ledger, Holds
<1>2. ASSUME NEW p \in Positions, Reserve(p), CanReserve(inv, amt[p])
      PROVE  Ledger!Grant(p)
  <2>1. p \notin Held /\ Held' = Held \cup {p} /\ amt' = amt
    BY <1>2, <1>a DEF TypeOK, Reserve, Goto, Held, Holding
  <2>2. Holds' = [Holds EXCEPT ![p] = amt[p]] /\ Holds[p] = 0
    BY <2>1 DEF Holds
  <2>3. inv'.balance = inv.balance
    <3>1. inv' = reserve(inv, amt[p])
      BY <1>2 DEF Reserve
    <3> QED
      BY <3>1, <1>b, EntryMethods
  <2>4. amt[p] <= Monus(inv.balance, inv.reserved) /\ amt[p] > 0
    BY <1>2, <1>b DEF CanReserve, available, Reserve
  <2>5. inv.reserved = Total(Holds, Positions)
    BY <1>a, HoldsTotal DEF ReservedIsHeld
  <2>6. Monus(inv.balance, inv.reserved) \in Nat
    BY <1>b DEF Monus, Entry
  <2>7. amt[p] \in 1..Monus(inv.balance, Total(Holds, Positions))
    BY <2>4, <2>5, <2>6, <1>b
  <2>8. Ledger!Monus(inv.balance, Ledger!Total(Holds, Positions)) =
          Monus(inv.balance, Total(Holds, Positions))
    BY DEF Ledger!Monus, Ledger!Total, Ledger!Units, Ledger!Cardinality, Monus,
       Total, Units, Cardinality
  <2>9. \E a \in 1..Ledger!Monus(inv.balance, Ledger!Total(Holds, Positions)) :
          Holds' = [Holds EXCEPT ![p] = a]
    BY <2>2, <2>7, <2>8
  <2> QED
    BY <2>2, <2>3, <2>9 DEF Ledger!Grant, Holds
<1>3. ASSUME NEW p \in Positions, AnswerLanded(p) PROVE Ledger!PayOut(p)
  <2>1. /\ p \in Held /\ Held' = Held \ {p}
        /\ \A q \in Held \ {p} : amt'[q] = amt[q]
    BY <1>3, <1>a DEF TypeOK, AnswerLanded, Goto, Held, Holding
  <2>2. Holds' = [Holds EXCEPT ![p] = 0]
    BY <2>1, <1>a, HoldSettled
  <2>3. Holds[p] = amt[p] /\ amt[p] > 0
    BY <2>1, <1>b DEF Holds, Held
  <2>4. inv'.balance = Monus(inv.balance, amt[p])
    BY <1>3, <1>b, EntryMethods DEF AnswerLanded
  <2> QED
    BY <2>2, <2>3, <2>4 DEF Ledger!PayOut, Ledger!Monus, Monus, Holds
<1>4. ASSUME NEW p \in Positions, AnswerRejected(p) \/ AnswerUnclear(p)
      PROVE  Ledger!GiveBack(p)
  <2>1. /\ p \in Held /\ Held' = Held \ {p}
        /\ \A q \in Held \ {p} : amt'[q] = amt[q]
    BY <1>4, <1>a
       DEF TypeOK, AnswerRejected, AnswerUnclear, Goto, Finish, Held, Holding
  <2>2. Holds' = [Holds EXCEPT ![p] = 0]
    BY <2>1, <1>a, HoldSettled
  <2>3. Holds[p] = amt[p] /\ amt[p] > 0
    BY <2>1, <1>b DEF Holds, Held
  <2>4. inv' = release(inv, amt[p])
    BY <1>4 DEF AnswerRejected, AnswerUnclear
  <2>5. inv'.balance = inv.balance
    BY <2>4, <1>b, EntryMethods
  <2> QED
    BY <2>2, <2>3, <2>5 DEF Ledger!GiveBack, Holds
<1>5. ASSUME NEW p \in Positions,
             RefreshAsset(p) \/ Land(p) \/ Reject(p) \/ OrphanDecided(p)
      PROVE  Ledger!Reread
  <2>1. Held' = Held /\ \A q \in Held : amt'[q] = amt[q]
    BY <1>5, <1>a DEF TypeOK, RefreshAsset, AfterExecution, Goto, Finish, Land,
       Reject, OrphanDecided, local, Held, Holding
  <2>2. Holds' = Holds
    BY <2>1 DEF Holds
  <2>3. inv' = inv \/ inv' = update_balance(inv, chain)
    BY <1>5 DEF RefreshAsset, Land, Reject, OrphanDecided
  <2>4. inv'.balance \in Nat
    <3>1. CASE inv' = inv
      BY <3>1, <1>b DEF Entry
    <3>2. CASE inv' = update_balance(inv, chain)
      BY <3>2, <1>b, EntryMethods
    <3> QED
      BY <2>3, <3>1, <3>2
  <2> QED
    BY <2>2, <2>4 DEF Ledger!Reread, Holds
<1>6. ASSUME Refresh PROVE Ledger!Reread
  <2>1. Holds' = Holds
    BY <1>6 DEF Refresh, local, Holds, Held
  <2>2. inv'.balance \in Nat
    BY <1>6, <1>b, EntryMethods DEF Refresh
  <2> QED
    BY <2>1, <2>2 DEF Ledger!Reread, Holds
<1> QED
  BY <1>1, <1>2, <1>3, <1>4, <1>5, <1>6
     DEF Next, Step, Chain, QuietNext, Ledger!LedgerNext

\* The rounds implement the ledger: a hold is granted only out of money no
\* other position holds, and is given back or paid out exactly once.
THEOREM RefinesLedger == Spec => LedgerRefined
<1>1. Init => Ledger!LedgerInit
  BY LimitsAssumption DEF Init, Ledger!LedgerInit, Held, Holding
<1>2. Inv /\ [Next]_vars => [Ledger!LedgerNext]_(Ledger!ledger)
  BY LedgerStep
<1> QED
  BY <1>1, <1>2, InvHolds, PTL DEF Spec, LedgerRefined, Ledger!LedgerSpec

-----------------------------------------------------------------------------
\* Every step keeps the tally in step with what was submitted and executed.
LEMMA CountsStep ==
  ASSUME ~LoopLiquidation, TypeOK, ControlConsistent, CountsConsistent, [Next]_vars
  PROVE  CountsConsistent'
<1> USE DEF TypeOK, CountsConsistent, ControlConsistent, LocalConsistent, PCs, Parked, Holding, Evaluating
<1>1. ASSUME NEW p \in Positions, Start(p) PROVE CountsConsistent'
  BY <1>1 DEF Start, Goto
<1>2. ASSUME NEW p \in Positions, CheckStatus(p) PROVE CountsConsistent'
  BY <1>2 DEF CheckStatus, Goto, Finish, map_evaluation, after_success, max_iterations
<1>3. ASSUME NEW p \in Positions, Size(p) PROVE CountsConsistent'
  BY <1>3 DEF Size, Goto, Finish, map_evaluation, after_success, validate_sizing
<1>4. ASSUME NEW p \in Positions, Simulate(p) PROVE CountsConsistent'
  BY <1>4 DEF Simulate, Goto, Finish
<1>5. ASSUME NEW p \in Positions, Reserve(p) PROVE CountsConsistent'
  BY <1>5 DEF Reserve, Goto, Finish, map_evaluation, after_success
<1>6. ASSUME NEW p \in Positions, Push(p) PROVE CountsConsistent'
  BY <1>6 DEF Push, Goto
<1>7. ASSUME NEW p \in Positions, Submit(p) PROVE CountsConsistent'
  BY <1>7 DEF Submit, Goto
<1>8. ASSUME NEW p \in Positions, AnswerLanded(p) PROVE CountsConsistent'
  BY <1>8 DEF AnswerLanded, Goto
<1>9. ASSUME NEW p \in Positions, AnswerRejected(p) PROVE CountsConsistent'
  BY <1>9 DEF AnswerRejected, Goto, Finish
<1>10. ASSUME NEW p \in Positions, AnswerUnclear(p) PROVE CountsConsistent'
  BY <1>10 DEF AnswerUnclear, Goto, Finish
<1>11. ASSUME NEW p \in Positions, Collateral(p) PROVE CountsConsistent'
  BY <1>11 DEF Collateral, Goto, Finish, AfterExecution, loop_enabled
<1>12. ASSUME NEW p \in Positions, RefreshAsset(p) PROVE CountsConsistent'
  BY <1>12 DEF RefreshAsset, Goto, Finish, AfterExecution, loop_enabled
<1>13. ASSUME NEW p \in Positions, Refetch(p) PROVE CountsConsistent'
  BY <1>13 DEF Refetch, Goto, Finish
<1>14. ASSUME NEW p \in Positions, Land(p) PROVE CountsConsistent'
  BY <1>14 DEF Land
<1>15. ASSUME NEW p \in Positions, Reject(p) PROVE CountsConsistent'
  BY <1>15 DEF Reject
<1>16. ASSUME NEW p \in Positions, OrphanDecided(p) PROVE CountsConsistent'
  BY <1>16 DEF OrphanDecided, local
<1>17. ASSUME Deposit PROVE CountsConsistent'
  BY <1>17 DEF Deposit, local
<1>18. ASSUME Refresh PROVE CountsConsistent'
  BY <1>18 DEF Refresh, local
<1>19. ASSUME BeginRound PROVE CountsConsistent'
  BY <1>19 DEF BeginRound
<1>20. ASSUME EndRound PROVE CountsConsistent'
  BY <1>20 DEF EndRound, local
<1>21. ASSUME SignalShutdown PROVE CountsConsistent'
  BY <1>21 DEF SignalShutdown, local
<1>22. ASSUME Stopped PROVE CountsConsistent'
  BY <1>22 DEF Stopped, vars, local
<1>23. ASSUME UNCHANGED vars PROVE CountsConsistent'
  BY <1>23 DEF vars, local
<1> QED
  BY <1>1, <1>2, <1>3, <1>4, <1>5, <1>6, <1>7, <1>8, <1>9, <1>10, <1>11,
      <1>12, <1>13, <1>14, <1>15, <1>16, <1>17, <1>18, <1>19, <1>20, <1>21, <1>22, <1>23 DEF Next, Step, Chain

\* RoundSummary: where a position gets one attempt per round, the round reports
\* as attempted the positions that submitted a transaction and as succeeded
\* those whose transaction executed, whatever the gateway answers.
THEOREM SummaryIsTrue == Spec => [](~LoopLiquidation => SummaryMatchesChain)
<1>1. Init => CountsConsistent
  BY DEF Init, CountsConsistent
<1>2. Inv /\ CountsConsistent /\ [Next]_vars => CountsConsistent'
  <2>1. CASE LoopLiquidation
    BY <2>1 DEF CountsConsistent
  <2>2. CASE ~LoopLiquidation
    BY <2>2, CountsStep DEF Inv
  <2> QED
    BY <2>1, <2>2
<1>3. Inv /\ CountsConsistent => (~LoopLiquidation => SummaryMatchesChain)
  <2> SUFFICES ASSUME Inv, CountsConsistent, ~LoopLiquidation, phase = "idle", ~dry_run
               PROVE  /\ attempted = Cardinality({p \in Positions : sent[p] > 0})
                      /\ succeeded = Cardinality({p \in Positions : executed[p] > 0})
    BY DEF SummaryMatchesChain
  <2>1. \A p \in Positions : /\ pc[p] \in Parked
                             /\ outcome[p] # "none" => pc[p] = "done"
    BY DEF Inv, ControlConsistent, LocalConsistent, InFlight
  <2>2. \A p \in Positions : sent[p] > 0 <=> outcome[p] \in {"Liquidated", "Execution"}
    BY <2>1 DEF CountsConsistent, Parked
  <2>3. \A p \in Positions : executed[p] > 0 <=> outcome[p] \in {"Liquidated"}
    BY <2>1 DEF CountsConsistent, Parked
  <2>4. /\ {p \in Positions : sent[p] > 0} = {p \in Positions : outcome[p] \in {"Liquidated", "Execution"}}
        /\ {p \in Positions : executed[p] > 0} = {p \in Positions : outcome[p] \in {"Liquidated"}}
    BY <2>2, <2>3
  <2> QED
    BY <2>4 DEF attempted, succeeded, Tallied
<1> QED
  BY <1>1, <1>2, <1>3, InvHolds, PTL DEF Spec

-----------------------------------------------------------------------------
(***************************************************************************)
(* A round is finite.                                                      *)
(***************************************************************************)

\* Every move of a position in a running round brings it nearer to its result:
\* liquidate() goes forward through its stages, and the way back to the status
\* check costs an iteration of the budget.
Nearer(p) == pc'[p] # pc[p] => StepsLeft(p)' < StepsLeft(p)

\* How far the stages are from the end of an iteration.
LEMMA AheadValues ==
  /\ Ahead["status"] = 9 /\ Ahead["size"] = 8 /\ Ahead["reserve"] = 7
  /\ Ahead["push"] = 6 /\ Ahead["submit"] = 5 /\ Ahead["await"] = 4
  /\ Ahead["collateral"] = 3 /\ Ahead["refresh_asset"] = 2
  /\ Ahead["refetch"] = 1
BY DEF Ahead

\* A position in flight is at one of them.
LEMMA StageAhead ==
  ASSUME NEW at \in PCs \ Parked
  PROVE  Ahead[at] \in 1..9
<1>1. at \in {"status", "size", "reserve", "push", "submit", "await",
              "collateral", "refresh_asset", "refetch"}
  BY DEF PCs, Parked, Holding
<1> QED
  BY <1>1, AheadValues

\* The measure of a position in flight: positive, and within one iteration it
\* falls with the stage.
LEMMA FlightMeasure ==
  ASSUME TypeOK, ControlConsistent, NEW p \in Positions, pc[p] \notin Parked
  PROVE  /\ StepsLeft(p) = 10 * (MaxIterations + 1 - iter[p]) + Ahead[pc[p]]
         /\ StepsLeft(p) > 0
         /\ iter[p] \in 1..(MaxIterations + 1)
         /\ Ahead[pc[p]] \in 1..9
<1>1. iter[p] \in 1..(MaxIterations + 1)
  BY LimitsAssumption DEF TypeOK, ControlConsistent, BudgetConsistent
<1>2. Ahead[pc[p]] \in 1..9
  BY StageAhead DEF TypeOK
<1>3. StepsLeft(p) = 10 * (MaxIterations + 1 - iter[p]) + Ahead[pc[p]]
  BY DEF StepsLeft, Parked
<1> QED
  BY <1>1, <1>2, <1>3, LimitsAssumption

\* A step that moves position p alone moves it nearer.
LEMMA AdvanceStep ==
  ASSUME TypeOK, ControlConsistent, TypeOK', ControlConsistent',
         NEW p \in Positions, Step(p) \/ Chain(p)
  PROVE  Nearer(p)
<1> SUFFICES ASSUME pc'[p] # pc[p]
             PROVE  StepsLeft(p)' < StepsLeft(p)
  BY DEF Nearer
<1> USE DEF Parked
<1>0. /\ pc \in [Positions -> PCs] /\ MaxIterations \in Nat
      /\ iter \in [Positions -> 0..(MaxIterations + 1)]
  BY LimitsAssumption DEF TypeOK
<1>6. pc'[p] \in PCs
  BY DEF TypeOK
<1>1. CASE pc[p] = "queued"
  <2>1. pc'[p] = "status" /\ iter'[p] = 1
    BY <1>0, <1>1 DEF Step, Chain, Start, CheckStatus, Size, Simulate, Reserve,
       Push, Submit, AnswerLanded, AnswerRejected, AnswerUnclear, Collateral,
       RefreshAsset, Refetch, Land, Reject, Goto
  <2>2. StepsLeft(p) = 10 * (MaxIterations + 1)
    BY <1>1 DEF StepsLeft
  <2>3. StepsLeft(p)' = 10 * (MaxIterations + 1 - 1) + 9
    BY <2>1, AheadValues DEF StepsLeft
  <2> QED
    BY <2>2, <2>3, <1>0
<1>2. CASE pc[p] \notin Parked /\ pc'[p] = "done"
  <2>1. StepsLeft(p)' = 0
    BY <1>2 DEF StepsLeft
  <2> QED
    BY <2>1, <1>2, FlightMeasure
<1>3. CASE pc[p] \notin Parked /\ pc[p] # "refetch" /\ pc'[p] # "done"
  <2>1. /\ iter'[p] = iter[p] /\ pc'[p] \notin Parked
        /\ Ahead[pc'[p]] < Ahead[pc[p]]
    BY <1>0, <1>3, AheadValues DEF Step, Chain, Start, CheckStatus, Size, Simulate,
       Reserve, Push, Submit, AnswerLanded, AnswerRejected, AnswerUnclear,
       Collateral, RefreshAsset, Refetch, Land, Reject, Goto, Finish,
       AfterExecution
  <2>2. /\ StepsLeft(p) = 10 * (MaxIterations + 1 - iter[p]) + Ahead[pc[p]]
        /\ Ahead[pc[p]] \in 1..9 /\ iter[p] \in Nat
    BY <1>3, FlightMeasure
  <2>3. StepsLeft(p)' = 10 * (MaxIterations + 1 - iter[p]) + Ahead[pc'[p]]
    BY <2>1 DEF StepsLeft
  <2>4. Ahead[pc'[p]] \in 1..9
    BY <2>1, <1>6, StageAhead
  <2> QED
    BY <2>1, <2>2, <2>3, <2>4, <1>0
<1>4. CASE pc[p] = "refetch" /\ pc'[p] # "done"
  <2>1. pc'[p] = "status" /\ iter'[p] = iter[p] + 1
    BY <1>0, <1>4 DEF Step, Chain, Start, CheckStatus, Size, Simulate, Reserve,
       Push, Submit, AnswerLanded, AnswerRejected, AnswerUnclear, Collateral,
       RefreshAsset, Refetch, Land, Reject, Goto, Finish
  <2>2. StepsLeft(p)' = 10 * (MaxIterations + 1 - (iter[p] + 1)) + 9
    BY <2>1, AheadValues DEF StepsLeft
  <2>3. StepsLeft(p) = 10 * (MaxIterations + 1 - iter[p]) + 1
    BY <1>4, AheadValues DEF StepsLeft
  <2> QED
    BY <2>2, <2>3, <1>0
<1>5. pc[p] \notin {"idle", "done"}
  BY <1>0 DEF ControlConsistent, LocalConsistent, Step, Chain, Start, CheckStatus,
     Size, Simulate, Reserve, Push, Submit, AnswerLanded, AnswerRejected,
     AnswerUnclear, Collateral, RefreshAsset, Refetch, Land, Reject
<1> QED
  BY <1>1, <1>2, <1>3, <1>4, <1>5

\* The other steps of a running round move no position.
LEMMA OthersStay ==
  ASSUME TypeOK, [Next]_vars, phase = "running"
  PROVE  \A q \in Positions :
           \/ pc'[q] = pc[q]
           \/ Step(q) \/ Chain(q)
<1> SUFFICES ASSUME NEW q \in Positions, pc'[q] # pc[q]
             PROVE  Step(q) \/ Chain(q)
  OBVIOUS
<1>1. pc \in [Positions -> PCs]
  BY DEF TypeOK
<1>2. ASSUME NEW p \in Positions, Step(p) \/ Chain(p), p # q
      PROVE  FALSE
  BY <1>1, <1>2 DEF Step, Chain, Start, CheckStatus, Size, Simulate, Reserve,
     Push, Submit, AnswerLanded, AnswerRejected, AnswerUnclear, Collateral,
     RefreshAsset, Refetch, Land, Reject, Goto, Finish, AfterExecution
<1>3. ASSUME \/ \E p \in Positions : OrphanDecided(p)
             \/ Deposit \/ Refresh \/ BeginRound \/ EndRound
             \/ SignalShutdown \/ Stopped \/ UNCHANGED vars
      PROVE  FALSE
  BY <1>3 DEF OrphanDecided, Deposit, Refresh, BeginRound, EndRound,
     SignalShutdown, Stopped, vars, local
<1> QED
  BY <1>2, <1>3 DEF Next

\* The measure is a number of moves, bounded by the iterations.
LEMMA MeasureBounded ==
  ASSUME TypeOK, ControlConsistent, NEW p \in Positions
  PROVE  StepsLeft(p) \in 0..(10 * (MaxIterations + 1))
<1>0. MaxIterations \in Nat
  BY LimitsAssumption
<1>1. CASE pc[p] \notin Parked
  <2>1. /\ StepsLeft(p) = 10 * (MaxIterations + 1 - iter[p]) + Ahead[pc[p]]
        /\ iter[p] \in 1..(MaxIterations + 1) /\ Ahead[pc[p]] \in 1..9
    BY <1>1, FlightMeasure
  <2> QED
    BY <1>0, <2>1
<1>2. CASE pc[p] \in Parked
  BY <1>0, <1>2 DEF StepsLeft, Parked
<1> QED
  BY <1>1, <1>2

\* A round is finite, for any number of positions and any MAX_LOOP_ITERATIONS:
\* no behaviour of the chain, the gateway or the other positions lets one go
\* round in liquidate() without using up its iterations, of which there are
\* only so many.
THEOREM RoundIsFinite ==
  Spec => /\ [](\A p \in Positions : StepsLeft(p) \in 0..(10 * (MaxIterations + 1)))
          /\ RoundAdvances
<1>1. Inv /\ Inv' /\ [Next]_vars =>
        [phase = "running" =>
           \A p \in Positions : pc'[p] # pc[p] => StepsLeft(p)' < StepsLeft(p)]_vars
  <2> SUFFICES ASSUME Inv, Inv', [Next]_vars, phase = "running",
                      NEW p \in Positions, pc'[p] # pc[p]
               PROVE  StepsLeft(p)' < StepsLeft(p)
    OBVIOUS
  <2>1. TypeOK /\ ControlConsistent /\ TypeOK' /\ ControlConsistent'
    BY DEF Inv
  <2>2. Step(p) \/ Chain(p)
    BY <2>1, OthersStay
  <2> QED
    BY <2>1, <2>2, AdvanceStep DEF Nearer
<1>2. Inv => \A p \in Positions : StepsLeft(p) \in 0..(10 * (MaxIterations + 1))
  BY MeasureBounded DEF Inv
<1> QED
  BY <1>1, <1>2, InvHolds, PTL DEF Spec, RoundAdvances
=============================================================================
