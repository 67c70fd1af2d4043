---------------------------- MODULE ServiceProofs ----------------------------
(***************************************************************************)
(* The life of the process, for any set of markets and any threshold, and  *)
(* the notifier it calls, for any number of borrowers, kinds and permits   *)
(* and for any cooldown.  Every step of the service is a step of the       *)
(* notifier or leaves it alone.                                            *)
(***************************************************************************)
EXTENDS Service, FiniteSetTheorems, TLAPS

(***************************************************************************)
(* The notifier.                                                           *)
(***************************************************************************)

\* A permit taken is a message in flight, whatever else the step does.
LEMMA SpawnSendKeepsPermits ==
  ASSUME permits \in 0..MaxInflight, sending \in 0..MaxInflight,
         permits + sending = MaxInflight, spawn_send
  PROVE  /\ permits' \in 0..MaxInflight
         /\ sending' \in 0..MaxInflight
         /\ permits' + sending' = MaxInflight
  BY NotifierAssumption DEF spawn_send, Queued

\* The calls that touch the dedup map keep it in step with what was accepted.
LEMMA LiquidationFailedKeepsDedup ==
  ASSUME NotifierInv, NEW key \in Keys, LiquidationFailed(key), drain' = drain, drain = "no"
  PROVE  NotifierInv'
  <1>0. Cooldown \in 0..Cooldown /\ 0 \in 0..Cooldown
    BY NotifierAssumption
  <1>1. CASE ~should_send_failure(key)
    BY <1>1 DEF LiquidationFailed, NotifierInv, TypeOK, NoFlood, DrainDelivers
  <1>2. CASE should_send_failure(key) /\ Queued
    <2>1. /\ permits' \in 0..MaxInflight
          /\ sending' \in 0..MaxInflight
          /\ permits' + sending' = MaxInflight
      BY <1>2, SpawnSendKeepsPermits DEF LiquidationFailed, NotifierInv, TypeOK
    <2>2. dedup' \in [Keys -> 0..Cooldown] /\ told' \in [Keys -> 0..Cooldown]
      BY <1>0, <1>2 DEF LiquidationFailed, NotifierInv, TypeOK
    <2>3. \A k \in Keys : told'[k] = dedup'[k]
      BY <1>2 DEF LiquidationFailed, NotifierInv, TypeOK
    <2>4. ~(told[key] < Cooldown)
      BY <1>2, NotifierAssumption DEF should_send_failure, NotifierInv, TypeOK
    <2>5. flooded' = FALSE
      BY <1>2, <2>4 DEF LiquidationFailed, NotifierInv, NoFlood
    <2> QED
      BY <2>1, <2>2, <2>3, <2>5 DEF NotifierInv, TypeOK, NoFlood, DrainDelivers
  <1>3. CASE should_send_failure(key) /\ ~Queued
    <2>1. /\ permits' = permits /\ sending' = sending /\ told' = told
          /\ dedup' = [dedup EXCEPT ![key] = Cooldown]
      BY <1>3 DEF LiquidationFailed, spawn_send, rollback_failure_dedup
    <2>2. dedup[key] = Cooldown
      BY <1>3, NotifierAssumption DEF should_send_failure, NotifierInv, TypeOK
    <2>3. dedup' = dedup
      BY <2>1, <2>2 DEF NotifierInv, TypeOK
    <2>4. flooded' = FALSE
      BY <1>3 DEF LiquidationFailed, NotifierInv, NoFlood
    <2> QED
      BY <2>1, <2>3, <2>4 DEF NotifierInv, TypeOK, NoFlood, DrainDelivers
  <1> QED
    BY <1>1, <1>2, <1>3

LEMMA ClearKeepsDedup ==
  ASSUME NotifierInv, NEW borrower \in Borrowers, clear_failure_dedup_for(borrower),
         drain' = drain
  PROVE  NotifierInv'
  <1>0. Cooldown \in 0..Cooldown
    BY NotifierAssumption
  <1>1. dedup' \in [Keys -> 0..Cooldown] /\ told' \in [Keys -> 0..Cooldown]
    BY <1>0 DEF clear_failure_dedup_for, NotifierInv, TypeOK
  <1>2. \A key \in Keys : told'[key] = dedup'[key]
    BY DEF clear_failure_dedup_for, NotifierInv, TypeOK
  <1> QED
    BY <1>1, <1>2 DEF clear_failure_dedup_for, NotifierInv, TypeOK, NoFlood, DrainDelivers

\* Every step of the notifier keeps its invariant.
LEMMA NotifierStep ==
  ASSUME NotifierInv, [NotifierNext]_notifier
  PROVE  NotifierInv'
  <1> USE NotifierAssumption
  <1>1. CASE Notify
    <2>1. /\ permits' \in 0..MaxInflight
          /\ sending' \in 0..MaxInflight
          /\ permits' + sending' = MaxInflight
      BY <1>1, SpawnSendKeepsPermits DEF Notify, NotifierInv, TypeOK
    <2> QED
      BY <1>1, <2>1 DEF Notify, NotifierInv, TypeOK, NoFlood, DrainDelivers
  <1>2. ASSUME NEW key \in Keys, NotifyLiquidationFailed(key)
        PROVE  NotifierInv'
    BY <1>2, LiquidationFailedKeepsDedup DEF NotifyLiquidationFailed
  <1>3. ASSUME NEW borrower \in Borrowers, ClearFailureDedupFor(borrower)
        PROVE  NotifierInv'
    BY <1>3, ClearKeepsDedup DEF ClearFailureDedupFor
  <1>4. CASE SendDone
    BY <1>4 DEF SendDone, NotifierInv, TypeOK, NoFlood, DrainDelivers
  <1>5. CASE Tick
    <2>1. \A age \in 0..Cooldown : Older(age) \in 0..Cooldown
      BY DEF Older
    <2>2. dedup' \in [Keys -> 0..Cooldown] /\ told' \in [Keys -> 0..Cooldown]
      BY <1>5, <2>1 DEF Tick, NotifierInv, TypeOK
    <2>3. \A key \in Keys : told'[key] = dedup'[key]
      BY <1>5 DEF Tick, NotifierInv, TypeOK
    <2> QED
      BY <1>5, <2>2, <2>3 DEF Tick, NotifierInv, TypeOK, NoFlood, DrainDelivers
  <1>6. CASE BeginDrain
    BY <1>6 DEF BeginDrain, NotifierInv, TypeOK, NoFlood, DrainDelivers
  <1>7. CASE EndDrain
    BY <1>7 DEF EndDrain, NotifierInv, TypeOK, NoFlood, DrainDelivers
  <1>8. CASE UNCHANGED notifier
    BY <1>8 DEF notifier, NotifierInv, TypeOK, NoFlood, DrainDelivers
  <1> QED
    BY <1>1, <1>2, <1>3, <1>4, <1>5, <1>6, <1>7, <1>8 DEF NotifierNext

LEMMA NotifierInitially == NotifierInit => NotifierInv
  <1> SUFFICES ASSUME NotifierInit PROVE NotifierInv
    OBVIOUS
  <1>1. Cooldown \in 0..Cooldown /\ MaxInflight \in 0..MaxInflight /\ 0 \in 0..MaxInflight
    BY NotifierAssumption
  <1>2. TypeOK
    BY <1>1 DEF NotifierInit, TypeOK
  <1> QED
    BY <1>2, NotifierAssumption DEF NotifierInit, NotifierInv, NoFlood, DrainDelivers, TypeOK

\* The inductive invariant of notifier.rs holds in every reachable state.
THEOREM NotifierInvHolds == NotifierSpec => []NotifierInv
  <1>1. NotifierInv /\ [NotifierNext]_notifier => NotifierInv'
    BY NotifierStep
  <1> QED
    BY <1>1, NotifierInitially, PTL DEF NotifierSpec

\* A failure is silenced only by a message about it that was accepted, since
\* should_send_failure's entry is rolled back when spawn_send drops the message.
THEOREM SilenceSound == NotifierSpec => []SilenceIsEarned
  <1>1. NotifierInv => SilenceIsEarned
    BY DEF NotifierInv, SilenceIsEarned
  <1> QED
    BY <1>1, NotifierInvHolds, PTL

\* The cooldown of notify_liquidation_failed is never cut short.
THEOREM CooldownKept == NotifierSpec => []NoFlood
  <1>1. NotifierInv => NoFlood
    BY DEF NotifierInv
  <1> QED
    BY <1>1, NotifierInvHolds, PTL

\* A drain that acquired every permit has seen every accepted message out.
THEOREM DrainSound == NotifierSpec => []DrainDelivers
  <1>1. NotifierInv => DrainDelivers
    BY DEF NotifierInv
  <1> QED
    BY <1>1, NotifierInvHolds, PTL

-----------------------------------------------------------------------------
(***************************************************************************)
(* The service.                                                            *)
(***************************************************************************)
\* A step of the service calls the notifier only before the drain begins, so
\* that it is a step NotifierNext allows.
LEMMA NotifierSimulated ==
  ASSUME ServiceInv, [ServiceNext]_service
  PROVE  [NotifierNext]_notifier
  <1> USE DEF ServiceInv, Steps
  <1>1. CASE BatchSwapFailed
    BY <1>1 DEF BatchSwapFailed, NotifierNext, Notify
  <1>2. CASE ScanNotify
    <2>1. drain = "no" /\ drain' = drain
      BY <1>2 DEF ScanNotify
    <2>2. CASE spawn_send /\ UNCHANGED <<dedup, told, flooded>>
      BY <2>1, <2>2 DEF NotifierNext, Notify
    <2>3. ASSUME NEW key \in Keys, LiquidationFailed(key) PROVE [NotifierNext]_notifier
      BY <2>1, <2>3 DEF NotifierNext, NotifyLiquidationFailed
    <2>4. ASSUME NEW borrower \in Borrowers, clear_failure_dedup_for(borrower)
          PROVE  [NotifierNext]_notifier
      BY <2>1, <2>4 DEF NotifierNext, ClearFailureDedupFor
    <2> QED
      BY <1>2, <2>2, <2>3, <2>4 DEF ScanNotify
  <1>3. CASE ScanOk
    BY <1>3 DEF ScanOk, NotifierNext, Notify, notifier
  <1>4. CASE ScanFailed
    BY <1>4 DEF ScanFailed, NotifierNext, Notify, notifier
  <1>5. CASE Drain
    BY <1>5 DEF Drain, NotifierNext
  <1>6. CASE Exit
    BY <1>6 DEF Exit, NotifierNext
  <1>7. CASE Background
    BY <1>7 DEF Background, NotifierNext
  <1>8. CASE UNCHANGED notifier
    BY <1>8
  <1> QED
    BY <1>1, <1>2, <1>3, <1>4, <1>5, <1>6, <1>7, <1>8
    DEF ServiceNext, MainStep, Startup, RegistryRefresh, Top, SelectShutdown,
        SelectTick, BeginRound, EndRound, NextMarket, Signal, Wake,
        SecondSignal, Gone, service, notifier

LEMMA ServiceStep ==
  ASSUME ServiceInv, [ServiceNext]_service
  PROVE  ServiceInv'
  <1> USE ServiceAssumption
  <1>0. NotifierInv'
    BY NotifierSimulated, NotifierStep DEF ServiceInv
  <1>1. CASE Signal
    BY <1>0, <1>1 DEF Signal, ServiceInv, ServiceTypeOK, NothingNewAfterSignal,
         AlertsPaired, notifier, Steps, Ended, Running
  <1>2. CASE Wake
    BY <1>0, <1>2 DEF Wake, ServiceInv, ServiceTypeOK, NothingNewAfterSignal,
         AlertsPaired, notifier, Steps, Ended, Running
  <1>3. CASE SecondSignal
    BY <1>0, <1>3 DEF SecondSignal, ServiceInv, ServiceTypeOK, NothingNewAfterSignal,
         AlertsPaired, notifier, Steps, Ended, Running
  <1>4. CASE Startup
    BY <1>0, <1>4 DEF Startup, refresh_registry, ServiceInv, ServiceTypeOK,
         NothingNewAfterSignal, AlertsPaired, notifier, Steps, Ended
  <1>5. CASE RegistryRefresh
    BY <1>0, <1>5 DEF RegistryRefresh, refresh_registry, ServiceInv, ServiceTypeOK,
         NothingNewAfterSignal, AlertsPaired, notifier, Steps, Ended
  <1>6. CASE Top
    BY <1>0, <1>6 DEF Top, ServiceInv, ServiceTypeOK, NothingNewAfterSignal,
         AlertsPaired, notifier, Steps, Ended
  <1>7. CASE SelectShutdown
    BY <1>0, <1>7 DEF SelectShutdown, ServiceInv, ServiceTypeOK, NothingNewAfterSignal,
         AlertsPaired, notifier, Steps, Ended
  <1>8. ASSUME NEW branch \in {"registry", "cycle"}, SelectTick(branch)
        PROVE  ServiceInv'
    BY <1>0, <1>8 DEF SelectTick, Begin, ServiceInv, ServiceTypeOK,
         NothingNewAfterSignal, AlertsPaired, notifier, Steps, Ended
  <1>9. CASE BatchSwapFailed
    BY <1>0, <1>9 DEF BatchSwapFailed, loop, ServiceInv, ServiceTypeOK,
         NothingNewAfterSignal, AlertsPaired, Steps, Ended
  <1>10. CASE BeginRound
    BY <1>0, <1>10 DEF BeginRound, ServiceInv, ServiceTypeOK, NothingNewAfterSignal,
         AlertsPaired, notifier, Steps, Ended
  <1>11. CASE EndRound
    BY <1>0, <1>11 DEF EndRound, EndOfCycle, ServiceInv, ServiceTypeOK,
         NothingNewAfterSignal, AlertsPaired, notifier, Steps, Ended
  <1>12. ASSUME NEW m \in Markets, NextMarket(m)
         PROVE  ServiceInv'
    BY <1>0, <1>12 DEF NextMarket, Begin, ServiceInv, ServiceTypeOK,
         NothingNewAfterSignal, AlertsPaired, notifier, Steps, Ended
  <1>13. CASE ScanNotify
    BY <1>0, <1>13 DEF ScanNotify, loop, ServiceInv, ServiceTypeOK,
         NothingNewAfterSignal, AlertsPaired, Steps, Ended
  <1>14. CASE ScanOk
    <2>1. market \in Markets
      BY <1>14 DEF ScanOk, ServiceInv
    <2>2. /\ scan_failure_counts' = [scan_failure_counts EXCEPT ![market] = 0]
          /\ open' = IF RecoveryDue(market) THEN [open EXCEPT ![market] = @ - 1] ELSE open
      BY <1>14 DEF ScanOk
    <2>3. /\ scan_failure_counts' \in [Markets -> 0..MaxFailures]
          /\ open' \in [Markets -> Int]
      BY <2>1, <2>2 DEF ServiceInv, ServiceTypeOK
    <2>4. AlertsPaired'
      BY <2>1, <2>2 DEF RecoveryDue, AlertsPaired, ServiceInv, ServiceTypeOK
    <2> QED
      BY <1>0, <1>14, <2>3, <2>4 DEF ScanOk, ServiceInv, ServiceTypeOK,
         NothingNewAfterSignal, Steps, Ended
  <1>15. CASE ScanFailed
    <2>1. market \in Markets
      BY <1>15 DEF ScanFailed, ServiceInv
    <2>2. /\ scan_failure_counts[market] < MaxFailures
          /\ scan_failure_counts' = [scan_failure_counts EXCEPT ![market] = @ + 1]
          /\ open' = IF AlertDue(market) THEN [open EXCEPT ![market] = @ + 1] ELSE open
      BY <1>15 DEF ScanFailed
    <2>3. /\ scan_failure_counts' \in [Markets -> 0..MaxFailures]
          /\ open' \in [Markets -> Int]
      BY <2>1, <2>2 DEF ServiceInv, ServiceTypeOK
    <2>4. AlertsPaired'
      BY <2>1, <2>2 DEF AlertDue, AlertsPaired, ServiceInv, ServiceTypeOK
    <2> QED
      BY <1>0, <1>15, <2>3, <2>4 DEF ScanFailed, ServiceInv, ServiceTypeOK,
         NothingNewAfterSignal, Steps, Ended
  <1>16. CASE Drain
    BY <1>0, <1>16 DEF Drain, BeginDrain, ServiceInv, ServiceTypeOK,
         NothingNewAfterSignal, AlertsPaired, Steps, Ended
  <1>17. CASE Exit
    BY <1>0, <1>17 DEF Exit, EndDrain, ServiceInv, ServiceTypeOK,
         NothingNewAfterSignal, AlertsPaired, Steps, Ended
  <1>18. CASE Background
    BY <1>0, <1>18 DEF Background, SendDone, Tick, loop, ServiceInv, ServiceTypeOK,
         NothingNewAfterSignal, AlertsPaired, Steps, Ended
  <1>19. CASE UNCHANGED service
    BY <1>0, <1>19 DEF service, notifier, loop, ServiceInv, ServiceTypeOK,
         NothingNewAfterSignal, AlertsPaired
  <1> QED
    BY <1>1, <1>2, <1>3, <1>4, <1>5, <1>6, <1>7, <1>8, <1>9, <1>10, <1>11, <1>12,
       <1>13, <1>14, <1>15, <1>16, <1>17, <1>18, <1>19
    DEF ServiceNext, MainStep, Gone

LEMMA ServiceInitially == ServiceInit => ServiceInv
  <1> SUFFICES ASSUME ServiceInit PROVE ServiceInv
    OBVIOUS
  <1>1. NotifierInv
    BY NotifierInitially DEF ServiceInit
  <1>a. 0 \in 0..MaxFailures /\ 0 \in 0..2 /\ FALSE \in BOOLEAN
    BY ServiceAssumption
  <1>b. scan_failure_counts \in [Markets -> 0..MaxFailures] /\ open \in [Markets -> Int]
    BY <1>a DEF ServiceInit
  <1>c. shutdown \in BOOLEAN /\ wake \in BOOLEAN
    BY DEF ServiceInit
  <1>2. ServiceTypeOK
    BY <1>a, <1>b, <1>c DEF ServiceInit, ServiceTypeOK, Steps
  <1>3. AlertsPaired
    BY ServiceAssumption DEF ServiceInit, AlertsPaired
  <1> QED
    BY <1>1, <1>2, <1>3
    DEF ServiceInit, NotifierInit, ServiceInv, NothingNewAfterSignal, Steps

\* The inductive invariant of the process holds in every reachable state.
THEOREM ServiceInvHolds == ServiceSpec => []ServiceInv
  <1>1. ServiceInv /\ [ServiceNext]_service => ServiceInv'
    BY ServiceStep
  <1> QED
    BY <1>1, ServiceInitially, PTL DEF ServiceSpec

\* One alert and one recovery per outage, for any threshold, however often the
\* registry drops and readmits the market (run_liquidation_round).
THEOREM AlertsSound == ServiceSpec => []AlertsPaired
  <1>1. ServiceInv => AlertsPaired
    BY DEF ServiceInv
  <1> QED
    BY <1>1, ServiceInvHolds, PTL

\* No branch of run's select and no market begins after a signal, but for the
\* one tick that may win the race against the wake.
THEOREM ShutdownSound == ServiceSpec => []NothingNewAfterSignal
  <1>1. ServiceInv => NothingNewAfterSignal
    BY DEF ServiceInv
  <1> QED
    BY <1>1, ServiceInvHolds, PTL

\* run and run_once return with no message left behind unless the drain timed
\* out.
THEOREM ExitSound == ServiceSpec => []ExitDelivers
  <1>1. ServiceInv => ExitDelivers
    BY DEF ServiceInv, NotifierInv, DrainDelivers, ExitDelivers
  <1> QED
    BY <1>1, ServiceInvHolds, PTL

\* The service uses the notifier as its specification demands: nobody sends
\* once drain has been called.  The service implements NotifierSpec.
THEOREM ServiceUsesNotifier == ServiceSpec => NotifierSpec
  <1>1. ServiceInit => NotifierInit
    BY DEF ServiceInit
  <1>2. ServiceInv /\ [ServiceNext]_service => [NotifierNext]_notifier
    BY NotifierSimulated
  <1> QED
    BY <1>1, <1>2, ServiceInvHolds, PTL DEF ServiceSpec, NotifierSpec

-----------------------------------------------------------------------------
(***************************************************************************)
(* How far the main task is from the top of its loop.                      *)
(***************************************************************************)

\* run_once never enters the loop of run.
OnceStraight == mode = "once" => pc \notin {"top", "select", "registry"}

LEMMA OnceStep ==
  ASSUME ServiceInv, OnceStraight, [ServiceNext]_service
  PROVE  OnceStraight'
  <1>1. mode' = mode
    BY DEF ServiceNext, MainStep, Startup, RegistryRefresh, Top, SelectShutdown, SelectTick,
       BeginRound, EndRound, NextMarket, ScanOk, ScanFailed, Drain, Exit, Signal, Wake,
       SecondSignal, BatchSwapFailed, ScanNotify, Background, Gone, service, loop
  <1>2. CASE MainStep
    BY <1>1, <1>2 DEF MainStep, Startup, RegistryRefresh, Top, SelectShutdown, SelectTick,
       BeginRound, EndRound, EndOfCycle, NextMarket, ScanOk, ScanFailed, Drain, Exit, OnceStraight
  <1>3. CASE \/ Signal \/ Wake \/ SecondSignal \/ BatchSwapFailed \/ ScanNotify
             \/ Background \/ Gone \/ UNCHANGED service
    BY <1>1, <1>3 DEF Signal, Wake, SecondSignal, BatchSwapFailed, ScanNotify, Background,
       Gone, service, loop, OnceStraight
  <1> QED
    BY <1>2, <1>3 DEF ServiceNext

\* A set of markets is finite, and no larger than all of them.
LEMMA MarketsCounted ==
  ASSUME NEW S \in SUBSET Markets
  PROVE  /\ IsFiniteSet(S) /\ Cardinality(S) \in Nat /\ Cardinality(Markets) \in Nat
         /\ Cardinality(S) <= Cardinality(Markets)
         /\ \A m \in S : Cardinality(S \ {m}) = Cardinality(S) - 1
  <1>1. IsFiniteSet(Markets)
    BY ServiceAssumption
  <1>2. IsFiniteSet(S) /\ Cardinality(S) <= Cardinality(Markets)
    BY <1>1, FS_Subset
  <1>3. Cardinality(S) \in Nat /\ Cardinality(Markets) \in Nat
    BY <1>1, <1>2, FS_CardinalityType
  <1>4. \A m \in S : Cardinality(S \ {m}) = Cardinality(S) - 1
    BY <1>2, FS_RemoveElement
  <1> QED
    BY <1>2, <1>3, <1>4

\* Every move of the main task but the one from the top of the loop leads
\* nearer to that place, or to the exit.
LEMMA MainAdvances ==
  ASSUME ServiceInv, OnceStraight, [ServiceNext]_service, pc' # pc,
         ~(pc = "top" /\ mode = "loop" /\ ~shutdown)
  PROVE  StepsLeft' < StepsLeft
  <1>0. /\ markets \in SUBSET Markets /\ todo \in SUBSET Markets
        /\ mode \in {"loop", "once"} /\ pc \in Steps \cup Ended
    BY DEF ServiceInv, ServiceTypeOK
  <1>1. /\ Cardinality(markets) \in Nat /\ Cardinality(todo) \in Nat
        /\ Cardinality(Markets) \in Nat /\ Cardinality(markets) <= Cardinality(Markets)
        /\ \A m \in todo : Cardinality(todo \ {m}) = Cardinality(todo) - 1
    BY <1>0, MarketsCounted
  <1>2. CASE Startup
    <2>1. markets' \in SUBSET Markets
      BY <1>0, <1>2 DEF Startup, refresh_registry
    <2>2. Cardinality(markets') \in Nat /\ Cardinality(markets') <= Cardinality(Markets)
      BY <2>1, MarketsCounted
    <2>3. pc = "start" /\ pc' \in {"top", "cycle", "drain"}
      BY <1>2 DEF Startup
    <2> QED
      BY <1>1, <2>2, <2>3 DEF StepsLeft
  <1>3. CASE RegistryRefresh \/ Top
    BY <1>0, <1>3 DEF RegistryRefresh, Top, OnceStraight, StepsLeft
  <1>4. CASE SelectShutdown \/ \E branch \in {"registry", "cycle"} : SelectTick(branch)
    BY <1>1, <1>4 DEF SelectShutdown, SelectTick, StepsLeft
  <1>5. CASE BeginRound
    BY <1>1, <1>5 DEF BeginRound, StepsLeft
  <1>6. CASE EndRound
    BY <1>1, <1>6 DEF EndRound, EndOfCycle, StepsLeft
  <1>7. ASSUME NEW m \in Markets, NextMarket(m) PROVE StepsLeft' < StepsLeft
    <2>1. pc = "market" /\ pc' = "scan" /\ m \in todo /\ todo' = todo \ {m}
      BY <1>7 DEF NextMarket
    <2>2. Cardinality(todo') = Cardinality(todo) - 1
      BY <1>1, <2>1
    <2>3. StepsLeft = 2 * Cardinality(todo) + 4 /\ StepsLeft' = 2 * Cardinality(todo') + 5
      BY <2>1 DEF StepsLeft
    <2> QED
      BY <1>1, <2>2, <2>3
  <1>8. CASE ScanOk \/ ScanFailed
    BY <1>1, <1>8 DEF ScanOk, ScanFailed, StepsLeft
  <1>9. CASE Drain \/ Exit
    BY <1>9 DEF Drain, Exit, StepsLeft
  <1>10. CASE SecondSignal
    <2>1. pc \in Steps /\ pc' = "killed"
      BY <1>0, <1>10 DEF SecondSignal, Running
    <2>2. StepsLeft' = 0
      BY <2>1 DEF StepsLeft
    <2>3. StepsLeft > 0
      BY <1>1, <2>1 DEF StepsLeft, Steps
    <2> QED
      BY <2>2, <2>3
  <1>11. CASE \/ Signal \/ Wake \/ BatchSwapFailed \/ ScanNotify
              \/ Background \/ Gone \/ UNCHANGED service
    BY <1>11 DEF Signal, Wake, BatchSwapFailed, ScanNotify, Background, Gone, service, loop
  <1> QED
    BY <1>2, <1>3, <1>4, <1>5, <1>6, <1>7, <1>8, <1>9, <1>10, <1>11 DEF ServiceNext, MainStep

\* The main task goes round only at the top of run's loop and only without a
\* signal, for any number of markets: a cycle visits each of them once at most,
\* and the way out of the process is bounded.
THEOREM MainTaskIsFinite ==
  ServiceSpec => [](StepsLeft \in 0..(2 * Cardinality(Markets) + 6)) /\ LoopsOnlyAtTop
  <1> DEFINE Straight == ServiceInv /\ OnceStraight
  <1>1. ServiceInit => Straight
    BY ServiceInitially DEF ServiceInit, OnceStraight
  <1>2. Straight /\ [ServiceNext]_service => Straight'
    BY ServiceStep, OnceStep
  <1>3. Straight /\ [ServiceNext]_service =>
          [pc' # pc => \/ pc = "top" /\ mode = "loop" /\ ~shutdown
                       \/ StepsLeft' < StepsLeft]_service
    BY MainAdvances
  <1>4. Straight => StepsLeft \in 0..(2 * Cardinality(Markets) + 6)
    <2> SUFFICES ASSUME ServiceInv PROVE StepsLeft \in 0..(2 * Cardinality(Markets) + 6)
      OBVIOUS
    <2>1. markets \in SUBSET Markets /\ todo \in SUBSET Markets
      BY DEF ServiceInv, ServiceTypeOK
    <2>2. /\ Cardinality(markets) \in Nat /\ Cardinality(todo) \in Nat
          /\ Cardinality(Markets) \in Nat
          /\ Cardinality(markets) <= Cardinality(Markets)
          /\ Cardinality(todo) <= Cardinality(Markets)
      BY <2>1, MarketsCounted
    <2> QED
      BY <2>2 DEF StepsLeft
  <1> HIDE DEF Straight
  <1> QED
    BY <1>1, <1>2, <1>3, <1>4, PTL DEF ServiceSpec, LoopsOnlyAtTop
=============================================================================
