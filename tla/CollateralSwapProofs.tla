------------------------ MODULE CollateralSwapProofs ------------------------
(***************************************************************************)
(* The safety properties of CollateralSwap for every number of attempts    *)
(* and polls and every amount of collateral.  All of them follow from one  *)
(* inductive invariant, SwapInv.                                           *)
(***************************************************************************)
EXTENDS CollateralSwap, TLAPS

\* Zero and one attempt, and zero polls, are within the bounds.
LEMMA BoundsNonEmpty ==
  {0, 1} \subseteq 0..MaxAttempts /\ 0 \in 0..PollLimit
  BY SwapLimits

\* A call starts from a clean slate, whatever the previous one left open.
LEMMA CallStarts ==
  ASSUME SwapInv, NEW who \in {"batch", "jit"}, NEW a \in Nat,
         Begin(who, a), wallet' \in Nat, UNCHANGED <<tracked, stray>>,
         stage' \in {"refresh", "batch", "round"}
  PROVE  SwapInv'
  <1>1. alerted' \in BOOLEAN
    BY DEF Begin
  <1>2. TypeOK'
    BY <1>1, BoundsNonEmpty DEF SwapInv, TypeOK, Begin, BeforeTransfer
  <1>3. QED
    BY <1>2 DEF Begin, SwapInv, CallConsistent, DepositsOnce,
       DefinitiveIsAccounted, OkIsSettled, UnaccountedIsAlerted,
       PreDeposit, Retryable, BeforeTransfer, AfterTransfer

\* The first call has not begun.
LEMMA SwapInit == Init => SwapInv
  <1> SUFFICES ASSUME Init PROVE SwapInv
    OBVIOUS
  <1>1. TypeOK
    <2>1. alerted \in BOOLEAN
      BY DEF Init
    <2>2. wallet \in Nat
      BY SwapLimits DEF Init
    <2>3. QED
      BY <2>1, <2>2, BoundsNonEmpty DEF Init, TypeOK, NoStray
  <1>2. QED
    BY <1>1 DEF Init, SwapInv, CallConsistent, DepositsOnce, PreDeposit,
       Retryable, DefinitiveIsAccounted, OkIsSettled, UnaccountedIsAlerted,
       BeforeTransfer, AfterTransfer

\* The steps between calls, which leave the last call alone or start a new one.
LEMMA CycleStep ==
  SwapInv /\ (RefreshCollateral \/ BeginBatch \/ SkipBatch \/ BeginJit)
    => SwapInv'
  <1> SUFFICES ASSUME SwapInv,
                      RefreshCollateral \/ BeginBatch \/ SkipBatch \/ BeginJit
               PROVE  SwapInv'
    OBVIOUS
  <1>1. ASSUME UNCHANGED <<pc, call, dep, venue, stray>>, wallet' \in Nat,
               tracked' \in Nat, stage' \in {"refresh", "batch", "round"}
        PROVE  SwapInv'
    BY <1>1 DEF SwapInv, TypeOK, CallConsistent, DepositsOnce, call, Open,
       DefinitiveIsAccounted, OkIsSettled, UnaccountedIsAlerted
  <1>2. CASE RefreshCollateral
    BY <1>1, <1>2 DEF RefreshCollateral, SwapInv, TypeOK
  <1>3. CASE BeginBatch
    BY <1>3, CallStarts DEF BeginBatch, SwapInv, TypeOK
  <1>4. CASE SkipBatch
    BY <1>1, <1>4 DEF SkipBatch, SwapInv, TypeOK
  <1>5. CASE BeginJit
    <2>1. PICK seized \in 1..MaxCollateral :
            /\ wallet' = wallet + seized
            /\ Begin("jit", seized) \/ UNCHANGED <<pc, call, dep, venue>>
      BY <1>5 DEF BeginJit
    <2>2. wallet' \in Nat /\ seized \in Nat
      BY <2>1, SwapLimits DEF SwapInv, TypeOK
    <2>3. QED
      BY <1>1, <1>5, <2>1, <2>2, CallStarts DEF BeginJit, SwapInv, TypeOK
  <1>6. QED BY <1>2, <1>3, <1>4, <1>5

\* The steps of a call before its transfer: an attempt may fail and be made
\* again, because nothing has been deposited yet.
LEMMA AttemptStep ==
  SwapInv /\ (Backoff \/ Quote \/ Prepare \/ Transfer) => SwapInv'
  <1> SUFFICES ASSUME SwapInv, Backoff \/ Quote \/ Prepare \/ Transfer
               PROVE  SwapInv'
    OBVIOUS
  <1> USE SwapLimits DEF SwapInv, TypeOK, CallConsistent, DepositsOnce,
        DefinitiveIsAccounted, OkIsSettled, UnaccountedIsAlerted, PreDeposit,
        PostDeposit, Retryable, BeforeTransfer, AfterTransfer, Fail, Return,
        is_retryable
  <1>1. CASE Backoff BY <1>1 DEF Backoff
  <1>2. CASE Quote BY <1>2 DEF Quote
  <1>3. CASE Prepare BY <1>3 DEF Prepare
  <1>4. CASE Transfer BY <1>4 DEF Transfer
  <1>5. QED BY <1>1, <1>2, <1>3, <1>4

\* The steps of a call from its transfer's answer on: none leads back to
\* another attempt, and each result is one the state of the deposit supports.
LEMMA OutcomeStep ==
  SwapInv /\ (TransferAnswered \/ RefundCheck \/ NotifyVenue \/ Poll)
    => SwapInv'
  <1> SUFFICES ASSUME SwapInv,
                      TransferAnswered \/ RefundCheck \/ NotifyVenue \/ Poll
               PROVE  SwapInv'
    OBVIOUS
  <1> USE SwapLimits DEF SwapInv, TypeOK, CallConsistent, DepositsOnce,
        DefinitiveIsAccounted, OkIsSettled, UnaccountedIsAlerted, PreDeposit,
        PostDeposit, Retryable, BeforeTransfer, AfterTransfer, Return
  <1>1. CASE TransferAnswered BY <1>1 DEF TransferAnswered
  <1>2. CASE RefundCheck BY <1>2 DEF RefundCheck
  <1>3. CASE NotifyVenue BY <1>3 DEF NotifyVenue
  <1>4. CASE Poll BY <1>4 DEF Poll, classify_swap_status
  <1>5. QED BY <1>1, <1>2, <1>3, <1>4

\* The caller's report: an open deposit belongs to an Indeterminate result,
\* which both callers notify.
LEMMA ReportStep == SwapInv /\ Report => SwapInv'
  <1> SUFFICES ASSUME SwapInv, Report PROVE SwapInv'
    OBVIOUS
  <1> USE DEF SwapInv
  <1>1. TypeOK' /\ CallConsistent'
    BY DEF Report, TypeOK, CallConsistent, Open, NoStray, BeforeTransfer,
       AfterTransfer
  <1>2. DepositsOnce' /\ DefinitiveIsAccounted' /\ OkIsSettled'
    BY DEF Report, DepositsOnce, DefinitiveIsAccounted, OkIsSettled
  <1>3. UnaccountedIsAlerted'
    <2> SUFFICES ASSUME deposits > 0, Open # NoStray PROVE alerted'
      BY DEF Report, UnaccountedIsAlerted, Open
    <2>1. result # "none" /\ result \notin PreDeposit
      BY DEF Report, CallConsistent, TypeOK
    <2>2. result \notin {"Ok", "Definitive"}
      BY DEF OkIsSettled, DefinitiveIsAccounted, CallConsistent, Open
    <2>3. result = "Indeterminate"
      BY <2>1, <2>2 DEF TypeOK, PostDeposit
    <2>4. QED
      BY <2>3 DEF Report, Notified, PostDeposit
  <1>4. QED BY <1>1, <1>2, <1>3

\* The chain and the venue decide a deposit at any time; what they have
\* decided, the call's result already allows for.
LEMMA VenueStep ==
  SwapInv /\ (DepositDecided \/ VenueDecided \/ StrayDecided) => SwapInv'
  <1> SUFFICES ASSUME SwapInv, DepositDecided \/ VenueDecided \/ StrayDecided
               PROVE  SwapInv'
    OBVIOUS
  <1> USE SwapLimits DEF SwapInv, TypeOK, CallConsistent, DepositsOnce,
        DefinitiveIsAccounted, OkIsSettled, UnaccountedIsAlerted, PreDeposit,
        PostDeposit, Retryable, BeforeTransfer, AfterTransfer, NoStray, Open,
        call, InCall
  <1>1. CASE DepositDecided BY <1>1 DEF DepositDecided
  <1>2. CASE VenueDecided BY <1>2 DEF VenueDecided
  <1>3. CASE StrayDecided BY <1>3 DEF StrayDecided
  <1>4. QED BY <1>1, <1>2, <1>3

\* The invariant of the swap call and its callers, under any interleaving with
\* the chain and the venue.
THEOREM SwapInvHolds == Spec => []SwapInv
  <1>1. SwapInv /\ [Next]_vars => SwapInv'
    <2> SUFFICES ASSUME SwapInv, [Next]_vars PROVE SwapInv'
      OBVIOUS
    <2>1. CASE UNCHANGED vars
      BY <2>1 DEF vars, call, SwapInv, TypeOK, CallConsistent, DepositsOnce,
         DefinitiveIsAccounted, OkIsSettled, UnaccountedIsAlerted, Open
    <2>2. CASE Next
      BY <2>2, CycleStep, AttemptStep, OutcomeStep, ReportStep, VenueStep
         DEF Next, SwapStep
    <2>3. QED BY <2>1, <2>2
  <1>2. QED BY <1>1, SwapInit, PTL DEF Spec

\* Type correctness; in particular the attempts stay within MaxAttempts.
THEOREM SwapTypeCorrect == Spec => []TypeOK
  BY SwapInvHolds, PTL DEF SwapInv

\* swap_with_retry never makes a second transfer, however many attempts it is
\* configured with and wherever they fail.
THEOREM NeverDepositsTwice == Spec => []DepositsOnce
  BY SwapInvHolds, PTL DEF SwapInv

\* A Definitive error is returned only when the deposit is back or never left,
\* and stays true of the deposit afterwards.
THEOREM DefinitiveSound == Spec => []DefinitiveIsAccounted
  BY SwapInvHolds, PTL DEF SwapInv

\* Ok is returned only for a swap that the venue settled.
THEOREM OkSound == Spec => []OkIsSettled
  BY SwapInvHolds, PTL DEF SwapInv

\* A call that leaves its deposit open has alerted the operator, from the batch
\* swap and from the swap after a liquidation alike.
THEOREM OpenDepositAlerted == Spec => []UnaccountedIsAlerted
  BY SwapInvHolds, PTL DEF SwapInv

-----------------------------------------------------------------------------
\* A step of a call uses up an attempt, a poll or a stage of the attempt; the
\* steps that are not the call's leave it where it is.
LEMMA CallStepAdvances ==
  ASSUME SwapInv, [Next]_vars, InCall, <<pc, polls>>' # <<pc, polls>>
  PROVE  StepsLeft' < StepsLeft
<1> USE SwapLimits
<1>0. /\ attempt \in 0..MaxAttempts /\ polls \in 0..PollLimit
      /\ MaxAttempts \in Nat /\ PollLimit \in Nat
  BY DEF SwapInv, TypeOK
<1>1. CASE Backoff
  BY <1>0, <1>1 DEF Backoff, StepsLeft
<1>2. CASE Quote \/ Prepare
  BY <1>0, <1>2 DEF Quote, Prepare, Fail, Return, StepsLeft
<1>3. CASE Transfer \/ TransferAnswered \/ RefundCheck
  BY <1>0, <1>3 DEF Transfer, TransferAnswered, RefundCheck, Return, StepsLeft
<1>4. CASE NotifyVenue \/ Poll
  BY <1>0, <1>4 DEF NotifyVenue, Poll, Return, StepsLeft
<1>5. CASE Report
  BY <1>0, <1>5 DEF Report, StepsLeft
<1>6. CASE \/ RefreshCollateral \/ BeginBatch \/ SkipBatch \/ BeginJit
           \/ DepositDecided \/ VenueDecided \/ StrayDecided \/ UNCHANGED vars
  BY <1>6 DEF RefreshCollateral, BeginBatch, SkipBatch, BeginJit,
     DepositDecided, VenueDecided, StrayDecided, InCall, vars, call
<1> QED
  BY <1>1, <1>2, <1>3, <1>4, <1>5, <1>6 DEF Next, SwapStep

\* A swap call is finite, for any SWAP_RETRY_ATTEMPTS and any number of polls:
\* no answer of the venue or the gateway lets it go round without using up an
\* attempt or a poll, of which there are only so many.
THEOREM CallIsFinite ==
  Spec => [](StepsLeft \in 0..(4 * MaxAttempts + PollLimit + 5)) /\ CallAdvances
<1>1. SwapInv /\ [Next]_vars =>
        [InCall /\ <<pc, polls>>' # <<pc, polls>> => StepsLeft' < StepsLeft]_vars
  BY CallStepAdvances
<1>2. SwapInv => StepsLeft \in 0..(4 * MaxAttempts + PollLimit + 5)
  <2> SUFFICES ASSUME SwapInv PROVE StepsLeft \in 0..(4 * MaxAttempts + PollLimit + 5)
    OBVIOUS
  <2>1. /\ attempt \in 0..MaxAttempts /\ polls \in 0..PollLimit
        /\ MaxAttempts \in Nat \ {0} /\ PollLimit \in Nat
        /\ pc # "rest" => attempt > 0
    BY SwapLimits DEF SwapInv, TypeOK, CallConsistent
  <2>2. CASE pc \in BeforeTransfer
    BY <2>1, <2>2 DEF StepsLeft, BeforeTransfer
  <2>3. CASE pc \notin BeforeTransfer
    BY <2>1, <2>3 DEF StepsLeft, BeforeTransfer
  <2> QED
    BY <2>2, <2>3
<1> QED
  BY <1>1, <1>2, SwapInvHolds, PTL DEF Spec, CallAdvances
=============================================================================
