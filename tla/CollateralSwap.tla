--------------------------- MODULE CollateralSwap ---------------------------
(***************************************************************************)
(* Swapping seized collateral back to the borrow asset through the 1-Click *)
(* venue (swap/retry.rs, swap/oneclick.rs) and its two callers: the batch  *)
(* swap at the start of a cycle (service.rs) and the swap right after a    *)
(* liquidation (executor.rs), called jit.  One collateral asset is         *)
(* modelled: `wallet' is what the account owns of it, `tracked' what the   *)
(* collateral inventory last read.  A swap is a quote, preparations, one   *)
(* token transfer to a one-shot deposit address, a notification and a poll *)
(* for the outcome; swap_with_retry runs it again after some failures.     *)
(*                                                                         *)
(* The transfer's fate on the chain and the venue's handling of a deposit  *)
(* are separate from what the bot is told about them, and go on after the  *)
(* bot has stopped waiting.                                                *)
(***************************************************************************)
EXTENDS Naturals

CONSTANTS
  MaxAttempts,    \* SWAP_RETRY_ATTEMPTS
  PollLimit,      \* status polls before the bot stops waiting
  MaxCollateral   \* bound: the account never owns more than this

ASSUME SwapLimits ==
  /\ MaxAttempts \in Nat \ {0}
  /\ PollLimit \in Nat
  /\ MaxCollateral \in Nat \ {0}

VARIABLES
  wallet,    \* collateral on the chain
  tracked,   \* the collateral inventory's balance
  stage,     \* where liquidation_cycle is
  pc,        \* where the swap call is, "rest" between calls
  caller,    \* "batch" or "jit"
  amount,    \* the amount being swapped
  attempt,   \* swap_with_retry's attempt
  polls,     \* status polls made
  dep,       \* the deposit transfer of the call on the chain
  venue,     \* the venue's status of that deposit
  result,    \* what the call returned, "none" while it runs
  stray,     \* an earlier deposit whose outcome is still open
  deposits,  \* history: transfers submitted by the call
  alerted    \* history: the operator was notified of the call's failure

call == <<caller, amount, attempt, polls, result, deposits, alerted>>
vars == <<wallet, tracked, stage, pc, call, dep, venue, stray>>

Retryable == {"NetworkError", "ServerError", "RateLimited", "Timeout"}
PreDeposit == Retryable \cup
              {"AmountTooLow", "QuoteFailed", "ValidationError", "Unknown"}
PostDeposit == {"Indeterminate", "Definitive"}

BeforeTransfer == {"quote", "prepare", "transfer", "backoff"}
AfterTransfer == {"answer", "refund_check", "notify", "poll"}

NoStray == [state |-> "none", amount |-> 0]

TypeOK ==
  /\ wallet \in Nat
  /\ tracked \in Nat
  /\ stage \in {"refresh", "batch", "round"}
  /\ pc \in BeforeTransfer \cup AfterTransfer \cup {"rest", "report"}
  /\ caller \in {"batch", "jit"}
  /\ amount \in Nat
  /\ attempt \in 0..MaxAttempts
  /\ polls \in 0..PollLimit
  /\ dep \in {"none", "pending", "reverted", "bounced", "delivered"}
  /\ venue \in {"none", "waiting", "success", "refunded", "failed", "incomplete"}
  /\ result \in PreDeposit \cup PostDeposit \cup {"none", "Ok"}
  /\ stray \in [state : {"none", "pending", "waiting", "failed"}, amount : Nat]
  /\ deposits \in Nat
  /\ alerted \in BOOLEAN

Init ==
  /\ wallet \in 0..MaxCollateral
  /\ tracked = 0
  /\ stage = "refresh"
  /\ pc = "rest"
  /\ caller = "batch"
  /\ amount = 0
  /\ attempt = 0
  /\ polls = 0
  /\ dep = "none"
  /\ venue = "none"
  /\ result = "none"
  /\ stray = NoStray
  /\ deposits = 0
  /\ alerted = FALSE

-----------------------------------------------------------------------------
(***************************************************************************)
(* The cycle around the swaps.                                             *)
(***************************************************************************)
\* refresh_collateral, before the batch swap and again after the round: a
\* balance that cannot be fetched keeps its old value.
RefreshCollateral ==
  /\ pc = "rest"
  /\ stage \in {"refresh", "round"}
  /\ stage' = IF stage = "refresh" THEN "batch" ELSE "refresh"
  /\ tracked' \in {wallet, tracked}
  /\ UNCHANGED <<wallet, pc, call, dep, venue, stray>>

Begin(who, a) ==
  /\ pc' = "quote"
  /\ caller' = who
  /\ amount' = a
  /\ attempt' = 1
  /\ polls' = 0
  /\ dep' = "none"
  /\ venue' = "none"
  /\ result' = "none"
  /\ deposits' = 0
  /\ alerted' = FALSE

\* batch_swap_collateral swaps the whole tracked balance.
BeginBatch ==
  /\ pc = "rest"
  /\ stage = "batch"
  /\ tracked > 0
  /\ Begin("batch", tracked)
  /\ stage' = "round"
  /\ UNCHANGED <<wallet, tracked, stray>>

\* Nothing held, no price, below the threshold, an unsupported pair, a dry
\* run, no provider, or shutdown.
SkipBatch ==
  /\ pc = "rest"
  /\ stage = "batch"
  /\ stage' = "round"
  /\ UNCHANGED <<wallet, tracked, pc, call, dep, venue, stray>>

\* Collateral of an open deposit that the venue may still pay back.
Returnable == IF stray.state \in {"waiting", "failed"} THEN stray.amount ELSE 0

\* A liquidation of the round pays collateral in, and it is swapped at once;
\* swap_collateral_to_borrow may also decline to, and the collateral stays.
BeginJit ==
  /\ pc = "rest"
  /\ stage = "round"
  /\ \E seized \in 1..MaxCollateral :
       /\ wallet + seized + Returnable <= MaxCollateral
       /\ wallet' = wallet + seized
       /\ \/ Begin("jit", seized)
          \/ UNCHANGED <<pc, call, dep, venue>>
  /\ UNCHANGED <<tracked, stage, stray>>

-----------------------------------------------------------------------------
(***************************************************************************)
(* One call of swap_with_retry.                                            *)
(***************************************************************************)
Return(r) == pc' = "report" /\ result' = r

is_retryable(error) == error \in Retryable

\* swap_with_retry's verdict on a failed attempt.
Fail(error) ==
  IF is_retryable(error) /\ attempt < MaxAttempts
  THEN pc' = "backoff" /\ UNCHANGED result
  ELSE Return(error)


\* The delay is over: the next attempt starts from the quote.
Backoff ==
  /\ pc = "backoff"
  /\ pc' = "quote"
  /\ attempt' = attempt + 1
  /\ UNCHANGED <<wallet, tracked, stage, caller, amount, polls, dep, venue,
                 result, stray, deposits, alerted>>

\* request_quote.
Quote ==
  /\ pc = "quote"
  /\ \/ pc' = "prepare" /\ UNCHANGED result
     \/ \E error \in PreDeposit : Fail(error)
  /\ UNCHANGED <<wallet, tracked, stage, caller, amount, attempt, polls, dep,
                 venue, stray, deposits, alerted>>

\* deposit_tokens up to the transfer: the deposit address, the funding of an
\* implicit account, the storage registration.
Prepare ==
  /\ pc = "prepare"
  /\ \/ pc' = "transfer" /\ UNCHANGED result
     \/ \E error \in {"ValidationError", "Unknown", "Timeout", "NetworkError"} :
          Fail(error)
  /\ UNCHANGED <<wallet, tracked, stage, caller, amount, attempt, polls, dep,
                 venue, stray, deposits, alerted>>

Transfer ==
  /\ pc = "transfer"
  /\ pc' = "answer"
  /\ dep' = "pending"
  /\ deposits' = deposits + 1
  /\ UNCHANGED <<wallet, tracked, stage, caller, amount, attempt, polls, venue,
                 result, stray, alerted>>

\* Fault: a transfer that did not confirm is reported as a network error.
TransferAnsweredAsNetworkError ==
  /\ pc = "answer"
  /\ \/ Fail("NetworkError")
     \/ dep \in {"bounced", "delivered"} /\ pc' = "refund_check" /\ UNCHANGED result
  /\ UNCHANGED <<wallet, tracked, stage, caller, amount, attempt, polls, dep,
                 venue, stray, deposits, alerted>>

\* The gateway's answer to the transfer: no confirmation, a status that is not
\* final or a missing hash leave the outcome open.
TransferAnswered ==
  /\ pc = "answer"
  /\ \/ Return("Indeterminate")
     \/ dep = "reverted" /\ Return("Definitive")
     \/ dep \in {"bounced", "delivered"} /\ pc' = "refund_check" /\ UNCHANGED result
  /\ UNCHANGED <<wallet, tracked, stage, caller, amount, attempt, polls, dep,
                 venue, stray, deposits, alerted>>

\* check_deposit_refunded: a failed check is taken for an accepted deposit.
RefundCheck ==
  /\ pc = "refund_check"
  /\ \/ dep = "bounced" /\ Return("Definitive")
     \/ pc' = "notify" /\ UNCHANGED result
  /\ UNCHANGED <<wallet, tracked, stage, caller, amount, attempt, polls, dep,
                 venue, stray, deposits, alerted>>

\* submit_deposit.
NotifyVenue ==
  /\ pc = "notify"
  /\ \/ pc' = "poll" /\ UNCHANGED result
     \/ Return("Indeterminate")
  /\ UNCHANGED <<wallet, tracked, stage, caller, amount, attempt, polls, dep,
                 venue, stray, deposits, alerted>>

\* Fault: a failed swap is taken for a refunded one.
classify_swap_status_optimistic(status) ==
  CASE status = "success" -> "Ok"
    [] status \in {"refunded", "failed"} -> "Definitive"
    [] OTHER -> "Indeterminate"

\* Only Success is Ok, and only a confirmed refund is definitive.
classify_swap_status(status) ==
  CASE status = "success" -> "Ok"
    [] status = "refunded" -> "Definitive"
    [] OTHER -> "Indeterminate"

\* poll_swap_status: a failed poll or a status in progress is polled again,
\* a terminal status is classified, and after PollLimit polls the bot gives up.
Poll ==
  /\ pc = "poll"
  /\ \/ /\ polls < PollLimit
        /\ polls' = polls + 1
        /\ \/ UNCHANGED <<pc, result>>
           \/ /\ venue \in {"success", "refunded", "failed", "incomplete"}
              /\ Return(classify_swap_status(venue))
     \/ /\ polls = PollLimit
        /\ Return("Indeterminate")
        /\ UNCHANGED polls
  /\ UNCHANGED <<wallet, tracked, stage, caller, amount, attempt, dep, venue,
                 stray, deposits, alerted>>

\* Which results reach the operator, per caller.
Notified(who) ==
  IF who = "batch" THEN {"Indeterminate"}
  ELSE (PreDeposit \cup PostDeposit) \ {"AmountTooLow"}

\* What is left open when the call returns.
Open ==
  CASE dep = "pending" -> [state |-> "pending", amount |-> amount]
    [] dep = "delivered" /\ venue = "waiting" ->
         [state |-> "waiting", amount |-> amount]
    [] dep = "delivered" /\ venue \in {"failed", "incomplete"} ->
         [state |-> "failed", amount |-> amount]
    [] OTHER -> NoStray

\* Fault: the batch caller reports nothing at all.
ReportSilently ==
  /\ pc = "report"
  /\ pc' = "rest"
  /\ stray' = IF Open = NoStray THEN stray ELSE Open
  /\ UNCHANGED <<wallet, tracked, stage, call, dep, venue>>

\* The caller logs or notifies.  The deposit, if any, goes on without it.
\* (Bound: only the latest open deposit is followed.)
Report ==
  /\ pc = "report"
  /\ pc' = "rest"
  /\ alerted' = (result \in Notified(caller))
  /\ stray' = IF Open = NoStray THEN stray ELSE Open
  /\ UNCHANGED <<wallet, tracked, stage, caller, amount, attempt, polls, dep,
                 venue, result, deposits>>

-----------------------------------------------------------------------------
(***************************************************************************)
(* The chain and the venue.  While a call runs its deposit is decided      *)
(* here, afterwards in StrayDecided.                                       *)
(***************************************************************************)
InCall == pc # "rest"

\* The transfer executes: it fails, bounces back within the transaction, or
\* moves the tokens if the account has them.
DepositDecided ==
  /\ InCall
  /\ dep = "pending"
  /\ \/ dep' \in {"reverted", "bounced"} /\ UNCHANGED <<wallet, venue>>
     \/ /\ amount <= wallet
        /\ wallet' = wallet - amount
        /\ dep' = "delivered"
        /\ venue' = "waiting"
  /\ UNCHANGED <<tracked, stage, pc, call, stray>>

\* The venue swaps, refunds, or stops without having done either; a failed or
\* incomplete deposit may be refunded later.
VenueDecided ==
  /\ InCall
  /\ \/ /\ venue = "waiting"
        /\ venue' \in {"success", "failed", "incomplete"}
        /\ UNCHANGED wallet
     \/ /\ venue \in {"waiting", "failed", "incomplete"}
        /\ venue' = "refunded"
        /\ wallet' = wallet + amount
  /\ UNCHANGED <<tracked, stage, pc, call, dep, stray>>

StrayDecided ==
  /\ stray # NoStray
  /\ \/ /\ stray.state = "pending"
        /\ stray' = NoStray
        /\ UNCHANGED wallet
     \/ /\ stray.state = "pending"
        /\ stray.amount <= wallet
        /\ wallet' = wallet - stray.amount
        /\ stray' = [stray EXCEPT !.state = "waiting"]
     \/ /\ stray.state \in {"waiting", "failed"}
        /\ wallet' \in {wallet, wallet + stray.amount}
        /\ stray' = NoStray
  /\ UNCHANGED <<tracked, stage, pc, call, dep, venue>>

SwapStep == Backoff \/ Quote \/ Prepare \/ Transfer \/ TransferAnswered
            \/ RefundCheck \/ NotifyVenue \/ Poll \/ Report

Next ==
  \/ RefreshCollateral \/ BeginBatch \/ SkipBatch \/ BeginJit
  \/ SwapStep
  \/ DepositDecided \/ VenueDecided \/ StrayDecided

Spec == Init /\ [][Next]_vars

(***************************************************************************)
(* Every RPC and HTTP call answers or times out, and every delay ends.     *)
(* Nothing obliges the chain or the venue to decide anything.              *)
(***************************************************************************)
FairSpec == Spec /\ WF_vars(SwapStep)

-----------------------------------------------------------------------------
(***************************************************************************)
(* Properties.                                                             *)
(***************************************************************************)

\* "Retrying a swap whose deposit already landed spends the funds twice"
\* (swap/mod.rs 126-127): however the attempts of a call fail, at most one
\* transfer is ever submitted.
DepositsOnce == deposits <= 1

\* A definitive failure is final including where the funds are: nothing of
\* the deposit is left with the venue or on its way (retry.rs 100-109).
DefinitiveIsAccounted ==
  result = "Definitive" =>
    dep \in {"reverted", "bounced"} \/ venue = "refunded"

\* Ok means the whole amount was swapped and settled (swap/mod.rs 104-108).
OkIsSettled == result = "Ok" => venue = "success"

\* Whenever a call ends with the funds unaccounted for, the operator hears of
\* it, whoever called ("only funds unaccounted pages anyone", service.rs 1584).
UnaccountedIsAlerted ==
  (pc = "rest" /\ deposits > 0 /\ Open # NoStray) => alerted

\* What a call may still do: the attempts left, each of up to four steps, and
\* after the transfer the way to the report with the polls left.
StepsLeft ==
  LET attempts == 4 * (MaxAttempts - attempt) + PollLimit + 6
  IN  CASE pc = "quote" -> attempts + 3
        [] pc = "prepare" -> attempts + 2
        [] pc = "transfer" -> attempts + 1
        [] pc = "backoff" -> attempts
        [] pc = "answer" -> PollLimit + 5
        [] pc = "refund_check" -> PollLimit + 4
        [] pc = "notify" -> PollLimit + 3
        [] pc = "poll" -> PollLimit - polls + 2
        [] pc = "report" -> 1
        [] OTHER -> 0

\* A call is finite whatever the venue answers and however its requests fail:
\* each of its steps, the backoff and the poll included, uses up something, and
\* there are at most 4 * MaxAttempts + PollLimit + 5 of them.
CallAdvances == [][InCall /\ <<pc, polls>>' # <<pc, polls>> => StepsLeft' < StepsLeft]_vars

\* The inductive invariant behind the theorems: nothing is deposited before
\* the transfer, a call has no result before its report, a pre-deposit error
\* means that no transfer was made, and the venue knows only of a delivered
\* deposit.
CallConsistent ==
  /\ pc \in BeforeTransfer => dep = "none" /\ deposits = 0
  /\ pc = "backoff" => attempt < MaxAttempts
  /\ pc # "rest" => attempt > 0
  /\ pc \in BeforeTransfer \cup AfterTransfer => result = "none"
  /\ pc = "report" => result # "none"
  /\ result \in PreDeposit => deposits = 0
  /\ dep # "delivered" => venue = "none"

SwapInv ==
  /\ TypeOK
  /\ CallConsistent
  /\ DepositsOnce
  /\ DefinitiveIsAccounted
  /\ OkIsSettled
  /\ UnaccountedIsAlerted

=============================================================================
