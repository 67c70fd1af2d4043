-------------------------- MODULE LiquidationRound --------------------------
(***************************************************************************)
(* The liquidation rounds of one borrow asset: Liquidator::run_liquidations *)
(* drives up to Concurrency positions at a time through liquidate(), and   *)
(* they share one inventory entry.  A position is a future, so another one *)
(* may run wherever this one awaits; pc[p] names the await (or the lock)   *)
(* position p is parked at.  The chain is part of the model: `chain' is    *)
(* the borrow-asset balance the account really owns, which the inventory   *)
(* only knows as of its last refresh.                                      *)
(*                                                                         *)
(* Rounds repeat without end: the rounds of two markets with one borrow    *)
(* asset, or of two cycles, follow each other with or without a refresh    *)
(* between them (it is throttled, and a failed fetch is skipped).          *)
(***************************************************************************)
EXTENDS Inventory

CONSTANTS
  Positions,        \* the accounts with a borrow position
  Concurrency,      \* POSITION_CONCURRENCY
  MaxIterations,    \* MAX_LOOP_ITERATIONS
  LoopLiquidation,  \* LOOP_LIQUIDATION
  SwapToBorrow,     \* CollateralStrategy::SwapToBorrow, or Hold
  TruthfulGateway,  \* the gateway's answer always tells what the chain did
  ContractMinimum,  \* the market's minimum borrow amount
  MaxPercentage,    \* the strategy's max_liquidation_percentage()
  MaxBalance        \* bound: the account never owns more than this

ASSUME PositionsAssumption == IsFiniteSet(Positions)
ASSUME LimitsAssumption ==
  /\ Concurrency \in Nat \ {0}
  /\ MaxIterations \in Nat \ {0}
  /\ ContractMinimum \in Nat
  /\ MaxPercentage \in 0..100
  /\ MaxBalance \in Nat
ASSUME SwitchesAssumption ==
  /\ LoopLiquidation \in BOOLEAN
  /\ SwapToBorrow \in BOOLEAN
  /\ TruthfulGateway \in BOOLEAN

VARIABLES
  inv,       \* the inventory entry of the borrow asset
  chain,     \* the account's balance of it on the chain
  phase,     \* "running" while run_liquidations executes, else "idle"
  shutdown,  \* the shutdown flag
  dry_run,   \* DRY_RUN: the executor simulates; fixed when the bot starts
  pc,        \* where each position's future is parked
  iter,      \* liquidate()'s loop iteration
  amt,       \* the sized repay amount, 0 when there is none
  tx,        \* what the chain did so far with the submitted transaction
  pushed,    \* prices_pushed_onchain of the liquidate() call
  outcome,   \* the result the round tallies for the position
  orphan,    \* amount of a transaction the bot gave up on that may still land
  sent,      \* history: transactions handed to the gateway in this round
  executed,  \* history: those of them that were settled as a success
  leaked     \* history: since the last refresh between rounds, tokens left
             \* the account without the inventory debiting them

local == <<pc, iter, amt, tx, pushed, outcome, sent, executed>>
vars == <<inv, chain, phase, shutdown, dry_run, local, orphan, leaked>>

Parked == {"idle", "queued", "done"}
Holding == {"push", "submit", "await"}
PCs == Parked \cup Holding \cup
       {"status", "size", "reserve", "collateral", "refresh_asset", "refetch"}

\* LiquidationOutcome, and an error by its ErrorPhase.
Outcomes == {"Liquidated", "Healthy", "Skipped", "SkippedUnfunded",
             "Unprofitable", "Scan", "Preparation", "Execution"}

InFlight == {p \in Positions : pc[p] \notin Parked}
Held == {p \in Positions : pc[p] \in Holding}
Landed == {p \in Held : tx[p] = "landed"}
\* Holds whose transaction can still take money out of the account.
Exposed == {p \in Held : tx[p] \in {"none", "pending"}}

loop_enabled == LoopLiquidation /\ ~dry_run
max_iterations == IF dry_run THEN 1 ELSE MaxIterations
after_success(p) == iter[p] > 1

TypeOK ==
  /\ inv \in Entry
  /\ chain \in 0..MaxBalance
  /\ phase \in {"idle", "running"}
  /\ shutdown \in BOOLEAN
  /\ dry_run \in BOOLEAN
  /\ pc \in [Positions -> PCs]
  /\ iter \in [Positions -> 0..(MaxIterations + 1)]
  /\ amt \in [Positions -> Nat]
  /\ tx \in [Positions -> {"none", "pending", "landed", "rejected"}]
  /\ pushed \in [Positions -> BOOLEAN]
  /\ outcome \in [Positions -> Outcomes \cup {"none"}]
  /\ orphan \in [Positions -> Nat]
  /\ sent \in [Positions -> Nat]
  /\ executed \in [Positions -> Nat]
  /\ leaked \in BOOLEAN

Init ==
  /\ chain \in 0..MaxBalance
  /\ inv = [balance |-> 0, reserved |-> 0]
  /\ phase = "idle"
  /\ shutdown = FALSE
  /\ dry_run \in BOOLEAN
  /\ pc = [p \in Positions |-> "idle"]
  /\ iter = [p \in Positions |-> 0]
  /\ amt = [p \in Positions |-> 0]
  /\ tx = [p \in Positions |-> "none"]
  /\ pushed = [p \in Positions |-> FALSE]
  /\ outcome = [p \in Positions |-> "none"]
  /\ orphan = [p \in Positions |-> 0]
  /\ sent = [p \in Positions |-> 0]
  /\ executed = [p \in Positions |-> 0]
  /\ leaked = FALSE

-----------------------------------------------------------------------------
(***************************************************************************)
(* Steps of a position.                                                    *)
(***************************************************************************)
Goto(p, at) == pc' = [pc EXCEPT ![p] = at]

\* liquidate() returns and the round's loop tallies the result.
Finish(p, result) ==
  /\ Goto(p, "done")
  /\ outcome' = [outcome EXCEPT ![p] = result]
  /\ amt' = [amt EXCEPT ![p] = 0]
  /\ tx' = [tx EXCEPT ![p] = "none"]

\* The stop that an evaluation maps to: after a successful liquidation every
\* stop reports Liquidated.
map_evaluation(p, result) == IF after_success(p) THEN "Liquidated" ELSE result

\* The share of the available balance the strategy may spend.
cap(avail) == (avail * MaxPercentage) \div 100

validate_sizing(a, avail) == a > 0 /\ a <= cap(avail)

\* The stream pulls the next candidate, unless shutdown was requested.
Start(p) ==
  /\ phase = "running"
  /\ pc[p] = "queued"
  /\ ~shutdown
  /\ Cardinality(InFlight) < Concurrency
  /\ Goto(p, "status")
  /\ iter' = [iter EXCEPT ![p] = 1]
  /\ UNCHANGED <<inv, chain, phase, shutdown, dry_run, amt, tx, pushed,
                 outcome, orphan, sent, executed, leaked>>

\* check_status: the RPC fails, the position is no longer liquidatable, or it
\* is and the iteration budget decides.
CheckStatus(p) ==
  /\ pc[p] = "status"
  /\ \/ Finish(p, "Scan")
     \/ \E result \in {"Healthy", "Skipped"} : Finish(p, map_evaluation(p, result))
     \/ /\ iter[p] > max_iterations
        /\ Finish(p, map_evaluation(p, "Skipped"))
     \/ /\ iter[p] <= max_iterations
        /\ Goto(p, "size")
        /\ UNCHANGED <<amt, tx, outcome>>
  /\ UNCHANGED <<inv, chain, phase, shutdown, dry_run, iter, pushed, orphan,
                 sent, executed, leaked>>

\* size_position and assess_profitability: one read of the inventory, then no
\* await until execute_plan asks for the write lock.
Size(p) ==
  LET avail == available(inv) IN
  /\ pc[p] = "size"
  /\ \/ Finish(p, "Scan")
     \/ Finish(p, map_evaluation(p, "SkippedUnfunded"))
     \/ /\ avail >= ContractMinimum
        /\ \/ Finish(p, "Preparation")
           \/ \E result \in {"Skipped", "Unprofitable"} :
                Finish(p, map_evaluation(p, result))
           \/ \E a \in 1..avail :
                /\ validate_sizing(a, avail)
                /\ Goto(p, "reserve")
                /\ amt' = [amt EXCEPT ![p] = a]
                /\ UNCHANGED <<tx, outcome>>
  /\ UNCHANGED <<inv, chain, phase, shutdown, dry_run, iter, pushed, orphan,
                 sent, executed, leaked>>

\* execute_plan, dry run: nothing is reserved, pushed or submitted.
Simulate(p) ==
  /\ pc[p] = "reserve"
  /\ dry_run
  /\ Finish(p, "Liquidated")
  /\ UNCHANGED <<inv, chain, phase, shutdown, dry_run, iter, pushed, orphan,
                 sent, executed, leaked>>

\* Fault: the oracle push is paid before the reservation is tried.
ReserveAfterPush(p) ==
  /\ pc[p] = "reserve"
  /\ ~dry_run
  /\ pushed' = [pushed EXCEPT ![p] = TRUE]
  /\ \/ /\ CanReserve(inv, amt[p])
        /\ inv' = reserve(inv, amt[p])
        /\ Goto(p, "submit")
        /\ UNCHANGED <<amt, tx, outcome>>
     \/ /\ ~CanReserve(inv, amt[p])
        /\ Finish(p, map_evaluation(p, "SkippedUnfunded"))
        /\ UNCHANGED inv
  /\ UNCHANGED <<chain, phase, shutdown, dry_run, iter, orphan, sent,
                 executed, leaked>>

\* Fault: the settlement is live whatever the executor's mode.
ReserveIgnoringDryRun(p) ==
  /\ pc[p] = "reserve"
  /\ CanReserve(inv, amt[p])
  /\ inv' = reserve(inv, amt[p])
  /\ Goto(p, IF pushed[p] THEN "submit" ELSE "push")
  /\ UNCHANGED <<chain, phase, shutdown, dry_run, iter, amt, tx, pushed,
                 outcome, orphan, sent, executed, leaked>>

\* execute_plan, live: the sized amount is checked again under the write
\* lock; a position that lost the race for the balance stops here.
Reserve(p) ==
  /\ pc[p] = "reserve"
  /\ ~dry_run
  /\ \/ /\ CanReserve(inv, amt[p])
        /\ inv' = reserve(inv, amt[p])
        /\ Goto(p, IF pushed[p] THEN "submit" ELSE "push")
        /\ UNCHANGED <<amt, tx, outcome>>
     \/ /\ ~CanReserve(inv, amt[p])
        /\ Finish(p, map_evaluation(p, "SkippedUnfunded"))
        /\ UNCHANGED inv
  /\ UNCHANGED <<chain, phase, shutdown, dry_run, iter, pushed, orphan, sent,
                 executed, leaked>>

\* The paid oracle push, once per liquidate() call; its failure is ignored.
Push(p) ==
  /\ pc[p] = "push"
  /\ Goto(p, "submit")
  /\ pushed' = [pushed EXCEPT ![p] = TRUE]
  /\ UNCHANGED <<inv, chain, phase, shutdown, dry_run, iter, amt, tx, outcome,
                 orphan, sent, executed, leaked>>

Submit(p) ==
  /\ pc[p] = "submit"
  /\ Goto(p, "await")
  /\ tx' = [tx EXCEPT ![p] = "pending"]
  /\ sent' = [sent EXCEPT ![p] = @ + 1]
  /\ UNCHANGED <<inv, chain, phase, shutdown, dry_run, iter, amt, pushed,
                 outcome, orphan, executed, leaked>>

\* Succeeded, and no receipt failed: debit the balance with the reservation.
AnswerLanded(p) ==
  /\ pc[p] = "await"
  /\ tx[p] = "landed"
  /\ inv' = consume(inv, amt[p])
  /\ Goto(p, "collateral")
  /\ amt' = [amt EXCEPT ![p] = 0]
  /\ tx' = [tx EXCEPT ![p] = "none"]
  /\ executed' = [executed EXCEPT ![p] = @ + 1]
  /\ UNCHANGED <<chain, phase, shutdown, dry_run, iter, pushed, outcome,
                 orphan, sent, leaked>>

\* Fault: an error path returns without settling the reservation.
AnswerRejectedKeepsHold(p) ==
  /\ pc[p] = "await"
  /\ tx[p] = "rejected"
  /\ Finish(p, "Execution")
  /\ UNCHANGED <<inv, chain, phase, shutdown, dry_run, iter, pushed, orphan,
                 sent, executed, leaked>>

\* Fault: the error is classified as one from before the submission.
AnswerRejectedAsPreparation(p) ==
  /\ pc[p] = "await"
  /\ tx[p] = "rejected"
  /\ inv' = release(inv, amt[p])
  /\ Finish(p, "Preparation")
  /\ UNCHANGED <<chain, phase, shutdown, dry_run, iter, pushed, orphan, sent,
                 executed, leaked>>

\* A Failed status, or Succeeded with a failed receipt: nothing was spent.
AnswerRejected(p) ==
  /\ pc[p] = "await"
  /\ tx[p] = "rejected"
  /\ inv' = release(inv, amt[p])
  /\ Finish(p, "Execution")
  /\ UNCHANGED <<chain, phase, shutdown, dry_run, iter, pushed, orphan, sent,
                 executed, leaked>>

\* The gateway call fails, ends in a non-final status, or the receipts of a
\* landed transaction cannot be read: the code releases here too, whatever
\* the chain did or still does.  (Bound: one such transaction per position.)
AnswerUnclear(p) ==
  /\ ~TruthfulGateway
  /\ pc[p] = "await"
  /\ \/ /\ tx[p] = "landed"
        /\ leaked' = TRUE
        /\ UNCHANGED orphan
     \/ /\ tx[p] = "pending"
        /\ orphan[p] = 0
        /\ orphan' = [orphan EXCEPT ![p] = amt[p]]
        /\ UNCHANGED leaked
  /\ inv' = release(inv, amt[p])
  /\ Finish(p, "Execution")
  /\ UNCHANGED <<chain, phase, shutdown, dry_run, iter, pushed, sent,
                 executed>>

\* Where execute_liquidation's success continues in liquidate().
AfterExecution(p) ==
  IF loop_enabled
  THEN Goto(p, "refetch") /\ UNCHANGED <<amt, tx, outcome>>
  ELSE Finish(p, "Liquidated")

\* Hold the collateral, or swap it back: the swap fails or is declined, or it
\* pays borrow asset into the account.
Collateral(p) ==
  /\ pc[p] = "collateral"
  /\ \/ AfterExecution(p) /\ UNCHANGED chain
     \/ /\ SwapToBorrow
        /\ chain' \in chain..MaxBalance
        /\ Goto(p, "refresh_asset")
        /\ UNCHANGED <<amt, tx, outcome>>
  /\ UNCHANGED <<inv, phase, shutdown, dry_run, iter, pushed, orphan, sent,
                 executed, leaked>>

\* refresh_asset holds the write lock across its balance read, so no other
\* position sees the inventory between the read and the update.
RefreshAsset(p) ==
  /\ pc[p] = "refresh_asset"
  /\ inv' \in {inv, update_balance(inv, chain)}
  /\ AfterExecution(p)
  /\ UNCHANGED <<chain, phase, shutdown, dry_run, iter, pushed, orphan, sent,
                 executed, leaked>>

\* The loop re-reads the position: gone or unreadable ends it.
Refetch(p) ==
  /\ pc[p] = "refetch"
  /\ \/ Finish(p, "Liquidated") /\ UNCHANGED iter
     \/ /\ Goto(p, "status")
        /\ iter' = [iter EXCEPT ![p] = @ + 1]
        /\ UNCHANGED <<amt, tx, outcome>>
  /\ UNCHANGED <<inv, chain, phase, shutdown, dry_run, pushed, orphan, sent,
                 executed, leaked>>

-----------------------------------------------------------------------------
(***************************************************************************)
(* The chain: a transaction is decided once, and takes the money only if   *)
(* the account has it.                                                     *)
(***************************************************************************)
Land(p) ==
  /\ tx[p] = "pending"
  /\ amt[p] <= chain
  /\ chain' = chain - amt[p]
  /\ tx' = [tx EXCEPT ![p] = "landed"]
  /\ UNCHANGED <<inv, phase, shutdown, dry_run, pc, iter, amt, pushed,
                 outcome, orphan, sent, executed, leaked>>

Reject(p) ==
  /\ tx[p] = "pending"
  /\ tx' = [tx EXCEPT ![p] = "rejected"]
  /\ UNCHANGED <<inv, chain, phase, shutdown, dry_run, pc, iter, amt, pushed,
                 outcome, orphan, sent, executed, leaked>>

\* A transaction the bot gave up on is decided after all.
OrphanDecided(p) ==
  /\ orphan[p] > 0
  /\ orphan' = [orphan EXCEPT ![p] = 0]
  /\ \/ UNCHANGED <<chain, leaked>>
     \/ /\ orphan[p] <= chain
        /\ chain' = chain - orphan[p]
        /\ leaked' = TRUE
  /\ UNCHANGED <<inv, phase, shutdown, dry_run, local>>

\* A deposit, or a swap that settles after the bot stopped waiting for it.
Deposit ==
  /\ chain < MaxBalance
  /\ chain' = chain + 1
  /\ UNCHANGED <<inv, phase, shutdown, dry_run, local, orphan, leaked>>

-----------------------------------------------------------------------------
(***************************************************************************)
(* The service around the rounds.                                          *)
(***************************************************************************)
\* InventoryManager::refresh between rounds, when it is not throttled and the
\* fetch succeeds.
Refresh ==
  /\ phase = "idle"
  /\ ~shutdown
  /\ inv' = update_balance(inv, chain)
  /\ leaked' = FALSE
  /\ UNCHANGED <<chain, phase, shutdown, dry_run, local, orphan>>

\* Prices and positions are fetched, and the local screen picks the candidates.
BeginRound ==
  /\ phase = "idle"
  /\ ~shutdown
  /\ phase' = "running"
  /\ \E candidates \in SUBSET Positions :
       pc' = [p \in Positions |-> IF p \in candidates THEN "queued" ELSE "idle"]
  /\ iter' = [p \in Positions |-> 0]
  /\ pushed' = [p \in Positions |-> FALSE]
  /\ outcome' = [p \in Positions |-> "none"]
  /\ sent' = [p \in Positions |-> 0]
  /\ executed' = [p \in Positions |-> 0]
  /\ UNCHANGED <<inv, chain, shutdown, dry_run, amt, tx, orphan, leaked>>

\* Fault: the round waits for candidates that shutdown keeps from starting.
EndRoundAfterQueue ==
  /\ phase = "running"
  /\ InFlight = {}
  /\ \A p \in Positions : pc[p] # "queued"
  /\ phase' = "idle"
  /\ UNCHANGED <<inv, chain, shutdown, dry_run, local, orphan, leaked>>

\* The stream is exhausted, or shutdown ended it and the last future drained.
EndRound ==
  /\ phase = "running"
  /\ InFlight = {}
  /\ shutdown \/ \A p \in Positions : pc[p] # "queued"
  /\ phase' = "idle"
  /\ UNCHANGED <<inv, chain, shutdown, dry_run, local, orphan, leaked>>

SignalShutdown ==
  /\ ~shutdown
  /\ shutdown' = TRUE
  /\ UNCHANGED <<inv, chain, phase, dry_run, local, orphan, leaked>>

\* The process has left its loop and exits.
Stopped == shutdown /\ phase = "idle" /\ UNCHANGED vars

Step(p) ==
  \/ Start(p) \/ CheckStatus(p) \/ Size(p) \/ Simulate(p) \/ Reserve(p)
  \/ Push(p) \/ Submit(p)
  \/ AnswerLanded(p) \/ AnswerRejected(p) \/ AnswerUnclear(p)
  \/ Collateral(p) \/ RefreshAsset(p) \/ Refetch(p)

Chain(p) == Land(p) \/ Reject(p)

Next ==
  \/ \E p \in Positions : Step(p) \/ Chain(p) \/ OrphanDecided(p)
  \/ Deposit \/ Refresh \/ BeginRound \/ EndRound \/ SignalShutdown \/ Stopped

Spec == Init /\ [][Next]_vars

(***************************************************************************)
(* The runtime polls every future that can make progress, every RPC call   *)
(* answers or times out, and the chain decides every transaction.  Nothing *)
(* obliges anyone to deposit, to refresh or to ask for a shutdown.         *)
(***************************************************************************)
Fairness ==
  /\ \A p \in Positions : WF_vars(Step(p)) /\ WF_vars(Chain(p))
  /\ WF_vars(EndRound)

FairSpec == Spec /\ Fairness

-----------------------------------------------------------------------------
(***************************************************************************)
(* The control part of the inductive invariant: what a position's place in *)
(* liquidate() says about its local variables.                             *)
(***************************************************************************)
Evaluating == {"status", "size", "reserve"}
InBudget == PCs \ (Parked \cup {"status"})

\* A transaction exists exactly while its answer is awaited, and an amount is
\* committed from sizing until settlement.
LocalConsistent(p) ==
  /\ tx[p] # "none" <=> pc[p] = "await"
  /\ pc[p] \in Holding \cup {"reserve"} => amt[p] > 0
  /\ outcome[p] # "none" => pc[p] = "done"
  /\ dry_run => pc[p] \in Parked \cup Evaluating

\* The iteration counter and the transactions sent so far.
BudgetConsistent(p) ==
  /\ pc[p] \in InBudget => iter[p] <= max_iterations
  /\ pc[p] \in Evaluating \cup {"push", "submit"} => sent[p] < iter[p]
  /\ pc[p] \notin {"done"} => sent[p] <= iter[p]
  /\ pc[p] \in {"idle", "queued"} => iter[p] = 0
  /\ pc[p] \notin Parked => iter[p] > 0
  /\ sent[p] <= (IF dry_run THEN 0 ELSE MaxIterations)
  /\ pc[p] \in {"idle", "queued"} \cup Evaluating /\ pushed[p] => iter[p] > 1

\* Whatever liquidate() was doing when the round ended, it has finished; and
\* with a truthful gateway no token leaves unnoticed.
ControlConsistent ==
  /\ \A p \in Positions : LocalConsistent(p) /\ BudgetConsistent(p)
  /\ phase = "idle" => InFlight = {}
  /\ TruthfulGateway => ~leaked /\ \A p \in Positions : orphan[p] = 0

\* What the round will tally for a position that gets one attempt: where it is
\* tells whether it submitted and executed, and so does its result.
CountsConsistent ==
  ~LoopLiquidation =>
    \A p \in Positions :
      /\ iter[p] <= 1 /\ pc[p] # "refetch"
      /\ sent[p] > 0 <=> \/ pc[p] \in {"await", "collateral", "refresh_asset"}
                         \/ pc[p] = "done" /\ ~dry_run /\ outcome[p] \in {"Liquidated", "Execution"}
      /\ executed[p] > 0 <=> \/ pc[p] \in {"collateral", "refresh_asset"}
                             \/ pc[p] = "done" /\ ~dry_run /\ outcome[p] = "Liquidated"

-----------------------------------------------------------------------------
(***************************************************************************)
(* Properties.                                                             *)
(***************************************************************************)

\* InventoryEntry.reserved is exactly what the positions in flight hold: no
\* path of execute_liquidation settles a reservation twice or forgets it.
ReservedIsHeld == inv.reserved = Total(amt, Held)

\* The inventory never counts tokens that have left the account, except those
\* of a landed transaction whose answer is still awaited (and which a hold
\* covers), unless an unclear answer made the code release spent tokens.
BalanceBacked == ~leaked => inv.balance <= chain + Total(amt, Landed)

\* "Concurrent positions cannot double-spend the same balance" (liquidator.rs
\* 1685-1687): the account owns every amount that some submitted or reserved
\* liquidation can still take, unless an unclear answer leaked tokens.
CommitmentsFunded == ~leaked => Total(amt, Exposed) <= chain

\* The same claim without the exception, as the documentation makes it.
NoDoubleSpend == Total(amt, Exposed) <= chain

\* A position that loses the inventory race fails before spending gas on the
\* oracle push (liquidator.rs 1352-1354).
UnfundedPaysNoGas ==
  \A p \in Positions : outcome[p] = "SkippedUnfunded" => ~pushed[p]

\* The loop submits at most max_loop_iterations transactions per position and
\* round, and simulates without submitting any.
IterationBudget ==
  \A p \in Positions : sent[p] <= (IF dry_run THEN 0 ELSE MaxIterations)

\* The inductive invariant the theorems rest on.
Inv ==
  /\ TypeOK
  /\ ControlConsistent
  /\ UnfundedPaysNoGas
  /\ ReservedIsHeld
  /\ BalanceBacked
  /\ CommitmentsFunded

\* RoundSummary of the finished round.
Tallied(results) == Cardinality({p \in Positions : outcome[p] \in results})
attempted == Tallied({"Liquidated", "Execution"})
succeeded == Tallied({"Liquidated"})

\* "attempted: liquidation transactions submitted" and "succeeded:
\* liquidations that landed" (RoundSummary): at the end of a live round the
\* summary counts the positions that submitted and that executed, no other.
SummaryMatchesChain ==
  (phase = "idle" /\ ~dry_run) =>
    /\ attempted = Cardinality({p \in Positions : sent[p] > 0})
    /\ succeeded = Cardinality({p \in Positions : executed[p] > 0})

\* "A stop after an executed transaction must keep it in the
\* attempted/succeeded counts" (map_evaluation, liquidator.rs 635-636).
ExecutedIsCounted ==
  \A p \in Positions :
    (pc[p] = "done" /\ executed[p] > 0) => outcome[p] = "Liquidated"

\* What a position may still do in its round: the iterations left, and within
\* one the way from the status check to the refetch.
Ahead ==
  [status |-> 9, size |-> 8, reserve |-> 7, push |-> 6, submit |-> 5,
   await |-> 4, collateral |-> 3, refresh_asset |-> 2, refetch |-> 1]
StepsLeft(p) ==
  CASE pc[p] \in {"idle", "done"} -> 0
    [] pc[p] = "queued" -> 10 * (MaxIterations + 1)
    [] OTHER -> 10 * (MaxIterations + 1 - iter[p]) + Ahead[pc[p]]

\* A round is finite whatever the chain, the gateway and the other positions
\* do: every move of a position brings it nearer to its result, the loop's
\* next iteration included, so each makes at most 10 * (MaxIterations + 1)
\* moves ("MAX_LOOP_ITERATIONS", liquidator.rs).
RoundAdvances ==
  [][phase = "running" =>
       \A p \in Positions : pc'[p] # pc[p] => StepsLeft(p)' < StepsLeft(p)]_vars

\* In flight positions run to completion, and the round ends with every
\* reservation settled, whether or not shutdown is requested meanwhile.
RoundEnds == (phase = "running") ~> (phase = "idle" /\ inv.reserved = 0)

\* Once shutdown is requested no position starts, and the bot comes to rest
\* for good (run_liquidations' shutdown contract, liquidator.rs 1690-1694).
ShutdownDrains == shutdown ~> [](phase = "idle" /\ InFlight = {})

\* The rounds implement the ledger: reserve admits only what nobody holds, and
\* every hold is given back or paid out once.
Ledger == INSTANCE ReservationLedger WITH
  Holders <- Positions,
  funds <- inv.balance,
  holds <- [p \in Positions |-> IF p \in Held THEN amt[p] ELSE 0]

LedgerRefined == Ledger!LedgerSpec
=============================================================================
