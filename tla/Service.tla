------------------------------ MODULE Service ------------------------------
(***************************************************************************)
(* The life of one process (service.rs): startup, the select loop of run   *)
(* (or the single cycle of run_once), the liquidation cycle with its loop  *)
(* over the markets, the count of consecutive scan failures per market,    *)
(* the watcher that turns signals into a graceful shutdown, and the drain  *)
(* of the notifier before the process ends.                                *)
(*                                                                         *)
(* It composes with Notifier, whose state it extends: here the callers of  *)
(* the notifier appear, and no call asks whether a drain has begun.  That  *)
(* none is made afterwards is for Service => NotifierSpec to show.         *)
(*                                                                         *)
(* A market's scan is one state of this module, entered and left; what     *)
(* happens inside is LiquidationRound, and what a batch swap does is       *)
(* CollateralSwap.  Both show up here by the messages they send.  A sleep  *)
(* is the gap between two steps.                                           *)
(***************************************************************************)
EXTENDS Notifier, FiniteSets

CONSTANTS
  Markets,      \* every deployment a registry can list
  NoMarket,     \* no market is being scanned
  Threshold,    \* scan_failure_notify_threshold, 0 disables
  MaxFailures   \* bound on the consecutive scan failures of a market

ASSUME ServiceAssumption ==
  /\ IsFiniteSet(Markets)
  /\ NoMarket \notin Markets
  /\ Threshold \in Nat
  /\ MaxFailures \in Nat

VARIABLES
  mode,     \* RUN_MODE: "loop" or "once"
  pc,       \* where the main task is
  shutdown, \* the flag the watcher raises
  wake,     \* the watch channel it sends on afterwards
  markets,  \* the admitted markets
  todo,     \* markets of this round not visited yet
  market,   \* the market being scanned
  scan_failure_counts,
  raised,   \* history: where the main task was when the flag was raised
  begun,    \* history: branches and scans begun since, up to 2
  open      \* history: scan_failures minus scan_recovered calls, per market

loop == <<mode, pc, shutdown, wake, markets, todo, market,
          scan_failure_counts, raised, begun, open>>
service == <<notifier, loop>>

Steps == {"start", "top", "select", "registry", "cycle", "market", "scan",
          "drain", "draining"}
Ended == {"exited", "killed"}

Running == pc \notin Ended

ServiceTypeOK ==
  /\ mode \in {"loop", "once"}
  /\ pc \in Steps \cup Ended
  /\ shutdown \in BOOLEAN
  /\ wake \in BOOLEAN
  /\ markets \in SUBSET Markets
  /\ todo \in SUBSET Markets
  /\ market \in Markets \cup {NoMarket}
  /\ scan_failure_counts \in [Markets -> 0..MaxFailures]
  /\ raised \in Steps \cup {"no"}
  /\ begun \in 0..2
  /\ open \in [Markets -> Int]

ServiceInit ==
  /\ NotifierInit
  /\ mode \in {"loop", "once"}
  /\ pc = "start"
  /\ shutdown = FALSE
  /\ wake = FALSE
  /\ markets = {}
  /\ todo = {}
  /\ market = NoMarket
  /\ scan_failure_counts = [m \in Markets |-> 0]
  /\ raised = "no"
  /\ begun = 0
  /\ open = [m \in Markets |-> 0]

-----------------------------------------------------------------------------
(***************************************************************************)
(* The watcher, which only run spawns, before anything else.               *)
(***************************************************************************)
Signal ==
  /\ mode = "loop"
  /\ Running
  /\ ~shutdown
  /\ shutdown' = TRUE
  /\ raised' = pc
  /\ UNCHANGED <<notifier, mode, pc, wake, markets, todo, market,
                 scan_failure_counts, begun, open>>

Wake ==
  /\ Running
  /\ shutdown
  /\ ~wake
  /\ wake' = TRUE
  /\ UNCHANGED <<notifier, mode, pc, shutdown, markets, todo, market,
                 scan_failure_counts, raised, begun, open>>

\* The operator insists: exit(130).
SecondSignal ==
  /\ Running
  /\ wake
  /\ pc' = "killed"
  /\ UNCHANGED <<notifier, mode, shutdown, wake, markets, todo, market,
                 scan_failure_counts, raised, begun, open>>

-----------------------------------------------------------------------------
(***************************************************************************)
(* The registry.  A refresh that lists the deployments replaces the whole  *)
(* set of markets by those whose reads succeeded and that the filters      *)
(* admit; one that cannot list them changes nothing.  The failure counts   *)
(* are left alone either way.                                              *)
(***************************************************************************)
refresh_registry(listed) ==
  IF listed THEN markets' \in SUBSET Markets ELSE markets' = markets

\* The refresh before the loop of run, or the one of run_once, for which a
\* failed listing and an empty registry are fatal.
Startup ==
  /\ pc = "start"
  /\ \E listed \in BOOLEAN :
       /\ refresh_registry(listed)
       /\ pc' = IF mode = "loop" THEN "top"
                ELSE IF listed /\ markets' # {} THEN "cycle" ELSE "drain"
  /\ UNCHANGED <<notifier, mode, shutdown, wake, todo, market, scan_failure_counts,
                 raised, begun, open>>

RegistryRefresh ==
  /\ pc = "registry"
  /\ \E listed \in BOOLEAN : refresh_registry(listed)
  /\ pc' = "top"
  /\ UNCHANGED <<notifier, mode, shutdown, wake, todo, market, scan_failure_counts,
                 raised, begun, open>>

-----------------------------------------------------------------------------
(***************************************************************************)
(* The loop of run.  select! takes any branch that is ready, so a tick may *)
(* win over the wake.                                                      *)
(***************************************************************************)
\* Fault: the flag is read by the select only.
TopUnchecked ==
  /\ pc = "top"
  /\ pc' = "select"
  /\ UNCHANGED <<notifier, mode, shutdown, wake, markets, todo, market,
                 scan_failure_counts, raised, begun, open>>

Top ==
  /\ pc = "top"
  /\ pc' = IF shutdown THEN "drain" ELSE "select"
  /\ UNCHANGED <<notifier, mode, shutdown, wake, markets, todo, market,
                 scan_failure_counts, raised, begun, open>>

\* One more piece of work is begun; two is as good as many.
Begin == begun' = IF shutdown /\ begun < 2 THEN begun + 1 ELSE begun

SelectShutdown ==
  /\ pc = "select"
  /\ wake
  /\ pc' = "drain"
  /\ UNCHANGED <<notifier, mode, shutdown, wake, markets, todo, market,
                 scan_failure_counts, raised, begun, open>>

SelectTick(branch) ==
  /\ pc = "select"
  /\ pc' = branch
  /\ Begin
  /\ UNCHANGED <<notifier, mode, shutdown, wake, markets, todo, market,
                 scan_failure_counts, raised, open>>

-----------------------------------------------------------------------------
(***************************************************************************)
(* The liquidation cycle: batch swaps, then the round over the markets     *)
(* admitted now.                                                           *)
(***************************************************************************)
\* notify_swap_failed of batch_swap_collateral.
BatchSwapFailed ==
  /\ pc = "cycle"
  /\ spawn_send
  /\ UNCHANGED <<dedup, drain, told, flooded, loop>>

BeginRound ==
  /\ pc = "cycle"
  /\ pc' = "market"
  /\ todo' = markets
  /\ UNCHANGED <<notifier, mode, shutdown, wake, markets, market,
                 scan_failure_counts, raised, begun, open>>

\* Fault: a single-cycle run goes on to the loop.
EndOfCycleLooping == "top"

EndOfCycle == IF mode = "loop" THEN "top" ELSE "drain"

\* Fault: the drain is begun when a round ends, and the loop goes on.
EndRoundDraining ==
  /\ pc = "market"
  /\ todo = {} \/ shutdown
  /\ BeginDrain
  /\ pc' = EndOfCycle
  /\ todo' = {}
  /\ UNCHANGED <<mode, shutdown, wake, markets, market, scan_failure_counts, raised,
                 begun, open>>

\* Every market, or those left when the flag was raised, have had their turn.
EndRound ==
  /\ pc = "market"
  /\ todo = {} \/ shutdown
  /\ pc' = EndOfCycle
  /\ todo' = {}
  /\ UNCHANGED <<notifier, mode, shutdown, wake, markets, market,
                 scan_failure_counts, raised, begun, open>>

NextMarket(m) ==
  /\ pc = "market"
  /\ m \in todo
  /\ ~shutdown
  /\ pc' = "scan"
  /\ market' = m
  /\ todo' = todo \ {m}
  /\ Begin
  /\ UNCHANGED <<notifier, mode, shutdown, wake, markets, scan_failure_counts,
                 raised, open>>

\* Messages of the positions being liquidated.
ScanNotify ==
  /\ pc = "scan"
  /\ \/ spawn_send /\ UNCHANGED <<dedup, told, flooded>>
     \/ \E key \in Keys : LiquidationFailed(key)
     \/ \E borrower \in Borrowers : clear_failure_dedup_for(borrower)
  /\ UNCHANGED <<drain, loop>>

RecoveryDue(m) == Threshold > 0 /\ scan_failure_counts[m] >= Threshold

\* Fault: every failure from the threshold on is announced.
AlertDueAgain(m) == Threshold > 0 /\ scan_failure_counts[m] + 1 >= Threshold

AlertDue(m) == Threshold > 0 /\ scan_failure_counts[m] + 1 = Threshold

\* run_liquidations returned Ok: the count is removed.
ScanOk ==
  /\ pc = "scan"
  /\ pc' = "market"
  /\ scan_failure_counts' = [scan_failure_counts EXCEPT ![market] = 0]
  /\ IF RecoveryDue(market)
     THEN spawn_send /\ open' = [open EXCEPT ![market] = @ - 1]
     ELSE UNCHANGED <<permits, sending, open>>
  /\ market' = NoMarket
  /\ UNCHANGED <<dedup, drain, told, flooded, mode, shutdown, wake, markets,
                 todo, raised, begun>>

\* It returned an error.
ScanFailed ==
  /\ pc = "scan"
  /\ scan_failure_counts[market] < MaxFailures
  /\ pc' = "market"
  /\ scan_failure_counts' = [scan_failure_counts EXCEPT ![market] = @ + 1]
  /\ IF AlertDue(market)
     THEN spawn_send /\ open' = [open EXCEPT ![market] = @ + 1]
     ELSE UNCHANGED <<permits, sending, open>>
  /\ market' = NoMarket
  /\ UNCHANGED <<dedup, drain, told, flooded, mode, shutdown, wake, markets,
                 todo, raised, begun>>

-----------------------------------------------------------------------------
(***************************************************************************)
(* The end of run and of run_once.                                         *)
(***************************************************************************)
\* Fault: the process returns without waiting for its messages.
DrainSkipped ==
  /\ pc = "drain"
  /\ pc' = "exited"
  /\ UNCHANGED <<notifier, mode, shutdown, wake, markets, todo, market,
                 scan_failure_counts, raised, begun, open>>

Drain ==
  /\ pc = "drain"
  /\ BeginDrain
  /\ pc' = "draining"
  /\ UNCHANGED <<mode, shutdown, wake, markets, todo, market, scan_failure_counts,
                 raised, begun, open>>

Exit ==
  /\ pc = "draining"
  /\ EndDrain
  /\ pc' = "exited"
  /\ UNCHANGED <<mode, shutdown, wake, markets, todo, market, scan_failure_counts,
                 raised, begun, open>>

\* The tasks of the notifier live as long as the runtime.
Background ==
  /\ Running
  /\ SendDone \/ Tick
  /\ UNCHANGED loop

\* The process is gone.
Gone == ~Running /\ UNCHANGED service

MainStep ==
  \/ Startup \/ RegistryRefresh \/ Top \/ SelectShutdown
  \/ \E branch \in {"registry", "cycle"} : SelectTick(branch)
  \/ BeginRound \/ EndRound \/ \E m \in Markets : NextMarket(m)
  \/ ScanOk \/ ScanFailed \/ Drain \/ Exit

ServiceNext ==
  \/ MainStep
  \/ Signal \/ Wake \/ SecondSignal
  \/ BatchSwapFailed \/ ScanNotify
  \/ Background \/ Gone

ServiceSpec == ServiceInit /\ [][ServiceNext]_service

\* The main task and the watcher are always polled again: a scan returns (see
\* RoundEnds of LiquidationRound), an interval ticks, and a drain has its
\* timeout.  Nothing makes a signal arrive, a message go out in time, or one
\* branch of the select win.
FairServiceSpec ==
  /\ ServiceSpec
  /\ WF_service(MainStep)
  /\ WF_service(Wake)

-----------------------------------------------------------------------------
(***************************************************************************)
(* Properties.                                                             *)
(***************************************************************************)

\* An outage of a market produces one alert, however long it lasts and however
\* the registry drops and readmits the market meanwhile, and its end one
\* recovery; a market that recovers before the threshold stays silent
\* (notifier.rs 38-47).
AlertsPaired ==
  \A m \in Markets :
    open[m] = IF Threshold > 0 /\ scan_failure_counts[m] >= Threshold THEN 1 ELSE 0

\* A signal that arrives during startup, a refresh or a cycle is followed by no
\* further branch and no further market; one that arrives while the task is
\* waiting may lose the race to a tick once, and then buys no scan
\* (service.rs 635-642, 1641-1652).
NothingNewAfterSignal == begun <= IF raised = "select" THEN 1 ELSE 0

\* On every path out of run and run_once, the errors of run_once included, the
\* messages accepted are delivered or the drain has timed out (service.rs
\* 685-688, 763-766).
ExitDelivers == pc = "exited" => sending = 0 \/ drain = "timed_out"

\* How far the main task is from the top of its loop, and from the exit.
StepsLeft ==
  CASE pc \in {"start", "select"} -> 2 * Cardinality(Markets) + 6
    [] pc = "cycle" -> 2 * Cardinality(markets) + 5
    [] pc = "scan" -> 2 * Cardinality(todo) + 5
    [] pc = "market" -> 2 * Cardinality(todo) + 4
    [] pc = "registry" -> 4
    [] pc = "top" -> 3
    [] pc = "drain" -> 2
    [] pc = "draining" -> 1
    [] OTHER -> 0

\* The top of run's loop, with no signal, is the only place from which the main
\* task goes back: a cycle visits each market once at most, a single-cycle run
\* leads to the exit, and from a signal on so does every move of run.
LoopsOnlyAtTop ==
  [][pc' # pc => \/ pc = "top" /\ mode = "loop" /\ ~shutdown
                 \/ StepsLeft' < StepsLeft]_service

\* The inductive invariant: the state of the drain follows the main task, and a
\* task that waits in the select after the signal was there when it came.
ServiceInv ==
  /\ ServiceTypeOK
  /\ NotifierInv
  /\ pc = "scan" => market \in Markets
  /\ pc \in Steps \ {"draining"} => drain = "no"
  /\ pc = "draining" => drain = "waiting"
  /\ pc = "exited" => drain \in {"drained", "timed_out"}
  /\ ~shutdown => raised = "no" /\ begun = 0
  /\ shutdown /\ pc = "select" => raised = "select" /\ begun = 0
  /\ NothingNewAfterSignal
  /\ AlertsPaired

\* A first signal leads to the end of the process, with no help from a second.
GracefulExit == shutdown ~> ~Running

\* A single-cycle run comes to an end by itself.
OnceEnds == mode = "once" => <>(pc = "exited")
=============================================================================
