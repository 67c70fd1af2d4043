----------------------------- MODULE PushCheck ------------------------------
(***************************************************************************)
(* RUN_MODE=push-check (service.rs, push_check.rs, main.rs): one registry  *)
(* refresh, then for every admitted market in turn a read of what the      *)
(* proxy has cached, a push through update_onchain_prices (live mode), a   *)
(* second read and a verdict.  Other bots push to the same adapters, and   *)
(* prices age.                                                             *)
(*                                                                         *)
(* A price is fresh or not under the market's price_maximum_age_s; its age *)
(* is not counted.                                                         *)
(***************************************************************************)
EXTENDS PriceUpdate, Sequences

CONSTANTS
  Me,         \* this process: Pushers is {Me}
  Markets,    \* the price ids of each admitted market, in order
  DryRun

VARIABLES
  stage,     \* "refresh", "before", "push", "pushing", "after" or "exited"
  reports,   \* the reports so far: pushed, verdict, and whether a write was ours
  adapter,   \* feeds whose adapter holds a fresh price
  proxy,     \* feeds for which the proxy has a fresh price cached
  own,       \* history: this process's writes for the market in hand
  exit       \* {} or the exit code

checkVars == <<stage, reports, adapter, proxy, own, exit>>

Market == Markets[Len(reports) + 1]

\* build_config refuses a live check without a push leg, main exits 2.
Startable == DryRun \/ PythProPush \/ RedStoneLeg

CheckInit ==
  /\ UpdateInit
  /\ stage = IF Startable THEN "refresh" ELSE "exited"
  /\ reports = <<>>
  /\ adapter \in SUBSET Feeds
  /\ proxy \in SUBSET Feeds
  /\ own = {}
  /\ exit = IF Startable THEN {} ELSE {2}

-----------------------------------------------------------------------------
(***************************************************************************)
(* push_check_cycle.                                                       *)
(***************************************************************************)
judge(read) == IF Market \subseteq read THEN "fresh" ELSE "stale"

passed(markets) ==
  /\ ~DryRun
  /\ markets # <<>>
  /\ \A i \in 1..Len(markets) : markets[i].pushed /\ markets[i].verdict = "fresh"

\* One market's report; after the last one, the exit code of main.
Report(pushed, verdict) ==
  LET markets == Append(reports, [pushed |-> pushed, verdict |-> verdict, own |-> own # {}])
  IN  /\ reports' = markets
      /\ own' = {}
      /\ IF Len(markets) = Len(Markets)
         THEN stage' = "exited" /\ exit' = {IF passed(markets) \/ DryRun THEN 0 ELSE 1}
         ELSE stage' = "before" /\ UNCHANGED exit

\* A failed or an empty refresh exits 1.
Refresh ==
  /\ stage = "refresh"
  /\ \/ Markets # <<>> /\ stage' = "before" /\ UNCHANGED exit
     \/ stage' = "exited" /\ exit' = {1}
  /\ UNCHANGED <<pushVars, updateVars, reports, adapter, proxy, own>>

\* The first read, which a dry run judges; a failed one is stale there and
\* nothing in live mode.
Before ==
  /\ stage = "before"
  /\ IF DryRun
     THEN \E verdict \in {judge(proxy), "stale"} : Report(FALSE, verdict)
     ELSE stage' = "push" /\ UNCHANGED <<reports, own, exit>>
  /\ UNCHANGED <<pushVars, updateVars, adapter, proxy>>

Push ==
  /\ stage = "push"
  /\ \/ update_onchain_prices(Me) /\ ids'[Me] = Market
     \/ ProbeFails(Me)
  /\ stage' = "pushing"
  /\ UNCHANGED <<reports, adapter, proxy, own, exit>>

-----------------------------------------------------------------------------
(***************************************************************************)
(* The push itself, a step of PriceUpdate, and what it does to the prices. *)
(***************************************************************************)
PushPyth ==
  /\ PythWrite(Me)
  /\ \E feeds \in {{}, todo[Me] \ todo'[Me]} :
       /\ owed'[Me] \ owed[Me] \subseteq feeds
       /\ adapter' = adapter \union feeds
       /\ own' = own \union feeds
  /\ UNCHANGED <<stage, reports, proxy, exit>>

PushRedStone ==
  /\ AdapterAccepts(Me)
  /\ adapter' = adapter \union due[Me]
  /\ own' = own \union due[Me]
  /\ UNCHANGED <<stage, reports, proxy, exit>>

PushAggregates ==
  /\ AggregateSucceeds(Me) \/ AggregateFails(Me)
  /\ proxy' \in {(proxy \ ids[Me]) \union (ids[Me] \cap adapter)} \union
                (IF phase'[Me] = "done" THEN {} ELSE {proxy})
  /\ UNCHANGED <<stage, reports, adapter, own, exit>>

PushGoesOn ==
  /\ \/ Resolve(Me) \/ ResolveFails(Me) \/ PythDone(Me) \/ Packages(Me) \/ PackagesFail(Me)
     \/ RedStoneSkips(Me) \/ RedStoneWrites(Me) \/ RedStoneLands(Me) \/ RedStoneFails(Me)
     \/ AdapterRefuses(Me)
     \/ Tick /\ UNCHANGED updateVars
  /\ UNCHANGED checkVars

Pushed ==
  /\ stage = "pushing"
  /\ phase[Me] \in {"done", "failed"}
  /\ stage' = "after"
  /\ UNCHANGED <<pushVars, updateVars, reports, adapter, proxy, own, exit>>

\* The second read; a failed one is stale.
After ==
  /\ stage = "after"
  /\ \E verdict \in {judge(proxy), "stale"} :
       Report(phase[Me] = "done" /\ updated[Me], verdict)
  /\ UNCHANGED <<pushVars, updateVars, adapter, proxy>>

-----------------------------------------------------------------------------
\* Another bot writes an adapter, or has the proxy aggregate.
OtherBot ==
  /\ \E f \in Feeds : \/ adapter' = adapter \union {f} /\ UNCHANGED proxy
                      \/ f \in adapter /\ proxy' = proxy \union {f} /\ UNCHANGED adapter
  /\ UNCHANGED <<pushVars, updateVars, stage, reports, own, exit>>

Ages ==
  /\ \E f \in Feeds : adapter' = adapter \ {f} /\ proxy' \in {proxy, proxy \ {f}}
  /\ UNCHANGED <<pushVars, updateVars, stage, reports, own, exit>>

CheckNext ==
  \/ Refresh \/ Before \/ Push \/ Pushed \/ After
  \/ PushPyth \/ PushRedStone \/ PushAggregates \/ PushGoesOn
  \/ OtherBot \/ Ages

CheckSpec == CheckInit /\ [][CheckNext]_<<pushVars, updateVars, checkVars>>

-----------------------------------------------------------------------------
\* "A pass means *this process* pushed successfully for every checked market
\* ... a fresh read after a failed push could be someone else's work and proves
\* nothing about our path" (PushCheckReport::passed): a live run that exits 0
\* has written at least one adapter feed of each market itself.
PassMeansOwnPush ==
  exit = {0} /\ ~DryRun => \A i \in 1..Len(reports) : reports[i].own
=============================================================================
