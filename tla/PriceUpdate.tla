---------------------------- MODULE PriceUpdate -----------------------------
(***************************************************************************)
(* update_onchain_prices (oracle.rs): what a position future does before   *)
(* it liquidates.  It resolves the adapters behind the price ids of its    *)
(* market, pushes the Pyth Pro feeds one by one, pushes through RedStone   *)
(* the feeds the Pyth Pro push cannot refresh (RedStonePush, whose actions *)
(* are steps of this module), and has the proxy re-aggregate the market's  *)
(* price ids from the adapters.  Every leg is best-effort and the          *)
(* re-aggregation always follows; only its own failure is an error.        *)
(*                                                                         *)
(* A price id stands for the feed behind it.  One RedStone adapter and one *)
(* Pyth Pro adapter serve every feed.                                      *)
(***************************************************************************)
EXTENDS RedStonePush

CONSTANTS
  PythFeeds,        \* feeds with a Pyth Pro source
  RedStoneFeeds,    \* feeds with a RedStone source
  PythProPush,      \* pyth_pro_updates is configured (LAZER_API_TOKEN)
  RedStoneLeg       \* redstone_push_client is configured

ASSUME UpdateAssumption ==
  /\ PythFeeds \subseteq Feeds
  /\ RedStoneFeeds \subseteq Feeds
  /\ PythProPush \in BOOLEAN
  /\ RedStoneLeg \in BOOLEAN

VARIABLES
  phase,     \* where a pusher is in update_onchain_prices
  ids,       \* the price ids of its market, until it returns
  todo,      \* the Pyth Pro feeds it has still to push
  updated,   \* any_updated
  behind,    \* feeds whose adapter is newer than what the proxy aggregated
  owed       \* history: the landed writes a push relies on that the proxy lacks

pushVars == <<memo, pc, wanted, due, wait, tx, written, early>>
updateVars == <<phase, ids, todo, updated, behind, owed>>

Phases == {"idle", "resolve", "pyth", "packages", "redstone", "aggregate", "done", "failed"}

UpdateTypeOK ==
  /\ phase \in [Pushers -> Phases]
  /\ ids \in [Pushers -> SUBSET Feeds]
  /\ todo \in [Pushers -> SUBSET Feeds]
  /\ updated \in [Pushers -> BOOLEAN]
  /\ behind \in SUBSET Feeds
  /\ owed \in [Pushers -> SUBSET Feeds]

UpdateInit ==
  /\ Init
  /\ phase = [p \in Pushers |-> "idle"]
  /\ ids = [p \in Pushers |-> {}]
  /\ todo = [p \in Pushers |-> {}]
  /\ updated = [p \in Pushers |-> FALSE]
  /\ behind = {}
  /\ owed = [p \in Pushers |-> {}]

-----------------------------------------------------------------------------
(***************************************************************************)
(* resolve_update_targets.                                                 *)
(***************************************************************************)
collect_pyth_pro_targets(feeds) == feeds \cap PythFeeds

\* A feed the Pyth Pro push refreshes needs no RedStone write.
collect_redstone_targets(feeds) ==
  IF PythProPush THEN (feeds \cap RedStoneFeeds) \ PythFeeds ELSE feeds \cap RedStoneFeeds

\* The market's position is about to be liquidated.  A failed probe of the
\* oracle is an error, and there is nothing to push on an oracle that is no
\* proxy; without either leg there is nothing to resolve.
update_onchain_prices(p) ==
  /\ phase[p] \in {"idle", "done", "failed"}
  /\ \E borrow, collateral \in Feeds : ids' = [ids EXCEPT ![p] = {borrow, collateral}]
  /\ phase' = [phase EXCEPT ![p] = IF PythProPush \/ RedStoneLeg THEN "resolve" ELSE "aggregate"]
  /\ updated' = [updated EXCEPT ![p] = FALSE]
  /\ owed' = [owed EXCEPT ![p] = {}]
  /\ UNCHANGED <<pushVars, todo, behind>>

ProbeFails(p) ==
  /\ phase[p] \in {"idle", "done", "failed"}
  /\ \E after \in {"done", "failed"} : phase' = [phase EXCEPT ![p] = after]
  /\ ids' = [ids EXCEPT ![p] = {}]
  /\ updated' = [updated EXCEPT ![p] = FALSE]
  /\ owed' = [owed EXCEPT ![p] = {}]
  /\ UNCHANGED <<pushVars, todo, behind>>

Resolve(p) ==
  /\ phase[p] = "resolve"
  /\ todo' = [todo EXCEPT ![p] = IF PythProPush THEN collect_pyth_pro_targets(ids[p]) ELSE {}]
  /\ phase' = [phase EXCEPT ![p] = "pyth"]
  /\ UNCHANGED <<pushVars, ids, updated, behind, owed>>

\* One proxy read failed: nothing is pushed, from no part of the targets.
ResolveFails(p) ==
  /\ phase[p] = "resolve"
  /\ phase' = [phase EXCEPT ![p] = "aggregate"]
  /\ UNCHANGED <<pushVars, ids, todo, updated, behind, owed>>

-----------------------------------------------------------------------------
(***************************************************************************)
(* update_pyth_pro_prices: one write per feed; a failed one is passed over.*)
(* A write that is answered with an error may have landed.                 *)
(***************************************************************************)
PythWrite(p) ==
  /\ phase[p] = "pyth"
  /\ \E f \in todo[p], lands \in BOOLEAN, succeeded \in BOOLEAN :
       /\ succeeded => lands
       /\ todo' = [todo EXCEPT ![p] = @ \ {f}]
       /\ behind' = IF lands THEN behind \union {f} ELSE behind
       /\ updated' = [updated EXCEPT ![p] = @ \/ succeeded]
       /\ owed' = [owed EXCEPT ![p] = IF succeeded THEN @ \union {f} ELSE @]
  /\ UNCHANGED <<pushVars, phase, ids>>

PythDone(p) ==
  /\ phase[p] = "pyth"
  /\ todo[p] = {}
  /\ phase' = [phase EXCEPT ![p] =
       IF RedStoneLeg /\ collect_redstone_targets(ids[p]) # {} THEN "packages" ELSE "aggregate"]
  /\ UNCHANGED <<pushVars, ids, todo, updated, behind, owed>>

-----------------------------------------------------------------------------
(***************************************************************************)
(* The RedStone leg: packages_for_push, then update_redstone_prices.       *)
(***************************************************************************)
Packages(p) ==
  /\ phase[p] = "packages"
  /\ Ask(p)
  /\ wanted'[p] = collect_redstone_targets(ids[p])
  /\ phase' = [phase EXCEPT ![p] = "redstone"]
  /\ UNCHANGED <<ids, todo, updated, behind, owed>>

PackagesFail(p) ==
  /\ phase[p] = "packages"
  /\ phase' = [phase EXCEPT ![p] = "aggregate"]
  /\ UNCHANGED <<pushVars, ids, todo, updated, behind, owed>>

\* The feeds it leaves alone as recently written: by a write that has landed,
\* unless one is in flight.  The push relies on those writes.
Relied(p) == {f \in wanted[p] \ due_feeds(wanted[p]) : Writing(f) = {}}

RedStoneSkips(p) ==
  /\ phase[p] = "redstone"
  /\ GiveUp(p)
  /\ owed' = [owed EXCEPT ![p] = @ \union (Relied(p) \cap behind)]
  /\ phase' = [phase EXCEPT ![p] = "aggregate"]
  /\ UNCHANGED <<ids, todo, updated, behind>>

RedStoneWrites(p) ==
  /\ phase[p] = "redstone"
  /\ Write(p)
  /\ owed' = [owed EXCEPT ![p] = @ \union (Relied(p) \cap behind)]
  /\ UNCHANGED <<phase, ids, todo, updated, behind>>

RedStoneLands(p) ==
  /\ phase[p] = "redstone"
  /\ AnswerSucceeded(p)
  /\ owed' = [owed EXCEPT ![p] = @ \union (due[p] \cap behind)]
  /\ updated' = [updated EXCEPT ![p] = TRUE]
  /\ phase' = [phase EXCEPT ![p] = "aggregate"]
  /\ UNCHANGED <<ids, todo, behind>>

RedStoneFails(p) ==
  /\ phase[p] = "redstone"
  /\ AnswerFailed(p)
  /\ phase' = [phase EXCEPT ![p] = "aggregate"]
  /\ UNCHANGED <<ids, todo, updated, behind, owed>>

AdapterAccepts(p) ==
  /\ Accept(p)
  /\ behind' = behind \union due[p]
  /\ UNCHANGED <<phase, ids, todo, updated, owed>>

AdapterRefuses(p) == Refuse(p) /\ UNCHANGED updateVars

-----------------------------------------------------------------------------
(***************************************************************************)
(* update_proxy_prices: last in every push, for every price id.            *)
(***************************************************************************)
\* Fault: the proxy is re-aggregated only after a write of this push.
aggregated_own(p) == IF updated[p] THEN ids[p] ELSE {}

aggregated(p) == ids[p]

AggregateSucceeds(p) ==
  /\ phase[p] = "aggregate"
  /\ behind' = behind \ aggregated(p)
  /\ owed' = [q \in Pushers |-> owed[q] \cap behind']
  /\ updated' = [updated EXCEPT ![p] = TRUE]
  /\ phase' = [phase EXCEPT ![p] = "done"]
  /\ ids' = [ids EXCEPT ![p] = {}]
  /\ UNCHANGED <<pushVars, todo>>

\* An error, or a status that is not success; the proxy may have been updated.
AggregateFails(p) ==
  /\ phase[p] = "aggregate"
  /\ behind' \in {behind, behind \ aggregated(p)}
  /\ owed' = [q \in Pushers |-> IF q = p THEN {} ELSE owed[q] \cap behind']
  /\ phase' = [phase EXCEPT ![p] = "failed"]
  /\ ids' = [ids EXCEPT ![p] = {}]
  /\ updated' = [updated EXCEPT ![p] = FALSE]
  /\ UNCHANGED <<pushVars, todo>>

UpdateStep(p) ==
  \/ update_onchain_prices(p) \/ ProbeFails(p) \/ Resolve(p) \/ ResolveFails(p)
  \/ PythWrite(p) \/ PythDone(p)
  \/ Packages(p) \/ PackagesFail(p)
  \/ RedStoneSkips(p) \/ RedStoneWrites(p) \/ RedStoneLands(p) \/ RedStoneFails(p)
  \/ AdapterAccepts(p) \/ AdapterRefuses(p)
  \/ AggregateSucceeds(p) \/ AggregateFails(p)

UpdateNext ==
  \/ \E p \in Pushers : UpdateStep(p)
  \/ Tick /\ UNCHANGED updateVars

UpdateSpec == UpdateInit /\ [][UpdateNext]_<<pushVars, updateVars>>

-----------------------------------------------------------------------------
(***************************************************************************)
(* Properties.                                                             *)
(***************************************************************************)
\* What the market reads after a push.  When update_onchain_prices returns Ok,
\* the proxy has aggregated every landed write the push relies on: its own, and
\* the ones another position made a moment ago, for which it left the feed
\* alone.  A leg that failed, or had nothing due, does not skip the
\* re-aggregation.
PushReachesProxy == \A p \in Pushers : phase[p] = "done" => owed[p] = {}

\* The invariant behind it: a push relies only on feeds of its own market, and
\* a pusher is in RedStonePush exactly during its RedStone leg.
UpdateInv ==
  /\ UpdateTypeOK
  /\ \A p \in Pushers :
       /\ owed[p] \subseteq ids[p]
       /\ todo[p] \subseteq ids[p]
       /\ phase[p] # "pyth" => todo[p] = {}
       /\ phase[p] = "redstone" <=> pc[p] # "idle"
       /\ phase[p] = "redstone" => wanted[p] \subseteq ids[p] /\ due[p] \subseteq ids[p]
       /\ phase[p] = "done" => owed[p] = {}
=============================================================================
