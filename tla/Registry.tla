------------------------------ MODULE Registry ------------------------------
(***************************************************************************)
(* The registry refresh (service.rs refresh_registry, metrics.rs): which   *)
(* deployments become markets of the bot, what the gauges say about those  *)
(* that do not, which assets the inventory tracks, and into which asset    *)
(* each collateral is swapped.                                             *)
(*                                                                         *)
(* A refresh lists the deployments, reads each of them in turn and then    *)
(* installs the result at once.  A deployment's turn is several reads with *)
(* an await at each.  The chain may change between any two of them, and    *)
(* any of them may fail.                                                   *)
(***************************************************************************)
EXTENDS Naturals, Sequences, SequencesExt, FiniteSetsExt, Collections

CONSTANTS
  Deployments,   \* every account a registry may come to list
  Listing,       \* the deployments each registry lists, in order
  Collateral, Borrow,  \* the assets of each market, fixed when it is deployed
  Facts,         \* what else each deployment may look like on the chain
  Proxies,       \* the oracle accounts with the proxy interface
  Usdc,          \* the borrow assets is_usdc_asset recognises
  Allowed, Deprecated, Ignored,  \* ALLOWED_MARKETS and the two deny lists
  AllowedCollateral, IgnoredCollateral,
  MaxRefreshes   \* bound on the refreshes of a behaviour

ASSUME ListingAssumption == Listing \in Seq(Seq(Deployments))

VARIABLES
  chain,       \* the facts of each deployment, as they are now
  pc,          \* "idle", or the read that is next
  todo,        \* deployments of this refresh whose turn is not over
  config,      \* what this turn read with get_configuration
  admitted,    \* market_configs: those admitted so far
  tally,       \* FilterTally of this refresh
  proxy_cache, \* the oracle accounts known to be proxies
  markets,     \* the admitted markets
  inventory,   \* borrow assets with an inventory entry
  collateral_inventory,
  collateral_price_map,
  registered,  \* gauge markets_registered
  filtered,    \* gauge family markets_filtered
  refresh      \* history of the last refresh, see NoRefresh

vars == <<chain, pc, todo, config, admitted, tally, proxy_cache, markets, inventory,
          collateral_inventory, collateral_price_map, registered, filtered, refresh>>

installed == <<markets, inventory, collateral_inventory, collateral_price_map, registered, filtered>>

Empty == [x \in {} |-> 0]
NoConfig == Empty

\* What a refresh met: the deployments it listed, the facts each had at some
\* moment of it, and those a failed read decided.  count: how many refreshes
\* there were.
NoRefresh == [count |-> 0, listed |-> {}, met |-> Empty, unread |-> {}]

-----------------------------------------------------------------------------
(***************************************************************************)
(* Admission.                                                              *)
(***************************************************************************)
deprecated(m) == m \in Deprecated
outside_allowlist(m) == Allowed # {} /\ m \notin Allowed

\* market_rejection_reason is some reason.
rejected_by_list(m) == deprecated(m) \/ outside_allowlist(m) \/ m \in Ignored

should_process_market(m) ==
  /\ config.decimals
  /\ Collateral[m] \notin IgnoredCollateral
  /\ AllowedCollateral # {} => Collateral[m] \in AllowedCollateral

\* Fault: a source configuration that cannot be read passes.
composable_fail_open(m, read) == ~read \/ config.oracle \in chain[m].sources

\* resolve_offchain_plans and offchain_admission: the oracle's sources could be
\* read, and every feed has one this bot can price.
composable(m, read) == read /\ config.oracle \in chain[m].sources

-----------------------------------------------------------------------------
Init ==
  /\ chain \in {f \in [Deployments -> UNION {Facts[m] : m \in Deployments}] : \A m \in Deployments : f[m] \in Facts[m]}
  /\ pc = "idle"
  /\ todo = <<>>
  /\ config = NoConfig
  /\ admitted = {}
  /\ tally = Empty
  /\ proxy_cache = {}
  /\ markets = {}
  /\ inventory = {}
  /\ collateral_inventory = {}
  /\ collateral_price_map = Empty
  /\ registered = 0
  /\ filtered = Empty
  /\ refresh = NoRefresh

\* First occurrences, in listing order.
dedupe_deployments(s) == Picked(s, {i \in DOMAIN s : \A j \in 1..(i - 1) : s[j] # s[i]})

\* list_all_deployments: the registries answer in any order.
ListDeployments ==
  /\ pc = "idle" /\ refresh.count < MaxRefreshes
  /\ \E order \in SetToSeqs(DOMAIN Listing) :
       LET all == dedupe_deployments(FlattenSeq([i \in DOMAIN order |-> Listing[order[i]]]))
       IN  /\ todo' = all
           /\ refresh' = [count |-> refresh.count + 1, listed |-> ToSet(all),
                          met |-> [m \in ToSet(all) |-> {chain[m]}], unread |-> {}]
  /\ pc' = "config"
  /\ admitted' = {}
  /\ tally' = Empty
  /\ UNCHANGED <<chain, config, proxy_cache, installed>>

\* One registry cannot be listed: the refresh fails as a whole.
ListFails ==
  /\ pc = "idle"
  /\ UNCHANGED vars

record(label) ==
  tally' = [r \in DOMAIN tally \union {label} |->
              (IF r \in DOMAIN tally THEN tally[r] ELSE 0) + (IF r = label THEN 1 ELSE 0)]

-----------------------------------------------------------------------------
(***************************************************************************)
(* One deployment's turn.                                                  *)
(***************************************************************************)
NextRead(read) ==
  /\ pc' = read
  /\ UNCHANGED <<todo, admitted, tally, refresh>>

EndTurn ==
  /\ pc' = "config"
  /\ todo' = Tail(todo)
  /\ config' = NoConfig

Filter(label) ==
  /\ EndTurn
  /\ record(label)
  /\ UNCHANGED <<admitted, refresh>>

\* A read failed for another reason than a missing method: filtered until the
\* next refresh.
FilterUnread(label) ==
  /\ EndTurn
  /\ record(label)
  /\ refresh' = [refresh EXCEPT !.unread = @ \union {Head(todo)}]
  /\ UNCHANGED admitted

Admit ==
  /\ EndTurn
  /\ admitted' = admitted \union {Head(todo)}
  /\ UNCHANGED <<tally, refresh>>

\* The operator's lists, before any read, then get_configuration.
ReadConfig ==
  /\ pc = "config" /\ todo # <<>>
  /\ LET m == Head(todo)
     IN  \/ rejected_by_list(m) /\ Filter(IF deprecated(m) THEN "deprecated" ELSE "ignored")
         \/ ~rejected_by_list(m) /\ FilterUnread("config-read-error")
         \/ ~rejected_by_list(m) /\ ~chain[m].market /\ Filter("not-a-market")
         \/ /\ ~rejected_by_list(m) /\ chain[m].market
            /\ config' = [decimals |-> chain[m].decimals, oracle |-> chain[m].oracle]
            /\ NextRead("version")
  /\ UNCHANGED <<chain, proxy_cache, installed>>

ReadVersion ==
  /\ pc = "version"
  /\ \/ FilterUnread("version-read-error")
     \/ ~chain[Head(todo)].version /\ Filter("version")
     \/ chain[Head(todo)].version /\ NextRead("detect") /\ UNCHANGED config
  /\ UNCHANGED <<chain, proxy_cache, installed>>

\* detect_and_register_proxy_oracle: a failed probe is only logged.
DetectProxy ==
  /\ pc = "detect"
  /\ proxy_cache' \in {proxy_cache, proxy_cache \union ({config.oracle} \intersect Proxies)}
  /\ NextRead("probe")
  /\ UNCHANGED <<chain, config, installed>>

\* offchain_priceable probes again, unless the oracle is known to be a proxy.
ProbeProxy ==
  /\ pc = "probe"
  /\ \/ /\ config.oracle \in proxy_cache \union Proxies
        /\ proxy_cache' = proxy_cache \union {config.oracle}
        /\ NextRead("sources") /\ UNCHANGED config
     \/ /\ config.oracle \notin proxy_cache \union Proxies
        /\ Filter("oracle") /\ UNCHANGED proxy_cache
     \/ /\ config.oracle \notin proxy_cache
        /\ FilterUnread("oracle-probe-error") /\ UNCHANGED proxy_cache
  /\ UNCHANGED <<chain, installed>>

\* The sources are those of the oracle the configuration named, which the
\* market may have left since.
ReadSources ==
  /\ pc = "sources"
  /\ LET m == Head(todo)
     IN  \E read \in BOOLEAN :
           \/ ~composable(m, read) /\ read /\ Filter("oracle")
           \/ ~composable(m, read) /\ ~read /\ FilterUnread("oracle")
           \/ composable(m, read) /\ ~should_process_market(m) /\ Filter("asset-filter")
           \/ composable(m, read) /\ should_process_market(m) /\ Admit
  /\ UNCHANGED <<chain, proxy_cache, installed>>

-----------------------------------------------------------------------------
\* Fault: what a reason counted before is left as it was.
set_registry_counts_unreset(counts) ==
  [r \in DOMAIN filtered \union DOMAIN counts |->
     IF r \in DOMAIN counts THEN counts[r] ELSE filtered[r]]

\* A reason that stopped occurring reads 0.
set_registry_counts(counts) ==
  [r \in DOMAIN filtered \union DOMAIN counts |->
     IF r \in DOMAIN counts THEN counts[r] ELSE 0]

\* The map with the market's collateral routed through that market.
routed(map, m) == Updated(map, Collateral[m], [market |-> m, target |-> Borrow[m]])

\* Fault: the last market with the collateral decides.
insert_price_last(map, m) == routed(map, m)

\* One market's turn in build_collateral_price_map: a USDC target stays.
insert_price(map, m) ==
  IF Collateral[m] \in DOMAIN map /\ map[Collateral[m]].target \in Usdc
    THEN map
    ELSE routed(map, m)

\* Everything admitted becomes the state of the service.  The price map is
\* built in whatever order the map of markets iterates.
Install ==
  /\ pc = "config" /\ todo = <<>>
  /\ inventory' = inventory \union {Borrow[m] : m \in admitted}
  /\ collateral_inventory' = collateral_inventory \union {Collateral[m] : m \in admitted}
  /\ registered' = Cardinality(admitted)
  /\ filtered' = set_registry_counts(tally)
  /\ markets' = admitted
  /\ \E order \in SetToSeqs(admitted) :
       collateral_price_map' = FoldLeft(insert_price, Empty, order)
  /\ pc' = "idle"
  /\ admitted' = {}
  /\ tally' = Empty
  /\ UNCHANGED <<chain, todo, config, proxy_cache, refresh>>

\* The chain changes: a contract is upgraded, an oracle is re-pointed or its
\* sources reconfigured.
Change(m, facts) ==
  /\ facts # chain[m]
  /\ chain' = [chain EXCEPT ![m] = facts]
  /\ refresh' = IF pc = "idle" THEN refresh
                ELSE [refresh EXCEPT !.met = [d \in refresh.listed |->
                                                @[d] \union (IF d = m THEN {facts} ELSE {})]]
  /\ UNCHANGED <<pc, todo, config, admitted, tally, proxy_cache, installed>>

Next ==
  \/ ListDeployments \/ ListFails
  \/ ReadConfig \/ ReadVersion \/ DetectProxy \/ ProbeProxy \/ ReadSources \/ Install
  \/ \E m \in Deployments : \E facts \in Facts[m] : Change(m, facts)

Spec == Init /\ [][Next]_vars

-----------------------------------------------------------------------------
(***************************************************************************)
(* Properties.                                                             *)
(***************************************************************************)
\* What the bot ought to serve, said of the operator's lists and the chain
\* alone: the facts of a deployment when its configuration, its version and its
\* oracle's sources are read.
Serviceable(m, configured, versioned, sourced) ==
  /\ m \notin Deprecated \union Ignored
  /\ Allowed = {} \/ m \in Allowed
  /\ Collateral[m] \notin IgnoredCollateral
  /\ AllowedCollateral = {} \/ Collateral[m] \in AllowedCollateral
  /\ configured.market /\ configured.decimals /\ configured.oracle \in Proxies
  /\ versioned.version
  /\ configured.oracle \in sourced.sources

\* Every fact that speaks for serving it was true at some moment of the refresh.
Justified(m) ==
  /\ m \in refresh.listed
  /\ \E f, g, h \in refresh.met[m] : Serviceable(m, f, g, h)

\* Nothing spoke against it at any moment of the refresh, whenever it was read.
Certain(m) == \A f, g, h \in refresh.met[m] : Serviceable(m, f, g, h)

\* A market is served exactly when it should be, as far as one refresh can
\* know: none without every fact that it takes having been true at some moment
\* of the refresh, and every listed one that nothing spoke against at any
\* moment of it and that no failed read decided, whatever earlier refreshes
\* read, cached or failed to read.  So a market that does not change meanwhile
\* is served if and only if it is serviceable, and one that was dropped for a
\* failed read, or is re-pointed to a proxy oracle, is back after the next
\* clean refresh.
AdmissionSound ==
  pc = "idle" =>
    /\ \A m \in markets : Justified(m)
    /\ \A m \in refresh.listed \ refresh.unread : Certain(m) => m \in markets

\* The gauges account for every listed deployment once: registered plus the
\* filtered ones under all reasons, those of earlier refreshes included, is the
\* number of distinct deployments the last refresh listed.
GaugesBalance ==
  pc = "idle" =>
    /\ registered = Cardinality(markets)
    /\ registered + Total(filtered, DOMAIN filtered) = Cardinality(refresh.listed)

\* The swap route of a collateral belongs to the markets served now: it exists
\* exactly for their collaterals, is priced by the oracle of a served market
\* with that collateral and leads into that market's borrow asset, which the
\* inventory tracks; and it leads into USDC whenever any of them does, in
\* whatever order the markets are visited.
SwapRoutesSound ==
  LET with(key) == {m \in markets : Collateral[m] = key}
  IN  /\ DOMAIN collateral_price_map = {Collateral[m] : m \in markets}
      /\ \A key \in DOMAIN collateral_price_map :
           LET route == collateral_price_map[key]
           IN  /\ route.market \in with(key)
               /\ route.target = Borrow[route.market]
               /\ route.target \in inventory /\ key \in collateral_inventory
               /\ (\E m \in with(key) : Borrow[m] \in Usdc) => route.target \in Usdc

-----------------------------------------------------------------------------
(***************************************************************************)
(* The inductive invariant of the proofs.                                  *)
(***************************************************************************)
IsTally(f) == IsFiniteSet(DOMAIN f) /\ \A r \in DOMAIN f : f[r] \in Nat

\* Between refreshes nothing is pending, and a refresh has each deployment at
\* most once on its list.
Consistent ==
  /\ pc \in {"idle", "config", "version", "detect", "probe", "sources"}
  /\ pc = "idle" => todo = <<>> /\ admitted = {} /\ tally = Empty
  /\ pc \in {"version", "detect", "probe", "sources"} => todo # <<>>
  /\ todo \in Seq(refresh.listed)
  /\ \A i, j \in DOMAIN todo : todo[i] = todo[j] => i = j
  /\ refresh = [count |-> refresh.count, listed |-> refresh.listed, met |-> refresh.met,
                unread |-> refresh.unread]
  /\ IsFiniteSet(refresh.listed) /\ refresh.listed \subseteq Deployments
  /\ DOMAIN chain = Deployments
  /\ IsTally(tally) /\ IsTally(filtered)
  /\ proxy_cache \subseteq Proxies

\* The turn under way: what was read of its deployment was true when it was
\* read, and none of it stopped the turn.
TurnSound ==
  LET m == Head(todo)
  IN  /\ pc \in {"version", "detect", "probe", "sources"} =>
           /\ ~rejected_by_list(m)
           /\ \E f \in refresh.met[m] :
                f.market /\ config = [decimals |-> f.decimals, oracle |-> f.oracle]
      /\ pc \in {"detect", "probe", "sources"} => \E f \in refresh.met[m] : f.version
      /\ pc = "sources" => config.oracle \in Proxies

\* A refresh under way: what it admitted it was told to, what it has read of
\* the deployments that nothing spoke against it admitted unless a read failed, and
\* whatever it has read is admitted or counted under one reason.
Underway ==
  pc # "idle" =>
    /\ admitted \subseteq refresh.listed \ ToSet(todo)
    /\ \A m \in admitted : Justified(m)
    /\ \A m \in refresh.listed \ (refresh.unread \union ToSet(todo)) :
         Certain(m) => m \in admitted
    /\ \A d \in refresh.listed : chain[d] \in refresh.met[d]
    /\ Cardinality(admitted) + Total(tally, DOMAIN tally) + Len(todo) = Cardinality(refresh.listed)

RegistryInv == Consistent /\ TurnSound /\ Underway /\ AdmissionSound /\ GaugesBalance /\ SwapRoutesSound
=============================================================================
