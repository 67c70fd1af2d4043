----------------------------- MODULE MarketScan -----------------------------
(***************************************************************************)
(* The first half of a market's turn in a round (liquidator.rs,            *)
(* oracle.rs, lazer.rs, redstone.rs, scanner.rs): the prices of its feed   *)
(* pair are composed off-chain, from the RedStone gateways, the Pyth Pro   *)
(* (Lazer) API and rate contracts, and if both feeds have one the borrow   *)
(* positions are listed page by page.                                      *)
(*                                                                         *)
(* The scans are those of the main task, one after the other; the RedStone *)
(* packages come from the client of GatewayCache, whose only caller here   *)
(* is the scan.  Time passes between any two steps, so a price ages while  *)
(* later sources are fetched.                                              *)
(***************************************************************************)
EXTENDS GatewayCache, SequencesExt, Collections

CONSTANTS
  PriceIds,    \* the market's feeds, in the order they are resolved
  Sources,     \* per feed, the sources of the proxy's configuration, in order
  LazerFeeds,  \* Pyth Pro feed ids
  Quotes,      \* what the Pyth Pro API may have for a feed: shape and age, per channel
  MaxAge,      \* price_maximum_age_s
  Skew,        \* MAX_FUTURE_SKEW_MS
  Rates,       \* values of the rate contracts; 0 cannot be applied
  PageSize,
  MaxScans,            \* bound on the scans of a behaviour
  MaxOpens, MaxCloses  \* bounds on what the borrowers do during a listing

VARIABLES
  legs,       \* OffchainLegs: the legs with credentials, fixed at the start
  stage,      \* where the scan is
  scans,      \* how many there were
  plans,      \* the feeds with candidates, each with its candidates
  redstone,   \* FetchedBackends::redstone
  quotes,     \* what the Pyth Pro API has for each feed
  unsplit,    \* feeds the split pass has still to ask for, in the set's order
  channel,    \* the channel it tries next
  lazer,      \* FetchedBackends::lazer
  cut,        \* history: a terminal failure or an unreadable batch ended the Pyth Pro fetch
  candidate,  \* the candidate of the first feed in plans to be tried next
  rate,       \* what the rate contracts say now
  transformer_inputs,
  response,   \* OracleResponse, with the candidate and the time of each price
  tried,      \* history: the candidates each feed had
  positions,  \* the market's borrow positions, in the order it lists them
  offset, borrows,
  steady,     \* history: positions open since the listing began
  opens, closes

pricing == <<plans, redstone, quotes, unsplit, channel, lazer, cut, candidate, rate,
             transformer_inputs, response, tried>>
listing == <<positions, offset, borrows, steady, opens, closes>>
vars == <<cacheVars, legs, stage, scans, pricing, listing>>

Scan == CHOOSE c \in Callers : TRUE
None == [x \in {} |-> 0]

Source == UNION {ToSet(Sources[id]) : id \in ToSet(PriceIds)}
Calls == {s.call : s \in Source} \ {"none"}
Channels == <<"fixed_rate@200ms", "real_time">>

ASSUME ScanAssumption ==
  /\ Callers # {}
  /\ PriceIds \in Seq(ToSet(PriceIds))
  /\ \A id \in ToSet(PriceIds) : Sources[id] \in Seq(Source)
  /\ \A s \in Source : /\ s.leg = "redstone" => s.feed \in Symbols
                       /\ s.leg = "lazer" => s.feed \in LazerFeeds
  /\ \A list \in PackageLists :
       /\ list \in Seq(ToSet(list))
       /\ \A p \in ToSet(list) : p.value \in Int /\ p.age \in Int
  /\ \A q \in Quotes : \A ch \in DOMAIN q : q[ch].age \in Int
  /\ MaxAge \in Nat /\ Skew \in Nat /\ PageSize \in Nat \ {0}

-----------------------------------------------------------------------------
(***************************************************************************)
(* Plans: the sources the bot can price, in the proxy's order.             *)
(***************************************************************************)
\* classify_offchain_request over the legs with credentials; Pyth Core has none.
plan_offchain_sources(sources) == Picked(sources, {i \in DOMAIN sources : sources[i].leg \in legs})

wanted_of(leg, planned) ==
  {s.feed : s \in {t \in UNION {ToSet(planned[i].candidates) : i \in DOMAIN planned} : t.leg = leg}}

\* Feeds whose configuration can be read and names a source the bot can price.
resolve_offchain_plans(readable) ==
  LET all == [i \in DOMAIN PriceIds |->
                [id |-> PriceIds[i], candidates |-> plan_offchain_sources(Sources[PriceIds[i]])]]
  IN  Picked(all, {i \in DOMAIN all : all[i].id \in readable /\ all[i].candidates # <<>>})

publish_time_is_fresh(stamp, t) == t - stamp <= MaxAge /\ t - stamp >= -Skew

-----------------------------------------------------------------------------
(***************************************************************************)
(* scan_prices: one price of a symbol's packages.                          *)
(***************************************************************************)
Unparsable == -1

\* Fault: a signer counts as often as it appears.
packages_of_every_copy(list) == {i \in DOMAIN list : list[i].value # Unparsable}

\* The positions of the first usable package of each signer.
packages_by_signer(list) ==
  {i \in DOMAIN list :
     /\ list[i].value # Unparsable
     /\ \A j \in 1..(i - 1) : list[j].value # Unparsable => list[j].signer # list[i].signer}

median(values, used) ==
  LET n == Cardinality(used)
      mid == n \div 2
  IN  IF n % 2 = 1 THEN KthSmallest(values, used, mid + 1)
      ELSE (KthSmallest(values, used, mid) + KthSmallest(values, used, mid + 1) + 1) \div 2

\* Ages are counted back from the fetch: the largest is the oldest package, so
\* the lower median of the timestamps is the upper median of the ages.
lower_median_age(ages, used) ==
  LET n == Cardinality(used) IN KthSmallest(ages, used, n - ((n - 1) \div 2))

scan_price(list, fetched_at) ==
  LET used == packages_by_signer(list)
      values == [i \in DOMAIN list |-> list[i].value]
      ages == [i \in DOMAIN list |-> list[i].age]
  IN  [value |-> IF used = {} THEN 0 ELSE median(values, used),
       stamp |-> IF used = {} THEN 0 ELSE fetched_at - lower_median_age(ages, used)]

scan_prices(snapshot, symbols) ==
  LET priced == {s \in symbols \intersect DOMAIN snapshot.packages :
                   LET price == scan_price(snapshot.packages[s], snapshot.fetched_at)
                   IN  price.value >= 1 /\ publish_time_is_fresh(price.stamp, now)}
  IN  [s \in priced |-> scan_price(snapshot.packages[s], snapshot.fetched_at)]

-----------------------------------------------------------------------------
Init ==
  /\ CacheInit
  /\ legs \in (SUBSET {"redstone", "lazer"}) \ {{}}
  /\ stage = "idle"
  /\ scans = 0
  /\ plans = <<>>
  /\ redstone = None
  /\ quotes = None
  /\ unsplit = <<>>
  /\ channel = 1
  /\ lazer = None
  /\ cut = FALSE
  /\ candidate = 1
  /\ rate \in [Calls -> Rates]
  /\ transformer_inputs = None
  /\ response = None
  /\ tried = None
  /\ positions = <<>>
  /\ offset = 0
  /\ borrows = {}
  /\ steady = {}
  /\ opens = 0
  /\ closes = 0

\* get_oracle_prices: the oracle is probed, unless known to be a proxy, and the
\* proxy's source configuration is read per feed; a feed that cannot be read is
\* left out.  What the Pyth Pro API will have is drawn here: for each channel
\* that carries a feed, the age of its last update there, and whether that is
\* further ahead of the clock than the code accepts.
Begin ==
  /\ stage = "idle" /\ scans < MaxScans
  /\ scans' = scans + 1
  /\ \E readable \in SUBSET ToSet(PriceIds) :
       LET resolved == resolve_offchain_plans(readable)
       IN  /\ plans' = resolved
           /\ tried' = [id \in {resolved[i].id : i \in DOMAIN resolved} |->
                          plan_offchain_sources(Sources[id])]
           /\ stage' = IF resolved = <<>> THEN "gate" ELSE "redstone"
  /\ \E drawn \in [LazerFeeds -> Quotes] :
       quotes' = [f \in LazerFeeds |-> [ch \in DOMAIN drawn[f] |->
                    [point |-> drawn[f][ch].point, stamp |-> now - drawn[f][ch].age,
                     ahead |-> drawn[f][ch].point # "untimed" /\ drawn[f][ch].age < -Skew]]]
  /\ UNCHANGED <<legs, cacheVars, redstone, unsplit, channel, lazer, cut, candidate, rate,
                 transformer_inputs, response, listing>>

\* The probe fails, or the oracle is no proxy: the market's scan is an error.
ProbeFails ==
  /\ stage = "idle" /\ scans < MaxScans
  /\ scans' = scans + 1
  /\ stage' = "failed"
  /\ UNCHANGED <<legs, cacheVars, pricing, listing>>

-----------------------------------------------------------------------------
(***************************************************************************)
(* The two backends, one after the other.                                  *)
(***************************************************************************)
RedStoneSkipped ==
  /\ stage = "redstone" /\ pc[Scan] = "idle"
  /\ wanted_of("redstone", plans) = {}
  /\ stage' = "lazer"
  /\ UNCHANGED <<legs, cacheVars, scans, pricing, listing>>

RedStoneAsks ==
  /\ stage = "redstone"
  /\ packages(Scan, wanted_of("redstone", plans), TRUE)
  /\ UNCHANGED <<legs, stage, scans, pricing, listing>>

RedStoneClient ==
  /\ Client(Scan)
  /\ UNCHANGED <<legs, stage, scans, pricing, listing>>

\* A failed read prices nothing.
RedStonePrices ==
  /\ stage = "redstone"
  /\ Take(Scan)
  /\ redstone' = IF answer[Scan].from = {} THEN None
                 ELSE scan_prices(CHOOSE s \in answer[Scan].from : TRUE, wanted_of("redstone", plans))
  /\ stage' = "lazer"
  /\ UNCHANGED <<legs, scans, plans, quotes, unsplit, channel, lazer, cut, candidate, rate,
                 transformer_inputs, response, tried, listing>>

-----------------------------------------------------------------------------
(***************************************************************************)
(* get_ema_prices: one batch, split by feed if the API rejects it over     *)
(* one of them.                                                            *)
(***************************************************************************)
\* The API answers a request that every feed of it carries the channel of.
Carried(feeds, c) == \A f \in feeds : Channels[c] \in DOMAIN quotes[f]

\* What it answers for a feed on a channel that carries it.
Quote(f, c) == quotes[f][Channels[c]]

\* The publish time of a feed in a response: its own update time, or, when the
\* response has none for it, the envelope's.
publish_time(f, c) == IF Quote(f, c).point = "untimed" THEN now ELSE Quote(f, c).stamp

\* A field of the wrong type in one entry fails the whole body.
Readable(feeds, c) == \A f \in feeds : Quote(f, c).point # "mistyped"

\* parse_latest_price_response: the fresh ones of a readable body.  A feed
\* without a usable price, exponent or confidence, or with a timestamp that
\* cannot be read, is skipped.
parsed(feeds, c) ==
  LET usable(f) == Quote(f, c).point # "malformed" /\ publish_time_is_fresh(publish_time(f, c), now)
  IN  [f \in {g \in feeds : Readable(feeds, c) /\ usable(g)} |-> publish_time(f, c)]

Compose ==
  /\ stage' = "compose"
  /\ candidate' = 1

LazerSkipped ==
  /\ stage = "lazer"
  /\ wanted_of("lazer", plans) = {}
  /\ Compose
  /\ UNCHANGED <<legs, cacheVars, scans, plans, redstone, quotes, unsplit, channel, lazer, cut, rate,
                 transformer_inputs, response, tried, listing>>

LazerBatch ==
  /\ stage = "lazer"
  /\ wanted_of("lazer", plans) # {}
  /\ LET feeds == wanted_of("lazer", plans)
     IN  \/ /\ Carried(feeds, 1)
            /\ lazer' = parsed(feeds, 1)
            /\ cut' = ~Readable(feeds, 1)
            /\ Compose
            /\ UNCHANGED <<unsplit, channel>>
         \/ /\ ~Carried(feeds, 1)
            /\ unsplit' \in SetToSeqs(feeds)
            /\ channel' = 1
            /\ stage' = "split"
            /\ UNCHANGED <<lazer, cut, candidate>>
  /\ UNCHANGED <<legs, cacheVars, scans, plans, redstone, quotes, rate, transformer_inputs, response,
                 tried, listing>>

\* A feed of the split pass is done with; the next one starts at the first channel.
SplitNext ==
  /\ unsplit' = Tail(unsplit)
  /\ channel' = 1
  /\ IF Len(unsplit) = 1 THEN Compose ELSE UNCHANGED <<stage, candidate>>

\* Fault: a rejected feed is not asked for on its next channel.
SplitRejectedAtOnce ==
  /\ SplitNext
  /\ UNCHANGED lazer

\* A feed the API rejects on this channel is asked for on the next one.
SplitRejected ==
  /\ IF channel < Len(Channels)
       THEN channel' = channel + 1 /\ UNCHANGED <<unsplit, stage, candidate>>
       ELSE SplitNext
  /\ UNCHANGED lazer

\* A channel that carries the feed decides it, with a price or without one.
LazerSplit ==
  /\ stage = "split"
  /\ LET f == Head(unsplit)
         single == parsed({f}, channel)
     IN  \/ /\ Carried({f}, channel)
            /\ lazer' = IF f \in DOMAIN single THEN Updated(lazer, f, single[f]) ELSE lazer
            /\ SplitNext
         \/ ~Carried({f}, channel) /\ SplitRejected
  /\ UNCHANGED <<legs, cacheVars, scans, plans, redstone, quotes, cut, rate, transformer_inputs, response,
                 tried, listing>>

\* Authorisation, rate limit, server error, transport: what was priced is kept
\* and nothing more is asked for.
LazerDown ==
  /\ stage \in {"lazer", "split"}
  /\ wanted_of("lazer", plans) # {}
  /\ cut' = TRUE
  /\ unsplit' = <<>>
  /\ channel' = 1
  /\ Compose
  /\ UNCHANGED <<legs, cacheVars, scans, plans, redstone, quotes, lazer, rate, transformer_inputs, response,
                 tried, listing>>

-----------------------------------------------------------------------------
(***************************************************************************)
(* Composition: per feed, the first candidate with a fresh price.          *)
(***************************************************************************)
HasPrice(s) == IF s.leg = "redstone" THEN s.feed \in DOMAIN redstone ELSE s.feed \in DOMAIN lazer
Stamp(s) == IF s.leg = "redstone" THEN redstone[s.feed].stamp ELSE lazer[s.feed]

\* The input of a transformer, fetched once per composition; 0: the fetch
\* failed, or the action cannot be applied to it.
Inputs(call) ==
  IF call \in DOMAIN transformer_inputs THEN {transformer_inputs[call]} ELSE {0, rate[call]}

\* Fault: every candidate reads its rate again.
Remembered_not(call, input) == None

Remembered(call, input) == Updated(transformer_inputs, call, input)

\* The next feed, with or without a price for this one.
NextFeed ==
  /\ plans' = Tail(plans)
  /\ candidate' = 1
  /\ stage' = IF Len(plans) = 1 THEN "gate" ELSE "compose"

\* Fault: one aged candidate costs the whole feed.
NextCandidateNever == NextFeed

NextCandidate ==
  IF candidate < Len(Head(plans).candidates)
    THEN candidate' = candidate + 1 /\ UNCHANGED <<plans, stage>>
    ELSE NextFeed

price_one_candidate ==
  /\ stage = "compose"
  /\ LET id == Head(plans).id
         s == Head(plans).candidates[candidate]
     IN  \E input \in IF s.call = "none" THEN {1} ELSE Inputs(s.call) :
           LET usable == HasPrice(s) /\ input # 0
                           /\ publish_time_is_fresh(Stamp(s), now)
           IN  /\ transformer_inputs' = IF s.call = "none" \/ ~HasPrice(s) THEN transformer_inputs
                                        ELSE Remembered(s.call, input)
               /\ IF usable
                    THEN /\ response' = Updated(response, id, [candidate |-> candidate, input |-> input, at |-> now])
                         /\ NextFeed
                    ELSE /\ NextCandidate
                         /\ UNCHANGED response
  /\ UNCHANGED <<legs, cacheVars, scans, redstone, quotes, unsplit, channel, lazer, cut, rate, tried, listing>>

\* The scan needs the full pair; anything less is a failed market scan.
covers_all == ToSet(PriceIds) \subseteq DOMAIN response

Gate ==
  /\ stage = "gate"
  /\ stage' = IF covers_all THEN "list" ELSE "failed"
  /\ plans' = <<>> /\ redstone' = None /\ quotes' = None /\ lazer' = None /\ cut' = FALSE
  /\ transformer_inputs' = None /\ response' = None /\ tried' = None
  /\ \E n \in 0..(2 * PageSize) :
       IF covers_all THEN positions' = [i \in 1..n |-> i] /\ steady' = 1..n
                     ELSE positions' = <<>> /\ steady' = {}
  /\ UNCHANGED <<legs, cacheVars, scans, unsplit, channel, candidate, rate, offset, borrows, opens, closes>>

-----------------------------------------------------------------------------
(***************************************************************************)
(* get_all_borrows, while the borrowers go on.                             *)
(***************************************************************************)
Page == SubSeq(positions, offset + 1, Min({offset + PageSize, Len(positions)}))

\* Fault: the page after the first one is not asked for.
LastPageAlways == TRUE

\* An empty or a short page ends the listing.
LastPage == Len(Page) < PageSize

ListPage ==
  /\ stage = "list"
  /\ borrows' = borrows \union ToSet(Page)
  /\ offset' = offset + Len(Page)
  /\ stage' = IF LastPage THEN "done" ELSE "list"
  /\ UNCHANGED <<legs, cacheVars, scans, pricing, positions, steady, opens, closes>>

\* A page cannot be read: the market's scan is an error.
ListFails ==
  /\ stage = "list"
  /\ stage' = "failed"
  /\ UNCHANGED <<legs, cacheVars, scans, pricing, listing>>

OpenPosition ==
  /\ stage = "list" /\ opens < MaxOpens
  /\ positions' = Append(positions, 2 * PageSize + opens + 1)
  /\ opens' = opens + 1
  /\ UNCHANGED <<legs, cacheVars, stage, scans, pricing, offset, borrows, steady, closes>>

\* A position leaves the market's map, which moves its last entry into the gap
\* or shifts the rest.
ClosePosition ==
  /\ stage = "list" /\ closes < MaxCloses
  /\ \E i \in DOMAIN positions :
       /\ positions' \in {RemoveAt(positions, i),
                          SubSeq([positions EXCEPT ![i] = positions[Len(positions)]], 1, Len(positions) - 1)}
       /\ steady' = steady \ {positions[i]}
  /\ closes' = closes + 1
  /\ UNCHANGED <<legs, cacheVars, stage, scans, pricing, offset, borrows, opens>>

\* The round goes on; the market's next scan is in a later round.
EndScan ==
  /\ stage \in {"done", "failed"}
  /\ stage' = "idle"
  /\ positions' = <<>> /\ offset' = 0 /\ borrows' = {} /\ steady' = {} /\ opens' = 0 /\ closes' = 0
  /\ UNCHANGED <<legs, cacheVars, scans, pricing>>

Clock ==
  /\ stage \in {"idle", "redstone", "lazer", "split", "compose"}
  /\ Tick
  /\ UNCHANGED <<legs, stage, scans, pricing, listing>>

\* A rate contract accrues.
RateMoves ==
  /\ stage \in {"idle", "compose"}
  /\ rate' \in [Calls -> Rates]
  /\ rate' # rate
  /\ UNCHANGED <<legs, cacheVars, stage, scans, plans, redstone, quotes, unsplit, channel, lazer, cut, candidate,
                 transformer_inputs, response, tried, listing>>

Next ==
  \/ Begin \/ ProbeFails \/ RedStoneSkipped \/ RedStoneAsks \/ RedStoneClient \/ RedStonePrices
  \/ LazerSkipped \/ LazerBatch \/ LazerSplit \/ LazerDown
  \/ price_one_candidate \/ Gate \/ ListPage \/ ListFails \/ OpenPosition \/ ClosePosition
  \/ EndScan \/ Clock \/ RateMoves

Spec == Init /\ [][Next]_vars

-----------------------------------------------------------------------------
(***************************************************************************)
(* Properties.                                                             *)
(***************************************************************************)
\* With three signers or more, no single one of them moves the RedStone price
\* out of the range of the others, nor ages or renews the quote beyond theirs,
\* however often it signs.
MedianRobust ==
  \A s \in DOMAIN redstone : \A snapshot \in last :
    LET list == snapshot.packages[s]
        usable == {i \in DOMAIN list : list[i].value # Unparsable}
        signers == {list[i].signer : i \in usable}
        first(signer) == Min({i \in usable : list[i].signer = signer})
        between(x, S) == (\E y \in S : y <= x) /\ (\E y \in S : x <= y)
    IN  s \in DOMAIN snapshot.packages /\ Cardinality(signers) >= 3 =>
          \A odd \in signers :
            LET others == {first(g) : g \in signers \ {odd}}
            IN  /\ between(redstone[s].value, {list[i].value : i \in others})
                /\ between(redstone[s].stamp, {snapshot.fetched_at - list[i].age : i \in others})

\* The first channel that carries the feed has a price of it that is fresh.  One
\* from the future is not a price the scan can wait for.
Priceable(f) ==
  \E c \in DOMAIN Channels :
    /\ Channels[c] \in DOMAIN quotes[f]
    /\ \A b \in 1..(c - 1) : Channels[b] \notin DOMAIN quotes[f]
    /\ Quote(f, c).point \notin {"malformed", "mistyped"} /\ ~Quote(f, c).ahead
    /\ publish_time_is_fresh(publish_time(f, c), now)

\* One feed cannot zero its siblings: unless the API failed as a whole, or
\* answered the batch with an entry of the wrong type, every wanted Pyth Pro
\* feed that can be priced on the first channel that carries it is, whichever
\* feeds the API rejected beside it and in whatever order the split pass asks.
BadFeedIsolated ==
  stage = "compose" /\ ~cut /\ candidate = 1 /\ response = None =>
    \A id \in DOMAIN tried : \A s \in ToSet(tried[id]) :
      s.leg = "lazer" /\ Priceable(s.feed) => s.feed \in DOMAIN lazer

\* The proxy's order decides: a feed's price comes from its first candidate
\* that was usable when it was tried, and a feed whose configuration was read
\* stays unpriced only if none of its candidates was: an outage, a stale quote
\* or a failed rate costs the candidate and never the feed.
Unusable(s, t) ==
  \/ ~HasPrice(s)
  \/ t - Stamp(s) > MaxAge
  \/ s.call \in DOMAIN transformer_inputs /\ transformer_inputs[s.call] = 0

SourceOrderKept ==
  stage = "gate" =>
    \A id \in DOMAIN tried :
      IF id \in DOMAIN response
        THEN \A i \in 1..(response[id].candidate - 1) : Unusable(tried[id][i], response[id].at)
        ELSE \A i \in DOMAIN tried[id] : Unusable(tried[id][i], now)

\* The feeds of a pair that go through one rate contract are transformed by one
\* value of it, though the contract accrues while the pair is composed.
OneRatePerScan ==
  \A a, b \in DOMAIN response :
    LET s == tried[a][response[a].candidate]
        t == tried[b][response[b].candidate]
    IN  s.call = t.call => response[a].input = response[b].input

\* Offset pages over a map that changes: a position open throughout the listing
\* is missed only for one that was closed during it, and each closing hides at
\* most one from this scan.
ListingMissesFew == stage = "done" => Cardinality(steady \ borrows) <= closes

-----------------------------------------------------------------------------
(***************************************************************************)
(* The inductive invariant of the proofs.                                  *)
(***************************************************************************)
Plan == [id : ToSet(PriceIds), candidates : Seq(Source) \ {<<>>}]
Planned == {plans[i].id : i \in DOMAIN plans}

\* What a scan has when it is where it is, and that nothing of it is left for
\* the next one.
StageConsistent ==
  /\ stage \in {"idle", "redstone", "lazer", "split", "compose", "gate", "list", "done", "failed"}
  /\ pc[Scan] # "idle" => stage = "redstone"
  /\ stage \in {"idle", "list", "done", "failed"} => tried = None
  /\ stage \notin {"compose", "gate"} => response = None /\ transformer_inputs = None
  /\ stage \notin {"lazer", "split", "compose", "gate"} => redstone = None
  /\ stage \notin {"split", "compose", "gate"} => lazer = None
  /\ stage \in {"redstone", "lazer", "split", "compose"} => plans # <<>>
  /\ stage \in {"idle", "gate", "list", "done", "failed"} => plans = <<>>
  /\ stage = "compose" => candidate \in 1..Len(plans[1].candidates)

PlansConsistent ==
  /\ plans \in Seq(Plan)
  /\ \A i \in DOMAIN plans : plans[i].id \in DOMAIN tried /\ plans[i].candidates = tried[plans[i].id]
  /\ stage \in {"redstone", "lazer", "split"} => DOMAIN tried = Planned
  /\ \A id \in DOMAIN tried : tried[id] \in Seq(Source)

\* A price is never further ahead of the clock than the skew: it was fresh when
\* it was fetched, and the clock moves on.  A quote may be, and is not priced.
NotAhead(stamp) == stamp \in Int /\ now - stamp >= -Skew

PricesSound ==
  /\ \A s \in DOMAIN redstone : NotAhead(redstone[s].stamp)
  /\ \A f \in DOMAIN lazer : NotAhead(lazer[f])
  /\ stage \in {"redstone", "lazer", "split", "compose"} =>
       \A f \in LazerFeeds : \A ch \in DOMAIN quotes[f] :
         /\ quotes[f][ch].stamp \in Int
         /\ quotes[f][ch].point # "untimed" /\ ~quotes[f][ch].ahead => NotAhead(quotes[f][ch].stamp)

\* The RedStone prices are those of the snapshot the client still has.
FromSnapshot ==
  /\ pc[Scan] = "answered" => answer[Scan].from \subseteq last
  /\ \A s \in DOMAIN redstone : \A snapshot \in last :
       /\ s \in DOMAIN snapshot.packages
       /\ redstone[s] = scan_price(snapshot.packages[s], snapshot.fetched_at)
       /\ redstone[s].value >= 1

\* The split pass: a feed it is done with is priced if it can be, and the one
\* it asks for is on none of the channels it tried.
Wanted == {s.feed : s \in {t \in UNION {ToSet(tried[id]) : id \in DOMAIN tried} : t.leg = "lazer"}}

SplitSound ==
  /\ stage = "split" =>
       /\ unsplit \in Seq(Wanted) /\ unsplit # <<>>
       /\ channel \in 1..Len(Channels)
       /\ \A c \in 1..(channel - 1) : Channels[c] \notin DOMAIN quotes[unsplit[1]]
       /\ \A f \in Wanted \ ToSet(unsplit) : Priceable(f) => f \in DOMAIN lazer
  /\ stage = "compose" /\ ~cut => \A f \in Wanted : Priceable(f) => f \in DOMAIN lazer

\* A price was transformed by the input the composition remembers.
RatesRemembered ==
  \A id \in DOMAIN response :
    /\ id \in DOMAIN tried /\ response[id].candidate \in DOMAIN tried[id]
    /\ LET s == tried[id][response[id].candidate]
       IN  IF s.call = "none" THEN response[id].input = 1
           ELSE s.call \in DOMAIN transformer_inputs /\ transformer_inputs[s.call] = response[id].input

\* Every candidate passed over was unusable: before the one that priced its
\* feed, before the one tried next, and of the feeds done with.
OrderKept ==
  /\ \A id \in DOMAIN response :
       /\ response[id].at \in Int
       /\ \A i \in 1..(response[id].candidate - 1) : Unusable(tried[id][i], response[id].at)
  /\ stage = "compose" => \A i \in 1..(candidate - 1) : Unusable(plans[1].candidates[i], now)
  /\ stage \in {"compose", "gate"} =>
       \A id \in DOMAIN tried \ (DOMAIN response \union Planned) :
         \A i \in DOMAIN tried[id] : Unusable(tried[id][i], now)

\* The positions that slipped below the offset unlisted.
Missed == {x \in steady \ borrows : \E i \in DOMAIN positions : i <= offset /\ positions[i] = x}

ListingSound ==
  /\ positions \in Seq(Nat) /\ offset \in Nat /\ opens \in Nat /\ closes \in Nat
  /\ \A i, j \in DOMAIN positions : positions[i] = positions[j] => i = j
  /\ \A i \in DOMAIN positions : positions[i] <= 2 * PageSize + opens
  /\ steady \subseteq ToSet(positions) /\ IsFiniteSet(steady)
  /\ Cardinality(Missed) <= closes
  /\ stage = "done" => Cardinality(steady \ borrows) <= closes
  /\ stage \notin {"list", "done", "failed"} =>
       positions = <<>> /\ offset = 0 /\ borrows = {} /\ steady = {} /\ opens = 0 /\ closes = 0

ScanInv ==
  /\ CacheInv
  /\ StageConsistent
  /\ PlansConsistent
  /\ PricesSound
  /\ FromSnapshot
  /\ SplitSound
  /\ RatesRemembered
  /\ OrderKept
  /\ ListingSound
=============================================================================
