---------------------------- MODULE GatewayCache ----------------------------
(***************************************************************************)
(* The RedStone gateway client (redstone.rs): one fetch state shared by    *)
(* every market's price fetcher, behind a lock that is held across the     *)
(* fetch.  A caller asks for packages of some symbols; it is served from   *)
(* the last fetch, answered from the memory of the last failure (market    *)
(* scans only), or fetches every symbol ever wanted from the gateways, in  *)
(* order, until one answers.                                               *)
(*                                                                         *)
(* The content of a package is the constant PackageLists: what a gateway   *)
(* may serve for one symbol.                                               *)
(***************************************************************************)
EXTENDS Integers, Sequences, FiniteSets

CONSTANTS
  Callers,        \* the tasks that may ask at the same time
  Symbols,        \* RedStone feed ids
  Gateways,       \* how many authenticated gateways are configured
  PackageLists,   \* what a gateway may serve for one symbol
  Ttl,            \* PACKAGE_TTL
  Backoff,        \* FAILURE_BACKOFF
  MaxTime         \* bound on the clock

ASSUME GatewayAssumption ==
  /\ Gateways \in Nat \ {0}
  /\ Ttl \in Nat \ {0}
  /\ Backoff \in Nat
  /\ MaxTime \in Nat

VARIABLES
  now,         \* the clock
  queue,       \* callers at the lock in their order; the first one holds it
  pc,          \* "idle", "locking", "fetching" or "answered"
  ask,         \* per caller: the symbols, whether a failure may be replayed, since when
  answer,      \* per caller: the last answer
  wanted,      \* FetchState::wanted
  last,        \* FetchState::last, {} or one snapshot
  failure,     \* FetchState::last_failure, {} or the time of one failure
  gateway,     \* the gateway the holder's fetch is waiting for
  served       \* history: every snapshot, in the order they were fetched

cacheVars == <<now, queue, pc, ask, answer, wanted, last, failure, gateway, served>>

PackageMaps(symbols) == UNION {[S -> PackageLists] : S \in SUBSET symbols}

Snapshot == [fetched_at : 0..MaxTime, requested : SUBSET Symbols, packages : PackageMaps(Symbols)]

Ask == [symbols : SUBSET Symbols, replay : BOOLEAN, since : 0..MaxTime]

NoAsk == [symbols |-> {}, replay |-> FALSE, since |-> 0]

\* An answer carries when it was given and either a snapshot or, for a
\* failure, the time the gateways failed.
NoAnswer == [given |-> 0, from |-> {}, failed |-> {}]

CacheTypeOK ==
  /\ now \in 0..MaxTime
  /\ queue \in Seq(Callers)
  /\ pc \in [Callers -> {"idle", "locking", "fetching", "answered"}]
  /\ ask \in [Callers -> Ask]
  /\ answer \in [Callers -> [given : 0..MaxTime, from : SUBSET Snapshot, failed : SUBSET (0..MaxTime)]]
  /\ wanted \in SUBSET Symbols
  /\ last \in SUBSET Snapshot
  /\ failure \in SUBSET (0..MaxTime)
  /\ gateway \in 1..Gateways
  /\ served \in Seq(Snapshot)

CacheInit ==
  /\ now = 0
  /\ queue = <<>>
  /\ pc = [c \in Callers |-> "idle"]
  /\ ask = [c \in Callers |-> NoAsk]
  /\ answer = [c \in Callers |-> NoAnswer]
  /\ wanted = {}
  /\ last = {}
  /\ failure = {}
  /\ gateway = 1
  /\ served = <<>>

-----------------------------------------------------------------------------
(***************************************************************************)
(* packages_inner.                                                         *)
(***************************************************************************)
Holds(c) == queue # <<>> /\ Head(queue) = c

\* Call: packages (a market scan, replay) or packages_for_push.  A call for no
\* symbol returns before the lock.
packages(c, symbols, replay) ==
  /\ pc[c] = "idle"
  /\ symbols # {}
  /\ pc' = [pc EXCEPT ![c] = "locking"]
  /\ queue' = Append(queue, c)
  /\ ask' = [ask EXCEPT ![c] = [symbols |-> symbols, replay |-> replay, since |-> now]]
  /\ UNCHANGED <<now, answer, wanted, last, failure, gateway, served>>

\* The guard drops with the answer: the next caller in the queue has the lock.
Return(c, from, failed) ==
  /\ pc' = [pc EXCEPT ![c] = "answered"]
  /\ queue' = Tail(queue)
  /\ answer' = [answer EXCEPT ![c] = [given |-> now, from |-> from, failed |-> failed]]

\* The last fetch asked for all of these symbols within the TTL.
Covers(symbols) ==
  \E s \in last : now - s.fetched_at < Ttl /\ symbols \subseteq s.requested

\* Fault: the push inherits a failure like a scan.
ReplayedForAll(c) == \E t \in failure : now - t < Backoff

\* The failure in memory is this caller's answer.
Replayed(c) == ask[c].replay /\ \E t \in failure : now - t < Backoff

ServeSnapshot(c) ==
  /\ Holds(c) /\ pc[c] = "locking"
  /\ Covers(ask[c].symbols)
  /\ wanted' = wanted \union ask[c].symbols
  /\ Return(c, last, {})
  /\ UNCHANGED <<now, ask, last, failure, gateway, served>>

ReplayFailure(c) ==
  /\ Holds(c) /\ pc[c] = "locking"
  /\ ~Covers(ask[c].symbols)
  /\ Replayed(c)
  /\ wanted' = wanted \union ask[c].symbols
  /\ Return(c, {}, failure)
  /\ UNCHANGED <<now, ask, last, failure, gateway, served>>

StartFetch(c) ==
  /\ Holds(c) /\ pc[c] = "locking"
  /\ ~Covers(ask[c].symbols)
  /\ ~Replayed(c)
  /\ wanted' = wanted \union ask[c].symbols
  /\ pc' = [pc EXCEPT ![c] = "fetching"]
  /\ UNCHANGED <<now, queue, ask, answer, last, failure, gateway, served>>

-----------------------------------------------------------------------------
(***************************************************************************)
(* fetch, fetch_from.                                                      *)
(***************************************************************************)
\* Fault: each fetch asks for its own caller's symbols only.
RequestedAlone(c) == ask[c].symbols

\* The symbols of one request: everything wanted so far.
Requested(c) == wanted

\* A gateway answers: with the packages of the symbols it tracks, none of them
\* (513) included.
GatewayAnswers(c) ==
  /\ pc[c] = "fetching"
  /\ \E map \in PackageMaps(Requested(c)) :
       LET snapshot == [fetched_at |-> now, requested |-> Requested(c), packages |-> map]
       IN  /\ last' = {snapshot}
           /\ served' = Append(served, snapshot)
           /\ Return(c, {snapshot}, {})
  /\ failure' = {}
  /\ gateway' = 1
  /\ UNCHANGED <<now, ask, wanted>>

\* Transport, status, redirect or body: the next gateway is tried.
GatewayFails(c) ==
  /\ pc[c] = "fetching"
  /\ gateway < Gateways
  /\ gateway' = gateway + 1
  /\ UNCHANGED <<now, queue, pc, ask, answer, wanted, last, failure, served>>

\* Fault: the first gateway is tried again, and again.
RetryGateways(c) ==
  /\ pc[c] = "fetching"
  /\ gateway = Gateways
  /\ gateway' = 1
  /\ UNCHANGED <<now, queue, pc, ask, answer, wanted, last, failure, served>>

EveryGatewayFailed(c) ==
  /\ pc[c] = "fetching"
  /\ gateway = Gateways
  /\ failure' = {now}
  /\ gateway' = 1
  /\ Return(c, {}, {now})
  /\ UNCHANGED <<now, ask, wanted, last, served>>

\* Time passes; a request is answered or times out within REQUEST_TIMEOUT,
\* which is not shorter than the ages the client compares, so the clock is
\* free to move while a request is out.
Tick ==
  /\ now < MaxTime
  /\ now' = now + 1
  /\ UNCHANGED <<queue, pc, ask, answer, wanted, last, failure, gateway, served>>

\* One caller's steps inside the client.
Client(c) ==
  \/ ServeSnapshot(c) \/ ReplayFailure(c) \/ StartFetch(c)
  \/ GatewayAnswers(c) \/ GatewayFails(c) \/ EveryGatewayFailed(c)

\* The caller takes its answer and may ask again.
Take(c) ==
  /\ pc[c] = "answered"
  /\ pc' = [pc EXCEPT ![c] = "idle"]
  /\ ask' = [ask EXCEPT ![c] = NoAsk]
  /\ answer' = [answer EXCEPT ![c] = NoAnswer]
  /\ UNCHANGED <<now, queue, wanted, last, failure, gateway, served>>

CacheNext ==
  \/ Tick
  \/ \E c \in Callers :
       \/ \E symbols \in SUBSET Symbols, replay \in BOOLEAN : packages(c, symbols, replay)
       \/ Client(c)
       \/ Take(c)

\* Every request is answered or times out, and the runtime polls the tasks.
CacheSpec ==
  /\ CacheInit /\ [][CacheNext]_cacheVars
  /\ \A c \in Callers : WF_cacheVars(Client(c))

-----------------------------------------------------------------------------
(***************************************************************************)
(* Properties.                                                             *)
(***************************************************************************)
\* The rate limit of the keys: of two successful fetches less than a TTL apart,
\* the later one asked for strictly more symbols, however many callers ask for
\* whatever subsets.  Once every symbol has been asked for, the gateways are
\* asked successfully at most once per TTL window.
FetchesSpaced ==
  \A i, j \in 1..Len(served) :
    i < j /\ served[j].fetched_at - served[i].fetched_at < Ttl
      => served[i].requested \subseteq served[j].requested /\ served[i].requested # served[j].requested

\* What an answer tells its caller.  A symbol absent from the packages is one
\* the gateways were asked for and do not track, in a fetch made within the
\* TTL: never one this client forgot to ask for.  A failure is no older than
\* the backoff, and the push, which a liquidation waits for, is only ever told
\* of a failure met after it asked.
AnswersSound ==
  \A c \in Callers : pc[c] = "answered" =>
    /\ \A s \in answer[c].from :
         /\ ask[c].symbols \subseteq s.requested
         /\ answer[c].given - s.fetched_at < Ttl
         /\ \E i \in 1..Len(served) : served[i] = s
    /\ \A t \in answer[c].failed :
         IF ask[c].replay THEN t >= ask[c].since \/ answer[c].given - t < Backoff
                          ELSE t >= ask[c].since
    /\ answer[c].from # {} \/ answer[c].failed # {}

\* Nobody waits at the lock for ever, though the holder keeps it across the
\* whole fetch and a failing fetch visits every gateway.
EveryCallAnswered == \A c \in Callers : pc[c] = "locking" ~> pc[c] = "answered"

\* How many steps of the lock's holders a caller waits for: each holder before
\* it, and itself, checks the memory and asks each gateway once at most.
Waiting(c) == pc[c] \in {"locking", "fetching"}
Place(c) == CHOOSE i \in DOMAIN queue : queue[i] = c
Tried == IF queue # <<>> /\ pc[Head(queue)] = "fetching" THEN gateway ELSE 0
StepsLeft(c) == Place(c) * (Gateways + 1) - Tried

\* First come, first served: while a caller waits nobody overtakes it, and every
\* step of whoever holds the lock brings its answer nearer.  An outage costs
\* the callers before it one walk over the gateways each, and no more.
WaitAdvances ==
  [][\A c \in Callers : Waiting(c) /\ Waiting(c)' =>
       IF <<Tried, Head(queue)>>' = <<Tried, Head(queue)>> THEN StepsLeft(c)' = StepsLeft(c)
       ELSE StepsLeft(c)' < StepsLeft(c)]_cacheVars

(***************************************************************************)
(* The inductive invariant.  Snapshots are fetched in the order of time,   *)
(* each for everything wanted so far, and the last one is the one served;  *)
(* whoever fetches holds the lock, so that nobody else changes what is     *)
(* wanted, and the snapshot in memory does not serve it, at whatever later *)
(* time.                                                                   *)
(***************************************************************************)
ServedOrdered ==
  /\ \A i \in 1..Len(served) : served[i].fetched_at <= now /\ served[i].requested \subseteq wanted
  /\ \A i, j \in 1..Len(served) : i < j =>
       served[i].fetched_at <= served[j].fetched_at /\ served[i].requested \subseteq served[j].requested
  /\ last = IF served = <<>> THEN {} ELSE {served[Len(served)]}

FetchJustified ==
  \A c \in Callers : pc[c] = "fetching" =>
    /\ Holds(c)
    /\ ask[c].symbols \subseteq wanted
    /\ \A s \in last : now - s.fetched_at < Ttl => ~(ask[c].symbols \subseteq s.requested)

TimesSound ==
  /\ \A c \in Callers : ask[c].since <= now
  /\ \A t, u \in failure : t = u

\* The lock's queue: each waiting caller is in it once, nobody else is, and a
\* walk over the gateways starts at the first one.
LineOrdered ==
  /\ \A i, j \in DOMAIN queue : queue[i] = queue[j] => i = j
  /\ \A c \in Callers : Waiting(c) <=> \E i \in DOMAIN queue : queue[i] = c
  /\ (\A c \in Callers : pc[c] # "fetching") => gateway = 1

CacheInv ==
  /\ CacheTypeOK
  /\ ServedOrdered
  /\ FetchJustified
  /\ TimesSound
  /\ FetchesSpaced
  /\ AnswersSound
=============================================================================
