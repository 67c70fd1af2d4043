---------------------------- MODULE RedStonePush ----------------------------
(***************************************************************************)
(* The RedStone leg of the on-chain price push (oracle.rs,                 *)
(* redstone_push.rs).  The pushers are the position futures of a round:    *)
(* they share the RedStonePushMemo, which records per feed of an adapter   *)
(* when it was last written, or reserved for a write in flight.  The       *)
(* adapter refuses a write of a feed within its minimum interval and the   *)
(* refused transaction costs gas, so the memo must keep the bot from       *)
(* making one.  The bot is the only writer here: a write by someone else   *)
(* shortens the wait in a way no memo of the bot can know.                 *)
(*                                                                         *)
(* Time is counted in ticks, and only the ages that matter are kept: an    *)
(* age stops growing where nothing tells larger ones apart.                *)
(***************************************************************************)
EXTENDS Naturals, FiniteSets

CONSTANTS
  Pushers,           \* position futures
  Feeds,             \* feeds of the adapter
  MinInterval,       \* min_interval_between_updates_ms
  TruthfulGateway,   \* the gateway's answer tells what the adapter did
  PromptGateway      \* a write is answered within the minimum interval

ASSUME PushAssumption ==
  /\ MinInterval \in Nat \ {0}
  /\ TruthfulGateway \in BOOLEAN
  /\ PromptGateway \in BOOLEAN

VARIABLES
  memo,     \* per feed, the age of its memo entry; MinInterval: none, or expired
  pc,       \* "idle", "rules" (reading get_config) or "write"
  wanted,   \* the feeds a pusher was asked to refresh
  due,      \* the feeds it reserved
  wait,     \* ticks since the reservation
  tx,       \* what the adapter did with the write
  written,  \* per feed, ticks since the adapter last accepted a write
  early     \* history: a write was submitted that the interval forbids

vars == <<memo, pc, wanted, due, wait, tx, written, early>>

\* Ages of accepted writes are told apart up to twice the interval.
MaxAge == 2 * MinInterval

Writing(f) == {p \in Pushers : pc[p] = "write" /\ f \in due[p]}

TypeOK ==
  /\ memo \in [Feeds -> 0..MinInterval]
  /\ pc \in [Pushers -> {"idle", "rules", "write"}]
  /\ wanted \in [Pushers -> SUBSET Feeds]
  /\ due \in [Pushers -> SUBSET Feeds]
  /\ wait \in [Pushers -> 0..MinInterval]
  /\ tx \in [Pushers -> {"none", "pending", "landed", "rejected"}]
  /\ written \in [Feeds -> 0..MaxAge]
  /\ early \in BOOLEAN

Init ==
  /\ memo = [f \in Feeds |-> MinInterval]
  /\ pc = [p \in Pushers |-> "idle"]
  /\ wanted = [p \in Pushers |-> {}]
  /\ due = [p \in Pushers |-> {}]
  /\ wait = [p \in Pushers |-> 0]
  /\ tx = [p \in Pushers |-> "none"]
  /\ written = [f \in Feeds |-> MaxAge]
  /\ early = FALSE

-----------------------------------------------------------------------------
(***************************************************************************)
(* The memo (redstone_push.rs).                                            *)
(***************************************************************************)
due_feeds(feeds) == {f \in feeds : memo[f] >= MinInterval}

\* Fault: due feeds are not marked.
reserve_due_unmarked(feeds) == memo

\* The memo with the due ones of these feeds recorded as of now.
reserve_due(feeds) == [f \in Feeds |-> IF f \in due_feeds(feeds) THEN 0 ELSE memo[f]]

\* Fault: a failed write keeps its reservation for ever.
release_nothing(feeds) == [f \in Feeds |-> IF f \in feeds THEN 0 ELSE memo[f]]

release(feeds) == [f \in Feeds |-> IF f \in feeds THEN MinInterval ELSE memo[f]]

\* A landed write is recorded as of its answer.
landed(feeds) == [f \in Feeds |-> IF f \in feeds THEN 0 ELSE memo[f]]

-----------------------------------------------------------------------------
(***************************************************************************)
(* update_redstone_prices.                                                 *)
(***************************************************************************)
Settle(p) ==
  /\ pc' = [pc EXCEPT ![p] = "idle"]
  /\ wanted' = [wanted EXCEPT ![p] = {}]
  /\ due' = [due EXCEPT ![p] = {}]
  /\ tx' = [tx EXCEPT ![p] = "none"]
  /\ wait' = [wait EXCEPT ![p] = 0]

\* update_onchain_prices reaches the adapter with the feeds of its market that
\* the Pyth Pro push cannot refresh, and reads the adapter's rules.
Ask(p) ==
  /\ pc[p] = "idle"
  /\ \E feeds \in SUBSET Feeds \ {{}} : wanted' = [wanted EXCEPT ![p] = feeds]
  /\ pc' = [pc EXCEPT ![p] = "rules"]
  /\ UNCHANGED <<memo, due, wait, tx, written, early>>

\* The rules cannot be read, no feed is due, or the payload cannot be built
\* (which releases what was just reserved, before anyone else sees it).
GiveUp(p) ==
  /\ pc[p] = "rules"
  /\ pc' = [pc EXCEPT ![p] = "idle"]
  /\ wanted' = [wanted EXCEPT ![p] = {}]
  /\ UNCHANGED <<memo, due, wait, tx, written, early>>

\* Reserve the due feeds under the lock, build the payload and submit.
Write(p) ==
  /\ pc[p] = "rules"
  /\ due_feeds(wanted[p]) # {}
  /\ due' = [due EXCEPT ![p] = due_feeds(wanted[p])]
  /\ memo' = reserve_due(wanted[p])
  /\ pc' = [pc EXCEPT ![p] = "write"]
  /\ wait' = [wait EXCEPT ![p] = 0]
  /\ tx' = [tx EXCEPT ![p] = "pending"]
  /\ early' = (early \/ \E f \in due_feeds(wanted[p]) : written[f] < MinInterval)
  /\ UNCHANGED <<wanted, written>>

\* Succeeded: the interval runs from the write, so the entries are renewed.
AnswerSucceeded(p) ==
  /\ pc[p] = "write"
  /\ tx[p] = "landed"
  /\ memo' = landed(due[p])
  /\ Settle(p)
  /\ UNCHANGED <<written, early>>

\* Any other status and any error release the feeds; without a truthful
\* gateway that includes writes that were accepted.  (A write that is still
\* undecided then is one the adapter decides just before the answer.)
AnswerFailed(p) ==
  /\ pc[p] = "write"
  /\ tx[p] = "rejected" \/ (~TruthfulGateway /\ tx[p] = "landed")
  /\ memo' = release(due[p])
  /\ Settle(p)
  /\ UNCHANGED <<written, early>>

-----------------------------------------------------------------------------
(***************************************************************************)
(* The adapter and the clock.                                              *)
(***************************************************************************)
\* The adapter accepts a write only if the interval has passed for each feed.
Accept(p) ==
  /\ tx[p] = "pending"
  /\ \A f \in due[p] : written[f] >= MinInterval
  /\ written' = [f \in Feeds |-> IF f \in due[p] THEN 0 ELSE written[f]]
  /\ tx' = [tx EXCEPT ![p] = "landed"]
  /\ UNCHANGED <<memo, pc, wanted, due, wait, early>>

Refuse(p) ==
  /\ tx[p] = "pending"
  /\ tx' = [tx EXCEPT ![p] = "rejected"]
  /\ UNCHANGED <<memo, pc, wanted, due, wait, written, early>>

Older(age, limit) == IF age < limit THEN age + 1 ELSE limit

Tick ==
  /\ PromptGateway =>
       \A p \in Pushers : pc[p] = "write" => wait[p] + 1 < MinInterval
  /\ memo' = [f \in Feeds |-> Older(memo[f], MinInterval)]
  /\ written' = [f \in Feeds |-> Older(written[f], MaxAge)]
  /\ wait' = [p \in Pushers |->
                IF pc[p] = "write" THEN Older(wait[p], MinInterval) ELSE wait[p]]
  /\ UNCHANGED <<pc, wanted, due, tx, early>>

Next ==
  \/ \E p \in Pushers :
       Ask(p) \/ GiveUp(p) \/ Write(p) \/ AnswerSucceeded(p) \/ AnswerFailed(p)
       \/ Accept(p) \/ Refuse(p)
  \/ Tick

Spec == Init /\ [][Next]_vars

-----------------------------------------------------------------------------
(***************************************************************************)
(* Properties.                                                             *)
(***************************************************************************)

\* "A market round with several positions, or several markets on one adapter,
\* does not resubmit inside the adapter's minimum interval and burn gas on
\* writes the contract rejects" (RedStonePushMemo, oracle.rs 315-325).
NoEarlyWrite == ~early

\* "A concurrent liquidation must not find the same feeds due" (oracle.rs
\* 556-557): at most one write of a feed is in flight, as long as a write is
\* answered within the interval.
OneWriter == PromptGateway => \A f \in Feeds : \A p, q \in Writing(f) : p = q

\* A feed is held back only for a reason: a write of it is in flight, or one
\* was accepted not long ago (the interval, and the time its answer took).
SuppressionJustified ==
  PromptGateway =>
    \A f \in Feeds :
      memo[f] < MinInterval => Writing(f) # {} \/ written[f] < MaxAge

(***************************************************************************)
(* The inductive invariant.  A pusher has reserved feeds exactly while its *)
(* write is in flight; then, with a prompt gateway, the memo's age of each *)
(* of them is the time it has been waiting, so nobody else finds them due. *)
(* When nobody writes a feed, its memo entry is at least as young as the   *)
(* adapter's last accepted write of it (truthful gateway), and not younger *)
(* by the interval or more.                                                *)
(***************************************************************************)
InFlightConsistent ==
  \A p \in Pushers :
    /\ pc[p] = "write" <=> tx[p] # "none"
    /\ pc[p] # "write" => due[p] = {}

ReservationsFresh ==
  PromptGateway =>
    \A p \in Pushers : \A f \in due[p] : memo[f] = wait[p] /\ wait[p] < MinInterval

LandedRecently ==
  PromptGateway =>
    /\ \A p \in Pushers : tx[p] = "landed" =>
         \A f \in due[p] : written[f] <= wait[p]
    /\ \A f \in Feeds : memo[f] < MinInterval /\ Writing(f) = {} =>
         written[f] < MinInterval + memo[f]

MemoConservative ==
  PromptGateway /\ TruthfulGateway =>
    /\ \A p \in Pushers : tx[p] \in {"pending", "rejected"} =>
         \A f \in due[p] : written[f] >= MinInterval
    /\ \A f \in Feeds : Writing(f) = {} => written[f] >= memo[f]
    /\ ~early

PushInv ==
  /\ TypeOK
  /\ InFlightConsistent
  /\ OneWriter
  /\ ReservationsFresh
  /\ LandedRecently
  /\ MemoConservative
=============================================================================
