------------------------- MODULE RedStonePushProofs -------------------------
(***************************************************************************)
(* The memo's promises for every set of pushers and feeds and every        *)
(* minimum interval.  PushInv is inductive; each lemma below is one action *)
(* of the specification.  Then update_onchain_prices around it: its steps  *)
(* are steps of the memo or leave it alone, so the promises carry over,    *)
(* and what it reports reaches the proxy; and push-check, whose pushes are *)
(* pushes of the bot.                                                      *)
(***************************************************************************)
EXTENDS PushCheck, TLAPS

LEMMA PushInit == Init => PushInv
  <1> SUFFICES ASSUME Init PROVE PushInv
    OBVIOUS
  <1>1. TypeOK
    <2>1. early \in BOOLEAN
      BY DEF Init
    <2>2. MinInterval \in 0..MinInterval /\ 0 \in 0..MinInterval /\ MaxAge \in 0..MaxAge
      BY PushAssumption DEF MaxAge
    <2>3. QED BY <2>1, <2>2 DEF Init, TypeOK
  <1>2. InFlightConsistent /\ OneWriter /\ ReservationsFresh
    BY DEF Init, InFlightConsistent, OneWriter, ReservationsFresh, Writing
  <1>3. LandedRecently /\ MemoConservative
    BY PushAssumption DEF Init, LandedRecently, MemoConservative, MaxAge
  <1>4. QED BY <1>1, <1>2, <1>3 DEF PushInv

\* Asking and giving up touch neither the memo nor a write in flight.
LEMMA QuietPush ==
  ASSUME PushInv, NEW p \in Pushers, Ask(p) \/ GiveUp(p)
  PROVE  PushInv'
  <1> USE DEF PushInv
  <1>1. TypeOK'
    BY DEF TypeOK, Ask, GiveUp
  <1>2. \A q \in Pushers : pc'[q] = "write" <=> pc[q] = "write"
    BY DEF TypeOK, Ask, GiveUp
  <1>3. UNCHANGED <<memo, due, wait, tx, written, early>>
    BY DEF Ask, GiveUp
  <1>4. \A f \in Feeds : Writing(f)' = Writing(f)
    BY <1>2, <1>3 DEF Writing
  <1>5. InFlightConsistent' /\ OneWriter' /\ ReservationsFresh'
    BY <1>2, <1>3, <1>4 DEF InFlightConsistent, OneWriter, ReservationsFresh
  <1>6. LandedRecently' /\ MemoConservative'
    BY <1>3, <1>4 DEF LandedRecently, MemoConservative
  <1>7. QED BY <1>1, <1>5, <1>6

\* A write reserves only feeds that nobody is writing: the entries of feeds in
\* flight are younger than the interval.
LEMMA WritePush ==
  ASSUME PushInv, NEW p \in Pushers, Write(p)
  PROVE  PushInv'
  <1> USE DEF PushInv
  <1> DEFINE D == due_feeds(wanted[p])
  <1>1. D \subseteq Feeds /\ \A f \in D : memo[f] = MinInterval
    BY PushAssumption DEF TypeOK, due_feeds
  <1>2. /\ pc' = [pc EXCEPT ![p] = "write"]
        /\ due' = [due EXCEPT ![p] = D]
        /\ memo' = [f \in Feeds |-> IF f \in D THEN 0 ELSE memo[f]]
        /\ wait' = [wait EXCEPT ![p] = 0]
        /\ tx' = [tx EXCEPT ![p] = "pending"]
        /\ early' = (early \/ \E f \in D : written[f] < MinInterval)
        /\ UNCHANGED <<wanted, written>>
        /\ pc[p] = "rules"
    BY DEF Write, reserve_due
  <1> HIDE DEF D
  <1>3. TypeOK'
    BY <1>1, <1>2, PushAssumption DEF TypeOK
  <1>4. InFlightConsistent'
    BY <1>2 DEF InFlightConsistent, TypeOK
  <1>5. \A f \in Feeds : Writing(f)' = IF f \in D THEN Writing(f) \cup {p} ELSE Writing(f)
    BY <1>2 DEF Writing, TypeOK
  <1>6. PromptGateway => \A f \in D : Writing(f) = {}
    BY <1>1, PushAssumption DEF ReservationsFresh, Writing, TypeOK
  <1>7. OneWriter'
    BY <1>5, <1>6 DEF OneWriter
  <1>8. ReservationsFresh'
    <2> SUFFICES ASSUME PromptGateway, NEW q \in Pushers, NEW f \in due'[q]
                 PROVE  memo'[f] = wait'[q] /\ wait'[q] < MinInterval
      BY DEF ReservationsFresh
    <2>1. CASE q = p
      BY <2>1, <1>1, <1>2, PushAssumption DEF TypeOK
    <2>2. CASE q # p
      <3>1. f \in due[q] /\ f \in Feeds
        BY <2>2, <1>2 DEF TypeOK
      <3>2. f \notin D
        BY <3>1, <1>1, PushAssumption DEF ReservationsFresh
      <3>3. QED BY <2>2, <3>1, <3>2, <1>2 DEF ReservationsFresh, TypeOK
    <2>3. QED BY <2>1, <2>2
  <1>9. LandedRecently'
    BY <1>2, <1>5 DEF LandedRecently, TypeOK
  <1>10. MemoConservative'
    <2> SUFFICES ASSUME PromptGateway, TruthfulGateway
                 PROVE  MemoConservative'
      BY DEF MemoConservative
    <2>1. \A f \in D : written[f] >= MinInterval
      BY <1>1, <1>6 DEF MemoConservative
    <2>2. early' = FALSE
      BY <1>2, <2>1, <1>1, PushAssumption DEF MemoConservative, TypeOK, MaxAge
    <2>3. \A q \in Pushers : tx'[q] \in {"pending", "rejected"} =>
            \A f \in due'[q] : written'[f] >= MinInterval
      BY <1>2, <2>1 DEF MemoConservative, TypeOK
    <2>4. \A f \in Feeds : Writing(f)' = {} => written'[f] >= memo'[f]
      BY <1>2, <1>5 DEF MemoConservative
    <2>5. QED BY <2>2, <2>3, <2>4 DEF MemoConservative
  <1>11. QED BY <1>3, <1>4, <1>7, <1>8, <1>9, <1>10

\* An answer settles the feeds of its own write; with a prompt gateway nobody
\* else has reserved them.
LEMMA AnswerPush ==
  ASSUME PushInv, NEW p \in Pushers, AnswerSucceeded(p) \/ AnswerFailed(p)
  PROVE  PushInv'
  <1> USE DEF PushInv
  <1> DEFINE D == due[p]
  <1>1. /\ pc' = [pc EXCEPT ![p] = "idle"]
        /\ due' = [due EXCEPT ![p] = {}]
        /\ wait' = [wait EXCEPT ![p] = 0]
        /\ tx' = [tx EXCEPT ![p] = "none"]
        /\ wanted' = [wanted EXCEPT ![p] = {}]
        /\ UNCHANGED <<written, early>>
        /\ pc[p] = "write"
    BY DEF AnswerSucceeded, AnswerFailed, Settle
  <1>2. PICK a \in {0, MinInterval} :
          /\ memo' = [f \in Feeds |-> IF f \in D THEN a ELSE memo[f]]
          /\ a = 0 => tx[p] = "landed"
          /\ a # 0 => tx[p] = "rejected" \/ ~TruthfulGateway
    BY PushAssumption DEF AnswerSucceeded, AnswerFailed, landed, release
  <1>3. TypeOK'
    BY <1>1, <1>2, PushAssumption DEF TypeOK
  <1>4. InFlightConsistent'
    BY <1>1 DEF InFlightConsistent, TypeOK
  <1>5. \A f \in Feeds : Writing(f)' = Writing(f) \ {p}
    BY <1>1 DEF Writing, TypeOK
  <1>6. OneWriter'
    BY <1>5 DEF OneWriter
  <1>7. PromptGateway => \A q \in Pushers \ {p} : \A f \in due[q] : f \notin D
    BY <1>1 DEF OneWriter, Writing, InFlightConsistent, TypeOK
  <1>8. ReservationsFresh'
    BY <1>1, <1>2, <1>7 DEF ReservationsFresh, TypeOK
  <1>9. \A f \in Feeds \ D : Writing(f)' = Writing(f) /\ memo'[f] = memo[f]
    BY <1>2, <1>5 DEF Writing
  <1>10. LandedRecently'
    <2> SUFFICES ASSUME PromptGateway PROVE LandedRecently'
      BY DEF LandedRecently
    <2>1. \A q \in Pushers : tx'[q] = "landed" =>
            \A f \in due'[q] : written'[f] <= wait'[q]
      BY <1>1 DEF LandedRecently, TypeOK
    <2>2. ASSUME NEW f \in Feeds, memo'[f] < MinInterval, Writing(f)' = {}
          PROVE  written'[f] < MinInterval + memo'[f]
      <3>1. CASE f \in D
        <4>1. a = 0 /\ memo'[f] = 0
          BY <2>2, <3>1, <1>2, PushAssumption
        <4>2. written[f] <= wait[p] /\ wait[p] < MinInterval
          BY <3>1, <4>1, <1>2 DEF LandedRecently, ReservationsFresh
        <4>3. QED
          BY <4>1, <4>2, <1>1, PushAssumption DEF TypeOK, MaxAge
      <3>2. CASE f \notin D
        BY <2>2, <3>2, <1>1, <1>9 DEF LandedRecently
      <3>3. QED BY <3>1, <3>2
    <2>3. QED BY <2>1, <2>2 DEF LandedRecently
  <1>11. MemoConservative'
    <2> SUFFICES ASSUME PromptGateway, TruthfulGateway PROVE MemoConservative'
      BY DEF MemoConservative
    <2>1. \A q \in Pushers : tx'[q] \in {"pending", "rejected"} =>
            \A f \in due'[q] : written'[f] >= MinInterval
      BY <1>1 DEF MemoConservative, TypeOK
    <2>2. ASSUME NEW f \in Feeds, Writing(f)' = {}
          PROVE  written'[f] >= memo'[f]
      <3>1. CASE f \in D
        <4>1. CASE a = 0
          BY <3>1, <4>1, <1>1, <1>2, PushAssumption DEF TypeOK, MaxAge
        <4>2. CASE a # 0
          BY <3>1, <4>2, <1>1, <1>2 DEF MemoConservative
        <4>3. QED BY <4>1, <4>2
      <3>2. CASE f \notin D
        BY <2>2, <3>2, <1>1, <1>9 DEF MemoConservative
      <3>3. QED BY <3>1, <3>2
    <2>3. QED BY <2>1, <2>2, <1>1 DEF MemoConservative
  <1>12. QED BY <1>3, <1>4, <1>6, <1>8, <1>10, <1>11

\* The adapter decides a write at any time.
LEMMA AdapterPush ==
  ASSUME PushInv, NEW p \in Pushers, Accept(p) \/ Refuse(p)
  PROVE  PushInv'
  <1> USE DEF PushInv
  <1>1. UNCHANGED <<memo, pc, wanted, due, wait, early>> /\ tx[p] = "pending"
    BY DEF Accept, Refuse
  <1>2. TypeOK'
    BY PushAssumption DEF TypeOK, MaxAge, Accept, Refuse
  <1>3. \A q \in Pushers : tx'[q] # "none" <=> tx[q] # "none"
    BY DEF Accept, Refuse, TypeOK
  <1>4. \A f \in Feeds : Writing(f)' = Writing(f)
    BY <1>1 DEF Writing
  <1>5. InFlightConsistent' /\ OneWriter' /\ ReservationsFresh'
    BY <1>1, <1>3, <1>4 DEF InFlightConsistent, OneWriter, ReservationsFresh
  <1>6. CASE Refuse(p)
    <2>1. LandedRecently' /\ MemoConservative'
      BY <1>1, <1>4, <1>6 DEF Refuse, LandedRecently, MemoConservative, TypeOK
    <2>2. QED BY <2>1, <1>2, <1>5
  <1>7. CASE Accept(p)
    <2>1. /\ written' = [f \in Feeds |-> IF f \in due[p] THEN 0 ELSE written[f]]
          /\ tx' = [tx EXCEPT ![p] = "landed"]
      BY <1>7 DEF Accept
    <2>2. PromptGateway => \A q \in Pushers \ {p} : \A f \in due[q] : f \notin due[p]
      BY <1>1 DEF OneWriter, Writing, InFlightConsistent, TypeOK
    <2>3. \A f \in due[p] : f \in Feeds /\ Writing(f) # {}
      BY <1>1 DEF Writing, InFlightConsistent, TypeOK
    <2>4. LandedRecently'
      <3> SUFFICES ASSUME PromptGateway PROVE LandedRecently'
        BY DEF LandedRecently
      <3>1. ASSUME NEW q \in Pushers, tx'[q] = "landed", NEW f \in due[q]
            PROVE  written'[f] <= wait[q]
        <4>1. CASE q = p
          BY <4>1, <2>1, <2>3, <3>1, PushAssumption DEF TypeOK
        <4>2. CASE q # p
          <5>1. tx[q] = "landed" /\ f \in Feeds /\ f \notin due[p]
            BY <4>2, <2>1, <2>2, <3>1 DEF TypeOK
          <5>2. QED BY <5>1, <2>1, <3>1 DEF LandedRecently
        <4>3. QED BY <4>1, <4>2
      <3>2. ASSUME NEW f \in Feeds, memo[f] < MinInterval, Writing(f) = {}
            PROVE  written'[f] < MinInterval + memo[f]
        BY <2>1, <2>3, <3>2 DEF LandedRecently
      <3>3. QED BY <1>1, <1>4, <3>1, <3>2 DEF LandedRecently
    <2>5. MemoConservative'
      <3> SUFFICES ASSUME PromptGateway, TruthfulGateway PROVE MemoConservative'
        BY DEF MemoConservative
      <3>1. ASSUME NEW q \in Pushers, tx'[q] \in {"pending", "rejected"},
                   NEW f \in due[q]
            PROVE  written'[f] >= MinInterval
        <4>1. q # p /\ tx[q] \in {"pending", "rejected"}
          BY <2>1, <3>1 DEF TypeOK
        <4>2. f \in Feeds /\ f \notin due[p]
          BY <4>1, <2>2, <3>1 DEF TypeOK
        <4>3. QED BY <4>1, <4>2, <2>1, <3>1 DEF MemoConservative
      <3>2. ASSUME NEW f \in Feeds, Writing(f) = {}
            PROVE  written'[f] >= memo[f]
        BY <2>1, <2>3, <3>2 DEF MemoConservative
      <3>3. QED BY <1>1, <1>4, <3>1, <3>2 DEF MemoConservative
    <2>6. QED BY <2>4, <2>5, <1>2, <1>5
  <1>8. QED BY <1>6, <1>7

\* Everything ages together; a prompt gateway answers before the interval ends.
LEMMA TickPush ==
  ASSUME PushInv, Tick
  PROVE  PushInv'
  <1> USE DEF PushInv
  <1>1. UNCHANGED <<pc, wanted, due, tx, early>>
    BY DEF Tick
  <1>2. TypeOK'
    BY PushAssumption DEF TypeOK, MaxAge, Tick, Older
  <1>3. \A f \in Feeds : Writing(f)' = Writing(f)
    BY <1>1 DEF Writing
  <1>4. InFlightConsistent' /\ OneWriter'
    BY <1>1, <1>3 DEF InFlightConsistent, OneWriter
  <1>5. /\ \A f \in Feeds : memo'[f] = Older(memo[f], MinInterval)
        /\ \A f \in Feeds : written'[f] = Older(written[f], MaxAge)
        /\ \A q \in Pushers : pc[q] = "write" => wait'[q] = Older(wait[q], MinInterval)
    BY DEF Tick
  <1>6. PromptGateway => \A q \in Pushers : pc[q] = "write" => wait[q] + 1 < MinInterval
    BY DEF Tick
  <1>7. \A q \in Pushers : \A f \in due[q] : pc[q] = "write" /\ f \in Feeds
    BY DEF InFlightConsistent, TypeOK
  <1>8. ReservationsFresh'
    BY <1>1, <1>5, <1>6, <1>7, PushAssumption
       DEF ReservationsFresh, Older, TypeOK
  <1>9. LandedRecently'
    <2> SUFFICES ASSUME PromptGateway PROVE LandedRecently'
      BY DEF LandedRecently
    <2>1. ASSUME NEW q \in Pushers, tx[q] = "landed", NEW f \in due[q]
          PROVE  written'[f] <= wait'[q]
      BY <2>1, <1>5, <1>6, <1>7, PushAssumption
         DEF LandedRecently, Older, TypeOK, MaxAge
    <2>2. ASSUME NEW f \in Feeds, memo'[f] < MinInterval, Writing(f) = {}
          PROVE  written'[f] < MinInterval + memo'[f]
      BY <2>2, <1>5, PushAssumption DEF LandedRecently, Older, TypeOK, MaxAge
    <2>3. QED BY <1>1, <1>3, <2>1, <2>2 DEF LandedRecently
  <1>10. MemoConservative'
    <2> SUFFICES ASSUME PromptGateway, TruthfulGateway PROVE MemoConservative'
      BY DEF MemoConservative
    <2>1. ASSUME NEW q \in Pushers, tx[q] \in {"pending", "rejected"},
                 NEW f \in due[q]
          PROVE  written'[f] >= MinInterval
      BY <2>1, <1>5, <1>7, PushAssumption
         DEF MemoConservative, Older, TypeOK, MaxAge
    <2>2. ASSUME NEW f \in Feeds, Writing(f) = {}
          PROVE  written'[f] >= memo'[f]
      BY <2>2, <1>5, PushAssumption DEF MemoConservative, Older, TypeOK, MaxAge
    <2>3. QED BY <1>1, <1>3, <2>1, <2>2 DEF MemoConservative
  <1>11. QED BY <1>2, <1>4, <1>8, <1>9, <1>10

\* The invariant of the memo, its pushers and the adapter.
THEOREM PushInvHolds == Spec => []PushInv
  <1>1. PushInv /\ [Next]_vars => PushInv'
    <2> SUFFICES ASSUME PushInv, [Next]_vars PROVE PushInv'
      OBVIOUS
    <2>1. CASE UNCHANGED vars
      <3>1. \A f \in Feeds : Writing(f)' = Writing(f)
        BY <2>1 DEF vars, Writing
      <3>2. QED
        BY <2>1, <3>1 DEF vars, PushInv, TypeOK, InFlightConsistent, OneWriter,
           ReservationsFresh, LandedRecently, MemoConservative
    <2>2. CASE Next
      BY <2>2, QuietPush, WritePush, AnswerPush, AdapterPush, TickPush DEF Next
    <2>3. QED BY <2>1, <2>2
  <1>2. QED BY <1>1, PushInit, PTL DEF Spec

\* With a gateway that answers truthfully and within the interval, the bot
\* never submits a RedStone write that the adapter's interval forbids.
THEOREM NoGasBurnt ==
  ASSUME TruthfulGateway, PromptGateway
  PROVE  Spec => []NoEarlyWrite
  <1>1. PushInv => NoEarlyWrite
    BY DEF PushInv, MemoConservative, NoEarlyWrite
  <1>2. QED BY <1>1, PushInvHolds, PTL

\* No two position futures write the same feed at the same time.
THEOREM WritersExclusive == Spec => []OneWriter
  <1>1. PushInv => OneWriter
    BY DEF PushInv
  <1>2. QED BY <1>1, PushInvHolds, PTL

\* A failed write never holds its feeds back: an entry of the memo is always
\* backed by a write in flight or a recently accepted one.
THEOREM SuppressionSound == Spec => []SuppressionJustified
  <1>1. PushInv => SuppressionJustified
    BY PushAssumption DEF PushInv, LandedRecently, SuppressionJustified, TypeOK, MaxAge
  <1>2. QED BY <1>1, PushInvHolds, PTL

-----------------------------------------------------------------------------
(***************************************************************************)
(* update_onchain_prices.                                                  *)
(***************************************************************************)
\* The whole push uses the memo only as RedStonePush says it may.
THEOREM UpdateImplementsPush == UpdateSpec => Spec
  <1>1. UpdateInit => Init
    BY DEF UpdateInit
  <1>2. [UpdateNext]_<<pushVars, updateVars>> => [Next]_vars
    <2> SUFFICES ASSUME [UpdateNext]_<<pushVars, updateVars>> PROVE [Next]_vars
      OBVIOUS
    <2>1. CASE UNCHANGED <<pushVars, updateVars>>
      BY <2>1 DEF pushVars, vars
    <2>2. ASSUME NEW p \in Pushers, UpdateStep(p) PROVE [Next]_vars
      <3>1. \/ UNCHANGED pushVars
            \/ Ask(p) \/ GiveUp(p) \/ Write(p) \/ AnswerSucceeded(p) \/ AnswerFailed(p)
            \/ Accept(p) \/ Refuse(p)
        BY <2>2 DEF UpdateStep, update_onchain_prices, ProbeFails, Resolve, ResolveFails,
           PythWrite, PythDone, Packages, PackagesFail, RedStoneSkips, RedStoneWrites,
           RedStoneLands, RedStoneFails, AdapterAccepts, AdapterRefuses,
           AggregateSucceeds, AggregateFails
      <3>2. QED BY <3>1 DEF Next, vars, pushVars
    <2>3. CASE Tick
      BY <2>3 DEF Next
    <2>4. QED BY <2>1, <2>2, <2>3 DEF UpdateNext
  <1>3. QED BY <1>1, <1>2, PTL DEF UpdateSpec, Spec

\* One step of one pusher keeps every pusher's relied-upon writes accounted for.
LEMMA UpdateStepSound ==
  ASSUME PushInv, UpdateInv, NEW p \in Pushers, UpdateStep(p)
  PROVE  UpdateInv'
  <1> USE DEF UpdateInv, UpdateTypeOK, Phases, pushVars
  <1>1. CASE update_onchain_prices(p)
    <2>1. PICK feeds \in SUBSET Feeds : ids' = [ids EXCEPT ![p] = feeds]
      BY <1>1 DEF update_onchain_prices
    <2>2. PICK next \in {"resolve", "aggregate"} : phase' = [phase EXCEPT ![p] = next]
      BY <1>1 DEF update_onchain_prices
    <2>3. QED BY <1>1, <2>1, <2>2 DEF update_onchain_prices
  <1>2. CASE ProbeFails(p)
    <2>1. PICK next \in {"done", "failed"} : phase' = [phase EXCEPT ![p] = next]
      BY <1>2 DEF ProbeFails
    <2>2. QED BY <1>2, <2>1 DEF ProbeFails
  <1>3. CASE Resolve(p) \/ ResolveFails(p)
    BY <1>3, UpdateAssumption DEF Resolve, ResolveFails, collect_pyth_pro_targets
  <1>4. CASE PythWrite(p)
    BY <1>4 DEF PythWrite
  <1>5. CASE PythDone(p) \/ PackagesFail(p)
    BY <1>5 DEF PythDone, PackagesFail
  <1>6. CASE Packages(p)
    <2>1. collect_redstone_targets(ids[p]) \subseteq ids[p] /\ due[p] = {}
      BY <1>6 DEF Packages, Ask, collect_redstone_targets, PushInv, InFlightConsistent
    <2>2. /\ pc' = [pc EXCEPT ![p] = "rules"]
          /\ \A q \in Pushers : wanted'[q] = IF q = p THEN collect_redstone_targets(ids[p]) ELSE wanted[q]
          /\ phase' = [phase EXCEPT ![p] = "redstone"]
          /\ UNCHANGED <<due, ids, todo, updated, behind, owed>>
          /\ phase[p] = "packages"
      BY <1>6 DEF Packages, Ask, PushInv, TypeOK
    <2>3. QED BY <2>1, <2>2 DEF PushInv, TypeOK
  <1>7. CASE RedStoneSkips(p)
    BY <1>7 DEF RedStoneSkips, GiveUp, Relied, PushInv, TypeOK
  <1>8. CASE RedStoneWrites(p)
    BY <1>8 DEF RedStoneWrites, Write, Relied, due_feeds, PushInv, TypeOK
  <1>9. CASE RedStoneLands(p)
    BY <1>9 DEF RedStoneLands, AnswerSucceeded, Settle, PushInv, TypeOK
  <1>10. CASE RedStoneFails(p)
    BY <1>10 DEF RedStoneFails, AnswerFailed, Settle, PushInv, TypeOK
  <1>11. CASE AdapterAccepts(p) \/ AdapterRefuses(p)
    BY <1>11 DEF AdapterAccepts, AdapterRefuses, Accept, Refuse, updateVars, PushInv, TypeOK
  <1>12. CASE AggregateSucceeds(p)
    BY <1>12 DEF AggregateSucceeds, aggregated
  <1>13. CASE AggregateFails(p)
    BY <1>13 DEF AggregateFails, aggregated
  <1>14. QED
    BY <1>1, <1>2, <1>3, <1>4, <1>5, <1>6, <1>7, <1>8, <1>9, <1>10, <1>11, <1>12, <1>13
       DEF UpdateStep

\* A push that returns Ok has every landed write it relies on aggregated by the
\* proxy, whatever the other positions push at the same time.
THEOREM PushSound == UpdateSpec => []PushReachesProxy
  <1>1. UpdateInit => UpdateInv
    BY DEF UpdateInit, Init, UpdateInv, UpdateTypeOK, Phases
  <1>2. PushInv /\ UpdateInv /\ [UpdateNext]_<<pushVars, updateVars>> => UpdateInv'
    <2> SUFFICES ASSUME PushInv, UpdateInv, [UpdateNext]_<<pushVars, updateVars>>
                 PROVE  UpdateInv'
      OBVIOUS
    <2>1. CASE UNCHANGED <<pushVars, updateVars>>
      BY <2>1 DEF pushVars, updateVars, UpdateInv, UpdateTypeOK
    <2>2. CASE Tick /\ UNCHANGED updateVars
      BY <2>2 DEF Tick, updateVars, UpdateInv, UpdateTypeOK
    <2>3. CASE \E p \in Pushers : UpdateStep(p)
      BY <2>3, UpdateStepSound
    <2>4. QED BY <2>1, <2>2, <2>3 DEF UpdateNext
  <1>3. UpdateInv => PushReachesProxy
    BY DEF UpdateInv, PushReachesProxy
  <1>4. UpdateSpec => []PushInv
    BY UpdateImplementsPush, PushInvHolds, PTL
  <1>5. QED BY <1>1, <1>2, <1>3, <1>4, PTL DEF UpdateSpec

-----------------------------------------------------------------------------
\* RUN_MODE=push-check pushes through the same update_onchain_prices as the
\* bot: whatever the check does around it, other bots and ageing prices
\* included, every step is a step of PriceUpdate or leaves its state alone.
THEOREM CheckImplementsUpdate ==
  ASSUME Me \in Pushers
  PROVE  CheckSpec => UpdateSpec
  <1>1. CheckInit => UpdateInit
    BY DEF CheckInit
  <1>2. [CheckNext]_<<pushVars, updateVars, checkVars>> => [UpdateNext]_<<pushVars, updateVars>>
    <2> SUFFICES ASSUME [CheckNext]_<<pushVars, updateVars, checkVars>>
                 PROVE  [UpdateNext]_<<pushVars, updateVars>>
      OBVIOUS
    <2>1. CASE \/ UNCHANGED <<pushVars, updateVars, checkVars>>
               \/ Refresh \/ Before \/ Pushed \/ After \/ OtherBot \/ Ages
      BY <2>1 DEF Refresh, Before, Pushed, After, OtherBot, Ages
    <2>2. CASE Push
      BY <2>2 DEF Push, UpdateNext, UpdateStep
    <2>3. CASE PushPyth \/ PushRedStone \/ PushAggregates
      BY <2>3 DEF PushPyth, PushRedStone, PushAggregates, UpdateNext, UpdateStep
    <2>4. CASE PushGoesOn
      BY <2>4 DEF PushGoesOn, UpdateNext, UpdateStep
    <2>5. QED BY <2>1, <2>2, <2>3, <2>4 DEF CheckNext
  <1>3. QED BY <1>1, <1>2, PTL DEF CheckSpec, UpdateSpec

\* What the bot's pushes guarantee, the check's do too: a push it counts as
\* done left no landed write behind the proxy, no two of its writes for a feed
\* overlap, and it leaves a feed alone only when that is justified.
THEOREM CheckSound ==
  ASSUME Me \in Pushers
  PROVE  CheckSpec => [](PushReachesProxy /\ OneWriter /\ SuppressionJustified)
  <1>1. CheckSpec => UpdateSpec
    BY CheckImplementsUpdate
  <1>2. QED
    BY <1>1, UpdateImplementsPush, PushSound, WritersExclusive, SuppressionSound, PTL
=============================================================================
