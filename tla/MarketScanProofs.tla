-------------------------- MODULE MarketScanProofs --------------------------
(***************************************************************************)
(* The gateway client's promises for every set of callers and symbols, any *)
(* number of gateways, and every TTL and backoff; and those of the market  *)
(* scan that asks it, for any feeds, sources, packages, quotes, rates and  *)
(* positions, and any change of them while the scan runs.                  *)
(***************************************************************************)
EXTENDS MarketScan, DataTheorems

(***************************************************************************)
(* The gateway client.  CacheInv is inductive; each lemma is a group of    *)
(* actions.                                                                *)
(***************************************************************************)

LEMMA CacheInitInv == CacheInit => CacheInv
  <1> SUFFICES ASSUME CacheInit PROVE CacheInv
    OBVIOUS
  <1> USE GatewayAssumption DEF CacheInit
  <1>1. CacheTypeOK
    BY DEF CacheTypeOK, NoAsk, NoAnswer, Ask
  <1>2. ServedOrdered /\ FetchJustified /\ FetchesSpaced /\ AnswersSound
    BY DEF ServedOrdered, FetchJustified, FetchesSpaced, AnswersSound
  <1>3. TimesSound
    BY DEF TimesSound, NoAsk
  <1>4. QED BY <1>1, <1>2, <1>3 DEF CacheInv

\* Times are numbers.
LEMMA Times ==
  ASSUME CacheTypeOK
  PROVE  /\ now \in Nat /\ Ttl \in Nat /\ Backoff \in Nat
         /\ \A s \in Snapshot : s.fetched_at \in Nat /\ s.requested \subseteq Symbols
         /\ \A i \in 1..Len(served) : served[i] \in Snapshot
         /\ \A s \in last : s \in Snapshot
         /\ \A t \in failure : t \in Nat
         /\ \A c \in Callers : ask[c].since \in Nat /\ ask[c].symbols \subseteq Symbols
         /\ \A c \in Callers : answer[c].given \in Nat
  <1>1. \A t \in 0..MaxTime : t \in Nat
    BY GatewayAssumption
  <1>2. now \in Nat /\ Ttl \in Nat /\ Backoff \in Nat /\ \A t \in failure : t \in Nat
    BY <1>1, GatewayAssumption DEF CacheTypeOK
  <1>3. \A s \in Snapshot : s.fetched_at \in Nat /\ s.requested \subseteq Symbols
    BY <1>1 DEF Snapshot
  <1>4. (\A i \in 1..Len(served) : served[i] \in Snapshot) /\ \A s \in last : s \in Snapshot
    BY DEF CacheTypeOK
  <1>5. \A c \in Callers : ask[c].since \in Nat /\ ask[c].symbols \subseteq Symbols
    BY <1>1 DEF CacheTypeOK, Ask
  <1>6. \A c \in Callers : answer[c].given \in Nat
    BY <1>1 DEF CacheTypeOK
  <1>7. QED BY <1>2, <1>3, <1>4, <1>5, <1>6

\* Whatever leaves the fetches, the failure and what is wanted alone keeps
\* their history in order, as time passes.
LEMMA HistoryKept ==
  ASSUME CacheInv, CacheTypeOK', UNCHANGED <<wanted, last, failure, served>>,
         now' >= now, \A c \in Callers : ask'[c].since <= now'
  PROVE  ServedOrdered' /\ TimesSound' /\ FetchesSpaced'
  <1> USE DEF CacheInv
  <1>1. now' \in Nat
    BY Times, GatewayAssumption DEF CacheTypeOK
  <1>2. ServedOrdered'
    BY <1>1, Times DEF ServedOrdered
  <1>3. TimesSound' /\ FetchesSpaced'
    BY DEF TimesSound, FetchesSpaced
  <1>4. QED BY <1>2, <1>3

\* A call queues behind the others.
LEMMA CallStep ==
  ASSUME CacheInv, NEW c \in Callers, NEW symbols \in SUBSET Symbols, NEW replay \in BOOLEAN,
         packages(c, symbols, replay)
  PROVE  CacheInv'
  <1> USE DEF CacheInv
  <1>1. /\ pc[c] = "idle"
        /\ pc' = [pc EXCEPT ![c] = "locking"]
        /\ queue' = Append(queue, c)
        /\ ask' = [ask EXCEPT ![c] = [symbols |-> symbols, replay |-> replay, since |-> now]]
        /\ UNCHANGED <<now, answer, wanted, last, failure, gateway, served>>
    BY DEF packages
  <1>2. CacheTypeOK'
    BY <1>1 DEF CacheTypeOK, Ask
  <1>3. \A d \in Callers : ask'[d].since <= now'
    BY <1>1, Times DEF TimesSound, CacheTypeOK
  <1>4. ServedOrdered' /\ TimesSound' /\ FetchesSpaced'
    BY <1>1, <1>2, <1>3, HistoryKept, Times
  <1>5. \A d \in Callers : Holds(d) => Holds(d)'
    BY <1>1 DEF Holds, CacheTypeOK
  <1>6. \A d \in Callers : d # c => pc'[d] = pc[d] /\ ask'[d] = ask[d]
    BY <1>1 DEF CacheTypeOK
  <1>7. pc'[c] = "locking"
    BY <1>1 DEF CacheTypeOK
  <1>8. FetchJustified'
    BY <1>1, <1>5, <1>6, <1>7 DEF FetchJustified
  <1>9. AnswersSound'
    BY <1>1, <1>6, <1>7 DEF AnswersSound
  <1>10. QED BY <1>2, <1>4, <1>8, <1>9

\* Time passes: a snapshot that is too old for the fetcher stays so.
LEMMA TickStep ==
  ASSUME CacheInv, Tick
  PROVE  CacheInv'
  <1> USE DEF CacheInv
  <1>1. now' = now + 1 /\ now < MaxTime
        /\ UNCHANGED <<queue, pc, ask, answer, wanted, last, failure, gateway, served>>
    BY DEF Tick
  <1>2. CacheTypeOK'
    BY <1>1, GatewayAssumption DEF CacheTypeOK
  <1>3. ServedOrdered' /\ TimesSound' /\ FetchesSpaced'
    BY <1>1, <1>2, HistoryKept, Times DEF TimesSound
  <1>4. FetchJustified'
    BY <1>1, Times DEF FetchJustified, Holds
  <1>5. AnswersSound'
    BY <1>1 DEF AnswersSound
  <1>6. QED BY <1>2, <1>3, <1>4, <1>5

LEMMA TakeStep ==
  ASSUME CacheInv, NEW c \in Callers, Take(c)
  PROVE  CacheInv'
  <1> USE DEF CacheInv
  <1>1. /\ pc[c] = "answered"
        /\ pc' = [pc EXCEPT ![c] = "idle"]
        /\ ask' = [ask EXCEPT ![c] = NoAsk]
        /\ answer' = [answer EXCEPT ![c] = NoAnswer]
        /\ UNCHANGED <<now, queue, wanted, last, failure, gateway, served>>
    BY DEF Take
  <1>2. CacheTypeOK'
    <2>1. NoAsk \in Ask /\ NoAnswer \in [given : 0..MaxTime, from : SUBSET Snapshot, failed : SUBSET (0..MaxTime)]
      BY GatewayAssumption DEF NoAsk, NoAnswer, Ask
    <2>2. QED BY <1>1, <2>1 DEF CacheTypeOK
  <1>3. \A d \in Callers : ask'[d].since <= now'
    BY <1>1, Times DEF TimesSound, CacheTypeOK, NoAsk
  <1>4. ServedOrdered' /\ TimesSound' /\ FetchesSpaced'
    BY <1>1, <1>2, <1>3, HistoryKept, Times
  <1>5. \A d \in Callers : pc'[d] \in {"fetching", "answered"} =>
          d # c /\ pc'[d] = pc[d] /\ ask'[d] = ask[d] /\ answer'[d] = answer[d]
    BY <1>1 DEF CacheTypeOK
  <1>6. FetchJustified'
    BY <1>1, <1>5 DEF FetchJustified, Holds
  <1>7. AnswersSound'
    BY <1>1, <1>5 DEF AnswersSound
  <1>8. QED BY <1>2, <1>4, <1>6, <1>7

\* The guard passes to the next caller; the only one that could be fetching
\* was the one that returns.
LEMMA AfterReturn ==
  ASSUME CacheInv, NEW c \in Callers, Holds(c), pc' = [pc EXCEPT ![c] = "answered"],
         \A d \in Callers : ask'[d] = ask[d], queue' = Tail(queue)
  PROVE  /\ FetchJustified'
         /\ queue' \in Seq(Callers)
         /\ \A d \in Callers : pc[d] = "fetching" => d = c
  <1>1. \A d \in Callers : pc[d] = "fetching" => d = c
    BY DEF CacheInv, FetchJustified, Holds
  <1>2. \A d \in Callers : pc'[d] # "fetching"
    BY <1>1 DEF CacheInv, CacheTypeOK
  <1>3. queue' \in Seq(Callers)
    BY DEF CacheInv, CacheTypeOK, Holds
  <1>4. QED BY <1>1, <1>2, <1>3 DEF FetchJustified

\* An answer from memory: the snapshot or the failure.
LEMMA MemoryStep ==
  ASSUME CacheInv, NEW c \in Callers, ServeSnapshot(c) \/ ReplayFailure(c)
  PROVE  CacheInv'
  <1> USE DEF CacheInv
  <1>1. PICK from \in {last, {}}, failed \in {failure, {}} :
          /\ answer' = [answer EXCEPT ![c] = [given |-> now, from |-> from, failed |-> failed]]
          /\ \/ Covers(ask[c].symbols) /\ from = last /\ failed = {}
             \/ Replayed(c) /\ from = {} /\ failed = failure
    BY DEF ServeSnapshot, ReplayFailure, Return
  <1>2. /\ Holds(c)
        /\ pc' = [pc EXCEPT ![c] = "answered"]
        /\ queue' = Tail(queue)
        /\ wanted' = wanted \union ask[c].symbols
        /\ UNCHANGED <<now, ask, last, failure, gateway, served>>
    BY DEF ServeSnapshot, ReplayFailure, Return
  <1>3. FetchJustified' /\ queue' \in Seq(Callers)
    BY <1>2, AfterReturn
  <1>4. CacheTypeOK'
    <2>1. [given |-> now, from |-> from, failed |-> failed]
            \in [given : 0..MaxTime, from : SUBSET Snapshot, failed : SUBSET (0..MaxTime)]
      BY DEF CacheTypeOK
    <2>2. wanted' \in SUBSET Symbols
      BY <1>2, Times DEF CacheTypeOK
    <2>3. QED BY <1>1, <1>2, <1>3, <2>1, <2>2 DEF CacheTypeOK
  <1>5. ServedOrdered'
    BY <1>2 DEF ServedOrdered
  <1>6. TimesSound' /\ FetchesSpaced'
    BY <1>2 DEF TimesSound, FetchesSpaced
  <1>7. AnswersSound'
    <2> SUFFICES ASSUME NEW d \in Callers, pc'[d] = "answered"
                 PROVE  /\ \A s \in answer'[d].from :
                             /\ ask[d].symbols \subseteq s.requested
                             /\ answer'[d].given - s.fetched_at < Ttl
                             /\ \E i \in 1..Len(served) : served[i] = s
                        /\ \A t \in answer'[d].failed :
                             IF ask[d].replay THEN t >= ask[d].since \/ answer'[d].given - t < Backoff
                                              ELSE t >= ask[d].since
                        /\ answer'[d].from # {} \/ answer'[d].failed # {}
      BY <1>2 DEF AnswersSound
    <2>1. CASE d # c
      BY <2>1, <1>1, <1>2 DEF AnswersSound, CacheTypeOK
    <2>2. CASE d = c
      <3>1. answer'[d] = [given |-> now, from |-> from, failed |-> failed]
        BY <2>2, <1>1 DEF CacheTypeOK
      <3>2. CASE Covers(ask[c].symbols) /\ from = last /\ failed = {}
        <4>1. PICK s \in last : now - s.fetched_at < Ttl /\ ask[c].symbols \subseteq s.requested
          BY <3>2 DEF Covers
        <4>2. served # <<>> /\ last = {served[Len(served)]}
          BY <4>1 DEF ServedOrdered
        <4>3. Len(served) \in 1..Len(served)
          BY <4>2 DEF CacheTypeOK
        <4>4. QED BY <2>2, <3>1, <3>2, <4>1, <4>2, <4>3
      <3>3. CASE Replayed(c) /\ from = {} /\ failed = failure
        <4>1. PICK t \in failure : now - t < Backoff
          BY <3>3 DEF Replayed
        <4>2. \A u \in failure : u = t
          BY <4>1 DEF TimesSound
        <4>3. ask[c].replay
          BY <3>3 DEF Replayed
        <4>4. QED BY <2>2, <3>1, <3>3, <4>1, <4>2, <4>3
      <3>4. QED BY <1>1, <3>2, <3>3
    <2>3. QED BY <2>1, <2>2
  <1>8. QED BY <1>3, <1>4, <1>5, <1>6, <1>7

\* The snapshot in memory does not serve the caller, who fetches.
LEMMA StartStep ==
  ASSUME CacheInv, NEW c \in Callers, StartFetch(c)
  PROVE  CacheInv'
  <1> USE DEF CacheInv
  <1>1. /\ Holds(c) /\ ~Covers(ask[c].symbols)
        /\ wanted' = wanted \union ask[c].symbols
        /\ pc' = [pc EXCEPT ![c] = "fetching"]
        /\ UNCHANGED <<now, queue, ask, answer, last, failure, gateway, served>>
    BY DEF StartFetch
  <1>2. CacheTypeOK'
    <2>1. wanted' \in SUBSET Symbols
      BY <1>1, Times DEF CacheTypeOK
    <2>2. QED BY <1>1, <2>1 DEF CacheTypeOK
  <1>3. ServedOrdered'
    BY <1>1 DEF ServedOrdered
  <1>4. TimesSound' /\ FetchesSpaced'
    BY <1>1 DEF TimesSound, FetchesSpaced
  <1>5. FetchJustified'
    BY <1>1 DEF FetchJustified, Holds, Covers, CacheTypeOK
  <1>6. AnswersSound'
    BY <1>1 DEF AnswersSound, CacheTypeOK
  <1>7. QED BY <1>2, <1>3, <1>4, <1>5, <1>6

\* A gateway answers.  Everything fetched before was for fewer symbols or is
\* older than the TTL: otherwise the fetcher would have been served.
LEMMA AnswerStep ==
  ASSUME CacheInv, NEW c \in Callers, GatewayAnswers(c)
  PROVE  CacheInv'
  <1> USE DEF CacheInv
  <1>1. PICK map \in PackageMaps(wanted) :
          LET snapshot == [fetched_at |-> now, requested |-> wanted, packages |-> map]
          IN  /\ last' = {snapshot}
              /\ served' = Append(served, snapshot)
              /\ Return(c, {snapshot}, {})
    BY DEF GatewayAnswers, Requested
  <1> DEFINE new == [fetched_at |-> now, requested |-> wanted, packages |-> map]
  <1>2. /\ pc[c] = "fetching"
        /\ last' = {new}
        /\ served' = Append(served, new)
        /\ pc' = [pc EXCEPT ![c] = "answered"]
        /\ queue' = Tail(queue)
        /\ answer' = [answer EXCEPT ![c] = [given |-> now, from |-> {new}, failed |-> {}]]
        /\ failure' = {} /\ gateway' = 1
        /\ UNCHANGED <<now, ask, wanted>>
    BY <1>1 DEF GatewayAnswers, Return
  <1>3. new \in Snapshot
    <2>1. map \in PackageMaps(Symbols)
      BY DEF PackageMaps, CacheTypeOK
    <2>2. QED BY <2>1 DEF Snapshot, CacheTypeOK
  <1>4. new.fetched_at = now /\ new.requested = wanted
    OBVIOUS
  <1> HIDE DEF new
  <1>5. Holds(c) /\ ask[c].symbols \subseteq wanted
        /\ \A s \in last : now - s.fetched_at < Ttl => ~(ask[c].symbols \subseteq s.requested)
    BY <1>2 DEF FetchJustified
  <1>6. FetchJustified' /\ queue' \in Seq(Callers)
    BY <1>2, <1>5, AfterReturn
  <1>7. CacheTypeOK'
    <2>1. [given |-> now, from |-> {new}, failed |-> {}]
            \in [given : 0..MaxTime, from : SUBSET Snapshot, failed : SUBSET (0..MaxTime)]
      BY <1>3 DEF CacheTypeOK
    <2>2. served' \in Seq(Snapshot) /\ last' \in SUBSET Snapshot
      BY <1>2, <1>3 DEF CacheTypeOK
    <2>3. gateway' \in 1..Gateways /\ failure' \in SUBSET (0..MaxTime)
      BY <1>2, GatewayAssumption
    <2>4. QED BY <1>2, <1>6, <2>1, <2>2, <2>3 DEF CacheTypeOK
  <1>8. /\ Len(served) \in Nat /\ Len(served') = Len(served) + 1
        /\ \A i \in 1..Len(served) : served'[i] = served[i]
        /\ served'[Len(served) + 1] = new
    BY <1>2 DEF CacheTypeOK
  <1>9. \A i \in 1..Len(served) : served[i].fetched_at \in Nat /\ served[i].fetched_at <= now
                                 /\ served[i].requested \subseteq wanted
    BY Times DEF ServedOrdered
  <1>10. ServedOrdered'
    <2>1. \A i \in 1..Len(served') : served'[i].fetched_at <= now /\ served'[i].requested \subseteq wanted
      BY <1>4, <1>8, <1>9, Times
    <2>2. \A i, j \in 1..Len(served') : i < j =>
            served'[i].fetched_at <= served'[j].fetched_at /\ served'[i].requested \subseteq served'[j].requested
      BY <1>4, <1>8, <1>9 DEF ServedOrdered
    <2>3. served' # <<>>
      BY <1>8
    <2>4. QED BY <1>2, <1>8, <2>1, <2>2, <2>3 DEF ServedOrdered
  <1>11. FetchesSpaced'
    <2>1. ASSUME NEW i \in 1..Len(served), now - served[i].fetched_at < Ttl
          PROVE  served[i].requested # wanted
      <3>1. Len(served) \in 1..Len(served) /\ served # <<>>
        BY <1>8
      <3>2. served[i].fetched_at <= served[Len(served)].fetched_at
            /\ served[i].requested \subseteq served[Len(served)].requested
        BY <1>8, <1>9, <3>1 DEF ServedOrdered
      <3>3. served[Len(served)] \in last
        BY <3>1 DEF ServedOrdered
      <3>4. now - served[Len(served)].fetched_at < Ttl
        BY <2>1, <3>1, <3>2, <1>9, Times
      <3>5. ~(ask[c].symbols \subseteq served[i].requested)
        BY <3>2, <3>3, <3>4, <1>5
      <3>6. QED BY <3>5, <1>5
    <2> SUFFICES ASSUME NEW i \in 1..Len(served'), NEW j \in 1..Len(served'), i < j,
                        served'[j].fetched_at - served'[i].fetched_at < Ttl
                 PROVE  served'[i].requested \subseteq served'[j].requested
                        /\ served'[i].requested # served'[j].requested
      BY DEF FetchesSpaced
    <2>2. CASE j = Len(served) + 1
      BY <2>1, <2>2, <1>4, <1>8, <1>9
    <2>3. CASE j # Len(served) + 1
      BY <2>3, <1>8 DEF FetchesSpaced
    <2>4. QED BY <2>2, <2>3
  <1>12. TimesSound'
    BY <1>2 DEF TimesSound
  <1>13. AnswersSound'
    <2> SUFFICES ASSUME NEW d \in Callers, pc'[d] = "answered"
                 PROVE  /\ \A s \in answer'[d].from :
                             /\ ask[d].symbols \subseteq s.requested
                             /\ answer'[d].given - s.fetched_at < Ttl
                             /\ \E i \in 1..Len(served') : served'[i] = s
                        /\ \A t \in answer'[d].failed :
                             IF ask[d].replay THEN t >= ask[d].since \/ answer'[d].given - t < Backoff
                                              ELSE t >= ask[d].since
                        /\ answer'[d].from # {} \/ answer'[d].failed # {}
      BY <1>2 DEF AnswersSound
    <2>1. CASE d # c
      <3>1. pc[d] = "answered" /\ answer'[d] = answer[d]
        BY <2>1, <1>2 DEF CacheTypeOK
      <3>2. \A s : (\E i \in 1..Len(served) : served[i] = s) => \E i \in 1..Len(served') : served'[i] = s
        BY <1>8
      <3>3. QED BY <3>1, <3>2 DEF AnswersSound
    <2>2. CASE d = c
      <3>1. answer'[d] = [given |-> now, from |-> {new}, failed |-> {}]
        BY <2>2, <1>2 DEF CacheTypeOK
      <3>2. now - new.fetched_at < Ttl
        BY <1>4, Times, GatewayAssumption
      <3>3. \E i \in 1..Len(served') : served'[i] = new
        BY <1>8
      <3>4. QED BY <2>2, <3>1, <3>2, <3>3, <1>4, <1>5
    <2>3. QED BY <2>1, <2>2
  <1>14. QED BY <1>6, <1>7, <1>10, <1>11, <1>12, <1>13

\* A gateway fails, the last one among them.
LEMMA FailStep ==
  ASSUME CacheInv, NEW c \in Callers, GatewayFails(c) \/ EveryGatewayFailed(c)
  PROVE  CacheInv'
  <1> USE DEF CacheInv
  <1>1. CASE GatewayFails(c)
    <2>1. /\ gateway' = gateway + 1 /\ gateway < Gateways
          /\ UNCHANGED <<now, queue, pc, ask, answer, wanted, last, failure, served>>
      BY <1>1 DEF GatewayFails
    <2>2. CacheTypeOK'
      BY <2>1, GatewayAssumption DEF CacheTypeOK
    <2>3. QED
      BY <2>1, <2>2 DEF ServedOrdered, FetchJustified, TimesSound, FetchesSpaced, AnswersSound, Holds
  <1>2. CASE EveryGatewayFailed(c)
    <2>1. /\ pc[c] = "fetching"
          /\ failure' = {now} /\ gateway' = 1
          /\ pc' = [pc EXCEPT ![c] = "answered"]
          /\ queue' = Tail(queue)
          /\ answer' = [answer EXCEPT ![c] = [given |-> now, from |-> {}, failed |-> {now}]]
          /\ UNCHANGED <<now, ask, wanted, last, served>>
      BY <1>2 DEF EveryGatewayFailed, Return
    <2>2. FetchJustified' /\ queue' \in Seq(Callers)
      BY <2>1, AfterReturn DEF FetchJustified
    <2>3. CacheTypeOK'
      <3>1. [given |-> now, from |-> {}, failed |-> {now}]
              \in [given : 0..MaxTime, from : SUBSET Snapshot, failed : SUBSET (0..MaxTime)]
        BY DEF CacheTypeOK
      <3>2. gateway' \in 1..Gateways /\ failure' \in SUBSET (0..MaxTime)
        BY <2>1, GatewayAssumption DEF CacheTypeOK
      <3>3. QED BY <2>1, <2>2, <3>1, <3>2 DEF CacheTypeOK
    <2>4. ServedOrdered' /\ TimesSound' /\ FetchesSpaced'
      BY <2>1 DEF ServedOrdered, TimesSound, FetchesSpaced
    <2>5. AnswersSound'
      <3>1. \A d \in Callers : d # c => pc'[d] = pc[d] /\ answer'[d] = answer[d]
        BY <2>1 DEF CacheTypeOK
      <3>2. answer'[c] = [given |-> now, from |-> {}, failed |-> {now}]
        BY <2>1 DEF CacheTypeOK
      <3>3. ask[c].since <= now
        BY DEF TimesSound
      <3>4. now \in Nat /\ ask[c].since \in Nat
        BY Times
      <3>5. answer'[c].from = {} /\ answer'[c].failed = {now} /\ now >= ask[c].since
        BY <3>2, <3>3, <3>4
      <3>6. UNCHANGED <<ask, served>>
        BY <2>1
      <3> DEFINE Sound(d) ==
            /\ \A s \in answer[d].from :
                 /\ ask[d].symbols \subseteq s.requested
                 /\ answer[d].given - s.fetched_at < Ttl
                 /\ \E i \in 1..Len(served) : served[i] = s
            /\ \A t \in answer[d].failed :
                 IF ask[d].replay THEN t >= ask[d].since \/ answer[d].given - t < Backoff
                                  ELSE t >= ask[d].since
            /\ answer[d].from # {} \/ answer[d].failed # {}
      <3>7. Sound(c)'
        <4>1. \A t \in answer'[c].failed : t >= ask'[c].since
          BY <3>5, <3>6
        <4>2. QED BY <3>5, <4>1
      <3>8. ASSUME NEW d \in Callers, d # c, pc'[d] = "answered" PROVE Sound(d)'
        <4>1. Sound(d)
          BY <3>1, <3>8 DEF AnswersSound
        <4>2. answer'[d] = answer[d]
          BY <3>1, <3>8
        <4>3. QED BY <3>6, <4>1, <4>2
      <3>9. QED BY <3>7, <3>8 DEF AnswersSound
    <2>6. QED BY <2>2, <2>3, <2>4, <2>5
  <1>3. QED BY <1>1, <1>2

\* Every step of the client and its callers keeps the invariant.
LEMMA CacheStep == CacheInv /\ [CacheNext]_cacheVars => CacheInv'
  <1> SUFFICES ASSUME CacheInv, [CacheNext]_cacheVars PROVE CacheInv'
    OBVIOUS
  <1>1. CASE UNCHANGED cacheVars
    BY <1>1 DEF cacheVars, CacheInv, CacheTypeOK, ServedOrdered, FetchJustified, Holds,
       TimesSound, FetchesSpaced, AnswersSound
  <1>2. CASE CacheNext
    BY <1>2, CallStep, TickStep, TakeStep, MemoryStep, StartStep, AnswerStep, FailStep
       DEF CacheNext, Client
  <1> QED
    BY <1>1, <1>2

\* The invariant of the client, its callers and its gateways.
THEOREM CacheInvHolds == CacheSpec => []CacheInv
BY CacheInitInv, CacheStep, PTL DEF CacheSpec

\* Of two successful fetches within a TTL, the later one asked for strictly
\* more: the rate limit of the gateway keys, for any number of callers.
THEOREM FetchesBounded == CacheSpec => []FetchesSpaced
  <1>1. CacheInv => FetchesSpaced
    BY DEF CacheInv
  <1>2. QED BY <1>1, CacheInvHolds, PTL

\* Every answer is about the symbols asked for, from a fetch within the TTL, or
\* a failure the caller may be told of.
THEOREM AnswersTrue == CacheSpec => []AnswersSound
  <1>1. CacheInv => AnswersSound
    BY DEF CacheInv
  <1>2. QED BY <1>1, CacheInvHolds, PTL

-----------------------------------------------------------------------------
(***************************************************************************)
(* The lock's queue.  A step adds a caller at its end, moves its head to   *)
(* the gateways or on to the next one, answers and removes the head, or    *)
(* leaves the queue alone.                                                 *)
(***************************************************************************)
Joins(c) ==
  /\ pc[c] = "idle" /\ pc' = [pc EXCEPT ![c] = "locking"]
  /\ queue' = Append(queue, c) /\ gateway' = gateway
Departs(c) ==
  /\ Holds(c) /\ pc[c] = "locking" /\ pc' = [pc EXCEPT ![c] = "fetching"]
  /\ queue' = queue /\ gateway' = gateway
Walks(c) ==
  /\ Holds(c) /\ pc[c] = "fetching" /\ pc' = pc
  /\ queue' = queue /\ gateway' = gateway + 1
Leaves(c) ==
  /\ Holds(c) /\ pc' = [pc EXCEPT ![c] = "answered"]
  /\ queue' = Tail(queue)
  /\ \/ pc[c] = "locking" /\ gateway' = gateway
     \/ pc[c] = "fetching" /\ gateway' = 1
Rests(c) ==
  /\ pc[c] = "answered" /\ pc' = [pc EXCEPT ![c] = "idle"]
  /\ queue' = queue /\ gateway' = gateway

LEMMA LineShapes ==
  ASSUME CacheInv, [CacheNext]_cacheVars
  PROVE  \/ UNCHANGED <<queue, pc, gateway>>
         \/ \E c \in Callers : Joins(c) \/ Departs(c) \/ Walks(c) \/ Leaves(c) \/ Rests(c)
  <1>1. CASE Tick \/ UNCHANGED cacheVars
    BY <1>1 DEF Tick, cacheVars
  <1>2. ASSUME NEW c \in Callers, NEW symbols \in SUBSET Symbols, NEW replay \in BOOLEAN,
               packages(c, symbols, replay)
        PROVE  Joins(c)
    BY <1>2 DEF packages, Joins
  <1>3. ASSUME NEW c \in Callers, ServeSnapshot(c) \/ ReplayFailure(c) PROVE Leaves(c)
    BY <1>3 DEF ServeSnapshot, ReplayFailure, Return, Leaves
  <1>4. ASSUME NEW c \in Callers, StartFetch(c) PROVE Departs(c)
    BY <1>4 DEF StartFetch, Departs
  <1>5. \A c \in Callers : pc[c] = "fetching" => Holds(c)
    BY DEF CacheInv, FetchJustified
  <1>6. ASSUME NEW c \in Callers, GatewayAnswers(c) \/ EveryGatewayFailed(c) PROVE Leaves(c)
    BY <1>5, <1>6 DEF GatewayAnswers, EveryGatewayFailed, Return, Leaves
  <1>7. ASSUME NEW c \in Callers, GatewayFails(c) PROVE Walks(c)
    BY <1>5, <1>7 DEF GatewayFails, Walks
  <1>8. ASSUME NEW c \in Callers, Take(c) PROVE Rests(c)
    BY <1>8 DEF Take, Rests
  <1>9. QED BY <1>1, <1>2, <1>3, <1>4, <1>6, <1>7, <1>8 DEF CacheNext, Client

\* What the proofs use of the types.
LEMMA LineTypes ==
  ASSUME CacheInv
  PROVE  /\ queue \in Seq(Callers) /\ DOMAIN queue = 1..Len(queue) /\ Len(queue) \in Nat
         /\ \A i \in 1..Len(queue) : queue[i] \in Callers
         /\ pc \in [Callers -> {"idle", "locking", "fetching", "answered"}]
         /\ gateway \in 1..Gateways /\ Gateways \in Nat \ {0}
  BY GatewayAssumption DEF CacheInv, CacheTypeOK

\* The queue after its head has left: everybody moves up by one place.
LEMMA MovesUp ==
  ASSUME NEW S, NEW s \in Seq(S), s # <<>>
  PROVE  /\ Tail(s) \in Seq(S) /\ Len(s) \in Nat \ {0} /\ Head(s) = s[1]
         /\ DOMAIN Tail(s) = 1..(Len(s) - 1)
         /\ \A i \in 1..(Len(s) - 1) : Tail(s)[i] = s[i + 1]
  <1>1. Len(s) \in Nat \ {0}
    BY EmptySeq, LenProperties
  <1>2. QED BY <1>1, HeadTailProperties

\* The queue after a caller has joined: everybody keeps their place.
LEMMA JoinsAtEnd ==
  ASSUME NEW S, NEW s \in Seq(S), NEW e \in S
  PROVE  /\ Append(s, e) \in Seq(S) /\ Len(s) \in Nat
         /\ DOMAIN Append(s, e) = 1..(Len(s) + 1)
         /\ \A i \in 1..Len(s) : Append(s, e)[i] = s[i]
         /\ Append(s, e)[Len(s) + 1] = e
  BY AppendProperties, LenProperties

LEMMA LineInit == CacheInit => LineOrdered
  BY DEF CacheInit, LineOrdered, Waiting

\* The queue stays ordered.
LEMMA LineStep ==
  ASSUME CacheInv, LineOrdered, [CacheNext]_cacheVars
  PROVE  LineOrdered'
  <1> USE LineTypes
  <1>0. CASE UNCHANGED <<queue, pc, gateway>>
    BY <1>0 DEF LineOrdered, Waiting
  <1>1. ASSUME NEW c \in Callers, Joins(c) PROVE LineOrdered'
    <2>1. /\ DOMAIN queue' = 1..(Len(queue) + 1)
          /\ \A i \in 1..Len(queue) : queue'[i] = queue[i]
          /\ queue'[Len(queue) + 1] = c
      BY <1>1, JoinsAtEnd DEF Joins
    <2>2. \A i \in 1..Len(queue) : queue[i] # c
      BY <1>1 DEF Joins, LineOrdered, Waiting
    <2>3. \A i, j \in DOMAIN queue' : queue'[i] = queue'[j] => i = j
      BY <2>1, <2>2 DEF LineOrdered
    <2>4. /\ \A d \in Callers : d # c => pc'[d] = pc[d]
          /\ pc'[c] = "locking" /\ pc[c] = "idle" /\ gateway' = gateway
      BY <1>1 DEF Joins
    <2>5. ASSUME NEW d \in Callers
          PROVE  Waiting(d)' <=> \E i \in DOMAIN queue' : queue'[i] = d
      <3>1. CASE d = c
        BY <2>1, <2>4, <3>1 DEF Waiting
      <3>2. CASE d # c
        BY <2>1, <2>4, <3>2 DEF Waiting, LineOrdered
      <3>3. QED BY <3>1, <3>2
    <2>6. (\A d \in Callers : pc'[d] # "fetching") => gateway' = 1
      BY <2>4 DEF LineOrdered
    <2>7. QED BY <2>3, <2>5, <2>6 DEF LineOrdered
  <1>2. ASSUME NEW c \in Callers, Departs(c) PROVE LineOrdered'
    <2>1. /\ \A d \in Callers : d # c => pc'[d] = pc[d]
          /\ pc'[c] = "fetching" /\ pc[c] = "locking" /\ queue' = queue
      BY <1>2 DEF Departs
    <2>2. QED BY <2>1 DEF LineOrdered, Waiting
  <1>3. ASSUME NEW c \in Callers, Walks(c) PROVE LineOrdered'
    BY <1>3 DEF Walks, LineOrdered, Waiting
  <1>4. ASSUME NEW c \in Callers, Leaves(c) PROVE LineOrdered'
    <2>1. /\ Len(queue) \in Nat \ {0} /\ queue[1] = c
          /\ DOMAIN queue' = 1..(Len(queue) - 1)
          /\ \A i \in 1..(Len(queue) - 1) : queue'[i] = queue[i + 1]
      BY <1>4, MovesUp DEF Leaves, Holds
    <2>2. ASSUME NEW i \in DOMAIN queue', NEW j \in DOMAIN queue', queue'[i] = queue'[j]
          PROVE  i = j
      <3>1. /\ i \in Int /\ i + 1 \in 1..Len(queue) /\ queue'[i] = queue[i + 1]
            /\ j \in Int /\ j + 1 \in 1..Len(queue) /\ queue'[j] = queue[j + 1]
        BY <2>1
      <3>2. i + 1 = j + 1
        BY <2>2, <3>1 DEF LineOrdered
      <3>3. QED BY <3>1, <3>2
    <2>3. /\ \A d \in Callers : d # c => pc'[d] = pc[d]
          /\ pc'[c] = "answered"
      BY <1>4 DEF Leaves
    <2>4. ASSUME NEW d \in Callers
          PROVE  Waiting(d)' <=> \E i \in DOMAIN queue' : queue'[i] = d
      <3>1. CASE d = c
        <4>1. \A i \in 1..(Len(queue) - 1) : queue[i + 1] # c
          BY <2>1 DEF LineOrdered
        <4>2. QED BY <2>1, <2>3, <3>1, <4>1 DEF Waiting
      <3>2. CASE d # c
        <4>1. (\E i \in 1..Len(queue) : queue[i] = d)
                <=> \E i \in 1..(Len(queue) - 1) : queue[i + 1] = d
          <5>1. ASSUME NEW i \in 1..Len(queue), queue[i] = d
                PROVE  i - 1 \in 1..(Len(queue) - 1) /\ queue[(i - 1) + 1] = d
            <6>1. i # 1
              BY <2>1, <3>2, <5>1
            <6>2. i - 1 \in 1..(Len(queue) - 1) /\ (i - 1) + 1 = i
              BY <2>1, <6>1
            <6>3. QED BY <5>1, <6>2
          <5>2. ASSUME NEW i \in 1..(Len(queue) - 1), queue[i + 1] = d
                PROVE  i + 1 \in 1..Len(queue)
            BY <2>1
          <5>3. QED BY <5>1, <5>2
        <4>2. Waiting(d)' <=> Waiting(d)
          BY <2>3, <3>2 DEF Waiting
        <4>3. Waiting(d) <=> \E i \in 1..Len(queue) : queue[i] = d
          BY DEF LineOrdered
        <4>4. (\E i \in DOMAIN queue' : queue'[i] = d)
                <=> \E i \in 1..(Len(queue) - 1) : queue[i + 1] = d
          BY <2>1
        <4>5. QED BY <4>1, <4>2, <4>3, <4>4
      <3>3. QED BY <3>1, <3>2
    <2>5. (\A d \in Callers : pc'[d] # "fetching") => gateway' = 1
      <3>1. CASE pc[c] = "fetching"
        BY <1>4, <3>1 DEF Leaves
      <3>2. CASE pc[c] = "locking"
        BY <1>4, <2>3, <3>2 DEF Leaves, LineOrdered
      <3>3. QED BY <1>4, <3>1, <3>2 DEF Leaves
    <2>6. QED BY <2>2, <2>4, <2>5 DEF LineOrdered
  <1>5. ASSUME NEW c \in Callers, Rests(c) PROVE LineOrdered'
    <2>1. /\ \A d \in Callers : d # c => pc'[d] = pc[d]
          /\ pc'[c] = "idle" /\ pc[c] = "answered" /\ queue' = queue /\ gateway' = gateway
      BY <1>5 DEF Rests
    <2>2. QED BY <2>1 DEF LineOrdered, Waiting
  <1>6. QED BY <1>0, <1>1, <1>2, <1>3, <1>4, <1>5, LineShapes

\* The place of a waiting caller is the one it has in the queue.
LEMMA PlaceIs ==
  ASSUME CacheInv, LineOrdered, NEW i \in DOMAIN queue
  PROVE  Place(queue[i]) = i
  BY DEF Place, LineOrdered

\* The lock's holder has asked at most every gateway once, and only the holder.
LEMMA TriedIs ==
  ASSUME CacheInv, LineOrdered, NEW c \in Callers, Holds(c)
  PROVE  /\ Tried = IF pc[c] = "fetching" THEN gateway ELSE 0
         /\ pc[c] = "locking" => gateway = 1
  <1>1. \A d \in Callers : pc[d] = "fetching" => d = c
    BY DEF CacheInv, FetchJustified, Holds
  <1>2. pc[c] = "locking" => gateway = 1
    BY <1>1 DEF LineOrdered
  <1>3. QED BY <1>2 DEF Tried, Holds

\* A step of the holder brings every caller behind it nearer to its answer.
LEMMA WaitStep ==
  ASSUME CacheInv, LineOrdered, CacheInv', LineOrdered', [CacheNext]_cacheVars,
         NEW c \in Callers, Waiting(c), Waiting(c)'
  PROVE  IF <<Tried, Head(queue)>>' = <<Tried, Head(queue)>> THEN StepsLeft(c)' = StepsLeft(c)
         ELSE StepsLeft(c)' < StepsLeft(c)
  <1> USE LineTypes
  <1>1. PICK i \in 1..Len(queue) : queue[i] = c
    BY DEF LineOrdered
  <1>2. Place(c) = i
    BY <1>1, PlaceIs
  <1>3. /\ queue # <<>> /\ Head(queue) = queue[1] /\ Len(queue) \in Nat \ {0}
        /\ queue[1] \in Callers /\ i \in Nat
    BY <1>1, EmptySeq, MovesUp
  <1>4. Holds(queue[1])
    BY <1>3 DEF Holds
  <1>5. \A d \in Callers : Holds(d) => d = queue[1]
    BY <1>3 DEF Holds
  <1>6. CASE UNCHANGED <<queue, pc, gateway>>
    BY <1>6 DEF StepsLeft, Place, Tried
  <1>7. ASSUME NEW d \in Callers, Joins(d)
        PROVE  <<Tried, Head(queue)>>' = <<Tried, Head(queue)>> /\ StepsLeft(c)' = StepsLeft(c)
    <2>1. /\ DOMAIN queue' = 1..(Len(queue) + 1)
          /\ \A j \in 1..Len(queue) : queue'[j] = queue[j]
          /\ queue' # <<>> /\ Head(queue') = queue'[1]
      <3>1. queue' \in Seq(Callers) /\ DOMAIN queue' = 1..(Len(queue) + 1)
        BY <1>7, JoinsAtEnd DEF Joins
      <3>2. queue' # <<>>
        BY <3>1, <1>3
      <3>3. QED BY <1>7, <3>1, <3>2, JoinsAtEnd, MovesUp DEF Joins
    <2>2. Place(c)' = i
      BY <2>1, <1>1, <1>3 DEF Place, LineOrdered
    <2>3. Head(queue') = Head(queue) /\ queue[1] # d
      <3>1. Head(queue') = Head(queue)
        BY <1>3, <2>1
      <3>2. ~Waiting(d)
        BY <1>7 DEF Waiting, Joins
      <3>3. 1 \in DOMAIN queue
        BY <1>3
      <3>4. Waiting(queue[1])
        BY <1>3, <3>3 DEF LineOrdered
      <3>5. QED BY <3>1, <3>2, <3>4
    <2>4. Tried' = Tried
      BY <1>3, <1>7, <2>1, <2>3 DEF Tried, Joins
    <2>5. QED BY <1>2, <2>2, <2>3, <2>4 DEF StepsLeft
  <1>8. ASSUME NEW d \in Callers, Departs(d) \/ Walks(d)
        PROVE  Tried' # Tried /\ StepsLeft(c)' < StepsLeft(c)
    <2>1. d = queue[1] /\ queue' = queue
      BY <1>5, <1>8 DEF Departs, Walks
    <2>2. Place(c)' = i
      BY <1>2, <2>1 DEF Place
    <2>3. CASE Departs(d)
      BY <1>2, <1>3, <1>4, <2>1, <2>2, <2>3, TriedIs DEF Departs, Tried, StepsLeft
    <2>4. CASE Walks(d)
      BY <1>2, <1>3, <1>4, <2>1, <2>2, <2>4, TriedIs DEF Walks, Tried, StepsLeft
    <2>5. QED BY <1>8, <2>3, <2>4
  <1>9. ASSUME NEW d \in Callers, Leaves(d)
        PROVE  Head(queue)' # Head(queue) /\ StepsLeft(c)' < StepsLeft(c)
    <2>1. d = queue[1] /\ pc'[d] = "answered"
      BY <1>5, <1>9 DEF Leaves
    <2>2. d # c /\ i # 1
      BY <1>1, <2>1 DEF Waiting
    <2>3. /\ queue' \in Seq(Callers)
          /\ DOMAIN queue' = 1..(Len(queue) - 1)
          /\ \A j \in 1..(Len(queue) - 1) : queue'[j] = queue[j + 1]
      BY <1>3, <1>9, MovesUp DEF Leaves
    <2>4. i - 1 \in DOMAIN queue' /\ queue'[i - 1] = c
      BY <1>1, <1>3, <2>2, <2>3
    <2>5. Place(c)' = i - 1
      BY <2>4 DEF Place, LineOrdered
    <2>6. queue' # <<>> /\ Head(queue') = queue[2] /\ queue[2] \in Callers
      <3>1. Len(queue) - 1 >= 1
        BY <1>1, <1>3, <2>2
      <3>2. queue' # <<>>
        BY <2>3, <3>1, <1>3
      <3>3. QED BY <2>3, <3>1, <3>2, <1>3, MovesUp
    <2>7. queue[2] # d
      BY <1>1, <1>3, <2>1, <2>2 DEF LineOrdered
    <2>8. pc'[queue[2]] = pc[queue[2]] /\ pc[queue[2]] # "fetching"
      <3>1. ~Holds(queue[2])
        BY <1>5, <2>1, <2>6, <2>7
      <3>2. QED BY <1>9, <2>6, <2>7, <3>1 DEF Leaves, CacheInv, FetchJustified
    <2>9. Tried' = 0
      BY <2>6, <2>8 DEF Tried
    <2>10. Tried \in 0..Gateways
      BY <1>3 DEF Tried
    <2>11. StepsLeft(c) = i * (Gateways + 1) - Tried /\ StepsLeft(c)' = (i - 1) * (Gateways + 1)
      BY <1>2, <1>3, <2>5, <2>9 DEF StepsLeft
    <2>12. (i - 1) * (Gateways + 1) = i * (Gateways + 1) - (Gateways + 1)
      BY <1>3
    <2>13. i * (Gateways + 1) \in Int
      BY <1>3
    <2>14. QED BY <1>3, <2>6, <2>1, <2>7, <2>10, <2>11, <2>12, <2>13
  <1>10. ASSUME NEW d \in Callers, Rests(d)
         PROVE  <<Tried, Head(queue)>>' = <<Tried, Head(queue)>> /\ StepsLeft(c)' = StepsLeft(c)
    <2>1. queue[1] # d /\ pc'[queue[1]] = pc[queue[1]] /\ queue' = queue /\ gateway' = gateway
      BY <1>3, <1>10 DEF LineOrdered, Waiting, Rests
    <2>2. Tried' = Tried
      BY <1>3, <2>1 DEF Tried
    <2>3. QED BY <2>1, <2>2 DEF StepsLeft, Place
  <1>11. QED
    BY <1>6, <1>7, <1>8, <1>9, <1>10, LineShapes

\* What a caller waits for: at least its own answer, at most a walk over the
\* gateways for everybody in the queue.
LEMMA WaitBounded ==
  ASSUME CacheInv, LineOrdered, NEW c \in Callers, Waiting(c)
  PROVE  StepsLeft(c) \in 1..(Len(queue) * (Gateways + 1))
  <1> USE LineTypes
  <1>1. PICK i \in 1..Len(queue) : queue[i] = c
    BY DEF LineOrdered
  <1>2. Place(c) = i
    BY <1>1, PlaceIs
  <1>3. Tried \in 0..Gateways
    BY DEF Tried
  <1> DEFINE g == Gateways + 1
             n == Len(queue)
  <1>4. g \in Nat \ {0} /\ n \in Nat /\ i \in 1..n /\ Tried \in Nat /\ Tried < g
    BY <1>1, <1>3
  <1>5. StepsLeft(c) = i * g - Tried
    BY <1>2 DEF StepsLeft
  <1> HIDE DEF g, n
  <1>6. i * g \in Nat /\ n * g \in Nat /\ g <= i * g /\ i * g <= n * g
    BY <1>4
  <1>7. StepsLeft(c) \in 1..(n * g)
    BY <1>4, <1>5, <1>6
  <1>8. QED BY <1>7 DEF g, n

\* First come, first served, for any number of callers and gateways: a caller
\* at the lock is not overtaken, and every step of whoever holds the lock uses
\* up one of the requests before its answer, a number the queue bounds.
THEOREM WaitIsFinite ==
  CacheSpec => /\ [](\A c \in Callers : Waiting(c) => StepsLeft(c) \in 1..(Len(queue) * (Gateways + 1)))
               /\ WaitAdvances
  <1> DEFINE Line == CacheInv /\ LineOrdered
  <1>1. CacheInit => Line
    BY CacheInitInv, LineInit
  <1>2. Line /\ [CacheNext]_cacheVars => Line'
    BY CacheStep, LineStep
  <1>3. Line /\ Line' /\ [CacheNext]_cacheVars =>
          [\A c \in Callers : Waiting(c) /\ Waiting(c)' =>
             IF <<Tried, Head(queue)>>' = <<Tried, Head(queue)>> THEN StepsLeft(c)' = StepsLeft(c)
             ELSE StepsLeft(c)' < StepsLeft(c)]_cacheVars
    BY WaitStep
  <1>4. Line => \A c \in Callers : Waiting(c) => StepsLeft(c) \in 1..(Len(queue) * (Gateways + 1))
    BY WaitBounded
  <1> HIDE DEF Line
  <1>5. QED BY <1>1, <1>2, <1>3, <1>4, PTL DEF CacheSpec, WaitAdvances

-----------------------------------------------------------------------------
(***************************************************************************)
(* The listing.                                                            *)
(***************************************************************************)

\* A step that leaves the listing alone keeps it sound.
LEMMA ListingKept ==
  ASSUME ListingSound, UNCHANGED listing, stage' # "done" \/ stage' = stage,
         stage' \notin {"list", "done", "failed"} => stage \notin {"list", "done", "failed"}
  PROVE  ListingSound'
BY DEF ListingSound, listing, Missed

\* The page is what the positions have after the offset; after the last page
\* there is nothing left.
LEMMA PageRange ==
  ASSUME ListingSound
  PROVE  /\ Len(Page) \in Nat
         /\ ToSet(Page) = {positions[i] : i \in {j \in DOMAIN positions : offset < j /\ j <= offset + Len(Page)}}
         /\ LastPage => \A i \in DOMAIN positions : i <= offset + Len(Page)
<1> DEFINE n == Len(positions)
           end == Min({offset + PageSize, n})
<1>1. /\ positions \in Seq(Nat) /\ DOMAIN positions = 1..n /\ n \in Nat
      /\ offset \in Nat /\ PageSize \in Nat
  BY ScanAssumption DEF ListingSound
<1>2. end = IF offset + PageSize <= n THEN offset + PageSize ELSE n
  BY <1>1, MinOfTwo
<1> HIDE DEF n, end
<1>3. end \in Nat /\ end <= n /\ end <= offset + PageSize
  BY <1>1, <1>2
<1>4. Page = SubSeq(positions, offset + 1, end)
  BY DEF Page, end, n
<1>5. CASE offset + 1 <= end
  <2>1. /\ Len(Page) = end - offset
        /\ DOMAIN Page = 1..(end - offset)
        /\ \A i \in 1..(end - offset) : Page[i] = positions[i + offset]
    BY <1>1, <1>3, <1>4, <1>5 DEF n
  <2>2. ToSet(Page) = {positions[i] : i \in {j \in 1..n : offset < j /\ j <= end}}
    <3>1. \A i \in 1..(end - offset) : i + offset \in 1..n /\ offset < i + offset /\ i + offset <= end
      BY <1>1, <1>3
    <3>2. \A j \in 1..n : offset < j /\ j <= end => j - offset \in 1..(end - offset) /\ (j - offset) + offset = j
      BY <1>1, <1>3
    <3> QED
      BY <2>1, <3>1, <3>2 DEF ToSet
  <2>3. LastPage => end = n
    BY <1>1, <1>2, <2>1 DEF LastPage
  <2>4. end - offset \in Nat /\ offset + (end - offset) = end
    BY <1>1, <1>3, <1>5
  <2>5. \A i \in 1..n : i <= n
    BY <1>1
  <2> QED
    BY <1>1, <2>1, <2>2, <2>3, <2>4, <2>5
<1>6. CASE ~(offset + 1 <= end)
  <2>1. Page = <<>>
    BY <1>1, <1>3, <1>4, <1>6
  <2>2. n <= offset
    <3>1. PageSize # 0
      BY ScanAssumption
    <3> QED
      BY <1>1, <1>2, <1>6, <3>1
  <2> QED
    BY <1>1, <2>1, <2>2 DEF ToSet
<1> QED
  BY <1>5, <1>6

\* A page adds what it passes over, and the last one passes over everything.
LEMMA PageStep ==
  ASSUME ListingSound, ListPage
  PROVE  ListingSound'
<1>1. /\ UNCHANGED <<positions, steady, opens, closes>>
      /\ borrows' = borrows \union ToSet(Page) /\ offset' = offset + Len(Page)
      /\ stage = "list" /\ stage' = IF LastPage THEN "done" ELSE "list"
  BY DEF ListPage
<1>2. offset' \in Nat
  BY <1>1, PageRange DEF ListingSound
<1>3. \A i \in DOMAIN positions : i \in Nat /\ offset \in Nat
  BY DEF ListingSound
<1>4. Missed' \in SUBSET Missed
  BY <1>1, <1>3, PageRange DEF Missed
<1>5. stage' = "done" => steady \ borrows' \in SUBSET Missed
  <2>1. SUFFICES ASSUME stage' = "done", NEW x \in steady \ borrows' PROVE x \in Missed
    OBVIOUS
  <2>2. PICK i \in DOMAIN positions : positions[i] = x
    BY DEF ListingSound, ToSet
  <2>3. i <= offset + Len(Page)
    BY <1>1, <2>1, PageRange
  <2>4. x \notin ToSet(Page) /\ x \notin borrows
    BY <1>1, <2>1
  <2>5. ~(offset < i)
    BY <2>2, <2>3, <2>4, PageRange
  <2> QED
    BY <1>3, <2>1, <2>2, <2>4, <2>5 DEF Missed
<1>6. IsFiniteSet(Missed) /\ Missed \in SUBSET steady
  BY FS_Subset DEF Missed, ListingSound
<1>7. /\ Cardinality(Missed) \in Nat /\ Cardinality(Missed') \in Nat
      /\ Cardinality(Missed') <= Cardinality(Missed)
      /\ stage' = "done" => /\ Cardinality(steady \ borrows') \in Nat
                            /\ Cardinality(steady \ borrows') <= Cardinality(Missed)
  BY <1>4, <1>5, <1>6, FS_Subset, FS_CardinalityType
<1>8. /\ Cardinality(Missed') <= closes
      /\ stage' = "done" => Cardinality(steady \ borrows') <= closes
  BY <1>7 DEF ListingSound
<1> QED
  BY <1>1, <1>2, <1>8 DEF ListingSound

\* A new position goes to the end of the map and was not there before.
LEMMA OpenStep ==
  ASSUME ListingSound, OpenPosition
  PROVE  ListingSound'
<1> DEFINE x == 2 * PageSize + opens + 1
           n == Len(positions)
<1>1. /\ positions' = Append(positions, x) /\ opens' = opens + 1
      /\ UNCHANGED <<stage, offset, borrows, steady, closes>> /\ stage = "list"
  BY DEF OpenPosition
<1>2. x \in Nat /\ n \in Nat /\ DOMAIN positions = 1..n
  BY ScanAssumption DEF ListingSound
<1>3. /\ positions' \in Seq(Nat) /\ DOMAIN positions' = 1..(n + 1)
      /\ positions'[n + 1] = x /\ \A i \in 1..n : positions'[i] = positions[i]
  BY <1>1, <1>2 DEF ListingSound
<1>4. \A i \in 1..n : positions[i] \in Nat /\ positions[i] < x
  <2>1. \A i \in 1..n : positions[i] \in Nat /\ positions[i] <= 2 * PageSize + opens
    BY <1>2 DEF ListingSound
  <2>2. 2 * PageSize + opens \in Nat
    BY ScanAssumption DEF ListingSound
  <2> QED
    BY <2>1, <2>2
<1>5. \A i \in 1..(n + 1) : i \in 1..n \/ i = n + 1
  BY <1>2
<1>6. \A i \in 1..n : i \in 1..(n + 1)
  BY <1>2
<1> HIDE DEF n
<1>7. \A i, j \in DOMAIN positions' : positions'[i] = positions'[j] => i = j
  <2> HIDE DEF x
  <2> QED
    BY <1>2, <1>3, <1>4, <1>5 DEF ListingSound
<1>8. \A i \in DOMAIN positions' : positions'[i] <= 2 * PageSize + opens'
  BY <1>1, <1>2, <1>3, <1>4, <1>5, ScanAssumption DEF ListingSound
<1>9. steady' \subseteq ToSet(positions')
  BY <1>1, <1>2, <1>3, <1>6 DEF ListingSound, ToSet
<1>10. x \notin steady
  BY <1>2, <1>4 DEF ListingSound, ToSet
<1>11. Missed' = Missed
  <2> HIDE DEF x
  <2> QED
    BY <1>1, <1>2, <1>3, <1>5, <1>6, <1>10 DEF Missed
<1> QED
  BY <1>1, <1>3, <1>7, <1>8, <1>9, <1>11 DEF ListingSound

\* A closing, however the map closes the gap, brings at most one position from
\* beyond the offset to below it.
LEMMA CloseStep ==
  ASSUME ListingSound, ClosePosition
  PROVE  ListingSound'
<1> DEFINE n == Len(positions)
<1>1. /\ closes' = closes + 1 /\ stage = "list"
      /\ UNCHANGED <<stage, offset, borrows, opens>>
  BY DEF ClosePosition
<1>2. /\ n \in Nat /\ DOMAIN positions = 1..n /\ positions \in Seq(Nat)
      /\ closes \in Nat /\ offset \in Nat /\ opens \in Nat
      /\ \A i, j \in 1..n : positions[i] = positions[j] => i = j
      /\ \A i \in 1..n : positions[i] \in Nat /\ positions[i] <= 2 * PageSize + opens
      /\ steady \subseteq ToSet(positions) /\ IsFiniteSet(steady)
      /\ Cardinality(Missed) <= closes
  BY DEF ListingSound
<1>3. PICK i \in 1..n :
        /\ positions' \in {RemoveAt(positions, i),
                           SubSeq([positions EXCEPT ![i] = positions[n]], 1, n - 1)}
        /\ steady' = steady \ {positions[i]}
  BY <1>2 DEF ClosePosition
<1> HIDE DEF n
\* where each position left was before
<1>4. PICK from \in [1..(n - 1) -> 1..n] :
        /\ positions' \in Seq(Nat) /\ DOMAIN positions' = 1..(n - 1)
        /\ \A j \in 1..(n - 1) : positions'[j] = positions[from[j]] /\ from[j] # i
        /\ \A k \in 1..n : k # i => \E j \in 1..(n - 1) : from[j] = k
        /\ \A j, k \in 1..(n - 1) : from[j] = from[k] => j = k
        /\ \E k \in 1..n : \A j \in 1..(n - 1) : j <= offset => from[j] <= offset \/ from[j] = k
  <2>1. CASE positions' = RemoveAt(positions, i)
    <3> DEFINE from == [j \in 1..(n - 1) |-> IF j < i THEN j ELSE j + 1]
    <3>1. positions' = SubSeq(positions, 1, i - 1) \o SubSeq(positions, i + 1, n)
      BY <2>1 DEF RemoveAt, n
    <3>2. /\ positions' \in Seq(Nat) /\ DOMAIN positions' = 1..(n - 1)
          /\ \A j \in 1..(n - 1) : positions'[j] = IF j < i THEN positions[j] ELSE positions[j + 1]
      <4> DEFINE A == SubSeq(positions, 1, i - 1)
                 B == SubSeq(positions, i + 1, n)
      <4>1. /\ A \in Seq(Nat) /\ Len(A) = i - 1
            /\ \A j \in 1..(i - 1) : A[j] = positions[j]
        BY <1>2 DEF n
      <4>2. /\ B \in Seq(Nat) /\ Len(B) = n - i
            /\ \A j \in 1..(n - i) : B[j] = positions[i + j]
        <5>1. i + 1 \in Int /\ n \in Int /\ \A j \in (i + 1)..n : positions[j] \in Nat
          BY <1>2
        <5>2. /\ B \in Seq(Nat) /\ Len(B) = IF i + 1 <= n THEN n - (i + 1) + 1 ELSE 0
              /\ \A j \in 1..(n - (i + 1) + 1) : B[j] = positions[(i + 1) + j - 1]
          BY <5>1, SubSeqProperties
        <5>3. n - (i + 1) + 1 = n - i /\ \A j \in 1..(n - i) : (i + 1) + j - 1 = i + j
          BY <1>2
        <5>4. Len(B) = n - i
          BY <1>2, <5>2
        <5> HIDE DEF B
        <5> QED
          BY <5>2, <5>3, <5>4
      <4> HIDE DEF A, B
      <4>3. positions' = A \o B
        BY <3>1 DEF A, B
      <4>4. Len(A) + Len(B) = n - 1
        BY <1>2, <4>1, <4>2
      <4>5. /\ positions' \in Seq(Nat) /\ Len(positions') = n - 1
            /\ DOMAIN positions' = 1..(n - 1)
            /\ \A j \in 1..(n - 1) : positions'[j] = IF j <= Len(A) THEN A[j] ELSE B[j - Len(A)]
        <5>1. /\ A \o B \in Seq(Nat) /\ Len(A \o B) = Len(A) + Len(B)
              /\ \A j \in 1..(Len(A) + Len(B)) : (A \o B)[j] = IF j <= Len(A) THEN A[j] ELSE B[j - Len(A)]
          BY <4>1, <4>2, ConcatProperties
        <5> QED
          BY <4>3, <4>4, <5>1
      <4>6. ASSUME NEW j \in 1..(n - 1), j < i PROVE positions'[j] = positions[j]
        <5>1. j \in 1..(i - 1) /\ j <= Len(A)
          BY <1>2, <4>1, <4>6
        <5> QED
          BY <4>1, <4>5, <5>1
      <4>7. ASSUME NEW j \in 1..(n - 1), ~(j < i) PROVE positions'[j] = positions[j + 1]
        <5>1. j - (i - 1) \in 1..(n - i) /\ i + (j - (i - 1)) = j + 1 /\ ~(j <= Len(A))
          BY <1>2, <4>1, <4>7
        <5> QED
          BY <4>1, <4>2, <4>5, <5>1
      <4> QED
        BY <4>5, <4>6, <4>7
    <3>3. from \in [1..(n - 1) -> 1..n]
      BY <1>2
    <3>4. \A j \in 1..(n - 1) : positions'[j] = positions[from[j]] /\ from[j] # i
      BY <1>2, <3>2
    <3>5. ASSUME NEW k \in 1..n, k # i PROVE \E j \in 1..(n - 1) : from[j] = k
      <4>1. CASE k < i
        <5>1. k \in 1..(n - 1) /\ from[k] = k
          BY <1>2, <4>1
        <5> QED
          BY <5>1
      <4>2. CASE ~(k < i)
        <5>1. k - 1 \in 1..(n - 1) /\ from[k - 1] = k
          BY <1>2, <3>5, <4>2
        <5> QED
          BY <5>1
      <4> QED
        BY <4>1, <4>2
    <3>6. \A j, k \in 1..(n - 1) : from[j] = from[k] => j = k
      BY <1>2
    <3>7. \E k \in 1..n : \A j \in 1..(n - 1) : j <= offset => from[j] <= offset \/ from[j] = k
      <4>1. CASE offset + 1 \in 1..n
        <5>1. \A j \in 1..(n - 1) : j <= offset => from[j] <= offset \/ from[j] = offset + 1
          BY <1>2
        <5> QED
          BY <4>1, <5>1
      <4>2. CASE offset + 1 \notin 1..n
        <5>1. \A j \in 1..(n - 1) : from[j] <= offset
          BY <1>2, <3>3, <4>2
        <5> QED
          BY <5>1
      <4> QED
        BY <4>1, <4>2
    <3> HIDE DEF from
    <3> QED
      BY <3>2, <3>3, <3>4, <3>5, <3>6, <3>7
  <2>2. CASE positions' = SubSeq([positions EXCEPT ![i] = positions[n]], 1, n - 1)
    <3> DEFINE from == [j \in 1..(n - 1) |-> IF j = i THEN n ELSE j]
               moved == [positions EXCEPT ![i] = positions[n]]
    <3>1. /\ moved \in Seq(Nat) /\ Len(moved) = n
          /\ \A j \in 1..n : moved[j] = IF j = i THEN positions[n] ELSE positions[j]
      BY <1>2 DEF n
    <3> HIDE DEF moved
    <3>2. /\ positions' \in Seq(Nat) /\ DOMAIN positions' = 1..(n - 1)
          /\ \A j \in 1..(n - 1) : positions'[j] = moved[j]
      <4>1. positions' = SubSeq(moved, 1, n - 1)
        BY <2>2 DEF moved
      <4> QED
        BY <1>2, <3>1, <4>1
    <3>3. from \in [1..(n - 1) -> 1..n]
      BY <1>2
    <3>4. ASSUME NEW j \in 1..(n - 1)
          PROVE  positions'[j] = positions[from[j]] /\ from[j] # i
      <4>1. j \in 1..n /\ n # j /\ n \in 1..n
        BY <1>2
      <4>2. positions'[j] = IF j = i THEN positions[n] ELSE positions[j]
        BY <3>1, <3>2, <4>1
      <4> QED
        BY <4>1, <4>2
    <3>5. ASSUME NEW k \in 1..n, k # i PROVE \E j \in 1..(n - 1) : from[j] = k
      <4>1. CASE k = n
        <5>1. i \in 1..(n - 1) /\ from[i] = k
          BY <1>2, <3>5, <4>1
        <5> QED
          BY <5>1
      <4>2. CASE k # n
        <5>1. k \in 1..(n - 1) /\ from[k] = k
          BY <1>2, <3>5, <4>2
        <5> QED
          BY <5>1
      <4> QED
        BY <4>1, <4>2
    <3>6. \A j, k \in 1..(n - 1) : from[j] = from[k] => j = k
      BY <1>2
    <3>7. \A j \in 1..(n - 1) : j <= offset => from[j] <= offset \/ from[j] = n
      BY <1>2
    <3>8. n \in 1..n
      BY <1>2, <1>3
    <3> HIDE DEF from
    <3> QED
      BY <3>2, <3>3, <3>4, <3>5, <3>6, <3>7, <3>8
  <2> QED
    BY <1>3, <2>1, <2>2
<1>5. \A j, k \in 1..(n - 1) : positions'[j] = positions'[k] => j = k
  BY <1>2, <1>4
<1>6. \A j \in 1..(n - 1) : positions'[j] <= 2 * PageSize + opens'
  BY <1>1, <1>2, <1>4
<1>7. steady' \subseteq ToSet(positions') /\ IsFiniteSet(steady')
  <2>1. ASSUME NEW x \in steady' PROVE x \in ToSet(positions')
    <3>1. PICK k \in 1..n : x = positions[k] /\ k # i
      BY <1>2, <1>3 DEF ToSet
    <3>2. PICK j \in 1..(n - 1) : from[j] = k
      BY <1>4, <3>1
    <3> QED
      BY <1>4, <3>1, <3>2 DEF ToSet
  <2> QED
    BY <1>2, <1>3, <2>1, FS_Subset
<1>8. Cardinality(Missed') <= closes'
  <2>1. PICK k \in 1..n : \A j \in 1..(n - 1) : j <= offset => from[j] <= offset \/ from[j] = k
    BY <1>4
  <2>2. Missed' \in SUBSET (Missed \union {positions[k]})
    <3>1. SUFFICES ASSUME NEW x \in Missed', x # positions[k] PROVE x \in Missed
      OBVIOUS
    <3>2. PICK j \in 1..(n - 1) : j <= offset /\ positions'[j] = x
      BY <1>1, <1>4, <3>1 DEF Missed
    <3>3. from[j] \in 1..n /\ positions[from[j]] = x /\ from[j] <= offset
      BY <1>4, <2>1, <3>1, <3>2
    <3>4. x \in steady \ borrows
      BY <1>1, <1>3, <3>1 DEF Missed
    <3> QED
      BY <1>2, <3>3, <3>4 DEF Missed
  <2>3. IsFiniteSet(Missed) /\ Cardinality(Missed) \in Nat
    BY <1>2, FS_Subset, FS_CardinalityType DEF Missed
  <2>4. /\ IsFiniteSet(Missed \union {positions[k]})
        /\ Cardinality(Missed \union {positions[k]}) \in Nat
        /\ Cardinality(Missed \union {positions[k]}) <= Cardinality(Missed) + 1
    <3> DEFINE M == Missed
               y == positions[k]
    <3> HIDE DEF M, y
    <3>1. IsFiniteSet(M) /\ Cardinality(M) \in Nat
      BY <2>3 DEF M
    <3>2. /\ IsFiniteSet(M \cup {y})
          /\ Cardinality(M \cup {y}) = IF y \in M THEN Cardinality(M) ELSE Cardinality(M) + 1
      BY <3>1, FS_AddElement
    <3>3. Cardinality(M \cup {y}) \in Nat /\ Cardinality(M \cup {y}) <= Cardinality(M) + 1
      BY <3>1, <3>2
    <3> QED
      BY <3>2, <3>3 DEF M, y
  <2>5. /\ Cardinality(Missed') <= Cardinality(Missed \union {positions[k]})
        /\ Cardinality(Missed') \in Nat
    BY <2>2, <2>4, FS_Subset, FS_CardinalityType
  <2> QED
    BY <1>1, <1>2, <2>3, <2>4, <2>5
<1> QED
  BY <1>1, <1>2, <1>4, <1>5, <1>6, <1>7, <1>8 DEF ListingSound

\* The listing starts with the positions the market has, none of them passed.
LEMMA GateListing ==
  ASSUME ListingSound, Gate
  PROVE  ListingSound'
<1>1. /\ UNCHANGED <<offset, borrows, opens, closes>> /\ stage = "gate"
      /\ offset = 0 /\ borrows = {} /\ opens = 0 /\ closes = 0
      /\ stage' = IF covers_all THEN "list" ELSE "failed"
  BY DEF Gate, ListingSound
<1>2. PICK n \in 0..(2 * PageSize) :
        IF covers_all THEN positions' = [i \in 1..n |-> i] /\ steady' = 1..n
                      ELSE positions' = <<>> /\ steady' = {}
  BY DEF Gate
<1>3. n \in Nat /\ n <= 2 * PageSize
  BY <1>2, ScanAssumption
<1>4. Missed' = {}
  <2>1. DOMAIN positions' \subseteq 1..n
    BY <1>2
  <2>2. \A i \in DOMAIN positions' : ~(i <= offset')
    BY <1>1, <1>3, <2>1
  <2> QED
    BY <2>2 DEF Missed
<1>5. Cardinality(Missed') <= closes'
  BY <1>1, <1>4, FS_EmptySet
<1>6. CASE covers_all
  <2>1. positions' \in Seq(Nat) /\ DOMAIN positions' = 1..n /\ \A i \in 1..n : positions'[i] = i
    BY <1>2, <1>3, <1>6
  <2>2. \A i \in 1..n : i <= 2 * PageSize + opens'
    BY <1>1, <1>3, ScanAssumption
  <2>3. steady' \subseteq ToSet(positions') /\ IsFiniteSet(steady')
    BY <1>2, <1>3, <1>6, <2>1, FS_Interval DEF ToSet
  <2> QED
    BY <1>1, <1>5, <1>6, <2>1, <2>2, <2>3 DEF ListingSound
<1>7. CASE ~covers_all
  <2>1. positions' = <<>> /\ steady' = {} /\ IsFiniteSet({})
    BY <1>2, <1>7, FS_EmptySet
  <2> QED
    BY <1>1, <1>5, <1>7, <2>1 DEF ListingSound, ToSet
<1> QED
  BY <1>6, <1>7

\* Every step keeps the listing sound.
LEMMA ListingStep ==
  ASSUME ListingSound, [Next]_vars
  PROVE  ListingSound'
<1>1. CASE EndScan
  <2>1. Missed' = {} /\ IsFiniteSet({}) /\ Cardinality({}) = 0
    BY <1>1, FS_EmptySet DEF EndScan, Missed
  <2> QED
    BY <1>1, <2>1 DEF EndScan, ListingSound, ToSet
<1>2. CASE ListPage \/ OpenPosition \/ ClosePosition \/ Gate
  BY <1>2, PageStep, OpenStep, CloseStep, GateListing
<1>3. CASE Begin \/ ProbeFails \/ ListFails
  BY <1>3, ListingKept DEF Begin, ProbeFails, ListFails
<1>4. CASE RedStoneSkipped \/ RedStoneAsks \/ RedStoneClient \/ RedStonePrices
  BY <1>4, ListingKept DEF RedStoneSkipped, RedStoneAsks, RedStoneClient, RedStonePrices
<1>5. CASE LazerSkipped \/ LazerBatch \/ LazerSplit \/ LazerDown
  BY <1>5, ListingKept DEF LazerSkipped, LazerBatch, LazerSplit, LazerDown, Compose,
     SplitNext, SplitRejected
<1>6. CASE price_one_candidate
  BY <1>6, ListingKept DEF price_one_candidate, NextFeed, NextCandidate
<1>7. CASE Clock \/ RateMoves \/ UNCHANGED vars
  BY <1>7, ListingKept DEF Clock, RateMoves, vars
<1> QED
  BY <1>1, <1>2, <1>3, <1>4, <1>5, <1>6, <1>7 DEF Next

-----------------------------------------------------------------------------
(***************************************************************************)
(* The stages of a scan, its plans, and the client it calls.               *)
(***************************************************************************)

\* The scan is a caller.
LEMMA ScanCalls == Scan \in Callers
BY ScanAssumption DEF Scan

\* The sources planned for a feed are sources of its configuration.
LEMMA PlanSources ==
  ASSUME NEW id \in ToSet(PriceIds)
  PROVE  plan_offchain_sources(Sources[id]) \in Seq(Source)
<1> DEFINE I == {i \in DOMAIN Sources[id] : Sources[id][i].leg \in legs}
<1>1. Sources[id] \in Seq(Source) /\ I \in SUBSET DOMAIN Sources[id]
  BY ScanAssumption
<1>2. Picked(Sources[id], I) \in Seq(Source)
  <2> HIDE DEF I
  <2> QED
    BY <1>1, PickedPositions
<1> QED
  BY <1>2 DEF plan_offchain_sources

\* Every plan is of a feed of the pair, with the sources planned for it.
LEMMA PlansResolved ==
  ASSUME NEW readable
  PROVE  /\ resolve_offchain_plans(readable) \in Seq(Plan)
         /\ \A k \in DOMAIN resolve_offchain_plans(readable) :
              LET plan == resolve_offchain_plans(readable)[k]
              IN  plan.candidates = plan_offchain_sources(Sources[plan.id])
<1> DEFINE all == [i \in DOMAIN PriceIds |->
                     [id |-> PriceIds[i], candidates |-> plan_offchain_sources(Sources[PriceIds[i]])]]
           I == {i \in DOMAIN all : all[i].id \in readable /\ all[i].candidates # <<>>}
           S == [id : ToSet(PriceIds), candidates : Seq(Source)]
           r == Picked(all, I)
<1>1. \A i \in DOMAIN PriceIds : PriceIds[i] \in ToSet(PriceIds)
  BY ScanAssumption DEF ToSet
<1>2. \A i \in DOMAIN PriceIds : plan_offchain_sources(Sources[PriceIds[i]]) \in Seq(Source)
  BY <1>1, PlanSources
<1>3. \A i \in DOMAIN PriceIds : all[i] \in S
  BY <1>1, <1>2
<1>4. all \in Seq(S)
  <2>1. DOMAIN PriceIds = 1..Len(PriceIds) /\ Len(PriceIds) \in Nat
    BY ScanAssumption
  <2>2. all \in [1..Len(PriceIds) -> S]
    BY <1>3, <2>1
  <2> HIDE DEF all, S
  <2> QED
    BY <2>1, <2>2
<1>5. \A i \in I : /\ all[i] \in Plan
                   /\ all[i].candidates = plan_offchain_sources(Sources[all[i].id])
  BY <1>1, <1>2 DEF Plan
<1>6. I \in SUBSET DOMAIN all
  OBVIOUS
<1> HIDE DEF all, I, S
<1>7. /\ r \in Seq(S)
      /\ \A k \in DOMAIN r : Position(I, k) \in I /\ r[k] = all[Position(I, k)]
  BY <1>4, <1>6, PickedPositions
<1>8. r = resolve_offchain_plans(readable)
  BY DEF resolve_offchain_plans, all, I
<1>9. \A k \in DOMAIN r : r[k] \in Plan /\ r[k].candidates = plan_offchain_sources(Sources[r[k].id])
  BY <1>5, <1>7
<1>10. r \in Seq(Plan)
  <2> HIDE DEF r
  <2> QED
    BY <1>7, <1>9
<1> HIDE DEF r
<1> QED
  BY <1>8, <1>9, <1>10

\* What a backend is asked for are feeds it knows; the Pyth Pro API is asked for
\* what the feeds were tried with.
LEMMA WantedFeeds ==
  ASSUME PlansConsistent
  PROVE  /\ wanted_of("redstone", plans) \subseteq Symbols
         /\ Wanted \subseteq LazerFeeds
         /\ DOMAIN tried = Planned => wanted_of("lazer", plans) = Wanted
<1>1. \A i \in DOMAIN plans : \A s \in ToSet(plans[i].candidates) : s \in Source
  <2>1. \A i \in DOMAIN plans : plans[i] \in Plan
    BY DEF PlansConsistent
  <2>2. \A i \in DOMAIN plans : plans[i].candidates \in Seq(Source)
    BY <2>1 DEF Plan
  <2> QED
    BY <2>2 DEF ToSet
<1>2. wanted_of("redstone", plans) \subseteq Symbols
  BY <1>1, ScanAssumption DEF wanted_of
<1>3. \A id \in DOMAIN tried : \A s \in ToSet(tried[id]) : s \in Source
  BY DEF PlansConsistent, ToSet
<1>4. Wanted \subseteq LazerFeeds
  BY <1>3, ScanAssumption DEF Wanted
<1>5. ASSUME DOMAIN tried = Planned PROVE wanted_of("lazer", plans) = Wanted
  <2>1. \A i \in DOMAIN plans : plans[i].id \in DOMAIN tried /\ plans[i].candidates = tried[plans[i].id]
    BY DEF PlansConsistent
  <2>2. \A id \in DOMAIN tried : \E i \in DOMAIN plans : plans[i].candidates = tried[id]
    BY <1>5, <2>1 DEF Planned
  <2>3. UNION {ToSet(plans[i].candidates) : i \in DOMAIN plans} = UNION {ToSet(tried[id]) : id \in DOMAIN tried}
    BY <2>1, <2>2
  <2> QED
    BY <2>3 DEF wanted_of, Wanted
<1> QED
  BY <1>2, <1>4, <1>5

\* To the client a step of the scan is a step of a caller, of itself or of the
\* clock.
LEMMA ScanCache ==
  ASSUME ScanInv, [Next]_vars
  PROVE  [CacheNext]_cacheVars /\ CacheInv'
<1>1. [CacheNext]_cacheVars
  <2>1. CASE RedStoneAsks
    <3>1. wanted_of("redstone", plans) \in SUBSET Symbols
      BY WantedFeeds DEF ScanInv
    <3> QED
      BY <2>1, <3>1, ScanCalls DEF RedStoneAsks, CacheNext
  <2>2. CASE RedStoneClient \/ RedStonePrices \/ Clock
    BY <2>2, ScanCalls DEF RedStoneClient, RedStonePrices, Clock, CacheNext
  <2>3. CASE UNCHANGED cacheVars
    BY <2>3
  <2> QED
    BY <2>1, <2>2, <2>3 DEF Next, vars, Begin, ProbeFails, RedStoneSkipped, LazerSkipped, LazerBatch,
       LazerSplit, LazerDown, price_one_candidate, Gate, ListPage, ListFails, OpenPosition,
       ClosePosition, EndScan, RateMoves
<1> QED
  BY <1>1, CacheStep DEF ScanInv

\* The plans a feed further on.
LEMMA PlansTail ==
  ASSUME PlansConsistent, plans # <<>>
  PROVE  /\ plans[1] \in Plan /\ Head(plans) = plans[1] /\ 1 \in DOMAIN plans
         /\ Tail(plans) \in Seq(Plan)
         /\ \A i \in DOMAIN Tail(plans) : i + 1 \in DOMAIN plans /\ Tail(plans)[i] = plans[i + 1]
         /\ \A i \in DOMAIN plans : i # 1 => i - 1 \in DOMAIN Tail(plans) /\ Tail(plans)[i - 1] = plans[i]
         /\ Len(plans) = 1 <=> Tail(plans) = <<>>
<1>1. /\ plans \in Seq(Plan) /\ Len(plans) \in Nat /\ Len(plans) # 0
      /\ DOMAIN plans = 1..Len(plans)
  BY DEF PlansConsistent
<1>2. /\ Tail(plans) \in Seq(Plan) /\ Len(Tail(plans)) = Len(plans) - 1
      /\ DOMAIN Tail(plans) = 1..(Len(plans) - 1)
      /\ \A i \in 1..(Len(plans) - 1) : Tail(plans)[i] = plans[i + 1]
  BY <1>1
<1>3. \A i \in 1..(Len(plans) - 1) : i + 1 \in 1..Len(plans)
  BY <1>1
<1>4. \A i \in 1..Len(plans) : i # 1 => i - 1 \in 1..(Len(plans) - 1) /\ (i - 1) + 1 = i
  BY <1>1
<1>5. Len(plans) = 1 <=> Tail(plans) = <<>>
  <2> DEFINE t == Tail(plans)
  <2>1. t \in Seq(Plan) /\ Len(t) = Len(plans) - 1
    BY <1>2
  <2> HIDE DEF t
  <2>2. t = <<>> <=> Len(t) = 0
    BY <2>1, EmptySeq
  <2>3. Len(plans) = 1 <=> t = <<>>
    BY <1>1, <2>1, <2>2
  <2> QED
    BY <2>3 DEF t
<1>6. plans[1] \in Plan /\ Head(plans) = plans[1] /\ 1 \in DOMAIN plans
  BY <1>1
<1>7. \A i \in DOMAIN Tail(plans) : i + 1 \in DOMAIN plans /\ Tail(plans)[i] = plans[i + 1]
  BY <1>1, <1>2, <1>3
<1>8. \A i \in DOMAIN plans : i # 1 => i - 1 \in DOMAIN Tail(plans) /\ Tail(plans)[i - 1] = plans[i]
  BY <1>1, <1>2, <1>4
<1> QED
  BY <1>2, <1>5, <1>6, <1>7, <1>8

\* A step that leaves the plans alone keeps them consistent.
LEMMA PlansKept ==
  ASSUME PlansConsistent, UNCHANGED <<plans, tried>>,
         stage' \in {"redstone", "lazer", "split"} => stage \in {"redstone", "lazer", "split"}
  PROVE  PlansConsistent'
BY DEF PlansConsistent, Planned

\* Every step keeps the plans consistent.
LEMMA PlansStep ==
  ASSUME StageConsistent, PlansConsistent, [Next]_vars
  PROVE  PlansConsistent'
<1>1. CASE Begin
  <2>1. PICK readable \in SUBSET ToSet(PriceIds) :
          /\ plans' = resolve_offchain_plans(readable)
          /\ tried' = [id \in {resolve_offchain_plans(readable)[i].id : i \in DOMAIN resolve_offchain_plans(readable)}
                         |-> plan_offchain_sources(Sources[id])]
    BY <1>1 DEF Begin
  <2>2. /\ plans' \in Seq(Plan)
        /\ \A k \in DOMAIN plans' : plans'[k].candidates = plan_offchain_sources(Sources[plans'[k].id])
    BY <2>1, PlansResolved
  <2>3. tried' = [id \in Planned' |-> plan_offchain_sources(Sources[id])]
    BY <2>1 DEF Planned
  <2>4. \A id \in Planned' : id \in ToSet(PriceIds)
    <3>1. \A k \in DOMAIN plans' : plans'[k] \in Plan
      BY <2>2
    <3>2. \A k \in DOMAIN plans' : plans'[k].id \in ToSet(PriceIds)
      BY <3>1 DEF Plan
    <3> QED
      BY <3>2 DEF Planned
  <2>5. \A id \in DOMAIN tried' : tried'[id] \in Seq(Source)
    BY <2>3, <2>4, PlanSources
  <2>6. \A k \in DOMAIN plans' : plans'[k].id \in Planned'
    BY DEF Planned
  <2> QED
    BY <2>2, <2>3, <2>5, <2>6 DEF PlansConsistent
<1>2. CASE price_one_candidate
  <2>1. /\ tried' = tried /\ stage = "compose" /\ stage' \in {"compose", "gate"}
        /\ plans' = plans \/ plans' = Tail(plans)
    BY <1>2 DEF price_one_candidate, NextFeed, NextCandidate
  <2>2. CASE plans' = plans
    BY <2>1, <2>2, PlansKept
  <2>3. CASE plans' = Tail(plans)
    <3>1. plans # <<>>
      BY <2>1 DEF StageConsistent
    <3> QED
      BY <2>1, <2>3, <3>1, PlansTail DEF PlansConsistent
  <2> QED
    BY <2>1, <2>2, <2>3
<1>3. CASE Gate
  <2>1. plans' = <<>> /\ tried' = None /\ stage' \in {"list", "failed"}
    BY <1>3 DEF Gate
  <2> QED
    BY <2>1 DEF PlansConsistent, None
<1>4. CASE ProbeFails \/ ListFails \/ ListPage \/ OpenPosition \/ ClosePosition \/ EndScan
  BY <1>4, PlansKept DEF ProbeFails, ListFails, ListPage, OpenPosition, ClosePosition, EndScan, pricing
<1>5. CASE RedStoneSkipped \/ RedStoneAsks \/ RedStoneClient \/ RedStonePrices
  BY <1>5, PlansKept DEF RedStoneSkipped, RedStoneAsks, RedStoneClient, RedStonePrices, pricing
<1>6. CASE LazerSkipped \/ LazerBatch \/ LazerSplit \/ LazerDown
  BY <1>6, PlansKept DEF LazerSkipped, LazerBatch, LazerSplit, LazerDown, Compose, SplitNext, SplitRejected
<1>7. CASE Clock \/ RateMoves \/ UNCHANGED vars
  BY <1>7, PlansKept DEF Clock, RateMoves, vars, pricing
<1> QED
  BY <1>1, <1>2, <1>3, <1>4, <1>5, <1>6, <1>7 DEF Next

\* Every step keeps the stages consistent.
LEMMA StageStep ==
  ASSUME StageConsistent, PlansConsistent, CacheInv, [Next]_vars
  PROVE  StageConsistent'
<1> USE DEF StageConsistent
<1>0. pc \in [Callers -> {"idle", "locking", "fetching", "answered"}] /\ Scan \in Callers
  BY ScanCalls DEF CacheInv, CacheTypeOK
<1>00. stage \in {"redstone", "lazer", "split", "compose"} =>
         /\ plans # <<>> /\ plans[1].candidates \in Seq(Source) /\ plans[1].candidates # <<>>
         /\ Len(plans[1].candidates) \in Nat /\ 1 \in 1..Len(plans[1].candidates)
  BY PlansTail DEF Plan
<1>1. CASE Begin
  <2>1. PICK readable \in SUBSET ToSet(PriceIds) :
          /\ plans' = resolve_offchain_plans(readable)
          /\ stage' = IF resolve_offchain_plans(readable) = <<>> THEN "gate" ELSE "redstone"
    BY <1>1 DEF Begin
  <2>2. stage = "idle" /\ UNCHANGED <<pc, response, transformer_inputs, redstone, lazer>>
    BY <1>1 DEF Begin, cacheVars
  <2> QED
    BY <2>1, <2>2
<1>2. CASE ProbeFails
  BY <1>2 DEF ProbeFails, pricing, cacheVars
<1>3. CASE RedStoneSkipped
  BY <1>3 DEF RedStoneSkipped, pricing, cacheVars
<1>4. CASE RedStoneAsks
  BY <1>4 DEF RedStoneAsks, pricing
<1>5. CASE RedStoneClient
  <2>1. pc[Scan] # "idle"
    BY <1>5 DEF RedStoneClient, Client, ServeSnapshot, ReplayFailure, StartFetch, GatewayAnswers,
       GatewayFails, EveryGatewayFailed
  <2> QED
    BY <1>5, <2>1 DEF RedStoneClient, pricing
<1>6. CASE RedStonePrices
  <2>1. pc'[Scan] = "idle"
    BY <1>0, <1>6 DEF RedStonePrices, Take
  <2> QED
    BY <1>6, <2>1 DEF RedStonePrices
<1>7. CASE LazerSkipped
  BY <1>00, <1>7 DEF LazerSkipped, Compose, cacheVars
<1>8. CASE LazerBatch
  BY <1>00, <1>8 DEF LazerBatch, Compose, cacheVars
<1>9. CASE LazerSplit
  BY <1>00, <1>9 DEF LazerSplit, SplitRejected, SplitNext, Compose, cacheVars
<1>10. CASE LazerDown
  BY <1>00, <1>10 DEF LazerDown, Compose, cacheVars
<1>11. CASE price_one_candidate
  <2>1. /\ stage = "compose" /\ UNCHANGED <<pc, redstone, lazer, tried>>
        /\ \/ NextFeed
           \/ candidate < Len(Head(plans).candidates) /\ candidate' = candidate + 1 /\ UNCHANGED <<plans, stage>>
    BY <1>11 DEF price_one_candidate, NextCandidate, cacheVars
  <2>2. plans # <<>>
    BY <2>1
  <2>3. CASE NextFeed
    <3>1. CASE Len(plans) = 1
      BY <2>1, <2>2, <2>3, <3>1, PlansTail DEF NextFeed
    <3>2. CASE Len(plans) # 1
      <4>1. plans' # <<>> /\ plans' \in Seq(Plan) /\ candidate' = 1 /\ stage' = "compose"
        BY <2>2, <2>3, <3>2, PlansTail DEF NextFeed
      <4>2. plans'[1] \in Plan
        BY <4>1
      <4>3. 1 \in 1..Len(plans'[1].candidates)
        BY <4>2 DEF Plan
      <4> QED
        BY <2>1, <4>1, <4>3
    <3> QED
      BY <3>1, <3>2
  <2>4. CASE candidate < Len(Head(plans).candidates) /\ candidate' = candidate + 1 /\ UNCHANGED <<plans, stage>>
    BY <1>00, <2>1, <2>2, <2>4, PlansTail
  <2> QED
    BY <2>1, <2>3, <2>4
<1>12. CASE Gate
  BY <1>12 DEF Gate, cacheVars
<1>13. CASE ListPage \/ ListFails \/ OpenPosition \/ ClosePosition \/ EndScan
  BY <1>13 DEF ListPage, ListFails, OpenPosition, ClosePosition, EndScan, pricing, cacheVars
<1>14. CASE Clock
  BY <1>14 DEF Clock, Tick, pricing
<1>15. CASE RateMoves
  BY <1>15 DEF RateMoves, cacheVars
<1>16. CASE UNCHANGED vars
  BY <1>16 DEF vars, pricing, cacheVars
<1> QED
  BY <1>1, <1>2, <1>3, <1>4, <1>5, <1>6, <1>7, <1>8, <1>9, <1>10, <1>11, <1>12, <1>13, <1>14, <1>15, <1>16
     DEF Next

-----------------------------------------------------------------------------
(***************************************************************************)
(* The prices of the backends.                                             *)
(***************************************************************************)

\* The clock of the scan never goes back.
LEMMA ClockMoves ==
  ASSUME ScanInv, [Next]_vars
  PROVE  now \in Nat /\ now' \in Nat /\ now <= now'
<1>1. now \in Nat /\ now' \in Nat
  BY ScanCache, GatewayAssumption DEF ScanInv, CacheInv, CacheTypeOK
<1>2. now' = now \/ now' = now + 1
  BY ScanCache DEF cacheVars, CacheNext, Tick, packages, Client, ServeSnapshot, ReplayFailure, StartFetch,
     GatewayAnswers, GatewayFails, EveryGatewayFailed, Take
<1> QED
  BY <1>1, <1>2

\* The packages a price is made of: finitely many, of integer values and ages.
LEMMA UsedPackages ==
  ASSUME NEW list \in PackageLists
  PROVE  /\ IsFiniteSet(packages_by_signer(list))
         /\ packages_by_signer(list) \subseteq DOMAIN list
         /\ DOMAIN list \subseteq Nat
         /\ \A i \in DOMAIN list : list[i].value \in Int /\ list[i].age \in Int
<1>1. list \in Seq(ToSet(list)) /\ \A p \in ToSet(list) : p.value \in Int /\ p.age \in Int
  BY ScanAssumption
<1>2. DOMAIN list = 1..Len(list) /\ Len(list) \in Nat
  BY <1>1
<1>3. IsFiniteSet(DOMAIN list)
  BY <1>2, FS_Interval
<1>4. packages_by_signer(list) \subseteq DOMAIN list
  BY DEF packages_by_signer
<1>5. IsFiniteSet(packages_by_signer(list))
  BY <1>3, <1>4, FS_Subset
<1>6. \A i \in DOMAIN list : list[i] \in ToSet(list)
  BY DEF ToSet
<1> QED
  BY <1>1, <1>2, <1>4, <1>5, <1>6

\* A price made of packages has a publish time.
LEMMA StampType ==
  ASSUME NEW list \in PackageLists, NEW fetched_at \in Int
  PROVE  scan_price(list, fetched_at).stamp \in Int
<1> DEFINE used == packages_by_signer(list)
           ages == [i \in DOMAIN list |-> list[i].age]
           n == Cardinality(used)
           k == n - ((n - 1) \div 2)
<1>1. /\ IsFiniteSet(used) /\ \A i \in used : ages[i] \in Int
  BY UsedPackages
<1>2. CASE used = {}
  BY <1>2 DEF scan_price
<1>3. CASE used # {}
  <2>1. n \in Nat /\ n # 0
    BY <1>1, <1>3, FS_CardinalityType, FS_EmptySet
  <2>2. k \in 1..n
    <3> HIDE DEF n
    <3> QED
      BY <2>1
  <2> HIDE DEF used, ages, k
  <2>3. KthSmallest(ages, used, k) \in {ages[i] : i \in used}
    BY <1>1, <2>2, KthSmallestExists
  <2>4. lower_median_age(ages, used) \in Int
    BY <1>1, <2>3 DEF lower_median_age, k
  <2>5. scan_price(list, fetched_at).stamp = fetched_at - lower_median_age(ages, used)
    BY <1>3 DEF scan_price, used, ages
  <2> QED
    BY <2>4, <2>5
<1> QED
  BY <1>2, <1>3

\* What scan_prices prices: a symbol of the snapshot, with its price, fresh now.
LEMMA ScanPrices ==
  ASSUME NEW snapshot \in Snapshot, NEW symbols, now \in Nat
  PROVE  \A s \in DOMAIN scan_prices(snapshot, symbols) :
           LET price == scan_prices(snapshot, symbols)[s]
           IN  /\ s \in DOMAIN snapshot.packages
               /\ snapshot.packages[s] \in PackageLists
               /\ price = scan_price(snapshot.packages[s], snapshot.fetched_at)
               /\ price.value >= 1
               /\ NotAhead(price.stamp)
<1>1. TAKE s \in DOMAIN scan_prices(snapshot, symbols)
<1> DEFINE price == scan_price(snapshot.packages[s], snapshot.fetched_at)
<1>2. /\ s \in DOMAIN snapshot.packages
      /\ scan_prices(snapshot, symbols)[s] = price
      /\ price.value >= 1 /\ publish_time_is_fresh(price.stamp, now)
  BY DEF scan_prices
<1>3. snapshot.packages \in PackageMaps(Symbols) /\ snapshot.fetched_at \in Int
  BY GatewayAssumption DEF Snapshot
<1>4. snapshot.packages[s] \in PackageLists
  BY <1>2, <1>3 DEF PackageMaps
<1>5. price.stamp \in Int
  BY <1>3, <1>4, StampType
<1> HIDE DEF price
<1>6. NotAhead(price.stamp)
  BY <1>2, <1>5 DEF NotAhead, publish_time_is_fresh
<1> QED
  BY <1>2, <1>4, <1>6 DEF price

\* What the API answers is not ahead of the clock.
LEMMA ParsedPrices ==
  ASSUME NEW feeds, feeds \subseteq LazerFeeds, now \in Nat, NEW c, Carried(feeds, c),
         \A f \in LazerFeeds : \A ch \in DOMAIN quotes[f] : quotes[f][ch].stamp \in Int
  PROVE  /\ DOMAIN parsed(feeds, c) \subseteq feeds
         /\ \A f \in DOMAIN parsed(feeds, c) : NotAhead(parsed(feeds, c)[f])
<1>1. \A f \in feeds : publish_time(f, c) \in Int
  BY DEF publish_time, Quote, Carried
<1>2. \A f \in feeds : publish_time_is_fresh(publish_time(f, c), now) => NotAhead(publish_time(f, c))
  BY <1>1 DEF publish_time_is_fresh, NotAhead
<1> QED
  BY <1>2 DEF parsed

\* A feed that can be priced can be on the first channel that carries it.
LEMMA FirstCarrier ==
  ASSUME NEW c \in DOMAIN Channels, NEW f, Carried({f}, c),
         \A b \in 1..(c - 1) : Channels[b] \notin DOMAIN quotes[f], Priceable(f)
  PROVE  /\ Quote(f, c).point \notin {"malformed", "mistyped"}
         /\ publish_time_is_fresh(publish_time(f, c), now)
<1>1. PICK d \in DOMAIN Channels :
        /\ Channels[d] \in DOMAIN quotes[f]
        /\ \A b \in 1..(d - 1) : Channels[b] \notin DOMAIN quotes[f]
        /\ Quote(f, d).point \notin {"malformed", "mistyped"} /\ ~Quote(f, d).ahead
        /\ publish_time_is_fresh(publish_time(f, d), now)
  BY DEF Priceable
<1>2. DOMAIN Channels = {1, 2}
  BY DEF Channels
<1>3. d = c
  <2>1. Channels[c] \in DOMAIN quotes[f]
    BY DEF Carried
  <2>2. \A i, j \in {1, 2} : i # j => i \in 1..(j - 1) \/ j \in 1..(i - 1)
    OBVIOUS
  <2> QED
    BY <1>1, <1>2, <2>1, <2>2
<1> QED
  BY <1>1, <1>3

\* A readable answer of that channel prices it.
LEMMA PriceableParsed ==
  ASSUME NEW feeds, NEW c \in DOMAIN Channels, Carried(feeds, c), Readable(feeds, c),
         NEW f \in feeds, \A b \in 1..(c - 1) : Channels[b] \notin DOMAIN quotes[f], Priceable(f)
  PROVE  f \in DOMAIN parsed(feeds, c)
<1>1. Carried({f}, c)
  BY DEF Carried
<1> QED
  BY <1>1, FirstCarrier DEF parsed

\* Prices stay behind the clock as it moves on.
LEMMA PricesKept ==
  ASSUME PricesSound, now \in Nat, now' \in Nat, now <= now',
         redstone' = redstone \/ redstone' = None,
         lazer' = lazer \/ lazer' = None,
         stage' \in {"redstone", "lazer", "split", "compose"} =>
           quotes' = quotes /\ stage \in {"redstone", "lazer", "split", "compose"}
  PROVE  PricesSound'
<1>1. Skew \in Nat
  BY ScanAssumption
<1>2. ASSUME NEW x, NotAhead(x) PROVE x \in Int /\ now' - x >= -Skew
  <2>1. x \in Int /\ now - x >= -Skew
    BY <1>2 DEF NotAhead
  <2>2. \A a, b, k \in Nat, y \in Int : a <= b /\ a - y >= -k => b - y >= -k
    OBVIOUS
  <2>3. now \in Nat /\ now' \in Nat /\ now <= now'
    OBVIOUS
  <2> QED
    BY <1>1, <2>1, <2>2, <2>3
<1>3. DOMAIN None = {}
  BY DEF None
<1>4. \A s \in DOMAIN redstone' : redstone'[s].stamp \in Int /\ now' - redstone'[s].stamp >= -Skew
  <2>1. TAKE s \in DOMAIN redstone'
  <2>2. s \in DOMAIN redstone /\ redstone'[s] = redstone[s]
    BY <1>3
  <2> QED
    BY <1>2, <2>2 DEF PricesSound
<1>5. \A f \in DOMAIN lazer' : lazer'[f] \in Int /\ now' - lazer'[f] >= -Skew
  <2>1. TAKE f \in DOMAIN lazer'
  <2>2. f \in DOMAIN lazer /\ lazer'[f] = lazer[f]
    BY <1>3
  <2> QED
    BY <1>2, <2>2 DEF PricesSound
<1>6. ASSUME stage' \in {"redstone", "lazer", "split", "compose"}, NEW f \in LazerFeeds
      PROVE  \A ch \in DOMAIN quotes'[f] :
               /\ quotes'[f][ch].stamp \in Int
               /\ quotes'[f][ch].point # "untimed" /\ ~quotes'[f][ch].ahead
                    => now' - quotes'[f][ch].stamp >= -Skew
  <2>0. quotes' = quotes
    BY <1>6
  <2> SUFFICES ASSUME NEW ch \in DOMAIN quotes[f]
               PROVE  /\ quotes[f][ch].stamp \in Int
                      /\ quotes[f][ch].point # "untimed" /\ ~quotes[f][ch].ahead
                           => now' - quotes[f][ch].stamp >= -Skew
    BY <2>0
  <2>1. /\ quotes[f][ch].stamp \in Int
        /\ quotes[f][ch].point # "untimed" /\ ~quotes[f][ch].ahead => NotAhead(quotes[f][ch].stamp)
    BY <1>6 DEF PricesSound
  <2> QED
    BY <1>2, <2>1
<1> QED
  BY <1>4, <1>5, <1>6 DEF PricesSound, NotAhead

\* Every step keeps the prices behind the clock.
LEMMA PricesStep ==
  ASSUME ScanInv, [Next]_vars
  PROVE  PricesSound'
<1> USE DEF StageConsistent
<1>0. /\ now \in Nat /\ now' \in Nat /\ now <= now'
      /\ PricesSound /\ StageConsistent /\ PlansConsistent /\ CacheInv
  BY ClockMoves DEF ScanInv
<1>00. Skew \in Nat /\ DOMAIN None = {}
  BY ScanAssumption DEF None
<1>1. CASE Begin
  <2>1. /\ now' = now /\ redstone' = None /\ lazer' = None
    BY <1>0, <1>1 DEF Begin, cacheVars
  <2>2. PICK drawn \in [LazerFeeds -> Quotes] :
          quotes' = [f \in LazerFeeds |-> [ch \in DOMAIN drawn[f] |->
                       [point |-> drawn[f][ch].point, stamp |-> now - drawn[f][ch].age,
                        ahead |-> drawn[f][ch].point # "untimed" /\ drawn[f][ch].age < -Skew]]]
    BY <1>1 DEF Begin
  <2>3. ASSUME NEW f \in LazerFeeds, NEW ch \in DOMAIN quotes'[f]
        PROVE  /\ quotes'[f][ch].stamp \in Int
               /\ quotes'[f][ch].point # "untimed" /\ ~quotes'[f][ch].ahead
                    => now - quotes'[f][ch].stamp >= -Skew
    <3>1. drawn[f] \in Quotes /\ ch \in DOMAIN drawn[f]
      BY <2>2, <2>3
    <3>2. drawn[f][ch].age \in Int
      BY <3>1, ScanAssumption
    <3>3. /\ quotes'[f][ch].stamp = now - drawn[f][ch].age
          /\ quotes'[f][ch].point # "untimed" /\ ~quotes'[f][ch].ahead => ~(drawn[f][ch].age < -Skew)
      BY <2>2, <3>1
    <3> QED
      BY <1>0, <1>00, <3>2, <3>3
  <2> QED
    BY <1>00, <2>1, <2>3 DEF PricesSound, NotAhead
<1>2. CASE RedStonePrices
  <2>1. /\ now' = now /\ lazer' = lazer /\ quotes' = quotes /\ stage = "redstone"
        /\ redstone' = IF answer[Scan].from = {} THEN None
                       ELSE scan_prices(CHOOSE s \in answer[Scan].from : TRUE, wanted_of("redstone", plans))
    BY <1>2 DEF RedStonePrices, Take
  <2>2. answer[Scan].from \subseteq Snapshot
    BY <1>0, ScanCalls DEF CacheInv, CacheTypeOK
  <2>3. \A s \in DOMAIN redstone' : NotAhead(redstone'[s].stamp)
    <3>1. CASE answer[Scan].from = {}
      BY <1>00, <2>1, <3>1
    <3>2. CASE answer[Scan].from # {}
      <4> DEFINE snap == CHOOSE s \in answer[Scan].from : TRUE
      <4>1. snap \in Snapshot
        BY <2>2, <3>2
      <4>2. redstone' = scan_prices(snap, wanted_of("redstone", plans))
        BY <2>1, <3>2
      <4> HIDE DEF snap
      <4> QED
        BY <1>0, <4>1, <4>2, ScanPrices
    <3> QED
      BY <3>1, <3>2
  <2> QED
    BY <1>0, <2>1, <2>3 DEF PricesSound, NotAhead
<1>3. CASE LazerBatch
  <2>1. /\ now' = now /\ redstone' = redstone /\ quotes' = quotes /\ stage = "lazer"
        /\ \/ lazer' = lazer
           \/ Carried(wanted_of("lazer", plans), 1) /\ lazer' = parsed(wanted_of("lazer", plans), 1)
    BY <1>3 DEF LazerBatch, cacheVars
  <2>2. wanted_of("lazer", plans) \subseteq LazerFeeds
    BY <1>0, <2>1, WantedFeeds DEF PlansConsistent
  <2>3. \A f \in LazerFeeds : \A ch \in DOMAIN quotes[f] : quotes[f][ch].stamp \in Int
    BY <1>0, <2>1 DEF PricesSound, NotAhead
  <2>4. \A f \in DOMAIN lazer' : NotAhead(lazer'[f])
    BY <1>0, <2>1, <2>2, <2>3, ParsedPrices DEF PricesSound
  <2> QED
    BY <1>0, <2>1, <2>4 DEF PricesSound, NotAhead
<1>4. CASE LazerSplit
  <2> DEFINE f == Head(unsplit)
             p == parsed({f}, channel)
  <2>1. /\ now' = now /\ redstone' = redstone /\ quotes' = quotes /\ stage = "split"
        /\ \/ lazer' = lazer
           \/ Carried({f}, channel) /\ f \in DOMAIN p /\ lazer' = Updated(lazer, f, p[f])
    <3>1. LazerSplit
      BY <1>4
    <3>2. /\ now' = now /\ redstone' = redstone /\ quotes' = quotes /\ stage = "split"
      BY <3>1 DEF LazerSplit, cacheVars
    <3> HIDE DEF p
    <3>3. \/ lazer' = lazer
          \/ Carried({f}, channel) /\ f \in DOMAIN p /\ lazer' = Updated(lazer, f, p[f])
      BY <3>1 DEF LazerSplit, SplitRejected, p
    <3> QED
      BY <3>2, <3>3
  <2>2. f \in LazerFeeds
    <3>1. unsplit \in Seq(Wanted) /\ unsplit # <<>> /\ Wanted \subseteq LazerFeeds
      BY <1>0, <2>1, WantedFeeds DEF ScanInv, SplitSound
    <3> QED
      BY <3>1
  <2>3. \A g \in LazerFeeds : \A ch \in DOMAIN quotes[g] : quotes[g][ch].stamp \in Int
    BY <1>0, <2>1 DEF PricesSound, NotAhead
  <2> HIDE DEF f
  <2>4. Carried({f}, channel) => \A g \in DOMAIN p : NotAhead(p[g])
    BY <1>0, <2>2, <2>3, ParsedPrices
  <2> HIDE DEF p
  <2>5. \A g \in DOMAIN lazer' : NotAhead(lazer'[g])
    <3>1. \A g \in DOMAIN lazer : NotAhead(lazer[g])
      BY <1>0 DEF PricesSound
    <3> QED
      BY <2>1, <2>4, <3>1 DEF Updated
  <2> QED
    BY <1>0, <2>1, <2>5 DEF PricesSound, NotAhead
<1>5. CASE ProbeFails \/ ListFails \/ ListPage \/ OpenPosition \/ ClosePosition \/ EndScan
  BY <1>0, <1>5, PricesKept DEF ProbeFails, ListFails, ListPage, OpenPosition, ClosePosition, EndScan, pricing
<1>6. CASE RedStoneSkipped \/ RedStoneAsks \/ RedStoneClient \/ Clock
  BY <1>0, <1>6, PricesKept DEF RedStoneSkipped, RedStoneAsks, RedStoneClient, Clock, pricing
<1>7. CASE LazerSkipped \/ LazerDown
  BY <1>0, <1>7, PricesKept DEF LazerSkipped, LazerDown, Compose
<1>8. CASE price_one_candidate
  BY <1>0, <1>8, PricesKept DEF price_one_candidate, NextCandidate, NextFeed
<1>9. CASE Gate
  BY <1>0, <1>9, PricesKept DEF Gate
<1>10. CASE RateMoves \/ UNCHANGED vars
  BY <1>0, <1>10, PricesKept DEF RateMoves, vars, pricing
<1> QED
  BY <1>1, <1>2, <1>3, <1>4, <1>5, <1>6, <1>7, <1>8, <1>9, <1>10 DEF Next

\* A step that leaves the client's snapshot alone, and the prices or none of
\* them, keeps the prices those of the snapshot.
LEMMA SnapshotKept ==
  ASSUME FromSnapshot, UNCHANGED last,
         pc'[Scan] = "answered" => pc[Scan] = "answered" /\ UNCHANGED answer,
         redstone' = redstone \/ redstone' = None
  PROVE  FromSnapshot'
<1>1. DOMAIN None = {}
  BY DEF None
<1>2. \A s \in DOMAIN redstone' : s \in DOMAIN redstone /\ redstone'[s] = redstone[s]
  BY <1>1
<1> QED
  BY <1>2 DEF FromSnapshot

\* The prices are at every step those of the snapshot the client has: it
\* fetches no other one while they are in use.
LEMMA SnapshotStep ==
  ASSUME ScanInv, [Next]_vars
  PROVE  FromSnapshot'
<1>0. /\ FromSnapshot /\ StageConsistent /\ Scan \in Callers /\ now \in Nat
      /\ pc \in [Callers -> {"idle", "locking", "fetching", "answered"}]
      /\ answer \in [Callers -> [given : 0..MaxTime, from : SUBSET Snapshot, failed : SUBSET (0..MaxTime)]]
      /\ last = IF served = <<>> THEN {} ELSE {served[Len(served)]}
  BY ScanCalls, ClockMoves DEF ScanInv, CacheInv, CacheTypeOK, ServedOrdered
<1>00. DOMAIN None = {}
  BY DEF None
<1>1. CASE RedStoneAsks
  <2>1. pc'[Scan] = "locking" /\ UNCHANGED <<last, redstone>>
    BY <1>0, <1>1 DEF RedStoneAsks, packages, pricing
  <2> QED
    BY <1>0, <2>1, SnapshotKept
<1>2. CASE RedStoneClient
  <2>1. pc[Scan] # "idle"
    BY <1>2 DEF RedStoneClient, Client, ServeSnapshot, ReplayFailure, StartFetch, GatewayAnswers,
       GatewayFails, EveryGatewayFailed
  <2>2. redstone' = None
    BY <1>0, <1>2, <2>1 DEF StageConsistent, RedStoneClient, pricing
  <2>3. CASE ServeSnapshot(Scan)
    <3>1. last' = last /\ answer'[Scan].from = last
      BY <1>0, <2>3 DEF ServeSnapshot, Return
    <3> QED
      BY <1>00, <2>2, <3>1 DEF FromSnapshot
  <2>4. CASE GatewayAnswers(Scan)
    <3>1. PICK snapshot : last' = {snapshot} /\ Return(Scan, {snapshot}, {})
      BY <2>4 DEF GatewayAnswers
    <3>2. answer'[Scan].from = {snapshot}
      BY <1>0, <3>1 DEF Return
    <3> QED
      BY <1>00, <2>2, <3>1, <3>2 DEF FromSnapshot
  <2>5. CASE ReplayFailure(Scan) \/ EveryGatewayFailed(Scan)
    <3>1. answer'[Scan].from = {}
      BY <1>0, <2>5 DEF ReplayFailure, EveryGatewayFailed, Return
    <3> QED
      BY <1>00, <2>2, <3>1 DEF FromSnapshot
  <2>6. CASE StartFetch(Scan) \/ GatewayFails(Scan)
    <3>1. pc'[Scan] = "fetching"
      BY <1>0, <2>6 DEF StartFetch, GatewayFails
    <3> QED
      BY <1>00, <2>2, <3>1 DEF FromSnapshot
  <2> QED
    BY <1>2, <2>3, <2>4, <2>5, <2>6 DEF RedStoneClient, Client
<1>3. CASE RedStonePrices
  <2>1. /\ pc[Scan] = "answered" /\ pc'[Scan] = "idle" /\ last' = last
        /\ redstone' = IF answer[Scan].from = {} THEN None
                       ELSE scan_prices(CHOOSE s \in answer[Scan].from : TRUE, wanted_of("redstone", plans))
    BY <1>0, <1>3 DEF RedStonePrices, Take
  <2>2. answer[Scan].from \subseteq last /\ answer[Scan].from \subseteq Snapshot
    BY <1>0, <2>1 DEF FromSnapshot
  <2>3. CASE answer[Scan].from = {}
    BY <1>00, <2>1, <2>3 DEF FromSnapshot
  <2>4. CASE answer[Scan].from # {}
    <3> DEFINE snap == CHOOSE s \in answer[Scan].from : TRUE
    <3>1. snap \in answer[Scan].from
      BY <2>4
    <3>2. redstone' = scan_prices(snap, wanted_of("redstone", plans))
      BY <2>1, <2>4
    <3> HIDE DEF snap
    <3>3. last = {snap} /\ snap \in Snapshot
      BY <1>0, <2>2, <3>1
    <3>4. \A s \in DOMAIN redstone' :
            /\ s \in DOMAIN snap.packages
            /\ redstone'[s] = scan_price(snap.packages[s], snap.fetched_at)
            /\ redstone'[s].value >= 1
      BY <1>0, <3>2, <3>3, ScanPrices
    <3> QED
      BY <2>1, <3>3, <3>4 DEF FromSnapshot
  <2> QED
    BY <2>3, <2>4
<1>4. CASE Clock
  BY <1>0, <1>4, SnapshotKept DEF Clock, Tick, pricing
<1>5. CASE Begin \/ Gate
  BY <1>0, <1>5, SnapshotKept DEF Begin, Gate, cacheVars
<1>6. CASE ProbeFails \/ RedStoneSkipped \/ ListFails \/ ListPage \/ OpenPosition \/ ClosePosition \/ EndScan
  BY <1>0, <1>6, SnapshotKept
     DEF ProbeFails, RedStoneSkipped, ListFails, ListPage, OpenPosition, ClosePosition, EndScan, pricing, cacheVars
<1>7. CASE LazerSkipped \/ LazerBatch \/ LazerSplit \/ LazerDown
  BY <1>0, <1>7, SnapshotKept DEF LazerSkipped, LazerBatch, LazerSplit, LazerDown, cacheVars
<1>8. CASE price_one_candidate
  BY <1>0, <1>8, SnapshotKept DEF price_one_candidate, cacheVars
<1>9. CASE RateMoves \/ UNCHANGED vars
  BY <1>0, <1>9, SnapshotKept DEF RateMoves, vars, pricing, cacheVars
<1> QED
  BY <1>1, <1>2, <1>3, <1>4, <1>5, <1>6, <1>7, <1>8, <1>9 DEF Next

-----------------------------------------------------------------------------
(***************************************************************************)
(* The split pass.                                                         *)
(***************************************************************************)

\* A map has finitely many values over finitely many keys.
LEMMA FiniteValues ==
  ASSUME NEW S, IsFiniteSet(S), NEW f
  PROVE  IsFiniteSet({f[x] : x \in S})
<1> DEFINE T == {f[x] : x \in S}
           g == [x \in S |-> f[x]]
<1>1. g \in Surjection(S, T)
  BY DEF Surjection
<1> QED
  BY <1>1, FS_Surjection

\* A scan wants finitely many feeds of the API.
LEMMA WantedFinite ==
  ASSUME PlansConsistent
  PROVE  IsFiniteSet(wanted_of("lazer", plans))
<1> DEFINE sets == [i \in DOMAIN plans |-> ToSet(plans[i].candidates)]
           F == {sets[i] : i \in DOMAIN plans}
           U == UNION F
           feed == [s \in U |-> s.feed]
<1>1. plans \in Seq(Plan) /\ DOMAIN plans = 1..Len(plans) /\ Len(plans) \in Nat
  BY DEF PlansConsistent
<1>2. IsFiniteSet(DOMAIN plans)
  BY <1>1, FS_Interval
<1>3. IsFiniteSet(F)
  BY <1>2, FiniteValues
<1>4. ASSUME NEW i \in DOMAIN plans PROVE IsFiniteSet(sets[i])
  <2> DEFINE c == plans[i].candidates
  <2>0. plans[i] \in Plan
    BY <1>1
  <2>1. c \in Seq(Source)
    BY <2>0 DEF Plan
  <2> HIDE DEF c
  <2>2. DOMAIN c = 1..Len(c) /\ Len(c) \in Nat
    BY <2>1
  <2>3. IsFiniteSet(DOMAIN c)
    BY <2>2, FS_Interval
  <2>4. IsFiniteSet({c[j] : j \in DOMAIN c})
    BY <2>3, FiniteValues
  <2> QED
    BY <2>4 DEF c, ToSet
<1>5. IsFiniteSet(U)
  <2>1. \A T \in F : IsFiniteSet(T)
    BY <1>4
  <2> HIDE DEF F
  <2> QED
    BY <1>3, <2>1, FS_UNION
<1> HIDE DEF U
<1>6. IsFiniteSet({feed[s] : s \in U})
  <2> HIDE DEF feed
  <2> QED
    BY <1>5, FiniteValues
<1>7. wanted_of("lazer", plans) \subseteq {feed[s] : s \in U}
  BY DEF wanted_of, U
<1> QED
  BY <1>6, <1>7, FS_Subset

\* A feed that can be priced could be before: its quote only ages, and was not
\* ahead of the clock when it was drawn.
LEMMA PriceableBefore ==
  ASSUME now \in Nat, now' \in Nat, now <= now', quotes' = quotes,
         NEW f, Priceable(f)',
         \A ch \in DOMAIN quotes[f] :
           /\ quotes[f][ch].stamp \in Int
           /\ quotes[f][ch].point # "untimed" /\ ~quotes[f][ch].ahead => NotAhead(quotes[f][ch].stamp)
  PROVE  Priceable(f)
<1>1. Skew \in Nat /\ MaxAge \in Nat
  BY ScanAssumption
<1>0. PICK c \in DOMAIN Channels :
        /\ Channels[c] \in DOMAIN quotes[f]
        /\ \A b \in 1..(c - 1) : Channels[b] \notin DOMAIN quotes[f]
        /\ Quote(f, c).point \notin {"malformed", "mistyped"} /\ ~Quote(f, c).ahead
        /\ publish_time_is_fresh(publish_time(f, c)', now')
  BY DEF Priceable, Quote
<1> DEFINE x == Quote(f, c).stamp
<1>2. x \in Int /\ (Quote(f, c).point # "untimed" => NotAhead(x))
  BY <1>0 DEF Quote
<1>3. publish_time(f, c)' = IF Quote(f, c).point = "untimed" THEN now' ELSE x
  BY DEF publish_time, Quote
<1>4. publish_time_is_fresh(publish_time(f, c), now)
  <2>1. CASE Quote(f, c).point = "untimed"
    <3>1. publish_time(f, c) = now
      BY <2>1 DEF publish_time
    <3>2. now - now <= MaxAge /\ now - now >= -Skew
      BY <1>1
    <3> QED
      BY <3>1, <3>2 DEF publish_time_is_fresh
  <2>2. CASE Quote(f, c).point # "untimed"
    <3>1. publish_time(f, c) = x /\ publish_time(f, c)' = x
      BY <1>3, <2>2 DEF publish_time
    <3>2. now' - x <= MaxAge
      BY <1>0, <3>1 DEF publish_time_is_fresh
    <3>5. now - x >= -Skew
      BY <1>2, <2>2 DEF NotAhead
    <3> HIDE DEF x
    <3>3. \A a, b, k \in Nat, y \in Int : a <= b /\ b - y <= k => a - y <= k
      OBVIOUS
    <3>4. now - x <= MaxAge
      BY <1>1, <1>2, <3>2, <3>3
    <3> QED
      BY <3>1, <3>4, <3>5 DEF publish_time_is_fresh
  <2> QED
    BY <2>1, <2>2
<1> QED
  BY <1>0, <1>4 DEF Priceable

\* A step during which quotes age and prices stay keeps the pass sound.
LEMMA SplitKept ==
  ASSUME SplitSound, PlansConsistent, PricesSound, now \in Nat, now' \in Nat, now <= now',
         UNCHANGED <<quotes, lazer, tried, unsplit, channel, cut>>,
         stage' \in {"split", "compose"} => stage' = stage
  PROVE  SplitSound'
<1>1. Wanted' = Wanted
  BY DEF Wanted
<1>2. ASSUME stage' \in {"split", "compose"}, NEW f \in Wanted, Priceable(f)'
      PROVE  Priceable(f)
  <2>1. \A ch \in DOMAIN quotes[f] :
          /\ quotes[f][ch].stamp \in Int
          /\ quotes[f][ch].point # "untimed" /\ ~quotes[f][ch].ahead => NotAhead(quotes[f][ch].stamp)
    BY <1>2, WantedFeeds DEF PricesSound
  <2> QED
    BY <1>2, <2>1, PriceableBefore
<1>3. CASE stage' = "split"
  <2>1. /\ unsplit \in Seq(Wanted) /\ unsplit # <<>>
        /\ channel \in 1..Len(Channels)
        /\ \A c \in 1..(channel - 1) : Channels[c] \notin DOMAIN quotes[unsplit[1]]
        /\ \A f \in Wanted \ ToSet(unsplit) : Priceable(f) => f \in DOMAIN lazer
    BY <1>3 DEF SplitSound
  <2>2. \A f \in Wanted \ ToSet(unsplit) : Priceable(f)' => f \in DOMAIN lazer
    BY <1>2, <1>3, <2>1
  <2> QED
    BY <1>1, <1>3, <2>1, <2>2 DEF SplitSound
<1>4. CASE stage' = "compose"
  <2>1. ~cut => \A f \in Wanted : Priceable(f)' => f \in DOMAIN lazer
    BY <1>2, <1>4 DEF SplitSound
  <2> QED
    BY <1>1, <1>4, <2>1 DEF SplitSound
<1>5. CASE stage' \notin {"split", "compose"}
  BY <1>5 DEF SplitSound
<1> QED
  BY <1>3, <1>4, <1>5

\* The pass is done with its first feed, which is priced if it can be.
LEMMA SplitDone ==
  ASSUME SplitSound, stage = "split", SplitNext, UNCHANGED <<now, quotes, tried>>,
         DOMAIN lazer \subseteq DOMAIN lazer',
         Priceable(unsplit[1]) => unsplit[1] \in DOMAIN lazer'
  PROVE  SplitSound'
<1>1. Wanted' = Wanted /\ \A f : Priceable(f)' = Priceable(f)
  BY DEF Wanted, Priceable, publish_time, publish_time_is_fresh, Quote
<1>2. /\ unsplit \in Seq(Wanted) /\ unsplit # <<>>
      /\ \A f \in Wanted \ ToSet(unsplit) : Priceable(f) => f \in DOMAIN lazer
  BY DEF SplitSound
<1>3. /\ unsplit' = Tail(unsplit) /\ channel' = 1
      /\ stage' = IF Len(unsplit) = 1 THEN "compose" ELSE "split"
  BY DEF SplitNext, Compose
<1>4. /\ Len(unsplit) \in Nat /\ Len(unsplit) # 0 /\ DOMAIN unsplit = 1..Len(unsplit)
      /\ Tail(unsplit) \in Seq(Wanted) /\ Len(Tail(unsplit)) = Len(unsplit) - 1
      /\ DOMAIN Tail(unsplit) = 1..(Len(unsplit) - 1)
      /\ \A i \in 1..(Len(unsplit) - 1) : Tail(unsplit)[i] = unsplit[i + 1]
  BY <1>2
<1>5. ASSUME NEW f \in ToSet(unsplit), f # unsplit[1] PROVE f \in ToSet(Tail(unsplit))
  <2>1. PICK i \in 1..Len(unsplit) : f = unsplit[i]
    BY <1>4 DEF ToSet
  <2>2. i - 1 \in 1..(Len(unsplit) - 1) /\ (i - 1) + 1 = i
    BY <1>4, <1>5, <2>1
  <2>3. Tail(unsplit)[i - 1] = f
    BY <1>4, <2>1, <2>2
  <2> QED
    BY <1>4, <2>2, <2>3 DEF ToSet
<1>6. \A f \in Wanted \ ToSet(Tail(unsplit)) : Priceable(f) => f \in DOMAIN lazer'
  BY <1>2, <1>5
<1>7. CASE Len(unsplit) = 1
  <2>1. DOMAIN Tail(unsplit) = {}
    BY <1>4, <1>7
  <2>2. ToSet(Tail(unsplit)) = {}
    BY <2>1 DEF ToSet
  <2> QED
    BY <1>1, <1>3, <1>6, <1>7, <2>2 DEF SplitSound
<1>8. CASE Len(unsplit) # 1
  <2> DEFINE t == Tail(unsplit)
  <2>1. t \in Seq(Wanted) /\ Len(t) # 0
    BY <1>4, <1>8
  <2> HIDE DEF t
  <2>2. t # <<>>
    BY <2>1
  <2>3. unsplit' = t /\ stage' = "split" /\ channel' = 1
    BY <1>3, <1>8 DEF t
  <2>4. 1 \in 1..Len(Channels) /\ 1..(1 - 1) = {}
    BY DEF Channels
  <2>5. \A f \in Wanted \ ToSet(t) : Priceable(f) => f \in DOMAIN lazer'
    BY <1>6 DEF t
  <2> QED
    BY <1>1, <2>1, <2>2, <2>3, <2>4, <2>5 DEF SplitSound
<1> QED
  BY <1>7, <1>8

\* Every step keeps the split pass sound.
LEMMA SplitStep ==
  ASSUME ScanInv, [Next]_vars
  PROVE  SplitSound'
<1>0. /\ now \in Nat /\ now' \in Nat /\ now <= now'
      /\ SplitSound /\ PricesSound /\ StageConsistent /\ PlansConsistent
  BY ClockMoves DEF ScanInv
<1>00. Wanted \subseteq LazerFeeds
  BY <1>0, WantedFeeds
<1>1. CASE LazerSkipped
  <2>1. /\ stage = "lazer" /\ wanted_of("lazer", plans) = {} /\ tried' = tried /\ stage' = "compose"
    BY <1>1 DEF LazerSkipped, Compose
  <2>2. Wanted = {}
    BY <1>0, <2>1, WantedFeeds DEF PlansConsistent
  <2>3. Wanted' = {}
    BY <2>1, <2>2 DEF Wanted
  <2> QED
    BY <2>1, <2>3 DEF SplitSound
<1>2. CASE LazerDown
  BY <1>2 DEF LazerDown, Compose, SplitSound
<1>3. CASE LazerBatch
  <2> DEFINE feeds == wanted_of("lazer", plans)
  <2>1. /\ UNCHANGED <<now, quotes, tried>> /\ stage = "lazer" /\ feeds # {}
        /\ \/ /\ Carried(feeds, 1) /\ lazer' = parsed(feeds, 1) /\ cut' = ~Readable(feeds, 1)
              /\ stage' = "compose"
           \/ unsplit' \in SetToSeqs(feeds) /\ channel' = 1 /\ stage' = "split"
    BY <1>3 DEF LazerBatch, cacheVars, Compose
  <2>2. IsFiniteSet(feeds)
    BY <1>0, WantedFinite
  <2>3. feeds = Wanted
    BY <1>0, <2>1, WantedFeeds DEF PlansConsistent
  <2> HIDE DEF feeds
  <2>4. Wanted' = Wanted /\ \A f : Priceable(f)' = Priceable(f)
    BY <2>1 DEF Wanted, Priceable, publish_time, publish_time_is_fresh, Quote
  <2>5. CASE /\ Carried(feeds, 1) /\ lazer' = parsed(feeds, 1) /\ cut' = ~Readable(feeds, 1)
             /\ stage' = "compose"
    <3>1. 1 \in DOMAIN Channels /\ 1..(1 - 1) = {}
      BY DEF Channels
    <3>2. ~cut' => \A f \in feeds : Priceable(f) => f \in DOMAIN lazer'
      BY <2>5, <3>1, PriceableParsed
    <3> QED
      BY <2>3, <2>4, <2>5, <3>2 DEF SplitSound
  <2>6. CASE unsplit' \in SetToSeqs(feeds) /\ channel' = 1 /\ stage' = "split"
    <3>1. unsplit' \in Seq(feeds) /\ ToSet(unsplit') = feeds
      BY <2>2, <2>6, Enumeration
    <3>2. unsplit' # <<>>
      <4>1. ToSet(<<>>) = {}
        BY DEF ToSet
      <4> QED
        BY <2>1, <3>1, <4>1
    <3>3. 1 \in 1..Len(Channels) /\ 1..(1 - 1) = {}
      BY DEF Channels
    <3> QED
      BY <2>3, <2>4, <2>6, <3>1, <3>2, <3>3 DEF SplitSound
  <2> QED
    BY <2>1, <2>5, <2>6
<1>4. CASE LazerSplit
  <2> DEFINE f == unsplit[1]
  <2>1. /\ UNCHANGED <<now, quotes, tried>> /\ stage = "split"
    BY <1>4 DEF LazerSplit, cacheVars
  <2>2. /\ unsplit \in Seq(Wanted) /\ unsplit # <<>>
        /\ channel \in 1..Len(Channels)
        /\ \A c \in 1..(channel - 1) : Channels[c] \notin DOMAIN quotes[f]
        /\ \A g \in Wanted \ ToSet(unsplit) : Priceable(g) => g \in DOMAIN lazer
    BY <1>0, <2>1 DEF SplitSound
  <2>3. Head(unsplit) = f /\ f \in Wanted
    BY <2>2
  <2> HIDE DEF f
  <2>4. DOMAIN Channels = {1, 2} /\ Len(Channels) = 2
    BY DEF Channels
  <2>5. CASE Carried({f}, channel)
    <3> DEFINE p == parsed({f}, channel)
    <3>1. /\ lazer' = IF f \in DOMAIN p THEN Updated(lazer, f, p[f]) ELSE lazer
          /\ SplitNext
      BY <1>4, <2>3, <2>5 DEF LazerSplit
    <3>2. Priceable(f) => f \in DOMAIN p
      <4>1. channel \in DOMAIN Channels
        BY <2>2, <2>4
      <4>2. ASSUME Priceable(f) PROVE Readable({f}, channel)
        BY <2>2, <2>5, <4>1, <4>2, FirstCarrier DEF Readable
      <4> QED
        BY <2>2, <2>5, <4>1, <4>2, PriceableParsed
    <3> HIDE DEF p
    <3>3. DOMAIN lazer \subseteq DOMAIN lazer' /\ (Priceable(f) => f \in DOMAIN lazer')
      BY <3>1, <3>2 DEF Updated
    <3> QED
      BY <1>0, <2>1, <3>1, <3>3, SplitDone DEF f
  <2>6. CASE ~Carried({f}, channel)
    <3>1. SplitRejected
      BY <1>4, <2>3, <2>6 DEF LazerSplit
    <3>2. Channels[channel] \notin DOMAIN quotes[f]
      BY <2>6 DEF Carried
    <3>3. CASE channel < Len(Channels)
      <4>1. channel' = channel + 1 /\ UNCHANGED <<unsplit, stage, lazer>>
        BY <3>1, <3>3 DEF SplitRejected
      <4>2. channel' \in 1..Len(Channels) /\ \A c \in 1..(channel' - 1) : c = channel \/ c \in 1..(channel - 1)
        BY <2>2, <3>3, <4>1 DEF Channels
      <4>3. \A c \in 1..(channel' - 1) : Channels[c] \notin DOMAIN quotes[f]
        BY <2>2, <3>2, <4>2
      <4>4. Wanted' = Wanted /\ \A g : Priceable(g)' = Priceable(g)
        BY <2>1 DEF Wanted, Priceable, publish_time, publish_time_is_fresh, Quote
      <4> QED
        BY <2>1, <2>2, <4>1, <4>2, <4>3, <4>4 DEF SplitSound, f
    <3>4. CASE ~(channel < Len(Channels))
      <4>1. SplitNext /\ lazer' = lazer
        BY <3>1, <3>4 DEF SplitRejected
      <4>2. channel = 2
        BY <2>2, <3>4 DEF Channels
      <4>3. Channels[1] \notin DOMAIN quotes[f] /\ Channels[2] \notin DOMAIN quotes[f]
        BY <2>2, <3>2, <4>2
      <4>4. ~Priceable(f)
        BY <2>4, <4>3 DEF Priceable
      <4> QED
        BY <1>0, <2>1, <4>1, <4>4, SplitDone DEF f
    <3> QED
      BY <3>3, <3>4
  <2> QED
    BY <2>5, <2>6
<1>5. CASE price_one_candidate
  BY <1>0, <1>5, SplitKept DEF price_one_candidate, NextCandidate, NextFeed
<1>6. CASE Clock \/ RateMoves \/ UNCHANGED vars
  BY <1>0, <1>6, SplitKept DEF Clock, RateMoves, vars, pricing
<1>7. CASE ProbeFails \/ RedStoneSkipped \/ ListFails \/ ListPage \/ OpenPosition \/ ClosePosition \/ EndScan
  BY <1>7 DEF SplitSound, ProbeFails, RedStoneSkipped, ListFails, ListPage, OpenPosition, ClosePosition, EndScan
<1>8. CASE Begin \/ RedStonePrices \/ Gate
  BY <1>8 DEF SplitSound, Begin, RedStonePrices, Gate
<1>9. CASE RedStoneAsks \/ RedStoneClient
  BY <1>0, <1>9, SplitKept DEF RedStoneAsks, RedStoneClient, pricing
<1> QED
  BY <1>1, <1>2, <1>3, <1>4, <1>5, <1>6, <1>7, <1>8, <1>9 DEF Next

-----------------------------------------------------------------------------
(***************************************************************************)
(* Composition.                                                            *)
(***************************************************************************)

\* A composition's step: the candidate is the feed's, the inputs remembered
\* before stay as they are, the one it used is remembered, and it either prices
\* the feed or passes the candidate over.
LEMMA CandidateStep ==
  ASSUME StageConsistent, PlansConsistent, price_one_candidate
  PROVE  /\ stage = "compose" /\ UNCHANGED <<now, redstone, lazer, tried>>
         /\ Head(plans) = plans[1] /\ plans # <<>>
         /\ plans[1].id \in DOMAIN tried /\ plans[1].candidates = tried[plans[1].id]
         /\ tried[plans[1].id] \in Seq(Source)
         /\ candidate \in DOMAIN tried[plans[1].id]
         /\ \A c \in DOMAIN transformer_inputs :
              c \in DOMAIN transformer_inputs' /\ transformer_inputs'[c] = transformer_inputs[c]
         /\ \E input :
              /\ plans[1].candidates[candidate].call = "none" => input = 1
              /\ plans[1].candidates[candidate].call # "none" /\ HasPrice(plans[1].candidates[candidate]) =>
                   /\ plans[1].candidates[candidate].call \in DOMAIN transformer_inputs'
                   /\ transformer_inputs'[plans[1].candidates[candidate].call] = input
              /\ IF /\ HasPrice(plans[1].candidates[candidate]) /\ input # 0
                    /\ publish_time_is_fresh(Stamp(plans[1].candidates[candidate]), now)
                   THEN /\ response' = Updated(response, plans[1].id,
                                               [candidate |-> candidate, input |-> input, at |-> now])
                        /\ NextFeed
                   ELSE NextCandidate /\ response' = response
<1>1. stage = "compose" /\ UNCHANGED <<now, redstone, lazer, tried>>
  BY DEF price_one_candidate, cacheVars
<1>2. plans # <<>> /\ candidate \in 1..Len(plans[1].candidates)
  BY <1>1 DEF StageConsistent
<1>3. Head(plans) = plans[1] /\ 1 \in DOMAIN plans
  BY <1>2, PlansTail
<1>4. /\ plans[1].id \in DOMAIN tried /\ plans[1].candidates = tried[plans[1].id]
      /\ tried[plans[1].id] \in Seq(Source)
  BY <1>3 DEF PlansConsistent
<1>5. candidate \in DOMAIN tried[plans[1].id]
  BY <1>2, <1>4
<1> DEFINE s == plans[1].candidates[candidate]
<1>6. PICK input \in IF s.call = "none" THEN {1} ELSE Inputs(s.call) :
        LET usable == HasPrice(s) /\ input # 0 /\ publish_time_is_fresh(Stamp(s), now)
        IN  /\ transformer_inputs' = IF s.call = "none" \/ ~HasPrice(s) THEN transformer_inputs
                                     ELSE Remembered(s.call, input)
            /\ IF usable
                 THEN /\ response' = Updated(response, plans[1].id,
                                             [candidate |-> candidate, input |-> input, at |-> now])
                      /\ NextFeed
                 ELSE NextCandidate /\ response' = response
  BY <1>3 DEF price_one_candidate
<1> HIDE DEF s
<1>7. s.call = "none" => input = 1
  BY <1>6
<1>8. s.call # "none" /\ HasPrice(s) => s.call \in DOMAIN transformer_inputs' /\ transformer_inputs'[s.call] = input
  BY <1>6 DEF Remembered, Updated
<1>9. \A c \in DOMAIN transformer_inputs :
        c \in DOMAIN transformer_inputs' /\ transformer_inputs'[c] = transformer_inputs[c]
  BY <1>6 DEF Remembered, Updated, Inputs
<1>10. IF HasPrice(s) /\ input # 0 /\ publish_time_is_fresh(Stamp(s), now)
         THEN /\ response' = Updated(response, plans[1].id,
                                     [candidate |-> candidate, input |-> input, at |-> now])
              /\ NextFeed
         ELSE NextCandidate /\ response' = response
  BY <1>6
<1> QED
  BY <1>1, <1>2, <1>3, <1>4, <1>5, <1>7, <1>8, <1>9, <1>10 DEF s

\* Every price stays one of the input the composition remembers.
LEMMA RatesStep ==
  ASSUME ScanInv, [Next]_vars
  PROVE  RatesRemembered'
<1>0. StageConsistent /\ PlansConsistent /\ RatesRemembered
  BY DEF ScanInv
<1>1. ASSUME response' = None PROVE RatesRemembered'
  BY <1>1 DEF RatesRemembered, None
<1>2. ASSUME UNCHANGED <<response, tried, transformer_inputs>> PROVE RatesRemembered'
  BY <1>0, <1>2 DEF RatesRemembered
<1>3. CASE price_one_candidate
  <2> DEFINE id == plans[1].id
             s == plans[1].candidates[candidate]
  <2>1. /\ tried' = tried /\ id \in DOMAIN tried /\ s = tried[id][candidate] /\ candidate \in DOMAIN tried[id]
        /\ \A c \in DOMAIN transformer_inputs :
             c \in DOMAIN transformer_inputs' /\ transformer_inputs'[c] = transformer_inputs[c]
    BY <1>0, <1>3, CandidateStep
  <2>2. PICK input :
          /\ s.call = "none" => input = 1
          /\ s.call # "none" /\ HasPrice(s) =>
               s.call \in DOMAIN transformer_inputs' /\ transformer_inputs'[s.call] = input
          /\ \/ /\ HasPrice(s)
                /\ response' = Updated(response, id, [candidate |-> candidate, input |-> input, at |-> now])
             \/ response' = response
    BY <1>0, <1>3, CandidateStep
  <2> HIDE DEF id, s
  <2>3. ASSUME NEW x \in DOMAIN response
        PROVE  /\ x \in DOMAIN tried /\ response[x].candidate \in DOMAIN tried[x]
               /\ LET u == tried[x][response[x].candidate]
                  IN  IF u.call = "none" THEN response[x].input = 1
                      ELSE u.call \in DOMAIN transformer_inputs' /\ transformer_inputs'[u.call] = response[x].input
    BY <1>0, <2>1 DEF RatesRemembered
  <2>4. CASE response' = response
    BY <2>1, <2>3, <2>4 DEF RatesRemembered
  <2>5. CASE /\ HasPrice(s)
             /\ response' = Updated(response, id, [candidate |-> candidate, input |-> input, at |-> now])
    <3>1. ASSUME NEW x \in DOMAIN response' PROVE x = id \/ (x \in DOMAIN response /\ response'[x] = response[x])
      BY <2>5 DEF Updated
    <3>2. response'[id].candidate = candidate /\ response'[id].input = input
      BY <2>5 DEF Updated
    <3>3. IF s.call = "none" THEN response'[id].input = 1
          ELSE s.call \in DOMAIN transformer_inputs' /\ transformer_inputs'[s.call] = response'[id].input
      BY <2>2, <2>5, <3>2
    <3> QED
      BY <2>1, <2>3, <3>1, <3>2, <3>3 DEF RatesRemembered
  <2> QED
    BY <2>2, <2>4, <2>5
<1>4. CASE Begin
  BY <1>0, <1>1, <1>4 DEF Begin, StageConsistent
<1>5. CASE Gate
  BY <1>1, <1>5 DEF Gate
<1>6. CASE ProbeFails \/ ListFails \/ ListPage \/ OpenPosition \/ ClosePosition \/ EndScan
  BY <1>2, <1>6 DEF ProbeFails, ListFails, ListPage, OpenPosition, ClosePosition, EndScan, pricing
<1>7. CASE RedStoneSkipped \/ RedStoneAsks \/ RedStoneClient \/ RedStonePrices
  BY <1>2, <1>7 DEF RedStoneSkipped, RedStoneAsks, RedStoneClient, RedStonePrices, pricing
<1>8. CASE LazerSkipped \/ LazerBatch \/ LazerSplit \/ LazerDown
  BY <1>2, <1>8 DEF LazerSkipped, LazerBatch, LazerSplit, LazerDown
<1>9. CASE Clock \/ RateMoves \/ UNCHANGED vars
  BY <1>2, <1>9 DEF Clock, RateMoves, vars, pricing
<1> QED
  BY <1>3, <1>4, <1>5, <1>6, <1>7, <1>8, <1>9 DEF Next

\* A candidate that was unusable stays so: prices age, and what a composition
\* remembers it does not read again.
LEMMA UnusableLater ==
  ASSUME PricesSound, NEW s, NEW t \in Int, NEW u \in Int, t <= u, Unusable(s, t),
         \A c \in DOMAIN transformer_inputs :
           c \in DOMAIN transformer_inputs' /\ transformer_inputs'[c] = transformer_inputs[c]
  PROVE  \/ ~HasPrice(s)
         \/ u - Stamp(s) > MaxAge
         \/ s.call \in DOMAIN transformer_inputs' /\ transformer_inputs'[s.call] = 0
<1>1. CASE ~HasPrice(s)
  BY <1>1
<1>2. CASE HasPrice(s) /\ t - Stamp(s) > MaxAge
  <2>1. Stamp(s) \in Int
    BY <1>2 DEF HasPrice, Stamp, PricesSound, NotAhead
  <2>2. MaxAge \in Nat
    BY ScanAssumption
  <2> DEFINE x == Stamp(s)
  <2>3. x \in Int /\ t - x > MaxAge
    BY <1>2, <2>1
  <2> HIDE DEF x
  <2>4. u - x > MaxAge
    BY <2>2, <2>3
  <2> QED
    BY <2>4 DEF x
<1>3. CASE s.call \in DOMAIN transformer_inputs /\ transformer_inputs[s.call] = 0
  BY <1>3
<1> QED
  BY <1>1, <1>2, <1>3 DEF Unusable

\* A step that only lets time pass keeps the order.
LEMMA OrderAged ==
  ASSUME PricesSound, OrderKept, now \in Nat, now' \in Nat, now <= now',
         UNCHANGED <<redstone, lazer, transformer_inputs, response, tried, plans, candidate>>,
         stage' \in {"compose", "gate"} => stage' = stage
  PROVE  OrderKept'
<1>1. ASSUME NEW s, NEW t \in Int, NEW u \in Int, t <= u, Unusable(s, t)
      PROVE  \/ ~HasPrice(s)
             \/ u - Stamp(s) > MaxAge
             \/ s.call \in DOMAIN transformer_inputs' /\ transformer_inputs'[s.call] = 0
  BY <1>1, UnusableLater
<1>2. \A id \in DOMAIN response :
        /\ response[id].at \in Int
        /\ \A i \in 1..(response[id].candidate - 1) :
             LET s == tried[id][i]
             IN  \/ ~HasPrice(s)
                 \/ response[id].at - Stamp(s) > MaxAge
                 \/ s.call \in DOMAIN transformer_inputs' /\ transformer_inputs'[s.call] = 0
  BY DEF OrderKept, Unusable
<1>3. stage' = "compose" =>
        \A i \in 1..(candidate - 1) :
          LET s == plans[1].candidates[i]
          IN  \/ ~HasPrice(s)
              \/ now' - Stamp(s) > MaxAge
              \/ s.call \in DOMAIN transformer_inputs' /\ transformer_inputs'[s.call] = 0
  BY <1>1 DEF OrderKept
<1>4. stage' \in {"compose", "gate"} =>
        \A id \in DOMAIN tried \ (DOMAIN response \union Planned) :
          \A i \in DOMAIN tried[id] :
            LET s == tried[id][i]
            IN  \/ ~HasPrice(s)
                \/ now' - Stamp(s) > MaxAge
                \/ s.call \in DOMAIN transformer_inputs' /\ transformer_inputs'[s.call] = 0
  BY <1>1 DEF OrderKept
<1>5. Planned' = Planned
  BY DEF Planned
<1> QED
  BY <1>2, <1>3, <1>4, <1>5 DEF OrderKept, Unusable, HasPrice, Stamp

\* A scan that has tried nothing yet has passed nothing over.
LEMMA OrderFresh ==
  ASSUME response' = None, stage' = "compose" => candidate' = 1,
         stage' \in {"compose", "gate"} => DOMAIN tried' = Planned'
  PROVE  OrderKept'
<1>1. DOMAIN None = {} /\ 1..(1 - 1) = {}
  BY DEF None
<1> QED
  BY <1>1 DEF OrderKept

\* A composition's step passes over unusable candidates only.
LEMMA OrderTried ==
  ASSUME StageConsistent, PlansConsistent, PricesSound, OrderKept, now \in Nat, price_one_candidate
  PROVE  OrderKept'
<1> DEFINE id == plans[1].id
           list == plans[1].candidates
           s == list[candidate]
           Bad(x, t) == \/ ~HasPrice(x)
                        \/ t - Stamp(x) > MaxAge
                        \/ x.call \in DOMAIN transformer_inputs' /\ transformer_inputs'[x.call] = 0
<1>1. /\ stage = "compose" /\ UNCHANGED <<now, redstone, lazer, tried>> /\ plans # <<>>
      /\ id \in DOMAIN tried /\ list = tried[id] /\ list \in Seq(Source) /\ candidate \in DOMAIN list
      /\ Head(plans) = plans[1]
      /\ \A c \in DOMAIN transformer_inputs :
           c \in DOMAIN transformer_inputs' /\ transformer_inputs'[c] = transformer_inputs[c]
  BY CandidateStep
<1>2. PICK input :
        /\ s.call = "none" => input = 1
        /\ s.call # "none" /\ HasPrice(s) =>
             s.call \in DOMAIN transformer_inputs' /\ transformer_inputs'[s.call] = input
        /\ IF HasPrice(s) /\ input # 0 /\ publish_time_is_fresh(Stamp(s), now)
             THEN /\ response' = Updated(response, id, [candidate |-> candidate, input |-> input, at |-> now])
                  /\ NextFeed
             ELSE NextCandidate /\ response' = response
  BY CandidateStep
<1>3. ASSUME NEW x, NEW t \in Int, Unusable(x, t) PROVE Bad(x, t)
  BY <1>1, <1>3, UnusableLater
<1>4. /\ Len(list) \in Nat /\ DOMAIN list = 1..Len(list) /\ candidate \in 1..Len(list)
  BY <1>1
<1> HIDE DEF id, list, s
<1>5. \A x \in DOMAIN response :
        response[x].at \in Int /\ \A i \in 1..(response[x].candidate - 1) : Bad(tried[x][i], response[x].at)
  BY <1>3 DEF OrderKept
<1>6. \A i \in 1..(candidate - 1) : Bad(list[i], now)
  BY <1>1, <1>3 DEF OrderKept, list
<1>7. \A x \in DOMAIN tried \ (DOMAIN response \union Planned) : \A i \in DOMAIN tried[x] : Bad(tried[x][i], now)
  BY <1>1, <1>3 DEF OrderKept
<1>8. SUFFICES
        /\ \A x \in DOMAIN response' :
             /\ response'[x].at \in Int
             /\ \A i \in 1..(response'[x].candidate - 1) : Bad(tried[x][i], response'[x].at)
        /\ stage' = "compose" => \A i \in 1..(candidate' - 1) : Bad(plans'[1].candidates[i], now)
        /\ \A x \in DOMAIN tried \ (DOMAIN response' \union Planned') :
             \A i \in DOMAIN tried[x] : Bad(tried[x][i], now)
  BY <1>1 DEF OrderKept, Unusable, HasPrice, Stamp
<1>9. ASSUME NextFeed
      PROVE  candidate' = 1 /\ Planned \subseteq Planned' \union {id}
  <2>1. plans' = Tail(plans) /\ candidate' = 1
    BY <1>9 DEF NextFeed
  <2>2. \A i \in DOMAIN plans : i # 1 => i - 1 \in DOMAIN plans' /\ plans'[i - 1] = plans[i]
    BY <1>1, <2>1, PlansTail
  <2>3. ASSUME NEW i \in DOMAIN plans PROVE plans[i].id \in Planned' \union {id}
    <3>1. CASE i = 1
      BY <3>1 DEF id
    <3>2. CASE i # 1
      BY <2>2, <3>2 DEF Planned
    <3> QED
      BY <3>1, <3>2
  <2> QED
    BY <2>1, <2>3 DEF Planned
<1>10. CASE HasPrice(s) /\ input # 0 /\ publish_time_is_fresh(Stamp(s), now)
  <2>1. response' = Updated(response, id, [candidate |-> candidate, input |-> input, at |-> now]) /\ NextFeed
    BY <1>2, <1>10
  <2>2. /\ DOMAIN response' = DOMAIN response \union {id}
        /\ response'[id].candidate = candidate /\ response'[id].at = now
        /\ \A x \in DOMAIN response' : x # id => x \in DOMAIN response /\ response'[x] = response[x]
    BY <2>1 DEF Updated
  <2> HIDE DEF Bad
  <2>3. ASSUME NEW x \in DOMAIN response'
        PROVE  /\ response'[x].at \in Int
               /\ \A i \in 1..(response'[x].candidate - 1) : Bad(tried[x][i], response'[x].at)
    <3>1. CASE x = id
      BY <1>1, <1>6, <2>2, <3>1
    <3>2. CASE x # id
      BY <1>5, <2>2, <3>2
    <3> QED
      BY <3>1, <3>2
  <2>4. candidate' = 1 /\ Planned \subseteq Planned' \union {id} /\ 1..(1 - 1) = {}
    BY <1>9, <2>1
  <2> QED
    BY <1>7, <2>2, <2>3, <2>4
<1>11. CASE ~(HasPrice(s) /\ input # 0 /\ publish_time_is_fresh(Stamp(s), now))
  <2>1. NextCandidate /\ response' = response
    BY <1>2, <1>11
  <2>2. Bad(s, now)
    <3>1. CASE ~HasPrice(s)
      BY <3>1
    <3>2. CASE HasPrice(s) /\ input = 0
      BY <1>2, <3>2
    <3>3. CASE HasPrice(s) /\ ~publish_time_is_fresh(Stamp(s), now)
      <4>1. NotAhead(Stamp(s))
        BY <3>3 DEF HasPrice, Stamp, PricesSound
      <4>2. Stamp(s) \in Int /\ MaxAge \in Nat /\ now - Stamp(s) >= -Skew
        BY <4>1, ScanAssumption DEF NotAhead
      <4> DEFINE x == Stamp(s)
      <4>3. x \in Int /\ MaxAge \in Nat /\ ~(now - x <= MaxAge)
        BY <3>3, <4>2 DEF publish_time_is_fresh
      <4> HIDE DEF x
      <4>4. now - x > MaxAge
        BY <4>3
      <4> QED
        BY <4>4 DEF x
    <3> QED
      BY <1>11, <3>1, <3>2, <3>3
  <2> HIDE DEF Bad
  <2>3. \A i \in 1..candidate : Bad(list[i], now)
    <3>1. TAKE i \in 1..candidate
    <3>2. i = candidate \/ i \in 1..(candidate - 1)
      BY <1>4
    <3> QED
      BY <1>6, <2>2, <3>2 DEF s
  <2>4. CASE candidate < Len(list)
    <3>1. candidate' = candidate + 1 /\ UNCHANGED plans
      BY <1>1, <2>1, <2>4 DEF NextCandidate, list
    <3>2. candidate' - 1 = candidate
      BY <1>4, <3>1
    <3>3. Planned' = Planned
      BY <3>1 DEF Planned
    <3> QED
      BY <1>5, <1>7, <2>1, <2>3, <3>1, <3>2, <3>3 DEF list
  <2>5. CASE ~(candidate < Len(list))
    <3>1. NextFeed
      BY <1>1, <2>1, <2>5 DEF NextCandidate, list
    <3>2. candidate = Len(list)
      <4> DEFINE n == Len(list)
      <4>1. n \in Nat /\ candidate \in 1..n /\ ~(candidate < n)
        BY <1>4, <2>5
      <4> HIDE DEF n
      <4>2. candidate = n
        BY <4>1
      <4> QED
        BY <4>2 DEF n
    <3>3. \A i \in DOMAIN tried[id] : Bad(tried[id][i], now)
      BY <1>1, <1>4, <2>3, <3>2
    <3>4. candidate' = 1 /\ Planned \subseteq Planned' \union {id} /\ 1..(1 - 1) = {}
      BY <1>9, <3>1
    <3> QED
      BY <1>5, <1>7, <2>1, <3>3, <3>4
  <2> QED
    BY <2>4, <2>5
<1> QED
  BY <1>10, <1>11

\* Every step keeps the order of the sources.
LEMMA OrderStep ==
  ASSUME ScanInv, [Next]_vars
  PROVE  OrderKept'
<1>0. /\ now \in Nat /\ now' \in Nat /\ now <= now'
      /\ StageConsistent /\ PlansConsistent /\ PricesSound /\ OrderKept
  BY ClockMoves DEF ScanInv
<1>1. CASE price_one_candidate
  BY <1>0, <1>1, OrderTried
<1>2. CASE Begin
  <2>1. PICK readable \in SUBSET ToSet(PriceIds) :
          /\ plans' = resolve_offchain_plans(readable)
          /\ tried' = [id \in {resolve_offchain_plans(readable)[i].id : i \in DOMAIN resolve_offchain_plans(readable)}
                         |-> plan_offchain_sources(Sources[id])]
          /\ stage' = IF resolve_offchain_plans(readable) = <<>> THEN "gate" ELSE "redstone"
    BY <1>2 DEF Begin
  <2>2. DOMAIN tried' = Planned' /\ stage' # "compose"
    BY <2>1 DEF Planned
  <2>3. response' = None
    BY <1>0, <1>2 DEF Begin, StageConsistent
  <2> QED
    BY <2>2, <2>3, OrderFresh
<1>3. CASE LazerSkipped \/ LazerBatch \/ LazerSplit \/ LazerDown
  <2>1. stage \in {"lazer", "split"} /\ UNCHANGED <<response, tried, plans>>
    BY <1>3 DEF LazerSkipped, LazerBatch, LazerSplit, LazerDown
  <2>2. (stage' = "compose" /\ candidate' = 1) \/ stage' = "split"
    BY <1>3 DEF LazerSkipped, LazerBatch, LazerSplit, LazerDown, Compose, SplitNext, SplitRejected
  <2>3. response' = None /\ DOMAIN tried' = Planned'
    BY <1>0, <2>1 DEF StageConsistent, PlansConsistent, Planned
  <2> QED
    BY <2>2, <2>3, OrderFresh
<1>4. CASE Gate
  BY <1>4, OrderFresh DEF Gate
<1>5. CASE ProbeFails \/ ListFails \/ ListPage \/ OpenPosition \/ ClosePosition \/ EndScan
  BY <1>0, <1>5, OrderAged DEF ProbeFails, ListFails, ListPage, OpenPosition, ClosePosition, EndScan, pricing
<1>6. CASE RedStoneSkipped \/ RedStoneAsks \/ RedStoneClient
  BY <1>0, <1>6, OrderAged DEF RedStoneSkipped, RedStoneAsks, RedStoneClient, pricing
<1>7. CASE RedStonePrices
  BY <1>0, <1>7, OrderFresh DEF RedStonePrices, StageConsistent
<1>8. CASE Clock \/ RateMoves \/ UNCHANGED vars
  BY <1>0, <1>8, OrderAged DEF Clock, RateMoves, vars, pricing
<1> QED
  BY <1>1, <1>2, <1>3, <1>4, <1>5, <1>6, <1>7, <1>8 DEF Next

-----------------------------------------------------------------------------
(***************************************************************************)
(* The median.                                                             *)
(***************************************************************************)

\* The packages with a price, their signers, and the first package of each
\* signer but one.
Usable(list) == {i \in DOMAIN list : list[i].value # Unparsable}
Signers(list) == {list[i].signer : i \in Usable(list)}
Others(list, odd) == {Min({i \in Usable(list) : list[i].signer = g}) : g \in Signers(list) \ {odd}}

\* Of three signers or more each has one package in the price, and whichever
\* signer is left out, the others have values and ages on either side of it.
LEMMA RobustPrice ==
  ASSUME NEW list \in PackageLists, NEW at \in Int,
         Cardinality(Signers(list)) >= 3, NEW odd \in Signers(list)
  PROVE  /\ \E i \in Others(list, odd) : list[i].value <= scan_price(list, at).value
         /\ \E i \in Others(list, odd) : scan_price(list, at).value <= list[i].value
         /\ \E i \in Others(list, odd) : at - list[i].age <= scan_price(list, at).stamp
         /\ \E i \in Others(list, odd) : scan_price(list, at).stamp <= at - list[i].age
<1> DEFINE usable == Usable(list)
           signers == Signers(list)
           others == Others(list, odd)
<1>0. /\ usable = {i \in DOMAIN list : list[i].value # Unparsable}
      /\ signers = {list[i].signer : i \in usable}
      /\ Cardinality(signers) >= 3 /\ odd \in signers
      /\ others = {Min({i \in usable : list[i].signer = g}) : g \in signers \ {odd}}
  BY DEF Usable, Signers, Others
<1> HIDE DEF usable, signers, others
<1> DEFINE first(g) == Min({i \in usable : list[i].signer = g})
           used == packages_by_signer(list)
           n == Cardinality(used)
<1>1. /\ IsFiniteSet(used) /\ used \subseteq DOMAIN list /\ DOMAIN list \subseteq Nat
      /\ DOMAIN list = 1..Len(list) /\ Len(list) \in Nat
      /\ \A i \in DOMAIN list : list[i].value \in Int /\ list[i].age \in Int
  BY UsedPackages, ScanAssumption
<1>2. ASSUME NEW g \in signers
      PROVE  /\ first(g) \in usable /\ list[first(g)].signer = g
             /\ \A i \in usable : list[i].signer = g => first(g) <= i
  <2> DEFINE T == {i \in usable : list[i].signer = g}
  <2>1. T \subseteq Nat /\ T # {}
    BY <1>0, <1>1, <1>2
  <2>2. Min(T) \in T /\ \A i \in T : Min(T) <= i
    <3> HIDE DEF T
    <3> QED
      BY <2>1, MinNatural
  <2> QED
    BY <2>2
<1>3. used = {i \in usable : \A j \in 1..(i - 1) : j \in usable => list[j].signer # list[i].signer}
  <2>1. \A i \in DOMAIN list : \A j \in 1..(i - 1) : j \in DOMAIN list
    BY <1>1
  <2> QED
    BY <1>0, <2>1 DEF packages_by_signer
<1> HIDE DEF used, first
<1>4. \A i \in usable : i \in Nat /\ i >= 1
  BY <1>0, <1>1
<1>5. ASSUME NEW i \in used PROVE list[i].signer \in signers /\ i = first(list[i].signer)
  <2> DEFINE g == list[i].signer
             m == first(g)
  <2>1. i \in usable /\ g \in signers
    BY <1>0, <1>3
  <2>2. m \in usable /\ list[m].signer = g /\ m <= i
    BY <1>2, <2>1
  <2>3. m \in 1..(i - 1) => FALSE
    BY <1>3, <2>2
  <2> HIDE DEF m
  <2>4. i = m
    BY <1>4, <2>1, <2>2, <2>3
  <2> QED
    BY <2>1, <2>4 DEF m
<1>6. ASSUME NEW g \in signers PROVE first(g) \in used
  <2> DEFINE m == first(g)
  <2>1. m \in usable /\ list[m].signer = g /\ \A i \in usable : list[i].signer = g => m <= i
    BY <1>2
  <2> HIDE DEF m
  <2>2. \A j \in 1..(m - 1) : ~(m <= j)
    BY <1>4, <2>1
  <2>3. m \in used
    BY <1>3, <2>1, <2>2
  <2> QED
    BY <2>3 DEF m
<1>7. n = Cardinality(signers) /\ n \in Nat /\ n >= 3
  <2> DEFINE sig == [i \in used |-> list[i].signer]
  <2>1. sig \in [used -> signers]
    BY <1>5
  <2>2. \A g \in signers : \E i \in used : sig[i] = g
    BY <1>2, <1>6
  <2>3. \A i, j \in used : sig[i] = sig[j] => i = j
    BY <1>5
  <2> HIDE DEF sig
  <2>4. sig \in Surjection(used, signers) /\ sig \in Injection(used, signers)
    BY <2>1, <2>2, <2>3 DEF Surjection, Injection, IsInjective
  <2> QED
    BY <1>0, <1>1, <2>4, FS_Surjection, FS_CardinalityType
<1>8. others = used \ {first(odd)}
  <2>1. others = {first(g) : g \in signers \ {odd}}
    BY <1>0 DEF first
  <2>2. \A g \in signers \ {odd} : first(g) \in used /\ first(g) # first(odd)
    BY <1>0, <1>2, <1>6
  <2>3. \A i \in used \ {first(odd)} : list[i].signer \in signers \ {odd} /\ i = first(list[i].signer)
    BY <1>0, <1>5
  <2>4. \A x \in others : x \in used \ {first(odd)}
    BY <2>1, <2>2
  <2>5. ASSUME NEW x \in used \ {first(odd)} PROVE x \in others
    <3>1. list[x].signer \in signers \ {odd} /\ x = first(list[x].signer)
      BY <2>3
    <3> QED
      BY <2>1, <3>1
  <2> QED
    BY <2>4, <2>5
<1> DEFINE values == [i \in DOMAIN list |-> list[i].value]
           ages == [i \in DOMAIN list |-> list[i].age]
           price == median(values, used)
           age == lower_median_age(ages, used)
<1>9. /\ \A i \in used : values[i] \in Int /\ values[i] = list[i].value
      /\ \A i \in used : ages[i] \in Int /\ ages[i] = list[i].age
  BY <1>1
<1>10. used # {}
  BY <1>0, <1>6
<1>11. scan_price(list, at).value = price /\ scan_price(list, at).stamp = at - age
  BY <1>10 DEF scan_price, used
<1> HIDE DEF values, ages, n
<1> DEFINE rest == used \ {first(odd)}
<1>12. /\ \E i \in rest : values[i] <= price
       /\ \E i \in rest : price <= values[i]
  <2> DEFINE mid == n \div 2
             up == mid + 1
             a == KthSmallest(values, used, mid)
             b == KthSmallest(values, used, up)
  <2>1. mid \in Nat /\ up \in Nat
    BY <1>7
  <2>2. CASE n % 2 = 1
    <3>1. up \in 2..n /\ up \in 1..(n - 1)
      BY <1>7, <2>2
    <3>2. price = b
      BY <2>2 DEF median, n
    <3> HIDE DEF up, price, rest
    <3>3. (\E i \in used \ {first(odd)} : values[i] <= b) /\ (\E i \in used \ {first(odd)} : b <= values[i])
      BY <1>1, <1>9, <2>1, <3>1, MiddleRobust DEF n
    <3> QED
      BY <3>2, <3>3 DEF rest
  <2>3. CASE n % 2 # 1
    <3>1. mid \in 2..n /\ mid \in 1..(n - 1) /\ up \in 1..(n - 1)
      BY <1>7, <2>3
    <3>2. price = (a + b + 1) \div 2
      BY <2>3 DEF median, n
    <3>3. a \in Int /\ b \in Int /\ a <= b
      <4> HIDE DEF mid
      <4> QED
        BY <1>1, <1>9, <3>1, KthSmallestOrdered DEF n
    <3> HIDE DEF up, price, mid
    <3>4. \E i \in used \ {first(odd)} : values[i] <= a
      BY <1>1, <1>9, <2>1, <3>1, MiddleRobust DEF n
    <3>5. \E i \in used \ {first(odd)} : b <= values[i]
      BY <1>1, <1>9, <2>1, <3>1, MiddleRobust DEF n
    <3> HIDE DEF a, b
    <3>6. price \in Int /\ a <= price /\ price <= b
      BY <3>2, <3>3
    <3>7. ASSUME NEW i \in rest, values[i] <= a PROVE values[i] <= price
      BY <1>9, <3>3, <3>6, <3>7
    <3>8. ASSUME NEW i \in rest, b <= values[i] PROVE price <= values[i]
      BY <1>9, <3>3, <3>6, <3>8
    <3> QED
      BY <3>4, <3>5, <3>7, <3>8
  <2> QED
    BY <2>2, <2>3
<1>13. /\ age \in Int
       /\ \E i \in rest : ages[i] <= age
       /\ \E i \in rest : age <= ages[i]
  <2> DEFINE k == n - ((n - 1) \div 2)
  <2>1. k \in Nat /\ k \in 2..n /\ k \in 1..(n - 1)
    BY <1>7
  <2>2. age = KthSmallest(ages, used, k)
    BY DEF lower_median_age, n
  <2> HIDE DEF k, age
  <2> QED
    BY <1>1, <1>9, <2>1, <2>2, MiddleRobust DEF n
<1> HIDE DEF price, age, rest
<1>14. \A i \in rest : i \in used
  BY DEF rest
<1>15. \A i \in rest : /\ values[i] = list[i].value
                       /\ ages[i] <= age => at - age <= at - list[i].age
                       /\ age <= ages[i] => at - list[i].age <= at - age
  BY <1>9, <1>13, <1>14
<1>16. others = rest
  BY <1>8 DEF rest
<1> QED
  BY <1>11, <1>12, <1>13, <1>15, <1>16 DEF others

-----------------------------------------------------------------------------
(***************************************************************************)
(* The specification.                                                      *)
(***************************************************************************)

\* A bot that has scanned nothing yet.
LEMMA ScanInit == Init => ScanInv
<1> SUFFICES ASSUME Init PROVE ScanInv
  OBVIOUS
<1>1. CacheInv
  BY CacheInitInv DEF Init
<1>2. pc[Scan] = "idle"
  BY ScanCalls DEF Init, CacheInit
<1>3. DOMAIN None = {} /\ <<>> \in Seq(Plan) /\ DOMAIN <<>> = {} /\ <<>> \in Seq(Nat)
  BY DEF None
<1>4. StageConsistent /\ PlansConsistent
  BY <1>2, <1>3 DEF Init, StageConsistent, PlansConsistent
<1>5. PricesSound /\ FromSnapshot /\ SplitSound /\ RatesRemembered /\ OrderKept
  BY <1>2, <1>3 DEF Init, PricesSound, FromSnapshot, SplitSound, RatesRemembered, OrderKept
<1>6. ListingSound
  <2>1. Missed = {} /\ IsFiniteSet({}) /\ Cardinality({}) = 0
    BY FS_EmptySet DEF Init, Missed
  <2> QED
    BY <1>3, <2>1 DEF Init, ListingSound
<1> QED
  BY <1>1, <1>4, <1>5, <1>6 DEF ScanInv

\* Every step of the scan keeps its invariant.
LEMMA ScanStep == ScanInv /\ [Next]_vars => ScanInv'
<1> SUFFICES ASSUME ScanInv, [Next]_vars PROVE ScanInv'
  OBVIOUS
<1>1. StageConsistent /\ PlansConsistent /\ ListingSound /\ CacheInv
  BY DEF ScanInv
<1>2. CacheInv' /\ StageConsistent' /\ PlansConsistent' /\ ListingSound'
  BY <1>1, ScanCache, StageStep, PlansStep, ListingStep
<1>3. PricesSound' /\ FromSnapshot' /\ SplitSound' /\ RatesRemembered' /\ OrderKept'
  BY PricesStep, SnapshotStep, SplitStep, RatesStep, OrderStep
<1> QED
  BY <1>2, <1>3 DEF ScanInv

\* The invariant of a market's scan, through every interleaving of the backends,
\* the clock, the rate contracts and the borrowers.
THEOREM ScanInvariant == Spec => []ScanInv
<1> QED
  BY ScanInit, ScanStep, PTL DEF Spec

\* The scan is one of the client's callers and nothing more: every step of a
\* scan is a step of the gateway client or leaves its state alone, so what the
\* client promises (FetchesSpaced, AnswersSound) it promises to the scan.
THEOREM ScanImplementsCache ==
  Spec => /\ CacheInit /\ [][CacheNext]_cacheVars
          /\ [](FetchesSpaced /\ AnswersSound)
<1>1. Init => CacheInit
  BY DEF Init
<1>2. ScanInv /\ [Next]_vars => [CacheNext]_cacheVars
  BY ScanCache
<1>3. ScanInv => FetchesSpaced /\ AnswersSound
  BY DEF ScanInv, CacheInv
<1> QED
  BY <1>1, <1>2, <1>3, ScanInvariant, PTL DEF Spec

\* scan_prices: of three signers or more, no single one moves a RedStone price
\* or its publish time beyond those of the others, for whatever packages a
\* gateway serves.
THEOREM MedianIsRobust == Spec => []MedianRobust
<1>1. ScanInv => MedianRobust
  <2> SUFFICES ASSUME ScanInv, NEW s \in DOMAIN redstone, NEW snapshot \in last
               PROVE  LET list == snapshot.packages[s]
                          usable == {i \in DOMAIN list : list[i].value # Unparsable}
                          signers == {list[i].signer : i \in usable}
                          first(signer) == Min({i \in usable : list[i].signer = signer})
                          between(x, S) == (\E y \in S : y <= x) /\ (\E y \in S : x <= y)
                      IN  s \in DOMAIN snapshot.packages /\ Cardinality(signers) >= 3 =>
                            \A odd \in signers :
                              LET others == {first(g) : g \in signers \ {odd}}
                              IN  /\ between(redstone[s].value, {list[i].value : i \in others})
                                  /\ between(redstone[s].stamp, {snapshot.fetched_at - list[i].age : i \in others})
    BY DEF MedianRobust
  <2> DEFINE list == snapshot.packages[s]
             at == snapshot.fetched_at
             usable == {i \in DOMAIN list : list[i].value # Unparsable}
             signers == {list[i].signer : i \in usable}
  <2>1. /\ s \in DOMAIN snapshot.packages
        /\ redstone[s] = scan_price(list, at)
    BY DEF ScanInv, FromSnapshot
  <2>2. snapshot \in Snapshot
    BY DEF ScanInv, CacheInv, CacheTypeOK
  <2>3. list \in PackageLists /\ at \in Int
    BY <2>1, <2>2, GatewayAssumption DEF Snapshot, PackageMaps
  <2>4. SUFFICES ASSUME Cardinality(signers) >= 3, NEW odd \in signers
                 PROVE  LET others == {Min({i \in usable : list[i].signer = g}) : g \in signers \ {odd}}
                        IN  /\ \E y \in {list[i].value : i \in others} : y <= redstone[s].value
                            /\ \E y \in {list[i].value : i \in others} : redstone[s].value <= y
                            /\ \E y \in {at - list[i].age : i \in others} : y <= redstone[s].stamp
                            /\ \E y \in {at - list[i].age : i \in others} : redstone[s].stamp <= y
    BY Zenon
  <2> DEFINE others == {Min({i \in usable : list[i].signer = g}) : g \in signers \ {odd}}
  <2>5. Cardinality(Signers(list)) >= 3 /\ odd \in Signers(list) /\ others = Others(list, odd)
    BY <2>4, Zenon DEF Usable, Signers, Others
  <2> HIDE DEF list, at, usable, signers, others
  <2>6. /\ \E i \in others : list[i].value <= scan_price(list, at).value
        /\ \E i \in others : scan_price(list, at).value <= list[i].value
        /\ \E i \in others : at - list[i].age <= scan_price(list, at).stamp
        /\ \E i \in others : scan_price(list, at).stamp <= at - list[i].age
    BY <2>3, <2>5, RobustPrice
  <2> QED
    BY <2>1, <2>6 DEF others
<1> QED
  BY <1>1, ScanInvariant, PTL

\* get_ema_prices: a feed the API rejects costs no other feed its price.
THEOREM BadFeedsIsolated == Spec => []BadFeedIsolated
<1>1. ScanInv => BadFeedIsolated
  <2> SUFFICES ASSUME ScanInv, stage = "compose", ~cut,
                      NEW id \in DOMAIN tried, NEW s \in ToSet(tried[id]),
                      s.leg = "lazer", Priceable(s.feed)
               PROVE  s.feed \in DOMAIN lazer
    BY DEF BadFeedIsolated
  <2>1. s.feed \in Wanted
    BY DEF Wanted
  <2> QED
    BY <2>1 DEF ScanInv, SplitSound
<1> QED
  BY <1>1, ScanInvariant, PTL

\* price_one_candidate: the proxy's order decides which source prices a feed.
THEOREM SourceOrderIsKept == Spec => []SourceOrderKept
<1>1. ScanInv => SourceOrderKept
  <2> SUFFICES ASSUME ScanInv, stage = "gate", NEW id \in DOMAIN tried
               PROVE  IF id \in DOMAIN response
                        THEN \A i \in 1..(response[id].candidate - 1) : Unusable(tried[id][i], response[id].at)
                        ELSE \A i \in DOMAIN tried[id] : Unusable(tried[id][i], now)
    BY DEF SourceOrderKept
  <2>1. plans = <<>> /\ OrderKept
    BY DEF ScanInv, StageConsistent
  <2>2. Planned = {}
    BY <2>1 DEF Planned
  <2> QED
    BY <2>1, <2>2 DEF OrderKept
<1> QED
  BY <1>1, ScanInvariant, PTL

\* transformer_inputs: one rate contract transforms a pair by one value.
THEOREM OneRateUsed == Spec => []OneRatePerScan
<1>1. ScanInv => OneRatePerScan
  BY DEF ScanInv, RatesRemembered, OneRatePerScan
<1> QED
  BY <1>1, ScanInvariant, PTL

\* get_all_borrows: each closing hides at most one position from the scan.
THEOREM ListingsMissFew == Spec => []ListingMissesFew
<1>1. ScanInv => ListingMissesFew
  BY DEF ScanInv, ListingSound, ListingMissesFew
<1> QED
  BY <1>1, ScanInvariant, PTL
=============================================================================
