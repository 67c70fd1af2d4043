------------------------------ MODULE Notifier ------------------------------
(***************************************************************************)
(* The shell around the notification channel (notifier.rs): a semaphore    *)
(* bounds the messages in flight and drops the rest, repeated failures of  *)
(* one borrower and kind are suppressed for a cooldown, and drain waits    *)
(* for the messages in flight before the process ends.  Every notify call  *)
(* runs without an await, so it is one step of its caller; the sends run   *)
(* on their own tasks.                                                     *)
(*                                                                         *)
(* Time is counted in ticks and a dedup entry is kept by its age, which    *)
(* stops at Cooldown: an expired entry is as good as none.                 *)
(***************************************************************************)
EXTENDS Integers

CONSTANTS
  Borrowers,    \* (market, borrower) pairs
  Kinds,        \* NotificationKind
  Cooldown,     \* FAILURE_NOTIFICATION_COOLDOWN_HOURS
  MaxInflight   \* capacity of the semaphore

ASSUME NotifierAssumption ==
  /\ Cooldown \in Nat \ {0}
  /\ MaxInflight \in Nat \ {0}

VARIABLES
  permits,   \* free permits of the semaphore
  sending,   \* messages accepted and not yet delivered
  dedup,     \* failure_dedup, by the age of the entry
  drain,     \* "no", "waiting", "drained" or "timed_out"
  told,      \* history: age of the last failure message that was accepted
             \* for the key since the borrower last recovered
  flooded    \* history: a failure message repeated one that was still young

notifier == <<permits, sending, dedup, drain, told, flooded>>

Keys == Borrowers \X Kinds

TypeOK ==
  /\ permits \in 0..MaxInflight
  /\ sending \in 0..MaxInflight
  /\ dedup \in [Keys -> 0..Cooldown]
  /\ drain \in {"no", "waiting", "drained", "timed_out"}
  /\ told \in [Keys -> 0..Cooldown]
  /\ flooded \in BOOLEAN

NotifierInit ==
  /\ permits = MaxInflight
  /\ sending = 0
  /\ dedup = [key \in Keys |-> Cooldown]
  /\ drain = "no"
  /\ told = [key \in Keys |-> Cooldown]
  /\ flooded = FALSE

-----------------------------------------------------------------------------
\* spawn_send: take a permit without waiting and start the send, or drop the
\* message.
Queued == permits > 0

spawn_send ==
  IF Queued
  THEN permits' = permits - 1 /\ sending' = sending + 1
  ELSE UNCHANGED <<permits, sending>>

\* Any notification without dedup state.
Notify ==
  /\ drain = "no"
  /\ spawn_send
  /\ UNCHANGED <<dedup, drain, told, flooded>>

\* Fault: an entry counts as expired one tick too early.
should_send_failure_early(key) == dedup[key] + 1 >= Cooldown

\* Also sweeps the entries that have expired, which their ages already show.
should_send_failure(key) == dedup[key] >= Cooldown

\* Fault: a dropped message keeps its entry.
rollback_failure_dedup_skipped(key) == [dedup EXCEPT ![key] = 0]

\* The entry that should_send_failure recorded is removed again.
rollback_failure_dedup(key) == [dedup EXCEPT ![key] = Cooldown]

\* The body of notify_liquidation_failed.
LiquidationFailed(key) ==
  \/ /\ ~should_send_failure(key)
     /\ UNCHANGED <<permits, sending, dedup, told, flooded>>
  \/ /\ should_send_failure(key)
     /\ spawn_send
     /\ dedup' = IF Queued THEN [dedup EXCEPT ![key] = 0]
                 ELSE rollback_failure_dedup(key)
     /\ told' = IF Queued THEN [told EXCEPT ![key] = 0] ELSE told
     /\ flooded' = (flooded \/ (Queued /\ told[key] < Cooldown))

NotifyLiquidationFailed(key) ==
  /\ drain = "no"
  /\ LiquidationFailed(key)
  /\ UNCHANGED drain

\* A liquidation of the borrower succeeded, or its position is healthy.
clear_failure_dedup_for(borrower) ==
  /\ dedup' = [key \in Keys |-> IF key[1] = borrower THEN Cooldown ELSE dedup[key]]
  /\ told' = [key \in Keys |-> IF key[1] = borrower THEN Cooldown ELSE told[key]]
  /\ UNCHANGED <<permits, sending, flooded>>

ClearFailureDedupFor(borrower) ==
  /\ drain = "no"
  /\ clear_failure_dedup_for(borrower)
  /\ UNCHANGED drain

\* The channel's send returns and the task drops its permit.
SendDone ==
  /\ sending > 0
  /\ sending' = sending - 1
  /\ permits' = permits + 1
  /\ UNCHANGED <<dedup, drain, told, flooded>>

Older(age) == IF age < Cooldown THEN age + 1 ELSE Cooldown

Tick ==
  /\ dedup' = [key \in Keys |-> Older(dedup[key])]
  /\ told' = [key \in Keys |-> Older(told[key])]
  /\ UNCHANGED <<permits, sending, drain, flooded>>

BeginDrain ==
  /\ drain = "no"
  /\ drain' = "waiting"
  /\ UNCHANGED <<permits, sending, dedup, told, flooded>>

\* drain acquires every permit, or its timeout fires.
EndDrain ==
  /\ drain = "waiting"
  /\ \/ permits >= MaxInflight /\ drain' = "drained"
     \/ drain' = "timed_out"
  /\ UNCHANGED <<permits, sending, dedup, told, flooded>>

NotifierNext ==
  \/ Notify
  \/ \E key \in Keys : NotifyLiquidationFailed(key)
  \/ \E borrower \in Borrowers : ClearFailureDedupFor(borrower)
  \/ SendDone \/ Tick \/ BeginDrain \/ EndDrain

NotifierSpec == NotifierInit /\ [][NotifierNext]_notifier

-----------------------------------------------------------------------------
(***************************************************************************)
(* Properties.                                                             *)
(***************************************************************************)

\* A failure is silenced only by a message about it that really was accepted
\* within the cooldown, since the borrower's last recovery: "if the message is
\* dropped due to overload, the entry is rolled back so the next call can
\* retry" (notifier.rs 499-501).
SilenceIsEarned == \A key \in Keys : dedup[key] < Cooldown => told[key] = dedup[key]

\* "Repeated failures for the same (market, borrower, error_kind) triple are
\* suppressed" for the whole cooldown (notifier.rs 52-58).
NoFlood == ~flooded

\* Every permit not free belongs to a message in flight, so a drain that did
\* not time out has seen every accepted message delivered, whatever was sent
\* before it (notifier.rs 449-457).
DrainDelivers == drain = "drained" => sending = 0

\* The inductive invariant.
NotifierInv ==
  /\ TypeOK
  /\ permits + sending = MaxInflight
  /\ \A key \in Keys : told[key] = dedup[key]
  /\ NoFlood
  /\ DrainDelivers
=============================================================================
