----------------------------- MODULE Inventory -----------------------------
(***************************************************************************)
(* One borrow asset's entry in the bot's inventory (inventory.rs): the     *)
(* balance read from the chain at the last refresh and the part of it      *)
(* reserved for liquidations in flight.  The operators are the methods of  *)
(* InventoryEntry; every one runs under the manager's write lock, so each  *)
(* is one atomic step of whoever calls it.  Amounts are u128 in the code   *)
(* and naturals here: reserve never admits more than the balance, so the   *)
(* saturating addition cannot saturate.                                    *)
(***************************************************************************)
EXTENDS Collections

Entry == [balance : Nat, reserved : Nat]

\* u128::saturating_sub
Monus(a, b) == IF a >= b THEN a - b ELSE 0

available(e) == Monus(e.balance, e.reserved)

\* Fault: the check forgets what others have reserved.
CanReserveFromBalance(e, amount) == amount <= e.balance

\* InsufficientBalance is returned when this is false.
CanReserve(e, amount) == amount <= available(e)

reserve(e, amount) == [e EXCEPT !.reserved = @ + amount]

release(e, amount) == [e EXCEPT !.reserved = Monus(@, amount)]

\* Fault: a spent amount is only un-reserved.
consumeWithoutDebit(e, amount) == release(e, amount)

\* Debit the balance and clear the reservation together.
consume(e, amount) ==
  release([e EXCEPT !.balance = Monus(@, amount)], amount)

\* Fault: the refresh builds a fresh entry and drops the reservations.
update_balance_forgetting(e, new_balance) == [balance |-> new_balance, reserved |-> 0]

\* A refresh replaces the balance and keeps the reservations.
update_balance(e, new_balance) == [e EXCEPT !.balance = new_balance]
=============================================================================
