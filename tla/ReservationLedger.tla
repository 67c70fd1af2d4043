------------------------- MODULE ReservationLedger -------------------------
(***************************************************************************)
(* What inventory.rs promises to the positions of a round, without saying  *)
(* how: an account of funds in which a position may put a hold on money    *)
(* nobody else holds, and every hold is settled exactly once, either given *)
(* back (release) or paid out of the funds (consume).  The code keeps only *)
(* one sum, InventoryEntry.reserved, and trusts the linear Reservation     *)
(* token (inventory.rs:668-704) to make the sum mean this; the module      *)
(* LiquidationRound is shown to implement it.                              *)
(***************************************************************************)
EXTENDS Inventory

CONSTANT Holders

VARIABLES funds, holds

ledger == <<funds, holds>>

LedgerInit == funds \in Nat /\ holds = [h \in Holders |-> 0]

\* A hold is granted only out of money that no other hold covers.
Grant(h) ==
  /\ holds[h] = 0
  /\ \E a \in 1..Monus(funds, Total(holds, Holders)) :
       holds' = [holds EXCEPT ![h] = a]
  /\ UNCHANGED funds

GiveBack(h) ==
  /\ holds[h] > 0
  /\ holds' = [holds EXCEPT ![h] = 0]
  /\ UNCHANGED funds

PayOut(h) ==
  /\ holds[h] > 0
  /\ holds' = [holds EXCEPT ![h] = 0]
  /\ funds' = Monus(funds, holds[h])

\* The funds are re-read from the chain; the holds stay.
Reread == funds' \in Nat /\ UNCHANGED holds

LedgerNext ==
  \/ \E h \in Holders : Grant(h) \/ GiveBack(h) \/ PayOut(h)
  \/ Reread

LedgerSpec == LedgerInit /\ [][LedgerNext]_ledger
=============================================================================
