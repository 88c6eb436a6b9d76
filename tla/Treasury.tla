------------------------------- MODULE Treasury -------------------------------
(* What the State row promises: a balance that taxes go into, and that no    *)
(* transfer takes more from than there is, each in one step.                 *)
EXTENDS Integers

CONSTANTS
  Incomes,      \* amounts a tax may bring
  Expenses      \* amounts a transfer may cost

VARIABLE balance

TreasuryInit == balance = 0

Collect(v) == balance' = balance + v

Spend(v) ==
  /\ balance >= v
  /\ balance' = balance - v

TreasuryNext == \/ \E v \in Incomes : Collect(v)
                \/ \E v \in Expenses : Spend(v)

TreasurySpec == TreasuryInit /\ [][TreasuryNext]_balance
===============================================================================
