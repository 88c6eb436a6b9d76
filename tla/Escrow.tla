-------------------------------- MODULE Escrow --------------------------------
(***************************************************************************)
(* What the state promises whoever deposits: money that is paid in is kept *)
(* under one tax rate, and what there is, with its tax, is paid out whole  *)
(* and in one step.                                                        *)
(***************************************************************************)
EXTENDS Integers

CONSTANTS
  Deposits,
  Amounts,      \* what a payment may be worth
  Rates         \* percentages that may be taken as a tax

VARIABLES
  balance,      \* deposit -> its total, and how that is split
  paidOut       \* deposit -> what its payouts came to, and their taxes

Split(total, rate) ==
  LET tax == (total * rate) \div 100
  IN  [total |-> total, taxed |-> tax, untaxed |-> total - tax]

Empty == [total |-> 0, taxed |-> 0, untaxed |-> 0]

EscrowInit ==
  /\ balance = [h \in Deposits |-> Empty]
  /\ paidOut = [h \in Deposits |-> [total |-> 0, taxed |-> 0]]

Keep(h) == balance'[h] = balance[h] /\ paidOut'[h] = paidOut[h]

\* The tax is taken of the whole new total, at the rate of the day.
PayIn(h) ==
  /\ \E v \in Amounts, rate \in Rates : balance'[h] = Split(balance[h].total + v, rate)
  /\ paidOut'[h] = paidOut[h]

PayOut(h) ==
  /\ balance'[h] = Empty
  /\ paidOut'[h] = [total |-> paidOut[h].total + balance[h].total,
                    taxed |-> paidOut[h].taxed + balance[h].taxed]

EscrowStep(h) == Keep(h) \/ PayIn(h) \/ PayOut(h)
===============================================================================
