----------------------------- MODULE MCWithdrawForm -----------------------------
(* One tab: a withdraw of two accounts, one typed in, a reload of the list   *)
(* and a payment from the account that was typed in.  The withdraw is of     *)
(* assets of 2, of half and of -1; the deposit has 1, and 2 after a payment. *)
EXTENDS WithdrawForm, TLC

CONSTANTS a1, a2, s1, r1, p1, k1, k2

PaymentFromTyped == p1 :> s1
TwoSecrets == a1 :> k1 @@ a2 :> k2

One == [number |-> 1, c |-> FALSE]
Fifty == [number |-> 50, c |-> TRUE]
Two == [assetName |-> One, amountNumber |-> 2]
Half == [assetName |-> Fifty, amountNumber |-> 1]
Minus == [assetName |-> One, amountNumber |-> -1]
ThreeEntries == a1 :> {Two, Half} @@ a2 :> {Half, Minus}
===============================================================================
