----------------------------- MODULE MCSettlement -----------------------------
(* Settlement on small instances: one deposit, payments of 1 and 2 units of  *)
(* 100 hundredths, one request or more.                                      *)
EXTENDS Settlement, TLC

CONSTANTS h1, p1, p2, r1, r2, r3, x1

\* Two payments to one deposit, claimed by two requests.
TwoHashOf == (p1 :> h1) @@ (p2 :> h1)
TwoValues == (p1 :> 100) @@ (p2 :> 200)
TwoClaimOf == (r1 :> h1) @@ (r2 :> h1)

\* One request, to which a second payment may get in the way.
OneClaimOf == r1 :> h1

\* A single payment, claimed by three requests.
OneHashOf == p1 :> h1
OneValue == p1 :> 100
ThreeClaimOf == (r1 :> h1) @@ (r2 :> h1) @@ (r3 :> h1)

\* One transfer, as dear as a quarter of the first payment, or none.
OnePrice == x1 :> 25
NoPrice == [t \in {} |-> 0]

\* The two claims are alike.
Alike == Permutations({r1, r2})
===============================================================================
