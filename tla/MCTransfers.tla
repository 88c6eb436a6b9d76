------------------------------ MODULE MCTransfers ------------------------------
(* Transfers on small instances: documents worth 1 and 3, paid from a tax of *)
(* 3 or printed.                                                             *)
EXTENDS Transfers, TLC

CONSTANTS d1, d2, c1, c2, c3, w1

\* One document posted twice, and another one.
RetryDocumentOf == (c1 :> d1) @@ (c2 :> d1) @@ (c3 :> d2)
\* One document posted twice.
TwiceDocumentOf == (c1 :> d1) @@ (c2 :> d1)

TwoWorths == (d1 :> 1) @@ (d2 :> 3)
TwoParts == (d1 :> 2) @@ (d2 :> 1)
OneIncome == w1 :> 3
===============================================================================
