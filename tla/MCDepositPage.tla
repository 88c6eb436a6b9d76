----------------------------- MODULE MCDepositPage -----------------------------
(* The deposit page on small instances: two tabs and the reloads in them.    *)
EXTENDS DepositPage, TLC

CONSTANTS h1, h2, t1, t2, l1, l2, l3

\* Two reloads in one tab and one in another.
TwoTabs == (l1 :> t1) @@ (l2 :> t1) @@ (l3 :> t2)
===============================================================================
