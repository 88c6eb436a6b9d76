------------------------------ MODULE MCDelivery ------------------------------
(* Deliveries on small instances. *)
EXTENDS Delivery, TLC

CONSTANTS w1, w2, a1, a2, a3, c1, x1

\* A withdraw of two assets.
TwoAssets == w1 :> <<a1, a2>>
\* A withdraw of two assets and one of a third.
TwoAndOne == (w1 :> <<a1, a2>>) @@ (w2 :> <<a3>>)

Everything ==
  {"create", "pay"} \X Assets \cup {"account"} \X Accounts \cup {"transfer"} \X Transfers
===============================================================================
