-------------------------------- MODULE Payout --------------------------------
(***************************************************************************)
(* What a withdraw promises about the addresses of its assets: they are    *)
(* opened in order and all of them before the withdraw is on record, then  *)
(* made ready, paid and handed to their owner, one after the other.  What  *)
(* it does not promise is that it gets to the end.                         *)
(***************************************************************************)
EXTENDS Naturals, Sequences

CONSTANTS
  Withdraws,
  AssetsOf      \* the assets of each, in order

VARIABLES
  recorded,     \* withdraws on record
  phase         \* of each asset of each withdraw: "none", "opened", "trusting",
                \* "paid", "owned"

Places(w) == 1 .. Len(AssetsOf[w])

PayoutInit ==
  /\ recorded = {}
  /\ phase = [w \in Withdraws |-> [i \in Places(w) |-> "none"]]

Advance(w, i, from, to) ==
  /\ phase[w][i] = from
  /\ phase' = [phase EXCEPT ![w][i] = to]
  /\ UNCHANGED recorded

Open(w, i) ==
  /\ w \notin recorded
  /\ \A j \in 1 .. i - 1 : phase[w][j] = "opened"
  /\ Advance(w, i, "none", "opened")

Record(w) ==
  /\ w \notin recorded
  /\ \A i \in Places(w) : phase[w][i] = "opened"
  /\ recorded' = recorded \cup {w}
  /\ UNCHANGED phase

Deliver(w, i) ==
  /\ w \in recorded
  /\ \A j \in 1 .. i - 1 : phase[w][j] = "owned"
  /\ \/ Advance(w, i, "opened", "trusting")
     \/ Advance(w, i, "trusting", "paid")
     \/ Advance(w, i, "paid", "owned")

PayoutNext ==
  \E w \in Withdraws :
    \/ Record(w)
    \/ \E i \in Places(w) : Open(w, i) \/ Deliver(w, i)

PayoutSpec == PayoutInit /\ [][PayoutNext]_<<recorded, phase>>
===============================================================================
