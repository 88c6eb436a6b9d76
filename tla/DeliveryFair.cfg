\* An orderly ledger: two withdraws, a transfer, no failure.
SPECIFICATION FairSpec
CONSTANTS
  w1 = w1  w2 = w2  a1 = a1  a2 = a2  a3 = a3  c1 = c1  x1 = x1
  Withdraws = {w1, w2}
  AssetsOf <- TwoAndOne
  Accounts = {c1}
  Transfers = {x1}
  BadKeys = {}
  Transactions <- Everything
  MaxCrashes = 0
  Faults = FALSE
  Patient = TRUE
INVARIANTS
  AllGoesWell
PROPERTIES
  EveryPayoutDelivered
\* Requests are finitely many: they all end.
CHECK_DEADLOCK FALSE
