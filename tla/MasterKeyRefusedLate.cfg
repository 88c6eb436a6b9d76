\* A withdraw whose second master key is not a key; nothing fails.
SPECIFICATION FairSpec
CONSTANTS
  w1 = w1  w2 = w2  a1 = a1  a2 = a2  a3 = a3  c1 = c1  x1 = x1
  Withdraws = {w1}
  AssetsOf <- TwoAssets
  Accounts = {c1}
  Transfers = {x1}
  BadKeys = {a2}
  Transactions <- Everything
  MaxCrashes = 0
  Faults = FALSE
  Patient = TRUE
PROPERTIES
  EveryPayoutDelivered
CHECK_DEADLOCK FALSE
