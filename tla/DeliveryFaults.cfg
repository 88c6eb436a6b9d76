\* A withdraw of two assets, an account, a transfer: any failure, two crashes.
SPECIFICATION Spec
CONSTANTS
  w1 = w1  w2 = w2  a1 = a1  a2 = a2  a3 = a3  c1 = c1  x1 = x1
  Withdraws = {w1}
  AssetsOf <- TwoAssets
  Accounts = {c1}
  Transfers = {x1}
  BadKeys = {}
  Transactions <- Everything
  MaxCrashes = 2
  Faults = TRUE
  Patient = FALSE
INVARIANTS
  TypeOK
  NothingStranded
  RowsOfWorkingAccounts
  NumbersOnce
PROPERTIES
  WedgedUntilRestart
  IsPayout
\* Requests are finitely many: they all end.
CHECK_DEADLOCK FALSE
