\* A document posted twice, another one, a tax: overlaps, failures and a crash.
SPECIFICATION Spec
CONSTANTS
  d1 = d1  d2 = d2  c1 = c1  c2 = c2  c3 = c3  w1 = w1
  Documents = {d1, d2}
  Calls = {c1, c2, c3}
  DocumentOf <- RetryDocumentOf
  FromTaxes = {d1, d2}
  Worth <- TwoWorths
  Parts <- TwoParts
  Registered = {d1}
  Collectors = {w1}
  Income <- OneIncome
  MaxCrashes = 1
  Faults = TRUE
INVARIANTS
  TypeOK
  RevenueSound
  RecordIsPaid
  PaidOnce
PROPERTIES
  IsTreasury
\* Calls and taxes are finitely many: they all end.
CHECK_DEADLOCK FALSE
