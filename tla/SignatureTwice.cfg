\* Two calls with one printed document, nothing failing.
SPECIFICATION Spec
CONSTANTS
  d1 = d1  d2 = d2  c1 = c1  c2 = c2  c3 = c3  w1 = w1
  Documents = {d1, d2}
  Calls = {c1, c2}
  DocumentOf <- TwiceDocumentOf
  FromTaxes = {}
  Worth <- TwoWorths
  Parts <- TwoParts
  Registered = {d1, d2}
  Collectors = {w1}
  Income <- OneIncome
  MaxCrashes = 0
  Faults = FALSE
INVARIANTS
  SignatureUsedOnce
\* Calls and taxes are finitely many: they all end.
CHECK_DEADLOCK FALSE
