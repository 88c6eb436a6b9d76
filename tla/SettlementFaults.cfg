\* One deposit, two payments, two claims, two
\* tax rates one after the other: overlapping calls, failures, a crash.
SPECIFICATION Spec
CONSTANTS
  h1 = h1  p1 = p1  p2 = p2  r1 = r1  r2 = r2  r3 = r3  x1 = x1
  Hashes = {h1}
  Payments = {p1, p2}
  HashOf <- TwoHashOf
  ValueOf <- TwoValues
  Requests = {r1, r2}
  ClaimOf <- TwoClaimOf
  TaxRates = {25, 150}
  MaxTaxes = 2
  MaxCrashes = 1
  Faults = {"listener", "endpoint"}
  Overlap = TRUE
  NoRequest = NoRequest
  Transfers = {x1}
  PriceOf <- OnePrice
SYMMETRY Alike
INVARIANTS
  TypeOK
  DepositsSound
  NoReset
PROPERTIES
  RevenueKept
  IsEscrow
\* Payments and requests are finitely many: the calls all end.
CHECK_DEADLOCK FALSE
