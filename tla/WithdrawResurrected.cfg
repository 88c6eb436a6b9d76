\* A payment is being applied while the deposit is paid out.
SPECIFICATION Spec
CONSTANTS
  h1 = h1  p1 = p1  p2 = p2  r1 = r1  r2 = r2  r3 = r3  x1 = x1
  Hashes = {h1}
  Payments = {p1, p2}
  HashOf <- TwoHashOf
  ValueOf <- TwoValues
  Requests = {r1}
  ClaimOf <- OneClaimOf
  TaxRates = {50}
  MaxTaxes = 0
  MaxCrashes = 0
  Faults = {}
  Overlap = FALSE
  NoRequest = NoRequest
  Transfers = {}
  PriceOf <- NoPrice
INVARIANTS
  NothingLeftAfterPayout
\* Payments and requests are finitely many: the calls all end.
CHECK_DEADLOCK FALSE
