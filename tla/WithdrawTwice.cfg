\* Two claims of one deposit that is paid once.
SPECIFICATION Spec
CONSTANTS
  h1 = h1  p1 = p1  p2 = p2  r1 = r1  r2 = r2  r3 = r3  x1 = x1
  Hashes = {h1}
  Payments = {p1}
  HashOf <- OneHashOf
  ValueOf <- OneValue
  Requests = {r1, r2}
  ClaimOf <- TwoClaimOf
  TaxRates = {50}
  MaxTaxes = 0
  MaxCrashes = 0
  Faults = {}
  Overlap = TRUE
  NoRequest = NoRequest
  Transfers = {}
  PriceOf <- NoPrice
INVARIANTS
  PaysWhatIsThere
\* Payments and requests are finitely many: the calls all end.
CHECK_DEADLOCK FALSE
