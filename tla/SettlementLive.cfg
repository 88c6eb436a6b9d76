\* Three claims wait in line for the mutex, failures of the endpoint included,
\* and a pipe takes two payments one at a time.
SPECIFICATION FairSpec
CONSTANTS
  h1 = h1  p1 = p1  p2 = p2  r1 = r1  r2 = r2  r3 = r3  x1 = x1
  Hashes = {h1}
  Payments = {p1, p2}
  HashOf <- TwoHashOf
  ValueOf <- TwoValues
  Requests = {r1, r2, r3}
  ClaimOf <- ThreeClaimOf
  TaxRates = {50}
  MaxTaxes = 0
  MaxCrashes = 0
  Faults = {"endpoint"}
  Overlap = FALSE
  NoRequest = NoRequest
  Transfers = {}
  PriceOf <- NoPrice
PROPERTIES
  FifoMutex
  EveryPaymentCredited
  EveryRequestAnswered
\* Payments and requests are finitely many: the calls all end.
CHECK_DEADLOCK FALSE
