\* Everything a tab does at once, with failures and the page loaded again.
SPECIFICATION FairFormSpec
CONSTANTS
  a1 = a1  a2 = a2  s1 = s1  r1 = r1  p1 = p1  k1 = k1  k2 = k2
  Known = {}
  Arriving = {a1, a2}
  KeyOf <- TwoSecrets
  Submits = {s1}
  Reloads = {r1}
  Payments = {p1}
  AccountOf <- PaymentFromTyped
  Nobody = Nobody
  MaxRefreshes = 1
  Faults = TRUE
  Choices <- ThreeEntries
  Due = 100
  Extra = 100
INVARIANTS
  TypeOK
  ListFaithful
  SecretsKept
PROPERTIES
  StuckForGood
  EverySaveEnds
  HonestPostGranted
  GrantedAsShown
\* The user may stop.
CHECK_DEADLOCK FALSE
