\* Two deposits, two tabs, three reloads, changes of their rows and failures.
SPECIFICATION FairSpec
CONSTANTS
  h1 = h1  h2 = h2  t1 = t1  t2 = t2  l1 = l1  l2 = l2  l3 = l3
  Hashes = {h1, h2}
  Tabs = {t1, t2}
  Loads = {l1, l2, l3}
  TabOf <- TwoTabs
  Absent = Absent
  MaxChanges = 2
  Faults = TRUE
INVARIANTS
  TypeOK
  ListExact
  NumbersAreOwn
  ReloadsConverge
PROPERTIES
  NewerStays
  EveryReloadEnds
\* Reloads are finitely many, and the user may rest.
CHECK_DEADLOCK FALSE
