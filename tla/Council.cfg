\* Two presses of Submit, two texts, a turn of the page, any failure; the second
\* text, as a transfer, is one to another account.
SPECIFICATION FairSpec
CONSTANTS
  MaxPosts = 2
  MaxTexts = 2
  MaxTurns = 1
  Pages <- TwoPages
  Elsewhere <- Second
  Faults = TRUE
INVARIANTS
  TypeOK
  ListFollows
  OneSuccessEach
  OpenedOnce
PROPERTIES
  FormKept
  ButtonReturns
\* The user may rest.
CHECK_DEADLOCK FALSE
