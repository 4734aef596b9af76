SPECIFICATION FairSpec
CONSTANTS
  Calls = {c1, c2}
  Attempts = 2
  Threshold = 2
  Secondaries = 1
  helper = helper
  turn = turn
  request = request
  Scopes = {helper, turn, request}
  Parent <- Nested
  Budget <- Budgets
  MaxTokens = 2
  NoScope = NoScope
INVARIANTS
  OvershootIsBounded
PROPERTIES
  CancelledCallsStayDown
  NeverWedged
CHECK_DEADLOCK FALSE
