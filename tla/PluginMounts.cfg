SPECIFICATION FairSpec
CONSTANTS
  p = p
  q = q
  r = r
  s = s
  t = t
  k = k
  l = l
  Plugins = {p, q, r}
  Shared = {s, t}
  Keys = {k, l}
  KeyOf <- OwnAndTaken
  Nested <- NestedIn
  Observing = {p, s, t}
  AppKeys = {k}
  Disciplined = TRUE
  App = App
  Nobody = Nobody
INVARIANTS
  
  RetractionIsComplete
  ObserversFollowTheApplication
PROPERTIES
  OperationsEnd
CHECK_DEADLOCK FALSE
