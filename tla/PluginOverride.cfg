SPECIFICATION Spec
CONSTANTS
  p = p
  q = q
  r = r
  s = s
  t = t
  k = k
  l = l
  Plugins = {p, q}
  Shared = {}
  Keys = {k}
  KeyOf <- SameKey
  Nested <- NestNothing
  Observing = {}
  AppKeys = {}
  Disciplined = TRUE
  App = App
  Nobody = Nobody
INVARIANTS
  NoSilentOverride
CHECK_DEADLOCK FALSE
