SPECIFICATION Spec
CONSTANTS
  Providers = {p, q}
  Throwing = {p}
  Nobody = Nobody
  MaxLen = 0
  MaxEvents = 2
  MaxLives = 1
  MaxChanges = 0
INVARIANTS
  ThrownEventsComeBack
CHECK_DEADLOCK FALSE
