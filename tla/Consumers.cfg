SPECIFICATION Spec
CONSTANTS
  Providers = {p, q}
  Throwing = {p}
  Nobody = Nobody
  MaxLen = 2
  MaxEvents = 3
  MaxLives = 2
  MaxChanges = 1
INVARIANTS
  OnceInOrder
  CursorsAreEarned
  SubscribersMissNothing
  SubscribersAreWarnedOfGaps
  AtLeastOnce
CHECK_DEADLOCK FALSE
