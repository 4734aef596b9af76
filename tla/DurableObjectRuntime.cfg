SPECIFICATION FairSpec
CONSTANTS
  c1 = c1
  c2 = c2
  c3 = c3
  Calls = {c1, c2, c3}
  Requests = {r1, r2}
  Commands = {k1}
  DedupLimit = 1
  NoCall = NoCall
  EventsOf <- TwoNoneOne
INVARIANTS
  AtMostOncePerWindow
  JournalTellsTheTurns
PROPERTIES
  ImplementsActorSeat
  EveryTurnSettles
CHECK_DEADLOCK FALSE
