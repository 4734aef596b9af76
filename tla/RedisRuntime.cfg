SPECIFICATION FairSpec
CONSTANTS
  c1 = c1
  c2 = c2
  Calls = {c1, c2}
  Requests = {r1, r2}
  Commands = {k1, k2}
  EventsOf <- TwoOne
  MaxLen = 1
  Resends = FALSE
  NoCall = NoCall
INVARIANTS
  NoLostUpdate
  AtMostOnceUntilExpiry
  AnswersAreFinal
  JournalIsASuffix
  JournalMatchesCommits
PROPERTIES
  ImplementsActorSeat
  SeatIsNeverWedged
CHECK_DEADLOCK FALSE
