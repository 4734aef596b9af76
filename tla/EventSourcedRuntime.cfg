SPECIFICATION ESFairSpec
CONSTANTS
  c1 = c1
  c2 = c2
  c3 = c3
  k1 = k1
  Calls = {c1, c2, c3}
  Requests = {r1, r2}
  Commands = {k1, k2}
  DedupLimit = 1
  NoCall = NoCall
  EventsOf <- TwoNoneOne
CONSTRAINT OneMayDiffer
INVARIANTS
  OneTurnAtATime
  SubmissionOrder
  NoLostUpdate
  AtMostOncePerWindow
  AnswersAreTrue
  JournalMatchesState
  MarkersAreFailedTurns
PROPERTIES
  TimeoutsAreRecorded
  ImplementsJournaledSeat
  EveryCallSettles
CHECK_DEADLOCK FALSE
