SPECIFICATION Spec
CONSTANTS
  c1 = c1
  c2 = c2
  Calls = {c1}
  Requests = {r1}
  Commands = {k1}
  EventsOf <- OneEach
  MaxLen = 0
  Resends = TRUE
  NoCall = NoCall
INVARIANTS
  JournalMatchesCommits
CHECK_DEADLOCK FALSE
