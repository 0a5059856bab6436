SPECIFICATION Spec
CONSTANTS
  Client = {c1, c2, c3}
  Boot = boot
  ExpectedConns = 3
  MaxInbox = 2
SYMMETRY Symmetry
INVARIANTS
  TypeOK
  DoneIsTrue
  PairsExchange
  PanicShows
CHECK_DEADLOCK FALSE
