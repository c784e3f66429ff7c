SPECIFICATION FairSpec
CONSTANTS
  u1 = u1
  u2 = u2
  User = {u1, u2}
  Conn = {u1, u2}
  UserOf <- OneTabEach
  Room = {r1}
  Challenge = {h1}
  TotalRounds = 2
  Outcome = {TRUE, FALSE}
  Leaving = {}
  NoUser = NoUser
  NoRoom = NoRoom
  StoreFails = FALSE
  AdminAborts = TRUE
  Crashes = FALSE
INVARIANTS
  TypeOK
  RoundIntegrity
PROPERTIES
  ImplementsLedger
  MatchEnds
CHECK_DEADLOCK FALSE
