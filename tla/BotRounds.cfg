SPECIFICATION FairSpec
CONSTANTS
  u1 = u1
  c1 = c1
  c2 = c2
  User = {u1}
  Conn = {c1, c2}
  UserOf <- OneLearner
  Room = {r1}
  TotalRounds = 2
  StrikeLimit = 2
  MaxStrikes = 2
  Key = {k1}
  Outcome = {TRUE}
  Leaving = {c1}
  NoRoom = NoRoom
  NoConn = NoConn
  StoreFails = TRUE
  AdminAborts = TRUE
  Crashes = FALSE
INVARIANTS
  TypeOK
  RoundIntegrity
PROPERTIES
  ImplementsLedger
  MatchEnds
CHECK_DEADLOCK FALSE
