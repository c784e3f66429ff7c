SPECIFICATION Spec
CONSTANTS
  u1 = u1
  c1 = c1
  c2 = c2
  User = {u1}
  Conn = {c1, c2}
  UserOf <- OneLearner
  Room = {r1, r2}
  TotalRounds = 1
  StrikeLimit = 1
  MaxStrikes = 0
  Key = {k1}
  Outcome = {TRUE}
  Leaving = {c1}
  NoRoom = NoRoom
  NoConn = NoConn
  StoreFails = FALSE
  AdminAborts = FALSE
  Crashes = TRUE
INVARIANTS
  RoomsAreHeld
  AbandonSparesPlayedOut
  NextMatchRetiresOrphans
SYMMETRY RoomSymmetry
CHECK_DEADLOCK FALSE
