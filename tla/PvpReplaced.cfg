SPECIFICATION Spec
CONSTANTS
  u1 = u1
  u2 = u2
  User = {u1, u2}
  Conn = {u1, u2}
  UserOf <- OneTabEach
  Room = {r1, r2}
  Challenge = {h1, h2}
  TotalRounds = 1
  Outcome = {}
  Leaving = {}
  NoUser = NoUser
  NoRoom = NoRoom
  StoreFails = TRUE
  AdminAborts = FALSE
  Crashes = TRUE
INVARIANTS
  RoomsAreHeld
  PlayedOutIsSpared
SYMMETRY RivalSymmetry
CHECK_DEADLOCK FALSE
