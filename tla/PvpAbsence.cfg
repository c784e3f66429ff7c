SPECIFICATION Spec
CONSTANTS
  u1 = u1
  u2 = u2
  User = {u1, u2}
  Conn = {u1, u2}
  UserOf <- OneTabEach
  Room = {r1}
  Challenge = {h1}
  TotalRounds = 1
  Outcome = {}
  Leaving = {u1, u2}
  NoUser = NoUser
  NoRoom = NoRoom
  StoreFails = FALSE
  AdminAborts = FALSE
  Crashes = FALSE
INVARIANTS
  TimersAreOfThePresent
  OneEnding
SYMMETRY LearnerSymmetry
CHECK_DEADLOCK FALSE
