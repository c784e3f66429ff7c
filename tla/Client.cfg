SPECIFICATION FairSpec
CONSTANTS
  Bot = {b1}
  Banner = {n1}
  Link = {l1}
  Invite = {i1}
  MaxAttempts = 1
  MaxResets = 2
  NoAttempt = NoAttempt
INVARIANTS
  TypeOK
  SentOnceInOrder
PROPERTIES
  GivenUpIsNotSent
  AcceptanceEnds
CHECK_DEADLOCK FALSE
