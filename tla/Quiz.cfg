SPECIFICATION FairSpec
CONSTANTS
  Tab = {t1}
  Session = {s1}
  NumQuestions = 3
  AtFirst <- FirstIsDraft
  Limit = 2
  Official = TRUE
  AdminActs = TRUE
  Lingers = FALSE
  MaxEdits = 1
  MaxFaults = 1
  None = None
INVARIANTS
  TypeOK
  CountsAgree
  ResultsAreStored
  ZeroMeansOver
PROPERTIES
  DecidedIsFinal
  CountdownShowsResults
