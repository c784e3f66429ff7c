SPECIFICATION Spec
CONSTANTS
  Tab = {t1}
  Session = {s1}
  NumQuestions = 3
  AtFirst <- FirstIsDraft
  Limit = 2
  Official = FALSE
  AdminActs = FALSE
  Lingers = TRUE
  MaxEdits = 1
  MaxFaults = 0
  None = None
INVARIANTS
  LearnerCanGoOn
