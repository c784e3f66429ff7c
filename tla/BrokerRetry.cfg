SPECIFICATION Spec
CONSTANTS
  Task = {t1, t2}
  narrow = narrow
  wide = wide
  call = call
  drop = drop
  push = push
  Request = {narrow, wide, call}
  Wide = {wide}
  Native = {call}
  EffectOf <- Effects
  Decision = {d1, d2}
  MaxPrint = 1
  NoDecision = NoDecision
  NoRequest = NoRequest
PROPERTIES
  NoBlindRetry
SYMMETRY BrokerSymmetry
CHECK_DEADLOCK FALSE
