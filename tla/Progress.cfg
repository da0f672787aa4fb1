SPECIFICATION ProgressSpec
CONSTANTS
  None = None
  Workers = {w1, w2}
  Clients = {c1}
  Pollers = {}
  Tasks = {k1, k2, k3}
  CreateMayFail = FALSE
  Contenders = {t1, t2, t3, t4}
  Wasm = TRUE
  Waiters = {t1, t2, t3}
  Callers = {t1}
  FnNames = {1, 2}
  Handlers = {1}
  MaxDepth = 2
INVARIANTS Consistent NoLostWakeup WorkersWoken AnswersTrue
PROPERTIES
  WaitsComeBack
  DestroyComesBack
  EverybodyHasTurns
  ImplementsMutex
  EverybodyGoesOn
CHECK_DEADLOCK FALSE
