SPECIFICATION RunnerAlone
CONSTANTS
  a1 = a1
  a2 = a2
  a3 = a3
  b1 = b1
  b2 = b2
  c1 = c1
  c2 = c2
  a4 = a4
  e1 = e1
  e2 = e2
  e3 = e3
  w1 = w1
  w2 = w2
  s1 = s1
  s2 = s2
  l1 = l1
  l2 = l2
  m1 = m1
  m2 = m2
  None = None
  Threads <- Couple
  Dbs = {1, 2}
  Hooks <- FourHooks
  DbOf <- OwnersOfHooks
  Entries <- ThreeEntries
  MallocFails = FALSE
  Rows = {1}
  Names <- Two
  MaxGuards = 3
  MaxSavepoints = 3
  Coros <- Three
  Scopes <- Two
  MainOf <- MainOfEach
  Conns <- Three
  Pools = {1, 2, 3}
  Kinds = {"vtab", "tvf", "coro"}
  Generators = {"fiber"}
  Modules = {1, 2}
  VTabs <- Two
  Cursors = {1}
  MaxRows = 2
  FnNames <- Two
  Groups = {1}
  Databases <- Couple
  Things <- Two
  Owners <- Classed
  ClassOf <- Classes
  Workers <- Two
  Objects <- Couple
  Windows = TRUE
  Scripts <- SomeScripts
  Required = TRUE
  FirstRoom = 1
  Argvs <- SomeArgvs
  Keys <- KeysOfParams
  Options <- OffOn
  MaxParams = 2
INVARIANT TrueMeansNoneFailed
CHECK_DEADLOCK FALSE
