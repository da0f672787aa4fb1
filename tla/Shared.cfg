SPECIFICATION SharedSpec
CONSTANTS
  th1 = th1
  th2 = th2
  s1 = s1
  s2 = s2
  s3 = s3
  v1 = v1
  v2 = v2
  v3 = v3
  b1 = b1
  b2 = b2
  c1 = c1
  c2 = c2
  c3 = c3
  f1 = f1
  f2 = f2
  u1 = u1
  u2 = u2
  u3 = u3
  u4 = u4
  a1 = a1
  a2 = a2
  e1 = e1
  e2 = e2
  e3 = e3
  x1 = x1
  x2 = x2
  n1 = n1
  n2 = n2
  n3 = n3
  NoTask = NoTask
  Mutators <- TwoThreads
  Owner <- OwnerOf
  Strong <- ThreeStrong
  Weak <- ThreeWeak
  Blocks <- TwoBlocks
  Conns <- ThreeConns
  Files <- TwoFiles
  FileOf <- FilesOfThree
  Functions <- FunctionsOfThree
  Caches <- OneCache
  ConnOf <- OwnersOfThree
  Entries <- ThreeEntries
  Apart = TRUE
  MapMayFail = TRUE
  Tags <- TwoTags
  TagOf <- TagsOfAll
  Nodes <- ThreeNodes
  Workers = {w1, w2, w3}
  Clients = {p1, p2}
  Pollers = {p1}
  Tasks = {t1, t2, t3}
  CreateMayFail = TRUE
INVARIANTS Consistent DestroyFreesAll PointersConsistent NoDangling StatesConsistent NoUseAfterFree PoolsSafe
PROPERTIES
  WaitReturnsDrained
  ImplementsTaskPool
  ImplementsRefObject
  ImplementsStatePerFile
  BlocksReclaimed
  StatesReclaimed
  RegistryReturns
CHECK_DEADLOCK FALSE
