SPECIFICATION Spec
CONSTANTS
  Kinds = {"coro"}
  Generators = {"fiber"}
  Modules = {1}
  Tables = {1}
  Cursors = {1}
  MaxRows = 2
  Null = Null
  Starved = FALSE
INVARIANT CloseDestroysGenerator
CHECK_DEADLOCK FALSE
