SPECIFICATION AllSpec
CONSTANTS
  Parts = {"order"}
  k1 = k1
  k2 = k2
  k3 = k3
  k4 = k4
  c1 = c1
  c2 = c2
  None = None
  Tables = {"map"}
  Keys <- FourKeys
  Values <- Two
  Hash <- Crowded
  MinCap = 4
  GrowAt = 60
  ShrinkAt = 25
  MaxSize = 16
  Caps = {3}
  Factors = {}
  Powers = {}
  Sizes = {4}
  MallocFails = FALSE
  Slots <- Two
  Blocks = {b1, b2, b3}
  Numbers = {number}
  Short = {short}
  Long = {long, longer}
  Nothing = Nothing
  Lost = Lost
  Gone = Gone
  SampleKeys <- UuidKeys
  Views <- UuidViews
  Exact = 2
  MaxKeys = 2
  BufferKinds = {"bytes", "string", "vector", "fixed bytes", "fixed string", "fixed vector", "c vector", "c fixed vector"}
  Objects <- Two
  Elements = {1, 2}
  Uppers = {1}
  Junk = 99
  InlineSize = 2
  FirstCap = 2
  Slow = 4
  Slower = 6
  Wanted = {3}
  Provided = {2, 4}
  MaxTier = 3
  MinBase = 8
  MaxLength = 3
  BitKinds = {"array", "vector", "fixed vector"}
  BitObjects <- Two
  Word = 2
  InlineBits = 2
  FirstHeap = 4
  Asked = {3}
  MaxBits = 4
  VecKinds = {"vec", "vec 0", "tuple", "tuple 0"}
  Vecs <- Two
  Cells = {1}
  Inline = 2
  FirstRoom = 2
  CapLimit = 16
  MaxWidth = 2
  Rooms = {3, 4}
  MaxLen = 3
SYMMETRY Symmetry
INVARIANTS
  ViewsFound
