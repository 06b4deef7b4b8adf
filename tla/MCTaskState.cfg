CONSTANTS
  Fibers = {f1, f2}
  Keys = {k1, k2}
  Lens = {1, 2}
  Extents = {1}
  Vals = {1, 2}
  Addrs = {a1, a2}
  NoAddr = none
  FirstCap = 1
  MaxRank = 1
  MaxDepth = 2
  Task = t1
  Auto = {x1}
  Static = {s1}
  Regions = {r1, r2, r3}
  Blocks = {b1, b2, b3, b4}
  Null = null
  AreaSize = 5
  Sizes = {0, 1, 2}
  Hdr = 1
  Callers = {c1}
  Prios = {0, 1, 2}
  MaxTasks = 3
SPECIFICATION MCSpec
SYMMETRY Symmetry
INVARIANTS
  StorageSound
  HandlesSound
PROPERTIES
  OnlyRecyclingLoses
  Implements
CHECK_DEADLOCK FALSE
