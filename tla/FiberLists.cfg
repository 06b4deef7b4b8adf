CONSTANTS
  Workers = {w1, w2}
  Fibers = {f1, f2}
  Null = Null
  TagMod = 4
SPECIFICATION ListSpec
SYMMETRY ListSymmetry
INVARIANTS
  LinksArePool
  OneOwner
  NoFiberLostOrTwice
PROPERTIES
  QueuesImplement
  QueuesSparePool
CHECK_DEADLOCK FALSE
