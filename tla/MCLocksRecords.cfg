CONSTANTS
  Fibers = {f1, f2, f3}
  NoFiber = NoFiber
  Keys = {e1, e2}
  AnyKey = AnyKey
  AllKeys = AllKeys
  MaxDepth = 2
  RecordKeys = {k1, k2, k3}
  Vals = {v1, v2}
  Uses = {}
  MaxLen = 2
  MaxBytes = 4
  Sizes = {2}
  SeqBytes = 8
SPECIFICATION MCSpec
SYMMETRY Symmetry
INVARIANTS
  MutualExclusion
  NoStrandedWaiter
  NoLostWaiter
  OneQueue
  IndexSound
PROPERTIES
  FilesImplement
CHECK_DEADLOCK FALSE
