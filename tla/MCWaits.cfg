CONSTANTS
  Fibers = {m, t, u}
  Main = m
  NoFiber = NoFiber
  Keys = {e1, e2}
  AnyKey = AnyKey
  AllKeys = AllKeys
  MaxDepth = 1
  MaxSpawns = 2
  Delaying = {d1, d2, d3, d4}
  MaxTime = 3
  a = a
  b = b
  c = c
  gt = gt
  f1 = f1
  f2 = f2
  NoTask = NoTask
  NoFile = NoFile
  FileLen = 3
  MaxReads = 2
  InputLen = 6
  RT_INPUT_CHUNK = 3
SPECIFICATION MCSpec
INVARIANTS
  WaitsSound
  ReadsExact
PROPERTIES
  WaitsEnd
CHECK_DEADLOCK FALSE
