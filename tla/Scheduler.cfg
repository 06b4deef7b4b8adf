CONSTANTS
  NWorkers = 2
  Tasks = {t1, t2}
  Main = Main
  NoFiber = NoFiber
  NoWorker = NoWorker
  Prios = {0, 1}
  MaxSpawns = 3
  MaxParks = 2
  MaxPrioParks = 1
SPECIFICATION Spec
SYMMETRY TaskSymmetry
INVARIANTS
  FibersSound
  NoSleepOnWork
PROPERTIES
  NoHalfSavedResume
  
CHECK_DEADLOCK FALSE
