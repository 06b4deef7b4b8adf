CONSTANTS
  NWorkers = 2
  Tasks = {t1, t2}
  Main = Main
  NoFiber = NoFiber
  NoWorker = NoWorker
  Prios = {0}
  MaxSpawns = 2
  MaxParks = 1
  MaxPrioParks = 1
SPECIFICATION FairSpec
PROPERTIES
  
  EndsAfterMain
CHECK_DEADLOCK FALSE
