CONSTANTS
  Tasks = {a, b}
  Main = a
  Files = {f1, f2}
  NoFile = NoFile
  Lens = {1, 2}
  LINESIZE = 2
  RT_BUF = 2
  MaxChars = 5
  Addrs = {p1, p2}
  NULL = NULL
  FileLen = 7
  RT_FILE_IN_BUF = 3
SPECIFICATION MCSpec
INVARIANTS
  StreamsExact
PROPERTIES
  RecordsDrained
CHECK_DEADLOCK FALSE
