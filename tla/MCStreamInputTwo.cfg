CONSTANTS
  Tasks = {a}
  Files = {f1, f2}
  Addrs = {p1, p2}
  NULL = NULL
  Reuse = FALSE
  FileLen = 5
  RT_FILE_IN_BUF = 2
  MaxOpens = 2
SPECIFICATION Spec
INVARIANT ReadsInOrder
CHECK_DEADLOCK FALSE
