SPECIFICATION MCSpec
CONSTANTS
  Thread = {t1, t2}
  Path <- MCPath
  OpenPaths <- MCOpen
  DirPaths <- MCDirs
  SockPaths <- MCSocks
  MaxCalls = 2
  Loggers = {l1, l2}
  Levels = {2, 4}
  Lowest = {3}
  buffered_writable_size = 3
  MaxBytes = 9
  MaxWrite = 7
INVARIANTS LoggerTypeOK Prepared SomeoneServes LinesWhole WriterTypeOK NothingLost
PROPERTIES CallsReturn ImplementsByteStream FlushIsComplete CallReturns
CHECK_DEADLOCK FALSE
