SPECIFICATION FairSpec
CONSTANTS
  Client = {c1, c2}
  LOG_LEVEL_NONE = 2
  lowest_log_level = 1
  one_page = 4
  buffered_writable_size = 4
  max_file_size = 3
  header = 1
  Len1 = {1, 3}
  sock_room = 2
  MaxLogs = 3
  MaxStarts = 2
  MaxTime = 1
INVARIANTS LogTypeOK LoggedInOrder
PROPERTIES NothingLostWhileUp ExitsGracefully FilesOnlyGrow Flushed
