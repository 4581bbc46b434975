SPECIFICATION FairSpec
CONSTANTS
  Client = {c1}
  LOG_LEVEL_NONE = 2
  lowest_log_level = 1
  one_page = 4
  buffered_writable_size = 4
  max_file_size = 3
  header = 1
  Len1 = {1, 3}
  sock_room = 2
  MaxLogs = 2
  MaxStarts = 1
  MaxTime = 1
PROPERTIES Received
