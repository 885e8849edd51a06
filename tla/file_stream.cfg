SPECIFICATION Spec
CONSTANTS
  Header = 1
  MaxPacket = 4
  WrBuffer = 12
  RdBuffer = 8
  Page = 16
  IntRange = 56
  Sizes = {0, 3, 7, 19, 30}
  Offsets = {0, 15}
  Counts = {0, 2, 10, 13}
  MaxOps = 3
  MaxChanges = 1
INVARIANT DataFramed
INVARIANT DownloadExact
INVARIANT UploadExact
INVARIANT UploadConsumed
CHECK_DEADLOCK FALSE
