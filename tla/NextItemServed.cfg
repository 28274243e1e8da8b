SPECIFICATION FairSpec
CONSTANTS
  None = None
  d1 = d1
  d2 = d2
  u1 = u1
  Item <- TwoDowns
  Uploads = {}
  Folder <- OwnFolder
  SizeOf <- OneBlock
  Foreign = {}
  NoSource = {}
  NoTarget = {d1}
  Block = 1
  IntHalf = 4
  MaxDelay = 0
  MaxLen = 2
  MaxFd = 4
  AskRetry = FALSE
  AskDiskFull = TRUE
PROPERTIES
  NextItemServed
