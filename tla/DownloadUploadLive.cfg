SPECIFICATION FairSpec
CONSTANTS
  None = None
  d1 = d1
  d2 = d2
  u1 = u1
  Item <- TwoItems
  Uploads = {u1}
  Folder <- OwnFolder
  SizeOf <- OneBlock
  Foreign = {}
  NoSource = {}
  NoTarget = {}
  Block = 1
  IntHalf = 4
  MaxDelay = 0
  MaxLen = 2
  MaxFd = 4
  AskRetry = TRUE
  AskDiskFull = TRUE
PROPERTIES
  Served
