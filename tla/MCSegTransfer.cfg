\* A file of three units over two connections.
SPECIFICATION FairSpec
CONSTANTS
  FileSize = 3
  Slack = 0
  Connections = 2
  MinSplit = 1
  MaxRetries = 1
  ErrorBody = 0
  CrashPoints = {"multi", "returned"}
INVARIANTS
  SegmentsTile
  ProgressHonest
  JournalHonest
PROPERTIES
  Promise
  DownloadReturns
