SPECIFICATION Spec
CONSTANTS
  FileSize = 3
  Slack = 1
  Connections = 2
  MinSplit = 1
  MaxRetries = 1
  ErrorBody = 1
  CrashPoints = {}
INVARIANTS
  FinalWhole
