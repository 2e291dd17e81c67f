SPECIFICATION FairSpec
CONSTANTS
  Session = {1}
  Surface = {k1}
  NoTarget = NoTarget
  Relay = {r1}
  ReadCount = 1
  MaxLen = 3
  MaxReplies = 1
  MaxFaults = 0
  MaxCrashes = 1
PROPERTIES RestartRecovers
