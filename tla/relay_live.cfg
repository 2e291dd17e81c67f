SPECIFICATION FairSpec
CONSTANTS
  Session = {1, 2}
  Surface = {k1, k2}
  NoTarget = NoTarget
  Relay = {r1}
  ReadCount = 1
  MaxLen = 3
  MaxReplies = 1
  MaxFaults = 1
  MaxCrashes = 0
PROPERTIES RoutableRepliesAreRead PassesEnd
