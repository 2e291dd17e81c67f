SPECIFICATION Spec
CONSTANTS
  Session = {1}
  Surface = {k1}
  NoTarget = NoTarget
  Relay = {r1}
  ReadCount = 2
  MaxLen = 2
  MaxReplies = 3
  MaxFaults = 1
  MaxCrashes = 1
INVARIANTS TypeOK NothingLostSilently RepliesInOrder
