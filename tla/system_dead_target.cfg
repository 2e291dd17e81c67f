SPECIFICATION FairSpec
CONSTANTS
  Surface = {k1}
  Session = {1}
  NoTarget = NoTarget
  MaxEvents = 2
  MaxXaddFaults = 0
  MaxRestarts = 0
  ReadCount = 1
  MaxLen = 3
  MaxReplies = 1
  MaxReadFaults = 0
  Plugin = r1
  EventKind = {"connect", "text"}
PROPERTIES DeadTargetIsReset
