SPECIFICATION Spec
CONSTANTS
  Surface = {k1}
  Session = {1}
  NoTarget = NoTarget
  MaxEvents = 2
  MaxXaddFaults = 1
  MaxRestarts = 1
  ReadCount = 1
  MaxLen = 3
  MaxReplies = 2
  MaxReadFaults = 1
  Plugin = r1
  EventKind = {"connect", "disconnect", "text"}
INVARIANTS SendersAreHeard LateRepliesAreBounded
PROPERTIES ImplementsRelay ReadsOnlyTheInvited
