SPECIFICATION FairSpec
CONSTANTS
  Surface = {k1}
  Session = {1}
  NoTarget = NoTarget
  MaxEvents = 2
  MaxXaddFaults = 0
  MaxRestarts = 0
  ReadCount = 1
  MaxLen = 3
  MaxReplies = 2
  MaxReadFaults = 1
  Plugin = r1
  EventKind = {"connect", "disconnect", "text"}
PROPERTIES EventsEnd ConversationsAreAnswered
