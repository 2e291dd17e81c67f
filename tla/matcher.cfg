SPECIFICATION Spec
CONSTANTS
  Name = {"alpha"}
  Other = {"Please"}
  NoName = "-"
  MaxWords = 4
CHECK_DEADLOCK FALSE
INVARIANTS Unambiguous BadNamesAreConversation ConversationPassesThrough
PROPERTIES FirstCommandWins
