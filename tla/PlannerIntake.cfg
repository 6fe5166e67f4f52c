SPECIFICATION Spec
CONSTANTS
  MaxSubtasks = 2
  Name <- MCName
  Blank <- MCBlank
  Replies <- MCReplies
INVARIANTS
  IntakeSound
  GoodReplyWins
