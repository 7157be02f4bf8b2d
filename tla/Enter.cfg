SPECIFICATION Spec
CONSTANTS
  Tables <- BothTables
  Dialogues <- SmallDialogues
  CommandLines <- OneLine
  Size = 32
INVARIANTS
  AnswersAreTheUsers
\* The programs end.
CHECK_DEADLOCK FALSE
