SPECIFICATION Spec
CONSTANTS
  Tables <- BothTables
  Dialogues <- AllDialogues
  CommandLines <- SmallCommandLines
  Size = 32
INVARIANTS
  AnswersInOrder
  LoadedIsWritten
  FilesAsTold
  FilesOfCfgenSuffice
\* The programs end.
CHECK_DEADLOCK FALSE
