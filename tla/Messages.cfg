SPECIFICATION Spec
CONSTANTS
  a = a
  b = b
  Texts = {a, b}
  Mark = Mark
  NoText = NoText
  Garbled = Garbled
  errmsgsiz = 4
  MaxPieces = 2
INVARIANTS TypeOK BuffersOwned
PROPERTIES TrialLeavesOlder ImplementsErrorStack ReportEnds
