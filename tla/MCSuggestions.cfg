CONSTANTS
  Sessions = {s1, s2}
  None = None
  Letters = {"a", "b"}
  Space = " "
  Docs0 <- MCDocs0
  NewTexts <- MCNewTexts
  MaxLength = 3
  MaxEdits = 2
  MaxOps = 1
SYMMETRY Symmetric
SPECIFICATION Spec
INVARIANT TypeOK
PROPERTIES
  EditIsExact
  RejectingRestores
CHECK_DEADLOCK FALSE
