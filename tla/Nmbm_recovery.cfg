CONSTANTS
  BlockCount = 9
  MgmtStart = 1
  FactoryBad = {0}
  ForcedCreate = TRUE
  MaxFail = 3
  MaxAttach = 3
SPECIFICATION Spec
INVARIANTS TypeOK Recoverable CopiesAgree
PROPERTY ImplementsStore
