CONSTANTS
  BlockCount = 11
  MgmtStart = 2
  FactoryBad = {0, 1, 8}
  ForcedCreate = TRUE
  MaxFail = 1
  MaxAttach = 1
SPECIFICATION Spec
PROPERTY MapsUnusedBlock
