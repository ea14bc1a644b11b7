CONSTANTS
  BlockCount = 9
  MgmtStart = 3
  FactoryBad = {0, 1}
  ForcedCreate = TRUE
  MaxFail = 5
  MaxAttach = 2
SPECIFICATION Spec
INVARIANTS KeepsPromises RegionsApart Injective
PROPERTY SignatureStays
