CONSTANTS
  BlockCount = 11
  MgmtStart = 1
  FactoryBad = {0}
  ForcedCreate = TRUE
  MaxFail = 5
  MaxAttach = 1
SPECIFICATION FairSpec
INVARIANTS RegionsApart CopiesAgree
PROPERTY EveryCallEnds
