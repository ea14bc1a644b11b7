CONSTANTS
  BlockCount = 5
  MgmtStart = 1
  FactoryBad = {}
  MaxCount = 2
SPECIFICATION Spec
INVARIANT LoopsAgree
PROPERTY LoopsEnd
