SPECIFICATION FairSpec
CONSTANTS
  Msgs = {"a", "b", "c"}
  Sync = {"a", "b"}
  Retries = {"a"}
  Tries = 2
  SeqMax = 2
  MaxFull = 0
  MaxOff = 1
INVARIANTS TypeOK NoDangling NoLateAnswer PacketThere
PROPERTY SendEnds
CHECK_DEADLOCK FALSE
