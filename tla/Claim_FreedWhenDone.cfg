SPECIFICATION Spec
CONSTANTS
  Msgs = {"a", "b", "c"}
  Sync = {"a", "b"}
  Retries = {"a"}
  Tries = 2
  SeqMax = 2
  MaxFull = 1
  MaxOff = 1
INVARIANT FreedWhenDone
CHECK_DEADLOCK FALSE
