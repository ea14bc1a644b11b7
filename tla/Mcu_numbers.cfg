SPECIFICATION Spec
CONSTANTS
  Msgs = {"a", "b", "c"}
  Sync = {"a", "b", "c"}
  Retries = {"a"}
  Tries = 2
  SeqMax = 2
  MaxFull = 0
  MaxOff = 1
INVARIANT NoDangling
PROPERTY AnswersOwn
CHECK_DEADLOCK FALSE
