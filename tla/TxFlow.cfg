SPECIFICATION FlowSpec
CONSTANTS
  N = 4
  Low = 1
  High = 3
  PerBand = 4
  Mixed = FALSE
  MaxPkts = 7
INVARIANTS FlowTypeOK NeverReplaced NeverOverwritten Conserved CountersExact TokenThere
PROPERTY Drains
CHECK_DEADLOCK FALSE
