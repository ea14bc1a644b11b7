CONSTANTS
  Tasks = {t1, t2, t3}
SPECIFICATION FairSpec
INVARIANTS MutualExclusion NoLostWakeup
PROPERTIES SleepEnds FreeIsTaken
CHECK_DEADLOCK FALSE
