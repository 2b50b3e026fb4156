SPECIFICATION FairSpec
CONSTANTS
  NoLoop = NoLoop
  Loops = {l1, l2}
  Tasks = {f1, f2, f3}
  StrayTids = {}
INVARIANTS
  TypeOK
  NoLostWakeup
  WakeReadSucceeds
PROPERTIES
  QueueSafety
  EveryFuncRuns
