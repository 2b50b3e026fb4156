SPECIFICATION Spec
CONSTANTS
  NoLoop = NoLoop
  Loops = {l1, l2}
  Tasks = {f1, f2}
  StrayTids = {}
PROPERTY RunsAtOnceOnOwnThread
