SPECIFICATION Spec
CONSTANTS
  Uids = {u1, u2}
  Changing = {}
  TaskIds = {i1, i2}
  NoTask = NoTask
  NoUid = NoUid
  MaxCommands = 1
  CheckerOn = FALSE
INVARIANTS
  ReloadRevives
