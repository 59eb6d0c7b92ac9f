SPECIFICATION Spec
CONSTANTS
  Uids = {u1}
  Changing = {}
  TaskIds = {i1, i2}
  NoTask = NoTask
  NoUid = NoUid
  MaxCommands = 1
  CheckerOn = FALSE
PROPERTIES
  CtrlCObeyed
