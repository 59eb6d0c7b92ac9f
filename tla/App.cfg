SPECIFICATION AppSpec
CONSTANTS
  Uids = {u1}
  Changing = {u1}
  TaskIds = {i1, i2}
  NoTask = NoTask
  NoUid = NoUid
  MaxCommands = 2
  CheckerOn = TRUE
  Cap = 1
PROPERTIES
  StatusCatchesUp
  StopObeyed
  ReloadEnds
