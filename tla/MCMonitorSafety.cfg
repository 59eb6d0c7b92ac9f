SPECIFICATION Spec
SYMMETRY MonitorSymmetry
CONSTANTS
  Uids = {u1, u2}
  Changing = {u1, u2}
  TaskIds = {i1, i2, i3, i4}
  NoTask = NoTask
  NoUid = NoUid
  MaxCommands = 1
  CheckerOn = TRUE
INVARIANTS
  TypeOK
  OneTaskPerStreamer
  TasksReachable
  OnlyListed
  AbortedAtShutdown
  ReloadRegisters
