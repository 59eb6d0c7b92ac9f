SPECIFICATION Spec
CONSTANTS
  Bodies <- ShortBodies
  MaxInner = 2
  Noise = {0, 15, 17, 127}
INVARIANTS
  NeverPanics
  EveryPacketAdvances
  FramesArriveWhole
CHECK_DEADLOCK FALSE
