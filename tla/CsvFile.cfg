SPECIFICATION Spec
CONSTANTS
  MaxRow = 5
  MaxBatch = 2
  MaxFaults = 3
INVARIANTS
  OneRowPerFault
  HeaderOnce
