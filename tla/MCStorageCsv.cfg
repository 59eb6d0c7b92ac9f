SPECIFICATION Spec
SYMMETRY RecordSymmetry
CONSTANTS
  FreeRecords = {f1, f2}
  PaidRecords = {p1}
  Records <- MCRecords
  Tables <- MCTables
  TableOf <- MCTableOf
  NoRecord = NoRecord
  ChannelCap = 2
  BatchSize = 2
  MaxBuffer = 2
  Backend = "csv"
  BackendFails = TRUE
PROPERTIES
  ImplementsSink
