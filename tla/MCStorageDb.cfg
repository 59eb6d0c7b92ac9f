SPECIFICATION Spec
CONSTANTS
  FreeRecords = {f1, f2}
  PaidRecords = {p1}
  Records <- MCRecords
  Tables <- MCTables
  TableOf <- MCTableOf
  NoRecord = NoRecord
  ChannelCap = 2
  BatchSize = 2
  MaxBuffer = 2
  Backend = "sqlite"
  BackendFails = TRUE
INVARIANTS
  TypeOK
  Conservation
  OnePlace
  StoredOnce
  BufferBounded
  GuardFindsNothing
  StoredInOrder
PROPERTIES
  ImplementsSink
  ImplementsChannel
  Settles
  BackpressureReleases
  CloseTerminates
