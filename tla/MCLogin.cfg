SPECIFICATION Spec
CONSTANTS
  Sessions = {s1, s2, s3}
  NoAuth = NoAuth
  NoSession = NoSession
  MaxFaults = 4
INVARIANTS
  TypeOK
  PairsMatch
  NeverOwnRevoked
  FileStaysUsable
  OneScanPerFault
PROPERTIES
  ComesUp
