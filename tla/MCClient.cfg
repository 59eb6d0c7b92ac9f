SPECIFICATION Spec
CONSTANTS
  Messages <- MCMessages
  Frames <- MCFrames
  Config <- MCConfig
  OfflineMsg <- MCOffline
  Garbled = Garbled
  Minutes = {1, 2}
  MaxHosts = 2
  ChannelCap = 1
  MaxFrames = 2
INVARIANTS
  TypeOK
  RecordsMatchMessages
  MessagesMatchFrames
  FrozenStatusIgnored
PROPERTIES
  DiallingEnds
  ClosedConnectionLeft
