SPECIFICATION FlowSpec
CONSTANTS
  Side = {"a", "b"}
  Kinds <- MCKinds
  AckSize = 1
  MaxOut = 6
  ReadSize = 3
  OutgoingSize = 3
  MaxSends <- MCMaxSends
INVARIANTS
  BytesAccounted
  LostOnlyForHugeMessage
PROPERTIES
  QueueDrains
CHECK_DEADLOCK FALSE
