SPECIFICATION Spec
CONSTANTS
  Names <- MCNames
  LocalCommunities <- MCLocalCommunities
  Envelopes <- EchoEnvelopes
  LocalNode = "self"
  LinkIds = {a, b}
  NoLink = NoLink
  NoKey = NoKey
  MaxLinks = 2
  MaxSeen = 4
  CommandCapacity = 16
  StoreCapacity = 2
  RejectExpiredOnPut = TRUE
  AllowStoreAndForward = TRUE
  MaxTime = 1
  MetricMax <- NoCounters
PROPERTIES EchoFree
