SPECIFICATION HistorySpec
CONSTANTS
  Names <- MCNames
  LocalCommunities <- MCLocalCommunities
  Envelopes <- MCEnvelopes
  LocalNode = "self"
  LinkIds = {a}
  NoLink = NoLink
  NoKey = NoKey
  MaxLinks = 2
  MaxSeen = 2
  CommandCapacity = 1
  StoreCapacity = 2
  RejectExpiredOnPut = TRUE
  AllowStoreAndForward = TRUE
  MaxTime = 2
  MetricMax <- StoredAndExpired
INVARIANTS ExpiredCountedOnce
PROPERTIES FlushTerminates DeliveredOnceInWindow
