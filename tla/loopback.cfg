SPECIFICATION RuntimeSpec
CONSTANTS
  Names <- MCNames
  LocalCommunities = {}
  Envelopes <- MCEnvelopes
  LocalNode = "self"
  LinkIds = {"left", "right"}
  NoLink = NoLink
  NoKey = NoKey
  MaxLinks = 2
  MaxSeen = 1
  CommandCapacity = 16
  StoreCapacity = 2
  RejectExpiredOnPut = TRUE
  AllowStoreAndForward = TRUE
  MaxTime = 1
  MetricMax <- NoCounters
  Enabled <- MCEnabled
  QueueCapacity = 1
  TooLong = {3}
INVARIANTS FlightSound EndpointsMatchTable NothingLost
PROPERTIES ImplementsCore
