SPECIFICATION Spec
CONSTANTS
  Names <- MCNames
  LocalCommunities <- MCLocalCommunities
  Envelopes <- RefusedEnvelopes
  LocalNode = "self"
  LinkIds = {a, b, c}
  NoLink = NoLink
  NoKey = NoKey
  MaxLinks = 2
  MaxSeen = 1
  CommandCapacity = 1
  StoreCapacity = 1
  RejectExpiredOnPut = TRUE
  AllowStoreAndForward = TRUE
  MaxTime = 2
  MetricMax <- NoCounters
INVARIANT LinkTableSound
SYMMETRY LinkSymmetry
