SPECIFICATION Spec
CONSTANTS
  Names <- MCNames
  LocalCommunities <- MCLocalCommunities
  Envelopes <- TrafficEnvelopes
  LocalNode = "self"
  LinkIds = {a, b}
  NoLink = NoLink
  NoKey = NoKey
  MaxLinks = 2
  MaxSeen = 2
  CommandCapacity = 16
  StoreCapacity = 2
  RejectExpiredOnPut = TRUE
  AllowStoreAndForward = TRUE
  MaxTime = 2
  MetricMax <- NoCounters
INVARIANTS TypeOK SeenIsQueue StoreSound LocalNeverStored StrandedOnlyByFailure
PROPERTIES CommitOnlyAfterSuccess ReleasedOnlyWhenHandled CustodySpec SeenWindowSpec
SYMMETRY LinkSymmetry
