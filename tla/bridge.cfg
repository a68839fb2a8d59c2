SPECIFICATION Spec
CONSTANTS
  Messages <- MCMessages
  Policies <- MCPolicies
  DedupeCapacity = 2
  Buffers <- MCBuffers
  NoKey = NoKey
INVARIANTS DedupeIsQueue BatchSound
PROPERTIES RememberedIffBridged BridgedOnceInWindow DedupeWindow
