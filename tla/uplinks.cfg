SPECIFICATION Spec
CONSTANTS
    Sha256 <- MCSha256
    PublicKeyOf <- MCPublicKeyOf
    BadKeys = {"nobody"}
    EnvelopeKind = 7
    MaxEnvelopeBytes = 2
    MaxTags = 3
    MaxTagValues = 2
    MaxU64 = 5000
    EventCapacity = 2
    SubscriptionCapacity = 1
    OutputCapacity = 2
    NoEvent = NoEvent
    Keys = {"alice", "bob"}
    Frames <- SentFrames
    SendTimes = {999, 1000}
    AuthorSecret = "alice_secret"
    RecipientKey = "bob"
    NostrMtu = 2
    FrameBuffer = 2
    PollBuffers = {1, 2}
    PeerPublishes <- MCPeerPublishes
    InjectedEvents <- MCInjectedEvents
    Requests <- MCRequests
    Rejections = {"rate-limited"}
    ControlKinds = {"notice"}
    NodeAddr <- MCNodeAddr
    PublicKeys = {"local", "remote", "near", "far"}
    LocalKey = "local"
    RemoteKey = "remote"
    PeerCapacity = 2
    QueueCapacity = 2
    FrameMax = 3
    FipsFrames <- MCFipsFrames
    SidecarMtu = 2
    FipsMtu = 2
    FipsBuffers = {1, 2}
    MaxInjected = 3
INVARIANTS AcknowledgedIsStored RelaySound OnlyInvalidDropped NothingLostOnFips AddressesDistinct
PROPERTY ReplayIsPrefix
