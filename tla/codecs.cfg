SPECIFICATION Spec
CONSTANTS
    Huge = 4194304
    MessageIdLen = 1
    NodeIdLen = 1
    CommunityIdLen = 1
    TimeLen = 2
    EndpointMaxLen = 2
    EnvelopeMaxPayload = 32
    BitchatAuthorLen = 1
    LxmfAuthorLen = 2
    NostrAuthorLen = 1
    BridgeMaxMessage = 16
    BridgeMaxPayload = 3
    NotUtf8 = {254, 255}
    Digest <- MCDigest
    PublicOf <- MCPublicOf
    Shared <- MCShared
    InvalidPoints = {105}
    HashLen = 1
    NameHashLen = 1
    SignatureLen = 2
    BlockLen = 2
    IvLen = 2
    HmacLen = 1
    TokenKeyLen128 = 2
    TokenKeyLen256 = 4
    Mtu = 20
    IfacMaxSize = 2
    RNodeFrameMax = 5
    MaxReads = 3
    RatchetLen = 1
    ControlMaxResponse = 5
    AddrLen = 4
    MaxU16 = 9
    RandomLen = 2
    MaxTimestamp = 100
    PeerIdLen = 1
    BitchatSignatureLen = 1
    BitchatTimeLen = 2
    RouteMaxHops = 2
    BitchatMaxPacket = 20
    BitchatMaxPayload = 4
    CarrierMaxPacket = 15
    LxmfDigest <- MCDigest
    LxmfHashLen = 2
    LxmfSignatureLen = 1
    LxmfIdLen = 1
    FloatLen = 2
    NotFinite = 255
    LxmfMaxMessage = 24
    MaxDepth = 2
    MaxTitle = 2
    MaxContent = 3
    MaxFields = 4
    MaxStamp = 1
    Precision = 11
    BridgeEventKind = 8
    Sha256 <- MCSha256
    PublicKeyOf <- MCPublicOf
    BadKeys = {9}
    EnvelopeKind = 7
    MaxEnvelopeBytes = 40
    MaxTags = 4
    MaxTagValues = 2
    MaxU64 = 65535
    SubscriptionIdMaxLen = 2
    MaxNumber = 9
    MaxKind = 8
    Values <- MCValues
    FlippedBits = {1, 4, 128}
    RouterCommandCapacity = 4
    Configs <- MCConfigs
    ConfiguredLinks = {1, 2, 3, 4}
    NoIngress = 0
    TableSlots = 4
    SeenSlotCount = 2
    StoreSlots = 2
    Rooms = {1, 2}
    PinnedCommit = 7
    CaseCounts <- MCCaseCounts
    TestSecret <- Secret
    TestApp = 1
    TestAspects <- MCAspects
    Commits = {1, 2}
    HyfTrees <- MCHyfTrees
    ReticulumTrees <- MCReticulumTrees
    FixturesOf <- MCFixturesOf
    ProofIv <- MCProofIv
    ProofKey <- MCProofKey
    ProofText <- MCProofText
    ProofRecipient <- Identity
    ProofEphemeral = 7
    Probes <- MCProbes
    Answers <- MCAnswers
    GenerateArgs <- MCGenerateArgs
    ValidateArgs <- MCValidateArgs
    Edits <- MCEdits
    CaptureRuns <- MCCaptureRuns
INVARIANTS RoundTrip AcceptedIsForwardable TamperRefused FanOutFits EvidenceGate
CHECK_DEADLOCK FALSE
