CONSTANTS
    ProxySchemes = {"http", "https"}
    Protocols = {"h2", "http/1.1"}
    Upload = 3
    Download = 2
    DefaultWindow = 2
    FrameSize = 2
    ReadSize = 1
    StreamWindow = 2
    ConnectionWindow = 1
    PeerWindows = {1, 3}
    PeerFrames <- MCPeerFrames
    MaxControl = 1
    MaxFaults = 1
SPECIFICATION Spec
CHECK_DEADLOCK FALSE
INVARIANTS
    UploadWithinWindows
    EndIsWhole
    BlamedFairly
    HandedOverOrClosed
PROPERTIES
    CancellationReleases
    ExchangeEnds
