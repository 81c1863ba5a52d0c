CONSTANTS
    ProxySchemes = {"http"}
    Protocols = {"h2"}
    Upload = 0
    Download = 3
    DefaultWindow = 1
    FrameSize = 1
    ReadSize = 1
    StreamWindow = 2
    ConnectionWindow = 190
    PeerWindows = {1}
    PeerFrames <- MCPeerFrames
    MaxControl = 0
    MaxFaults = 0
SPECIFICATION Spec
CHECK_DEADLOCK FALSE
PROPERTY InlineResponseArrives
