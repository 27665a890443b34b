SPECIFICATION MCSpec
CONSTANTS
    p1 = p1  p2 = p2
    Peer = {p1, p2}
    Skipped = {}
    OldProto = {p2}
    Timeout = 1
    Cooldown = 1
    TimelyTicks = TRUE
    MaxEvents = 2
    Block = {0, 1, 2, 3, 4, 5}
    Bad = {5}
    NoBlock = NoBlock
    NoPeer = NoPeer
    MAX_HEADERS_RESULTS = 2
    MAX_BLOCKS_IN_TRANSIT_PER_PEER = 1
    BLOCK_DOWNLOAD_WINDOW = 2
    StallingTimeout = 1
    DownloadTimeoutBase = 1
    DownloadTimeoutPerPeer = 1
    HeadersTimeout = 1
    MaxConnects = 1
INVARIANT DownloadSound
  
