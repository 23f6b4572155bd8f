SPECIFICATION FairSpec
CONSTANTS
    s = s
    p = p
    q = q
    r = r
    Sender = s
    Peer = {p, q, r}
    NoAddr = NoAddr
    MaxKeys = 1
    MaxPeers = 2
    PeerTimeout = 1
    QueueDepth = 1
    MaxStarts = 4
    Msg <- MCMsg
    TRUSTED_DEVICES <- MCDevices
INVARIANTS OneEntryPerPeer NothingStranded
PROPERTIES ImplementsChannel AdvertisedIsFound
