CONSTANTS
    FRESHNESS_MS = 0
    COUNTER_MODULUS = 2
    SocketCapacity = 1
    ReaderActive = TRUE
    Noise <- MCNoise
    MaxSeq <- MCMaxSeq
    MaxTime = 1
SPECIFICATION Spec
PROPERTY OpensOnlyIfRecentlyParked
PROPERTY FrozenSenderAgesOut
PROPERTY LiveSenderIsHeard
