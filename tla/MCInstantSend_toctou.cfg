SPECIFICATION Spec
CONSTANTS
    txA = txA  txB = txB  o1 = o1  o2 = o2
    m1 = m1  m2 = m2  m3 = m3  m4 = m4
    Tx = {txA, txB}
    Outpoint = {o1}
    Masternode = {m1}
    NoTx = NoTx
    NoMasternode = NoMasternode
    Me = NoMasternode
    Vin <- MCVin
    WellFormed = {txA, txB}
    Score <- MCScore
    SIGNATURES_REQUIRED = 1
    SIGNATURES_TOTAL = 3
    LOCK_TIMEOUT = 1
    FAILED_TIMEOUT = 2
    KeepLock = 0
    NetVoteSets <- SplitVotes
    MnLists <- FullList
    SporkSettings <- BothSporks
    SyncSettings <- Synced
    BlockTxs <- SingleBlocks
    BaseHeight = 2
    MaxHeight = 4
    MaxTime = 0
    MaxRestarts = 0
PROPERTIES ConnectedBlocksRespectLocks
