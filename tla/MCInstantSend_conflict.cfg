SPECIFICATION Spec
CONSTANTS
    txA = txA  txB = txB  o1 = o1  o2 = o2
    m1 = m1  m2 = m2  m3 = m3  m4 = m4
    Tx = {txA, txB}
    Outpoint = {o1, o2}
    Masternode = {m1, m2, m3}
    NoTx = NoTx
    NoMasternode = NoMasternode
    Me = m1
    Vin <- MCVin
    WellFormed = {txA, txB}
    Score <- MCScore
    SIGNATURES_REQUIRED = 2
    SIGNATURES_TOTAL = 3
    LOCK_TIMEOUT = 1
    FAILED_TIMEOUT = 2
    KeepLock = 1
    NetVoteSets <- HonestButOne
    MnLists <- FullList
    SporkSettings <- BothSporks
    SyncSettings <- Synced
    BlockTxs <- EmptyBlocks
    BaseHeight = 2
    MaxHeight = 2
    MaxTime = 0
    MaxRestarts = 0
INVARIANTS BannedSignedConflict  
