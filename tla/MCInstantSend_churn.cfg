SPECIFICATION Spec
CONSTANTS
    txA = txA  txB = txB  o1 = o1  o2 = o2
    m1 = m1  m2 = m2  m3 = m3  m4 = m4
    Tx = {txA, txB}
    Outpoint = {o1}
    Masternode = {m1, m2, m3, m4}
    NoTx = NoTx
    NoMasternode = NoMasternode
    Me = NoMasternode
    Vin <- MCVin
    WellFormed = {txA, txB}
    Score <- MCScore
    SIGNATURES_REQUIRED = 2
    SIGNATURES_TOTAL = 2
    LOCK_TIMEOUT = 1
    FAILED_TIMEOUT = 2
    KeepLock = 1
    NetVoteSets <- SplitVotes
    MnLists <- DisjointLists
    SporkSettings <- AnySporks
    SyncSettings <- SyncAny
    BlockTxs <- EmptyBlocks
    BaseHeight = 2
    MaxHeight = 2
    MaxTime = 0
    MaxRestarts = 0
INVARIANTS LocksBacked
PROPERTIES LocksNotTransferred
