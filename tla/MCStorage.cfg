SPECIFICATION MCSpec
CONSTANTS
    o1 = o1  o2 = o2  c1 = c1  c2 = c2  b1 = b1  b2 = b2
    Outpoint = {o1, o2}
    Coin = {c1, c2}
    BlockHash = {b1, b2}
    Spent = Spent  Null = Null  NoEntry = NoEntry
    None = None
INVARIANTS FlagsSound IndexesExact PoolExact
PROPERTY ImplementsView
