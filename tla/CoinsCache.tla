------------------------------ MODULE CoinsCache ------------------------------
(***************************************************************************)
(* CCoinsViewCache (coins.cpp): the view of ConnectTip or DisconnectTip,   *)
(* on top of pcoinsTip, on top of the coin database.  An entry of a cache  *)
(* is DIRTY when it differs from the layer below and FRESH when that layer *)
(* has no unspent coin, so that a coin created and spent again leaves no   *)
(* trace below.  The layers implement plain maps (CoinsViewSpec).          *)
(***************************************************************************)
CONSTANTS Outpoint, Coin, Spent, BlockHash, Null, NoEntry

Entry == [coin : Coin \cup {Spent}, dirty : BOOLEAN, fresh : BOOLEAN]

ASSUME CoinAssumption ==
    /\ Spent \notin Coin
    /\ Null \notin BlockHash
    /\ NoEntry \notin Entry

VARIABLES
    view,        \* cacheCoins of the view
    viewBest,    \* hashBlock of the view
    tip,         \* cacheCoins of pcoinsTip
    tipBest,     \* hashBlock of pcoinsTip
    db,          \* the coin database; Spent: no record
    dbBest,      \* DB_BEST_BLOCK
    open         \* a view exists

vars == <<view, viewBest, tip, tipBest, db, dbBest, open>>

Empty == [o \in Outpoint |-> NoEntry]

Clean(c) == [coin |-> c, dirty |-> FALSE, fresh |-> FALSE]

\* What GetCoin answers in pcoinsTip and in the view.
TipCoin(o) == IF tip[o] = NoEntry THEN db[o] ELSE tip[o].coin

ViewCoin(o) == IF view[o] = NoEntry THEN TipCoin(o) ELSE view[o].coin

\* FetchCoin copies an unspent coin of the layer below into the cache.
Fetch(cache, o, below) ==
    IF cache[o] = NoEntry /\ below # Spent
    THEN [cache EXCEPT ![o] = Clean(below)] ELSE cache

\* The caches after FetchCoin in the view, which fetches in pcoinsTip unless
\* the view has the entry.
FetchedTip(o) == IF view[o] = NoEntry THEN Fetch(tip, o, db[o]) ELSE tip

FetchedView(o) == Fetch(view, o, TipCoin(o))

Init ==
    /\ view = Empty /\ tip = Empty
    /\ db = [o \in Outpoint |-> Spent]
    /\ dbBest \in BlockHash
    /\ viewBest = Null /\ tipBest = Null
    /\ open = FALSE

\* GetBestBlock of pcoinsTip, and of the view.
TipGetBest == IF tipBest = Null THEN dbBest ELSE tipBest

ViewGetBest == IF viewBest = Null THEN TipGetBest ELSE viewBest

\* ConnectBlock and DisconnectBlock begin with an assertion on GetBestBlock,
\* which fills hashBlock of both caches.
OpenView ==
    /\ ~ open /\ open' = TRUE
    /\ tipBest' = TipGetBest
    /\ viewBest' = TipGetBest
    /\ UNCHANGED <<view, tip, db, dbBest>>

\* HaveCoin, AccessCoin and GetCoin of the view.
AccessCoin(o) ==
    /\ open
    /\ view' = FetchedView(o)
    /\ tip' = FetchedTip(o)
    /\ UNCHANGED <<viewBest, tipBest, db, dbBest, open>>

\* The same of pcoinsTip: the memory pool and the RPC calls.
TipAccessCoin(o) ==
    /\ tip' = Fetch(tip, o, db[o])
    /\ UNCHANGED <<view, viewBest, tipBest, db, dbBest, open>>

\* The entry AddCoin makes of e.
Added(e, c, possible_overwrite) ==
    [coin |-> c, dirty |-> TRUE,
     fresh |-> e.fresh \/ (~ possible_overwrite /\ ~ e.dirty)]

\* AddCoin does not look below.  Its callers pass possible_overwrite for the
\* outputs of a coinbase; for others BIP30 and the undo data imply that the
\* coin does not exist.
AddCoin(o, c, possible_overwrite) ==
    /\ open
    /\ possible_overwrite \/ ViewCoin(o) = Spent
    /\ view' = [view EXCEPT ![o] =
                  Added(IF @ = NoEntry THEN Clean(Spent) ELSE @, c,
                        possible_overwrite)]
    /\ UNCHANGED <<viewBest, tip, tipBest, db, dbBest, open>>

\* Faulty: the entry is marked spent but not dirty.
SpentEntry_Clean(e) == IF e.fresh THEN NoEntry ELSE [e EXCEPT !.coin = Spent]

\* What SpendCoin leaves of an entry.
SpentEntry(e) ==
    IF e.fresh THEN NoEntry ELSE [e EXCEPT !.coin = Spent, !.dirty = TRUE]

SpendCoin(o) ==
    /\ open
    /\ tip' = FetchedTip(o)
    /\ LET v == FetchedView(o)
       IN  view' = IF v[o] = NoEntry THEN v ELSE [v EXCEPT ![o] = SpentEntry(@)]
    /\ UNCHANGED <<viewBest, tipBest, db, dbBest, open>>

SetBestBlock(b) ==
    /\ open
    /\ viewBest' = b
    /\ UNCHANGED <<view, tip, tipBest, db, dbBest, open>>

\* Faulty: the FRESH flag of the view is copied to an entry that exists below.
Merged_CopiesFresh(p, c) ==
    IF c = NoEntry THEN p
    ELSE IF ~ c.dirty THEN p
    ELSE IF p = NoEntry
         THEN IF c.fresh /\ c.coin = Spent THEN NoEntry ELSE c
    ELSE IF p.fresh /\ c.coin = Spent THEN NoEntry
    ELSE [coin |-> c.coin, dirty |-> TRUE, fresh |-> p.fresh \/ c.fresh]

\* BatchWrite: the entry of the parent p after the child's c.
Merged(p, c) ==
    IF c = NoEntry THEN p
    ELSE IF ~ c.dirty THEN p
    ELSE IF p = NoEntry
         THEN IF c.fresh /\ c.coin = Spent THEN NoEntry ELSE c
    ELSE IF p.fresh /\ c.coin = Spent THEN NoEntry
    ELSE [coin |-> c.coin, dirty |-> TRUE, fresh |-> p.fresh]

\* view.Flush()
FlushView ==
    /\ open /\ open' = FALSE
    /\ tip' = [o \in Outpoint |-> Merged(tip[o], view[o])]
    /\ tipBest' = viewBest
    /\ view' = Empty
    /\ viewBest' = Null
    /\ UNCHANGED <<db, dbBest>>

\* The view is destroyed: the block is not valid, or was only checked.
DropView ==
    /\ open /\ open' = FALSE
    /\ view' = Empty
    /\ viewBest' = Null
    /\ UNCHANGED <<tip, tipBest, db, dbBest>>

\* What CCoinsViewDB::BatchWrite makes of a record.
Written(d, e) == IF e = NoEntry THEN d ELSE IF e.dirty THEN e.coin ELSE d

\* pcoinsTip->Flush() in FlushStateToDisk: one batch, written atomically.
FlushTip ==
    /\ ~ open
    /\ db' = [o \in Outpoint |-> Written(db[o], tip[o])]
    /\ dbBest' = TipGetBest
    /\ tip' = Empty
    /\ UNCHANGED <<view, viewBest, tipBest, open>>

\* pcoinsTip->Uncache
Uncache(o) ==
    /\ tip[o] # NoEntry /\ ~ tip[o].dirty /\ ~ tip[o].fresh
    /\ tip' = [tip EXCEPT ![o] = NoEntry]
    /\ UNCHANGED <<view, viewBest, tipBest, db, dbBest, open>>

Crash ==
    /\ open' = FALSE
    /\ view' = Empty /\ tip' = Empty
    /\ viewBest' = Null /\ tipBest' = Null
    /\ UNCHANGED <<db, dbBest>>

Next ==
    \/ OpenView \/ FlushView \/ DropView \/ FlushTip \/ Crash
    \/ \E o \in Outpoint :
          \/ AccessCoin(o) \/ TipAccessCoin(o) \/ SpendCoin(o) \/ Uncache(o)
          \/ \E c \in Coin, w \in BOOLEAN : AddCoin(o, c, w)
    \/ \E b \in BlockHash : SetBestBlock(b)

Spec == Init /\ [][Next]_vars

(***************************************************************************)
(* Properties.                                                             *)
(***************************************************************************)
\* The variables have the types their declarations give them; hashBlock of an
\* open view is never null, so that Flush always hands on the block the coins
\* belong to.
TypeOK ==
    /\ view \in [Outpoint -> Entry \cup {NoEntry}]
    /\ tip \in [Outpoint -> Entry \cup {NoEntry}]
    /\ db \in [Outpoint -> Coin \cup {Spent}]
    /\ viewBest \in BlockHash \cup {Null} /\ tipBest \in BlockHash \cup {Null}
    /\ dbBest \in BlockHash
    /\ open \in BOOLEAN
    /\ open => viewBest # Null /\ tipBest # Null
    /\ ~ open => view = Empty /\ viewBest = Null

\* An entry that is not dirty repeats the unspent coin below it; a fresh one has
\* nothing below it, and is never spent.
Sound(e, below) ==
    /\ ~ e.dirty => ~ e.fresh /\ e.coin = below /\ below # Spent
    /\ e.fresh => below = Spent /\ e.coin # Spent

\* The flags of every entry of both caches tell the truth about the layer below,
\* over any sequence of accesses, changes, flushes and crashes.  With it the
\* exception "FRESH flag misapplied to cache entry for base transaction with
\* spendable outputs" of BatchWrite is never thrown.
FlagsSound ==
    \A o \in Outpoint :
        /\ tip[o] # NoEntry => Sound(tip[o], db[o])
        /\ view[o] # NoEntry => Sound(view[o], TipCoin(o))

\* The caches and the database, read through GetCoin and GetBestBlock, are the
\* maps of CoinsViewSpec: an access, a flush and a dropped entry change nothing,
\* and coins and best block move between the layers together.
Abstract == INSTANCE CoinsViewSpec WITH
    view <- [o \in Outpoint |-> ViewCoin(o)], viewBest <- ViewGetBest,
    tip <- [o \in Outpoint |-> TipCoin(o)], tipBest <- TipGetBest,
    disk <- db, diskBest <- dbBest

ImplementsView == Abstract!Spec

===============================================================================
