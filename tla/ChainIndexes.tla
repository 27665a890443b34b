----------------------------- MODULE ChainIndexes -----------------------------
(***************************************************************************)
(* What connecting and disconnecting a block do to the coins, the undo     *)
(* data and the optional indexes (address, unspent by address, spent):     *)
(* UpdateCoins, ConnectBlock, ApplyTxInUndo, DisconnectBlock, and VerifyDB *)
(* at start-up.  The indexes are written when a block is (dis)connected,   *)
(* the coins when FlushStateToDisk runs.                                   *)
(***************************************************************************)
EXTENDS Integers, SequencesExt

CONSTANTS
    Block,        \* 0 is the genesis block
    Prev,         \* pprev
    Txs,          \* the transactions of a block: [id, ins, outs]
    NoAddr,       \* an output whose script is not P2PKH or P2SH
    Spent, None,  \* no coin; no record
    CheckLevel,   \* -checklevel
    CheckDepth,   \* -checkblocks
    Scenes        \* scopes of a run: blocks that arrive, faults that happen

VARIABLES
    tip, coins, undo,                \* chainActive.Tip(), pcoinsTip, nUndoPos
    diskTip, diskCoins, diskUndo,    \* as of the last FlushStateToDisk
    addressIndex, unspentIndex, spentIndex,
    phase,                           \* "run", "disconnect", "reconnect", "down"
    verifyTip, verifyCoins,          \* pindexState and coins of VerifyDB
    scene                            \* the scope of this behaviour, never changed

memory == <<tip, coins, undo>>
disk == <<diskTip, diskCoins, diskUndo>>
indexes == <<addressIndex, unspentIndex, spentIndex>>
verify == <<verifyTip, verifyCoins>>
vars == <<memory, disk, indexes, phase, verify, scene>>

Height[b \in Block] == IF b = 0 THEN 0 ELSE Height[Prev[b]] + 1

Chain[b \in Block] == IF b = 0 THEN {} ELSE Chain[Prev[b]] \cup {b}

OutPoints ==
    UNION {{<<Txs[b][i].id, n>> : n \in DOMAIN Txs[b][i].outs} :
           <<b, i>> \in {<<b, i>> \in Block \X (1 .. 4) : i \in DOMAIN Txs[b]}}

Out(tx, n) == <<tx.id, n>>

OutsOf(tx) == {Out(tx, n) : n \in DOMAIN tx.outs}

InsOf(tx) == Range(tx.ins)

\* The coin of output n of transaction i of block b.
NewCoin(b, i, n) ==
    [addr |-> Txs[b][i].outs[n], height |-> Height[b], coinbase |-> i = 1]

\* The keys of the address index that transaction i of block b makes, given the
\* coins it spends.
Activity(b, i, prevouts) ==
    LET tx == Txs[b][i]
        Key(a, n, spending) == [addr |-> a, height |-> Height[b], pos |-> i,
                                tx |-> tx.id, n |-> n, spending |-> spending]
    IN  {Key(tx.outs[n], n, FALSE) : n \in {n \in DOMAIN tx.outs : tx.outs[n] # NoAddr}}
        \cup {Key(prevouts[j].addr, j, TRUE) :
                 j \in {j \in DOMAIN prevouts : prevouts[j].addr # NoAddr}}

\* The record of the unspent index for a coin.
Unspent(c) == [addr |-> c.addr, height |-> c.height]

(***************************************************************************)
(* ConnectBlock.  A state s of the loop over the transactions holds the    *)
(* coins, the undo data so far, the indexes, and whether all is well.      *)
(***************************************************************************)
\* Faulty: the undo data is made after the inputs are spent.
UpdateCoins_Late(s, b, i) ==
    LET tx == Txs[b][i]
    IN  [s EXCEPT !.coins = [o \in OutPoints |->
                                CASE o \in OutsOf(tx) -> NewCoin(b, i, o[2])
                                  [] o \in InsOf(tx) -> Spent
                                  [] OTHER -> s.coins[o]],
                  !.undo = IF i = 1 THEN @
                           ELSE Append(@, [j \in DOMAIN tx.ins |->
                                             [NewCoin(b, i, 1) EXCEPT !.height = 0]])]

\* The undo data of a transaction, for all but the first, is the coins it spends.
UpdateCoins(s, b, i) ==
    LET tx == Txs[b][i]
        prevouts == [j \in DOMAIN tx.ins |-> s.coins[tx.ins[j]]]
    IN  [s EXCEPT !.coins = [o \in OutPoints |->
                                CASE o \in OutsOf(tx) -> NewCoin(b, i, o[2])
                                  [] o \in InsOf(tx) -> Spent
                                  [] OTHER -> s.coins[o]],
                  !.undo = IF i = 1 THEN @ ELSE Append(@, prevouts)]

\* Faulty: a record of the spent index is not replaced.
IndexTx_KeepsSpent(s, b, i) ==
    LET tx == Txs[b][i]
        prevouts == [j \in DOMAIN tx.ins |-> s.coins[tx.ins[j]]]
    IN  [s EXCEPT
          !.address = @ \cup Activity(b, i, prevouts),
          !.unspent = [o \in OutPoints |->
              IF o \in OutsOf(tx) /\ tx.outs[o[2]] # NoAddr
              THEN Unspent(NewCoin(b, i, o[2]))
              ELSE IF o \in InsOf(tx) /\ s.coins[o].addr # NoAddr THEN None ELSE @[o]],
          !.spent = [o \in OutPoints |->
              IF o \in InsOf(tx) /\ @[o] = None
              THEN [tx |-> tx.id, height |-> Height[b]] ELSE @[o]]]

\* The records of the three indexes for transaction i.
IndexTx(s, b, i) ==
    LET tx == Txs[b][i]
        prevouts == [j \in DOMAIN tx.ins |-> s.coins[tx.ins[j]]]
    IN  [s EXCEPT
          !.address = @ \cup Activity(b, i, prevouts),
          !.unspent = [o \in OutPoints |->
              IF o \in OutsOf(tx) /\ tx.outs[o[2]] # NoAddr
              THEN Unspent(NewCoin(b, i, o[2]))
              ELSE IF o \in InsOf(tx) /\ s.coins[o].addr # NoAddr THEN None ELSE @[o]],
          !.spent = [o \in OutPoints |->
              IF o \in InsOf(tx) THEN [tx |-> tx.id, height |-> Height[b]] ELSE @[o]]]

HaveInputs(s, b, i) == \A o \in InsOf(Txs[b][i]) : s.coins[o] # Spent

ConnectTx(s, b, i) ==
    IF s.ok /\ HaveInputs(s, b, i)
    THEN UpdateCoins(IndexTx(s, b, i), b, i) ELSE [s EXCEPT !.ok = FALSE]

\* fEnforceBIP30: no output of the block exists.
BIP30(b, c) ==
    \A i \in DOMAIN Txs[b] : \A o \in OutsOf(Txs[b][i]) : c[o] = Spent

Loop(c) == [coins |-> c, undo |-> <<>>, ok |-> TRUE, clean |-> TRUE,
            address |-> addressIndex, unspent |-> unspentIndex,
            spent |-> spentIndex]

ConnectBlock(b, c) ==
    FoldLeft(LAMBDA s, i : ConnectTx(s, b, i),
             [Loop(c) EXCEPT !.ok = BIP30(b, c)],
             [i \in DOMAIN Txs[b] |-> i])

(***************************************************************************)
(* DisconnectBlock.                                                        *)
(***************************************************************************)
\* Spend the outputs; note when one is missing or is not the block's.
SpendOutputs(s, b, i) ==
    LET tx == Txs[b][i]
    IN  [s EXCEPT
          !.clean = @ /\ \A n \in DOMAIN tx.outs : s.coins[Out(tx, n)] = NewCoin(b, i, n),
          !.coins = [o \in OutPoints |-> IF o \in OutsOf(tx) THEN Spent ELSE @[o]],
          !.unspent = [o \in OutPoints |->
              IF o \in OutsOf(tx) /\ tx.outs[o[2]] # NoAddr THEN None ELSE @[o]]]

\* Faulty: the activity of the inputs stays in the address index.
RestoreInputs_Keep(s, b, i, prevouts) ==
    LET tx == Txs[b][i]
        At(o) == prevouts[CHOOSE j \in DOMAIN tx.ins : tx.ins[j] = o]
    IN  [s EXCEPT
          !.coins = [o \in OutPoints |-> IF o \in InsOf(tx) THEN At(o) ELSE @[o]],
          !.address = @ \ Activity(b, i, <<>>),
          !.unspent = [o \in OutPoints |->
              IF o \in InsOf(tx) /\ At(o).addr # NoAddr THEN Unspent(At(o)) ELSE @[o]]]

\* ApplyTxInUndo for every input, with the records of the indexes.
RestoreInputs(s, b, i, prevouts) ==
    LET tx == Txs[b][i]
        At(o) == prevouts[CHOOSE j \in DOMAIN tx.ins : tx.ins[j] = o]
    IN  [s EXCEPT
          !.clean = @ /\ \A o \in InsOf(tx) : s.coins[o] = Spent,
          !.coins = [o \in OutPoints |-> IF o \in InsOf(tx) THEN At(o) ELSE @[o]],
          !.address = @ \ Activity(b, i, prevouts),
          !.unspent = [o \in OutPoints |->
              IF o \in InsOf(tx) /\ At(o).addr # NoAddr THEN Unspent(At(o)) ELSE @[o]]]

UndoTx(s, b, i, blockUndo) ==
    RestoreInputs(SpendOutputs(s, b, i), b, i, IF i = 1 THEN <<>> ELSE blockUndo[i - 1])

\* Faulty: the transactions are undone in the order they were made.
DisconnectBlock_Forward(b, c) ==
    FoldLeft(LAMBDA s, i : UndoTx(s, b, i, undo[b]), Loop(c),
             [i \in DOMAIN Txs[b] |-> i])

\* In reverse order.  The spent index is not written.
DisconnectBlock(b, c) ==
    FoldLeft(LAMBDA s, i : UndoTx(s, b, i, undo[b]), Loop(c),
             Reverse([i \in DOMAIN Txs[b] |-> i]))

WriteIndexes(s) ==
    /\ addressIndex' = s.address
    /\ unspentIndex' = s.unspent
    /\ spentIndex' = s.spent

(***************************************************************************)
(* Actions.                                                                *)
(***************************************************************************)
NoCoins == [o \in OutPoints |-> Spent]

Init ==
    /\ tip = 0 /\ diskTip = 0 /\ verifyTip = 0
    /\ coins = NoCoins /\ diskCoins = NoCoins /\ verifyCoins = NoCoins
    /\ undo = [b \in Block |-> None] /\ diskUndo = undo
    /\ addressIndex = {}
    /\ unspentIndex = [o \in OutPoints |-> None]
    /\ spentIndex = unspentIndex
    /\ phase = "run"
    /\ scene \in Scenes

\* Faulty: the undo data stays in memory.
WriteUndo_Not(b, s) == undo' = undo

\* The undo data is written when the block has none.
WriteUndo(b, s) == undo' = IF undo[b] = None THEN [undo EXCEPT ![b] = s.undo] ELSE undo

ConnectTip(b) ==
    LET s == ConnectBlock(b, coins)
    IN  /\ phase = "run"
        /\ b \in scene.blocks \ {0} /\ Prev[b] = tip
        /\ s.ok
        /\ tip' = b
        /\ coins' = s.coins
        /\ WriteUndo(b, s)
        /\ WriteIndexes(s)
        /\ UNCHANGED <<disk, phase, verify, scene>>

DisconnectTip ==
    LET s == DisconnectBlock(tip, coins)
    IN  /\ phase = "run"
        /\ tip # 0 /\ undo[tip] # None
        /\ WriteIndexes(s)
        /\ tip' = IF s.clean THEN Prev[tip] ELSE tip
        /\ coins' = IF s.clean THEN s.coins ELSE coins
        /\ UNCHANGED <<undo, disk, phase, verify, scene>>

FlushStateToDisk ==
    /\ phase = "run"
    /\ diskTip' = tip /\ diskCoins' = coins /\ diskUndo' = undo
    /\ UNCHANGED <<memory, indexes, phase, verify, scene>>

Crash ==
    /\ "crash" \in scene.faults
    /\ phase # "down" /\ phase' = "down"
    /\ UNCHANGED <<memory, disk, indexes, verify, scene>>

\* A shutdown requested while VerifyDB disconnects blocks ends it.
ShutdownRequested ==
    /\ "shutdown" \in scene.faults
    /\ phase = "disconnect" /\ verifyTip # tip
    /\ phase' = "down"
    /\ UNCHANGED <<memory, disk, indexes, verify, scene>>

\* LoadBlockIndexDB, then VerifyDB, which does nothing on the genesis block.
Restart ==
    /\ phase = "down"
    /\ tip' = diskTip /\ coins' = diskCoins /\ undo' = diskUndo
    /\ verifyTip' = diskTip /\ verifyCoins' = diskCoins
    /\ phase' = IF diskTip = 0 THEN "run" ELSE "disconnect"
    /\ UNCHANGED <<disk, indexes, scene>>

\* The loop of VerifyDB goes on to the block at verifyTip.
InDepth ==
    /\ CheckLevel >= 3
    /\ verifyTip # 0
    /\ Height[verifyTip] >= Height[tip] - CheckDepth

\* Check level 3.
VerifyDisconnect ==
    LET s == DisconnectBlock(verifyTip, verifyCoins)
    IN  /\ phase = "disconnect" /\ InDepth
        /\ undo[verifyTip] # None
        /\ WriteIndexes(s)
        /\ verifyCoins' = s.coins
        /\ verifyTip' = Prev[verifyTip]
        /\ phase' = IF s.clean THEN phase ELSE "down"
        /\ UNCHANGED <<memory, disk, scene>>

\* Faulty: VerifyDB ends after the disconnects.
VerifyTurn_Ends ==
    /\ phase = "disconnect" /\ ~ InDepth
    /\ phase' = "run"
    /\ UNCHANGED <<memory, disk, indexes, verify, scene>>

VerifyTurn ==
    /\ phase = "disconnect" /\ ~ InDepth
    /\ phase' = IF CheckLevel >= 4 THEN "reconnect" ELSE "run"
    /\ UNCHANGED <<memory, disk, indexes, verify, scene>>

\* Check level 4: chainActive.Next.
VerifyReconnect ==
    /\ phase = "reconnect" /\ verifyTip # tip
    /\ \E b \in Chain[tip] :
          LET s == ConnectBlock(b, verifyCoins)
          IN  /\ Prev[b] = verifyTip
              /\ IF s.ok
                 THEN /\ WriteIndexes(s) /\ WriteUndo(b, s)
                      /\ verifyCoins' = s.coins
                      /\ verifyTip' = b
                      /\ phase' = phase
                 ELSE phase' = "down" /\ UNCHANGED <<undo, indexes, verify>>
    /\ UNCHANGED <<tip, coins, disk, scene>>

VerifyDone ==
    /\ phase = "reconnect" /\ verifyTip = tip
    /\ phase' = "run"
    /\ UNCHANGED <<memory, disk, indexes, verify, scene>>

Next ==
    \/ \E b \in Block : ConnectTip(b)
    \/ DisconnectTip \/ FlushStateToDisk \/ Crash \/ ShutdownRequested
    \/ Restart \/ VerifyDisconnect \/ VerifyTurn \/ VerifyReconnect \/ VerifyDone

Spec == Init /\ [][Next]_vars

(***************************************************************************)
(* Properties.                                                             *)
(***************************************************************************)
CoinRecord == [addr : UNION {Range(Txs[b][i].outs) : <<b, i>> \in
                  {<<b, i>> \in Block \X (1 .. 4) : i \in DOMAIN Txs[b]}},
         height : {Height[b] : b \in Block}, coinbase : BOOLEAN]

\* The variables have the types their declarations give them.
TypeOK ==
    /\ {tip, diskTip, verifyTip} \subseteq Block
    /\ {coins, diskCoins, verifyCoins} \subseteq [OutPoints -> CoinRecord \cup {Spent}]
    /\ \A b \in Block : b \in Chain[tip] => undo[b] # None
    /\ \A b \in Block : b \in Chain[diskTip] => diskUndo[b] # None
    /\ DOMAIN unspentIndex = OutPoints /\ DOMAIN spentIndex = OutPoints
    /\ phase \in {"run", "disconnect", "reconnect", "down"}

\* The outputs of the chain that ends in b that no transaction of it spends: the
\* definition of the coins, independent of the order of steps that led there.
CoinsOf(b) ==
    [o \in OutPoints |->
        LET made == {<<c, i>> \in Chain[b] \X (1 .. 4) :
                        i \in DOMAIN Txs[c] /\ o \in OutsOf(Txs[c][i])}
            used == {c \in Chain[b] : \E i \in DOMAIN Txs[c] : o \in InsOf(Txs[c][i])}
        IN  IF made = {} \/ used # {} THEN Spent
            ELSE LET m == CHOOSE m \in made : TRUE IN NewCoin(m[1], m[2], o[2])]

\* Connecting and disconnecting in any order, with undo data written only the
\* first time a block is connected, leaves exactly the coins of the active chain;
\* VerifyDB's scratch view has those of the block it reached.
CoinsExact ==
    /\ coins = CoinsOf(tip)
    /\ diskCoins = CoinsOf(diskTip)
    /\ phase \in {"disconnect", "reconnect"} => verifyCoins = CoinsOf(verifyTip)

\* The unspent index lists the coins of the active chain that have an address,
\* as long as the process is not interrupted.
UnspentOf(b) ==
    [o \in OutPoints |->
        LET c == CoinsOf(b)[o]
        IN  IF c = Spent THEN None ELSE IF c.addr = NoAddr THEN None ELSE Unspent(c)]

UnspentExact ==
    scene.faults = {} /\ phase = "run" => unspentIndex = UnspentOf(tip)

\* The coin that input j of transaction i of block b spends.
PrevoutsOf(b, i) ==
    [j \in DOMAIN Txs[b][i].ins |->
        LET o == Txs[b][i].ins[j]
            m == CHOOSE m \in Chain[b] \X (1 .. 4) :
                    m[2] \in DOMAIN Txs[m[1]] /\ o \in OutsOf(Txs[m[1]][m[2]])
        IN  NewCoin(m[1], m[2], o[2])]

AddressOf(b) ==
    UNION {UNION {Activity(c, i, PrevoutsOf(c, i)) : i \in DOMAIN Txs[c]} :
           c \in Chain[b]}

\* The address index holds the activity of the active chain: every reorganisation
\* takes out what it disconnects and nothing else.  A crash may
\* interrupt this; see IndexCatchesUp.
AddressExact ==
    scene.faults = {} /\ phase = "run" => addressIndex = AddressOf(tip)

\* Every spend of the active chain is in the spent index, under the transaction
\* of that chain, whatever other branches spent the same output before; the
\* records of blocks that were disconnected stay, so there may be more.
SpentCovers ==
    phase = "run" =>
        \A b \in Chain[tip] : \A i \in DOMAIN Txs[b] : \A o \in InsOf(Txs[b][i]) :
            spentIndex[o] = [tx |-> Txs[b][i].id, height |-> Height[b]]

\* A crash may leave the indexes ahead of the coins or behind them, and so does an
\* interrupted VerifyDB.  While no blocks compete, they agree with the coins again
\* when the node runs and has connected every block there is.
IndexCatchesUp ==
    /\ phase = "run"
    /\ \A b \in scene.blocks : b = 0 \/ Prev[b] # tip
    /\ \A b, c \in scene.blocks : Height[b] = Height[c] => b = c
    => unspentIndex = UnspentOf(tip) /\ addressIndex = AddressOf(tip)

===============================================================================
