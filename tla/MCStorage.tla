------------------------------ MODULE MCStorage ------------------------------
(***************************************************************************)
(* The coins cache, the blocks with their indexes, and the memory pool.    *)
(* The models share no state; focus, chosen at the start, says which of    *)
(* them moves.                                                             *)
(*                                                                         *)
(* Transaction 20 spends the coinbase of block 1 and 21 spends an output   *)
(* of 20 in the same block; 20 is also in block 3 without 21, 22 and 23    *)
(* spend the same output on the two branches, and block 5 repeats a        *)
(* coinbase that is unspent.  Blocks 1, 2, 6, 7 are a chain of their own.  *)
(*                                                                         *)
(* In the pool 2 spends 1, 3 spends both, 5 spends 3, and 4 conflicts with *)
(* 1; 3 is final from height 2 on.                                         *)
(***************************************************************************)
EXTENDS CoinsCache, Naturals, TLC

CONSTANTS o1, o2, c1, c2, b1, b2, None

VARIABLES focus,
          best, coins, undo, diskTip, diskCoins, diskUndo,
          addressIndex, unspentIndex, spentIndex,
          phase, verifyTip, verifyCoins, scene,
          pool, chain, reorg, vHashUpdate

indexVars == <<best, coins, undo, diskTip, diskCoins, diskUndo, addressIndex,
               unspentIndex, spentIndex, phase, verifyTip, verifyCoins, scene>>

poolVars == <<pool, chain, reorg, vHashUpdate>>

TreeTx(i, spends, addrs) == [id |-> i, ins |-> spends, outs |-> addrs]

Coinbase(i) == TreeTx(i, <<>>, <<"A">>)

T20 == TreeTx(20, <<<<11, 1>>>>, <<"A", "B">>)
T21 == TreeTx(21, <<<<20, 1>>>>, <<"X">>)
T22 == TreeTx(22, <<<<20, 2>>, <<13, 1>>>>, <<"B">>)
T23 == TreeTx(23, <<<<20, 2>>, <<12, 1>>>>, <<"B">>)

TreeBlock == 0 .. 7

TreePrev == (0 :> 0) @@ (1 :> 0) @@ (2 :> 1) @@ (3 :> 1) @@ (4 :> 3) @@ (5 :> 2)
            @@ (6 :> 2) @@ (7 :> 6)

TreeTxs == (0 :> <<>>) @@ (1 :> <<Coinbase(11)>>)
           @@ (2 :> <<Coinbase(12), T20, T21>>) @@ (3 :> <<Coinbase(13), T20>>)
           @@ (4 :> <<Coinbase(14), T22>>) @@ (5 :> <<Coinbase(12)>>)
           @@ (6 :> <<Coinbase(16), T23>>) @@ (7 :> <<Coinbase(17)>>)

\* Every block and no fault; one chain with crashes and shutdowns.
TreeScenes == {[blocks |-> TreeBlock, faults |-> {}],
               [blocks |-> {0, 1, 2, 6, 7}, faults |-> {"crash", "shutdown"}]}

Index == INSTANCE ChainIndexes WITH
    Block <- TreeBlock, Prev <- TreePrev, Txs <- TreeTxs, Scenes <- TreeScenes,
    NoAddr <- "X", CheckLevel <- 4, CheckDepth <- 3, tip <- best

PoolInputs == <<{<<0, 1>>}, {<<1, 1>>}, {<<1, 2>>, <<2, 1>>}, {<<0, 1>>},
                {<<3, 1>>, <<0, 2>>}>>

Pool == INSTANCE Mempool WITH
    Tx <- 1 .. 5, Inputs <- PoolInputs, Fee <- <<1, 1, 2, 4, 1>>,
    Size <- <<1, 1, 1, 2, 2>>, FinalAt <- <<1, 1, 2, 1, 1>>, Replaceable <- {1, 2},
    Block <- {<<>>, <<1>>, <<1, 2>>, <<4>>, <<2, 3>>}, Amount <- {1}, Aging <- {2}, Prioritised <- {1, 3, 5},
    limitAncestorCount <- 4, limitAncestorSize <- 10, limitDescendantCount <- 4,
    limitDescendantSize <- 4, maxDescendantsToVisit <- 0, maxReplaced <- 2,
    minRelayTxFee <- 0, sizelimit <- 4, MaxDelta <- 2, MaxChain <- 3

\* The models that do not move have one initial state.
MCInit ==
    /\ focus \in {"coins", "indexes", "pool"} /\ Init /\ Index!Init /\ Pool!Init
    /\ focus # "indexes" => scene.faults = {}
    /\ focus # "coins" => dbBest = b1

MCNext ==
    /\ UNCHANGED focus
    /\ \/ focus = "coins" /\ Next /\ UNCHANGED <<indexVars, poolVars>>
       \/ focus = "indexes" /\ Index!Next /\ UNCHANGED <<vars, poolVars>>
       \/ focus = "pool" /\ Pool!Next /\ UNCHANGED <<vars, indexVars>>

MCSpec == MCInit /\ [][MCNext]_<<vars, indexVars, poolVars, focus>>

\* Connecting and disconnecting in any order leaves exactly the coins of the active
\* chain, with undo data written once per block; the unspent index lists the ones that
\* have an address, the address index has the activity of the chain and nothing else,
\* the spent index has its spends.  After crashes and interrupted runs of VerifyDB the
\* indexes agree with the coins again once the blocks of a single chain are connected.
IndexesExact ==
    /\ Index!TypeOK /\ Index!CoinsExact
    /\ Index!UnspentExact /\ Index!AddressExact /\ Index!SpentCovers
    /\ Index!IndexCatchesUp

\* Whatever is accepted, replaced, evicted, mined and brought back by a
\* reorganisation, every entry of the memory pool can be mined after the ones it
\* spends, the maps and links describe the transactions that are in it, and after a
\* reorganisation nothing is left that is too early or beyond the limit.  The number,
\* size and fees of the descendants that every entry caches are the real ones, or the
\* entry is marked dirty.
PoolExact == Pool!TypeOK /\ Pool!LinksExact /\ Pool!PoolMinable /\ Pool!PackagesExact

===============================================================================
