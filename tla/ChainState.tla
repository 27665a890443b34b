------------------------------ MODULE ChainState ------------------------------
(***************************************************************************)
(* The block index and the active chain (validation.cpp): headers and      *)
(* blocks are accepted in any order, ActivateBestChain moves the tip to    *)
(* the candidate with most work and releases cs_main on the way, and       *)
(* InvalidateBlock, ReconsiderBlock and ReprocessBlocks revise what is     *)
(* valid.  The block index and the coin database reach the disk at         *)
(* different times and the process may crash between any two steps.        *)
(*                                                                         *)
(* The blocks are the nodes of a fixed tree.  They are natural numbers,    *)
(* whose order is that of the CBlockIndex pointers, the last tie-breaker   *)
(* of the work comparator.  A scene says what happens in a behaviour:      *)
(* blocks of badBody fail CheckBlock, blocks of badConnect fail            *)
(* ConnectBlock, and the outcome of ConnectBlock for a block of dubious    *)
(* depends on the masternode payments known to this node.                  *)
(***************************************************************************)
EXTENDS Naturals, FiniteSets, Functions

CONSTANTS Block, Genesis, Parent, Proof, Thread, NoThread, NoBlock,
          Scenes,      \* the scopes of a run
          Keep,        \* MIN_BLOCKS_TO_KEEP
          MaxSeq       \* bound on nBlockSequenceId

ASSUME TreeAssumption ==
    /\ Block \subseteq Nat /\ Genesis \in Block
    /\ Parent \in [Block \ {Genesis} -> Block]
    /\ Proof \in [Block -> Nat \ {0}]
    /\ NoBlock \notin Block /\ NoThread \notin Thread
    /\ Scenes \subseteq [blocks : SUBSET Block, threads : SUBSET Thread,
                         badBody : SUBSET Block, badConnect : SUBSET Block,
                         dubious : SUBSET Block,
                         events : SUBSET {"invalidate", "reconsider",
                                          "reprocess", "prune", "crash"}]

\* There are finitely many blocks, so that a set of them has a size.
ASSUME SizeAssumption ==
    IsFiniteSet(Block) /\ \A S \in SUBSET Block : Cardinality(S) \in Nat

TREE == 2            \* BLOCK_VALID_TREE
TRANSACTIONS == 3    \* BLOCK_VALID_TRANSACTIONS
SCRIPTS == 5         \* BLOCK_VALID_SCRIPTS

VARIABLES
    idx,        \* mapBlockIndex: nStatus and nTx of every block
    linked,     \* the blocks with nChainTx # 0
    seq,        \* nSequenceId
    nextSeq,    \* nBlockSequenceId
    cands,      \* setBlockIndexCandidates
    unlinked,   \* mapBlocksUnlinked: the second members of its pairs
    tip,        \* chainActive.Tip() and the best block of pcoinsTip
    rejected,   \* mapRejectedBlocks
    dirty,      \* setDirtyBlockIndex
    idxDisk,    \* the block index database
    tipDisk,    \* the best block of the coin database
    flushing,   \* FlushStateToDisk has written the index, not yet the coins
    holder,     \* who holds cs_main
    pc,         \* where each thread is
    mostWork,   \* pindexMostWork of ActivateBestChain, pindex of InvalidateBlock
    oldTip,     \* pindexOldTip of ActivateBestChainStep
    nested,     \* ActivateBestChain runs inside ReprocessBlocks, under cs_main
    todo,       \* what ReprocessBlocks has still to do
    up,         \* the process runs
    aborted,    \* an assertion has failed
    scene       \* blocks, threads and events of this behaviour, never changed

tree == <<idx, linked, seq, nextSeq, cands, unlinked, tip, rejected, dirty>>
disk == <<idxDisk, tipDisk, flushing>>
control == <<holder, pc, mostWork, oldTip, nested, todo>>
vars == <<tree, disk, control, up, aborted, scene>>

(***************************************************************************)
(* The tree.                                                               *)
(***************************************************************************)
\* The sets that have the parents of their members.
Closed == {S \in SUBSET Block : \A b \in S \ {Genesis} : Parent[b] \in S}

\* A block and its ancestors: the least such set.
Ancestors == [b \in Block |-> {a \in Block : \A S \in Closed : b \in S => a \in S}]

\* Every chain begins with the genesis block.
ASSUME RootAssumption == \A b \in Block : Genesis \in Ancestors[b]

nHeight[b \in Block] == Cardinality(Ancestors[b]) - 1

nChainWork[b \in Block] ==
    (IF b = Genesis THEN 0 ELSE nChainWork[Parent[b]]) + Proof[b]

\* The recursion ends at the genesis block, so every block has more work than its
\* parent.
ASSUME WorkAssumption ==
    /\ nChainWork \in [Block -> Nat]
    /\ \A b \in Block \ {Genesis} : nChainWork[Parent[b]] < nChainWork[b]

NoEntry == [valid |-> 0, data |-> FALSE, undo |-> FALSE, nTx |-> FALSE,
            failed |-> {}]

HeaderEntry == [NoEntry EXCEPT !.valid = TREE]

GenesisEntry == [NoEntry EXCEPT !.valid = TRANSACTIONS, !.data = TRUE,
                                !.nTx = TRUE]

Known == {b \in Block : idx[b] # NoEntry}

Failed(b) == idx[b].failed # {}

IsValid(e, upTo) == e.failed = {} /\ e.valid >= upTo

RaiseValidity(e, upTo) ==
    IF e.failed = {} /\ e.valid < upTo THEN [e EXCEPT !.valid = upTo] ELSE e

\* Faulty: InvalidBlockFound does not mark the block.
Mark_Nothing(e, flag) == e

\* Faulty: a block that fails itself is marked like its descendants.
Mark_Child(e, flag) == [e EXCEPT !.failed = @ \cup {"CHILD"}]

Mark(e, flag) == [e EXCEPT !.failed = @ \cup {flag}]

\* CBlockIndexWorkComparator, with the sequence numbers s.
WorseBy(s, a, b) ==
    \/ nChainWork[a] < nChainWork[b]
    \/ /\ nChainWork[a] = nChainWork[b]
       /\ s[a] > s[b] \/ (s[a] = s[b] /\ a > b)

Worse(a, b) == WorseBy(seq, a, b)

\* chainActive.Contains
Active == Ancestors[tip]

(***************************************************************************)
(* cs_main.                                                                *)
(***************************************************************************)
Running == up /\ ~ aborted /\ ~ flushing

Idle(t) == Running /\ holder = NoThread /\ pc[t] = "idle"

Holds(t, where) == Running /\ holder = t /\ pc[t] = where

\* A thread leaves cs_main and goes on at where.
Release(t, where) ==
    /\ holder' = NoThread
    /\ pc' = [pc EXCEPT ![t] = where]

\* FlushStateToDisk: the index is written first, the coins after it.  The
\* entries e are those of the block index when it is called, d its dirty set.
WriteIndex(e, d, full) ==
    /\ idxDisk' = [b \in Block |-> IF b \in d THEN e[b] ELSE idxDisk[b]]
    /\ dirty' = {}
    /\ flushing' = full
    /\ UNCHANGED tipDisk

\* Faulty: the coins are written without the block index.
FlushIfNeeded_CoinsOnly(e, d) ==
    /\ dirty' = d
    /\ flushing' \in BOOLEAN
    /\ UNCHANGED <<idxDisk, tipDisk>>

\* FLUSH_STATE_IF_NEEDED, at the end of ConnectTip and DisconnectTip.
FlushIfNeeded(e, d) ==
    \/ dirty' = d /\ UNCHANGED disk
    \/ "crash" \in scene.events /\ WriteIndex(e, d, TRUE)

FlushCoins ==
    /\ up /\ ~ aborted /\ flushing
    /\ tipDisk' = tip
    /\ flushing' = FALSE
    /\ UNCHANGED <<tree, idxDisk, control, up, aborted>>

\* FLUSH_STATE_PERIODIC and FLUSH_STATE_ALWAYS.
FlushStateToDisk(full) ==
    /\ "crash" \in scene.events
    /\ Running /\ holder = NoThread
    /\ WriteIndex(idx, dirty, full)
    /\ UNCHANGED <<idx, linked, seq, nextSeq, cands, unlinked, tip, rejected,
                   control, up, aborted>>

(***************************************************************************)
(* Accepting headers and blocks.                                           *)
(***************************************************************************)
HeaderOK(b) ==
    IF b \in Known THEN ~ Failed(b)
    ELSE Parent[b] \in Known /\ ~ Failed(Parent[b])

\* mapBlockIndex after AcceptBlockHeader.
WithHeader(b) == IF b \in Known THEN idx ELSE [idx EXCEPT ![b] = HeaderEntry]

AcceptBlockHeader(t, b) ==
    /\ Idle(t)
    /\ b \notin Known /\ HeaderOK(b)
    /\ idx' = WithHeader(b)
    /\ dirty' = dirty \cup {b}
    /\ UNCHANGED <<linked, seq, nextSeq, cands, unlinked, tip, rejected, disk,
                   control, up, aborted>>

\* Faulty: the blocks that were waiting for their parent are left waiting.
NowLinked_Alone(b) == {b}

\* The blocks ReceivedBlockTransactions links when b arrives: b and those of
\* mapBlocksUnlinked that wait for it.
NowLinked(b) ==
    {b} \cup {d \in Block : /\ b \in Ancestors[d] /\ d # b
                            /\ Ancestors[d] \ Ancestors[b] \subseteq unlinked}

\* Breadth first, the children of a block in any order.
LinkOrders(S) ==
    {r \in Bijection(S, 0..(Cardinality(S) - 1)) :
        \A a, b \in S : nHeight[a] < nHeight[b] => r[a] < r[b]}

ReceivedBlockTransactions(b) ==
    /\ idx' = [WithHeader(b) EXCEPT
                 ![b] = RaiseValidity([@ EXCEPT !.nTx = TRUE, !.data = TRUE],
                                      TRANSACTIONS)]
    /\ dirty' = dirty \cup {b}
    /\ IF Parent[b] \in linked
       THEN LET S == NowLinked(b)
            IN  /\ nextSeq + Cardinality(S) <= MaxSeq
                /\ \E r \in LinkOrders(S) :
                      seq' = [d \in Block |-> IF d \in S THEN nextSeq + r[d]
                                              ELSE seq[d]]
                /\ nextSeq' = nextSeq + Cardinality(S)
                /\ linked' = linked \cup S
                /\ unlinked' = unlinked \ S
                /\ cands' = cands \cup {d \in S : ~ WorseBy(seq', d, tip)}
       ELSE /\ linked' = linked \ {b}
            /\ unlinked' = IF IsValid(idx[Parent[b]], TREE)
                           THEN unlinked \cup {b} ELSE unlinked
            /\ UNCHANGED <<seq, nextSeq, cands>>

\* AcceptBlock ignores a block it has, and one nobody asked for that cannot
\* improve the chain.
Ignored(b, fRequested) ==
    \/ idx[b].data
    \/ /\ ~ fRequested
       /\ \/ idx[b].nTx
          \/ nChainWork[b] <= nChainWork[tip]
          \/ nHeight[b] > nHeight[tip] + Keep

\* ProcessNewBlock: AcceptBlock under cs_main, then ActivateBestChain.
ProcessNewBlock(t, b, fRequested) ==
    /\ Idle(t)
    /\ HeaderOK(b)
    /\ \/ /\ Ignored(b, fRequested)
          /\ idx' = WithHeader(b)
          /\ dirty' = dirty \cup ({b} \ Known)
          /\ pc' = [pc EXCEPT ![t] = "loop"]
          /\ UNCHANGED <<linked, seq, nextSeq, cands, unlinked>>
       \/ /\ ~ Ignored(b, fRequested) /\ b \in scene.badBody
          /\ idx' = [WithHeader(b) EXCEPT ![b] = Mark(@, "VALID")]
          /\ dirty' = dirty \cup {b}
          /\ UNCHANGED <<linked, seq, nextSeq, cands, unlinked, pc>>
       \/ /\ ~ Ignored(b, fRequested) /\ b \notin scene.badBody
          /\ ReceivedBlockTransactions(b)
          /\ pc' = [pc EXCEPT ![t] = "loop"]
    /\ UNCHANGED <<tip, rejected, disk, holder, mostWork, oldTip, nested, todo,
                   up, aborted>>

(***************************************************************************)
(* ActivateBestChain.                                                      *)
(***************************************************************************)
\* The blocks FindMostWorkChain walks through from a candidate c.
Path(c) == Ancestors[c] \ Active

Unusable(b) == Failed(b) \/ ~ idx[b].data

\* The best block of a set, as a set: none for the empty one.
Best(S) == {b \in S : \A a \in S \ {b} : Worse(a, b)}

\* The first unusable block met on the way down from c, and the blocks above.
Stop(c) == CHOOSE b \in Path(c) :
              /\ Unusable(b)
              /\ \A a \in Path(c) : Unusable(a) => a \in Ancestors[b]

Above(c) == Ancestors[c] \ Ancestors[Stop(c)]

\* Faulty: FindMostWorkChain looks at the candidate itself only.
Usable_Shallow(c) == ~ Unusable(c)

Usable(c) == \A b \in Path(c) : ~ Unusable(b)

UsableCandidates == {c \in cands : Usable(c)}

\* What FindMostWorkChain returns: the best usable candidate, or NoBlock.
MostWork == IF UsableCandidates = {} THEN {NoBlock} ELSE Best(UsableCandidates)

\* The better candidates it has tried are dropped with the part of their chain above
\* the fault; that part is marked, or waits in mapBlocksUnlinked for the missing data.
FindMostWorkChain(chosen) ==
    LET usable == UsableCandidates
        tried == {c \in cands \ usable : usable # {} => Worse(chosen, c)}
        onFailed == {c \in tried : Failed(Stop(c))}
        marked == UNION {Above(c) : c \in onFailed}
    IN  /\ cands' = cands \ UNION {Above(c) \cup {Stop(c)} : c \in tried}
        /\ idx' = [b \in Block |-> IF b \in marked THEN Mark(idx[b], "CHILD")
                                   ELSE idx[b]]
        /\ unlinked' = unlinked \cup UNION {Above(c) : c \in tried \ onFailed}

\* Where ActivateBestChain's thread goes after its loop.
Leave(t) == Release(t, "idle") /\ nested' = [nested EXCEPT ![t] = FALSE]

\* One round of the loop takes cs_main and settles on a chain.
Loop(t) ==
    /\ Running /\ pc[t] = "loop" /\ holder = IF nested[t] THEN t ELSE NoThread
    /\ \E m \in IF mostWork[t] = NoBlock THEN MostWork ELSE {mostWork[t]} :
           /\ IF mostWork[t] = NoBlock THEN FindMostWorkChain(m)
              ELSE UNCHANGED <<cands, idx, unlinked>>
           /\ IF m \in {NoBlock, tip}
              THEN /\ Leave(t)
                   /\ mostWork' = [mostWork EXCEPT ![t] = NoBlock]
                   /\ UNCHANGED oldTip
              ELSE /\ holder' = t
                   /\ pc' = [pc EXCEPT ![t] = "step"]
                   /\ mostWork' = [mostWork EXCEPT ![t] = m]
                   /\ oldTip' = [oldTip EXCEPT ![t] = tip]
                   /\ UNCHANGED nested
    /\ UNCHANGED <<linked, seq, nextSeq, tip, rejected, dirty, disk, todo, up,
                   aborted>>

\* DisconnectTip: the coins go back to those of the parent.
DisconnectTip(e, d) ==
    /\ tip' = Parent[tip]
    /\ idx' = e
    /\ FlushIfNeeded(e, d)
    /\ UNCHANGED <<linked, seq, nextSeq, unlinked, rejected>>

\* What follows ActivateBestChainStep: the loop ends when the tip is the block
\* it works towards.
AfterStep(t, newTip) ==
    IF newTip = mostWork[t]
    THEN Leave(t) /\ mostWork' = [mostWork EXCEPT ![t] = NoBlock]
    ELSE /\ pc' = [pc EXCEPT ![t] = "loop"]
         /\ holder' = IF nested[t] THEN t ELSE NoThread
         /\ UNCHANGED <<mostWork, nested>>

\* ActivateBestChainStep: blocks that are not in the best chain go.
StepDisconnect(t) ==
    /\ Holds(t, "step")
    /\ tip \notin Ancestors[mostWork[t]]
    /\ DisconnectTip(idx, dirty)
    /\ IF tip' = mostWork[t] THEN AfterStep(t, tip')
       ELSE UNCHANGED <<holder, pc, mostWork, nested>>
    /\ UNCHANGED <<cands, oldTip, todo, up, aborted>>

\* The block ActivateBestChainStep connects next.
ToConnect(t) ==
    CHOOSE b \in Ancestors[mostWork[t]] : b # Genesis /\ Parent[b] = tip

\* Faulty: only blocks with less work than the tip are dropped.
PruneBlockIndexCandidates_Ties(newTip) ==
    {c \in cands : nChainWork[c] >= nChainWork[newTip]}

\* Faulty: the tip itself is dropped.
PruneBlockIndexCandidates_Tip(newTip) == {c \in cands : Worse(newTip, c)}

PruneBlockIndexCandidates(newTip) == {c \in cands : ~ Worse(c, newTip)}

\* ConnectTip succeeds: ConnectBlock has written the undo data.
StepConnect(t) ==
    /\ Holds(t, "step")
    /\ tip \in Ancestors[mostWork[t]] /\ tip # mostWork[t]
    /\ LET b == ToConnect(t)
           need == ~ idx[b].undo \/ ~ IsValid(idx[b], SCRIPTS)
           e == [idx EXCEPT ![b] = IF need
                    THEN RaiseValidity([@ EXCEPT !.undo = TRUE], SCRIPTS) ELSE @]
       IN  /\ b \notin scene.badConnect
           /\ idx' = e
           /\ FlushIfNeeded(e, IF need THEN dirty \cup {b} ELSE dirty)
           /\ tip' = b
           /\ cands' = PruneBlockIndexCandidates(b)
           /\ aborted' = (cands' = {})
           /\ IF b = mostWork[t] \/ nChainWork[b] > nChainWork[oldTip[t]]
              THEN AfterStep(t, b)
              ELSE UNCHANGED <<holder, pc, mostWork, nested>>
    /\ UNCHANGED <<linked, seq, nextSeq, unlinked, rejected, oldTip, todo, up>>

\* ConnectTip fails: InvalidBlockFound, and another branch is looked for.
StepInvalid(t) ==
    /\ Holds(t, "step")
    /\ tip \in Ancestors[mostWork[t]] /\ tip # mostWork[t]
    /\ LET b == ToConnect(t)
       IN  /\ b \in scene.badConnect \cup scene.dubious
           /\ idx' = [idx EXCEPT ![b] = Mark(@, "VALID")]
           /\ dirty' = dirty \cup {b}
           /\ cands' = cands \ {b}
           /\ rejected' = IF b \in scene.dubious THEN rejected \cup {b} ELSE rejected
    /\ mostWork' = [mostWork EXCEPT ![t] = NoBlock]
    /\ pc' = [pc EXCEPT ![t] = "loop"]
    /\ holder' = IF nested[t] THEN t ELSE NoThread
    /\ UNCHANGED <<linked, seq, nextSeq, unlinked, tip, disk, oldTip, nested,
                   todo, up, aborted>>

(***************************************************************************)
(* Changing one's mind.                                                    *)
(***************************************************************************)
\* invalidateblock: the block is marked under cs_main ...
InvalidateBlock(t, b) ==
    /\ "invalidate" \in scene.events
    /\ Idle(t)
    /\ b \in Known \ {Genesis}
    /\ idx' = [idx EXCEPT ![b] = Mark(@, "VALID")]
    /\ dirty' = dirty \cup {b}
    /\ cands' = cands \ {b}
    /\ holder' = t
    /\ pc' = [pc EXCEPT ![t] = "invalidate"]
    /\ mostWork' = [mostWork EXCEPT ![t] = b]
    /\ UNCHANGED <<linked, seq, nextSeq, unlinked, tip, rejected, disk, oldTip,
                   nested, todo, up, aborted>>

\* ... the active chain is taken down to its parent ...
InvalidateDisconnect(t) ==
    /\ Holds(t, "invalidate")
    /\ mostWork[t] \in Active
    /\ cands' = cands \ {tip}
    /\ DisconnectTip([idx EXCEPT ![tip] = Mark(@, "CHILD")], dirty \cup {tip})
    /\ UNCHANGED <<control, up, aborted>>

\* Faulty: the candidates the new tip makes good enough are not looked for.
NowGoodEnough_Tip == {tip}

\* The blocks that may have become as good as the tip.
NowGoodEnough ==
    {b \in linked : IsValid(idx[b], TRANSACTIONS) /\ ~ Worse(b, tip)}

\* ... and the candidates are completed, before ActivateBestChain.
InvalidateEnd(t) ==
    /\ Holds(t, "invalidate")
    /\ mostWork[t] \notin Active
    /\ cands' = cands \cup NowGoodEnough
    /\ mostWork' = [mostWork EXCEPT ![t] = NoBlock]
    /\ Release(t, "loop")
    /\ UNCHANGED <<idx, linked, seq, nextSeq, unlinked, tip, rejected, dirty,
                   disk, oldTip, nested, todo, up, aborted>>

\* ReconsiderBlock clears the block, its descendants and its ancestors.
Reconsidered(b) ==
    LET below == {d \in Known : b \in Ancestors[d] /\ Failed(d)}
        cleared == below \cup {a \in Ancestors[b] : Failed(a)}
        e == [d \in Block |-> IF d \in cleared THEN [idx[d] EXCEPT !.failed = {}]
                              ELSE idx[d]]
    IN  /\ idx' = e
        /\ dirty' = dirty \cup cleared
        /\ cands' = cands \cup {d \in below \cap linked :
                                  IsValid(e[d], TRANSACTIONS) /\ Worse(tip, d)}

\* reconsiderblock
ReconsiderBlock(t, b) ==
    /\ "reconsider" \in scene.events
    /\ Idle(t)
    /\ b \in Known
    /\ Reconsidered(b)
    /\ pc' = [pc EXCEPT ![t] = "loop"]
    /\ UNCHANGED <<linked, seq, nextSeq, unlinked, tip, rejected, disk, holder,
                   mostWork, oldTip, nested, todo, up, aborted>>

\* SPORK_12 calls ReprocessBlocks(n): under cs_main, blocks R rejected of late
\* are reconsidered ...
ReprocessBlocks(t, R, n) ==
    /\ "reprocess" \in scene.events
    /\ Idle(t)
    /\ holder' = t
    /\ pc' = [pc EXCEPT ![t] = "reprocess"]
    /\ nested' = [nested EXCEPT ![t] = TRUE]
    /\ todo' = [blocks |-> R, disconnect |-> n]
    /\ UNCHANGED <<tree, disk, mostWork, oldTip, up, aborted>>

ReprocessBlock(t, b) ==
    /\ Holds(t, "reprocess") /\ b \in todo.blocks
    /\ Reconsidered(b)
    /\ todo' = [todo EXCEPT !.blocks = @ \ {b}]
    /\ UNCHANGED <<linked, seq, nextSeq, unlinked, tip, rejected, disk, holder,
                   pc, mostWork, oldTip, nested, up, aborted>>

\* ... n blocks are disconnected ...
DisconnectBlocks(t) ==
    /\ Holds(t, "reprocess") /\ todo.blocks = {}
    /\ todo.disconnect > 0 /\ tip # Genesis
    /\ todo' = [todo EXCEPT !.disconnect = @ - 1]
    /\ DisconnectTip(idx, dirty)
    /\ UNCHANGED <<cands, holder, pc, mostWork, oldTip, nested, up, aborted>>

\* ... and the best chain is activated, without leaving cs_main.
ReprocessEnd(t) ==
    /\ Holds(t, "reprocess") /\ todo.blocks = {}
    /\ todo.disconnect = 0 \/ tip = Genesis
    /\ todo' = [blocks |-> {}, disconnect |-> 0]
    /\ pc' = [pc EXCEPT ![t] = "loop"]
    /\ UNCHANGED <<tree, disk, holder, mostWork, oldTip, nested, up, aborted>>

(***************************************************************************)
(* Pruning, crash and restart.                                             *)
(***************************************************************************)
\* FlushStateToDisk deletes a block file: here, a file holds one block.
PruneOneBlockFile(b) ==
    /\ "prune" \in scene.events
    /\ Running /\ holder = NoThread
    /\ idx[b].data /\ nHeight[b] + Keep <= nHeight[tip]
    /\ LET e == [idx EXCEPT ![b].data = FALSE, ![b].undo = FALSE]
       IN  idx' = e /\ WriteIndex(e, dirty \cup {b}, TRUE)
    /\ unlinked' = unlinked \ {b}
    /\ UNCHANGED <<linked, seq, nextSeq, cands, tip, rejected, control, up,
                   aborted>>

ForgetThreads ==
    /\ holder' = NoThread
    /\ pc' = [t \in Thread |-> "idle"]
    /\ mostWork' = [t \in Thread |-> NoBlock]
    /\ oldTip' = [t \in Thread |-> NoBlock]
    /\ nested' = [t \in Thread |-> FALSE]
    /\ todo' = [blocks |-> {}, disconnect |-> 0]

Crash ==
    /\ "crash" \in scene.events
    /\ up /\ ~ aborted
    /\ up' = FALSE
    /\ flushing' = FALSE
    /\ idx' = [b \in Block |-> NoEntry]
    /\ seq' = [b \in Block |-> 0]
    /\ nextSeq' = 1
    /\ linked' = {} /\ cands' = {} /\ unlinked' = {} /\ rejected' = {}
    /\ dirty' = {}
    /\ tip' = tipDisk
    /\ ForgetThreads
    /\ UNCHANGED <<idxDisk, tipDisk, aborted>>

\* LoadBlockIndexDB, then ActivateBestChain in ThreadImport.
Restart(t) ==
    LET e == idxDisk
        chained == {b \in Block : \A a \in Ancestors[b] : e[a].nTx}
        found == {b \in chained : IsValid(e[b], TRANSACTIONS)}
        kept == {b \in found : ~ Worse(b, tipDisk)}
    IN  /\ ~ up /\ ~ aborted
        /\ up' = TRUE
        /\ idx' = e
        /\ linked' = chained
        /\ unlinked' = {b \in Block : e[b].nTx /\ b \notin chained}
        /\ cands' = kept
        /\ aborted' = (kept = {})
        /\ pc' = [pc EXCEPT ![t] = "loop"]
        /\ UNCHANGED <<seq, nextSeq, tip, rejected, dirty, disk, holder,
                       mostWork, oldTip, nested, todo>>

Init ==
    /\ idx = [b \in Block |-> IF b = Genesis THEN GenesisEntry ELSE NoEntry]
    /\ idxDisk = idx
    /\ linked = {Genesis} /\ cands = {Genesis} /\ unlinked = {}
    /\ seq = [b \in Block |-> 0]
    /\ nextSeq = 1
    /\ tip = Genesis /\ tipDisk = Genesis
    /\ rejected = {} /\ dirty = {}
    /\ flushing = FALSE
    /\ holder = NoThread
    /\ pc = [t \in Thread |-> "idle"]
    /\ mostWork = [t \in Thread |-> NoBlock]
    /\ oldTip = [t \in Thread |-> NoBlock]
    /\ nested = [t \in Thread |-> FALSE]
    /\ todo = [blocks |-> {}, disconnect |-> 0]
    /\ up = TRUE /\ aborted = FALSE
    /\ scene \in Scenes

\* The steps of a thread inside one of the functions.
Work(t) ==
    \/ Loop(t) \/ StepDisconnect(t) \/ StepConnect(t) \/ StepInvalid(t)
    \/ InvalidateDisconnect(t) \/ InvalidateEnd(t)
    \/ \E b \in Block : ReprocessBlock(t, b)
    \/ DisconnectBlocks(t) \/ ReprocessEnd(t)

Next ==
    /\ UNCHANGED scene
    /\ \/ \E t \in scene.threads :
             \/ Work(t)
             \/ Restart(t)
             \/ \E b \in scene.blocks \ {Genesis} :
                   \/ AcceptBlockHeader(t, b)
                   \/ \E r \in BOOLEAN : ProcessNewBlock(t, b, r)
                   \/ InvalidateBlock(t, b)
                   \/ ReconsiderBlock(t, b)
             \/ \E R \in SUBSET rejected, n \in 0..1 : ReprocessBlocks(t, R, n)
       \/ \E b \in Block : PruneOneBlockFile(b)
       \/ \E full \in BOOLEAN : FlushStateToDisk(full)
       \/ FlushCoins
       \/ Crash

Spec == Init /\ [][Next]_vars

\* A thread inside one of the functions goes on: nothing there waits but for
\* cs_main.
Fairness ==
    /\ \A t \in Thread : WF_vars(Work(t) /\ UNCHANGED scene)
    /\ WF_vars(FlushCoins /\ UNCHANGED scene)

FairSpec == Spec /\ Fairness

(***************************************************************************)
(* Properties.  Most are assertions of CheckBlockIndex, which runs when    *)
(* ActivateBestChain has ended.                                            *)
(***************************************************************************)
Quiet == Running /\ \A t \in Thread : pc[t] = "idle"

OneThread == \E t \in Thread : scene.threads = {t}

Unreconsidered == scene.events \cap {"reconsider", "reprocess"} = {}

\* ConnectBlock gives the same answer whenever it is asked about a block.
Decided == scene.dubious = {}

\* Whether a block is valid is the same whenever it is looked at, or one thread
\* finds out and the process does not stop before both databases know.
Settled == "invalidate" \notin scene.events /\ Decided
Undisturbed == Settled \/ (OneThread /\ "crash" \notin scene.events)

\* One thread, which gets one answer about a block, moves the tip.
Orderly == OneThread /\ Decided /\ Undisturbed

\* ... and neither reconsidered blocks nor pruned ones come back.
Straight == Orderly /\ Unreconsidered /\ "prune" \notin scene.events

\* The active chain is not taken down to blocks whose data have been pruned.
PrunedStaysDeep == ~ {"invalidate", "prune"} \subseteq scene.events

\* pindexFirstNeverProcessed, pindexFirstInvalid and pindexFirstMissing are null
Seen(b) == \A a \in Ancestors[b] : idx[a].nTx
NoInvalid(b) == \A a \in Ancestors[b] : "VALID" \notin idx[a].failed
AllData(b) == \A a \in Ancestors[b] : idx[a].data

\* A block that can be activated: it has its data, and no ancestor is marked.
Good(b) == AllData(b) /\ \A a \in Ancestors[b] : ~ Failed(a)

Entry == [valid : {0, TREE, TRANSACTIONS, SCRIPTS}, data : BOOLEAN,
          undo : BOOLEAN, nTx : BOOLEAN, failed : SUBSET {"VALID", "CHILD"}]

\* The variables have the types their declarations give them.
TypeOK ==
    /\ idx \in [Block -> Entry] /\ idxDisk \in [Block -> Entry]
    /\ linked \subseteq Block /\ cands \subseteq Block /\ unlinked \subseteq Block
    /\ rejected \subseteq Block /\ dirty \subseteq Known
    /\ seq \in [Block -> 0..MaxSeq] /\ nextSeq \in 1..MaxSeq
    /\ tip \in Block /\ tipDisk \in Block
    /\ flushing \in BOOLEAN /\ up \in BOOLEAN /\ aborted \in BOOLEAN
    /\ holder \in Thread \cup {NoThread}
    /\ pc \in [Thread -> {"idle", "loop", "step", "invalidate", "reprocess"}]
    /\ mostWork \in [Thread -> Block \cup {NoBlock}]
    /\ oldTip \in [Thread -> Block \cup {NoBlock}]
    /\ nested \in [Thread -> BOOLEAN]
    /\ todo \in [blocks : SUBSET Block, disconnect : Nat]

\* "nChainTx != 0 is used to signal that all parent blocks have been processed":
\* blocks may arrive in any order, and are linked exactly when their ancestors
\* have been received.  A block that arrives while its parent is marked failed is
\* not inserted in mapBlocksUnlinked; it is not linked while that parent is
\* invalid, nor when it is reconsidered.  One that is pruned before its parent
\* arrives is linked when it is downloaded again.
LinkedExactly ==
    up => \A b \in Known :
        /\ b \in linked => Seen(b)
        /\ /\ Seen(b) /\ NoInvalid(b) /\ Unreconsidered
           /\ AllData(b) \/ "prune" \notin scene.events
           => b \in linked

\* "Either the current tip or a successor of it we're working towards is left in
\* setBlockIndexCandidates": the assertion of PruneBlockIndexCandidates, at run time
\* and at every start.  It can fail when a crash falls between the two writes that
\* follow InvalidateBlock or a block found invalid on second thoughts, and when
\* another thread marks a block, and takes it from the candidates, that this thread
\* goes on to connect.
CandidatesLeft == Undisturbed => ~ aborted

\* CheckBlockIndex: after ActivateBestChain, setBlockIndexCandidates holds every
\* valid block with data that is as good as the tip, and no block that is worse,
\* with the exceptions of LinkedExactly and ActivatedBest.
GoodCandidates ==
    Quiet /\ Unreconsidered /\ Orderly /\ PrunedStaysDeep => \A b \in Known :
        IF Seen(b) /\ ~ Worse(b, tip)
        THEN NoInvalid(b) /\ (AllData(b) \/ b = tip) => b \in cands
        ELSE b \notin cands

\* CheckBlockIndex: a block that is better than the tip, and was dropped from the
\* candidates for want of the data of a pruned parent, is in mapBlocksUnlinked.
DroppedFindable ==
    Quiet /\ Unreconsidered /\ Orderly /\ PrunedStaysDeep => \A b \in Known :
        /\ idx[b].data /\ Seen(b) /\ ~ AllData(b) /\ NoInvalid(b)
        /\ ~ Worse(b, tip) /\ b \notin cands
        => b \in unlinked

\* Pruning does not keep ActivateBestChain from the chain with most work, when no
\* reorganisation fails meanwhile and the chain is not taken down to pruned blocks.
BestUnpruned ==
    Quiet /\ Unreconsidered /\ Orderly /\ PrunedStaysDeep /\ scene.badConnect = {}
        => \A b \in Known : Good(b) => nChainWork[b] <= nChainWork[tip]

\* setBlockIndexCandidates is never left empty, and is what it should be when
\* ActivateBestChain has ended, with pruning too: a good block that is not in it
\* waits for data, and none has more work than the tip.
CandidatesExact == CandidatesLeft /\ GoodCandidates /\ DroppedFindable /\ BestUnpruned

\* CheckBlockIndex: a block with data that waits for a parent is in
\* mapBlocksUnlinked, and one whose ancestors all have their data is not.  A block
\* whose parent is failed when it arrives is not inserted, and its descendants are
\* inserted and stay there when the blocks below it are linked: invalid ancestors and
\* reconsidering are excluded.
UnlinkedFindable ==
    Quiet /\ Unreconsidered => \A b \in Known :
        /\ idx[b].data /\ ~ Seen(b) /\ NoInvalid(b) => b \in unlinked
        /\ AllData(b) /\ NoInvalid(b) => b \notin unlinked

\* "The failed mask cannot be set for blocks without invalid parents."  The
\* exception is ReconsiderBlock, which clears every ancestor of the block but only
\* its own descendants.
FailedHaveCause == Quiet /\ Unreconsidered => \A b \in Known : Failed(b) => ~ NoInvalid(b)

\* "The result is either failure or an activated best chain": when every thread
\* has left ActivateBestChain, every other valid block with data is worse than the
\* tip, for having less work or for having come later; of all these blocks
\* setBlockIndexCandidates holds only the tip, and it never was empty.  Two threads in
\* ActivateBestChain, blocks reconsidered, and a block that is found invalid when it
\* is connected again are exceptions; so is pruning, when it takes the old branch
\* away in the middle of a reorganisation that fails (Keep blocks from the fork).
ActivatedBest ==
    Straight =>
        /\ ~ aborted
        /\ Quiet => /\ tip \in cands /\ Good(tip)
                    /\ \A b \in cands : ~ Worse(b, tip)
                    /\ \A b \in Block \ {tip} : Good(b) => Worse(b, tip)

\* InvalidateBlock: "ActivateBestChain considers blocks already in chainActive
\* unconditionally valid already, so force disconnect away from it": whenever
\* cs_main is free, no block of the active chain is marked as failed, with the
\* exceptions of CandidatesLeft.
ActiveValid ==
    Running /\ holder = NoThread /\ Undisturbed =>
        \A b \in Active : ~ Failed(b)

\* "This can only be done if the blocks / block index write was also done":
\* whenever the process stops, the index on disk has the block the coins on disk
\* belong to, and its ancestors, with the data to undo them unless it is pruned, and
\* fully checked (a block marked before it is connected is not raised any more).
RestartUsable ==
    "prune" \notin scene.events => \A b \in Ancestors[tipDisk] \ {Genesis} :
        /\ idxDisk[b].nTx /\ idxDisk[b].data /\ idxDisk[b].undo
        /\ Undisturbed => idxDisk[b].valid = SCRIPTS

\* The failure marks are neither too many nor too few: each has its cause among the
\* ancestors, and no block of the active chain has one.
MarksSound == FailedHaveCause /\ ActiveValid

\* No block that was received is lost: it is linked to the chain, or will be found
\* in mapBlocksUnlinked when what it waits for comes.
NoBlockLost == LinkedExactly /\ UnlinkedFindable

\* ActivateBestChain ends, whatever blocks turn out to be invalid on the way: it
\* either settles on a chain or runs out of candidates.  With a second thread, or
\* periodic flushes, this depends on the fairness of cs_main, which the code does
\* not ask for.
ActivationEnds ==
    \A t \in Thread :
        /\ pc[t] = "loop"
        /\ scene.threads = {t} /\ "crash" \notin scene.events
        ~> pc[t] = "idle"

===============================================================================
