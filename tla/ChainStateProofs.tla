--------------------------- MODULE ChainStateProofs ---------------------------
(***************************************************************************)
(* What the failure marks of the block index say, what a restart finds on  *)
(* disk, and that no block that was received is lost, proved for every     *)
(* tree of blocks, every set of threads and every scene.                   *)
(***************************************************************************)
EXTENDS ChainState, TLAPS

\* Most leaves are first-order reasoning; the ones that need more name SMT.
USE Zenon

(***************************************************************************)
(* The tree: Ancestors[b] is the chain from b down to the genesis block.   *)
(***************************************************************************)
LEMMA AncestorsLeast ==
    ASSUME NEW b \in Block, NEW S \in Closed, b \in S
    PROVE  Ancestors[b] \subseteq S
BY DEF Ancestors

LEMMA AncestorsClosed ==
    ASSUME NEW b \in Block
    PROVE  /\ Ancestors[b] \in Closed /\ Ancestors[b] \subseteq Block
           /\ b \in Ancestors[b]
<1>1. Ancestors[b] \subseteq Block /\ b \in Ancestors[b]
  BY DEF Ancestors
<1>2. ASSUME NEW a \in Ancestors[b] \ {Genesis} PROVE Parent[a] \in Ancestors[b]
  <2>1. a \in Block /\ Parent[a] \in Block
    BY <1>1, TreeAssumption
  <2>2. ASSUME NEW S \in Closed, b \in S PROVE Parent[a] \in S
    BY <2>2, AncestorsLeast DEF Closed
  <2> QED
    BY <2>1, <2>2 DEF Ancestors
<1> QED
  BY <1>1, <1>2 DEF Closed

\* The ancestors of an ancestor are ancestors.
LEMMA AncestorsTransitive ==
    ASSUME NEW b \in Block, NEW a \in Ancestors[b]
    PROVE  a \in Block /\ Ancestors[a] \subseteq Ancestors[b]
BY AncestorsClosed, AncestorsLeast

LEMMA AncestorsOfGenesis == Ancestors[Genesis] = {Genesis}
<1>1. {Genesis} \in Closed
  BY TreeAssumption DEF Closed
<1> QED
  BY <1>1, TreeAssumption, AncestorsLeast, AncestorsClosed, SMTT(30)

LEMMA AncestorsStep ==
    ASSUME NEW b \in Block \ {Genesis}
    PROVE  /\ Parent[b] \in Block
           /\ Ancestors[b] = {b} \cup Ancestors[Parent[b]]
<1>1. Parent[b] \in Block
  BY TreeAssumption
<1>2. {b} \cup Ancestors[Parent[b]] \in Closed
  BY <1>1, AncestorsClosed DEF Closed
<1>3. Ancestors[b] \subseteq {b} \cup Ancestors[Parent[b]]
  BY <1>2, AncestorsLeast
<1>4. Parent[b] \in Ancestors[b] /\ b \in Ancestors[b]
  BY AncestorsClosed DEF Closed
<1> QED
  BY <1>1, <1>3, <1>4, AncestorsTransitive

\* A chain has no branches: of two blocks in it, one is an ancestor of the other.
LEMMA AncestorsLinear ==
    ASSUME NEW c \in Block, NEW a \in Ancestors[c], NEW b \in Ancestors[c]
    PROVE  a \in Ancestors[b] \/ b \in Ancestors[a]
<1> DEFINE S == {x \in Ancestors[c] : a \in Ancestors[x] \/ x \in Ancestors[a]}
<1>1. c \in S
  BY AncestorsClosed
<1>2. ASSUME NEW x \in S \ {Genesis} PROVE Parent[x] \in S
  <2>1. x \in Block \ {Genesis} /\ Parent[x] \in Ancestors[c]
    BY AncestorsClosed DEF Closed
  <2>2. CASE a \in Ancestors[x] /\ a # x
    BY <2>1, <2>2, AncestorsStep
  <2>3. CASE x \in Ancestors[a]
    <3>1. a \in Block
      BY AncestorsClosed
    <3> QED
      BY <2>1, <2>3, <3>1, AncestorsClosed DEF Closed
  <2> QED
    BY <2>1, <2>2, <2>3, AncestorsClosed
<1>3. S \in Closed
  BY <1>2, AncestorsClosed DEF Closed
<1> QED
  BY <1>1, <1>3, AncestorsLeast

\* No block is its own ancestor's child: the parents lead to the genesis block.
LEMMA NoCycle ==
    ASSUME NEW b \in Block \ {Genesis}
    PROVE  b \notin Ancestors[Parent[b]]
<1> SUFFICES ASSUME b \in Ancestors[Parent[b]] PROVE FALSE
  OBVIOUS
<1> DEFINE S == {x \in Ancestors[b] : b \in Ancestors[x]}
<1>1. b \in S
  BY AncestorsClosed
<1>2. ASSUME NEW x \in S \ {Genesis} PROVE Parent[x] \in S
  <2>1. x \in Block \ {Genesis} /\ Parent[x] \in Ancestors[b]
    BY AncestorsClosed DEF Closed
  <2> QED
    BY <2>1, AncestorsStep
<1>3. S \in Closed
  BY <1>2, AncestorsClosed DEF Closed
<1>4. Genesis \in S
  BY <1>1, <1>3, AncestorsLeast, RootAssumption
<1> QED
  BY <1>4, AncestorsOfGenesis

\* Between a block of a chain and its head there is a next block to connect.
LEMMA NextExists ==
    ASSUME NEW c \in Block, NEW a \in Ancestors[c], a # c
    PROVE  \E b \in Ancestors[c] : b # Genesis /\ Parent[b] = a
<1> SUFFICES ASSUME \A b \in Ancestors[c] : ~ (b # Genesis /\ Parent[b] = a) PROVE FALSE
  OBVIOUS
<1>1. Ancestors[c] \ {a} \in Closed
  BY AncestorsClosed DEF Closed
<1> QED
  BY <1>1, AncestorsLeast, AncestorsClosed

\* FindMostWorkChain walks down to an unusable block that is not in the active chain.
LEMMA StopFound ==
    ASSUME NEW c \in Block, tip \in Block, ~ Usable(c)
    PROVE  Stop(c) \in Path(c) /\ Unusable(Stop(c))
<1> DEFINE U == {a \in Path(c) : Unusable(a)}
           S == {x \in Ancestors[c] : U \subseteq Ancestors[x]}
<1>1. U # {} /\ U \subseteq Ancestors[c] /\ Genesis \notin U
  BY RootAssumption DEF Usable, Path, Active
<1>2. SUFFICES ASSUME \A b \in U : ~ (U \subseteq Ancestors[b]) PROVE FALSE
  BY DEF Stop
<1>3. c \in S
  BY <1>1, AncestorsClosed
<1>4. ASSUME NEW x \in S \ {Genesis} PROVE Parent[x] \in S
  <2>1. x \in Block \ {Genesis} /\ Parent[x] \in Ancestors[c]
    BY AncestorsClosed DEF Closed
  <2>2. x \notin U
    BY <1>2
  <2> QED
    BY <2>1, <2>2, AncestorsStep
<1>5. S \in Closed
  BY <1>4, AncestorsClosed DEF Closed
<1>6. Genesis \in S
  BY <1>3, <1>5, AncestorsLeast, RootAssumption
<1> QED
  BY <1>1, <1>6, AncestorsOfGenesis

(***************************************************************************)
(* The entries of the block index.                                         *)
(***************************************************************************)
LEMMA FixedEntries ==
    /\ NoEntry \in Entry /\ HeaderEntry \in Entry /\ GenesisEntry \in Entry
    /\ NoEntry.failed = {} /\ HeaderEntry.failed = {} /\ GenesisEntry.failed = {}
    /\ ~ NoEntry.nTx /\ ~ HeaderEntry.nTx /\ GenesisEntry.nTx
    /\ ~ NoEntry.data /\ ~ HeaderEntry.data
    /\ ~ NoEntry.undo /\ ~ HeaderEntry.undo
BY DEF Entry, NoEntry, HeaderEntry, GenesisEntry, TREE, TRANSACTIONS, SCRIPTS

LEMMA MarkFields ==
    ASSUME NEW e \in Entry, NEW flag \in {"VALID", "CHILD"}
    PROVE  /\ Mark(e, flag) \in Entry
           /\ Mark(e, flag).failed = e.failed \cup {flag}
           /\ Mark(e, flag).valid = e.valid /\ Mark(e, flag).nTx = e.nTx
           /\ Mark(e, flag).data = e.data /\ Mark(e, flag).undo = e.undo
BY DEF Mark, Entry

LEMMA ClearFields ==
    ASSUME NEW e \in Entry
    PROVE  LET f == [e EXCEPT !.failed = {}]
           IN  /\ f \in Entry /\ f.failed = {} /\ f.valid = e.valid
               /\ f.nTx = e.nTx /\ f.data = e.data /\ f.undo = e.undo
BY DEF Entry

LEMMA RaiseFields ==
    ASSUME NEW e \in Entry, NEW v \in {TRANSACTIONS, SCRIPTS}
    PROVE  LET f == RaiseValidity(e, v)
           IN  /\ f \in Entry /\ f.failed = e.failed
               /\ f.nTx = e.nTx /\ f.data = e.data /\ f.undo = e.undo
               /\ e.valid = SCRIPTS => f.valid = SCRIPTS
               /\ e.failed = {} /\ v = SCRIPTS => f.valid = SCRIPTS
               /\ e.valid # 0 => f.valid # 0
BY SMTT(30) DEF RaiseValidity, Entry, TREE, TRANSACTIONS, SCRIPTS

LEMMA ReceivedFields ==
    ASSUME NEW e \in Entry
    PROVE  LET f == [e EXCEPT !.nTx = TRUE, !.data = TRUE]
           IN  /\ f \in Entry /\ f.failed = e.failed /\ f.valid = e.valid
               /\ f.nTx /\ f.data /\ f.undo = e.undo
BY DEF Entry

LEMMA UndoFields ==
    ASSUME NEW e \in Entry
    PROVE  LET f == [e EXCEPT !.undo = TRUE]
           IN  /\ f \in Entry /\ f.failed = e.failed /\ f.valid = e.valid
               /\ f.nTx = e.nTx /\ f.data = e.data /\ f.undo
BY DEF Entry

\* A block that is fully checked needs not be raised.
LEMMA CheckedEntry ==
    ASSUME NEW e \in Entry, IsValid(e, SCRIPTS)
    PROVE  e.valid = SCRIPTS
BY SMTT(30) DEF IsValid, Entry, TREE, TRANSACTIONS, SCRIPTS

LEMMA PrunedFields ==
    ASSUME NEW e \in Entry
    PROVE  LET f == [[e EXCEPT !.data = FALSE] EXCEPT !.undo = FALSE]
           IN  /\ f \in Entry /\ f.failed = e.failed /\ f.valid = e.valid
               /\ f.nTx = e.nTx /\ ~ f.data
BY DEF Entry

(***************************************************************************)
(* The inductive invariant.                                                *)
(***************************************************************************)
\* What the proof needs of TypeOK.
Typed ==
    /\ idx \in [Block -> Entry] /\ idxDisk \in [Block -> Entry]
    /\ linked \subseteq Block /\ cands \subseteq Block /\ dirty \subseteq Block
    /\ tip \in Block /\ tipDisk \in Block
    /\ pc \in [Thread -> {"idle", "loop", "step", "invalidate", "reprocess"}]
    /\ mostWork \in [Thread -> Block \cup {NoBlock}]
    /\ up \in BOOLEAN /\ flushing \in BOOLEAN
    /\ scene \in Scenes

\* A thread of ActivateBestChain has settled on a chain.
Working(t) == pc[t] \in {"loop", "step"} /\ mostWork[t] # NoBlock

\* Where a thread is, what it holds and what it works towards.
ThreadInv(t) ==
    /\ pc[t] \in {"step", "invalidate", "reprocess"} => holder = t
    /\ pc[t] \in {"idle", "reprocess"} => mostWork[t] = NoBlock
    /\ pc[t] = "step" => mostWork[t] \in Block
    /\ pc[t] = "invalidate" => /\ mostWork[t] \in Block \ {Genesis}
                               /\ "VALID" \in idx[mostWork[t]].failed
    /\ pc[t] = "reprocess" => "reprocess" \in scene.events
    /\ pc[t] # "idle" => up /\ t \in scene.threads

\* Between a crash and the restart there is only what is on disk.
DownInv ==
    /\ ~ up => tip = tipDisk /\ dirty = {} /\ ~ flushing /\ "crash" \in scene.events
    /\ flushing => dirty = {}

\* The blocks that are invalid whenever they are looked at, and their descendants.
Bad == (scene.badBody \cup scene.badConnect) \ {Genesis}
Tainted(b) == \E a \in Ancestors[b] : a \in Bad

\* Neither the active chain, nor that of the coins on disk, has a bad block, and no
\* thread works towards a block without a body.
ChainInv ==
    /\ \A b \in Ancestors[tip] : b \notin Bad
    /\ \A b \in Ancestors[tipDisk] : b \notin Bad
    /\ \A t \in Thread : Working(t) =>
          \A b \in Ancestors[mostWork[t]] \ {Genesis} : b \notin scene.badBody

\* A block whose body is bad has no data, and a block with data has been received.
DataInv(e) ==
    \A b \in Block : /\ e[b].data => e[b].nTx
                     /\ b \in scene.badBody \ {Genesis} => ~ e[b].data

TaintInv(e) == Settled => \A b \in Block : e[b].failed # {} => Tainted(b)

Caused(e) ==
    \A b \in Block : e[b].failed # {} => \E a \in Ancestors[b] : "VALID" \in e[a].failed

\* An entry the chain may be restarted on.
Ready(e) == e.nTx /\ e.data /\ e.undo /\ (Undisturbed => e.valid = SCRIPTS)

\* What the index in memory and the one on disk say, and that the difference between
\* them is in setDirtyBlockIndex.
IndexInv ==
    /\ DataInv(idx) /\ DataInv(idxDisk) /\ TaintInv(idx) /\ TaintInv(idxDisk)
    /\ Unreconsidered =>
          /\ Caused(idx) /\ Caused(idxDisk)
          /\ up => \A b \in Block :
                /\ "VALID" \in idxDisk[b].failed => "VALID" \in idx[b].failed
                /\ "VALID" \in idx[b].failed => b \in dirty \/ "VALID" \in idxDisk[b].failed
    /\ "prune" \notin scene.events /\ up => \A b \in Block :
          /\ Ready(idxDisk[b]) => Ready(idx[b])
          /\ Ready(idx[b]) => b \in dirty \/ Ready(idxDisk[b])

\* The chains are made of blocks with their data.
ReadyInv ==
    "prune" \notin scene.events =>
        /\ \A b \in Ancestors[tipDisk] \ {Genesis} : Ready(idxDisk[b])
        /\ up => \A b \in Ancestors[tip] \ {Genesis} : Ready(idx[b])
        /\ \A t \in Thread : Working(t) =>
              \A b \in Ancestors[mostWork[t]] \ {Genesis} : idx[b].nTx /\ idx[b].data

\* One thread alone meets no failed block in its chain, and leaves none in the active
\* chain but while it takes that down.
Alone == OneThread /\ "crash" \notin scene.events

AloneInv ==
    Alone => \A t \in scene.threads :
        /\ pc[t] # "invalidate" => \A b \in Active : ~ Failed(b)
        /\ pc[t] = "invalidate" => \A b \in Active : Failed(b) => mostWork[t] \in Ancestors[b]
        /\ Working(t) => \A b \in Ancestors[mostWork[t]] : ~ Failed(b)

Inv ==
    /\ Typed /\ (\A t \in Thread : ThreadInv(t)) /\ DownInv
    /\ ChainInv /\ IndexInv /\ ReadyInv /\ AloneInv

(***************************************************************************)
(* A step on the block index in memory: the entries change, those of D are *)
(* made dirty, and FlushStateToDisk may write what is dirty.               *)
(***************************************************************************)
Flushed(d) ==
    \/ dirty' = d /\ UNCHANGED disk
    \/ \E full \in BOOLEAN : WriteIndex(idx', d, full)

\* What the entries may become.
Changed(D) ==
    /\ idx' \in [Block -> Entry] /\ DataInv(idx') /\ TaintInv(idx')
    /\ Unreconsidered =>
          /\ Caused(idx')
          /\ \A b \in Block : /\ "VALID" \in idx[b].failed => "VALID" \in idx'[b].failed
                              /\ "VALID" \in idx'[b].failed =>
                                    b \in D \/ "VALID" \in idx[b].failed
    /\ "prune" \notin scene.events => \A b \in Block :
          /\ idx[b].nTx /\ idx[b].data => idx'[b].nTx /\ idx'[b].data
          /\ Ready(idx[b]) => Ready(idx'[b])
          /\ Ready(idx'[b]) => b \in D \/ Ready(idx[b])

IndexStep(D) ==
    /\ up /\ up' /\ ~ flushing /\ scene' = scene
    /\ D \subseteq Block /\ Changed(D) /\ Flushed(dirty \cup D)

\* Each entry on disk is the old one, or that of a dirty block, as it is in memory.
LEMMA WrittenEntries ==
    ASSUME Typed, NEW D, D \subseteq Block, idx' \in [Block -> Entry], ~ flushing,
           Flushed(dirty \cup D)
    PROVE  /\ idxDisk' \in [Block -> Entry] /\ dirty' \subseteq Block
           /\ flushing' \in BOOLEAN /\ tipDisk' = tipDisk /\ (flushing' => dirty' = {})
           /\ \/ idxDisk' = idxDisk /\ dirty' = dirty \cup D
              \/ \A b \in Block :
                    idxDisk'[b] = IF b \in dirty \cup D THEN idx'[b] ELSE idxDisk[b]
<1> USE DEF Typed
<1>1. CASE dirty' = dirty \cup D /\ UNCHANGED disk
  BY <1>1 DEF disk
<1>2. ASSUME NEW full \in BOOLEAN, WriteIndex(idx', dirty \cup D, full)
      PROVE  /\ idxDisk' = [b \in Block |-> IF b \in dirty \cup D THEN idx'[b]
                                            ELSE idxDisk[b]]
             /\ dirty' = {} /\ flushing' \in BOOLEAN /\ tipDisk' = tipDisk
  BY <1>2 DEF WriteIndex
<1> QED
  BY <1>1, <1>2 DEF Flushed

LEMMA FlushedEntries ==
    ASSUME Typed, NEW D, IndexStep(D)
    PROVE  /\ idxDisk' \in [Block -> Entry] /\ dirty' \subseteq Block
           /\ flushing' \in BOOLEAN /\ tipDisk' = tipDisk /\ (flushing' => dirty' = {})
           /\ \/ idxDisk' = idxDisk /\ dirty' = dirty \cup D
              \/ \A b \in Block :
                    idxDisk'[b] = IF b \in dirty \cup D THEN idx'[b] ELSE idxDisk[b]
BY WrittenEntries DEF IndexStep, Changed

\* What the two indexes say of each other survives every such step.
LEMMA IndexStepKeeps ==
    ASSUME Typed, IndexInv, NEW D, IndexStep(D)
    PROVE  IndexInv'
<1> USE DEF Typed
<1>0. /\ idx' \in [Block -> Entry] /\ scene' = scene /\ up /\ up'
      /\ DataInv(idx') /\ TaintInv(idx')
  BY DEF IndexStep, Changed
<1>1. /\ DataInv(idx)' /\ TaintInv(idx)'
  BY <1>0 DEF DataInv, TaintInv, Settled, Decided, Tainted, Bad
<1>2. DataInv(idxDisk)'
  BY <1>0, FlushedEntries DEF DataInv, IndexInv
<1>3. TaintInv(idxDisk)'
  <2>1. ASSUME Settled, NEW b \in Block, idxDisk'[b].failed # {} PROVE Tainted(b)
    BY <1>0, <2>1, FlushedEntries DEF TaintInv, IndexInv
  <2> QED
    BY <2>1, <1>0 DEF TaintInv, Settled, Decided, Tainted, Bad
<1>4. ASSUME Unreconsidered
      PROVE  /\ Caused(idx') /\ Caused(idxDisk')
             /\ \A b \in Block :
                  /\ "VALID" \in idxDisk'[b].failed => "VALID" \in idx'[b].failed
                  /\ "VALID" \in idx'[b].failed =>
                        b \in dirty' \/ "VALID" \in idxDisk'[b].failed
  <2>1. /\ Caused(idx') /\ Caused(idxDisk)
        /\ \A b \in Block : /\ "VALID" \in idx[b].failed => "VALID" \in idx'[b].failed
                            /\ "VALID" \in idx'[b].failed =>
                                  b \in D \/ "VALID" \in idx[b].failed
                            /\ "VALID" \in idxDisk[b].failed => "VALID" \in idx[b].failed
                            /\ "VALID" \in idx[b].failed =>
                                  b \in dirty \/ "VALID" \in idxDisk[b].failed
    BY <1>4, <1>0 DEF IndexStep, Changed, IndexInv
  <2>2. CASE idxDisk' = idxDisk /\ dirty' = dirty \cup D
    BY <2>1, <2>2
  <2>3. CASE \A b \in Block :
                 idxDisk'[b] = IF b \in dirty \cup D THEN idx'[b] ELSE idxDisk[b]
    <3>1. \A b \in Block : /\ "VALID" \in idxDisk'[b].failed => "VALID" \in idx'[b].failed
                           /\ "VALID" \in idx'[b].failed => "VALID" \in idxDisk'[b].failed
      BY <2>1, <2>3
    <3>2. ASSUME NEW b \in Block, idxDisk'[b].failed # {}
          PROVE  \E a \in Ancestors[b] : "VALID" \in idxDisk'[a].failed
      <4>1. CASE b \in dirty \cup D
        BY <4>1, <3>1, <3>2, <2>1, <2>3, AncestorsClosed DEF Caused
      <4>2. CASE b \notin dirty \cup D
        <5>1. PICK a \in Ancestors[b] : "VALID" \in idxDisk[a].failed
          BY <4>2, <3>2, <2>1, <2>3 DEF Caused
        <5>2. a \in Block
          BY AncestorsClosed
        <5> QED
          BY <5>1, <5>2, <2>1, <3>1
      <4> QED
        BY <4>1, <4>2
    <3> QED
      BY <2>1, <3>1, <3>2 DEF Caused
  <2> QED
    BY <2>2, <2>3, FlushedEntries
<1>5. ASSUME "prune" \notin scene.events
      PROVE  \A b \in Block : /\ Ready(idxDisk'[b]) => Ready(idx'[b])
                              /\ Ready(idx'[b]) => b \in dirty' \/ Ready(idxDisk'[b])
  <2>1. \A b \in Block : /\ Ready(idxDisk[b]) => Ready(idx'[b])
                         /\ Ready(idx'[b]) => b \in dirty \cup D \/ Ready(idxDisk[b])
    BY <1>5, <1>0 DEF IndexStep, Changed, IndexInv
  <2> HIDE DEF Typed
  <2> QED
    BY <2>1, FlushedEntries, ZenonT(60)
<1> QED
  BY <1>0, <1>1, <1>2, <1>3, <1>4, <1>5, ZenonT(60)
     DEF IndexInv, Unreconsidered, Caused, Ready, Undisturbed, Settled, Decided, OneThread

(***************************************************************************)
(* Each operation changes the index in that way.                           *)
(***************************************************************************)
LEMMA NothingChanges ==
    ASSUME Typed, IndexInv, idx' = idx
    PROVE  Changed({})
BY DEF Typed, IndexInv, Changed

\* The index with the header of b.
LEMMA HeaderAdded ==
    ASSUME Typed, NEW b \in Block, HeaderOK(b)
    PROVE  /\ WithHeader(b) \in [Block -> Entry]
           /\ \A c \in Block \ {b} : WithHeader(b)[c] = idx[c]
           /\ idx[b].failed = {} /\ WithHeader(b)[b].failed = {}
           /\ WithHeader(b)[b].nTx = idx[b].nTx /\ WithHeader(b)[b].data = idx[b].data
           /\ Ready(WithHeader(b)[b]) <=> Ready(idx[b])
<1> USE DEF Typed
<1>1. CASE b \in Known
  BY <1>1 DEF WithHeader, HeaderOK, Failed
<1>2. CASE b \notin Known
  <2>1. idx[b] = NoEntry
    BY <1>2 DEF Known
  <2>2. /\ NoEntry.failed = {} /\ HeaderEntry.failed = {} /\ HeaderEntry \in Entry
        /\ ~ NoEntry.nTx /\ ~ HeaderEntry.nTx /\ ~ NoEntry.data /\ ~ HeaderEntry.data
    BY FixedEntries
  <2>3. NoEntry.nTx = HeaderEntry.nTx /\ NoEntry.data = HeaderEntry.data
    BY DEF NoEntry, HeaderEntry
  <2> QED
    BY <1>2, <2>1, <2>2, <2>3 DEF WithHeader, Ready
<1> QED
  BY <1>1, <1>2

\* A block without a mark changes: no other entry does.
LEMMA OneEntryChanges ==
    ASSUME Typed, IndexInv, NEW b \in Block, NEW D, idx' \in [Block -> Entry],
           \A c \in Block \ {b} : idx'[c] = idx[c],
           idx'[b].failed = idx[b].failed,
           idx'[b].data => idx'[b].nTx /\ (idx[b].data \/ b \notin scene.badBody),
           "prune" \notin scene.events =>
              /\ idx[b].nTx /\ idx[b].data => idx'[b].nTx /\ idx'[b].data
              /\ Ready(idx[b]) => Ready(idx'[b])
              /\ Ready(idx'[b]) => b \in D \/ Ready(idx[b])
    PROVE  Changed(D)
<1>1. DataInv(idx') /\ \A c \in Block : idx'[c].failed = idx[c].failed
  BY DEF DataInv, IndexInv
<1>2. TaintInv(idx')
  BY <1>1 DEF TaintInv, IndexInv
<1>3. ASSUME Unreconsidered PROVE Caused(idx')
  BY <1>1, <1>3, AncestorsClosed DEF Caused, IndexInv
<1> QED
  BY <1>1, <1>2, <1>3 DEF Changed

\* Blocks are marked as the descendants of a failed one, or for their own fault.
LEMMA MarksAdded ==
    ASSUME Typed, IndexInv, NEW D, idx' \in [Block -> Entry],
           \A b \in Block :
              \/ idx'[b] = idx[b]
              \/ /\ idx'[b] = Mark(idx[b], "CHILD")
                 /\ \E a \in Ancestors[b] : idx[a].failed # {}
              \/ /\ "VALID" \in idx'[b].failed /\ b \in D /\ (Settled => b \in Bad)
                 /\ idx'[b].nTx = idx[b].nTx /\ idx'[b].data = idx[b].data
                 /\ Ready(idx'[b]) <=> Ready(idx[b])
    PROVE  Changed(D)
<1> USE DEF Typed
<1>1. ASSUME NEW b \in Block
      PROVE  /\ idx'[b].nTx = idx[b].nTx /\ idx'[b].data = idx[b].data
             /\ Ready(idx'[b]) <=> Ready(idx[b])
             /\ "VALID" \in idx[b].failed => "VALID" \in idx'[b].failed
             /\ "VALID" \in idx'[b].failed => b \in D \/ "VALID" \in idx[b].failed
  <2>1. idx[b] \in Entry
    OBVIOUS
  <2> QED
    BY <2>1, MarkFields, SMTT(30) DEF Ready
<1>2. ASSUME NEW b \in Block, idx'[b].failed # {}
      PROVE  \/ \E a \in Ancestors[b] : idx[a].failed # {}
             \/ "VALID" \in idx'[b].failed /\ (Settled => b \in Bad)
  BY <1>2, MarkFields, AncestorsClosed
<1>3. DataInv(idx')
  BY <1>1 DEF DataInv, IndexInv
<1>4. ASSUME Settled, NEW b \in Block, idx'[b].failed # {} PROVE Tainted(b)
  <2>1. CASE b \in Bad
    BY <2>1, AncestorsClosed DEF Tainted
  <2>2. ASSUME NEW a \in Ancestors[b], idx[a].failed # {} PROVE Tainted(b)
    BY <1>4, <2>2, AncestorsTransitive DEF Tainted, TaintInv, IndexInv
  <2> QED
    BY <1>2, <1>4, <2>1, <2>2
<1>5. ASSUME Unreconsidered, NEW b \in Block, idx'[b].failed # {}
      PROVE  \E a \in Ancestors[b] : "VALID" \in idx'[a].failed
  <2>1. ASSUME NEW c \in Ancestors[b], idx[c].failed # {}
        PROVE  \E a \in Ancestors[b] : "VALID" \in idx'[a].failed
    <3>1. PICK a \in Ancestors[c] : "VALID" \in idx[a].failed
      BY <1>5, <2>1, AncestorsTransitive DEF Caused, IndexInv
    <3>2. a \in Ancestors[b] /\ a \in Block
      BY AncestorsTransitive
    <3> QED
      BY <3>1, <3>2, <1>1
  <2> QED
    BY <1>2, <1>5, <2>1, AncestorsClosed
<1> QED
  BY <1>1, <1>3, <1>4, <1>5 DEF Changed, TaintInv, Caused

\* ReconsiderBlock clears marks.
LEMMA MarksCleared ==
    ASSUME Typed, IndexInv, NEW D, ~ Unreconsidered, idx' \in [Block -> Entry],
           \A b \in Block : idx'[b] = idx[b] \/ idx'[b] = [idx[b] EXCEPT !.failed = {}]
    PROVE  Changed(D)
<1> USE DEF Typed
<1>1. ASSUME NEW b \in Block
      PROVE  /\ idx'[b].nTx = idx[b].nTx /\ idx'[b].data = idx[b].data
             /\ Ready(idx'[b]) <=> Ready(idx[b])
             /\ idx'[b].failed \subseteq idx[b].failed
  <2>1. idx[b] \in Entry
    OBVIOUS
  <2> QED
    BY <2>1, ClearFields DEF Ready
<1>2. DataInv(idx') /\ TaintInv(idx')
  BY <1>1 DEF DataInv, TaintInv, IndexInv
<1> QED
  BY <1>1, <1>2 DEF Changed

(***************************************************************************)
(* What the steps have in common.                                          *)
(***************************************************************************)
\* The variables of the chain and of the threads keep their types.
TypedStep ==
    /\ linked' \subseteq Block /\ cands' \subseteq Block /\ tip' \in Block
    /\ pc' \in [Thread -> {"idle", "loop", "step", "invalidate", "reprocess"}]
    /\ mostWork' \in [Thread -> Block \cup {NoBlock}]

\* The active chain gets no new block, and no thread a new one to work towards.
Narrower ==
    /\ Ancestors[tip'] \subseteq Ancestors[tip]
    /\ \A t \in Thread : Working(t)' => Working(t) /\ mostWork'[t] = mostWork[t]

LEMMA StepKeeps ==
    ASSUME Inv, NEW D, IndexStep(D), TypedStep, \A t \in Thread : ThreadInv(t)',
           ChainInv', ReadyInv', AloneInv'
    PROVE  Inv'
<1>1. Typed /\ IndexInv
  BY DEF Inv
<1>2. /\ idx' \in [Block -> Entry] /\ up' = TRUE /\ scene' \in Scenes
  BY <1>1 DEF IndexStep, Changed, Typed
<1>3. Typed'
  BY <1>1, <1>2, FlushedEntries DEF Typed, TypedStep
<1>4. IndexInv'
  BY <1>1, IndexStepKeeps
<1>5. DownInv'
  BY <1>1, <1>2, FlushedEntries DEF DownInv
<1> QED
  BY <1>3, <1>4, <1>5 DEF Inv

\* The chain on disk stays usable.
LEMMA DiskStaysReady ==
    ASSUME Inv, NEW D, IndexStep(D), "prune" \notin scene.events
    PROVE  \A b \in Ancestors[tipDisk'] \ {Genesis} : Ready(idxDisk'[b])
<1>1. Typed /\ IndexInv /\ ReadyInv /\ up
  BY DEF Inv, IndexStep
<1> SUFFICES ASSUME NEW b \in Ancestors[tipDisk] \ {Genesis} PROVE Ready(idxDisk'[b])
  BY <1>1, FlushedEntries
<1>2. b \in Block
  BY <1>1, AncestorsClosed DEF Typed
<1>3. Ready(idxDisk[b]) /\ Ready(idx[b])
  BY <1>1, <1>2 DEF ReadyInv, IndexInv
<1>4. Ready(idx'[b])
  BY <1>2, <1>3 DEF IndexStep, Changed
<1> QED
  BY <1>1, <1>2, <1>3, <1>4, FlushedEntries

\* A block that may join the active chain, and a chain a thread may work towards.
Joins(b) ==
    b \notin Bad /\ ("prune" \notin scene.events /\ b # Genesis => Ready(idx'[b]))

Promises(c) ==
    \A b \in Ancestors[c] \ {Genesis} :
        b \notin scene.badBody /\ ("prune" \notin scene.events => idx[b].nTx /\ idx[b].data)

LEMMA ChainsKept ==
    ASSUME Inv, NEW D, IndexStep(D), TypedStep,
           \A b \in Ancestors[tip'] : b \in Ancestors[tip] \/ Joins(b),
           \A t \in Thread : Working(t)' => \/ Working(t) /\ mostWork'[t] = mostWork[t]
                                            \/ Promises(mostWork'[t])
    PROVE  ChainInv' /\ ReadyInv'
<1>1. Typed /\ IndexInv /\ ReadyInv /\ ChainInv
  BY DEF Inv
<1>2. scene' = scene /\ tipDisk' = tipDisk /\ up /\ up'
  BY <1>1, FlushedEntries DEF IndexStep
<1>3. \A b \in Ancestors[tip'] : b \notin Bad
  BY <1>1 DEF ChainInv, Joins
<1>4. ASSUME NEW t \in Thread, Working(t)'
      PROVE  mostWork'[t] \in Block /\ Promises(mostWork'[t])
  <2>1. mostWork'[t] \in Block
    BY <1>4 DEF Working, TypedStep
  <2> QED
    BY <1>1, <1>4, <2>1 DEF ChainInv, ReadyInv, Promises
<1>5. ChainInv'
  BY <1>1, <1>2, <1>3, <1>4 DEF ChainInv, Bad, Promises
<1>6. ASSUME "prune" \notin scene.events, NEW b \in Ancestors[tip'] \ {Genesis}
      PROVE  Ready(idx'[b])
  BY <1>1, <1>2, <1>6, AncestorsClosed
     DEF ReadyInv, Joins, IndexStep, Changed, Typed
<1>7. ASSUME "prune" \notin scene.events, NEW t \in Thread, Working(t)',
             NEW b \in Ancestors[mostWork'[t]] \ {Genesis}
      PROVE  idx'[b].nTx /\ idx'[b].data
  <2>1. b \in Block /\ idx[b].nTx /\ idx[b].data
    BY <1>4, <1>7, AncestorsClosed DEF Promises
  <2> QED
    BY <1>7, <2>1 DEF IndexStep, Changed
<1>8. ReadyInv'
  BY <1>2, <1>6, <1>7, DiskStaysReady
     DEF ReadyInv, Ready, Undisturbed, Settled, Decided, OneThread
<1> QED
  BY <1>5, <1>8

LEMMA NarrowerKeeps ==
    ASSUME Inv, NEW D, IndexStep(D), TypedStep, Narrower
    PROVE  ChainInv' /\ ReadyInv'
BY ChainsKept DEF Narrower

\* A step that marks the blocks M at most, none of them in a chain that matters, and
\* neither begins nor ends an invalidation.
LEMMA MarkingStep ==
    ASSUME Inv, NEW D, IndexStep(D), TypedStep, Narrower, NEW M,
           \A b \in Block : idx'[b].failed # {} => idx[b].failed # {} \/ b \in M,
           \A b \in Ancestors[tip] : b \notin M,
           Alone => \A t \in scene.threads :
                       Working(t)' => \A b \in Ancestors[mostWork'[t]] : b \notin M,
           \A t \in Thread :
              /\ ThreadInv(t)'
              /\ pc'[t] = "invalidate" <=> pc[t] = "invalidate"
              /\ pc[t] = "invalidate" => mostWork'[t] = mostWork[t]
    PROVE  Inv'
<1>1. Typed /\ AloneInv /\ scene' = scene
  BY DEF Inv, IndexStep
<1>2. scene.threads \subseteq Thread
  BY <1>1, TreeAssumption DEF Typed
<1>3. tip \in Block /\ tip' \in Block /\ mostWork \in [Thread -> Block \cup {NoBlock}]
  BY <1>1 DEF Typed, TypedStep
<1>4. Active' \subseteq Active /\ Active \subseteq Block
  BY <1>3, AncestorsClosed DEF Active, Narrower
<1>5. ASSUME NEW t \in Thread, Working(t)'
      PROVE  /\ Working(t) /\ mostWork'[t] = mostWork[t]
             /\ Ancestors[mostWork[t]] \subseteq Block
  BY <1>3, <1>5, AncestorsClosed, SMTT(30) DEF Narrower, Working
<1>6. AloneInv'
  BY <1>1, <1>2, <1>4, <1>5, SMTT(30) DEF AloneInv, Alone, OneThread, Failed, Active
<1> QED
  BY <1>6, NarrowerKeeps, StepKeeps

LEMMA CalmStep ==
    ASSUME Inv, NEW D, IndexStep(D), TypedStep, Narrower,
           \A b \in Block : idx'[b].failed # {} => idx[b].failed # {},
           \A t \in Thread :
              /\ ThreadInv(t)'
              /\ pc'[t] = "invalidate" <=> pc[t] = "invalidate"
              /\ pc[t] = "invalidate" => mostWork'[t] = mostWork[t]
    PROVE  Inv'
<1> DEFINE M == {}
<1>1. /\ \A b \in Block : idx'[b].failed # {} => idx[b].failed # {} \/ b \in M
      /\ \A b \in Ancestors[tip] : b \notin M
      /\ Alone => \A t \in scene.threads :
                    Working(t)' => \A b \in Ancestors[mostWork'[t]] : b \notin M
  OBVIOUS
<1> HIDE DEF M
<1> QED
  BY <1>1, MarkingStep

\* A thread that acts under cs_main leaves the others where they are: idle, or
\* between two rounds of the loop.
LEMMA OthersStay ==
    ASSUME Typed, \A u \in Thread : ThreadInv(u), NEW t, holder \in {NoThread, t},
           up', scene' = scene,
           \A u \in Thread \ {t} : pc'[u] = pc[u] /\ mostWork'[u] = mostWork[u]
    PROVE  \A u \in Thread \ {t} : /\ ThreadInv(u)' /\ pc[u] \in {"idle", "loop"}
                                   /\ Working(u)' <=> Working(u)
<1> TAKE u \in Thread \ {t}
<1>1. holder # u /\ u \in Thread
  BY TreeAssumption
<1>2. pc[u] \in {"idle", "loop"} /\ ThreadInv(u)
  BY <1>1 DEF ThreadInv, Typed
<1> QED
  BY <1>2 DEF ThreadInv, Working

(***************************************************************************)
(* The steps, one by one.                                                  *)
(***************************************************************************)
LEMMA AcceptBlockHeaderKeeps ==
    ASSUME Inv, scene' = scene, NEW t \in scene.threads, NEW b \in Block,
           AcceptBlockHeader(t, b)
    PROVE  Inv'
<1>1. Typed /\ IndexInv /\ \A u \in Thread : ThreadInv(u)
  BY DEF Inv
<1>2. /\ up /\ up' = up /\ ~ flushing /\ HeaderOK(b) /\ holder = NoThread
      /\ idx' = WithHeader(b) /\ dirty' = dirty \cup {b} /\ UNCHANGED disk
  BY DEF AcceptBlockHeader, Idle, Running
<1>3. UNCHANGED <<linked, cands, tip, pc, mostWork>>
  BY DEF AcceptBlockHeader, control
<1>4. /\ idx' \in [Block -> Entry] /\ \A c \in Block \ {b} : idx'[c] = idx[c]
      /\ idx'[b].failed = idx[b].failed
      /\ idx'[b].nTx = idx[b].nTx /\ idx'[b].data = idx[b].data
      /\ Ready(idx'[b]) <=> Ready(idx[b])
  BY <1>1, <1>2, HeaderAdded
<1>5. IndexStep({b})
  <2>1. idx[b].data => idx[b].nTx
    BY <1>1 DEF IndexInv, DataInv
  <2> QED
    BY <1>1, <1>2, <1>4, <2>1, OneEntryChanges DEF IndexStep, Flushed
<1>6. TypedStep /\ Narrower
  BY <1>1, <1>3 DEF TypedStep, Typed, Narrower, Working
<1>7. \A u \in Thread : ThreadInv(u)'
  BY <1>1, <1>2, <1>3, TreeAssumption DEF ThreadInv
<1> QED
  BY <1>3, <1>4, <1>5, <1>6, <1>7, CalmStep

LEMMA ProcessNewBlockKeeps ==
    ASSUME Inv, scene' = scene, NEW t \in scene.threads,
           NEW b \in Block \ {Genesis}, NEW r, ProcessNewBlock(t, b, r)
    PROVE  Inv'
<1> DEFINE h == WithHeader(b)
<1>1. Typed /\ IndexInv /\ \A u \in Thread : ThreadInv(u)
  BY DEF Inv
<1>2. /\ up /\ up' = up /\ ~ flushing /\ HeaderOK(b) /\ holder = NoThread
      /\ UNCHANGED disk /\ tip' = tip /\ mostWork' = mostWork /\ t \in Thread
      /\ pc[t] = "idle" /\ mostWork[t] = NoBlock
  BY <1>1, TreeAssumption DEF ProcessNewBlock, Idle, Running, Typed, ThreadInv
<1>3. /\ h \in [Block -> Entry] /\ \A c \in Block \ {b} : h[c] = idx[c]
      /\ h[b].failed = {} /\ idx[b].failed = {}
      /\ h[b].nTx = idx[b].nTx /\ h[b].data = idx[b].data
      /\ Ready(h[b]) <=> Ready(idx[b])
  BY <1>1, <1>2, HeaderAdded
<1>4. idx[b].data => idx[b].nTx
  BY <1>1 DEF IndexInv, DataInv
<1> HIDE DEF h
<1>5. ASSUME pc' = pc \/ pc' = [pc EXCEPT ![t] = "loop"]
      PROVE  /\ \A u \in Thread : ThreadInv(u)'
             /\ pc' \in [Thread -> {"idle", "loop", "step", "invalidate", "reprocess"}]
             /\ Narrower
             /\ \A u \in Thread : pc'[u] = "invalidate" <=> pc[u] = "invalidate"
  <2>1. pc \in [Thread -> {"idle", "loop", "step", "invalidate", "reprocess"}]
    BY <1>1 DEF Typed
  <2>2. \A u \in Thread \ {t} : ThreadInv(u)' /\ (Working(u)' <=> Working(u))
    <3>1. \A u \in Thread \ {t} : pc'[u] = pc[u] /\ mostWork'[u] = mostWork[u]
      BY <1>2, <1>5, <2>1
    <3> QED
      BY <1>1, <1>2, <3>1, OthersStay, SMTT(30)
  <2>3. pc'[t] \in {"idle", "loop"} /\ mostWork'[t] = NoBlock
    BY <1>2, <1>5, <2>1
  <2>4. ThreadInv(t)' /\ ~ Working(t)'
    BY <1>2, <2>3 DEF ThreadInv, Working
  <2> QED
    BY <1>2, <1>5, <2>1, <2>2, <2>4 DEF Narrower
<1>6. CASE /\ idx' = h /\ dirty' = dirty \cup ({b} \ Known)
           /\ pc' = [pc EXCEPT ![t] = "loop"] /\ UNCHANGED <<linked, cands>>
  <2>1. Changed({b} \ Known)
    BY <1>1, <1>3, <1>4, <1>6, OneEntryChanges
  <2>2. IndexStep({b} \ Known)
    BY <1>2, <1>6, <2>1 DEF IndexStep, Flushed
  <2>3. TypedStep
    BY <1>1, <1>2, <1>5, <1>6 DEF TypedStep, Typed
  <2> QED
    BY <1>2, <1>3, <1>5, <1>6, <2>2, <2>3, CalmStep, SMTT(30)
<1>7. CASE /\ b \in scene.badBody /\ idx' = [h EXCEPT ![b] = Mark(@, "VALID")]
           /\ ~ Ignored(b, r)
           /\ dirty' = dirty \cup {b} /\ UNCHANGED <<linked, cands, pc>>
  <2>1. h[b] \in Entry
    BY <1>3
  <2>2. idx' = [h EXCEPT ![b] = Mark(h[b], "VALID")] /\ Mark(h[b], "VALID") \in Entry
    BY <1>3, <1>7, <2>1, MarkFields
  <2>3. b \in Bad
    BY <1>7 DEF Bad
  <2>4. IndexStep({b})
    <3>1. /\ Mark(h[b], "VALID").nTx = h[b].nTx /\ Mark(h[b], "VALID").data = h[b].data
          /\ "VALID" \in Mark(h[b], "VALID").failed
          /\ Ready(Mark(h[b], "VALID")) <=> Ready(h[b])
      BY <2>1, MarkFields DEF Ready
    <3>2. Changed({b})
      BY <1>1, <1>3, <2>2, <2>3, <3>1, MarksAdded
    <3> QED
      BY <1>2, <1>7, <3>2 DEF IndexStep, Flushed
  <2>5. TypedStep
    BY <1>1, <1>2, <1>5, <1>7 DEF TypedStep, Typed
  <2>6. \A c \in Block : idx'[c].failed # {} => idx[c].failed # {} \/ c \in {b}
    BY <1>3, <2>2
  <2>7. \A c \in Ancestors[tip] : c \notin {b}
    BY <2>3 DEF Inv, ChainInv
  <2>8. Alone => \A u \in scene.threads : ~ Working(u)'
    BY <1>2, <1>7 DEF Alone, OneThread, Working
  <2> QED
    BY <1>2, <1>5, <1>7, <2>4, <2>5, <2>6, <2>7, <2>8, MarkingStep
<1>8. CASE b \notin scene.badBody /\ ReceivedBlockTransactions(b)
           /\ pc' = [pc EXCEPT ![t] = "loop"]
  <2>1. /\ idx' = [h EXCEPT ![b] = RaiseValidity([@ EXCEPT !.nTx = TRUE, !.data = TRUE],
                                                 TRANSACTIONS)]
        /\ dirty' = dirty \cup {b}
    BY <1>8 DEF ReceivedBlockTransactions, h
  <2>2. linked' \subseteq Block /\ cands' \subseteq Block
    <3>1. NowLinked(b) \subseteq Block
      BY DEF NowLinked
    <3> QED
      BY <1>1, <1>8, <3>1 DEF ReceivedBlockTransactions, Typed
  <2>3. /\ idx' \in [Block -> Entry] /\ \A c \in Block \ {b} : idx'[c] = idx[c]
        /\ idx'[b].failed = {} /\ idx'[b].nTx /\ idx'[b].data
        /\ Ready(h[b]) => Ready(idx'[b])
    <3>1. h[b] \in Entry
      BY <1>3
    <3> DEFINE f == [h[b] EXCEPT !.nTx = TRUE, !.data = TRUE]
    <3>2. /\ f \in Entry /\ f.failed = {} /\ f.nTx /\ f.data /\ f.undo = h[b].undo
          /\ f.valid = h[b].valid
      BY <3>1, <1>3, ReceivedFields
    <3>3. idx' = [h EXCEPT ![b] = RaiseValidity(f, TRANSACTIONS)]
      BY <2>1, <1>3
    <3> HIDE DEF f
    <3>4. /\ RaiseValidity(f, TRANSACTIONS) \in Entry
          /\ RaiseValidity(f, TRANSACTIONS).failed = {}
          /\ RaiseValidity(f, TRANSACTIONS).nTx /\ RaiseValidity(f, TRANSACTIONS).data
          /\ RaiseValidity(f, TRANSACTIONS).undo = f.undo
          /\ f.valid = SCRIPTS => RaiseValidity(f, TRANSACTIONS).valid = SCRIPTS
      BY <3>2, RaiseFields
    <3>5. idx'[b] = RaiseValidity(f, TRANSACTIONS)
      BY <3>3, <1>3
    <3> QED
      BY <1>3, <3>2, <3>3, <3>4, <3>5 DEF Ready
  <2>4. Changed({b})
    BY <1>1, <1>3, <1>4, <1>8, <2>3, OneEntryChanges, ZenonT(60)
  <2>5. IndexStep({b})
    BY <1>2, <2>1, <2>4 DEF IndexStep, Flushed
  <2>6. TypedStep
    BY <1>1, <1>2, <1>5, <1>8, <2>2 DEF TypedStep, Typed
  <2> QED
    BY <1>2, <1>3, <1>5, <1>8, <2>3, <2>5, <2>6, CalmStep, SMTT(30)
<1> QED
  BY <1>6, <1>7, <1>8 DEF ProcessNewBlock, h

\* What FindMostWorkChain marks is above a failed block outside the active chain.
LEMMA MarkedAbove ==
    ASSUME Typed, NEW m, FindMostWorkChain(m)
    PROVE  /\ idx' \in [Block -> Entry] /\ cands' \subseteq Block
           /\ \A b \in Block :
                 \/ idx'[b] = idx[b]
                 \/ /\ idx'[b] = Mark(idx[b], "CHILD")
                    /\ \E a \in Ancestors[b] \ Active : idx[a].failed # {}
<1> DEFINE usable == UsableCandidates
           tried == {c \in cands \ usable : usable # {} => Worse(m, c)}
           onFailed == {c \in tried : Failed(Stop(c))}
           marked == UNION {Above(c) : c \in onFailed}
<1>1. /\ idx' = [b \in Block |-> IF b \in marked THEN Mark(idx[b], "CHILD") ELSE idx[b]]
      /\ cands' \subseteq cands
  BY DEF FindMostWorkChain
<1>2. ASSUME NEW b \in marked
      PROVE  \E a \in Ancestors[b] \ Active : idx[a].failed # {}
  <2>1. PICK c \in cands : ~ Usable(c) /\ Failed(Stop(c)) /\ b \in Above(c)
    BY <1>2 DEF UsableCandidates
  <2>2. c \in Block /\ Stop(c) \in Ancestors[c] \ Active
    BY <2>1, StopFound DEF Typed, Path
  <2>3. b \in Ancestors[c] /\ b \notin Ancestors[Stop(c)]
    BY <2>1 DEF Above
  <2>4. Stop(c) \in Ancestors[b]
    BY <2>2, <2>3, AncestorsLinear
  <2> QED
    BY <2>1, <2>2, <2>4 DEF Failed
<1> HIDE DEF marked
<1>3. \A b \in Block : idx[b] \in Entry /\ Mark(idx[b], "CHILD") \in Entry
  BY MarkFields DEF Typed
<1> QED
  BY <1>1, <1>2, <1>3 DEF Typed

\* The chain a round of the loop settles on promises to be connectable, and if the
\* thread is alone no block of it is, or becomes, marked.
LEMMA LoopSettles ==
    ASSUME Inv, NEW t \in scene.threads, t \in Thread, pc[t] = "loop", NEW m \in Block,
           \/ mostWork[t] = m /\ idx' = idx
           \/ m \in MostWork /\ FindMostWorkChain(m)
    PROVE  /\ Promises(m)
           /\ Alone => \A b \in Ancestors[m] : idx'[b].failed = {}
<1>1. Typed /\ IndexInv /\ ChainInv /\ ReadyInv /\ AloneInv /\ (up = TRUE)
  BY DEF Inv, ThreadInv, Typed
<1>2. Ancestors[m] \subseteq Block
  BY AncestorsClosed
<1>3. CASE mostWork[t] = m /\ idx' = idx
  <2>1. Working(t)
    BY <1>3, TreeAssumption DEF Working
  <2> QED
    BY <1>1, <1>3, <2>1 DEF ChainInv, ReadyInv, AloneInv, Promises, Failed
<1>4. CASE m \in MostWork /\ FindMostWorkChain(m)
  <2>1. m \in cands /\ \A b \in Ancestors[m] \ Active : idx[b].failed = {} /\ idx[b].data
    BY <1>4, TreeAssumption
       DEF MostWork, Best, UsableCandidates, Usable, Path, Unusable, Failed
  <2>2. Promises(m)
    <3> SUFFICES ASSUME NEW b \in Ancestors[m] \ {Genesis}
                 PROVE  /\ b \notin scene.badBody
                        /\ "prune" \notin scene.events => idx[b].nTx /\ idx[b].data
      BY DEF Promises
    <3>1. CASE b \in Active
      BY <1>1, <3>1 DEF ChainInv, ReadyInv, Active, Bad, Ready
    <3>2. CASE b \notin Active
      BY <1>1, <1>2, <2>1, <3>2 DEF IndexInv, DataInv
    <3> QED
      BY <3>1, <3>2
  <2>3. ASSUME Alone, NEW b \in Ancestors[m] PROVE idx'[b].failed = {}
    <3>1. idx[b].failed = {}
      BY <1>1, <2>1, <2>3 DEF AloneInv, Failed
    <3>2. idx'[b] = idx[b]
      <4> SUFFICES ASSUME NEW a \in Ancestors[b] \ Active, idx[a].failed # {} PROVE FALSE
        BY <1>1, <1>2, <1>4, MarkedAbove
      <4> QED
        BY <2>1, AncestorsTransitive
    <3> QED
      BY <3>1, <3>2
  <2> QED
    BY <2>2, <2>3
<1> QED
  BY <1>3, <1>4

LEMMA LoopKeeps ==
    ASSUME Inv, scene' = scene, NEW t \in scene.threads, Loop(t)
    PROVE  Inv'
<1>1. Typed /\ IndexInv /\ AloneInv /\ \A u \in Thread : ThreadInv(u)
  BY DEF Inv
<1>2. /\ up /\ up' = up /\ ~ flushing /\ pc[t] = "loop" /\ holder \in {NoThread, t}
      /\ tip' = tip /\ linked' = linked /\ dirty' = dirty /\ UNCHANGED disk
  BY DEF Loop, Running
<1>3. t \in Thread /\ scene.threads \subseteq Thread
  BY <1>1, TreeAssumption DEF Typed
<1>4. PICK m \in IF mostWork[t] = NoBlock THEN MostWork ELSE {mostWork[t]} :
         /\ IF mostWork[t] = NoBlock THEN FindMostWorkChain(m)
            ELSE UNCHANGED <<cands, idx, unlinked>>
         /\ \/ /\ holder' = NoThread /\ pc' = [pc EXCEPT ![t] = "idle"]
               /\ mostWork' = [mostWork EXCEPT ![t] = NoBlock]
            \/ /\ m # NoBlock
               /\ holder' = t /\ pc' = [pc EXCEPT ![t] = "step"]
               /\ mostWork' = [mostWork EXCEPT ![t] = m]
  BY DEF Loop, Leave, Release
<1>5. m \in Block \cup {NoBlock}
  BY <1>1, <1>3, <1>4 DEF MostWork, Best, UsableCandidates, Typed
<1>6. /\ idx' \in [Block -> Entry] /\ cands' \subseteq Block
      /\ \A b \in Block :
            \/ idx'[b] = idx[b]
            \/ /\ idx'[b] = Mark(idx[b], "CHILD")
               /\ \E a \in Ancestors[b] \ Active : idx[a].failed # {}
  <2>1. CASE mostWork[t] = NoBlock
    BY <1>1, <1>4, <2>1, MarkedAbove
  <2>2. CASE mostWork[t] # NoBlock
    BY <1>1, <1>4, <2>2 DEF Typed
  <2> QED
    BY <2>1, <2>2
<1>7. IndexStep({})
  <2>1. Changed({})
    BY <1>1, <1>6, MarksAdded
  <2> QED
    BY <1>2, <2>1 DEF IndexStep, Flushed
<1>8. TypedStep
  BY <1>1, <1>2, <1>3, <1>4, <1>5, <1>6, ZenonT(60) DEF TypedStep, Typed
<1>9. \A u \in Thread \ {t} : /\ ThreadInv(u)' /\ (Working(u)' <=> Working(u))
                              /\ pc'[u] = pc[u] /\ mostWork'[u] = mostWork[u]
  <2>1. \A u \in Thread \ {t} : pc'[u] = pc[u] /\ mostWork'[u] = mostWork[u]
    BY <1>1, <1>3, <1>4 DEF Typed
  <2> QED
    BY <1>1, <1>2, <2>1, OthersStay, SMTT(30)
<1>10. /\ pc'[t] \in {"idle", "step"}
       /\ pc'[t] = "idle" => mostWork'[t] = NoBlock
       /\ pc'[t] = "step" => holder' = t /\ mostWork'[t] = m /\ m \in Block
  BY <1>1, <1>3, <1>4, <1>5 DEF Typed
<1>11. \A u \in Thread : ThreadInv(u)'
  <2>1. ThreadInv(t)'
    BY <1>2, <1>10 DEF ThreadInv
  <2> QED
    BY <1>9, <2>1
<1>12. ASSUME pc'[t] = "step"
       PROVE  /\ Promises(mostWork'[t])
              /\ Alone => \A b \in Ancestors[mostWork'[t]] : idx'[b].failed = {}
  BY <1>2, <1>3, <1>4, <1>10, <1>12, LoopSettles
<1>13. ChainInv' /\ ReadyInv'
  <2>1. \A u \in Thread : Working(u)' => \/ Working(u) /\ mostWork'[u] = mostWork[u]
                                         \/ Promises(mostWork'[u])
    BY <1>9, <1>10, <1>12 DEF Working
  <2> QED
    BY <1>2, <1>7, <1>8, <2>1, ChainsKept
<1>14. AloneInv'
  <2> SUFFICES ASSUME Alone, scene.threads = {t}
               PROVE  /\ \A b \in Ancestors[tip] : idx'[b].failed = {}
                      /\ Working(t)' => \A b \in Ancestors[mostWork'[t]] : idx'[b].failed = {}
    BY <1>2, <1>10 DEF AloneInv, Alone, OneThread, Active, Failed
  <2>1. ASSUME NEW b \in Ancestors[tip] PROVE idx'[b].failed = {}
    <3>1. b \in Block /\ idx[b].failed = {}
      BY <1>1, <1>2, AncestorsClosed DEF AloneInv, Active, Failed, Typed
    <3>2. idx'[b] = idx[b]
      BY <1>1, <1>6, <3>1, AncestorsTransitive DEF Active, Typed
    <3> QED
      BY <3>1, <3>2
  <2> QED
    BY <1>10, <1>12, <2>1 DEF Working
<1> QED
  BY <1>7, <1>8, <1>11, <1>13, <1>14, StepKeeps

\* DisconnectTip writes the index it is given, or leaves it dirty.
LEMMA DisconnectTipFlushes ==
    ASSUME NEW e, NEW d, DisconnectTip(e, d)
    PROVE  tip' = Parent[tip] /\ idx' = e /\ linked' = linked /\ Flushed(d)
BY DEF DisconnectTip, FlushIfNeeded, Flushed, disk

LEMMA StepDisconnectKeeps ==
    ASSUME Inv, scene' = scene, NEW t \in scene.threads, StepDisconnect(t)
    PROVE  Inv'
<1>1. Typed /\ IndexInv /\ \A u \in Thread : ThreadInv(u)
  BY DEF Inv
<1>2. /\ up /\ up' = up /\ ~ flushing /\ pc[t] = "step" /\ holder = t
      /\ tip \notin Ancestors[mostWork[t]] /\ DisconnectTip(idx, dirty) /\ cands' = cands
  BY DEF StepDisconnect, Holds, Running
<1>3. t \in Thread /\ mostWork[t] \in Block /\ tip \in Block
  BY <1>1, <1>2, TreeAssumption DEF Typed, ThreadInv
<1>4. tip # Genesis
  BY <1>2, <1>3, RootAssumption
<1>5. /\ idx' = idx /\ linked' = linked /\ Flushed(dirty \cup {})
      /\ tip' \in Block /\ Ancestors[tip'] \subseteq Ancestors[tip]
  <2>1. dirty \cup {} = dirty
    OBVIOUS
  <2> QED
    BY <1>2, <1>3, <1>4, <2>1, DisconnectTipFlushes, AncestorsStep
<1>6. IndexStep({})
  BY <1>1, <1>2, <1>5, NothingChanges DEF IndexStep
<1>7. /\ \A u \in Thread \ {t} : pc'[u] = pc[u] /\ mostWork'[u] = mostWork[u]
      /\ pc' \in [Thread -> {"idle", "loop", "step", "invalidate", "reprocess"}]
      /\ mostWork' \in [Thread -> Block \cup {NoBlock}]
      /\ \/ pc'[t] = "idle" /\ mostWork'[t] = NoBlock
         \/ pc'[t] = "loop" /\ mostWork'[t] = mostWork[t]
         \/ pc'[t] = "step" /\ mostWork'[t] = mostWork[t] /\ holder' = t
  BY <1>1, <1>2, <1>3 DEF StepDisconnect, AfterStep, Leave, Release, Typed
<1>8. \A u \in Thread \ {t} : ThreadInv(u)' /\ (Working(u)' <=> Working(u))
  BY <1>1, <1>2, <1>7, OthersStay, SMTT(30)
<1>9. ThreadInv(t)' /\ (Working(t)' => Working(t) /\ mostWork'[t] = mostWork[t])
  BY <1>2, <1>3, <1>7, TreeAssumption DEF ThreadInv, Working
<1>10. TypedStep /\ Narrower
  BY <1>1, <1>2, <1>5, <1>7, <1>8, <1>9 DEF TypedStep, Narrower, Typed
<1>11. \A u \in Thread : ThreadInv(u)' /\ (pc'[u] = "invalidate" <=> pc[u] = "invalidate")
                         /\ (pc[u] = "invalidate" => mostWork'[u] = mostWork[u])
  BY <1>2, <1>7, <1>8, <1>9
<1> QED
  BY <1>5, <1>6, <1>10, <1>11, CalmStep

\* ActivateBestChainStep has a block to connect.
LEMMA ToConnectFound ==
    ASSUME NEW t, mostWork[t] \in Block, tip \in Ancestors[mostWork[t]], tip # mostWork[t]
    PROVE  /\ ToConnect(t) \in Ancestors[mostWork[t]] \ {Genesis}
           /\ ToConnect(t) \in Block /\ Parent[ToConnect(t)] = tip
           /\ Ancestors[ToConnect(t)] = {ToConnect(t)} \cup Ancestors[tip]
           /\ ToConnect(t) \notin Ancestors[tip]
<1>1. \E b \in Ancestors[mostWork[t]] : b # Genesis /\ Parent[b] = tip
  BY NextExists
<1>2. ToConnect(t) \in Ancestors[mostWork[t]] \ {Genesis} /\ Parent[ToConnect(t)] = tip
  BY <1>1 DEF ToConnect
<1> QED
  BY <1>2, AncestorsClosed, AncestorsStep, NoCycle

\* A block that is connected has no mark.
LEMMA ConnectedUnmarked ==
    ASSUME Inv, NEW t \in scene.threads, t \in Thread, Working(t),
           NEW b \in Ancestors[mostWork[t]] \ {Genesis}, b \notin scene.badConnect,
           Ancestors[b] = {b} \cup Ancestors[tip], Undisturbed
    PROVE  idx[b].failed = {}
<1>1. mostWork[t] \in Block /\ b \in Block
  BY AncestorsClosed DEF Inv, Typed, Working
<1>2. b \notin Bad /\ \A a \in Ancestors[b] : a \notin Bad
  BY DEF Inv, ChainInv, Bad
<1>3. CASE Settled
  BY <1>1, <1>2, <1>3 DEF Inv, IndexInv, TaintInv, Tainted
<1>4. CASE Alone
  BY <1>4 DEF Inv, AloneInv, Failed
<1> QED
  BY <1>3, <1>4 DEF Undisturbed, Alone

LEMMA StepConnectKeeps ==
    ASSUME Inv, scene' = scene, NEW t \in scene.threads, StepConnect(t)
    PROVE  Inv'
<1> DEFINE b == ToConnect(t)
           need == ~ idx[b].undo \/ ~ IsValid(idx[b], SCRIPTS)
           f == IF need THEN RaiseValidity([idx[b] EXCEPT !.undo = TRUE], SCRIPTS) ELSE idx[b]
           D == IF need THEN {b} ELSE {}
<1>1. Typed /\ IndexInv /\ AloneInv /\ ReadyInv /\ ChainInv /\ \A u \in Thread : ThreadInv(u)
  BY DEF Inv
<1>2. /\ up /\ up' = up /\ ~ flushing /\ pc[t] = "step" /\ holder = t
      /\ tip \in Ancestors[mostWork[t]] /\ tip # mostWork[t]
      /\ b \notin scene.badConnect /\ tip' = b /\ linked' = linked
      /\ cands' = PruneBlockIndexCandidates(b)
  BY DEF StepConnect, Holds, Running
<1>3. t \in Thread /\ mostWork[t] \in Block /\ Working(t)
  BY <1>1, <1>2, TreeAssumption DEF Typed, ThreadInv, Working
<1>4. /\ b \in Ancestors[mostWork[t]] \ {Genesis} /\ b \in Block
      /\ Ancestors[b] = {b} \cup Ancestors[tip]
  BY <1>2, <1>3, ToConnectFound
<1>5. idx[b] \in Entry
  BY <1>1, <1>4 DEF Typed
<1>6. idx' = [idx EXCEPT ![b] = f] /\ Flushed(dirty \cup D)
  <2>1. /\ idx' = [idx EXCEPT ![b] = IF need
                     THEN RaiseValidity([@ EXCEPT !.undo = TRUE], SCRIPTS) ELSE @]
        /\ FlushIfNeeded(idx', IF need THEN dirty \cup {b} ELSE dirty)
    BY DEF StepConnect
  <2>2. (IF need THEN dirty \cup {b} ELSE dirty) = dirty \cup D
    OBVIOUS
  <2>3. idx' = [idx EXCEPT ![b] = f]
    BY <1>1, <1>4, <2>1 DEF Typed
  <2>4. Flushed(dirty \cup D)
    BY <2>1, <2>2 DEF FlushIfNeeded, Flushed
  <2> QED
    BY <2>3, <2>4
<1>7. /\ f \in Entry /\ f.failed = idx[b].failed /\ f.nTx = idx[b].nTx
      /\ f.data = idx[b].data /\ f.undo
      /\ idx[b].valid = SCRIPTS => f.valid = SCRIPTS
      /\ idx[b].failed = {} => f.valid = SCRIPTS
      /\ ~ need => f = idx[b]
  <2>1. CASE need
    <3> DEFINE g == [idx[b] EXCEPT !.undo = TRUE]
    <3>1. /\ g \in Entry /\ g.failed = idx[b].failed /\ g.valid = idx[b].valid
          /\ g.nTx = idx[b].nTx /\ g.data = idx[b].data /\ g.undo
      BY <1>5, UndoFields
    <3>2. f = RaiseValidity(g, SCRIPTS)
      BY <2>1
    <3> HIDE DEF g, f, need
    <3> QED
      BY <2>1, <3>1, <3>2, RaiseFields
  <2>2. CASE ~ need
    BY <1>5, <2>2, CheckedEntry
  <2> QED
    BY <2>1, <2>2
<1>8. /\ idx' \in [Block -> Entry] /\ idx'[b] = f
      /\ \A c \in Block \ {b} : idx'[c] = idx[c]
  BY <1>1, <1>4, <1>6, <1>7 DEF Typed
<1>9. \A c \in Block : idx'[c].failed = idx[c].failed
  BY <1>4, <1>7, <1>8
<1>10. Changed(D)
  <2>1. idx[b].data => idx[b].nTx
    BY <1>1, <1>4 DEF IndexInv, DataInv
  <2>2. Ready(idx[b]) => Ready(f)
    BY <1>7 DEF Ready
  <2>3. Ready(f) => b \in D \/ Ready(idx[b])
    BY <1>7
  <2> HIDE DEF f, D, need, b
  <2> QED
    BY <1>1, <1>4, <1>7, <1>8, <2>1, <2>2, <2>3, OneEntryChanges
<1>11. IndexStep(D)
  BY <1>2, <1>4, <1>6, <1>10 DEF IndexStep
<1> HIDE DEF f, D, need
<1>12. Joins(b)
  <2>1. b \notin Bad
    BY <1>1, <1>2, <1>3, <1>4 DEF ChainInv, Bad
  <2>2. ASSUME "prune" \notin scene.events PROVE Ready(f)
    <3>1. f.nTx /\ f.data /\ f.undo
      BY <1>1, <1>3, <1>4, <1>7, <2>2 DEF ReadyInv
    <3>2. Undisturbed => f.valid = SCRIPTS
      BY <1>2, <1>3, <1>4, <1>7, ConnectedUnmarked
    <3> QED
      BY <3>1, <3>2 DEF Ready
  <2> QED
    BY <1>8, <2>1, <2>2 DEF Joins
<1>13. /\ \A u \in Thread \ {t} : pc'[u] = pc[u] /\ mostWork'[u] = mostWork[u]
       /\ pc' \in [Thread -> {"idle", "loop", "step", "invalidate", "reprocess"}]
       /\ mostWork' \in [Thread -> Block \cup {NoBlock}]
       /\ \/ pc'[t] = "idle" /\ mostWork'[t] = NoBlock
          \/ pc'[t] = "loop" /\ mostWork'[t] = mostWork[t]
          \/ pc'[t] = "step" /\ mostWork'[t] = mostWork[t] /\ holder' = t
  <2>1. AfterStep(t, b) \/ UNCHANGED <<holder, pc, mostWork, nested>>
    BY DEF StepConnect
  <2>2. CASE AfterStep(t, b)
    BY <1>1, <1>3, <2>2 DEF AfterStep, Leave, Release, Typed
  <2>3. CASE UNCHANGED <<holder, pc, mostWork, nested>>
    BY <1>1, <1>2, <2>3 DEF Typed
  <2> QED
    BY <2>1, <2>2, <2>3
<1>14. \A u \in Thread : ThreadInv(u)' /\ (Working(u)' => Working(u) /\ mostWork'[u] = mostWork[u])
  <2>1. \A u \in Thread \ {t} : ThreadInv(u)' /\ (Working(u)' <=> Working(u))
    BY <1>1, <1>2, <1>13, OthersStay, SMTT(30)
  <2>2. ThreadInv(t)' /\ (Working(t)' => mostWork'[t] = mostWork[t])
    BY <1>2, <1>3, <1>13 DEF ThreadInv, Working
  <2> QED
    BY <1>3, <1>13, <2>1, <2>2
<1>15. TypedStep
  BY <1>1, <1>2, <1>4, <1>13 DEF TypedStep, Typed, PruneBlockIndexCandidates
<1>16. ChainInv' /\ ReadyInv'
  BY <1>2, <1>4, <1>11, <1>12, <1>14, <1>15, ChainsKept
<1>17. AloneInv'
  <2> SUFFICES ASSUME Alone, scene.threads = {t}
               PROVE  /\ \A c \in Ancestors[tip'] : idx'[c].failed = {}
                      /\ Working(t)' => \A c \in Ancestors[mostWork'[t]] : idx'[c].failed = {}
    BY <1>2, <1>13, SMTT(30) DEF AloneInv, Alone, OneThread, Active, Failed
  <2>1. \A c \in Ancestors[mostWork[t]] : idx[c].failed = {} /\ c \in Block
    BY <1>1, <1>3, AncestorsClosed DEF AloneInv, Failed
  <2>2. Ancestors[b] \subseteq Ancestors[mostWork[t]]
    BY <1>3, <1>4, AncestorsTransitive
  <2> QED
    BY <1>2, <1>9, <1>14, <2>1, <2>2, <1>3
<1> QED
  BY <1>11, <1>14, <1>15, <1>16, <1>17, StepKeeps

LEMMA StepInvalidKeeps ==
    ASSUME Inv, scene' = scene, NEW t \in scene.threads, StepInvalid(t)
    PROVE  Inv'
<1> DEFINE b == ToConnect(t)
<1>1. Typed /\ IndexInv /\ ChainInv /\ \A u \in Thread : ThreadInv(u)
  BY DEF Inv
<1>2. /\ up /\ up' = up /\ ~ flushing /\ pc[t] = "step" /\ holder = t
      /\ tip \in Ancestors[mostWork[t]] /\ tip # mostWork[t]
      /\ b \in scene.badConnect \cup scene.dubious
      /\ idx' = [idx EXCEPT ![b] = Mark(@, "VALID")] /\ dirty' = dirty \cup {b}
      /\ cands' = cands \ {b} /\ tip' = tip /\ linked' = linked /\ UNCHANGED disk
      /\ mostWork' = [mostWork EXCEPT ![t] = NoBlock]
      /\ pc' = [pc EXCEPT ![t] = "loop"]
  BY DEF StepInvalid, Holds, Running
<1>3. t \in Thread /\ mostWork[t] \in Block
  BY <1>1, <1>2, TreeAssumption DEF Typed, ThreadInv
<1>4. b \in Block /\ b # Genesis /\ b \notin Ancestors[tip]
  BY <1>2, <1>3, ToConnectFound
<1> HIDE DEF b
<1>5. /\ idx' \in [Block -> Entry] /\ \A c \in Block \ {b} : idx'[c] = idx[c]
      /\ idx'[b] = Mark(idx[b], "VALID") /\ "VALID" \in idx'[b].failed
      /\ idx'[b].nTx = idx[b].nTx /\ idx'[b].data = idx[b].data
      /\ Ready(idx'[b]) <=> Ready(idx[b])
  <2>1. idx[b] \in Entry
    BY <1>1, <1>4 DEF Typed
  <2> QED
    BY <1>1, <1>2, <1>4, <2>1, MarkFields DEF Typed, Ready
<1>6. Settled => b \in Bad
  BY <1>2, <1>4 DEF Settled, Decided, Bad
<1>7. IndexStep({b})
  <2>1. Changed({b})
    BY <1>1, <1>5, <1>6, MarksAdded
  <2> QED
    BY <1>2, <1>4, <2>1 DEF IndexStep, Flushed
<1>8. /\ \A u \in Thread \ {t} : pc'[u] = pc[u] /\ mostWork'[u] = mostWork[u]
      /\ pc'[t] = "loop" /\ mostWork'[t] = NoBlock
  BY <1>1, <1>2, <1>3 DEF Typed
<1>9. \A u \in Thread \ {t} : ThreadInv(u)' /\ (Working(u)' <=> Working(u))
  BY <1>1, <1>2, <1>8, OthersStay, SMTT(30)
<1>10. ThreadInv(t)' /\ ~ Working(t)'
  BY <1>2, <1>8 DEF ThreadInv, Working
<1>11. TypedStep /\ Narrower
  BY <1>1, <1>2, <1>8, <1>9, <1>10 DEF TypedStep, Narrower, Typed
<1>12. \A u \in Thread : ThreadInv(u)' /\ (pc'[u] = "invalidate" <=> pc[u] = "invalidate")
                         /\ (pc[u] = "invalidate" => mostWork'[u] = mostWork[u])
  BY <1>2, <1>8, <1>9, <1>10
<1>13. \A c \in Block : idx'[c].failed # {} => idx[c].failed # {} \/ c \in {b}
  BY <1>5
<1>14. /\ \A c \in Ancestors[tip] : c \notin {b}
       /\ Alone => \A u \in scene.threads : ~ Working(u)'
  BY <1>4, <1>10 DEF Alone, OneThread
<1> QED
  BY <1>7, <1>11, <1>12, <1>13, <1>14, MarkingStep

LEMMA InvalidateBlockKeeps ==
    ASSUME Inv, scene' = scene, NEW t \in scene.threads, NEW b \in Block,
           InvalidateBlock(t, b)
    PROVE  Inv'
<1>1. Typed /\ IndexInv /\ AloneInv /\ \A u \in Thread : ThreadInv(u)
  BY DEF Inv
<1>2. /\ up /\ up' = up /\ ~ flushing /\ pc[t] = "idle" /\ holder = NoThread
      /\ "invalidate" \in scene.events /\ b # Genesis
      /\ idx' = [idx EXCEPT ![b] = Mark(@, "VALID")] /\ dirty' = dirty \cup {b}
      /\ cands' = cands \ {b} /\ tip' = tip /\ linked' = linked /\ UNCHANGED disk
      /\ mostWork' = [mostWork EXCEPT ![t] = b] /\ holder' = t
      /\ pc' = [pc EXCEPT ![t] = "invalidate"]
  BY DEF InvalidateBlock, Idle, Running
<1>3. t \in Thread
  BY <1>1, TreeAssumption DEF Typed
<1>4. /\ idx' \in [Block -> Entry] /\ \A c \in Block \ {b} : idx'[c] = idx[c]
      /\ "VALID" \in idx'[b].failed
      /\ idx'[b].nTx = idx[b].nTx /\ idx'[b].data = idx[b].data
      /\ Ready(idx'[b]) <=> Ready(idx[b])
  <2>1. idx[b] \in Entry
    BY <1>1 DEF Typed
  <2> QED
    BY <1>1, <1>2, <2>1, MarkFields DEF Typed, Ready
<1>5. IndexStep({b})
  <2>1. ~ Settled
    BY <1>2 DEF Settled
  <2>2. Changed({b})
    BY <1>1, <1>4, <2>1, MarksAdded
  <2> QED
    BY <1>2, <2>2 DEF IndexStep, Flushed
<1>6. /\ \A u \in Thread \ {t} : pc'[u] = pc[u] /\ mostWork'[u] = mostWork[u]
      /\ pc'[t] = "invalidate" /\ mostWork'[t] = b
  BY <1>1, <1>2, <1>3 DEF Typed
<1>7. \A u \in Thread \ {t} : ThreadInv(u)' /\ (Working(u)' <=> Working(u))
  BY <1>1, <1>2, <1>6, OthersStay, SMTT(30)
<1>8. ThreadInv(t)' /\ ~ Working(t)'
  BY <1>2, <1>4, <1>6 DEF ThreadInv, Working
<1>9. TypedStep /\ Narrower
  BY <1>1, <1>2, <1>6, <1>7, <1>8 DEF TypedStep, Narrower, Typed
<1>10. AloneInv'
  <2> SUFFICES ASSUME Alone, scene.threads = {t}, NEW c \in Ancestors[tip], idx'[c].failed # {}
               PROVE  b \in Ancestors[c]
    BY <1>2, <1>6, <1>8, SMTT(30) DEF AloneInv, Alone, OneThread, Active, Failed
  <2>1. c \in Block /\ idx[c].failed = {}
    BY <1>1, <1>2, AncestorsClosed DEF AloneInv, Active, Failed, Typed
  <2> QED
    BY <1>4, <2>1, AncestorsClosed
<1> QED
  BY <1>3, <1>5, <1>7, <1>8, <1>9, <1>10, NarrowerKeeps, StepKeeps

LEMMA InvalidateDisconnectKeeps ==
    ASSUME Inv, scene' = scene, NEW t \in scene.threads, InvalidateDisconnect(t)
    PROVE  Inv'
<1>1. Typed /\ IndexInv /\ AloneInv /\ \A u \in Thread : ThreadInv(u)
  BY DEF Inv
<1>2. /\ up /\ up' = up /\ ~ flushing /\ pc[t] = "invalidate" /\ holder = t
      /\ mostWork[t] \in Ancestors[tip] /\ cands' = cands \ {tip}
      /\ DisconnectTip([idx EXCEPT ![tip] = Mark(@, "CHILD")], dirty \cup {tip})
      /\ UNCHANGED <<holder, pc, mostWork>>
  BY DEF InvalidateDisconnect, Holds, Running, control, Active
<1>3. /\ t \in Thread /\ tip \in Block /\ mostWork[t] \in Block \ {Genesis}
      /\ "VALID" \in idx[mostWork[t]].failed
  BY <1>1, <1>2, TreeAssumption DEF Typed, ThreadInv
<1>4. tip # Genesis
  BY <1>2, <1>3, AncestorsOfGenesis
<1>5. /\ idx' = [idx EXCEPT ![tip] = Mark(@, "CHILD")] /\ linked' = linked
      /\ Flushed(dirty \cup {tip}) /\ tip' \in Block
      /\ Ancestors[tip'] \subseteq Ancestors[tip]
  BY <1>2, <1>3, <1>4, DisconnectTipFlushes, AncestorsStep
<1>6. /\ idx' \in [Block -> Entry] /\ \A c \in Block \ {tip} : idx'[c] = idx[c]
      /\ idx'[tip] = Mark(idx[tip], "CHILD") /\ "VALID" \in idx'[mostWork[t]].failed
  <2>1. idx[tip] \in Entry
    BY <1>1, <1>3 DEF Typed
  <2> QED
    BY <1>1, <1>3, <1>5, <2>1, MarkFields DEF Typed
<1>7. IndexStep({tip})
  <2>1. \E a \in Ancestors[tip] : idx[a].failed # {}
    BY <1>2, <1>3
  <2>2. Changed({tip})
    BY <1>1, <1>6, <2>1, MarksAdded
  <2> QED
    BY <1>2, <1>3, <1>5, <2>2 DEF IndexStep
<1>8. \A u \in Thread \ {t} : ThreadInv(u)'
  BY <1>1, <1>2, OthersStay, SMTT(30)
<1>9. ThreadInv(t)'
  BY <1>1, <1>2, <1>3, <1>6 DEF ThreadInv
<1>10. TypedStep /\ Narrower
  BY <1>1, <1>2, <1>5 DEF TypedStep, Narrower, Typed, Working
<1>11. AloneInv'
  <2> SUFFICES ASSUME Alone, scene.threads = {t}, NEW c \in Ancestors[tip'], idx'[c].failed # {}
               PROVE  mostWork[t] \in Ancestors[c]
    BY <1>2 DEF AloneInv, Alone, OneThread, Active, Failed, Working
  <2>1. c \in Ancestors[tip] /\ c \in Block
    BY <1>3, <1>5, AncestorsClosed
  <2>2. CASE c = tip
    BY <1>2, <2>2
  <2>3. CASE c # tip
    BY <1>1, <1>2, <1>6, <2>1, <2>3 DEF AloneInv, Active, Failed
  <2> QED
    BY <2>2, <2>3
<1> QED
  BY <1>3, <1>7, <1>8, <1>9, <1>10, <1>11, NarrowerKeeps, StepKeeps

LEMMA InvalidateEndKeeps ==
    ASSUME Inv, scene' = scene, NEW t \in scene.threads, InvalidateEnd(t)
    PROVE  Inv'
<1>1. Typed /\ IndexInv /\ AloneInv /\ \A u \in Thread : ThreadInv(u)
  BY DEF Inv
<1>2. /\ up /\ up' = up /\ ~ flushing /\ pc[t] = "invalidate" /\ holder = t
      /\ mostWork[t] \notin Ancestors[tip] /\ cands' = cands \cup NowGoodEnough
      /\ idx' = idx /\ dirty' = dirty /\ tip' = tip /\ linked' = linked /\ UNCHANGED disk
      /\ mostWork' = [mostWork EXCEPT ![t] = NoBlock]
      /\ pc' = [pc EXCEPT ![t] = "loop"]
  BY DEF InvalidateEnd, Holds, Running, Active, Release
<1>3. t \in Thread /\ tip \in Block
  BY <1>1, TreeAssumption DEF Typed
<1>4. IndexStep({})
  BY <1>1, <1>2, NothingChanges DEF IndexStep, Flushed
<1>5. /\ \A u \in Thread \ {t} : pc'[u] = pc[u] /\ mostWork'[u] = mostWork[u]
      /\ pc'[t] = "loop" /\ mostWork'[t] = NoBlock
  BY <1>1, <1>2, <1>3 DEF Typed
<1>6. \A u \in Thread \ {t} : ThreadInv(u)' /\ (Working(u)' <=> Working(u))
  BY <1>1, <1>2, <1>5, OthersStay, SMTT(30)
<1>7. ThreadInv(t)' /\ ~ Working(t)'
  BY <1>2, <1>5 DEF ThreadInv, Working
<1>8. TypedStep /\ Narrower
  BY <1>1, <1>2, <1>5, <1>6, <1>7 DEF TypedStep, Narrower, Typed, NowGoodEnough
<1>9. AloneInv'
  <2> SUFFICES ASSUME Alone, scene.threads = {t}, NEW c \in Ancestors[tip]
               PROVE  idx[c].failed = {}
    BY <1>2, <1>5, <1>7, SMTT(30) DEF AloneInv, Alone, OneThread, Active, Failed
  <2>1. Ancestors[c] \subseteq Ancestors[tip]
    BY <1>3, AncestorsTransitive
  <2> QED
    BY <1>1, <1>2, <2>1 DEF AloneInv, Active, Failed
<1> QED
  BY <1>3, <1>4, <1>6, <1>7, <1>8, <1>9, NarrowerKeeps, StepKeeps

LEMMA ReconsideredClears ==
    ASSUME Typed, IndexInv, ~ Unreconsidered, NEW b \in Block, Reconsidered(b)
    PROVE  /\ cands' \subseteq Block
           /\ \A c \in Block : idx'[c].failed # {} => idx[c].failed # {}
           /\ \E D \in SUBSET Block : Changed(D) /\ dirty' = dirty \cup D
<1> DEFINE below == {d \in Known : b \in Ancestors[d] /\ Failed(d)}
           cleared == below \cup {a \in Ancestors[b] : Failed(a)}
<1>1. /\ idx' = [d \in Block |-> IF d \in cleared THEN [idx[d] EXCEPT !.failed = {}]
                                 ELSE idx[d]]
      /\ dirty' = dirty \cup cleared
      /\ cands' \subseteq cands \cup below
  BY DEF Reconsidered
<1>2. below \subseteq Block /\ cleared \subseteq Block
  BY AncestorsClosed DEF Known
<1> HIDE DEF below, cleared
<1>3. \A c \in Block : /\ idx[c] \in Entry
                       /\ [idx[c] EXCEPT !.failed = {}] \in Entry
                       /\ [idx[c] EXCEPT !.failed = {}].failed = {}
  BY ClearFields DEF Typed
<1>4. /\ idx' \in [Block -> Entry]
      /\ \A c \in Block : idx'[c] = idx[c] \/ idx'[c] = [idx[c] EXCEPT !.failed = {}]
  BY <1>1, <1>3
<1>5. Changed(cleared)
  BY <1>4, MarksCleared
<1>6. \A c \in Block : idx'[c].failed # {} => idx[c].failed # {}
  BY <1>3, <1>4
<1> QED
  BY <1>1, <1>2, <1>5, <1>6 DEF Typed

LEMMA ReconsiderBlockKeeps ==
    ASSUME Inv, scene' = scene, NEW t \in scene.threads, NEW b \in Block,
           ReconsiderBlock(t, b)
    PROVE  Inv'
<1>1. Typed /\ IndexInv /\ \A u \in Thread : ThreadInv(u)
  BY DEF Inv
<1>2. /\ up /\ up' = up /\ ~ flushing /\ pc[t] = "idle" /\ holder = NoThread
      /\ ~ Unreconsidered /\ Reconsidered(b)
      /\ tip' = tip /\ linked' = linked /\ UNCHANGED disk /\ mostWork' = mostWork
      /\ pc' = [pc EXCEPT ![t] = "loop"]
  BY DEF ReconsiderBlock, Idle, Running, Unreconsidered
<1>3. t \in Thread /\ mostWork[t] = NoBlock
  BY <1>1, <1>2, TreeAssumption DEF Typed, ThreadInv
<1>4. /\ cands' \subseteq Block
      /\ \A c \in Block : idx'[c].failed # {} => idx[c].failed # {}
  BY <1>1, <1>2, ReconsideredClears
<1>5. PICK D \in SUBSET Block : Changed(D) /\ dirty' = dirty \cup D
  BY <1>1, <1>2, ReconsideredClears
<1>6. IndexStep(D)
  BY <1>2, <1>5 DEF IndexStep, Flushed
<1>7. /\ \A u \in Thread \ {t} : pc'[u] = pc[u] /\ mostWork'[u] = mostWork[u]
      /\ pc'[t] = "loop" /\ mostWork'[t] = NoBlock
  BY <1>1, <1>2, <1>3 DEF Typed
<1>8. \A u \in Thread \ {t} : ThreadInv(u)' /\ (Working(u)' <=> Working(u))
  BY <1>1, <1>2, <1>7, OthersStay, SMTT(30)
<1>9. ThreadInv(t)' /\ ~ Working(t)'
  BY <1>2, <1>7 DEF ThreadInv, Working
<1>10. TypedStep /\ Narrower
  BY <1>1, <1>2, <1>4, <1>7, <1>8, <1>9 DEF TypedStep, Narrower, Typed
<1>11. \A u \in Thread : ThreadInv(u)' /\ (pc'[u] = "invalidate" <=> pc[u] = "invalidate")
                         /\ (pc[u] = "invalidate" => mostWork'[u] = mostWork[u])
  BY <1>2, <1>7, <1>8, <1>9
<1> QED
  BY <1>4, <1>6, <1>10, <1>11, CalmStep

LEMMA ReprocessBlocksKeeps ==
    ASSUME Inv, scene' = scene, NEW t \in scene.threads, NEW R, NEW n,
           ReprocessBlocks(t, R, n)
    PROVE  Inv'
<1>1. Typed /\ IndexInv /\ \A u \in Thread : ThreadInv(u)
  BY DEF Inv
<1>2. /\ up /\ up' = up /\ ~ flushing /\ pc[t] = "idle" /\ holder = NoThread
      /\ "reprocess" \in scene.events /\ holder' = t
      /\ UNCHANGED <<idx, linked, cands, tip, dirty>> /\ UNCHANGED disk
      /\ mostWork' = mostWork /\ pc' = [pc EXCEPT ![t] = "reprocess"]
  BY DEF ReprocessBlocks, Idle, Running, tree
<1>3. t \in Thread /\ mostWork[t] = NoBlock
  BY <1>1, <1>2, TreeAssumption DEF Typed, ThreadInv
<1>4. IndexStep({})
  BY <1>1, <1>2, NothingChanges DEF IndexStep, Flushed
<1>5. /\ \A u \in Thread \ {t} : pc'[u] = pc[u] /\ mostWork'[u] = mostWork[u]
      /\ pc'[t] = "reprocess" /\ mostWork'[t] = NoBlock
  BY <1>1, <1>2, <1>3 DEF Typed
<1>6. \A u \in Thread \ {t} : ThreadInv(u)' /\ (Working(u)' <=> Working(u))
  BY <1>1, <1>2, <1>5, OthersStay, SMTT(30)
<1>7. ThreadInv(t)' /\ ~ Working(t)'
  BY <1>2, <1>5 DEF ThreadInv, Working
<1>8. TypedStep /\ Narrower
  BY <1>1, <1>2, <1>5, <1>6, <1>7 DEF TypedStep, Narrower, Typed
<1>9. \A u \in Thread : ThreadInv(u)' /\ (pc'[u] = "invalidate" <=> pc[u] = "invalidate")
                        /\ (pc[u] = "invalidate" => mostWork'[u] = mostWork[u])
  BY <1>2, <1>5, <1>6, <1>7
<1> QED
  BY <1>2, <1>4, <1>8, <1>9, CalmStep

LEMMA ReprocessBlockKeeps ==
    ASSUME Inv, scene' = scene, NEW t \in scene.threads, NEW b \in Block,
           ReprocessBlock(t, b)
    PROVE  Inv'
<1>1. Typed /\ IndexInv /\ \A u \in Thread : ThreadInv(u)
  BY DEF Inv
<1>2. /\ up /\ up' = up /\ ~ flushing /\ pc[t] = "reprocess" /\ holder = t
      /\ Reconsidered(b) /\ UNCHANGED <<tip, linked, holder, pc, mostWork>>
      /\ UNCHANGED disk
  BY DEF ReprocessBlock, Holds, Running
<1>3. t \in Thread /\ ~ Unreconsidered
  BY <1>1, <1>2, TreeAssumption DEF Typed, ThreadInv, Unreconsidered
<1>4. /\ cands' \subseteq Block
      /\ \A c \in Block : idx'[c].failed # {} => idx[c].failed # {}
  BY <1>1, <1>2, <1>3, ReconsideredClears
<1>5. PICK D \in SUBSET Block : Changed(D) /\ dirty' = dirty \cup D
  BY <1>1, <1>2, <1>3, ReconsideredClears
<1>6. IndexStep(D)
  BY <1>2, <1>5 DEF IndexStep, Flushed
<1>7. \A u \in Thread \ {t} : ThreadInv(u)'
  BY <1>1, <1>2, OthersStay, SMTT(30)
<1>8. ThreadInv(t)'
  BY <1>1, <1>2, <1>3 DEF ThreadInv
<1>9. TypedStep /\ Narrower
  BY <1>1, <1>2, <1>4 DEF TypedStep, Narrower, Typed, Working
<1> QED
  BY <1>2, <1>4, <1>6, <1>7, <1>8, <1>9, CalmStep

LEMMA DisconnectBlocksKeeps ==
    ASSUME Inv, scene' = scene, NEW t \in scene.threads, DisconnectBlocks(t)
    PROVE  Inv'
<1>1. Typed /\ IndexInv /\ \A u \in Thread : ThreadInv(u)
  BY DEF Inv
<1>2. /\ up /\ up' = up /\ ~ flushing /\ pc[t] = "reprocess" /\ holder = t
      /\ tip # Genesis /\ DisconnectTip(idx, dirty)
      /\ UNCHANGED <<cands, holder, pc, mostWork>>
  BY DEF DisconnectBlocks, Holds, Running
<1>3. t \in Thread /\ tip \in Block
  BY <1>1, TreeAssumption DEF Typed
<1>4. /\ idx' = idx /\ linked' = linked /\ Flushed(dirty \cup {})
      /\ tip' \in Block /\ Ancestors[tip'] \subseteq Ancestors[tip]
  <2>1. dirty \cup {} = dirty
    OBVIOUS
  <2> QED
    BY <1>2, <1>3, <2>1, DisconnectTipFlushes, AncestorsStep
<1>5. IndexStep({})
  BY <1>1, <1>2, <1>4, NothingChanges DEF IndexStep
<1>6. \A u \in Thread : ThreadInv(u)'
  BY <1>1, <1>2, <1>4 DEF ThreadInv
<1>7. TypedStep /\ Narrower
  BY <1>1, <1>2, <1>4 DEF TypedStep, Narrower, Typed, Working
<1> QED
  BY <1>2, <1>4, <1>5, <1>6, <1>7, CalmStep

LEMMA ReprocessEndKeeps ==
    ASSUME Inv, scene' = scene, NEW t \in scene.threads, ReprocessEnd(t)
    PROVE  Inv'
<1>1. Typed /\ IndexInv /\ \A u \in Thread : ThreadInv(u)
  BY DEF Inv
<1>2. /\ up /\ up' = up /\ ~ flushing /\ pc[t] = "reprocess" /\ holder = t
      /\ UNCHANGED <<idx, linked, cands, tip, dirty, holder, mostWork>> /\ UNCHANGED disk
      /\ pc' = [pc EXCEPT ![t] = "loop"]
  BY DEF ReprocessEnd, Holds, Running, tree
<1>3. t \in Thread /\ mostWork[t] = NoBlock
  BY <1>1, <1>2, TreeAssumption DEF Typed, ThreadInv
<1>4. IndexStep({})
  BY <1>1, <1>2, NothingChanges DEF IndexStep, Flushed
<1>5. /\ \A u \in Thread \ {t} : pc'[u] = pc[u] /\ mostWork'[u] = mostWork[u]
      /\ pc'[t] = "loop" /\ mostWork'[t] = NoBlock
  BY <1>1, <1>2, <1>3 DEF Typed
<1>6. \A u \in Thread \ {t} : ThreadInv(u)' /\ (Working(u)' <=> Working(u))
  BY <1>1, <1>2, <1>5, OthersStay, SMTT(30)
<1>7. ThreadInv(t)' /\ ~ Working(t)'
  BY <1>2, <1>5 DEF ThreadInv, Working
<1>8. TypedStep /\ Narrower
  BY <1>1, <1>2, <1>5, <1>6, <1>7 DEF TypedStep, Narrower, Typed
<1>9. \A u \in Thread : ThreadInv(u)' /\ (pc'[u] = "invalidate" <=> pc[u] = "invalidate")
                        /\ (pc[u] = "invalidate" => mostWork'[u] = mostWork[u])
  BY <1>2, <1>5, <1>6, <1>7
<1> QED
  BY <1>2, <1>4, <1>8, <1>9, CalmStep

LEMMA PruneOneBlockFileKeeps ==
    ASSUME Inv, scene' = scene, NEW b \in Block, PruneOneBlockFile(b)
    PROVE  Inv'
<1> DEFINE f == [[idx[b] EXCEPT !.data = FALSE] EXCEPT !.undo = FALSE]
<1>1. Typed /\ IndexInv /\ \A u \in Thread : ThreadInv(u)
  BY DEF Inv
<1>2. /\ up /\ up' = up /\ ~ flushing /\ "prune" \in scene.events
      /\ idx' = [idx EXCEPT ![b].data = FALSE, ![b].undo = FALSE]
      /\ WriteIndex(idx', dirty \cup {b}, TRUE)
      /\ UNCHANGED <<linked, cands, tip, holder, pc, mostWork>>
  BY DEF PruneOneBlockFile, Running, control
<1>3. idx[b] \in Entry
  BY <1>1 DEF Typed
<1>4. f \in Entry /\ f.failed = idx[b].failed /\ ~ f.data
  BY <1>3, PrunedFields
<1>5. idx' = [idx EXCEPT ![b] = f]
  BY <1>1, <1>2 DEF Typed
<1> HIDE DEF f
<1>6. /\ idx' \in [Block -> Entry] /\ idx'[b] = f
      /\ \A c \in Block \ {b} : idx'[c] = idx[c]
  BY <1>1, <1>4, <1>5 DEF Typed
<1>7. IndexStep({b})
  <2>1. Changed({b})
    BY <1>1, <1>2, <1>4, <1>6, OneEntryChanges
  <2> QED
    BY <1>2, <2>1 DEF IndexStep, Flushed
<1>8. \A c \in Block : idx'[c].failed = idx[c].failed
  BY <1>4, <1>6
<1>9. \A u \in Thread : ThreadInv(u)'
  BY <1>1, <1>2, <1>8, ZenonT(60) DEF ThreadInv
<1>10. TypedStep /\ Narrower
  BY <1>1, <1>2 DEF TypedStep, Narrower, Typed, Working
<1> QED
  BY <1>2, <1>7, <1>8, <1>9, <1>10, CalmStep

LEMMA FlushStateToDiskKeeps ==
    ASSUME Inv, scene' = scene, NEW full \in BOOLEAN, FlushStateToDisk(full)
    PROVE  Inv'
<1>1. Typed /\ IndexInv /\ \A u \in Thread : ThreadInv(u)
  BY DEF Inv
<1>2. /\ up /\ up' = up /\ ~ flushing /\ idx' = idx
      /\ WriteIndex(idx', dirty, full)
      /\ UNCHANGED <<linked, cands, tip, holder, pc, mostWork>>
  BY DEF FlushStateToDisk, Running, control
<1>3. IndexStep({})
  <2>1. dirty \cup {} = dirty
    OBVIOUS
  <2> QED
    BY <1>1, <1>2, <2>1, NothingChanges DEF IndexStep, Flushed
<1>4. \A u \in Thread : ThreadInv(u)'
  BY <1>1, <1>2 DEF ThreadInv
<1>5. TypedStep /\ Narrower
  BY <1>1, <1>2 DEF TypedStep, Narrower, Typed, Working
<1> QED
  BY <1>2, <1>3, <1>4, <1>5, CalmStep

\* The coins are written after the index: the entries of the active chain are there.
LEMMA FlushCoinsKeeps ==
    ASSUME Inv, scene' = scene, FlushCoins
    PROVE  Inv'
<1>1. /\ Typed /\ DownInv /\ ChainInv /\ IndexInv /\ ReadyInv /\ AloneInv
      /\ \A u \in Thread : ThreadInv(u)
  BY DEF Inv
<1>2. /\ up /\ flushing /\ tipDisk' = tip /\ flushing' = FALSE
      /\ UNCHANGED <<idx, linked, cands, tip, dirty, idxDisk, up>>
      /\ UNCHANGED <<holder, pc, mostWork>>
  BY DEF FlushCoins, tree, control
<1>3. Typed' /\ DownInv' /\ ChainInv' /\ AloneInv'
  BY <1>1, <1>2 DEF Typed, DownInv, ChainInv, AloneInv, Bad, Alone, OneThread, Active,
                    Failed, Working
<1>4. \A u \in Thread : ThreadInv(u)'
  BY <1>1, <1>2 DEF ThreadInv
<1>5. IndexInv'
  BY <1>1, <1>2, ZenonT(60) DEF IndexInv, DataInv, TaintInv, Caused, Tainted, Bad, Settled, Decided,
                    Unreconsidered, Ready, Undisturbed, OneThread
<1>6. ASSUME "prune" \notin scene.events, NEW b \in Ancestors[tip] \ {Genesis}
      PROVE  Ready(idxDisk[b])
  <2>1. b \in Block /\ Ready(idx[b]) /\ b \notin dirty
    BY <1>1, <1>2, <1>6, AncestorsClosed DEF ReadyInv, Typed, DownInv
  <2> QED
    BY <1>1, <1>2, <1>6, <2>1 DEF IndexInv
<1>7. ReadyInv'
  BY <1>1, <1>2, <1>6 DEF ReadyInv, Ready, Undisturbed, Settled, Decided, OneThread, Working
<1> QED
  BY <1>3, <1>4, <1>5, <1>7 DEF Inv

LEMMA CrashKeeps ==
    ASSUME Inv, scene' = scene, Crash
    PROVE  Inv'
<1>1. Typed /\ ChainInv /\ IndexInv /\ ReadyInv
  BY DEF Inv
<1>2. /\ "crash" \in scene.events /\ up' = FALSE /\ flushing' = FALSE
      /\ idx' = [b \in Block |-> NoEntry] /\ linked' = {} /\ cands' = {} /\ dirty' = {}
      /\ tip' = tipDisk /\ tipDisk' = tipDisk /\ idxDisk' = idxDisk
      /\ pc' = [t \in Thread |-> "idle"] /\ mostWork' = [t \in Thread |-> NoBlock]
  BY DEF Crash, ForgetThreads
<1>3. NoEntry \in Entry /\ NoEntry.failed = {} /\ ~ NoEntry.nTx /\ ~ NoEntry.data
  BY FixedEntries
<1>4. Typed' /\ DownInv'
  BY <1>1, <1>2, <1>3 DEF Typed, DownInv
<1>5. \A u \in Thread : ThreadInv(u)' /\ ~ Working(u)'
  BY <1>2 DEF ThreadInv, Working
<1>6. ChainInv' /\ AloneInv'
  BY <1>1, <1>2, <1>5 DEF ChainInv, Bad, AloneInv, Alone
<1>7. \A b \in Block : idx'[b] = NoEntry
  BY <1>2
<1>8. IndexInv'
  <2>1. DataInv(idx)' /\ TaintInv(idx)' /\ Caused(idx)'
    BY <1>3, <1>7 DEF DataInv, TaintInv, Caused
  <2>2. DataInv(idxDisk)' /\ TaintInv(idxDisk)' /\ (Unreconsidered' => Caused(idxDisk)')
    BY <1>1, <1>2 DEF IndexInv, DataInv, TaintInv, Caused, Tainted, Bad, Settled, Decided,
                      Unreconsidered
  <2> QED
    BY <1>2, <2>1, <2>2 DEF IndexInv
<1>9. ReadyInv'
  BY <1>1, <1>2, <1>5 DEF ReadyInv, Ready, Undisturbed, Settled, Decided, OneThread
<1> QED
  BY <1>4, <1>5, <1>6, <1>8, <1>9 DEF Inv

LEMMA RestartKeeps ==
    ASSUME Inv, scene' = scene, NEW t \in scene.threads, Restart(t)
    PROVE  Inv'
<1>1. /\ Typed /\ DownInv /\ ChainInv /\ IndexInv /\ ReadyInv
      /\ \A u \in Thread : ThreadInv(u)
  BY DEF Inv
<1>2. /\ ~ up /\ up' = TRUE /\ idx' = idxDisk /\ linked' \subseteq Block
      /\ cands' \subseteq Block /\ pc' = [pc EXCEPT ![t] = "loop"]
      /\ UNCHANGED <<tip, dirty, holder, mostWork>> /\ UNCHANGED disk
  BY DEF Restart
<1>3. /\ t \in Thread /\ tip = tipDisk /\ dirty = {} /\ "crash" \in scene.events
      /\ \A u \in Thread : pc[u] = "idle" /\ mostWork[u] = NoBlock
  BY <1>1, <1>2, TreeAssumption DEF Typed, DownInv, ThreadInv
<1>4. UNCHANGED <<idxDisk, tipDisk, flushing>>
  BY <1>2 DEF disk
<1>5. Typed' /\ DownInv'
  BY <1>1, <1>2, <1>3, <1>4 DEF Typed, DownInv
<1>6. \A u \in Thread : ThreadInv(u)' /\ ~ Working(u)'
  <2>1. \A u \in Thread : mostWork'[u] = NoBlock
    BY <1>2, <1>3
  <2>2. pc'[t] = "loop" /\ \A u \in Thread \ {t} : pc'[u] = "idle"
    BY <1>1, <1>2, <1>3 DEF Typed
  <2> QED
    BY <1>2, <2>1, <2>2 DEF ThreadInv, Working
<1>7. ChainInv' /\ AloneInv'
  BY <1>1, <1>2, <1>3, <1>4, <1>6 DEF ChainInv, Bad, AloneInv, Alone
<1>8. IndexInv'
  BY <1>1, <1>2, <1>4 DEF IndexInv, DataInv, TaintInv, Caused, Tainted, Bad, Settled,
                          Decided, Unreconsidered, Ready, Undisturbed, OneThread
<1>9. ReadyInv'
  BY <1>1, <1>2, <1>3, <1>4, <1>6
     DEF ReadyInv, Ready, Undisturbed, Settled, Decided, OneThread
<1> QED
  BY <1>5, <1>6, <1>7, <1>8, <1>9 DEF Inv

(***************************************************************************)
(* The invariant, and what follows from it.                                *)
(***************************************************************************)
LEMMA InvInit == Init => Inv
<1> SUFFICES ASSUME Init PROVE Inv
  OBVIOUS
<1>1. /\ idx = [b \in Block |-> IF b = Genesis THEN GenesisEntry ELSE NoEntry]
      /\ idxDisk = idx /\ linked = {Genesis} /\ cands = {Genesis} /\ dirty = {}
      /\ tip = Genesis /\ tipDisk = Genesis /\ flushing = FALSE /\ up = TRUE
      /\ pc = [t \in Thread |-> "idle"] /\ mostWork = [t \in Thread |-> NoBlock]
      /\ scene \in Scenes
  BY DEF Init
<1>2. /\ NoEntry \in Entry /\ GenesisEntry \in Entry
      /\ NoEntry.failed = {} /\ GenesisEntry.failed = {}
      /\ ~ NoEntry.data /\ GenesisEntry.nTx
  BY FixedEntries
<1>3. idx \in [Block -> Entry] /\ Genesis \in Block
  BY <1>1, <1>2, TreeAssumption
<1>4. Typed /\ DownInv
  BY <1>1, <1>3 DEF Typed, DownInv
<1>5. \A t \in Thread : ThreadInv(t) /\ ~ Working(t)
  BY <1>1 DEF ThreadInv, Working
<1>6. \A b \in Block : idx[b].failed = {}
  BY <1>1, <1>2
<1>7. ChainInv
  BY <1>1, <1>5, AncestorsOfGenesis DEF ChainInv, Bad
<1>8. IndexInv
  <2>1. \A b \in Block : idx[b].data => b = Genesis /\ idx[b].nTx
    BY <1>1, <1>2
  <2>2. DataInv(idx) /\ TaintInv(idx) /\ Caused(idx)
    BY <1>6, <2>1 DEF DataInv, TaintInv, Caused
  <2> QED
    BY <1>1, <2>2 DEF IndexInv
<1>9. ReadyInv
  BY <1>1, <1>5, AncestorsOfGenesis DEF ReadyInv
<1>10. AloneInv
  <2>1. scene.threads \subseteq Thread
    BY <1>1, TreeAssumption
  <2>2. \A b \in Active : ~ Failed(b)
    BY <1>1, <1>3, <1>6, AncestorsOfGenesis DEF Active, Failed
  <2> QED
    BY <1>1, <1>5, <2>1, <2>2 DEF AloneInv
<1> QED
  BY <1>4, <1>5, <1>7, <1>8, <1>9, <1>10 DEF Inv

LEMMA InvNext == Inv /\ [Next]_vars => Inv'
<1> SUFFICES ASSUME Inv, [Next]_vars PROVE Inv'
  OBVIOUS
<1>1. CASE UNCHANGED vars
  <2>1. /\ UNCHANGED <<idx, linked, cands, tip, dirty>> /\ UNCHANGED <<idxDisk, tipDisk, flushing>>
        /\ UNCHANGED <<holder, pc, mostWork>> /\ UNCHANGED <<up, scene>>
    BY <1>1 DEF vars, tree, disk, control
  <2>2. Typed' /\ DownInv' /\ \A t \in Thread : ThreadInv(t)'
    BY <2>1 DEF Inv, Typed, DownInv, ThreadInv
  <2>3. ChainInv' /\ AloneInv'
    BY <2>1 DEF Inv, ChainInv, AloneInv, Bad, Working, Alone, OneThread, Active, Failed
  <2>4. IndexInv'
    BY <2>1, ZenonT(60) DEF Inv, IndexInv, DataInv, TaintInv, Caused, Tainted, Bad, Ready, Settled,
                Decided, Undisturbed, OneThread, Unreconsidered
  <2>5. ReadyInv'
    BY <2>1 DEF Inv, ReadyInv, Ready, Working, Settled, Decided, Undisturbed, OneThread
  <2> QED
    BY <2>2, <2>3, <2>4, <2>5 DEF Inv
<1>2. ASSUME Next PROVE Inv'
  <2>1. scene' = scene /\ scene.blocks \subseteq Block
    BY <1>2, TreeAssumption DEF Next, Inv, Typed
  <2>2. ASSUME NEW t \in scene.threads, Work(t) PROVE Inv'
    BY <2>1, <2>2, LoopKeeps, StepDisconnectKeeps, StepConnectKeeps, StepInvalidKeeps,
       InvalidateDisconnectKeeps, InvalidateEndKeeps, ReprocessBlockKeeps,
       DisconnectBlocksKeeps, ReprocessEndKeeps DEF Work
  <2>3. ASSUME NEW t \in scene.threads, Restart(t) PROVE Inv'
    BY <2>1, <2>3, RestartKeeps
  <2>4. ASSUME NEW t \in scene.threads, NEW b \in scene.blocks \ {Genesis},
               \/ AcceptBlockHeader(t, b)
               \/ \E r \in BOOLEAN : ProcessNewBlock(t, b, r)
               \/ InvalidateBlock(t, b)
               \/ ReconsiderBlock(t, b)
        PROVE  Inv'
    BY <2>1, <2>4, AcceptBlockHeaderKeeps, ProcessNewBlockKeeps, InvalidateBlockKeeps,
       ReconsiderBlockKeeps
  <2>5. ASSUME NEW t \in scene.threads, NEW R \in SUBSET rejected, NEW n \in 0..1,
               ReprocessBlocks(t, R, n)
        PROVE  Inv'
    BY <2>1, <2>5, ReprocessBlocksKeeps
  <2>6. ASSUME NEW b \in Block, PruneOneBlockFile(b) PROVE Inv'
    BY <2>1, <2>6, PruneOneBlockFileKeeps
  <2>7. ASSUME NEW full \in BOOLEAN, FlushStateToDisk(full) PROVE Inv'
    BY <2>1, <2>7, FlushStateToDiskKeeps
  <2>8. ASSUME FlushCoins PROVE Inv'
    BY <2>1, <2>8, FlushCoinsKeeps
  <2>9. ASSUME Crash PROVE Inv'
    BY <2>1, <2>9, CrashKeeps
  <2> QED
    BY <1>2, <2>2, <2>3, <2>4, <2>5, <2>6, <2>7, <2>8, <2>9 DEF Next
<1> QED
  BY <1>1, <1>2

LEMMA InvMarks == Inv => MarksSound
<1> SUFFICES ASSUME Inv PROVE FailedHaveCause /\ ActiveValid
  BY DEF MarksSound
<1>1. Typed /\ IndexInv /\ ChainInv /\ AloneInv /\ \A t \in Thread : ThreadInv(t)
  BY DEF Inv
<1>2. FailedHaveCause
  BY <1>1 DEF FailedHaveCause, IndexInv, Caused, Failed, NoInvalid, Known
<1>3. ASSUME holder = NoThread, Undisturbed, NEW b \in Active PROVE ~ Failed(b)
  <2>1. b \in Block /\ Ancestors[b] \subseteq Ancestors[tip]
    BY <1>1, AncestorsTransitive DEF Active, Typed
  <2>2. CASE Settled
    BY <1>1, <2>1, <2>2 DEF IndexInv, TaintInv, Tainted, ChainInv, Failed
  <2>3. CASE Alone
    <3>1. PICK t \in Thread : scene.threads = {t}
      BY <2>3 DEF Alone, OneThread
    <3>2. pc[t] # "invalidate"
      BY <1>1, <1>3, <3>1, TreeAssumption DEF ThreadInv
    <3> QED
      BY <1>1, <1>3, <2>3, <3>1, <3>2 DEF AloneInv
  <2> QED
    BY <1>3, <2>2, <2>3 DEF Undisturbed, Alone
<1> QED
  BY <1>2, <1>3 DEF ActiveValid

LEMMA InvRestart == Inv => RestartUsable
BY DEF Inv, ReadyInv, Ready, RestartUsable

\* Whatever blocks arrive, fail, are invalidated or pruned, and wherever the process
\* crashes: a block is marked as failed only below a block that failed itself, and
\* no block of the active chain is marked whenever cs_main is free.
THEOREM MarksAlwaysSound == Spec => []MarksSound
BY InvInit, InvNext, InvMarks, PTL DEF Spec

\* FlushStateToDisk writes the block index before the coins: wherever the process
\* stops, the index on disk has the whole chain of the coins on disk, with its undo
\* data.
THEOREM RestartAlwaysUsable == Spec => []RestartUsable
BY InvInit, InvNext, InvRestart, PTL DEF Spec

(***************************************************************************)
(* No block is lost.                                                       *)
(*                                                                         *)
(* Which blocks an index knows, and which it has received: an entry has a  *)
(* header exactly when it is not blank, the parent of a block is known     *)
(* when the block is, and while nothing is pruned a block that was         *)
(* received has its data.                                                  *)
(***************************************************************************)
Headed(e) ==
    \A b \in Block :
        /\ e[b].valid = 0 => e[b] = NoEntry
        /\ e[b].valid # 0 /\ b # Genesis => e[Parent[b]].valid # 0
        /\ e[b].nTx /\ "prune" \notin scene.events => e[b].data

\* What is known and received survives a crash, or is in setDirtyBlockIndex; the chain
\* of the coins on disk has been received.
KnownInv ==
    /\ Headed(idxDisk) /\ \A b \in Ancestors[tipDisk] : idxDisk[b].nTx
    /\ up => /\ Headed(idx)
             /\ \A b \in Block :
                  /\ idxDisk[b].valid # 0 => idx[b].valid # 0
                  /\ idx[b].valid # 0 => b \in dirty \/ idxDisk[b].valid # 0
                  /\ idxDisk[b].nTx => idx[b].nTx
                  /\ idx[b].nTx => b \in dirty \/ idxDisk[b].nTx

\* The linked blocks are a tree of received blocks, and the tip, the candidates and
\* the blocks that threads work towards are in it.
LinkedInv ==
    up => /\ linked \in Closed /\ Genesis \in linked /\ \A b \in linked : idx[b].nTx
          /\ cands \subseteq linked /\ tip \in linked
          /\ \A t \in Thread : Working(t) => mostWork[t] \in linked
          /\ unlinked \subseteq Block \ {Genesis} /\ \A b \in unlinked : idx[b].nTx

\* A block with data and without an invalid ancestor waits for a parent that is not
\* linked itself, and is linked with it; a block waits only while its parent has no data
\* or waits too.
WaitInv ==
    up /\ Unreconsidered => \A b \in Block \ {Genesis} : NoInvalid(b) =>
        /\ idx[b].data /\ b \notin linked => b \in unlinked /\ Parent[b] \notin linked
        /\ b \in unlinked /\ idx[Parent[b]].data => Parent[b] \in unlinked

LinkInv == KnownInv /\ LinkedInv /\ WaitInv

\* The ancestors of a linked block are linked, and have been received.
LEMMA LinkedSeen ==
    ASSUME Typed, LinkedInv, up, NEW b \in linked
    PROVE  b \in Block /\ Ancestors[b] \subseteq linked /\ Seen(b)
<1>1. b \in Block /\ Ancestors[b] \subseteq linked
  BY AncestorsLeast DEF LinkedInv, Typed
<1> QED
  BY <1>1 DEF LinkedInv, Seen

LEMMA InvLost == Inv /\ LinkInv => NoBlockLost
<1> SUFFICES ASSUME Inv, LinkInv PROVE NoBlockLost
  OBVIOUS
<1>1. Typed /\ LinkedInv /\ KnownInv /\ WaitInv
  BY DEF Inv, LinkInv
<1>2. ASSUME up, NEW b \in Block, b \in linked PROVE Seen(b)
  BY <1>1, <1>2, LinkedSeen
<1>3. ASSUME up, NEW b \in Block, Seen(b), NoInvalid(b), Unreconsidered,
             AllData(b) \/ "prune" \notin scene.events
      PROVE  b \in linked
  <2> SUFFICES ASSUME b \notin linked PROVE FALSE
    OBVIOUS
  <2> DEFINE S == {a \in Ancestors[b] : a \notin linked}
  <2>1. Ancestors[b] \subseteq Block /\ b \in S
    BY AncestorsClosed
  <2>2. ASSUME NEW a \in S \ {Genesis} PROVE Parent[a] \in S
    <3>1. a \in Block /\ Parent[a] \in Ancestors[b]
      BY <2>1, AncestorsClosed DEF Closed
    <3>2. idx[a].data
      BY <1>1, <1>3, <3>1 DEF AllData, Seen, KnownInv, Headed
    <3>3. NoInvalid(a)
      BY <1>3, AncestorsTransitive DEF NoInvalid
    <3> QED
      BY <1>1, <1>3, <3>1, <3>2, <3>3 DEF WaitInv
  <2>3. S \in Closed
    BY <2>1, <2>2 DEF Closed
  <2>4. Genesis \in S
    BY <2>1, <2>3, AncestorsLeast, RootAssumption
  <2> QED
    BY <1>1, <1>3, <2>4 DEF LinkedInv
<1>4. ASSUME up, NEW b \in Block, Unreconsidered, idx[b].data, ~ Seen(b), NoInvalid(b)
      PROVE  b \in unlinked
  BY <1>1, <1>2, <1>4 DEF WaitInv, LinkedInv
<1>5. ASSUME up, NEW b \in Block, Unreconsidered, AllData(b), NoInvalid(b)
      PROVE  b \notin unlinked
  <2> SUFFICES ASSUME b \in unlinked PROVE FALSE
    OBVIOUS
  <2> DEFINE S == {a \in Ancestors[b] : a \in unlinked}
  <2>1. Ancestors[b] \subseteq Block /\ b \in S
    BY AncestorsClosed
  <2>2. ASSUME NEW a \in S \ {Genesis} PROVE Parent[a] \in S
    <3>1. a \in Block /\ Parent[a] \in Ancestors[b]
      BY <2>1, AncestorsClosed DEF Closed
    <3>2. idx[Parent[a]].data
      BY <1>5, <3>1 DEF AllData
    <3>3. NoInvalid(a)
      BY <1>5, AncestorsTransitive DEF NoInvalid
    <3> QED
      BY <1>1, <1>5, <3>1, <3>2, <3>3 DEF WaitInv
  <2>3. S \in Closed
    BY <2>1, <2>2 DEF Closed
  <2>4. Genesis \in S
    BY <2>1, <2>3, AncestorsLeast, RootAssumption
  <2> QED
    BY <1>1, <1>5, <2>4 DEF LinkedInv
<1>6. LinkedExactly
  BY <1>2, <1>3 DEF LinkedExactly, Known
<1>7. UnlinkedFindable
  BY <1>4, <1>5 DEF UnlinkedFindable, Known, Quiet, Running
<1> QED
  BY <1>6, <1>7 DEF NoBlockLost

(***************************************************************************)
(* What a step on the index does to these.                                 *)
(***************************************************************************)
\* Only blocks of D become known or are received; nothing is forgotten.
Grown(D) ==
    \A b \in Block : /\ idx[b].valid # 0 => idx'[b].valid # 0
                     /\ idx'[b].valid # 0 => b \in D \/ idx[b].valid # 0
                     /\ idx[b].nTx => idx'[b].nTx
                     /\ idx'[b].nTx => b \in D \/ idx[b].nTx

LinkStep(D) ==
    /\ up /\ up' /\ ~ flushing /\ scene' = scene /\ idx' \in [Block -> Entry]
    /\ D \subseteq Block /\ Grown(D) /\ Headed(idx') /\ Flushed(dirty \cup D)

LEMMA KnownStep ==
    ASSUME Typed, KnownInv, NEW D, LinkStep(D)
    PROVE  KnownInv'
<1>1. /\ up /\ up' /\ scene' = scene /\ Grown(D) /\ Headed(idx')
      /\ Headed(idx) /\ Headed(idxDisk) /\ tipDisk' = tipDisk
      /\ \/ idxDisk' = idxDisk /\ dirty' = dirty \cup D
         \/ \A b \in Block :
               idxDisk'[b] = IF b \in dirty \cup D THEN idx'[b] ELSE idxDisk[b]
  BY WrittenEntries DEF LinkStep, KnownInv
<1>2. \A b \in Block : /\ idxDisk[b].valid # 0 => idx[b].valid # 0
                       /\ idx[b].valid # 0 => b \in dirty \/ idxDisk[b].valid # 0
                       /\ idxDisk[b].nTx => idx[b].nTx
                       /\ idx[b].nTx => b \in dirty \/ idxDisk[b].nTx
  BY <1>1 DEF KnownInv
<1>3. \A b \in Block : /\ idxDisk[b].valid # 0 => idx'[b].valid # 0
                       /\ idx'[b].valid # 0 => b \in dirty \cup D \/ idxDisk[b].valid # 0
                       /\ idxDisk[b].nTx => idx'[b].nTx
                       /\ idx'[b].nTx => b \in dirty \cup D \/ idxDisk[b].nTx
  BY <1>1, <1>2 DEF Grown
<1>4. \A b \in Ancestors[tipDisk] : b \in Block /\ idxDisk[b].nTx
  BY AncestorsClosed DEF KnownInv, Typed
<1>5. CASE idxDisk' = idxDisk /\ dirty' = dirty \cup D
  BY <1>1, <1>3, <1>4, <1>5, ZenonT(60) DEF KnownInv, Headed
<1>6. CASE \A b \in Block :
               idxDisk'[b] = IF b \in dirty \cup D THEN idx'[b] ELSE idxDisk[b]
  <2>1. \A b \in Block : /\ idxDisk'[b].valid # 0 <=> idx'[b].valid # 0
                         /\ idxDisk'[b].nTx <=> idx'[b].nTx
    BY <1>3, <1>6
  <2>2. Headed(idxDisk')
    <3> SUFFICES ASSUME NEW b \in Block
                 PROVE  /\ idxDisk'[b].valid = 0 => idxDisk'[b] = NoEntry
                        /\ idxDisk'[b].valid # 0 /\ b # Genesis => idxDisk'[Parent[b]].valid # 0
                        /\ idxDisk'[b].nTx /\ "prune" \notin scene.events => idxDisk'[b].data
      BY DEF Headed
    <3>1. b # Genesis => Parent[b] \in Block
      BY TreeAssumption
    <3>2. idxDisk'[b] = idx'[b] \/ idxDisk'[b] = idxDisk[b]
      BY <1>6
    <3>3. idxDisk'[b].valid # 0 /\ b # Genesis => idxDisk'[Parent[b]].valid # 0
      BY <1>1, <2>1, <3>1 DEF Headed
    <3> QED
      BY <1>1, <3>2, <3>3 DEF Headed
  <2>3. \A b \in Ancestors[tipDisk'] : idxDisk'[b].nTx
    BY <1>1, <1>3, <1>4, <2>1
  <2> QED
    BY <1>1, <2>1, <2>2, <2>3, ZenonT(60) DEF KnownInv, Headed
<1> QED
  BY <1>1, <1>5, <1>6

\* A step that neither links blocks nor makes them wait.
LEMMA CalmLinks ==
    ASSUME Typed, LinkInv, NEW D, LinkStep(D), linked' = linked, unlinked' = unlinked,
           cands' \subseteq linked, tip' \in linked,
           \A t \in Thread : Working(t)' => mostWork'[t] \in linked,
           Unreconsidered => \A b \in Block :
              /\ idx'[b].data <=> idx[b].data
              /\ "VALID" \in idx[b].failed => "VALID" \in idx'[b].failed
    PROVE  LinkInv'
<1>1. KnownInv /\ LinkedInv /\ WaitInv /\ up /\ up' /\ scene' = scene /\ Grown(D)
  BY DEF LinkInv, LinkStep
<1>2. LinkedInv'
  BY <1>1 DEF LinkedInv, Grown, Typed
<1>3. WaitInv'
  <2> SUFFICES ASSUME Unreconsidered, NEW b \in Block \ {Genesis}, NoInvalid(b)'
               PROVE  /\ idx'[b].data /\ b \notin linked => b \in unlinked /\ Parent[b] \notin linked
                      /\ b \in unlinked /\ idx'[Parent[b]].data => Parent[b] \in unlinked
    BY <1>1 DEF WaitInv, Unreconsidered
  <2>1. NoInvalid(b) /\ Parent[b] \in Block
    BY AncestorsClosed, TreeAssumption DEF NoInvalid
  <2> QED
    BY <1>1, <2>1 DEF WaitInv
<1> QED
  BY <1>1, <1>2, <1>3, KnownStep DEF LinkInv

\* Entries that are marked, cleared, raised or pruned stay known and received.
LEMMA SameHeaders ==
    ASSUME Typed, KnownInv, up, NEW D,
           \A b \in Block :
              \/ idx'[b] = idx[b]
              \/ /\ idx[b].valid # 0 /\ idx'[b].valid # 0 /\ (idx'[b].nTx <=> idx[b].nTx)
                 /\ "prune" \notin scene.events => (idx'[b].data <=> idx[b].data)
    PROVE  Headed(idx') /\ Grown(D)
<1>1. Headed(idx)
  BY DEF KnownInv
<1>2. \A b \in Block : /\ idx'[b].valid # 0 <=> idx[b].valid # 0
                       /\ idx'[b].nTx <=> idx[b].nTx
  OBVIOUS
<1>3. Grown(D)
  BY <1>2 DEF Grown
<1>4. ASSUME NEW b \in Block
      PROVE  /\ idx'[b].valid = 0 => idx'[b] = NoEntry
             /\ idx'[b].valid # 0 /\ b # Genesis => idx'[Parent[b]].valid # 0
             /\ idx'[b].nTx /\ "prune" \notin scene.events => idx'[b].data
  <2>1. b # Genesis => Parent[b] \in Block
    BY TreeAssumption
  <2>2. idx'[b].valid # 0 /\ b # Genesis => idx'[Parent[b]].valid # 0
    BY <1>1, <1>2, <2>1 DEF Headed
  <2> QED
    BY <1>1, <2>2 DEF Headed
<1> QED
  BY <1>3, <1>4 DEF Headed

\* A linked block is known.
LEMMA LinkedKnown ==
    ASSUME Typed, KnownInv, LinkedInv, up, NEW c \in linked, NEW b \in Ancestors[c]
    PROVE  b \in Block /\ b \in linked /\ idx[b].nTx /\ idx[b].valid # 0
<1>1. b \in linked /\ b \in Block /\ idx[b].nTx
  BY LinkedSeen DEF Typed, Seen
<1>2. idx[b].valid = 0 => idx[b] = NoEntry
  BY <1>1 DEF KnownInv, Headed
<1> QED
  BY <1>1, <1>2, FixedEntries

\* One block gets a header, its data or a mark.
LEMMA OneHeader ==
    ASSUME Typed, KnownInv, up, NEW b \in Block \ {Genesis}, NEW D,
           idx[Parent[b]].valid # 0,
           \A c \in Block \ {b} : idx'[c] = idx[c],
           idx'[b].valid # 0, b \in D \/ idx[b].valid # 0,
           idx[b].nTx => idx'[b].nTx, idx'[b].nTx => b \in D \/ idx[b].nTx,
           idx'[b].nTx /\ "prune" \notin scene.events => idx'[b].data
    PROVE  Headed(idx') /\ Grown(D)
<1>1. Headed(idx)
  BY DEF KnownInv
<1>2. \A c \in Block : idx[c].valid # 0 => idx'[c].valid # 0
  OBVIOUS
<1>3. Grown(D)
  BY <1>2 DEF Grown
<1>4. ASSUME NEW c \in Block
      PROVE  /\ idx'[c].valid = 0 => idx'[c] = NoEntry
             /\ idx'[c].valid # 0 /\ c # Genesis => idx'[Parent[c]].valid # 0
             /\ idx'[c].nTx /\ "prune" \notin scene.events => idx'[c].data
  <2>1. c # Genesis => Parent[c] \in Block
    BY TreeAssumption
  <2>2. idx'[c].valid # 0 /\ c # Genesis => idx[Parent[c]].valid # 0
    BY <1>1 DEF Headed
  <2> QED
    BY <1>1, <1>2, <2>1, <2>2 DEF Headed
<1> QED
  BY <1>3, <1>4 DEF Headed

\* A header is accepted on top of a known one.
LEMMA HeaderShape ==
    ASSUME Typed, KnownInv, up, NEW b \in Block \ {Genesis}, HeaderOK(b)
    PROVE  /\ WithHeader(b)[b].valid # 0 /\ idx[Parent[b]].valid # 0
           /\ b \in Known => WithHeader(b)[b] = idx[b] /\ idx[b].valid # 0
           /\ b \notin Known => ~ WithHeader(b)[b].nTx
<1>1. Headed(idx) /\ idx \in [Block -> Entry] /\ Parent[b] \in Block
  BY TreeAssumption DEF KnownInv, Typed
<1>2. \A c \in Known : idx[c].valid # 0
  BY <1>1 DEF Known, Headed
<1>3. CASE b \in Known
  BY <1>1, <1>2, <1>3 DEF WithHeader, Headed
<1>4. CASE b \notin Known
  <2>1. Parent[b] \in Known
    BY <1>4 DEF HeaderOK
  <2>2. WithHeader(b)[b] = HeaderEntry
    BY <1>1, <1>4 DEF WithHeader
  <2>3. HeaderEntry.valid # 0
    BY SMTT(30) DEF HeaderEntry, NoEntry, TREE
  <2> QED
    BY <1>2, <1>4, <2>1, <2>2, <2>3, FixedEntries
<1> QED
  BY <1>3, <1>4

LEMMA AcceptBlockHeaderLinks ==
    ASSUME Inv, LinkInv, scene' = scene, NEW t \in scene.threads,
           NEW b \in Block \ {Genesis}, AcceptBlockHeader(t, b)
    PROVE  LinkInv'
<1>1. Typed /\ IndexInv /\ KnownInv /\ LinkedInv
  BY DEF Inv, LinkInv
<1>2. /\ up /\ up' = up /\ ~ flushing /\ HeaderOK(b) /\ b \notin Known
      /\ idx' = WithHeader(b) /\ dirty' = dirty \cup {b} /\ UNCHANGED disk
      /\ UNCHANGED <<linked, unlinked, cands, tip, pc, mostWork>>
  BY DEF AcceptBlockHeader, Idle, Running, control
<1>3. /\ idx' \in [Block -> Entry] /\ \A c \in Block \ {b} : idx'[c] = idx[c]
      /\ idx'[b].failed = idx[b].failed
      /\ idx'[b].nTx = idx[b].nTx /\ idx'[b].data = idx[b].data
  BY <1>1, <1>2, HeaderAdded
<1>4. idx'[b].valid # 0 /\ idx[Parent[b]].valid # 0 /\ ~ idx'[b].nTx
  BY <1>1, <1>2, HeaderShape
<1>5. LinkStep({b})
  <2>1. Headed(idx') /\ Grown({b})
    BY <1>1, <1>2, <1>3, <1>4, OneHeader
  <2> QED
    BY <1>2, <1>3, <2>1 DEF LinkStep, Flushed
<1>6. \A u \in Thread : Working(u)' => mostWork'[u] \in linked
  BY <1>1, <1>2 DEF LinkedInv, Working
<1> QED
  BY <1>1, <1>2, <1>3, <1>5, <1>6, CalmLinks DEF LinkedInv

\* A step that leaves the index in memory as it is.
LEMMA SameIndexLinks ==
    ASSUME Inv, LinkInv, up, up', ~ flushing, scene' = scene, idx' = idx, Flushed(dirty),
           linked' = linked, unlinked' = unlinked, cands' \subseteq linked, tip' \in linked,
           \A u \in Thread : Working(u)' => Working(u) /\ mostWork'[u] = mostWork[u]
    PROVE  LinkInv'
<1>1. Typed /\ KnownInv /\ LinkedInv
  BY DEF Inv, LinkInv
<1>2. dirty \cup {} = dirty
  OBVIOUS
<1>3. LinkStep({})
  BY <1>1, <1>2, SameHeaders DEF LinkStep, Typed
<1> QED
  BY <1>1, <1>3, CalmLinks DEF LinkedInv

LEMMA StepDisconnectLinks ==
    ASSUME Inv, LinkInv, scene' = scene, NEW t \in scene.threads, StepDisconnect(t)
    PROVE  LinkInv'
<1>1. Typed /\ LinkedInv /\ \A u \in Thread : ThreadInv(u)
  BY DEF Inv, LinkInv
<1>2. /\ up /\ up' = up /\ ~ flushing /\ pc[t] = "step" /\ cands' = cands
      /\ tip \notin Ancestors[mostWork[t]] /\ DisconnectTip(idx, dirty)
  BY DEF StepDisconnect, Holds, Running
<1>3. t \in Thread /\ mostWork[t] \in Block
  BY <1>1, <1>2, TreeAssumption DEF Typed, ThreadInv
<1>4. tip # Genesis
  BY <1>2, <1>3, RootAssumption
<1>5. /\ idx' = idx /\ linked' = linked /\ unlinked' = unlinked
      /\ Flushed(dirty) /\ tip' = Parent[tip]
  BY <1>2, DisconnectTipFlushes DEF DisconnectTip
<1>6. cands' \subseteq linked /\ tip' \in linked
  BY <1>1, <1>2, <1>4, <1>5 DEF LinkedInv, Closed
<1>7. \A u \in Thread : Working(u)' => Working(u) /\ mostWork'[u] = mostWork[u]
  <2>1. /\ \A u \in Thread \ {t} : pc'[u] = pc[u] /\ mostWork'[u] = mostWork[u]
        /\ mostWork'[t] \in {NoBlock, mostWork[t]}
    BY <1>1, <1>2, <1>3 DEF StepDisconnect, AfterStep, Leave, Release, Typed
  <2> QED
    BY <1>2, <2>1 DEF Working
<1> QED
  BY <1>2, <1>5, <1>6, <1>7, SameIndexLinks

LEMMA StepConnectLinks ==
    ASSUME Inv, LinkInv, scene' = scene, NEW t \in scene.threads, StepConnect(t)
    PROVE  LinkInv'
<1> DEFINE b == ToConnect(t)
           need == ~ idx[b].undo \/ ~ IsValid(idx[b], SCRIPTS)
           f == IF need THEN RaiseValidity([idx[b] EXCEPT !.undo = TRUE], SCRIPTS) ELSE idx[b]
           D == IF need THEN {b} ELSE {}
<1>1. Typed /\ KnownInv /\ LinkedInv /\ \A u \in Thread : ThreadInv(u)
  BY DEF Inv, LinkInv
<1>2. /\ up /\ up' = up /\ ~ flushing /\ pc[t] = "step"
      /\ tip \in Ancestors[mostWork[t]] /\ tip # mostWork[t]
      /\ tip' = b /\ linked' = linked /\ unlinked' = unlinked
      /\ cands' = PruneBlockIndexCandidates(b)
  BY DEF StepConnect, Holds, Running
<1>3. t \in Thread /\ mostWork[t] \in Block /\ Working(t)
  BY <1>1, <1>2, TreeAssumption DEF Typed, ThreadInv, Working
<1>4. b \in Ancestors[mostWork[t]] /\ b \in Block
  BY <1>2, <1>3, ToConnectFound
<1>5. b \in linked /\ idx[b].valid # 0 /\ idx[b] \in Entry
  <2>1. mostWork[t] \in linked
    BY <1>1, <1>2, <1>3 DEF LinkedInv
  <2> QED
    BY <1>1, <1>2, <1>4, <2>1, LinkedKnown DEF Typed
<1>6. idx' = [idx EXCEPT ![b] = f] /\ Flushed(dirty \cup D)
  <2>1. /\ idx' = [idx EXCEPT ![b] = IF need
                     THEN RaiseValidity([@ EXCEPT !.undo = TRUE], SCRIPTS) ELSE @]
        /\ FlushIfNeeded(idx', IF need THEN dirty \cup {b} ELSE dirty)
    BY DEF StepConnect
  <2>2. (IF need THEN dirty \cup {b} ELSE dirty) = dirty \cup D
    OBVIOUS
  <2>3. idx' = [idx EXCEPT ![b] = f]
    BY <1>1, <1>4, <2>1 DEF Typed
  <2>4. Flushed(dirty \cup D)
    BY <2>1, <2>2 DEF FlushIfNeeded, Flushed
  <2> QED
    BY <2>3, <2>4
<1>7. /\ f \in Entry /\ f.failed = idx[b].failed /\ f.nTx = idx[b].nTx
      /\ f.data = idx[b].data /\ f.valid # 0
  <2>1. CASE need
    <3> DEFINE g == [idx[b] EXCEPT !.undo = TRUE]
    <3>1. /\ g \in Entry /\ g.failed = idx[b].failed /\ g.valid = idx[b].valid
          /\ g.nTx = idx[b].nTx /\ g.data = idx[b].data
      BY <1>5, UndoFields
    <3>2. f = RaiseValidity(g, SCRIPTS)
      BY <2>1
    <3> HIDE DEF g, f, need
    <3> QED
      BY <1>5, <3>1, <3>2, RaiseFields
  <2>2. CASE ~ need
    BY <1>5, <2>2
  <2> QED
    BY <2>1, <2>2
<1> HIDE DEF f, need
<1>8. /\ idx' \in [Block -> Entry] /\ idx'[b] = f
      /\ \A c \in Block \ {b} : idx'[c] = idx[c]
  BY <1>1, <1>4, <1>6, <1>7 DEF Typed
<1>9. LinkStep(D)
  <2>1. D \subseteq Block
    BY <1>4
  <2> HIDE DEF D, b
  <2>2. Headed(idx') /\ Grown(D)
    BY <1>1, <1>2, <1>5, <1>7, <1>8, SameHeaders
  <2> QED
    BY <1>2, <1>6, <1>8, <2>1, <2>2 DEF LinkStep
<1>10. \A u \in Thread : Working(u)' => Working(u) /\ mostWork'[u] = mostWork[u]
  <2>1. AfterStep(t, b) \/ UNCHANGED <<holder, pc, mostWork, nested>>
    BY DEF StepConnect
  <2>2. /\ \A u \in Thread \ {t} : pc'[u] = pc[u] /\ mostWork'[u] = mostWork[u]
        /\ mostWork'[t] \in {NoBlock, mostWork[t]}
    BY <1>1, <1>3, <2>1 DEF AfterStep, Leave, Release, Typed
  <2> QED
    BY <1>3, <2>2 DEF Working
<1> HIDE DEF D, b
<1>11. \A c \in Block : idx'[c].data = idx[c].data /\ idx'[c].failed = idx[c].failed
  BY <1>7, <1>8
<1>12. cands' \subseteq linked
  BY <1>1, <1>2 DEF LinkedInv, PruneBlockIndexCandidates
<1> QED
  BY <1>1, <1>2, <1>5, <1>9, <1>10, <1>11, <1>12, CalmLinks DEF LinkedInv

\* A step that marks one block.
LEMMA MarkLinks ==
    ASSUME Inv, LinkInv, up, up', ~ flushing, scene' = scene, NEW b \in Block,
           idx[b].valid # 0, NEW flag \in {"VALID", "CHILD"},
           idx' = [idx EXCEPT ![b] = Mark(@, flag)], Flushed(dirty \cup {b}),
           linked' = linked, unlinked' = unlinked, cands' \subseteq linked, tip' \in linked,
           \A u \in Thread : Working(u)' => Working(u) /\ mostWork'[u] = mostWork[u]
    PROVE  LinkInv'
<1>1. Typed /\ KnownInv /\ LinkedInv
  BY DEF Inv, LinkInv
<1>2. /\ idx' \in [Block -> Entry] /\ \A c \in Block \ {b} : idx'[c] = idx[c]
      /\ idx'[b].valid # 0 /\ idx[b].failed \subseteq idx'[b].failed
      /\ idx'[b].nTx = idx[b].nTx /\ idx'[b].data = idx[b].data
  <2>1. idx[b] \in Entry
    BY <1>1 DEF Typed
  <2>2. PICK f : f = Mark(idx[b], flag)
    OBVIOUS
  <2>3. /\ f \in Entry /\ f.failed = idx[b].failed \cup {flag} /\ f.valid = idx[b].valid
        /\ f.nTx = idx[b].nTx /\ f.data = idx[b].data
    BY <2>1, <2>2, MarkFields
  <2>4. idx' = [idx EXCEPT ![b] = f]
    BY <1>1, <2>2 DEF Typed
  <2>5. idx' \in [Block -> Entry] /\ idx'[b] = f /\ \A c \in Block \ {b} : idx'[c] = idx[c]
    BY <1>1, <2>3, <2>4 DEF Typed
  <2> QED
    BY <2>3, <2>5
<1>3. LinkStep({b})
  <2>1. Headed(idx') /\ Grown({b})
    BY <1>1, <1>2, SameHeaders
  <2> QED
    BY <1>2, <2>1 DEF LinkStep
<1>4. \A c \in Block : idx'[c].data = idx[c].data /\ idx[c].failed \subseteq idx'[c].failed
  BY <1>2
<1>5. \A u \in Thread : Working(u)' => mostWork'[u] \in linked
  BY <1>1 DEF LinkedInv
<1> QED
  BY <1>1, <1>3, <1>4, <1>5, CalmLinks

\* A thread that acts while the others stay, and settles on no chain.
LEMMA NoNewWork ==
    ASSUME Typed, NEW t \in Thread, NEW w, NEW m, ~ (w \in {"loop", "step"} /\ m # NoBlock),
           pc' = [pc EXCEPT ![t] = w], mostWork' = [mostWork EXCEPT ![t] = m]
    PROVE  \A u \in Thread : Working(u)' => Working(u) /\ mostWork'[u] = mostWork[u]
<1>1. /\ \A u \in Thread \ {t} : pc'[u] = pc[u] /\ mostWork'[u] = mostWork[u]
      /\ pc'[t] = w /\ mostWork'[t] = m
  BY DEF Typed
<1> QED
  BY <1>1 DEF Working

LEMMA StepInvalidLinks ==
    ASSUME Inv, LinkInv, scene' = scene, NEW t \in scene.threads, StepInvalid(t)
    PROVE  LinkInv'
<1> DEFINE b == ToConnect(t)
<1>1. Typed /\ KnownInv /\ LinkedInv /\ \A u \in Thread : ThreadInv(u)
  BY DEF Inv, LinkInv
<1>2. /\ up /\ up' = up /\ ~ flushing /\ pc[t] = "step"
      /\ tip \in Ancestors[mostWork[t]] /\ tip # mostWork[t]
      /\ idx' = [idx EXCEPT ![b] = Mark(@, "VALID")] /\ dirty' = dirty \cup {b}
      /\ cands' = cands \ {b} /\ tip' = tip /\ linked' = linked /\ unlinked' = unlinked
      /\ UNCHANGED disk
      /\ mostWork' = [mostWork EXCEPT ![t] = NoBlock]
      /\ pc' = [pc EXCEPT ![t] = "loop"]
  BY DEF StepInvalid, Holds, Running
<1>3. t \in Thread /\ mostWork[t] \in Block /\ Working(t)
  BY <1>1, <1>2, TreeAssumption DEF Typed, ThreadInv, Working
<1>4. b \in Ancestors[mostWork[t]]
  BY <1>2, <1>3, ToConnectFound
<1> HIDE DEF b
<1>5. b \in Block /\ idx[b].valid # 0
  <2>1. mostWork[t] \in linked
    BY <1>1, <1>2, <1>3 DEF LinkedInv
  <2> QED
    BY <1>1, <1>2, <1>4, <2>1, LinkedKnown
<1>6. \A u \in Thread : Working(u)' => Working(u) /\ mostWork'[u] = mostWork[u]
  BY <1>1, <1>2, <1>3, NoNewWork
<1>7. Flushed(dirty \cup {b})
  BY <1>2 DEF Flushed
<1> QED
  BY <1>1, <1>2, <1>5, <1>6, <1>7, MarkLinks DEF LinkedInv

LEMMA InvalidateBlockLinks ==
    ASSUME Inv, LinkInv, scene' = scene, NEW t \in scene.threads, NEW b \in Block,
           InvalidateBlock(t, b)
    PROVE  LinkInv'
<1>1. Typed /\ KnownInv /\ LinkedInv
  BY DEF Inv, LinkInv
<1>2. /\ up /\ up' = up /\ ~ flushing /\ b \in Known
      /\ idx' = [idx EXCEPT ![b] = Mark(@, "VALID")] /\ dirty' = dirty \cup {b}
      /\ cands' = cands \ {b} /\ tip' = tip /\ linked' = linked /\ unlinked' = unlinked
      /\ UNCHANGED disk
      /\ mostWork' = [mostWork EXCEPT ![t] = b] /\ pc' = [pc EXCEPT ![t] = "invalidate"]
  BY DEF InvalidateBlock, Idle, Running
<1>3. t \in Thread
  BY <1>1, TreeAssumption DEF Typed
<1>4. idx[b].valid # 0
  BY <1>1, <1>2 DEF KnownInv, Headed, Known
<1>5. \A u \in Thread : Working(u)' => Working(u) /\ mostWork'[u] = mostWork[u]
  BY <1>1, <1>2, <1>3, NoNewWork
<1>6. Flushed(dirty \cup {b})
  BY <1>2 DEF Flushed
<1> QED
  BY <1>1, <1>2, <1>4, <1>5, <1>6, MarkLinks DEF LinkedInv

LEMMA InvalidateDisconnectLinks ==
    ASSUME Inv, LinkInv, scene' = scene, NEW t \in scene.threads, InvalidateDisconnect(t)
    PROVE  LinkInv'
<1>1. Typed /\ KnownInv /\ LinkedInv /\ \A u \in Thread : ThreadInv(u)
  BY DEF Inv, LinkInv
<1>2. /\ up /\ up' = up /\ ~ flushing /\ pc[t] = "invalidate"
      /\ mostWork[t] \in Ancestors[tip] /\ cands' = cands \ {tip}
      /\ DisconnectTip([idx EXCEPT ![tip] = Mark(@, "CHILD")], dirty \cup {tip})
      /\ UNCHANGED <<pc, mostWork>>
  BY DEF InvalidateDisconnect, Holds, Running, control, Active
<1>3. t \in Thread /\ tip \in Block /\ mostWork[t] # Genesis
  BY <1>1, <1>2, TreeAssumption DEF Typed, ThreadInv
<1>4. tip # Genesis
  BY <1>2, <1>3, AncestorsOfGenesis
<1>5. /\ idx' = [idx EXCEPT ![tip] = Mark(@, "CHILD")] /\ linked' = linked
      /\ unlinked' = unlinked /\ Flushed(dirty \cup {tip}) /\ tip' = Parent[tip]
  BY <1>2, DisconnectTipFlushes DEF DisconnectTip
<1>6. tip' \in linked /\ idx[tip].valid # 0
  <2>1. tip \in linked /\ tip \in Ancestors[tip]
    BY <1>1, <1>2, <1>3, AncestorsClosed DEF LinkedInv
  <2> QED
    BY <1>1, <1>2, <1>4, <1>5, <2>1, LinkedKnown DEF LinkedInv, Closed
<1>7. \A u \in Thread : Working(u)' => Working(u) /\ mostWork'[u] = mostWork[u]
  BY <1>2 DEF Working
<1>8. cands' \subseteq linked
  BY <1>1, <1>2 DEF LinkedInv
<1> QED
  BY <1>2, <1>3, <1>5, <1>6, <1>7, <1>8, MarkLinks

LEMMA InvalidateEndLinks ==
    ASSUME Inv, LinkInv, scene' = scene, NEW t \in scene.threads, InvalidateEnd(t)
    PROVE  LinkInv'
<1>1. Typed /\ LinkedInv
  BY DEF Inv, LinkInv
<1>2. /\ up /\ up' = up /\ ~ flushing /\ cands' = cands \cup NowGoodEnough
      /\ idx' = idx /\ dirty' = dirty /\ tip' = tip /\ linked' = linked
      /\ unlinked' = unlinked /\ UNCHANGED disk
      /\ mostWork' = [mostWork EXCEPT ![t] = NoBlock]
      /\ pc' = [pc EXCEPT ![t] = "loop"]
  BY DEF InvalidateEnd, Holds, Running, Release
<1>3. t \in Thread
  BY <1>1, TreeAssumption DEF Typed
<1>4. cands' \subseteq linked /\ tip' \in linked
  BY <1>1, <1>2 DEF LinkedInv, NowGoodEnough
<1>5. \A u \in Thread : Working(u)' => Working(u) /\ mostWork'[u] = mostWork[u]
  BY <1>1, <1>2, <1>3, NoNewWork
<1>6. Flushed(dirty)
  BY <1>2 DEF Flushed
<1> QED
  BY <1>2, <1>4, <1>5, <1>6, SameIndexLinks

\* ReconsiderBlock clears marks; the blocks it makes candidates are linked.
LEMMA ReconsideredLinks ==
    ASSUME Inv, LinkInv, up, up', ~ flushing, scene' = scene, ~ Unreconsidered,
           NEW b \in Block, Reconsidered(b), UNCHANGED disk,
           linked' = linked, unlinked' = unlinked, tip' = tip,
           \A u \in Thread : Working(u)' => Working(u) /\ mostWork'[u] = mostWork[u]
    PROVE  LinkInv'
<1> DEFINE below == {d \in Known : b \in Ancestors[d] /\ Failed(d)}
           cleared == below \cup {a \in Ancestors[b] : Failed(a)}
<1>1. Typed /\ KnownInv /\ LinkedInv
  BY DEF Inv, LinkInv
<1>2. /\ idx' = [d \in Block |-> IF d \in cleared THEN [idx[d] EXCEPT !.failed = {}]
                                 ELSE idx[d]]
      /\ dirty' = dirty \cup cleared
      /\ cands' \subseteq cands \cup linked
  BY DEF Reconsidered
<1>3. cleared \subseteq Block /\ \A d \in cleared : idx[d].failed # {}
  BY AncestorsClosed DEF Known, Failed
<1> HIDE DEF below, cleared
<1>4. ASSUME NEW d \in cleared PROVE idx[d].valid # 0
  <2>1. idx[d].valid = 0 => idx[d] = NoEntry
    BY <1>1, <1>3 DEF KnownInv, Headed
  <2> QED
    BY <1>3, <2>1, FixedEntries
<1>5. ASSUME NEW d \in Block
      PROVE  LET f == [idx[d] EXCEPT !.failed = {}]
             IN  /\ f \in Entry /\ f.valid = idx[d].valid /\ f.nTx = idx[d].nTx
                 /\ f.data = idx[d].data
  <2>1. idx[d] \in Entry
    BY <1>1 DEF Typed
  <2> QED
    BY <2>1, ClearFields
<1>6. idx' \in [Block -> Entry]
  BY <1>1, <1>2, <1>5 DEF Typed
<1>7. LinkStep(cleared)
  <2>1. \A d \in Block :
           \/ idx'[d] = idx[d]
           \/ /\ idx[d].valid # 0 /\ idx'[d].valid # 0 /\ (idx'[d].nTx <=> idx[d].nTx)
              /\ "prune" \notin scene.events => (idx'[d].data <=> idx[d].data)
    BY <1>2, <1>4, <1>5
  <2>2. Headed(idx') /\ Grown(cleared)
    BY <1>1, <2>1, SameHeaders
  <2> QED
    BY <1>2, <1>3, <1>6, <2>2 DEF LinkStep, Flushed
<1> QED
  BY <1>1, <1>2, <1>7, CalmLinks DEF LinkedInv

LEMMA ReconsiderBlockLinks ==
    ASSUME Inv, LinkInv, scene' = scene, NEW t \in scene.threads, NEW b \in Block,
           ReconsiderBlock(t, b)
    PROVE  LinkInv'
<1>1. Typed /\ \A u \in Thread : ThreadInv(u)
  BY DEF Inv
<1>2. /\ up /\ up' = up /\ ~ flushing /\ pc[t] = "idle" /\ ~ Unreconsidered
      /\ Reconsidered(b) /\ UNCHANGED disk /\ mostWork' = mostWork
      /\ UNCHANGED <<linked, unlinked, tip>> /\ pc' = [pc EXCEPT ![t] = "loop"]
  BY DEF ReconsiderBlock, Idle, Running, Unreconsidered
<1>3. t \in Thread /\ mostWork[t] = NoBlock
  BY <1>1, <1>2, TreeAssumption DEF Typed, ThreadInv
<1>4. \A u \in Thread : Working(u)' => Working(u) /\ mostWork'[u] = mostWork[u]
  BY <1>1, <1>2, <1>3 DEF Working, Typed
<1> QED
  BY <1>2, <1>4, ReconsideredLinks

LEMMA ReprocessBlockLinks ==
    ASSUME Inv, LinkInv, scene' = scene, NEW t \in scene.threads, NEW b \in Block,
           ReprocessBlock(t, b)
    PROVE  LinkInv'
<1>1. Typed /\ \A u \in Thread : ThreadInv(u)
  BY DEF Inv
<1>2. /\ up /\ up' = up /\ ~ flushing /\ pc[t] = "reprocess" /\ Reconsidered(b)
      /\ UNCHANGED <<linked, unlinked, tip, pc, mostWork>> /\ UNCHANGED disk
  BY DEF ReprocessBlock, Holds, Running
<1>3. ~ Unreconsidered
  BY <1>1, <1>2, TreeAssumption DEF Typed, ThreadInv, Unreconsidered
<1>4. \A u \in Thread : Working(u)' => Working(u) /\ mostWork'[u] = mostWork[u]
  BY <1>2 DEF Working
<1> QED
  BY <1>2, <1>3, <1>4, ReconsideredLinks

\* ReprocessBlocks begins, disconnects and ends, and FlushStateToDisk writes, without a
\* change of the index.
LEMMA ReprocessLinks ==
    ASSUME Inv, LinkInv, scene' = scene, NEW t \in scene.threads,
           \/ \E R, n : ReprocessBlocks(t, R, n)
           \/ DisconnectBlocks(t)
           \/ ReprocessEnd(t)
    PROVE  LinkInv'
<1>1. Typed /\ LinkedInv /\ \A u \in Thread : ThreadInv(u)
  BY DEF Inv, LinkInv
<1>2. t \in Thread
  BY <1>1, TreeAssumption DEF Typed
<1>3. ASSUME NEW w, w # "idle", pc[t] \in {"idle", "reprocess"},
             up, up' = up, ~ flushing, UNCHANGED <<idx, linked, unlinked, cands, mostWork>>,
             Flushed(dirty), tip' \in linked, pc' = pc \/ pc' = [pc EXCEPT ![t] = w]
      PROVE  LinkInv'
  <2>1. mostWork[t] = NoBlock
    BY <1>1, <1>2, <1>3 DEF ThreadInv
  <2>2. \A u \in Thread : Working(u)' => Working(u) /\ mostWork'[u] = mostWork[u]
    BY <1>1, <1>2, <1>3, <2>1 DEF Working, Typed
  <2> QED
    BY <1>1, <1>3, <2>2, SameIndexLinks DEF LinkedInv
<1>4. ASSUME NEW R, NEW n, ReprocessBlocks(t, R, n) PROVE LinkInv'
  <2>1. /\ up /\ up' = up /\ ~ flushing /\ pc[t] = "idle"
        /\ UNCHANGED <<idx, linked, unlinked, cands, tip, dirty, mostWork>> /\ UNCHANGED disk
        /\ pc' = [pc EXCEPT ![t] = "reprocess"]
    BY <1>4 DEF ReprocessBlocks, Idle, Running, tree
  <2> QED
    BY <1>1, <1>3, <2>1 DEF Flushed, LinkedInv
<1>5. ASSUME DisconnectBlocks(t) PROVE LinkInv'
  <2>1. /\ up /\ up' = up /\ ~ flushing /\ pc[t] = "reprocess" /\ tip # Genesis
        /\ DisconnectTip(idx, dirty) /\ UNCHANGED <<cands, pc, mostWork>>
    BY <1>5 DEF DisconnectBlocks, Holds, Running
  <2>2. UNCHANGED <<idx, linked, unlinked>> /\ Flushed(dirty) /\ tip' = Parent[tip]
    BY <2>1, DisconnectTipFlushes DEF DisconnectTip
  <2>3. tip' \in linked
    BY <1>1, <2>1, <2>2 DEF LinkedInv, Closed
  <2> QED
    BY <1>3, <2>1, <2>2, <2>3
<1>6. ASSUME ReprocessEnd(t) PROVE LinkInv'
  <2>1. /\ up /\ up' = up /\ ~ flushing /\ pc[t] = "reprocess"
        /\ UNCHANGED <<idx, linked, unlinked, cands, tip, dirty, mostWork>> /\ UNCHANGED disk
        /\ pc' = [pc EXCEPT ![t] = "loop"]
    BY <1>6 DEF ReprocessEnd, Holds, Running, tree
  <2> QED
    BY <1>1, <1>3, <2>1 DEF Flushed, LinkedInv
<1> QED
  BY <1>4, <1>5, <1>6

LEMMA FlushStateToDiskLinks ==
    ASSUME Inv, LinkInv, scene' = scene, NEW full \in BOOLEAN, FlushStateToDisk(full)
    PROVE  LinkInv'
<1>1. /\ up /\ up' = up /\ ~ flushing /\ idx' = idx /\ WriteIndex(idx', dirty, full)
      /\ UNCHANGED <<linked, unlinked, cands, tip, pc, mostWork>>
  BY DEF FlushStateToDisk, Running, control
<1>2. \A u \in Thread : Working(u)' => Working(u) /\ mostWork'[u] = mostWork[u]
  BY <1>1 DEF Working
<1>3. Flushed(dirty)
  BY <1>1 DEF Flushed
<1>4. cands' \subseteq linked /\ tip' \in linked
  BY <1>1 DEF LinkInv, LinkedInv
<1> QED
  BY <1>1, <1>2, <1>3, <1>4, SameIndexLinks

\* The index was written before the coins.
LEMMA FlushCoinsLinks ==
    ASSUME Inv, LinkInv, scene' = scene, FlushCoins
    PROVE  LinkInv'
<1>1. Typed /\ DownInv /\ KnownInv /\ LinkedInv /\ WaitInv
  BY DEF Inv, LinkInv
<1>2. /\ up /\ flushing /\ tipDisk' = tip
      /\ UNCHANGED <<idx, linked, unlinked, cands, tip, dirty, idxDisk, up>>
      /\ UNCHANGED <<pc, mostWork>>
  BY DEF FlushCoins, tree, control
<1>3. ASSUME NEW b \in Ancestors[tip] PROVE idxDisk[b].nTx
  <2>1. b \in Block /\ idx[b].nTx
    BY <1>1, <1>2, LinkedKnown DEF LinkedInv
  <2> QED
    BY <1>1, <1>2, <2>1 DEF KnownInv, DownInv
<1>4. KnownInv'
  BY <1>1, <1>2, <1>3 DEF KnownInv, Headed
<1>5. LinkedInv' /\ WaitInv'
  BY <1>1, <1>2 DEF LinkedInv, WaitInv, Working, Unreconsidered, NoInvalid
<1> QED
  BY <1>4, <1>5 DEF LinkInv

LEMMA CrashLinks ==
    ASSUME Inv, LinkInv, scene' = scene, Crash
    PROVE  LinkInv'
BY DEF LinkInv, KnownInv, LinkedInv, WaitInv, Headed, Crash

\* A pruned block no longer waits, and its children wait for its data.
LEMMA PruneOneBlockFileLinks ==
    ASSUME Inv, LinkInv, scene' = scene, NEW b \in Block, PruneOneBlockFile(b)
    PROVE  LinkInv'
<1> DEFINE f == [[idx[b] EXCEPT !.data = FALSE] EXCEPT !.undo = FALSE]
<1>1. Typed /\ IndexInv /\ KnownInv /\ LinkedInv /\ WaitInv
  BY DEF Inv, LinkInv
<1>2. /\ up /\ up' = up /\ ~ flushing /\ "prune" \in scene.events /\ idx[b].data
      /\ idx' = [idx EXCEPT ![b].data = FALSE, ![b].undo = FALSE]
      /\ WriteIndex(idx', dirty \cup {b}, TRUE) /\ unlinked' = unlinked \ {b}
      /\ UNCHANGED <<linked, cands, tip, pc, mostWork>>
  BY DEF PruneOneBlockFile, Running, control
<1>3. idx[b] \in Entry
  BY <1>1 DEF Typed
<1>4. f \in Entry /\ f.failed = idx[b].failed /\ f.valid = idx[b].valid /\ f.nTx = idx[b].nTx
      /\ ~ f.data
  BY <1>3, PrunedFields
<1>5. idx' = [idx EXCEPT ![b] = f]
  BY <1>1, <1>2 DEF Typed
<1> HIDE DEF f
<1>6. /\ idx' \in [Block -> Entry] /\ idx'[b] = f
      /\ \A c \in Block \ {b} : idx'[c] = idx[c]
  BY <1>1, <1>4, <1>5 DEF Typed
<1>7. idx[b].valid # 0
  <2>1. idx[b].valid = 0 => idx[b] = NoEntry
    BY <1>1, <1>2 DEF KnownInv, Headed
  <2> QED
    BY <1>2, <2>1, FixedEntries
<1>8. LinkStep({b})
  <2>1. Headed(idx') /\ Grown({b})
    BY <1>1, <1>2, <1>4, <1>6, <1>7, SameHeaders
  <2> QED
    BY <1>2, <1>6, <2>1 DEF LinkStep, Flushed
<1>9. LinkedInv'
  BY <1>1, <1>2, <1>4, <1>6 DEF LinkedInv, Working, Typed
<1>10. WaitInv'
  <2> SUFFICES ASSUME Unreconsidered, NEW c \in Block \ {Genesis}, NoInvalid(c)'
               PROVE  /\ idx'[c].data /\ c \notin linked => c \in unlinked' /\ Parent[c] \notin linked
                      /\ c \in unlinked' /\ idx'[Parent[c]].data => Parent[c] \in unlinked'
    BY <1>2 DEF WaitInv, Unreconsidered
  <2>1. \A d \in Block : idx'[d].failed = idx[d].failed /\ (idx'[d].data <=> idx[d].data /\ d # b)
    BY <1>4, <1>6
  <2>2. NoInvalid(c) /\ Parent[c] \in Block
    BY <2>1, AncestorsClosed, TreeAssumption DEF NoInvalid
  <2> QED
    BY <1>1, <1>2, <2>1, <2>2 DEF WaitInv
<1> QED
  BY <1>1, <1>8, <1>9, <1>10, KnownStep DEF LinkInv

\* LoadBlockIndexDB links what it can, and lets the other received blocks wait.
LEMMA RestartLinks ==
    ASSUME Inv, LinkInv, scene' = scene, NEW t \in scene.threads, Restart(t)
    PROVE  LinkInv'
<1> DEFINE chained == {b \in Block : \A a \in Ancestors[b] : idxDisk[a].nTx}
<1>1. /\ Typed /\ DownInv /\ IndexInv /\ KnownInv /\ \A u \in Thread : ThreadInv(u)
  BY DEF Inv, LinkInv
<1>2. /\ ~ up /\ up' = TRUE /\ idx' = idxDisk /\ linked' = chained /\ cands' \subseteq chained
      /\ unlinked' = {b \in Block : idxDisk[b].nTx /\ b \notin chained}
      /\ pc' = [pc EXCEPT ![t] = "loop"]
      /\ UNCHANGED <<tip, dirty, mostWork>> /\ UNCHANGED <<idxDisk, tipDisk, flushing>>
  BY DEF Restart, disk
<1>3. /\ tip = tipDisk /\ tip \in Block
      /\ \A u \in Thread : mostWork[u] = NoBlock
  BY <1>1, <1>2 DEF Typed, DownInv, ThreadInv
<1>4. KnownInv'
  BY <1>1, <1>2 DEF KnownInv, Headed
<1>5. Genesis \in chained /\ tip \in chained
  <2>1. tip \in chained
    BY <1>1, <1>3 DEF KnownInv
  <2>2. Genesis \in Ancestors[tip] /\ Genesis \in Block
    BY <1>3, RootAssumption, TreeAssumption
  <2> QED
    BY <2>1, <2>2, AncestorsOfGenesis
<1>6. chained \in Closed /\ \A b \in chained : idxDisk[b].nTx
  <2>1. ASSUME NEW b \in chained \ {Genesis} PROVE Parent[b] \in chained
    BY AncestorsStep
  <2> QED
    BY <2>1, AncestorsClosed DEF Closed
<1>7. ASSUME NEW b \in Block \ {Genesis}, idxDisk[b].nTx, Parent[b] \in chained
      PROVE  b \in chained
  BY <1>7, AncestorsStep
<1> HIDE DEF chained
<1>8. LinkedInv'
  BY <1>2, <1>3, <1>5, <1>6 DEF LinkedInv, Working
<1>9. WaitInv'
  <2> SUFFICES ASSUME NEW b \in Block \ {Genesis}
               PROVE  /\ idxDisk[b].data /\ b \notin chained
                            => b \in unlinked' /\ Parent[b] \notin chained
                      /\ b \in unlinked' /\ idxDisk[Parent[b]].data => Parent[b] \in unlinked'
    BY <1>2 DEF WaitInv
  <2>1. /\ idxDisk[b].data => idxDisk[b].nTx
        /\ Parent[b] \in Block /\ (idxDisk[Parent[b]].data => idxDisk[Parent[b]].nTx)
    BY <1>1, TreeAssumption DEF IndexInv, DataInv
  <2> QED
    BY <1>2, <1>7, <2>1
<1> QED
  BY <1>4, <1>8, <1>9 DEF LinkInv

\* Of two blocks of a chain that are ancestors of each other, there is only one.
LEMMA AncestorsAntisymmetric ==
    ASSUME NEW b \in Block, NEW a \in Ancestors[b], b \in Ancestors[a]
    PROVE  a = b
<1> SUFFICES ASSUME a # b PROVE FALSE
  OBVIOUS
<1>1. b # Genesis
  BY AncestorsOfGenesis
<1>2. a \in Ancestors[Parent[b]] /\ Parent[b] \in Block
  BY <1>1, AncestorsStep
<1>3. b \in Ancestors[Parent[b]]
  BY <1>2, AncestorsTransitive
<1> QED
  BY <1>1, <1>3, NoCycle

\* The blocks above the one where FindMostWorkChain stops: the parent of each is another
\* of them, or that one.
LEMMA AboveShape ==
    ASSUME Typed, LinkedInv, up, NEW c \in cands, ~ Usable(c), NEW b \in Above(c)
    PROVE  /\ b \in Block \ {Genesis} /\ b \in linked
           /\ Parent[b] \in Above(c) \/ Parent[b] = Stop(c)
<1>1. c \in Block /\ c \in linked /\ tip \in Block
  BY DEF Typed, LinkedInv
<1>2. Stop(c) \in Ancestors[c] /\ Stop(c) \in Block
  BY <1>1, StopFound, AncestorsClosed DEF Path
<1>3. b \in Ancestors[c] /\ b \notin Ancestors[Stop(c)]
  BY DEF Above
<1>4. b \in Block \ {Genesis} /\ b \in linked
  BY <1>1, <1>2, <1>3, LinkedSeen, RootAssumption DEF Typed
<1>5. Parent[b] \in Ancestors[c] /\ Parent[b] \in Block
  BY <1>1, <1>3, <1>4, AncestorsClosed, TreeAssumption DEF Closed
<1>6. Stop(c) \in Ancestors[Parent[b]]
  <2>1. Stop(c) \in Ancestors[b]
    BY <1>1, <1>2, <1>3, AncestorsLinear
  <2>2. Stop(c) # b
    BY <1>2, <1>3, AncestorsClosed
  <2> QED
    BY <1>4, <2>1, <2>2, AncestorsStep
<1>7. CASE Parent[b] \in Ancestors[Stop(c)]
  BY <1>2, <1>4, <1>5, <1>6, <1>7, AncestorsAntisymmetric
<1>8. CASE Parent[b] \notin Ancestors[Stop(c)]
  BY <1>4, <1>5, <1>8 DEF Above
<1> QED
  BY <1>7, <1>8

\* What FindMostWorkChain marks is linked, and what it lets wait is linked too and waits
\* for the data of the block where the walk stopped.
LEMMA FoundShape ==
    ASSUME Typed, LinkedInv, up, NEW m, FindMostWorkChain(m)
    PROVE  \E W \in SUBSET linked :
              /\ unlinked' = unlinked \cup W /\ Genesis \notin W /\ cands' \subseteq cands
              /\ \A b \in W : Parent[b] \in W \/ ~ idx[Parent[b]].data
              /\ \A b \in Block : \/ idx'[b] = idx[b]
                                  \/ idx'[b] = Mark(idx[b], "CHILD") /\ b \in linked
<1> DEFINE usable == UsableCandidates
           tried == {c \in cands \ usable : usable # {} => Worse(m, c)}
           onFailed == {c \in tried : Failed(Stop(c))}
           marked == UNION {Above(c) : c \in onFailed}
           W == UNION {Above(c) : c \in tried \ onFailed}
<1>1. /\ idx' = [b \in Block |-> IF b \in marked THEN Mark(idx[b], "CHILD") ELSE idx[b]]
      /\ cands' \subseteq cands /\ unlinked' = unlinked \cup W
  BY DEF FindMostWorkChain
<1>2. \A c \in tried : c \in cands /\ ~ Usable(c)
  BY DEF UsableCandidates
<1>3. \A b \in marked : b \in linked
  BY <1>2, AboveShape
<1>4. ASSUME NEW b \in W
      PROVE  /\ b \in linked /\ b # Genesis
             /\ Parent[b] \in W \/ ~ idx[Parent[b]].data
  <2>1. PICK c \in tried \ onFailed : b \in Above(c)
    OBVIOUS
  <2>2. c \in Block /\ tip \in Block /\ ~ Usable(c) /\ ~ Failed(Stop(c))
    BY <1>2, <2>1 DEF Typed
  <2>3. ~ idx[Stop(c)].data
    BY <2>2, StopFound DEF Unusable
  <2>4. /\ b \in linked /\ b # Genesis
        /\ Parent[b] \in Above(c) \/ Parent[b] = Stop(c)
    BY <1>2, <2>1, AboveShape
  <2> QED
    BY <2>1, <2>3, <2>4
<1>5. W \in SUBSET linked
  BY <1>4
<1> HIDE DEF marked, W
<1> QED
  BY <1>1, <1>3, <1>4, <1>5

LEMMA FindMostWorkChainLinks ==
    ASSUME Inv, LinkInv, up, up' = up, ~ flushing, scene' = scene, NEW m,
           FindMostWorkChain(m), UNCHANGED <<linked, tip, dirty>>, UNCHANGED disk,
           \A u \in Thread : Working(u)' => mostWork'[u] \in linked
    PROVE  LinkInv'
<1>1. Typed /\ KnownInv /\ LinkedInv /\ WaitInv
  BY DEF Inv, LinkInv
<1>2. PICK W \in SUBSET linked :
         /\ unlinked' = unlinked \cup W /\ Genesis \notin W /\ cands' \subseteq cands
         /\ \A b \in W : Parent[b] \in W \/ ~ idx[Parent[b]].data
         /\ \A b \in Block : \/ idx'[b] = idx[b]
                             \/ idx'[b] = Mark(idx[b], "CHILD") /\ b \in linked
  BY <1>1, FoundShape
<1>3. idx' \in [Block -> Entry]
  BY <1>1, MarkedAbove
<1>4. ASSUME NEW b \in Block
      PROVE  /\ idx'[b].valid = idx[b].valid /\ idx'[b].nTx = idx[b].nTx
             /\ idx'[b].data = idx[b].data
             /\ "VALID" \in idx[b].failed => "VALID" \in idx'[b].failed
  <2>1. idx[b] \in Entry
    BY <1>1 DEF Typed
  <2> QED
    BY <1>2, <2>1, MarkFields
<1>5. LinkStep({})
  <2>1. \A b \in linked : b \in Block /\ idx[b].valid # 0
    BY <1>1, LinkedKnown, AncestorsClosed DEF Typed
  <2>2. Headed(idx') /\ Grown({})
    BY <1>1, <1>2, <1>4, <2>1, SameHeaders
  <2>3. dirty \cup {} = dirty
    OBVIOUS
  <2> QED
    BY <1>3, <2>2, <2>3 DEF LinkStep, Flushed
<1>6. LinkedInv'
  BY <1>1, <1>2, <1>4 DEF LinkedInv, Typed
<1>7. WaitInv'
  <2> SUFFICES ASSUME Unreconsidered, NEW b \in Block \ {Genesis}, NoInvalid(b)'
               PROVE  /\ idx'[b].data /\ b \notin linked => b \in unlinked' /\ Parent[b] \notin linked
                      /\ b \in unlinked' /\ idx'[Parent[b]].data => Parent[b] \in unlinked'
    BY DEF WaitInv, Unreconsidered
  <2>1. NoInvalid(b) /\ Parent[b] \in Block
    BY <1>4, AncestorsClosed, TreeAssumption DEF NoInvalid
  <2> QED
    BY <1>1, <1>2, <1>4, <2>1 DEF WaitInv
<1> QED
  BY <1>1, <1>5, <1>6, <1>7, KnownStep DEF LinkInv

LEMMA LoopLinks ==
    ASSUME Inv, LinkInv, scene' = scene, NEW t \in scene.threads, Loop(t)
    PROVE  LinkInv'
<1>1. Typed /\ LinkedInv
  BY DEF Inv, LinkInv
<1>2. /\ up /\ up' = up /\ ~ flushing /\ pc[t] = "loop"
      /\ UNCHANGED <<linked, tip, dirty>> /\ UNCHANGED disk
  BY DEF Loop, Running
<1>3. t \in Thread
  BY <1>1, TreeAssumption DEF Typed
<1>4. PICK m \in IF mostWork[t] = NoBlock THEN MostWork ELSE {mostWork[t]} :
         /\ IF mostWork[t] = NoBlock THEN FindMostWorkChain(m)
            ELSE UNCHANGED <<cands, idx, unlinked>>
         /\ \/ /\ pc' = [pc EXCEPT ![t] = "idle"]
               /\ mostWork' = [mostWork EXCEPT ![t] = NoBlock]
            \/ /\ m # NoBlock /\ pc' = [pc EXCEPT ![t] = "step"]
               /\ mostWork' = [mostWork EXCEPT ![t] = m]
  BY DEF Loop, Leave, Release
<1>5. m # NoBlock => m \in linked
  <2>1. CASE mostWork[t] = NoBlock
    BY <1>1, <1>2, <1>4, <2>1 DEF MostWork, Best, UsableCandidates, LinkedInv
  <2>2. CASE mostWork[t] # NoBlock
    BY <1>1, <1>2, <1>3, <1>4, <2>2 DEF LinkedInv, Working
  <2> QED
    BY <2>1, <2>2
<1>6. \A u \in Thread : Working(u)' => mostWork'[u] \in linked
  <2>1. /\ \A u \in Thread \ {t} : pc'[u] = pc[u] /\ mostWork'[u] = mostWork[u]
        /\ mostWork'[t] \in {NoBlock, m}
    BY <1>1, <1>3, <1>4 DEF Typed
  <2> QED
    BY <1>1, <1>2, <1>5, <2>1 DEF Working, LinkedInv
<1>7. CASE mostWork[t] = NoBlock
  BY <1>2, <1>4, <1>6, <1>7, FindMostWorkChainLinks
<1>8. CASE mostWork[t] # NoBlock
  <2>1. UNCHANGED <<cands, idx, unlinked>>
    BY <1>4, <1>8
  <2>2. dirty \cup {} = dirty /\ KnownInv
    BY DEF LinkInv
  <2>3. LinkStep({})
    BY <1>1, <1>2, <2>1, <2>2, SameHeaders DEF LinkStep, Flushed, Typed
  <2> QED
    BY <1>1, <1>2, <1>6, <2>1, <2>3, CalmLinks DEF LinkedInv
<1> QED
  BY <1>7, <1>8

\* The blocks a new block b links: b, and with each other one its parent; a waiting block
\* above one of them is one of them.
LEMMA NowLinkedShape ==
    ASSUME NEW b \in Block \ {Genesis}
    PROVE  /\ NowLinked(b) \subseteq Block \ {Genesis} /\ b \in NowLinked(b)
           /\ \A d \in NowLinked(b) \ {b} : d \in unlinked /\ Parent[d] \in NowLinked(b)
           /\ \A d \in Block \ {Genesis} :
                 d \in unlinked /\ d # b /\ Parent[d] \in NowLinked(b) => d \in NowLinked(b)
<1>1. b \in NowLinked(b)
  BY DEF NowLinked
<1>2. ASSUME NEW d \in NowLinked(b) \ {b}
      PROVE  d \in Block \ {Genesis} /\ d \in unlinked /\ Parent[d] \in NowLinked(b)
  <2>1. d \in Block /\ b \in Ancestors[d] /\ d # b /\ Ancestors[d] \ Ancestors[b] \subseteq unlinked
    BY DEF NowLinked
  <2>2. d # Genesis
    BY <2>1, AncestorsOfGenesis
  <2>3. d \in Ancestors[d] /\ d \notin Ancestors[b]
    BY <2>1, AncestorsClosed, AncestorsAntisymmetric
  <2>4. /\ Parent[d] \in Block /\ b \in Ancestors[Parent[d]]
        /\ Ancestors[Parent[d]] \ Ancestors[b] \subseteq unlinked
    <3>1. Parent[d] \in Block /\ Ancestors[d] = {d} \cup Ancestors[Parent[d]]
      BY <2>1, <2>2, AncestorsStep
    <3> QED
      BY <2>1, <3>1
  <2> QED
    BY <2>1, <2>2, <2>3, <2>4 DEF NowLinked
<1>3. ASSUME NEW d \in Block \ {Genesis}, d \in unlinked, d # b, Parent[d] \in NowLinked(b)
      PROVE  d \in NowLinked(b)
  <2>1. Ancestors[d] = {d} \cup Ancestors[Parent[d]]
    BY AncestorsStep
  <2>2. b \in Ancestors[Parent[d]]
    BY <1>3, AncestorsClosed DEF NowLinked
  <2>3. Ancestors[Parent[d]] \ Ancestors[b] \subseteq unlinked
    BY <1>3 DEF NowLinked
  <2>4. b \in Ancestors[d] /\ Ancestors[d] \ Ancestors[b] \subseteq unlinked
    BY <1>3, <2>1, <2>2, <2>3
  <2> QED
    BY <1>3, <2>4 DEF NowLinked
<1> QED
  BY <1>1, <1>2, <1>3

\* The data of b arrive: it is linked with what waited for it, or waits itself.
LEMMA ReceivedLinks ==
    ASSUME Inv, LinkInv, up, up', scene' = scene, NEW b \in Block \ {Genesis},
           LinkStep({b}), \A c \in Block \ {b} : idx'[c] = idx[c],
           idx'[b].nTx, idx[Parent[b]].valid # 0, ~ idx[b].data,
           idx'[b].failed = {}, idx[b].failed = {}, tip' = tip,
           \A u \in Thread : Working(u)' => mostWork'[u] \in linked,
           ReceivedBlockTransactions(b)
    PROVE  LinkInv'
<1>1. Typed /\ IndexInv /\ KnownInv /\ LinkedInv /\ WaitInv /\ Grown({b})
  BY DEF Inv, LinkInv, LinkStep
<1>2. /\ linked \subseteq Block /\ linked \in Closed /\ Genesis \in linked /\ tip \in linked
      /\ \A c \in linked : idx'[c].nTx
      /\ unlinked \subseteq Block \ {Genesis} /\ \A c \in unlinked : idx'[c].nTx
      /\ cands \subseteq linked
  BY <1>1 DEF LinkedInv, Typed, Grown
<1>3. Parent[b] \in Block /\ Ancestors[Parent[b]] \subseteq Ancestors[b]
  BY AncestorsStep
<1>4. ASSUME Unreconsidered, NEW c \in Block \ {Genesis}, NoInvalid(c)'
      PROVE  /\ NoInvalid(c) /\ Parent[c] \in Block /\ NoInvalid(Parent[c])
             /\ idx[c].data /\ c \notin linked => c \in unlinked /\ Parent[c] \notin linked
             /\ c \in unlinked /\ idx[Parent[c]].data => Parent[c] \in unlinked
             /\ c # b => idx'[c].data = idx[c].data
             /\ Parent[c] # b => idx'[Parent[c]].data = idx[Parent[c]].data
  <2>1. NoInvalid(c) /\ Parent[c] \in Block
    BY <1>4, AncestorsClosed, TreeAssumption DEF NoInvalid
  <2>2. NoInvalid(Parent[c])
    BY <2>1, AncestorsStep DEF NoInvalid
  <2>3. /\ idx[c].data /\ c \notin linked => c \in unlinked /\ Parent[c] \notin linked
        /\ c \in unlinked /\ idx[Parent[c]].data => Parent[c] \in unlinked
    BY <1>1, <1>4, <2>1 DEF WaitInv
  <2> QED
    BY <2>1, <2>2, <2>3
<1>5. CASE Parent[b] \in linked
  <2> DEFINE S == NowLinked(b)
  <2>1. linked' = linked \cup S /\ unlinked' = unlinked \ S /\ cands' \subseteq cands \cup S
    BY <1>5 DEF ReceivedBlockTransactions
  <2>2. /\ S \subseteq Block \ {Genesis} /\ b \in S
        /\ \A d \in S \ {b} : d \in unlinked /\ Parent[d] \in S
        /\ \A d \in Block \ {Genesis} : d \in unlinked /\ d # b /\ Parent[d] \in S => d \in S
    BY NowLinkedShape
  <2> HIDE DEF S
  <2>3. linked' \in Closed
    BY <1>2, <1>5, <2>1, <2>2 DEF Closed
  <2>4. LinkedInv'
    BY <1>2, <2>1, <2>2, <2>3 DEF LinkedInv
  <2>5. WaitInv'
    <3> SUFFICES ASSUME Unreconsidered, NEW c \in Block \ {Genesis}, NoInvalid(c)'
                 PROVE  /\ idx'[c].data /\ c \notin linked'
                              => c \in unlinked' /\ Parent[c] \notin linked'
                        /\ c \in unlinked' /\ idx'[Parent[c]].data => Parent[c] \in unlinked'
      BY DEF WaitInv, Unreconsidered
    <3>1. ASSUME idx'[c].data, c \notin linked' PROVE c \in unlinked' /\ Parent[c] \notin linked'
      <4>1. c # b /\ c \notin linked /\ c \notin S
        BY <2>1, <2>2, <3>1
      <4>2. c \in unlinked /\ Parent[c] \notin linked
        BY <1>4, <3>1, <4>1
      <4> QED
        BY <2>1, <2>2, <4>1, <4>2
    <3>2. ASSUME c \in unlinked', idx'[Parent[c]].data PROVE Parent[c] \in unlinked'
      <4>1. c \in unlinked /\ c \notin S /\ c # b
        BY <2>1, <2>2, <3>2
      <4>2. Parent[c] \notin S
        BY <2>2, <4>1
      <4>3. Parent[c] # b
        BY <2>2, <4>2
      <4> QED
        BY <1>4, <2>1, <3>2, <4>1, <4>2, <4>3
    <3> QED
      BY <3>1, <3>2
  <2> QED
    BY <1>1, <2>4, <2>5, KnownStep DEF LinkInv
<1>6. CASE Parent[b] \notin linked
  <2>1. /\ linked' = linked \ {b} /\ cands' = cands
        /\ unlinked' = IF IsValid(idx[Parent[b]], TREE) THEN unlinked \cup {b} ELSE unlinked
    BY <1>6 DEF ReceivedBlockTransactions
  <2>2. linked' = linked
    BY <1>2, <1>6, <2>1 DEF Closed
  <2>3. LinkedInv'
    BY <1>2, <2>1, <2>2 DEF LinkedInv
  <2>4. ASSUME Unreconsidered, NoInvalid(Parent[b]) PROVE b \in unlinked'
    <3>1. idx[Parent[b]].failed = {}
      BY <1>1, <1>3, <2>4 DEF IndexInv, Caused, NoInvalid
    <3>2. idx[Parent[b]] \in Entry
      BY <1>1, <1>3 DEF Typed
    <3>3. IsValid(idx[Parent[b]], TREE)
      BY <3>1, <3>2, SMTT(30) DEF IsValid, Entry, TREE, TRANSACTIONS, SCRIPTS
    <3> QED
      BY <2>1, <3>3
  <2>5. WaitInv'
    <3> SUFFICES ASSUME Unreconsidered, NEW c \in Block \ {Genesis}, NoInvalid(c)'
                 PROVE  /\ idx'[c].data /\ c \notin linked
                              => c \in unlinked' /\ Parent[c] \notin linked
                        /\ c \in unlinked' /\ idx'[Parent[c]].data => Parent[c] \in unlinked'
      BY <2>2 DEF WaitInv, Unreconsidered
    <3>1. unlinked \subseteq unlinked' /\ unlinked' \subseteq unlinked \cup {b}
      BY <2>1
    <3>2. CASE c = b
      <4>1. Parent[b] # b /\ Parent[b] # Genesis
        BY <1>2, <1>6, NoCycle, AncestorsClosed, <1>3
      <4>2. NoInvalid(Parent[b]) /\ idx'[Parent[b]] = idx[Parent[b]]
        BY <1>3, <1>4, <3>2, <4>1
      <4>3. idx[Parent[b]].data => Parent[b] \in unlinked
        BY <1>1, <1>3, <1>6, <4>1, <4>2 DEF WaitInv
      <4> QED
        BY <1>6, <2>4, <3>1, <3>2, <4>2, <4>3
    <3>3. CASE c # b
      <4>1. NoInvalid(Parent[c])
        BY <1>4
      <4>2. c \in unlinked' => c \in unlinked
        BY <3>1, <3>3
      <4>3. idx'[c].data /\ c \notin linked => c \in unlinked' /\ Parent[c] \notin linked
        BY <1>4, <3>1, <3>3
      <4>4. CASE Parent[c] = b
        <5>1. NoInvalid(Parent[b])
          BY <1>3, <4>1, <4>4 DEF NoInvalid
        <5> QED
          BY <2>4, <4>3, <4>4, <5>1
      <4>5. CASE Parent[c] # b
        BY <1>4, <3>1, <4>2, <4>3, <4>5
      <4> QED
        BY <4>4, <4>5
    <3> QED
      BY <3>2, <3>3
  <2> QED
    BY <1>1, <2>3, <2>5, KnownStep DEF LinkInv
<1> QED
  BY <1>5, <1>6

LEMMA ProcessNewBlockLinks ==
    ASSUME Inv, LinkInv, scene' = scene, NEW t \in scene.threads,
           NEW b \in Block \ {Genesis}, NEW r, ProcessNewBlock(t, b, r)
    PROVE  LinkInv'
<1>1. Typed /\ IndexInv /\ KnownInv /\ LinkedInv /\ \A u \in Thread : ThreadInv(u)
  BY DEF Inv, LinkInv
<1>2. /\ up /\ up' = up /\ ~ flushing /\ HeaderOK(b) /\ UNCHANGED disk
      /\ tip' = tip /\ mostWork' = mostWork /\ pc[t] = "idle"
  BY DEF ProcessNewBlock, Idle, Running
<1>3. t \in Thread /\ mostWork[t] = NoBlock
  BY <1>1, <1>2, TreeAssumption DEF Typed, ThreadInv
<1>4. PICK h : h = WithHeader(b)
  OBVIOUS
<1>5. /\ h \in [Block -> Entry] /\ \A c \in Block \ {b} : h[c] = idx[c]
      /\ h[b].failed = {} /\ idx[b].failed = {}
      /\ h[b].nTx = idx[b].nTx /\ h[b].data = idx[b].data
      /\ h[b] \in Entry
  BY <1>1, <1>2, <1>4, HeaderAdded
<1>6. /\ h[b].valid # 0 /\ idx[Parent[b]].valid # 0
      /\ b \in Known => idx[b].valid # 0
      /\ b \notin Known => ~ h[b].nTx
  BY <1>1, <1>2, <1>4, HeaderShape
<1>7. h[b].nTx /\ "prune" \notin scene.events => h[b].data
  BY <1>1, <1>2, <1>5 DEF KnownInv, Headed
<1>8. ASSUME pc' = pc \/ pc' = [pc EXCEPT ![t] = "loop"]
      PROVE  \A u \in Thread : Working(u)' => mostWork'[u] \in linked
  BY <1>1, <1>2, <1>3, <1>8 DEF Working, Typed, LinkedInv
<1>9. CASE /\ idx' = h /\ dirty' = dirty \cup ({b} \ Known)
           /\ pc' = [pc EXCEPT ![t] = "loop"] /\ UNCHANGED <<linked, cands, unlinked>>
  <2>1. Headed(idx') /\ Grown({b} \ Known)
    BY <1>1, <1>2, <1>5, <1>6, <1>7, <1>9, OneHeader
  <2>2. LinkStep({b} \ Known)
    BY <1>2, <1>5, <1>9, <2>1 DEF LinkStep, Flushed
  <2>3. \A c \in Block : /\ idx'[c].data = idx[c].data
                         /\ "VALID" \in idx[c].failed => "VALID" \in idx'[c].failed
    BY <1>5, <1>9
  <2> QED
    BY <1>1, <1>2, <1>8, <1>9, <2>2, <2>3, CalmLinks DEF LinkedInv
<1>10. CASE /\ idx' = [h EXCEPT ![b] = Mark(@, "VALID")] /\ dirty' = dirty \cup {b}
            /\ UNCHANGED <<linked, cands, unlinked, pc>>
  <2>1. PICK f : f = Mark(h[b], "VALID")
    OBVIOUS
  <2>2. f \in Entry /\ f.valid = h[b].valid /\ f.nTx = h[b].nTx /\ f.data = h[b].data
    BY <1>5, <2>1, MarkFields
  <2>3. /\ idx' \in [Block -> Entry] /\ idx'[b] = f
        /\ \A c \in Block \ {b} : idx'[c] = idx[c]
    BY <1>5, <1>10, <2>1, <2>2
  <2>4. Headed(idx') /\ Grown({b})
    BY <1>1, <1>2, <1>5, <1>6, <1>7, <2>2, <2>3, OneHeader
  <2>5. LinkStep({b})
    BY <1>2, <1>10, <2>3, <2>4 DEF LinkStep, Flushed
  <2>6. \A c \in Block : /\ idx'[c].data = idx[c].data
                         /\ "VALID" \in idx[c].failed => "VALID" \in idx'[c].failed
    BY <1>5, <2>2, <2>3
  <2> QED
    BY <1>1, <1>2, <1>8, <1>10, <2>5, <2>6, CalmLinks DEF LinkedInv
<1>11. CASE /\ ~ Ignored(b, r) /\ ReceivedBlockTransactions(b)
            /\ pc' = [pc EXCEPT ![t] = "loop"]
  <2>1. /\ idx' = [h EXCEPT ![b] = RaiseValidity([@ EXCEPT !.nTx = TRUE, !.data = TRUE],
                                                 TRANSACTIONS)]
        /\ dirty' = dirty \cup {b} /\ ~ idx[b].data
    BY <1>4, <1>11 DEF ReceivedBlockTransactions, Ignored
  <2>2. PICK g : g = [h[b] EXCEPT !.nTx = TRUE, !.data = TRUE]
    OBVIOUS
  <2>3. g \in Entry /\ g.failed = {} /\ g.nTx /\ g.data /\ g.valid # 0
    BY <1>5, <1>6, <2>2, ReceivedFields
  <2>4. PICK f : f = RaiseValidity(g, TRANSACTIONS)
    OBVIOUS
  <2>5. f \in Entry /\ f.failed = {} /\ f.nTx /\ f.data /\ f.valid # 0
    BY <2>3, <2>4, RaiseFields
  <2>6. idx' = [h EXCEPT ![b] = f]
    BY <1>5, <2>1, <2>2, <2>4
  <2>7. /\ idx' \in [Block -> Entry] /\ idx'[b] = f
        /\ \A c \in Block \ {b} : idx'[c] = idx[c]
    BY <1>5, <2>5, <2>6
  <2>8. Headed(idx') /\ Grown({b})
    BY <1>1, <1>2, <1>6, <2>5, <2>7, OneHeader
  <2>9. LinkStep({b})
    BY <1>2, <2>1, <2>7, <2>8 DEF LinkStep, Flushed
  <2> QED
    BY <1>2, <1>5, <1>6, <1>8, <1>11, <2>1, <2>5, <2>7, <2>9, ReceivedLinks
<1> QED
  BY <1>4, <1>9, <1>10, <1>11 DEF ProcessNewBlock

LEMMA LinkInit == Init => LinkInv
<1> SUFFICES ASSUME Init PROVE LinkInv
  OBVIOUS
<1>1. /\ idx = [b \in Block |-> IF b = Genesis THEN GenesisEntry ELSE NoEntry]
      /\ idxDisk = idx /\ linked = {Genesis} /\ cands = {Genesis} /\ unlinked = {}
      /\ tip = Genesis /\ tipDisk = Genesis
      /\ mostWork = [t \in Thread |-> NoBlock]
  BY DEF Init
<1>2. /\ GenesisEntry.nTx /\ GenesisEntry.data /\ ~ NoEntry.nTx /\ ~ NoEntry.data
      /\ NoEntry.valid = 0
  BY DEF GenesisEntry, NoEntry
<1>3. GenesisEntry.valid # 0
  BY SMTT(30) DEF GenesisEntry, NoEntry, TRANSACTIONS
<1>4. /\ Genesis \in Block /\ idx[Genesis] = GenesisEntry
      /\ \A b \in Block \ {Genesis} : idx[b] = NoEntry
  BY <1>1, TreeAssumption
<1>5. Headed(idx)
  BY <1>2, <1>3, <1>4 DEF Headed
<1>6. KnownInv
  BY <1>1, <1>2, <1>4, <1>5, AncestorsOfGenesis DEF KnownInv, Headed
<1>7. LinkedInv
  <2>1. {Genesis} \in Closed
    BY TreeAssumption DEF Closed
  <2> QED
    BY <1>1, <1>2, <1>4, <2>1 DEF LinkedInv, Working
<1>8. WaitInv
  BY <1>1, <1>2, <1>4 DEF WaitInv
<1> QED
  BY <1>6, <1>7, <1>8 DEF LinkInv

LEMMA LinkNext == Inv /\ LinkInv /\ [Next]_vars => LinkInv'
<1> SUFFICES ASSUME Inv, LinkInv, [Next]_vars PROVE LinkInv'
  OBVIOUS
<1>1. CASE UNCHANGED vars
  <2>1. /\ UNCHANGED <<idx, linked, unlinked, cands, tip, dirty>>
        /\ UNCHANGED <<idxDisk, tipDisk>> /\ UNCHANGED <<pc, mostWork, up, scene>>
    BY <1>1 DEF vars, tree, disk, control
  <2>2. KnownInv' /\ LinkedInv' /\ WaitInv'
    BY <2>1 DEF LinkInv, KnownInv, LinkedInv, WaitInv, Headed, Working, Unreconsidered,
                NoInvalid
  <2> QED
    BY <2>2 DEF LinkInv
<1>2. ASSUME Next PROVE LinkInv'
  <2>1. scene' = scene /\ scene.blocks \subseteq Block
    BY <1>2, TreeAssumption DEF Next, Inv, Typed
  <2>2. ASSUME NEW t \in scene.threads, Work(t) PROVE LinkInv'
    BY <2>1, <2>2, LoopLinks, StepDisconnectLinks, StepConnectLinks, StepInvalidLinks,
       InvalidateDisconnectLinks, InvalidateEndLinks, ReprocessBlockLinks,
       ReprocessLinks DEF Work
  <2>3. ASSUME NEW t \in scene.threads, Restart(t) PROVE LinkInv'
    BY <2>1, <2>3, RestartLinks
  <2>4. ASSUME NEW t \in scene.threads, NEW b \in scene.blocks \ {Genesis},
               \/ AcceptBlockHeader(t, b)
               \/ \E r \in BOOLEAN : ProcessNewBlock(t, b, r)
               \/ InvalidateBlock(t, b)
               \/ ReconsiderBlock(t, b)
        PROVE  LinkInv'
    BY <2>1, <2>4, AcceptBlockHeaderLinks, ProcessNewBlockLinks, InvalidateBlockLinks,
       ReconsiderBlockLinks
  <2>5. ASSUME NEW t \in scene.threads, NEW R \in SUBSET rejected, NEW n \in 0..1,
               ReprocessBlocks(t, R, n)
        PROVE  LinkInv'
    BY <2>1, <2>5, ReprocessLinks
  <2>6. ASSUME NEW b \in Block, PruneOneBlockFile(b) PROVE LinkInv'
    BY <2>1, <2>6, PruneOneBlockFileLinks
  <2>7. ASSUME NEW full \in BOOLEAN, FlushStateToDisk(full) PROVE LinkInv'
    BY <2>1, <2>7, FlushStateToDiskLinks
  <2>8. ASSUME FlushCoins PROVE LinkInv'
    BY <2>1, <2>8, FlushCoinsLinks
  <2>9. ASSUME Crash PROVE LinkInv'
    BY <2>1, <2>9, CrashLinks
  <2> QED
    BY <1>2, <2>2, <2>3, <2>4, <2>5, <2>6, <2>7, <2>8, <2>9 DEF Next
<1> QED
  BY <1>1, <1>2

\* Whatever order headers and blocks arrive in, whatever is invalidated or pruned, and
\* wherever the process crashes: ReceivedBlockTransactions, FindMostWorkChain and
\* LoadBlockIndexDB link every block whose ancestors have been received, and a block
\* that waits is in mapBlocksUnlinked exactly while something is missing.
THEOREM BlocksNeverLost == Spec => []NoBlockLost
BY InvInit, InvNext, LinkInit, LinkNext, InvLost, PTL DEF Spec

===============================================================================
