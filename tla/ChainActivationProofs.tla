------------------------ MODULE ChainActivationProofs ------------------------
(***************************************************************************)
(* ActivateBestChain activates the best chain, proved for every tree of    *)
(* blocks and every scene with one thread in which nothing is reconsidered *)
(* or pruned: what the candidates have lost is worse than a block the      *)
(* thread can always come back to.                                         *)
(***************************************************************************)
EXTENDS ChainStateProofs

USE Zenon

(***************************************************************************)
(* The work comparator is a strict order, and a block is better than its   *)
(* ancestors.                                                              *)
(***************************************************************************)
LEMMA WorseOrder ==
    ASSUME NEW s \in [Block -> Nat]
    PROVE  /\ \A a \in Block : ~ WorseBy(s, a, a)
           /\ \A a, b, c \in Block : WorseBy(s, a, b) /\ WorseBy(s, b, c) => WorseBy(s, a, c)
           /\ \A a, b \in Block : a = b \/ WorseBy(s, a, b) \/ WorseBy(s, b, a)
<1>1. \A a \in Block : a \in Nat /\ s[a] \in Nat /\ nChainWork[a] \in Nat
  BY TreeAssumption, WorkAssumption
<1>2. \A a \in Block : ~ WorseBy(s, a, a)
  BY <1>1, SMTT(30) DEF WorseBy
<1>3. \A a, b, c \in Block : WorseBy(s, a, b) /\ WorseBy(s, b, c) => WorseBy(s, a, c)
  BY <1>1, SMTT(30) DEF WorseBy
<1>4. \A a, b \in Block : a = b \/ WorseBy(s, a, b) \/ WorseBy(s, b, a)
  BY <1>1, SMTT(30) DEF WorseBy
<1> QED
  BY <1>2, <1>3, <1>4

\* The same for the sequence numbers of the moment.
LEMMA WorseIsOrder ==
    ASSUME seq \in [Block -> Nat]
    PROVE  /\ \A a \in Block : ~ Worse(a, a)
           /\ \A a, b, c \in Block : Worse(a, b) /\ Worse(b, c) => Worse(a, c)
           /\ \A a, b \in Block : a = b \/ Worse(a, b) \/ Worse(b, a)
BY WorseOrder DEF Worse

LEMMA AncestorsWorse ==
    ASSUME NEW s, NEW b \in Block, NEW a \in Ancestors[b], a # b
    PROVE  WorseBy(s, a, b)
<1>1. b # Genesis
  BY AncestorsOfGenesis
<1>2. a \in Ancestors[Parent[b]] /\ Parent[b] \in Block
  BY <1>1, AncestorsStep
<1> DEFINE S == {x \in Ancestors[Parent[b]] : nChainWork[x] <= nChainWork[Parent[b]]}
<1>3. Ancestors[Parent[b]] \subseteq Block /\ Parent[b] \in Ancestors[Parent[b]]
  BY <1>2, AncestorsClosed
<1>4. Parent[b] \in S
  BY <1>2, <1>3, WorkAssumption, SMTT(30)
<1>5. ASSUME NEW x \in S \ {Genesis} PROVE Parent[x] \in S
  <2>1. x \in Block /\ Parent[x] \in Ancestors[Parent[b]] /\ Parent[x] \in Block
    BY <1>2, <1>3, AncestorsClosed, TreeAssumption DEF Closed
  <2>2. /\ nChainWork[x] \in Nat /\ nChainWork[Parent[x]] \in Nat
        /\ nChainWork[Parent[b]] \in Nat /\ nChainWork[Parent[x]] < nChainWork[x]
    BY <1>2, <2>1, WorkAssumption
  <2>3. nChainWork[Parent[x]] <= nChainWork[Parent[b]]
    BY <2>2, SMTT(30)
  <2> QED
    BY <2>1, <2>3
<1>6. S \in Closed
  BY <1>3, <1>5 DEF Closed
<1>7. a \in S
  BY <1>2, <1>4, <1>6, AncestorsLeast
<1>8. /\ nChainWork[a] \in Nat /\ nChainWork[Parent[b]] \in Nat /\ nChainWork[b] \in Nat
      /\ nChainWork[Parent[b]] < nChainWork[b] /\ nChainWork[a] <= nChainWork[Parent[b]]
  BY <1>1, <1>2, <1>3, <1>7, WorkAssumption
<1> QED
  BY <1>8, SMTT(30) DEF WorseBy

LEMMA ParentBelow ==
    ASSUME NEW b \in Block \ {Genesis}
    PROVE  Parent[b] \in Block /\ Parent[b] \in Ancestors[b] /\ Parent[b] # b
<1>1. Parent[b] \in Block /\ Ancestors[b] = {b} \cup Ancestors[Parent[b]]
  BY AncestorsStep
<1>2. Parent[b] \in Ancestors[Parent[b]] /\ b \notin Ancestors[Parent[b]]
  BY <1>1, AncestorsClosed, NoCycle
<1> QED
  BY <1>1, <1>2

(***************************************************************************)
(* The invariant.                                                          *)
(***************************************************************************)
\* A block that was received is valid as far as its transactions.
Checked(e) == \A b \in Block : e[b].nTx => e[b].valid \in {TRANSACTIONS, SCRIPTS}

\* No good block is better than m.
Tops(m) == \A c \in Block : Good(c) => c = m \/ Worse(c, m)

\* A candidate that will not turn out to be invalid, and is better than every good block
\* that is no candidate.
Refuge(r) ==
    /\ r \in cands /\ Good(r) /\ ~ Tainted(r)
    /\ \A c \in Block : Good(c) => c \in cands \/ Worse(c, r)

\* Where a thread is: idle, the tip is best; settled on a chain, that one is; and
\* whatever turns out to be invalid, there is a block to come back to, but while
\* InvalidateBlock takes the chain down.
Placed(t) ==
    /\ pc[t] # "invalidate" => \E r \in Block : Refuge(r)
    /\ pc[t] = "idle" => Refuge(tip) /\ Tops(tip)
    /\ Working(t) => /\ mostWork[t] \in cands /\ Good(mostWork[t])
                     /\ Tops(mostWork[t])

BestInv ==
    Straight =>
        /\ seq \in [Block -> Nat] /\ nextSeq \in Nat /\ Checked(idxDisk)
        /\ ~ aborted
        /\ up => /\ Checked(idx) /\ unlinked \cap linked = {}
                 /\ \A c \in cands : ~ Worse(c, tip)
                 /\ \A t \in scene.threads : Placed(t)

LEMMA StraightThread ==
    ASSUME Typed, Straight, NEW t \in scene.threads
    PROVE  t \in Thread /\ scene.threads = {t}
BY TreeAssumption DEF Straight, Orderly, OneThread, Typed

LEMMA StraightStays ==
    ASSUME scene' = scene
    PROVE  Straight' <=> Straight
BY DEF Straight, Orderly, OneThread, Decided, Undisturbed, Settled, Unreconsidered

\* When every thread is idle, what ActivatedBest says.
LEMMA InvBest == Inv /\ BestInv => ActivatedBest
<1> SUFFICES ASSUME Inv, BestInv, Straight
             PROVE  /\ ~ aborted
                    /\ Quiet => /\ tip \in cands /\ Good(tip)
                                /\ \A b \in cands : ~ Worse(b, tip)
                                /\ \A b \in Block \ {tip} : Good(b) => Worse(b, tip)
  BY DEF ActivatedBest
<1>1. PICK t \in Thread : scene.threads = {t}
  BY DEF Straight, Orderly, OneThread
<1>2. ~ aborted
  BY DEF BestInv
<1>3. ASSUME Quiet
      PROVE  Refuge(tip) /\ Tops(tip) /\ \A b \in cands : ~ Worse(b, tip)
  BY <1>1, <1>3 DEF BestInv, Placed, Quiet, Running
<1> QED
  BY <1>2, <1>3 DEF Refuge, Tops

(***************************************************************************)
(* Steps, and what they leave as it is.                                    *)
(***************************************************************************)
\* A good block is one whose ancestors are all fit.
Fit(e) == e.data /\ e.failed = {}

LEMMA GoodFit ==
    \A b \in Block : Good(b) <=> \A a \in Ancestors[b] : Fit(idx[a])
BY DEF Good, AllData, Failed, Fit

LEMMA SameGood ==
    ASSUME \A b \in Block : Fit(idx'[b]) <=> Fit(idx[b])
    PROVE  \A b \in Block : Good(b)' <=> Good(b)
<1> TAKE b \in Block
<1>1. Ancestors[b] \subseteq Block
  BY AncestorsClosed
<1> QED
  BY <1>1 DEF Good, AllData, Failed, Fit

LEMMA BestStep ==
    ASSUME BestInv, Straight, scene' = scene, up,
           \A b \in Block : idxDisk'[b] = idxDisk[b] \/ idxDisk'[b] = idx'[b],
           Checked(idx'), seq' \in [Block -> Nat], nextSeq' \in Nat, ~ aborted',
           unlinked' \cap linked' = {}, \A c \in cands' : ~ WorseBy(seq', c, tip'),
           NEW t, scene.threads = {t}, Placed(t)'
    PROVE  BestInv'
<1>1. Checked(idxDisk')
  BY DEF BestInv, Checked
<1>2. \A c \in cands' : ~ Worse(c, tip)'
  BY DEF Worse
<1> QED
  BY <1>1, <1>2 DEF BestInv

\* Placed after a step, with names for the tip and the block a thread works towards.
LEMMA PlaceNow ==
    ASSUME NEW t, NEW z, z = tip', NEW m, m = mostWork'[t],
           pc'[t] # "invalidate" => \E r \in Block : Refuge(r)',
           pc'[t] = "idle" => Refuge(z)' /\ Tops(z)',
           Working(t)' => m \in cands' /\ Good(m)' /\ Tops(m)'
    PROVE  Placed(t)'
<1>1. Working(t)' => Good(mostWork[t])' /\ Tops(mostWork[t])'
  BY DEF Good, AllData, Failed, Tops, Worse
<1>2. pc'[t] = "idle" => Refuge(tip)' /\ Tops(tip)'
  BY DEF Refuge, Tops, Worse, Good, AllData, Failed, Tainted
<1> QED
  BY <1>1, <1>2 DEF Placed

\* A step after which the same blocks are good, the same candidates, and the tip the
\* same.
LEMMA SameBest ==
    ASSUME Typed, BestInv, Straight, scene' = scene, up, NEW t, scene.threads = {t},
           \A b \in Block : idxDisk'[b] = idxDisk[b] \/ idxDisk'[b] = idx'[b],
           Checked(idx'), UNCHANGED <<seq, nextSeq, cands, tip, aborted>>,
           unlinked' \cap linked' = {},
           \A b \in Block : Fit(idx'[b]) <=> Fit(idx[b]),
           \/ pc'[t] = pc[t] /\ mostWork'[t] = mostWork[t]
           \/ pc[t] = "idle" /\ pc'[t] = "loop" /\ mostWork'[t] = NoBlock
    PROVE  BestInv'
<1>1. \A b \in Block : Good(b)' <=> Good(b)
  BY SameGood
<1>2. Placed(t) /\ tip' = tip /\ cands' = cands /\ seq' = seq
  BY DEF BestInv
<1>3. ASSUME NEW m \in Block PROVE Tops(m)' <=> Tops(m)
  BY <1>1, <1>2 DEF Tops, Worse
<1>4. ASSUME NEW r \in Block PROVE Refuge(r)' <=> Refuge(r)
  BY <1>1, <1>2 DEF Refuge, Worse, Tainted, Bad
<1>5. Placed(t)'
  <2>1. CASE pc[t] = "idle" /\ pc'[t] = "loop" /\ mostWork'[t] = NoBlock
    BY <1>2, <1>4, <2>1 DEF Placed, Working
  <2>2. CASE pc'[t] = pc[t] /\ mostWork'[t] = mostWork[t]
    <3>1. Working(t)' <=> Working(t)
      BY <2>2 DEF Working
    <3>2. PICK m : m = mostWork[t] /\ m = mostWork'[t]
      BY <2>2
    <3>3. Working(t)' => m \in cands' /\ Good(m)' /\ Tops(m)'
      BY <1>1, <1>2, <1>3, <3>1, <3>2 DEF Placed, Typed
    <3>4. PICK z \in Block : z = tip /\ z = tip'
      BY <1>2 DEF Typed
    <3>5. pc'[t] = "idle" => Refuge(z)' /\ Tops(z)'
      BY <1>2, <1>3, <1>4, <2>2, <3>4 DEF Placed
    <3>6. pc'[t] # "invalidate" => \E r \in Block : Refuge(r)'
      BY <1>2, <1>4, <2>2 DEF Placed
    <3> QED
      BY <3>2, <3>3, <3>4, <3>5, <3>6, PlaceNow
  <2> QED
    BY <2>1, <2>2
<1>6. /\ seq' \in [Block -> Nat] /\ nextSeq' \in Nat /\ ~ aborted'
      /\ \A c \in cands' : ~ WorseBy(seq', c, tip')
  BY <1>2 DEF BestInv, Worse
<1> QED
  BY <1>5, <1>6, BestStep

\* The disk after FlushStateToDisk.
LEMMA DiskWritten ==
    ASSUME NEW d, Flushed(d)
    PROVE  \A b \in Block : idxDisk'[b] = idxDisk[b] \/ idxDisk'[b] = idx'[b]
BY DEF Flushed, WriteIndex, disk

LEMMA HeaderChecked ==
    ASSUME Typed, KnownInv, up, NEW b \in Block \ {Genesis}, HeaderOK(b), Checked(idx)
    PROVE  Checked(WithHeader(b))
<1>1. /\ \A c \in Block \ {b} : WithHeader(b)[c] = idx[c]
      /\ b \in Known => WithHeader(b)[b] = idx[b]
      /\ b \notin Known => ~ WithHeader(b)[b].nTx
  BY HeaderAdded, HeaderShape
<1> QED
  BY <1>1 DEF Checked

LEMMA AcceptBlockHeaderBest ==
    ASSUME Inv, LinkInv, BestInv, Straight, scene' = scene, NEW t, scene.threads = {t},
           NEW b \in Block \ {Genesis}, AcceptBlockHeader(t, b)
    PROVE  BestInv'
<1>1. Typed /\ KnownInv
  BY DEF Inv, LinkInv
<1>2. /\ up /\ HeaderOK(b) /\ idx' = WithHeader(b) /\ UNCHANGED disk
      /\ UNCHANGED <<seq, nextSeq, cands, tip, aborted, linked, unlinked, pc, mostWork>>
  BY DEF AcceptBlockHeader, Idle, Running, control
<1>3. Checked(idx')
  BY <1>1, <1>2, HeaderChecked DEF BestInv
<1>4. \A c \in Block : Fit(idx'[c]) <=> Fit(idx[c])
  BY <1>1, <1>2, HeaderAdded, ZenonT(60) DEF Fit
<1>5. unlinked' \cap linked' = {}
  BY <1>2 DEF BestInv
<1> QED
  BY <1>1, <1>2, <1>3, <1>4, <1>5, SameBest DEF disk

\* FlushStateToDisk writes what is there.
LEMMA FlushBest ==
    ASSUME Typed, BestInv, Straight, scene' = scene, NEW t, scene.threads = {t},
           FlushCoins \/ \E full \in BOOLEAN : FlushStateToDisk(full)
    PROVE  BestInv'
<1>1. /\ up /\ UNCHANGED <<idx, seq, nextSeq, cands, tip, aborted, linked, unlinked>>
      /\ UNCHANGED <<pc, mostWork>>
      /\ \A b \in Block : idxDisk'[b] = idxDisk[b] \/ idxDisk'[b] = idx'[b]
  BY DEF FlushCoins, FlushStateToDisk, WriteIndex, Running, tree, control
<1>2. Checked(idx') /\ unlinked' \cap linked' = {}
  BY <1>1 DEF BestInv
<1> QED
  BY <1>1, <1>2, SameBest DEF Fit

(***************************************************************************)
(* ActivateBestChainStep.                                                  *)
(***************************************************************************)
\* The thread that does the step: it has settled on the best chain.
LEMMA Stepping ==
    ASSUME Inv, BestInv, Straight, NEW t, scene.threads = {t}, Holds(t, "step")
    PROVE  /\ Typed /\ up /\ ~ flushing /\ pc[t] = "step" /\ t \in Thread
           /\ mostWork[t] \in Block /\ mostWork[t] \in cands /\ Good(mostWork[t])
           /\ Tops(mostWork[t]) /\ \E r \in Block : Refuge(r)
           /\ seq \in [Block -> Nat] /\ Checked(idx) /\ unlinked \cap linked = {}
           /\ \A c \in cands : ~ Worse(c, tip)
<1>1. Typed /\ up /\ ~ flushing /\ pc[t] = "step" /\ t \in Thread
  BY StraightThread DEF Inv, Holds, Running
<1>2. mostWork[t] \in Block /\ Working(t)
  BY <1>1, TreeAssumption DEF Inv, ThreadInv, Working
<1> QED
  BY <1>1, <1>2 DEF BestInv, Placed

\* A block the thread has reached is a refuge itself.
LEMMA Arrived ==
    ASSUME NEW m \in Block, m \in cands', Good(m)', Tops(m)', ~ Tainted(m)'
    PROVE  Refuge(m)'
BY DEF Tops, Refuge

LEMMA StepDisconnectBest ==
    ASSUME Inv, BestInv, Straight, scene' = scene, NEW t, scene.threads = {t},
           StepDisconnect(t)
    PROVE  BestInv'
<1>1. /\ Holds(t, "step") /\ tip \notin Ancestors[mostWork[t]] /\ cands' = cands
      /\ idx' = idx /\ UNCHANGED <<seq, nextSeq, linked, unlinked, aborted>>
      /\ tip' = Parent[tip] /\ Flushed(dirty)
  BY DisconnectTipFlushes DEF StepDisconnect, DisconnectTip
<1>2. /\ Typed /\ up /\ t \in Thread /\ mostWork[t] \in Block /\ mostWork[t] \in cands
      /\ Good(mostWork[t]) /\ Tops(mostWork[t]) /\ pc[t] = "step"
      /\ seq \in [Block -> Nat] /\ Checked(idx) /\ unlinked \cap linked = {}
      /\ \A c \in cands : ~ Worse(c, tip)
  BY <1>1, Stepping
<1>3. PICK r \in Block : Refuge(r)
  BY <1>1, Stepping
<1>4. /\ tip \in Block \ {Genesis} /\ Parent[tip] \in Block
      /\ Parent[tip] \in Ancestors[tip] /\ Parent[tip] # tip
  <2>1. tip \in Block \ {Genesis}
    BY <1>1, <1>2, RootAssumption DEF Typed
  <2> QED
    BY <2>1, ParentBelow
<1>5. \A c \in cands : c \in Block /\ ~ Worse(c, Parent[tip])
  BY <1>2, <1>4, AncestorsWorse, WorseIsOrder DEF Typed, Worse
<1>6. \A b \in Block : Good(b)' <=> Good(b)
  BY <1>1 DEF Good, AllData, Failed
<1>7. Refuge(r)'
  BY <1>1, <1>3, <1>6 DEF Refuge, Worse, Tainted, Bad
<1>8. PICK m : m = mostWork[t]
  OBVIOUS
<1>9. m \in Block /\ m \in cands' /\ Good(m)' /\ Tops(m)'
  BY <1>1, <1>2, <1>6, <1>8 DEF Tops, Worse
<1>10. \/ pc'[t] = "step" /\ mostWork'[t] = m
       \/ pc'[t] = "idle" /\ mostWork'[t] = NoBlock /\ tip' = m
  BY <1>1, <1>2, <1>8 DEF StepDisconnect, AfterStep, Leave, Release, Typed
<1>11. tip' = m => ~ Tainted(m)'
  BY <1>1, <1>2, <1>4, AncestorsTransitive DEF Inv, ChainInv, Tainted, Bad
<1>12. Placed(t)'
  BY <1>7, <1>9, <1>10, <1>11, Arrived, PlaceNow DEF Working
<1>13. \A b \in Block : idxDisk'[b] = idxDisk[b] \/ idxDisk'[b] = idx'[b]
  BY <1>1, DiskWritten
<1>14. /\ Checked(idx') /\ seq' \in [Block -> Nat] /\ nextSeq' \in Nat /\ ~ aborted'
       /\ unlinked' \cap linked' = {} /\ \A c \in cands' : ~ WorseBy(seq', c, tip')
  BY <1>1, <1>2, <1>5 DEF Worse, BestInv
<1> QED
  BY <1>2, <1>12, <1>13, <1>14, BestStep

\* What ConnectTip makes of an entry: as fit as it was, and checked.
LEMMA ConnectedEntry ==
    ASSUME NEW e \in Entry, NEW f,
           f = IF ~ e.undo \/ ~ IsValid(e, SCRIPTS)
               THEN RaiseValidity([e EXCEPT !.undo = TRUE], SCRIPTS) ELSE e,
           e.valid \in {TRANSACTIONS, SCRIPTS}
    PROVE  (Fit(f) <=> Fit(e)) /\ f.valid \in {TRANSACTIONS, SCRIPTS}
<1>1. PICK g : g = [e EXCEPT !.undo = TRUE]
  OBVIOUS
<1>2. g \in Entry /\ g.failed = e.failed /\ g.valid = e.valid /\ g.data = e.data
  BY <1>1, UndoFields
<1>3. PICK h : h = RaiseValidity(g, SCRIPTS)
  OBVIOUS
<1>4. h.failed = g.failed /\ h.data = g.data
  BY <1>2, <1>3, RaiseFields
<1>5. h.valid \in {g.valid, SCRIPTS}
  BY <1>2, <1>3 DEF RaiseValidity, Entry
<1>6. f = h \/ f = e
  BY <1>1, <1>3
<1> QED
  BY <1>2, <1>4, <1>5, <1>6 DEF Fit

LEMMA StepConnectBest ==
    ASSUME Inv, LinkInv, BestInv, Straight, scene' = scene, NEW t, scene.threads = {t},
           StepConnect(t)
    PROVE  BestInv'
<1>1. PICK b : b = ToConnect(t)
  OBVIOUS
<1>2. PICK f : f = IF ~ idx[b].undo \/ ~ IsValid(idx[b], SCRIPTS)
                   THEN RaiseValidity([idx[b] EXCEPT !.undo = TRUE], SCRIPTS) ELSE idx[b]
  OBVIOUS
<1>3. /\ Holds(t, "step") /\ tip \in Ancestors[mostWork[t]] /\ tip # mostWork[t]
      /\ b \notin scene.badConnect /\ tip' = b /\ cands' = {c \in cands : ~ Worse(c, b)}
      /\ aborted' = (cands' = {}) /\ UNCHANGED <<seq, nextSeq, linked, unlinked>>
      /\ \E d : FlushIfNeeded(idx', d)
  BY <1>1 DEF StepConnect, PruneBlockIndexCandidates
<1>4. /\ Typed /\ up /\ t \in Thread /\ mostWork[t] \in Block /\ mostWork[t] \in cands
      /\ Good(mostWork[t]) /\ Tops(mostWork[t]) /\ pc[t] = "step"
      /\ seq \in [Block -> Nat] /\ Checked(idx) /\ unlinked \cap linked = {}
  BY <1>3, Stepping
<1>5. PICK r \in Block : Refuge(r)
  BY <1>3, Stepping
<1>6. PICK m : m = mostWork[t]
  OBVIOUS
<1>7. /\ b \in Block \ {Genesis} /\ b \in Ancestors[m] /\ Ancestors[b] = {b} \cup Ancestors[tip]
  BY <1>1, <1>3, <1>4, <1>6, ToConnectFound
<1>8. \A a \in Ancestors[m] : a \in Block /\ Fit(idx[a])
  BY <1>4, <1>6, AncestorsClosed, GoodFit
<1>9. Good(b) /\ ~ Tainted(b)
  <2>1. Good(b)
    BY <1>4, <1>6, <1>7, <1>8, AncestorsTransitive, GoodFit
  <2>2. b \notin Bad
    BY <1>3, <1>7, <1>8 DEF Inv, IndexInv, DataInv, Bad, Fit
  <2>3. \A a \in Ancestors[tip] : a \notin Bad
    BY DEF Inv, ChainInv
  <2> QED
    BY <1>7, <2>1, <2>2, <2>3 DEF Tainted
<1>10. idx[b] \in Entry /\ idx[b].valid \in {TRANSACTIONS, SCRIPTS}
  BY <1>4, <1>7, <1>8 DEF Typed, Fit, Checked, Inv, IndexInv, DataInv
<1>11. (Fit(f) <=> Fit(idx[b])) /\ f.valid \in {TRANSACTIONS, SCRIPTS}
  BY <1>2, <1>10, ConnectedEntry, ZenonT(60)
<1>12. idx'[b] = f /\ \A c \in Block \ {b} : idx'[c] = idx[c]
  BY <1>1, <1>2, <1>4, <1>7 DEF StepConnect, Typed
<1>13. Checked(idx') /\ \A c \in Block : Good(c)' <=> Good(c)
  <2>1. \A c \in Block : Fit(idx'[c]) <=> Fit(idx[c])
    BY <1>11, <1>12
  <2>2. Checked(idx')
    BY <1>4, <1>11, <1>12 DEF Checked
  <2> QED
    BY <2>1, <2>2, SameGood
<1>14. /\ \A a \in Block : ~ Worse(a, a)
       /\ \A a, c, d \in Block : Worse(a, c) /\ Worse(c, d) => Worse(a, d)
       /\ \A a, c \in Block : a = c \/ Worse(a, c) \/ Worse(c, a)
  BY <1>4, WorseIsOrder
<1>15. b = m \/ Worse(b, m)
  BY <1>4, <1>6, <1>7, AncestorsWorse DEF Worse
<1>16. m \in Block /\ m \in cands' /\ Good(m)' /\ Tops(m)'
  <2>1. m \in cands'
    BY <1>3, <1>4, <1>6, <1>7, <1>14, <1>15
  <2> QED
    BY <1>3, <1>4, <1>6, <1>13, <2>1 DEF Tops, Worse
<1>17. \E q \in Block : Refuge(q)'
  <2>1. /\ r \in cands /\ Good(r) /\ ~ Tainted(r)
        /\ \A c \in Block : Good(c) => c \in cands \/ Worse(c, r)
    BY <1>5 DEF Refuge
  <2>2. CASE Worse(r, b)
    <3>1. b \in cands'
      BY <1>3, <1>7, <1>9, <1>14, <2>1, <2>2
    <3>2. \A c \in Block : Good(c) => c \in cands' \/ Worse(c, b)
      BY <1>3, <1>7, <1>14, <2>1, <2>2
    <3>3. Refuge(b)'
      BY <1>3, <1>7, <1>9, <1>13, <3>1, <3>2 DEF Refuge, Worse, Tainted, Bad
    <3> QED
      BY <1>7, <3>3
  <2>3. CASE ~ Worse(r, b)
    <3>1. r \in cands'
      BY <1>3, <2>1, <2>3
    <3>2. \A c \in Block : Good(c) => c \in cands' \/ Worse(c, r)
      BY <1>3, <1>7, <1>14, <2>1, <2>3
    <3>3. Refuge(r)'
      BY <1>3, <1>13, <2>1, <3>1, <3>2 DEF Refuge, Worse, Tainted, Bad
    <3> QED
      BY <3>3
  <2> QED
    BY <2>2, <2>3
<1>18. \/ pc'[t] \in {"step", "loop"} /\ mostWork'[t] = m
       \/ pc'[t] = "idle" /\ mostWork'[t] = NoBlock /\ b = m
  <2>1. AfterStep(t, b) \/ UNCHANGED <<holder, pc, mostWork, nested>>
    BY <1>1 DEF StepConnect
  <2> QED
    BY <1>4, <1>6, <2>1 DEF AfterStep, Leave, Release, Typed
<1>19. Placed(t)'
  <2>1. b = m => Refuge(m)'
    BY <1>9, <1>16, Arrived DEF Tainted, Bad
  <2> QED
    BY <1>3, <1>16, <1>17, <1>18, <2>1, PlaceNow DEF Working
<1>20. \A c \in Block : idxDisk'[c] = idxDisk[c] \/ idxDisk'[c] = idx'[c]
  BY <1>3 DEF FlushIfNeeded, WriteIndex, disk
<1>21. /\ seq' \in [Block -> Nat] /\ nextSeq' \in Nat /\ ~ aborted'
       /\ unlinked' \cap linked' = {} /\ \A c \in cands' : ~ WorseBy(seq', c, tip')
  BY <1>3, <1>4, <1>16 DEF Worse, BestInv
<1> QED
  BY <1>4, <1>13, <1>19, <1>20, <1>21, BestStep

\* One block is marked: those above it are good no more, and nothing else changes.
LEMMA MarkedGood ==
    ASSUME Typed, NEW b \in Block, NEW flag \in {"VALID", "CHILD"},
           idx' = [idx EXCEPT ![b] = Mark(@, flag)], Checked(idx)
    PROVE  /\ Checked(idx')
           /\ \A c \in Block : Good(c)' <=> Good(c) /\ b \notin Ancestors[c]
<1>1. idx[b] \in Entry
  BY DEF Typed
<1>2. PICK f : f = Mark(idx[b], flag)
  OBVIOUS
<1>3. /\ f.failed # {} /\ f.valid = idx[b].valid /\ f.nTx = idx[b].nTx
  BY <1>1, <1>2, MarkFields
<1>4. idx'[b] = f /\ \A c \in Block \ {b} : idx'[c] = idx[c]
  BY <1>2 DEF Typed
<1>5. Checked(idx')
  BY <1>3, <1>4 DEF Checked
<1>6. ASSUME NEW c \in Block PROVE Good(c)' <=> Good(c) /\ b \notin Ancestors[c]
  <2>1. Ancestors[c] \subseteq Block
    BY AncestorsClosed
  <2>2. CASE b \in Ancestors[c]
    BY <1>3, <1>4, <2>2 DEF Good, Failed
  <2>3. CASE b \notin Ancestors[c]
    BY <1>4, <2>1, <2>3 DEF Good, AllData, Failed
  <2> QED
    BY <2>2, <2>3
<1> QED
  BY <1>5, <1>6

LEMMA StepInvalidBest ==
    ASSUME Inv, BestInv, Straight, scene' = scene, NEW t, scene.threads = {t},
           StepInvalid(t)
    PROVE  BestInv'
<1>1. PICK b : b = ToConnect(t)
  OBVIOUS
<1>2. /\ Holds(t, "step") /\ tip \in Ancestors[mostWork[t]] /\ tip # mostWork[t]
      /\ b \in scene.badConnect \cup scene.dubious
      /\ idx' = [idx EXCEPT ![b] = Mark(@, "VALID")] /\ cands' = cands \ {b}
      /\ mostWork' = [mostWork EXCEPT ![t] = NoBlock] /\ pc' = [pc EXCEPT ![t] = "loop"]
      /\ UNCHANGED <<seq, nextSeq, linked, unlinked, tip, aborted>> /\ UNCHANGED disk
  BY <1>1 DEF StepInvalid
<1>3. /\ Typed /\ up /\ t \in Thread /\ mostWork[t] \in Block
      /\ seq \in [Block -> Nat] /\ Checked(idx) /\ unlinked \cap linked = {}
      /\ \A c \in cands : ~ Worse(c, tip)
  BY <1>2, Stepping
<1>4. PICK r \in Block : Refuge(r)
  BY <1>2, Stepping
<1>5. b \in Block \ {Genesis} /\ b \in Bad
  <2>1. b \in Block \ {Genesis}
    BY <1>1, <1>2, <1>3, ToConnectFound
  <2> QED
    BY <1>2, <2>1 DEF Straight, Orderly, Decided, Bad
<1>6. /\ Checked(idx')
      /\ \A c \in Block : Good(c)' <=> Good(c) /\ b \notin Ancestors[c]
  BY <1>2, <1>3, <1>5, MarkedGood
<1>7. Refuge(r)'
  <2>1. /\ r \in cands /\ Good(r) /\ ~ Tainted(r)
        /\ \A c \in Block : Good(c) => c \in cands \/ Worse(c, r)
    BY <1>4 DEF Refuge
  <2>2. b \notin Ancestors[r] /\ b # r
    BY <1>5, <2>1, AncestorsClosed DEF Tainted
  <2>3. \A c \in Block : Good(c)' => c \in cands' \/ Worse(c, r)
    BY <1>2, <1>6, <2>1, AncestorsClosed
  <2> QED
    BY <1>2, <1>6, <2>1, <2>2, <2>3 DEF Refuge, Worse, Tainted, Bad
<1>8. pc'[t] = "loop" /\ mostWork'[t] = NoBlock
  BY <1>2, <1>3 DEF Typed
<1>9. Placed(t)'
  BY <1>7, <1>8, PlaceNow DEF Working
<1>10. /\ seq' \in [Block -> Nat] /\ nextSeq' \in Nat /\ ~ aborted'
       /\ unlinked' \cap linked' = {} /\ \A c \in cands' : ~ WorseBy(seq', c, tip')
       /\ \A c \in Block : idxDisk'[c] = idxDisk[c] \/ idxDisk'[c] = idx'[c]
  BY <1>2, <1>3 DEF Worse, BestInv, disk
<1> QED
  BY <1>3, <1>6, <1>9, <1>10, BestStep

(***************************************************************************)
(* InvalidateBlock.                                                        *)
(***************************************************************************)
LEMMA InvalidateBlockBest ==
    ASSUME Inv, BestInv, Straight, scene' = scene, NEW t, scene.threads = {t},
           NEW b \in Block, InvalidateBlock(t, b)
    PROVE  BestInv'
<1>1. /\ up /\ idx' = [idx EXCEPT ![b] = Mark(@, "VALID")] /\ cands' = cands \ {b}
      /\ pc' = [pc EXCEPT ![t] = "invalidate"] /\ UNCHANGED disk
      /\ UNCHANGED <<seq, nextSeq, linked, unlinked, tip, aborted>>
  BY DEF InvalidateBlock, Idle, Running
<1>2. Typed /\ t \in Thread /\ pc'[t] = "invalidate"
  BY <1>1, StraightThread DEF Inv, Typed
<1>3. /\ seq \in [Block -> Nat] /\ nextSeq \in Nat /\ Checked(idx) /\ ~ aborted
      /\ unlinked \cap linked = {} /\ \A c \in cands : ~ Worse(c, tip)
  BY <1>1 DEF BestInv
<1>4. Checked(idx')
  BY <1>1, <1>2, <1>3, MarkedGood
<1>5. Placed(t)'
  BY <1>2, PlaceNow DEF Working
<1>6. /\ seq' \in [Block -> Nat] /\ nextSeq' \in Nat /\ ~ aborted'
      /\ unlinked' \cap linked' = {} /\ \A c \in cands' : ~ WorseBy(seq', c, tip')
      /\ \A c \in Block : idxDisk'[c] = idxDisk[c] \/ idxDisk'[c] = idx'[c]
  BY <1>1, <1>3 DEF Worse, disk
<1> QED
  BY <1>1, <1>4, <1>5, <1>6, BestStep

LEMMA InvalidateDisconnectBest ==
    ASSUME Inv, BestInv, Straight, scene' = scene, NEW t, scene.threads = {t},
           InvalidateDisconnect(t)
    PROVE  BestInv'
<1>1. /\ up /\ pc[t] = "invalidate" /\ UNCHANGED <<pc, mostWork>>
      /\ mostWork[t] \in Ancestors[tip] /\ cands' = cands \ {tip}
      /\ DisconnectTip([idx EXCEPT ![tip] = Mark(@, "CHILD")], dirty \cup {tip})
      /\ UNCHANGED <<seq, nextSeq, linked, unlinked, aborted>>
  BY DEF InvalidateDisconnect, Holds, Running, Active, control, DisconnectTip
<1>2. Typed /\ t \in Thread /\ tip \in Block /\ mostWork[t] \in Block \ {Genesis}
  BY <1>1, StraightThread DEF Inv, Typed, ThreadInv
<1>3. /\ seq \in [Block -> Nat] /\ nextSeq \in Nat /\ Checked(idx) /\ ~ aborted
      /\ unlinked \cap linked = {} /\ \A c \in cands : ~ Worse(c, tip)
  BY <1>1 DEF BestInv
<1>4. /\ tip' = Parent[tip] /\ idx' = [idx EXCEPT ![tip] = Mark(@, "CHILD")]
      /\ Flushed(dirty \cup {tip})
  BY <1>1, DisconnectTipFlushes
<1>5. Checked(idx')
  BY <1>2, <1>3, <1>4, MarkedGood
<1>6. \A c \in cands' : ~ Worse(c, Parent[tip])
  <2>1. tip # Genesis
    BY <1>1, <1>2, AncestorsOfGenesis
  <2>2. Parent[tip] \in Block /\ Parent[tip] \in Ancestors[tip] /\ Parent[tip] # tip
    BY <1>2, <2>1, ParentBelow
  <2>3. cands' \subseteq Block /\ cands' \subseteq cands
    BY <1>1, <1>2 DEF Typed
  <2> QED
    BY <1>2, <1>3, <2>2, <2>3, AncestorsWorse, WorseIsOrder DEF Worse
<1>7. Placed(t)'
  BY <1>1, PlaceNow DEF Working
<1>8. \A c \in Block : idxDisk'[c] = idxDisk[c] \/ idxDisk'[c] = idx'[c]
  BY <1>4, DiskWritten
<1>9. /\ seq' \in [Block -> Nat] /\ nextSeq' \in Nat /\ ~ aborted'
      /\ unlinked' \cap linked' = {} /\ \A c \in cands' : ~ WorseBy(seq', c, tip')
  BY <1>1, <1>3, <1>4, <1>6 DEF Worse
<1> QED
  BY <1>1, <1>5, <1>7, <1>8, <1>9, BestStep

\* A good block is linked, and valid as a candidate.
LEMMA GoodLinked ==
    ASSUME Inv, LinkInv, Straight, up, Checked(idx), NEW b \in Block, Good(b)
    PROVE  b \in linked /\ IsValid(idx[b], TRANSACTIONS)
<1>1. Typed /\ Ancestors[b] \subseteq Block /\ b \in Ancestors[b]
  BY AncestorsClosed DEF Inv
<1>2. \A a \in Ancestors[b] : idx[a].data /\ idx[a].failed = {} /\ idx[a].nTx
  BY <1>1 DEF Good, AllData, Failed, Inv, IndexInv, DataInv
<1>3. b \in Known
  BY <1>1, <1>2, FixedEntries DEF Known
<1>4. Seen(b) /\ NoInvalid(b) /\ AllData(b) /\ Unreconsidered
  BY <1>2 DEF Seen, NoInvalid, AllData, Straight
<1>5. b \in linked
  BY <1>3, <1>4, InvLost DEF NoBlockLost, LinkedExactly
<1>6. idx[b].failed = {} /\ idx[b].valid \in {TRANSACTIONS, SCRIPTS}
  BY <1>1, <1>2 DEF Checked
<1>7. IsValid(idx[b], TRANSACTIONS)
  BY <1>6, SMTT(30) DEF IsValid, TRANSACTIONS, SCRIPTS
<1> QED
  BY <1>5, <1>7

\* The active chain is good, once InvalidateBlock has taken it down.
LEMMA ActiveGood ==
    ASSUME Inv, LinkInv, Straight, up, NEW t, scene.threads = {t},
           pc[t] = "invalidate" => mostWork[t] \notin Ancestors[tip]
    PROVE  ~ Tainted(tip) /\ \A a \in Ancestors[tip] : a \in Block /\ Fit(idx[a])
<1>1. Typed /\ tip \in Block /\ Ancestors[tip] \subseteq Block
  BY AncestorsClosed DEF Inv, Typed
<1>2. ~ Tainted(tip)
  BY DEF Inv, ChainInv, Tainted
<1>3. ASSUME NEW a \in Ancestors[tip] PROVE idx[a].data /\ idx[a].failed = {}
  <2>1. a \in Block /\ Ancestors[a] \subseteq Ancestors[tip]
    BY <1>1, AncestorsTransitive
  <2>2. idx[a].data
    <3>1. tip \in linked /\ KnownInv /\ LinkedInv
      BY DEF LinkInv, LinkedInv
    <3>2. idx[a].nTx
      BY <1>1, <3>1, LinkedKnown
    <3> QED
      BY <2>1, <3>1, <3>2 DEF KnownInv, Headed, Straight
  <2>3. CASE Settled
    BY <1>2, <2>1, <2>2, <2>3 DEF Inv, IndexInv, TaintInv, Tainted
  <2>4. CASE Alone
    BY <1>3, <2>1, <2>2, <2>4 DEF Inv, AloneInv, Active, Failed
  <2> QED
    BY <2>3, <2>4 DEF Straight, Orderly, Undisturbed, Alone
<1> QED
  BY <1>1, <1>2, <1>3 DEF Fit

LEMMA InvalidateEndBest ==
    ASSUME Inv, LinkInv, BestInv, Straight, scene' = scene, NEW t, scene.threads = {t},
           InvalidateEnd(t)
    PROVE  BestInv'
<1>1. /\ up /\ pc[t] = "invalidate" /\ mostWork[t] \notin Ancestors[tip]
      /\ cands' = cands \cup NowGoodEnough /\ UNCHANGED disk
      /\ UNCHANGED <<idx, seq, nextSeq, linked, unlinked, tip, aborted>>
      /\ mostWork' = [mostWork EXCEPT ![t] = NoBlock] /\ pc' = [pc EXCEPT ![t] = "loop"]
  BY DEF InvalidateEnd, Holds, Running, Active, Release
<1>2. Typed /\ t \in Thread /\ tip \in Block
  BY StraightThread DEF Inv, Typed
<1>3. /\ seq \in [Block -> Nat] /\ nextSeq \in Nat /\ Checked(idx) /\ ~ aborted
      /\ unlinked \cap linked = {} /\ \A c \in cands : ~ Worse(c, tip)
  BY <1>1 DEF BestInv
<1>4. Good(tip) /\ ~ Tainted(tip)
  BY <1>1, <1>2, ActiveGood, GoodFit
<1>5. \A c \in Block : Good(c) => c \in cands' \/ Worse(c, tip)
  BY <1>1, <1>3, GoodLinked DEF NowGoodEnough
<1>6. tip \in cands'
  BY <1>2, <1>3, <1>4, <1>5, WorseIsOrder
<1>7. PICK z : z = tip
  OBVIOUS
<1>8. Refuge(z)'
  BY <1>1, <1>4, <1>5, <1>6, <1>7 DEF Refuge, Good, AllData, Failed, Worse, Tainted, Bad
<1>9. pc'[t] = "loop" /\ mostWork'[t] = NoBlock
  BY <1>1, <1>2 DEF Typed
<1>10. Placed(t)'
  BY <1>2, <1>7, <1>8, <1>9, PlaceNow DEF Working
<1>11. /\ seq' \in [Block -> Nat] /\ nextSeq' \in Nat /\ ~ aborted'
       /\ unlinked' \cap linked' = {} /\ Checked(idx')
       /\ \A c \in cands' : ~ WorseBy(seq', c, tip')
       /\ \A c \in Block : idxDisk'[c] = idxDisk[c] \/ idxDisk'[c] = idx'[c]
  BY <1>1, <1>3 DEF Worse, disk, NowGoodEnough
<1> QED
  BY <1>1, <1>10, <1>11, BestStep

(***************************************************************************)
(* FindMostWorkChain.                                                      *)
(***************************************************************************)
\* It marks and drops no good block, and while nothing is pruned it makes none wait.
LEMMA FoundGood ==
    ASSUME Inv, LinkInv, Straight, up, Checked(idx), NEW m, FindMostWorkChain(m)
    PROVE  /\ Checked(idx') /\ unlinked' = unlinked /\ cands' \subseteq cands
           /\ \A c \in Block : Good(c)' <=> Good(c)
           /\ \A c \in Block : Good(c) /\ c \in cands => c \in cands'
<1> DEFINE usable == UsableCandidates
           tried == {c \in cands \ usable : usable # {} => Worse(m, c)}
           onFailed == {c \in tried : Failed(Stop(c))}
<1>1. /\ cands' = cands \ UNION {Above(c) \cup {Stop(c)} : c \in tried}
      /\ unlinked' = unlinked \cup UNION {Above(c) : c \in tried \ onFailed}
  BY DEF FindMostWorkChain
<1>2. Typed /\ KnownInv /\ LinkedInv /\ tip \in Block
  BY DEF Inv, LinkInv, Typed
<1>3. ASSUME NEW c \in tried
      PROVE  /\ c \in Block /\ c \in linked /\ Stop(c) \in Ancestors[c] /\ Stop(c) \in Block
             /\ Unusable(Stop(c))
  <2>1. c \in Block /\ c \in linked /\ ~ Usable(c)
    BY <1>2 DEF UsableCandidates, Typed, LinkedInv
  <2> QED
    BY <1>2, <2>1, StopFound, AncestorsClosed DEF Path
<1>4. tried \ onFailed = {}
  <2> SUFFICES ASSUME NEW c \in tried, ~ Failed(Stop(c)) PROVE FALSE
    OBVIOUS
  <2>1. idx[Stop(c)].nTx
    BY <1>2, <1>3, LinkedKnown
  <2>2. idx[Stop(c)].data
    BY <1>2, <1>3, <2>1 DEF KnownInv, Headed, Straight
  <2> QED
    BY <1>3, <2>2 DEF Unusable
<1>5. unlinked' = unlinked
  BY <1>1, <1>4
<1>6. ASSUME NEW c \in Block, Good(c), c \in cands PROVE c \in cands'
  <2> SUFFICES ASSUME NEW d \in tried, c \in Above(d) \/ c = Stop(d) PROVE FALSE
    BY <1>1, <1>6
  <2>1. Stop(d) \in Ancestors[c]
    BY <1>3, AncestorsLinear, AncestorsClosed DEF Above
  <2> QED
    BY <1>3, <1>6, <2>1 DEF Unusable, Good, AllData
<1>7. \A b \in Block : \/ idx'[b] = idx[b]
                       \/ /\ idx'[b] = Mark(idx[b], "CHILD")
                          /\ \E a \in Ancestors[b] : idx[a].failed # {}
  BY <1>2, MarkedAbove
<1>8. \A b \in Block : /\ idx'[b].nTx = idx[b].nTx /\ idx'[b].valid = idx[b].valid
                       /\ idx'[b].data = idx[b].data
                       /\ idx'[b].failed = {} => idx[b].failed = {}
  <2> TAKE b \in Block
  <2>1. idx[b] \in Entry
    BY <1>2 DEF Typed
  <2>2. PICK f : f = Mark(idx[b], "CHILD")
    OBVIOUS
  <2>3. /\ f.nTx = idx[b].nTx /\ f.valid = idx[b].valid /\ f.data = idx[b].data
        /\ f.failed # {}
    BY <2>1, <2>2, MarkFields
  <2> QED
    BY <1>7, <2>2, <2>3
<1>9. Checked(idx')
  BY <1>8 DEF Checked
<1>10. ASSUME NEW c \in Block PROVE Good(c)' <=> Good(c)
  <2>1. Ancestors[c] \subseteq Block
    BY AncestorsClosed
  <2>2. Good(c)' => Good(c)
    BY <1>8, <2>1 DEF Good, AllData, Failed
  <2>3. ASSUME Good(c), NEW a \in Ancestors[c] PROVE idx'[a] = idx[a]
    BY <1>7, <2>1, <2>3, AncestorsTransitive DEF Good, Failed
  <2>4. Good(c) => Good(c)'
    BY <2>3 DEF Good, AllData, Failed
  <2> QED
    BY <2>2, <2>4
<1> QED
  BY <1>1, <1>5, <1>6, <1>9, <1>10

\* With a block to come back to, what it returns is the best of the good ones.
LEMMA FoundBest ==
    ASSUME Inv, LinkInv, Straight, up, seq \in [Block -> Nat], NEW t, scene.threads = {t},
           pc[t] = "loop", NEW r \in Block, Refuge(r), NEW m \in MostWork
    PROVE  m \in Block /\ m \in cands /\ Good(m) /\ Tops(m)
<1>1. cands \subseteq Block /\ \A c \in Block : Good(c) => Usable(c)
  BY DEF Inv, Typed, Usable, Path, Unusable, Good, AllData
<1>2. r \in UsableCandidates
  BY <1>1 DEF Refuge, UsableCandidates
<1>3. m \in UsableCandidates /\ \A a \in UsableCandidates \ {m} : Worse(a, m)
  BY <1>2 DEF MostWork, Best
<1>4. m \in cands /\ m \in Block /\ Usable(m)
  BY <1>1, <1>3 DEF UsableCandidates
<1>5. Good(m)
  <2>1. \A a \in Ancestors[tip] : Fit(idx[a])
    BY ActiveGood
  <2> QED
    BY <1>4, <2>1 DEF Good, AllData, Failed, Fit, Usable, Unusable, Path, Active
<1>6. ASSUME NEW c \in Block, Good(c) PROVE c = m \/ Worse(c, m)
  <2>1. CASE c \in cands
    BY <1>1, <1>3, <1>6, <2>1 DEF UsableCandidates
  <2>2. CASE Worse(c, r)
    BY <1>2, <1>3, <1>4, <2>2, WorseIsOrder
  <2> QED
    BY <1>6, <2>1, <2>2 DEF Refuge
<1> QED
  BY <1>4, <1>5, <1>6 DEF Tops

LEMMA LoopBest ==
    ASSUME Inv, LinkInv, BestInv, Straight, scene' = scene, NEW t, scene.threads = {t},
           Loop(t)
    PROVE  BestInv'
<1>1. /\ up /\ pc[t] = "loop" /\ UNCHANGED disk
      /\ UNCHANGED <<linked, seq, nextSeq, tip, aborted>>
  BY DEF Loop, Running
<1>2. PICK m \in IF mostWork[t] = NoBlock THEN MostWork ELSE {mostWork[t]} :
           /\ IF mostWork[t] = NoBlock THEN FindMostWorkChain(m)
              ELSE UNCHANGED <<cands, idx, unlinked>>
           /\ IF m \in {NoBlock, tip}
              THEN /\ Leave(t)
                   /\ mostWork' = [mostWork EXCEPT ![t] = NoBlock]
                   /\ UNCHANGED oldTip
              ELSE /\ holder' = t
                   /\ pc' = [pc EXCEPT ![t] = "step"]
                   /\ mostWork' = [mostWork EXCEPT ![t] = m]
                   /\ oldTip' = [oldTip EXCEPT ![t] = tip]
                   /\ UNCHANGED nested
  BY DEF Loop
<1>3. /\ Typed /\ t \in Thread /\ tip \in Block /\ NoBlock \notin Block
      /\ pc \in [Thread -> {"idle", "loop", "step", "invalidate", "reprocess"}]
      /\ mostWork \in [Thread -> Block \cup {NoBlock}]
  BY StraightThread, TreeAssumption DEF Inv, Typed
<1>4. /\ seq \in [Block -> Nat] /\ nextSeq \in Nat /\ Checked(idx) /\ ~ aborted
      /\ unlinked \cap linked = {} /\ Placed(t) /\ \A c \in cands : ~ Worse(c, tip)
  BY <1>1 DEF BestInv
<1>5. PICK r \in Block : Refuge(r)
  BY <1>1, <1>4 DEF Placed
<1>6. m \in Block /\ m \in cands /\ Good(m) /\ Tops(m)
  <2>1. CASE mostWork[t] = NoBlock
    BY <1>1, <1>2, <1>4, <1>5, <2>1, FoundBest
  <2>2. CASE mostWork[t] # NoBlock
    <3>1. m = mostWork[t]
      BY <1>2, <2>2
    <3>2. Working(t) /\ m \in Block
      BY <1>1, <1>3, <2>2, <3>1 DEF Working
    <3> QED
      BY <1>4, <3>1, <3>2 DEF Placed
  <2> QED
    BY <2>1, <2>2
<1>7. /\ Checked(idx') /\ unlinked' = unlinked /\ cands' \subseteq cands
      /\ \A c \in Block : Good(c)' <=> Good(c)
      /\ \A c \in Block : Good(c) /\ c \in cands => c \in cands'
  <2>1. CASE mostWork[t] = NoBlock
    BY <1>1, <1>2, <1>4, <2>1, FoundGood
  <2>2. CASE mostWork[t] # NoBlock
    BY <1>2, <1>4, <2>2 DEF Good, AllData, Failed
  <2> QED
    BY <2>1, <2>2
<1>8. m \in cands' /\ Good(m)' /\ Tops(m)'
  BY <1>1, <1>6, <1>7 DEF Tops, Worse
<1>9. Refuge(r)'
  BY <1>1, <1>5, <1>7 DEF Refuge, Worse, Tainted, Bad
<1>10. \A z : z = tip => ~ Tainted(z)'
  BY DEF Inv, ChainInv, Tainted, Bad
<1>11. Placed(t)'
  <2>1. PICK z : z = tip
    OBVIOUS
  <2>2. z \in Block /\ z = tip' /\ ~ Tainted(z)'
    BY <1>1, <1>3, <1>10, <2>1
  <2>3. CASE m = tip
    <3>1. /\ pc' = [pc EXCEPT ![t] = "idle"]
          /\ mostWork' = [mostWork EXCEPT ![t] = NoBlock]
      BY <1>2, <2>3 DEF Leave, Release
    <3>2. pc'[t] = "idle" /\ mostWork'[t] = NoBlock
      BY <1>3, <3>1
    <3>3. m = z /\ Refuge(m)'
      BY <1>6, <1>8, <2>1, <2>2, <2>3, Arrived
    <3>4. Refuge(z)' /\ Tops(z)'
      BY <1>8, <3>3
    <3> QED
      BY <1>9, <2>2, <3>2, <3>4, PlaceNow DEF Working
  <2>4. CASE m # tip
    <3>1. pc'[t] = "step" /\ mostWork'[t] = m
      BY <1>2, <1>3, <1>6, <2>4
    <3> QED
      BY <1>8, <1>9, <2>2, <3>1, PlaceNow DEF Working
  <2> QED
    BY <2>3, <2>4
<1>12. /\ seq' \in [Block -> Nat] /\ nextSeq' \in Nat /\ ~ aborted'
       /\ unlinked' \cap linked' = {}
       /\ \A c \in cands' : ~ WorseBy(seq', c, tip')
       /\ \A c \in Block : idxDisk'[c] = idxDisk[c] \/ idxDisk'[c] = idx'[c]
  BY <1>1, <1>4, <1>7 DEF Worse, disk
<1> QED
  BY <1>1, <1>7, <1>11, <1>12, BestStep

(***************************************************************************)
(* A block arrives.                                                        *)
(***************************************************************************)
LEMMA RaisedValid ==
    ASSUME NEW e \in Entry, e.failed = {}, e.valid # 0
    PROVE  RaiseValidity(e, TRANSACTIONS).valid \in {TRANSACTIONS, SCRIPTS}
BY SMTT(30) DEF RaiseValidity, Entry, TREE, TRANSACTIONS, SCRIPTS

\* The blocks linked now get sequence numbers of their own.
LEMMA NewNumbers ==
    ASSUME seq \in [Block -> Nat], nextSeq \in Nat, NEW S \in SUBSET Block,
           NEW r \in LinkOrders(S)
    PROVE  /\ [d \in Block |-> IF d \in S THEN nextSeq + r[d] ELSE seq[d]] \in [Block -> Nat]
           /\ nextSeq + Cardinality(S) \in Nat
<1>1. Cardinality(S) \in Nat
  BY SizeAssumption
<1>2. r \in [S -> 0..(Cardinality(S) - 1)]
  BY DEF LinkOrders, Bijection, Injection, Surjection
<1>3. \A d \in S : r[d] \in 0..(Cardinality(S) - 1)
  BY <1>2
<1>4. \A d \in S : r[d] \in Nat
  BY <1>1, <1>3, SMTT(30)
<1>5. \A d \in S : nextSeq + r[d] \in Nat
  BY <1>4, SMTT(30)
<1>6. nextSeq + Cardinality(S) \in Nat
  BY <1>1, SMTT(30)
<1> QED
  BY <1>5, <1>6

\* A block that is good once b has come is linked with b, if b is.
LEMMA GoodWaits ==
    ASSUME Inv, LinkInv, Straight, scene' = scene, up, NEW b \in Block \ {Genesis},
           \A c \in Block \ {b} : idx'[c] = idx[c], ~ idx[b].data, idx[b].failed = {},
           NEW c \in Block, b \in Ancestors[c], Good(c)'
    PROVE  c \in NowLinked(b) /\ Good(Parent[b])
<1>1. Typed /\ LinkedInv /\ WaitInv /\ Unreconsidered /\ KnownInv
  BY DEF Inv, LinkInv, Straight
<1>2. \A a \in Ancestors[c] : idx'[a].data /\ idx'[a].failed = {} /\ a \in Block
  BY AncestorsClosed DEF Good, AllData, Failed
<1>3. \A a \in Ancestors[c] : idx[a].failed = {} /\ (a # b => idx[a].data)
  BY <1>2
<1>4. ~ idx[b].nTx
  BY <1>1 DEF KnownInv, Headed, Straight
<1>5. ASSUME NEW a \in Ancestors[c] \ Ancestors[b] PROVE a \in unlinked
  <2>1. a \in Block /\ b \in Ancestors[a] /\ a # b
    BY <1>2, AncestorsClosed, AncestorsLinear
  <2>2. a # Genesis
    BY <2>1, AncestorsOfGenesis
  <2>3. NoInvalid(a)
    BY <1>3, <2>1, AncestorsTransitive DEF NoInvalid
  <2>4. a \notin linked
    BY <1>1, <1>4, <2>1, LinkedKnown
  <2> QED
    BY <1>1, <1>3, <2>1, <2>2, <2>3, <2>4 DEF WaitInv
<1>6. c \in NowLinked(b)
  BY <1>5 DEF NowLinked
<1>7. Good(Parent[b])
  <2>1. Parent[b] \in Block /\ Ancestors[b] = {b} \cup Ancestors[Parent[b]]
    BY AncestorsStep
  <2>2. b \notin Ancestors[Parent[b]]
    BY NoCycle
  <2>3. Ancestors[b] \subseteq Ancestors[c]
    BY AncestorsTransitive
  <2> QED
    BY <1>3, <2>1, <2>2, <2>3 DEF Good, AllData, Failed
<1> QED
  BY <1>6, <1>7

LEMMA ReceivedBest ==
    ASSUME Inv, LinkInv, BestInv, Straight, scene' = scene, NEW t, scene.threads = {t}, up,
           NEW b \in Block \ {Genesis}, ~ idx[b].data, idx[b].failed = {},
           \A c \in Block \ {b} : idx'[c] = idx[c], Checked(idx'), UNCHANGED disk,
           tip' = tip, aborted' = aborted, pc[t] = "idle", pc'[t] = "loop",
           mostWork'[t] = NoBlock, ReceivedBlockTransactions(b)
    PROVE  BestInv'
<1>1. /\ Typed /\ KnownInv /\ LinkedInv /\ tip \in Block /\ linked \subseteq Block
      /\ linked \in Closed /\ cands \subseteq linked /\ tip \in linked
      /\ \A c \in unlinked : c \in Block /\ idx[c].nTx
  BY DEF Inv, LinkInv, LinkedInv, Typed
<1>2. /\ seq \in [Block -> Nat] /\ nextSeq \in Nat /\ ~ aborted /\ Checked(idx)
      /\ unlinked \cap linked = {} /\ Refuge(tip) /\ \A c \in cands : ~ Worse(c, tip)
  BY DEF BestInv, Placed
<1>3. ~ idx[b].nTx
  BY <1>1 DEF KnownInv, Headed, Straight
<1>4. \A c \in linked : b \notin Ancestors[c]
  BY <1>1, <1>3, LinkedKnown
<1>5. ASSUME NEW c \in Block, b \notin Ancestors[c] PROVE Good(c)' <=> Good(c)
  <2>1. \A a \in Ancestors[c] : idx'[a] = idx[a]
    BY <1>5, AncestorsClosed
  <2> QED
    BY <2>1 DEF Good, AllData, Failed
<1>6. PICK z : z = tip
  OBVIOUS
<1>7. z \in Block /\ z = tip' /\ Good(z)' /\ ~ Tainted(z)' /\ z \in cands
  <2>1. Good(z) /\ ~ Tainted(z) /\ z \in cands
    BY <1>2, <1>6 DEF Refuge
  <2>2. ~ Tainted(z)'
    BY <2>1 DEF Tainted, Bad
  <2> QED
    BY <1>1, <1>4, <1>5, <1>6, <2>1, <2>2
<1>8. SUFFICES /\ seq' \in [Block -> Nat] /\ nextSeq' \in Nat
               /\ unlinked' \cap linked' = {} /\ cands \subseteq cands'
               /\ \A c \in cands' : ~ WorseBy(seq', c, tip)
               /\ \A c \in Block : Good(c)' => c \in cands' \/ WorseBy(seq', c, tip)
  <2>1. Refuge(z)'
    BY <1>6, <1>7, <1>8 DEF Refuge, Worse
  <2>2. Placed(t)'
    BY <1>7, <2>1, PlaceNow DEF Working
  <2>3. /\ ~ aborted' /\ \A c \in cands' : ~ WorseBy(seq', c, tip')
        /\ \A c \in Block : idxDisk'[c] = idxDisk[c] \/ idxDisk'[c] = idx'[c]
    BY <1>2, <1>8 DEF disk
  <2> QED
    BY <1>8, <2>2, <2>3, BestStep
<1>9. CASE Parent[b] \in linked
  <2> DEFINE S == NowLinked(b)
  <2>1. PICK r \in LinkOrders(S) :
           seq' = [d \in Block |-> IF d \in S THEN nextSeq + r[d] ELSE seq[d]]
    BY <1>9 DEF ReceivedBlockTransactions
  <2>2. /\ nextSeq' = nextSeq + Cardinality(S) /\ linked' = linked \cup S
        /\ unlinked' = unlinked \ S
        /\ cands' = cands \cup {d \in S : ~ WorseBy(seq', d, tip)}
    BY <1>9 DEF ReceivedBlockTransactions
  <2>3. S \subseteq Block /\ \A d \in S : b \in Ancestors[d]
    BY AncestorsClosed DEF NowLinked
  <2>4. ASSUME NEW c \in Block, b \in Ancestors[c], Good(c)' PROVE c \in S
    BY <2>4, GoodWaits
  <2> HIDE DEF S
  <2>5. seq' \in [Block -> Nat] /\ nextSeq' \in Nat
    <3>1. S \in SUBSET Block
      BY <2>3
    <3>2. r \in LinkOrders(S) /\ seq \in [Block -> Nat] /\ nextSeq \in Nat
      BY <1>2, <2>1
    <3>3. /\ [d \in Block |-> IF d \in S THEN nextSeq + r[d] ELSE seq[d]] \in [Block -> Nat]
          /\ nextSeq + Cardinality(S) \in Nat
      BY <3>1, <3>2, NewNumbers
    <3> QED
      BY <2>1, <2>2, <3>3
  <2>6. \A c \in Block \ S : seq'[c] = seq[c]
    BY <2>1
  <2>7. tip \in Block \ S /\ \A c \in cands : c \in Block \ S
    BY <1>1, <1>4, <2>3
  <2>8. \A c \in Block \ S : WorseBy(seq', c, tip) <=> Worse(c, tip)
    BY <2>6, <2>7 DEF WorseBy, Worse
  <2>9. \A c \in cands' : ~ WorseBy(seq', c, tip)
    BY <1>2, <2>2, <2>7, <2>8
  <2>10. ASSUME NEW c \in Block, Good(c)' PROVE c \in cands' \/ WorseBy(seq', c, tip)
    <3>1. CASE c \in S
      BY <2>2, <3>1
    <3>2. CASE c \notin S
      <4>1. Good(c)
        BY <1>5, <2>4, <2>10, <3>2
      <4> QED
        BY <1>2, <2>2, <2>8, <3>2, <4>1 DEF Refuge
    <3> QED
      BY <3>1, <3>2
  <2>11. unlinked' \cap linked' = {} /\ cands \subseteq cands'
    BY <1>2, <2>2
  <2> QED
    BY <2>5, <2>9, <2>10, <2>11
<1>10. CASE Parent[b] \notin linked
  <2>1. /\ linked' = linked \ {b} /\ unlinked' \subseteq unlinked \cup {b}
        /\ UNCHANGED <<seq, nextSeq, cands>>
    BY <1>10 DEF ReceivedBlockTransactions
  <2>2. ASSUME NEW c \in Block, Good(c)' PROVE Good(c)
    <3>1. CASE b \in Ancestors[c]
      <4>1. Parent[b] \in Block /\ Good(Parent[b])
        BY <2>2, <3>1, GoodWaits, TreeAssumption
      <4> QED
        BY <1>2, <1>10, <4>1, GoodLinked
    <3> QED
      BY <1>5, <2>2, <3>1
  <2> QED
    BY <1>2, <2>1, <2>2 DEF Refuge, Worse
<1> QED
  BY <1>9, <1>10

LEMMA ProcessNewBlockBest ==
    ASSUME Inv, LinkInv, BestInv, Straight, scene' = scene, NEW t, scene.threads = {t},
           NEW b \in Block \ {Genesis}, NEW r, ProcessNewBlock(t, b, r)
    PROVE  BestInv'
<1>1. Typed /\ KnownInv /\ t \in Thread /\ \A u \in Thread : ThreadInv(u)
  BY StraightThread DEF Inv, LinkInv
<1>2. /\ up /\ HeaderOK(b) /\ UNCHANGED disk /\ UNCHANGED <<tip, mostWork, aborted>>
      /\ pc[t] = "idle"
  BY DEF ProcessNewBlock, Idle, Running
<1>3. mostWork'[t] = NoBlock /\ mostWork'[t] = mostWork[t]
  BY <1>1, <1>2 DEF ThreadInv
<1>4. Checked(idx) /\ unlinked \cap linked = {}
  BY <1>2 DEF BestInv
<1>5. \A c \in Block : idxDisk'[c] = idxDisk[c] \/ idxDisk'[c] = idx'[c]
  BY <1>2 DEF disk
<1>6. PICK h : h = WithHeader(b)
  OBVIOUS
<1>7. /\ h \in [Block -> Entry] /\ \A c \in Block \ {b} : h[c] = idx[c]
      /\ h[b].failed = {} /\ idx[b].failed = {}
      /\ h[b].nTx = idx[b].nTx /\ h[b].data = idx[b].data /\ h[b] \in Entry
  BY <1>1, <1>2, <1>6, HeaderAdded
<1>8. Checked(h) /\ h[b].valid # 0
  BY <1>1, <1>2, <1>4, <1>6, HeaderChecked, HeaderShape
<1>9. CASE /\ idx' = h /\ pc' = [pc EXCEPT ![t] = "loop"]
           /\ UNCHANGED <<linked, seq, nextSeq, cands, unlinked>>
  <2>1. \A c \in Block : Fit(idx'[c]) <=> Fit(idx[c])
    BY <1>7, <1>9 DEF Fit
  <2>2. pc'[t] = "loop"
    BY <1>1, <1>9 DEF Typed
  <2>3. Checked(idx') /\ unlinked' \cap linked' = {}
    BY <1>4, <1>8, <1>9
  <2> QED
    BY <1>1, <1>2, <1>3, <1>5, <1>9, <2>1, <2>2, <2>3, SameBest
<1>10. CASE /\ ~ Ignored(b, r) /\ idx' = [h EXCEPT ![b] = Mark(@, "VALID")]
            /\ UNCHANGED <<linked, seq, nextSeq, cands, unlinked, pc>>
  <2>1. PICK f : f = Mark(h[b], "VALID")
    OBVIOUS
  <2>2. f \in Entry /\ f.valid = h[b].valid /\ f.nTx = h[b].nTx /\ f.data = h[b].data
    BY <1>7, <2>1, MarkFields
  <2>3. idx'[b] = f /\ \A c \in Block \ {b} : idx'[c] = h[c]
    BY <1>7, <1>10, <2>1, <2>2
  <2>4. ~ idx[b].data
    BY <1>10 DEF Ignored
  <2>5. \A c \in Block : Fit(idx'[c]) <=> Fit(idx[c])
    BY <1>7, <2>2, <2>3, <2>4 DEF Fit
  <2>6. Checked(idx') /\ unlinked' \cap linked' = {}
    BY <1>4, <1>8, <1>10, <2>2, <2>3 DEF Checked
  <2>7. pc'[t] = pc[t]
    BY <1>10
  <2> QED
    BY <1>1, <1>2, <1>3, <1>5, <1>10, <2>5, <2>6, <2>7, SameBest
<1>11. CASE /\ ~ Ignored(b, r) /\ ReceivedBlockTransactions(b)
            /\ pc' = [pc EXCEPT ![t] = "loop"]
  <2>1. /\ idx' = [h EXCEPT ![b] = RaiseValidity([@ EXCEPT !.nTx = TRUE, !.data = TRUE],
                                                 TRANSACTIONS)]
        /\ ~ idx[b].data
    BY <1>6, <1>11 DEF ReceivedBlockTransactions, Ignored
  <2>2. PICK g : g = [h[b] EXCEPT !.nTx = TRUE, !.data = TRUE]
    OBVIOUS
  <2>3. g \in Entry /\ g.failed = {} /\ g.valid # 0
    BY <1>7, <1>8, <2>2, ReceivedFields
  <2>4. PICK f : f = RaiseValidity(g, TRANSACTIONS)
    OBVIOUS
  <2>5. f.valid \in {TRANSACTIONS, SCRIPTS}
    BY <2>3, <2>4, RaisedValid
  <2>6. idx' = [h EXCEPT ![b] = f]
    BY <1>7, <2>1, <2>2, <2>4
  <2>7. idx'[b] = f /\ \A c \in Block \ {b} : idx'[c] = h[c]
    BY <1>7, <2>6
  <2>8. Checked(idx')
    BY <1>8, <2>5, <2>7 DEF Checked
  <2>9. pc'[t] = "loop" /\ \A c \in Block \ {b} : idx'[c] = idx[c]
    BY <1>1, <1>7, <1>11, <2>7 DEF Typed
  <2> QED
    BY <1>2, <1>3, <1>7, <1>11, <2>1, <2>8, <2>9, ReceivedBest
<1> QED
  BY <1>6, <1>9, <1>10, <1>11 DEF ProcessNewBlock

(***************************************************************************)
(* The process stops and starts.                                           *)
(***************************************************************************)
LEMMA CrashBest ==
    ASSUME BestInv, Straight, scene' = scene, Crash
    PROVE  BestInv'
<1>1. ~ up' /\ seq' = [b \in Block |-> 0] /\ nextSeq' = 1 /\ idxDisk' = idxDisk /\ ~ aborted'
  BY DEF Crash
<1>2. 0 \in Nat /\ 1 \in Nat
  BY SMTT(30)
<1>3. seq' \in [Block -> Nat] /\ nextSeq' \in Nat
  BY <1>1, <1>2
<1> QED
  BY <1>1, <1>3 DEF BestInv

\* The chain of the coins on disk is a candidate again, and what is not one is worse.
LEMMA RestartBest ==
    ASSUME Inv, LinkInv, BestInv, Straight, scene' = scene, NEW t, scene.threads = {t},
           Restart(t)
    PROVE  BestInv'
<1> DEFINE e == idxDisk
           chained == {b \in Block : \A a \in Ancestors[b] : e[a].nTx}
           found == {b \in chained : IsValid(e[b], TRANSACTIONS)}
           kept == {b \in found : ~ Worse(b, tipDisk)}
<1>1. /\ ~ up /\ up' /\ idx' = e /\ linked' = chained
      /\ unlinked' = {b \in Block : e[b].nTx /\ b \notin chained}
      /\ cands' = kept /\ aborted' = (kept = {}) /\ pc' = [pc EXCEPT ![t] = "loop"]
      /\ UNCHANGED <<seq, nextSeq, tip, mostWork>> /\ UNCHANGED disk
  BY DEF Restart
<1>2. /\ Typed /\ t \in Thread /\ tip = tipDisk /\ tip \in Block /\ "crash" \in scene.events
      /\ Ancestors[tip] \subseteq Block
      /\ seq \in [Block -> Nat] /\ nextSeq \in Nat /\ Checked(e)
  BY <1>1, StraightThread, AncestorsClosed DEF Inv, Typed, DownInv, BestInv
<1>3. mostWork[t] = NoBlock
  BY <1>1, <1>2 DEF Inv, ThreadInv, Typed
<1>4. Settled
  BY <1>2 DEF Straight, Orderly, Undisturbed
<1>5. \A a \in Ancestors[tip] : e[a].nTx /\ e[a].data /\ a \notin Bad
  BY <1>2 DEF LinkInv, KnownInv, Headed, Straight, Inv, ChainInv
<1>6. \A a \in Ancestors[tip] : Fit(e[a])
  <2> TAKE a \in Ancestors[tip]
  <2>1. Ancestors[a] \subseteq Ancestors[tip] /\ a \in Block
    BY <1>2, AncestorsTransitive
  <2> QED
    BY <1>4, <1>5, <2>1 DEF Fit, Inv, IndexInv, TaintInv, Tainted
<1>7. ASSUME NEW c \in Block, \A a \in Ancestors[c] : Fit(e[a])
      PROVE  c \in found
  <2>1. \A a \in Ancestors[c] : a \in Block /\ e[a].nTx
    BY <1>7, AncestorsClosed DEF Fit, Inv, IndexInv, DataInv
  <2>2. e[c].failed = {} /\ e[c].valid \in {TRANSACTIONS, SCRIPTS}
    BY <1>2, <1>7, <2>1, AncestorsClosed DEF Fit, Checked
  <2>3. IsValid(e[c], TRANSACTIONS)
    BY <2>2, SMTT(30) DEF IsValid, TRANSACTIONS, SCRIPTS
  <2> QED
    BY <2>1, <2>3
<1>8. tip \in kept
  BY <1>2, <1>6, <1>7, WorseIsOrder
<1>9. PICK z : z = tip
  OBVIOUS
<1>10. Refuge(z)'
  <2>1. \A c \in Block : Good(c)' <=> \A a \in Ancestors[c] : Fit(e[a])
    BY <1>1 DEF Good, AllData, Failed, Fit
  <2>2. \A c \in Block : Good(c)' => c \in kept \/ Worse(c, tip)
    BY <1>2, <1>7, <2>1
  <2>3. Good(z)' /\ ~ Tainted(z)' /\ z \in kept
    BY <1>2, <1>5, <1>6, <1>8, <1>9, <2>1 DEF Tainted, Bad
  <2> QED
    BY <1>1, <1>9, <2>2, <2>3 DEF Refuge, Worse
<1>11. z \in Block /\ z = tip' /\ pc'[t] = "loop" /\ mostWork'[t] = NoBlock
  BY <1>1, <1>2, <1>3, <1>9 DEF Typed
<1>12. Placed(t)'
  BY <1>10, <1>11, PlaceNow DEF Working
<1>13. /\ seq' \in [Block -> Nat] /\ nextSeq' \in Nat /\ Checked(idxDisk') /\ ~ aborted'
       /\ Checked(idx') /\ unlinked' \cap linked' = {}
       /\ \A c \in cands' : ~ Worse(c, tip)'
  BY <1>1, <1>2, <1>8 DEF disk, Worse
<1> QED
  BY <1>12, <1>13 DEF BestInv

(***************************************************************************)
(* The theorem.                                                            *)
(***************************************************************************)
LEMMA BestInit == Init => BestInv
<1> SUFFICES ASSUME Init, Straight PROVE BestInv
  BY DEF BestInv
<1>1. /\ idx = [b \in Block |-> IF b = Genesis THEN GenesisEntry ELSE NoEntry]
      /\ idxDisk = idx /\ cands = {Genesis} /\ unlinked = {} /\ tip = Genesis
      /\ seq = [b \in Block |-> 0] /\ nextSeq = 1 /\ pc = [t \in Thread |-> "idle"]
      /\ mostWork = [t \in Thread |-> NoBlock] /\ aborted = FALSE
  BY DEF Init
<1>2. 0 \in Nat /\ 1 \in Nat
  BY SMTT(30)
<1>3. seq \in [Block -> Nat] /\ nextSeq \in Nat
  BY <1>1, <1>2
<1>4. /\ Genesis \in Block /\ Ancestors[Genesis] = {Genesis}
      /\ idx[Genesis] = GenesisEntry /\ \A b \in Block \ {Genesis} : idx[b] = NoEntry
  BY <1>1, TreeAssumption, AncestorsOfGenesis
<1>5. /\ GenesisEntry.data /\ GenesisEntry.failed = {} /\ GenesisEntry.valid = TRANSACTIONS
      /\ ~ NoEntry.nTx /\ ~ NoEntry.data
  BY DEF GenesisEntry, NoEntry
<1>6. Checked(idx)
  BY <1>4, <1>5 DEF Checked
<1>7. Good(Genesis) /\ ~ Tainted(Genesis)
  BY <1>4, <1>5 DEF Good, AllData, Failed, Tainted, Bad
<1>8. \A c \in Block : Good(c) => c = Genesis
  BY <1>4, <1>5, AncestorsClosed DEF Good, AllData
<1>9. Refuge(tip) /\ Tops(tip)
  BY <1>1, <1>7, <1>8 DEF Refuge, Tops
<1>10. \A t \in Thread : Placed(t)
  BY <1>1, <1>4, <1>9 DEF Placed, Working
<1>11. scene.threads \subseteq Thread /\ \A c \in cands : ~ Worse(c, tip)
  BY <1>1, <1>3, <1>4, WorseIsOrder, TreeAssumption DEF Init
<1> QED
  BY <1>1, <1>3, <1>6, <1>10, <1>11 DEF BestInv

\* What a straight scene leaves out.
LEMMA StraightLeavesOut ==
    ASSUME Inv, Straight, NEW t \in scene.threads
    PROVE  /\ \A b : ~ ReconsiderBlock(t, b) /\ ~ PruneOneBlockFile(b) /\ ~ ReprocessBlock(t, b)
           /\ \A R, n : ~ ReprocessBlocks(t, R, n)
           /\ ~ DisconnectBlocks(t) /\ ~ ReprocessEnd(t)
<1>1. {"reconsider", "reprocess", "prune"} \cap scene.events = {}
  BY DEF Straight, Unreconsidered
<1>2. t \in Thread /\ pc[t] # "reprocess"
  BY <1>1, StraightThread DEF Inv, ThreadInv
<1> QED
  BY <1>1, <1>2 DEF ReconsiderBlock, PruneOneBlockFile, ReprocessBlock, ReprocessBlocks,
                    DisconnectBlocks, ReprocessEnd, Holds

LEMMA BestNext == Inv /\ LinkInv /\ BestInv /\ [Next]_vars => BestInv'
<1> SUFFICES ASSUME Inv, LinkInv, BestInv, [Next]_vars PROVE BestInv'
  OBVIOUS
<1>1. CASE UNCHANGED vars
  <2>1. /\ UNCHANGED <<idx, linked, unlinked, cands, tip, seq, nextSeq>>
        /\ UNCHANGED <<idxDisk, tipDisk>> /\ UNCHANGED <<pc, mostWork, up, aborted, scene>>
    BY <1>1 DEF vars, tree, disk, control
  <2>2. Straight' <=> Straight
    BY <2>1, StraightStays
  <2>3. \A t : Placed(t) => Placed(t)'
    BY <2>1 DEF Placed, Refuge, Tops, Worse, Good, AllData, Failed, Tainted, Bad, Working
  <2> QED
    BY <2>1, <2>2, <2>3 DEF BestInv, Worse
<1>2. ASSUME Next PROVE BestInv'
  <2>1. scene' = scene /\ scene.blocks \subseteq Block /\ Typed
    BY <1>2, TreeAssumption DEF Next, Inv, Typed
  <2>2. CASE ~ Straight
    BY <2>1, <2>2, StraightStays DEF BestInv
  <2>3. CASE Straight
    <3>1. PICK t : scene.threads = {t}
      BY <2>3 DEF Straight, Orderly, OneThread
    <3>2. t \in scene.threads
      BY <3>1
    <3>3. CASE Work(t)
      BY <2>1, <2>3, <3>1, <3>2, <3>3, StraightLeavesOut, LoopBest, StepDisconnectBest,
         StepConnectBest, StepInvalidBest, InvalidateDisconnectBest, InvalidateEndBest
         DEF Work
    <3>4. CASE Restart(t)
      BY <2>1, <2>3, <3>1, <3>4, RestartBest
    <3>5. ASSUME NEW b \in scene.blocks \ {Genesis},
                 \/ AcceptBlockHeader(t, b)
                 \/ \E r \in BOOLEAN : ProcessNewBlock(t, b, r)
                 \/ InvalidateBlock(t, b)
                 \/ ReconsiderBlock(t, b)
          PROVE  BestInv'
      BY <2>1, <2>3, <3>1, <3>2, <3>5, StraightLeavesOut, AcceptBlockHeaderBest,
         ProcessNewBlockBest, InvalidateBlockBest
    <3>6. ~ \E R \in SUBSET rejected, n \in 0..1 : ReprocessBlocks(t, R, n)
      BY <2>3, <3>2, StraightLeavesOut
    <3>7. ~ \E b \in Block : PruneOneBlockFile(b)
      BY <2>3, <3>2, StraightLeavesOut
    <3>8. CASE FlushCoins \/ \E full \in BOOLEAN : FlushStateToDisk(full)
      BY <2>1, <2>3, <3>1, <3>8, FlushBest
    <3>9. CASE Crash
      BY <2>1, <2>3, <3>9, CrashBest
    <3> QED
      BY <1>2, <3>1, <3>3, <3>4, <3>5, <3>6, <3>7, <3>8, <3>9 DEF Next
  <2> QED
    BY <2>2, <2>3
<1> QED
  BY <1>1, <1>2

\* ActivateBestChain activates the best chain: with one thread, nothing reconsidered and
\* nothing pruned, whatever order headers and blocks arrive in, whatever turns out to be
\* invalid or is invalidated, and wherever the process crashes, when the thread is idle
\* every other good block is worse than the tip, and the node never finds itself without
\* a candidate.
THEOREM BestAlwaysActivated == Spec => []ActivatedBest
BY InvInit, InvNext, LinkInit, LinkNext, BestInit, BestNext, InvBest, PTL DEF Spec

===============================================================================
