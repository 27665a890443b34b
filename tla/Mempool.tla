------------------------------ MODULE Mempool ------------------------------
(***************************************************************************)
(* The memory pool (CTxMemPool, txmempool.cpp) with the parts of           *)
(* validation.cpp that change it: acceptance and replacement, blocks that  *)
(* are connected and disconnected, and the limits.  An entry caches what   *)
(* depends on it in the pool; the cache is kept up to date by additions    *)
(* and removals along links between the entries.                           *)
(*                                                                         *)
(* All of it happens under cs_main, except PrioritiseTransaction, which    *)
(* the mixing code calls without.  A handler is one step; a disconnected   *)
(* block is two, for what happens between them, and only the end of a      *)
(* reorganisation restores the limits and the rules on lock times.  An     *)
(* output is a pair of its transaction and a number; 0 stands for          *)
(* transactions deep in the chain.                                         *)
(***************************************************************************)
EXTENDS Integers, FiniteSets, SequencesExt, FiniteSetsExt

CONSTANTS
    Tx, Inputs, Fee, Size,
    FinalAt,                \* the first height a transaction may be mined at
    Replaceable,            \* those that allow it, with fEnableReplacement
    Block,                  \* sequences of transactions without the coinbase
    Amount,                 \* fee deltas of prioritisetransaction
    limitAncestorCount, limitAncestorSize, limitDescendantCount, limitDescendantSize,
    maxDescendantsToVisit,  \* 100, of a transaction that comes back
    maxReplaced,            \* 100, with their descendants
    minRelayTxFee, sizelimit,
    MaxDelta, MaxChain,     \* bounds on fee deltas and on the chain
    Prioritised,            \* transactions that get fee deltas
    Aging                   \* transactions that may get too old

VARIABLES
    pool,       \* mapTx with mapLinks, mapNextTx and the fees of mapDeltas
    chain,      \* the blocks of chainActive
    reorg,      \* blocks were disconnected and removeForReorg is to come
    vHashUpdate \* re-added by DisconnectTip; NULL outside

vars == <<pool, chain, reorg, vHashUpdate>>

NULL == <<0>>

Entries(m) == DOMAIN m.entry

Output == {0} \X (1 .. Cardinality(Tx)) \cup UNION {Inputs[t] : t \in Tx}

Init ==
    /\ pool = [entry |-> <<>>, mapNextTx |-> <<>>, mapDeltas |-> [t \in Tx |-> 0]]
    /\ chain = <<>>
    /\ reorg = FALSE
    /\ vHashUpdate = NULL

(***************************************************************************)
(* Links.                                                                  *)
(***************************************************************************)

\* What is reached from S in any number of steps, S included.
Closure(step, S) ==
    LET reach[n \in 0 .. Cardinality(DOMAIN step)] ==
            IF n = 0 THEN S
            ELSE reach[n - 1] \cup UNION {step[x] : x \in reach[n - 1]}
    IN  reach[Cardinality(DOMAIN step)]

\* The ancestors that the links of the pool give for a set of entries.
Ancestors(m, S) == Closure([t \in Entries(m) |-> m.entry[t].parents], S)

\* CalculateDescendants, the entries themselves included.
CalculateDescendants(m, S) == Closure([t \in Entries(m) |-> m.entry[t].children], S)

PoolParents(m, t) == {o[1] : o \in Inputs[t]} \cap Entries(m)

GetModifiedFee(m, t) == Fee[t] + m.entry[t].delta

Sizes(S) == SumFunction([t \in S |-> Size[t]])

ModifiedFees(m, S) == SumFunction([t \in S |-> GetModifiedFee(m, t)])

IsDirty(e) == e.count = 0

UpdateState(e, size, fees, n) ==
    IF IsDirty(e) THEN e
    ELSE [e EXCEPT !.size = @ + size, !.fees = @ + fees, !.count = @ + n]

(***************************************************************************)
(* Entering and leaving the pool.                                          *)
(***************************************************************************)

\* addUnchecked, with UpdateAncestorsOf: the new entry has no children yet.
addUnchecked(m, t, setAncestors) ==
    LET e == [delta |-> m.mapDeltas[t], count |-> 1, size |-> Size[t],
              fees |-> Fee[t] + m.mapDeltas[t],
              parents |-> PoolParents(m, t), children |-> {}, old |-> FALSE]
        Updated(x) == IF x \in setAncestors
                      THEN UpdateState(m.entry[x], Size[t], e.fees, 1) ELSE m.entry[x]
    IN  [m EXCEPT
           !.entry = [x \in Entries(m) \cup {t} |->
                IF x = t THEN e
                ELSE IF x \in e.parents THEN [Updated(x) EXCEPT !.children = @ \cup {t}]
                ELSE Updated(x)],
           !.mapNextTx = [o \in DOMAIN @ \cup Inputs[t] |->
                IF o \in Inputs[t] THEN t ELSE m.mapNextTx[o]]]

\* Faulty: the entries that stay are not told.
RemoveStaged_Silent(m, S) ==
    [m EXCEPT
       !.entry = [x \in Entries(m) \ S |->
            [m.entry[x] EXCEPT !.children = @ \ S, !.parents = @ \ S]],
       !.mapNextTx = [o \in DOMAIN @ \ UNION {Inputs[t] : t \in S} |-> m.mapNextTx[o]]]

\* RemoveStaged with UpdateForRemoveFromMempool: the ancestors are those of the
\* links, the links to what stays are cut, and mapNextTx forgets the inputs.
RemoveStaged(m, S) ==
    LET Below(x) == {t \in S : x \in Ancestors(m, m.entry[t].parents)}
        Updated(x) == UpdateState(m.entry[x], -Sizes(Below(x)),
                                  -ModifiedFees(m, Below(x)), -Cardinality(Below(x)))
    IN  [m EXCEPT
           !.entry = [x \in Entries(m) \ S |->
                [Updated(x) EXCEPT
                    !.children = @ \ {t \in S : x \in m.entry[t].parents},
                    !.parents = @ \ {t \in S : x \in m.entry[t].children}]],
           !.mapNextTx = [o \in DOMAIN @ \ UNION {Inputs[t] : t \in S} |->
                             m.mapNextTx[o]]]

\* The spenders of a transaction's outputs that mapNextTx knows.
NextTxs(m, t) == {m.mapNextTx[o] : o \in {o \in DOMAIN m.mapNextTx : o[1] = t}}

\* Faulty: what spends a transaction that is not in the pool stays.
remove_Known(m, t, fRecursive) ==
    LET txToRemove == {t} \cap Entries(m)
    IN  RemoveStaged(m, IF fRecursive THEN CalculateDescendants(m, txToRemove)
                        ELSE txToRemove)

remove(m, t, fRecursive) ==
    LET txToRemove == IF t \in Entries(m) THEN {t}
                      ELSE IF fRecursive THEN NextTxs(m, t) ELSE {}
    IN  RemoveStaged(m, IF fRecursive THEN CalculateDescendants(m, txToRemove)
                        ELSE txToRemove)

Conflicts(m, t) == {m.mapNextTx[o] : o \in Inputs[t] \cap DOMAIN m.mapNextTx} \ {t}

\* removeConflicts.  The hash given to ClearPrioritisation is read from an entry
\* that is gone by then: cleared are the conflicting transactions for which it
\* is still there.
removeConflicts(m, t, cleared) ==
    LET C == Conflicts(m, t)
    IN  [RemoveStaged(m, CalculateDescendants(m, C)) EXCEPT
            !.mapDeltas = [x \in Tx |-> IF x \in C \cap cleared THEN 0 ELSE @[x]]]

removeForBlock(m, b, cleared) ==
    FoldLeft(LAMBDA k, t :
                [removeConflicts(remove(k, t, FALSE), t, cleared) EXCEPT !.mapDeltas[t] = 0],
             m, b)

(***************************************************************************)
(* Limits.                                                                 *)
(***************************************************************************)

Expire(m) ==
    RemoveStaged(m, CalculateDescendants(m, {t \in Entries(m) : m.entry[t].old}))

\* The fee and size that CompareTxMemPoolEntryByDescendantScore goes by.
Score(m, t) ==
    LET e == m.entry[t]
        own == <<GetModifiedFee(m, t), Size[t]>>
    IN  IF e.fees * own[2] > own[1] * e.size THEN <<e.fees, e.size>> ELSE own

Lower(s, r) == s[1] * r[2] < r[1] * s[2]

\* Faulty: the entry goes without what depends on it.
TrimOne_Alone(m, t) == RemoveStaged(m, {t})

TrimOne(m, t) == RemoveStaged(m, CalculateDescendants(m, {t}))

\* TrimToSize: the possible results, as entries of the same score may come in any
\* order.  Memory is counted in sizes of transactions.
TrimToSize(m) ==
    LET Lowest(k) == {t \in Entries(k) :
                        \A u \in Entries(k) : ~ Lower(Score(k, u), Score(k, t))}
        Trimmed(k) == IF Sizes(Entries(k)) <= sizelimit THEN {k}
                      ELSE {TrimOne(k, t) : t \in Lowest(k)}
        trim[n \in 0 .. Cardinality(Entries(m))] ==
            IF n = 0 THEN {m} ELSE UNION {Trimmed(k) : k \in trim[n - 1]}
    IN  trim[Cardinality(Entries(m))]

LimitMempoolSize(m) == TrimToSize(Expire(m))

(***************************************************************************)
(* AcceptToMemoryPool.                                                     *)
(***************************************************************************)

Confirmed(ch) == UNION {ToSet(ch[i]) : i \in DOMAIN ch}

\* pcoinsTip->HaveCoin
HaveCoin(ch, o) ==
    /\ o[1] \in Confirmed(ch) \cup {0}
    /\ \A t \in Confirmed(ch) : o \notin Inputs[t]

\* CalculateMemPoolAncestors for a transaction that is not in the pool.
NewAncestors(m, t) == Ancestors(m, PoolParents(m, t))

WithinLimits(m, t) ==
    LET anc == NewAncestors(m, t)
    IN  /\ Cardinality(anc) + 1 <= limitAncestorCount
        /\ Sizes(anc) + Size[t] <= limitAncestorSize
        /\ \A a \in anc : /\ m.entry[a].count + 1 <= limitDescendantCount
                          /\ m.entry[a].size + Size[t] <= limitDescendantSize

\* A transaction may replace those it conflicts with, with all that spends them.
MayReplace(m, t) ==
    LET C == Conflicts(m, t)
        all == CalculateDescendants(m, C)
        fees == Fee[t] + m.mapDeltas[t]
    IN  /\ C \subseteq Replaceable
        /\ C \cap NewAncestors(m, t) = {}
        /\ C # {} =>
             /\ \A c \in C :
                   /\ ~ IsDirty(m.entry[c])
                   /\ fees * Size[c] > GetModifiedFee(m, c) * Size[t]
             /\ SumFunction([c \in C |-> m.entry[c].count]) <= maxReplaced
             /\ \A o \in Inputs[t] :
                   o[1] \in UNION {{i[1] : i \in Inputs[c]} : c \in C} \/ o[1] \notin Entries(m)
             /\ fees >= ModifiedFees(m, all) + minRelayTxFee * Size[t]

\* Whether t is accepted at a height, with the coins of the chain ch.  Fees, scripts
\* and standard forms may be reasons to refuse it all the same.
Acceptable(m, ch, height, t) ==
    /\ t \notin Entries(m) /\ t \notin Confirmed(ch)
    /\ FinalAt[t] <= height + 1
    /\ \A o \in Inputs[t] : o[1] \in Entries(m) \/ HaveCoin(ch, o)
    /\ WithinLimits(m, t)
    /\ MayReplace(m, t)

Accepted(m, t) ==
    addUnchecked(RemoveStaged(m, CalculateDescendants(m, Conflicts(m, t))), t,
                 NewAncestors(m, t))

AcceptToMemoryPool(t) ==
    /\ ~ reorg
    /\ Acceptable(pool, chain, Len(chain), t)
    /\ pool' \in LimitMempoolSize(Accepted(pool, t))
    /\ UNCHANGED <<chain, reorg, vHashUpdate>>

\* Faulty: the ancestors get the sum of all deltas again.
PrioritiseTransaction_Total(t, nFeeDelta) ==
    LET sum == pool.mapDeltas[t] + nFeeDelta
        entry == [pool.entry EXCEPT ![t].delta = sum,
                                    ![t].fees = @ + sum - pool.entry[t].delta]
        anc == Ancestors(pool, pool.entry[t].parents)
    IN  /\ sum \in -MaxDelta .. MaxDelta
        /\ pool' = [pool EXCEPT
              !.mapDeltas[t] = sum,
              !.entry = IF t \notin Entries(pool) THEN @
                        ELSE [x \in Entries(pool) |->
                                IF x \in anc THEN UpdateState(entry[x], 0, sum, 0)
                                ELSE entry[x]]]
        /\ UNCHANGED <<chain, reorg, vHashUpdate>>

PrioritiseTransaction(t, nFeeDelta) ==
    LET sum == pool.mapDeltas[t] + nFeeDelta
        entry == [pool.entry EXCEPT ![t].delta = sum,
                                    ![t].fees = @ + sum - pool.entry[t].delta]
        anc == Ancestors(pool, pool.entry[t].parents)
    IN  /\ sum \in -MaxDelta .. MaxDelta
        /\ pool' = [pool EXCEPT
              !.mapDeltas[t] = sum,
              !.entry = IF t \notin Entries(pool) THEN @
                        ELSE [x \in Entries(pool) |->
                                IF x \in anc THEN UpdateState(entry[x], 0, nFeeDelta, 0)
                                ELSE entry[x]]]
        /\ UNCHANGED <<chain, reorg, vHashUpdate>>

\* An entry has been in the pool for longer than -mempoolexpiry.
GrowOld(t) ==
    /\ t \in Entries(pool) \cap Aging /\ ~ reorg
    /\ pool' = [pool EXCEPT !.entry[t].old = TRUE]
    /\ UNCHANGED <<chain, reorg, vHashUpdate>>

(***************************************************************************)
(* Blocks.                                                                 *)
(***************************************************************************)

\* ConnectBlock accepts the block on top of the chain.
Connectable(b) ==
    \A i \in DOMAIN b :
        /\ b[i] \notin Confirmed(Append(chain, SubSeq(b, 1, i - 1)))
        /\ FinalAt[b[i]] <= Len(chain) + 1
        /\ \A o \in Inputs[b[i]] : HaveCoin(Append(chain, SubSeq(b, 1, i - 1)), o)

ConnectTip(b) ==
    /\ vHashUpdate = NULL
    /\ Len(chain) < MaxChain /\ Connectable(b)
    /\ chain' = Append(chain, b)
    /\ \E cleared \in SUBSET {t \in Tx : pool.mapDeltas[t] # 0} :
          pool' = removeForBlock(pool, b, cleared)
    /\ UNCHANGED <<reorg, vHashUpdate>>

\* Faulty: entries of the block itself are counted again.
UpdateForDescendants_Twice(m, t, setExclude) ==
    LET all == CalculateDescendants(m, m.entry[t].children)
        visited == all \ m.entry[t].children
    IN  [m EXCEPT !.entry[t] =
            IF (\E d \in all : IsDirty(m.entry[d])) \/ Cardinality(visited) > maxDescendantsToVisit
            THEN [@ EXCEPT !.count = 0, !.size = Size[t], !.fees = GetModifiedFee(m, t)]
            ELSE UpdateState(@, Sizes(all), ModifiedFees(m, all), Cardinality(all))]

\* UpdateForDescendants: what is below t and not in the block is added to t, unless
\* there is too much of it or it is dirty.  (The cache of descendants saves work.)
UpdateForDescendants(m, t, setExclude) ==
    LET all == CalculateDescendants(m, m.entry[t].children)
        below == all \ setExclude
        visited == below \ m.entry[t].children
    IN  [m EXCEPT !.entry[t] =
            IF (\E d \in all : IsDirty(m.entry[d])) \/ Cardinality(visited) > maxDescendantsToVisit
            THEN [@ EXCEPT !.count = 0, !.size = Size[t], !.fees = GetModifiedFee(m, t)]
            ELSE UpdateState(@, Sizes(below), ModifiedFees(m, below), Cardinality(below))]

\* The children that were in the pool before t came back are linked to it.
LinkChildren(m, t, setExclude) ==
    LET new == NextTxs(m, t) \ setExclude
    IN  [m EXCEPT !.entry = [x \in Entries(m) |->
            IF x = t THEN [@[x] EXCEPT !.children = @ \cup new]
            ELSE IF x \in new THEN [@[x] EXCEPT !.parents = @ \cup {t}] ELSE @[x]]]

\* UpdateTransactionsFromBlock, from the last transaction of the block to the first.
UpdateTransactionsFromBlock(m, vHashesToUpdate) ==
    FoldLeft(LAMBDA k, t :
                IF t \notin Entries(k) THEN k
                ELSE UpdateForDescendants(LinkChildren(k, t, ToSet(vHashesToUpdate)), t,
                                          ToSet(vHashesToUpdate)),
             m, Reverse(vHashesToUpdate))

\* The transactions of the block come back, or take what spends them with them.
Resurrect(m, ch, height, b, refused) ==
    FoldLeft(LAMBDA k, t :
                IF t \notin refused /\ Acceptable(k.m, ch, height, t)
                THEN [m |-> Accepted(k.m, t), update |-> Append(k.update, t)]
                ELSE [m |-> remove(k.m, t, TRUE), update |-> k.update],
             [m |-> m, update |-> <<>>], b)

\* DisconnectTip: chainActive still has the block when its transactions return, so
\* that lock times are judged by the height before.
DisconnectTip ==
    /\ chain # <<>> /\ vHashUpdate = NULL
    /\ chain' = Front(chain)
    /\ reorg' = TRUE
    /\ \E refused \in SUBSET ToSet(Last(chain)) :
          LET r == Resurrect(pool, chain', Len(chain), Last(chain), refused)
          IN  pool' = r.m /\ vHashUpdate' = r.update

\* The rest of DisconnectTip.
DisconnectTip_Update ==
    /\ vHashUpdate # NULL
    /\ pool' = UpdateTransactionsFromBlock(pool, vHashUpdate)
    /\ vHashUpdate' = NULL
    /\ UNCHANGED <<chain, reorg>>

\* Faulty: only what the rule is about is removed.
removeForReorg_Alone(m, height) ==
    RemoveStaged(m, {t \in Entries(m) : FinalAt[t] > height})

removeForReorg(m, height) ==
    RemoveStaged(m, CalculateDescendants(m, {t \in Entries(m) : FinalAt[t] > height}))

\* The end of ActivateBestChainStep, or of InvalidateBlock, which has the other order.
FinishReorg ==
    /\ reorg /\ vHashUpdate = NULL
    /\ reorg' = FALSE
    /\ \/ pool' \in LimitMempoolSize(removeForReorg(pool, Len(chain) + 1))
       \/ pool' \in {removeForReorg(m, Len(chain) + 1) : m \in LimitMempoolSize(pool)}
    /\ UNCHANGED <<chain, vHashUpdate>>

Next ==
    \/ \E t \in Tx : AcceptToMemoryPool(t) \/ GrowOld(t)
    \/ \E t \in Prioritised, d \in Amount : PrioritiseTransaction(t, d)
    \/ \E b \in Block : ConnectTip(b)
    \/ DisconnectTip
    \/ DisconnectTip_Update
    \/ FinishReorg

Spec == Init /\ [][Next]_vars

(***************************************************************************)
(* Properties.                                                             *)
(***************************************************************************)

\* The variables have the types their declarations give them.
TypeOK ==
    /\ Entries(pool) \subseteq Tx
    /\ DOMAIN pool.mapNextTx \subseteq Output
    /\ pool.mapDeltas \in [Tx -> -MaxDelta .. MaxDelta]
    /\ Confirmed(chain) \subseteq Tx

\* What CTxMemPool::check asserts, in the middle of a reorganisation too: every
\* input of an entry is a coin or an output of the pool, nothing is spent twice,
\* and mapNextTx and the links between entries are those of the transactions.
LinksExact == vHashUpdate = NULL =>
    /\ pool.mapNextTx = [o \in UNION {Inputs[t] : t \in Entries(pool)} |->
                            CHOOSE t \in Entries(pool) : o \in Inputs[t]]
    /\ \A t, u \in Entries(pool) : t # u => Inputs[t] \cap Inputs[u] = {}
    /\ \A t \in Entries(pool) :
          /\ \A o \in Inputs[t] : o[1] \in Entries(pool) \/ HaveCoin(chain, o)
          /\ pool.entry[t].parents = PoolParents(pool, t)
          /\ pool.entry[t].children = {u \in Entries(pool) : t \in PoolParents(pool, u)}

\* The descendants an entry really has, itself included.
Family(t) ==
    Closure([x \in Entries(pool) |-> {u \in Entries(pool) : x \in PoolParents(pool, u)}], {t})

\* What an entry caches of its descendants is what they add up to, or the entry is
\* dirty and has its own values; its fee delta is the one in mapDeltas.
PackagesExact == vHashUpdate = NULL =>
    \A t \in Entries(pool) :
        LET e == pool.entry[t]
            S == IF IsDirty(e) THEN {t} ELSE Family(t)
        IN  /\ e.delta = pool.mapDeltas[t]
            /\ IsDirty(e) \/ e.count = Cardinality(S)
            /\ e.size = Sizes(S)
            /\ e.fees = ModifiedFees(pool, S)

\* Outside a reorganisation the next block can have every entry, as far as lock times
\* go, and the pool is within its limit.
PoolMinable ==
    ~ reorg =>
        /\ \A t \in Entries(pool) : FinalAt[t] <= Len(chain) + 1
        /\ Sizes(Entries(pool)) <= sizelimit

=============================================================================
