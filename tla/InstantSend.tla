----------------------------- MODULE InstantSend -----------------------------
(***************************************************************************)
(* One node's InstantSend manager (CInstantSend, src/src/instantx.cpp)     *)
(* together with the parts of the node it reads and drives: the memory     *)
(* pool's acceptance rules, block acceptance and connection, the           *)
(* validation-interface callbacks, the clock, the sporks and the           *)
(* masternode list.                                                        *)
(*                                                                         *)
(* The maps of CInstantSend are the fields of the record `is'.  Every      *)
(* method that changes them is an operator from such a record to such a    *)
(* record, so that a handler which calls several methods under one lock is *)
(* their composition; every handler, thread iteration or callback is one   *)
(* action.  A transaction, an outpoint and a masternode are opaque values. *)
(***************************************************************************)
EXTENDS Integers, FiniteSets, Sequences

CONSTANTS
    Tx,                    \* transactions that may carry a lock request
    Outpoint,              \* confirmed outputs they spend
    Masternode,            \* masternodes, by collateral
    NoTx,                  \* absent entry of mapLockedOutpoints / no request
    NoMasternode,          \* value of Me on a node that is not a masternode
    Me,                    \* activeMasternode.outpoint, or NoMasternode
    Vin,                   \* Vin[t]: the outpoints t spends, in order
    WellFormed,            \* requests whose age, value and fee checks pass
    Score,                 \* Score[o][m]: m's score for o's quorum
    SIGNATURES_REQUIRED,   \* COutPointLock::SIGNATURES_REQUIRED (6)
    SIGNATURES_TOTAL,      \* COutPointLock::SIGNATURES_TOTAL (10)
    LOCK_TIMEOUT,          \* INSTANTSEND_LOCK_TIMEOUT_SECONDS (15)
    FAILED_TIMEOUT,        \* INSTANTSEND_FAILED_TIMEOUT_SECONDS (60)
    KeepLock,              \* nInstantSendKeepLock (24, 6 on testnet)
    NetVoteSets,           \* possible sets of votes other masternodes sign
    MnLists,               \* masternode lists the node may have
    SporkSettings,         \* possible sets of active sporks
    SyncSettings,          \* possible outcomes of masternode-list sync
    BlockTxs,              \* transaction sets a block may carry
    BaseHeight,            \* height of the chain at start
    MaxHeight, MaxTime, MaxRestarts  \* bounds of the exploration

Vote == [tx : Tx, outpoint : Outpoint, mn : Masternode]
Inputs(t) == {Vin[t][i] : i \in DOMAIN Vin[t]}
Phase == {"none", "empty", "late", "open"}
Spork == {"SPORK_2", "SPORK_3"}

ASSUME TxAssumption ==
    /\ NoTx \notin Tx
    /\ NoMasternode \notin Masternode
    /\ Me \in Masternode \cup {NoMasternode}
    /\ Vin \in [Tx -> Seq(Outpoint)]
    /\ \A t \in Tx : Vin[t] # <<>>
    /\ IsFiniteSet(Masternode)
ASSUME QuorumAssumption ==
    /\ SIGNATURES_REQUIRED \in Nat \ {0}
    /\ SIGNATURES_TOTAL \in Nat
    /\ Score \in [Outpoint -> [Masternode -> Nat]]
ASSUME EnvironmentAssumption ==
    /\ NetVoteSets \subseteq SUBSET Vote
    /\ MnLists \subseteq SUBSET Masternode
    /\ SporkSettings \subseteq SUBSET Spork
    /\ SyncSettings \subseteq BOOLEAN
    /\ BlockTxs \subseteq SUBSET Tx
ASSUME NumberAssumption ==
    /\ LOCK_TIMEOUT \in Nat
    /\ FAILED_TIMEOUT \in Nat
    /\ LOCK_TIMEOUT < FAILED_TIMEOUT
    /\ KeepLock \in Nat
    /\ BaseHeight \in Nat \ {0}
    /\ MaxHeight \in Nat /\ MaxTime \in Nat /\ MaxRestarts \in Nat

VARIABLES
    is,             \* the CInstantSend object, see State
    mempool,        \* transactions in the memory pool
    minedAt,        \* height of the active-chain block holding t, 0 if none
    tip,            \* height of the active chain
    checkedBlocks,  \* blocks that passed AcceptBlock and are not yet connected
    tipNotices,     \* tips whose UpdatedBlockTip callback is still to run
    pendingRequest, \* lock request between its two cs_main sections, or NoTx
    now,            \* GetTime()
    sporks,         \* active sporks
    mnList,         \* masternodes known to mnodeman
    synced,         \* masternodeSync.IsMasternodeListSynced()
    netVotes,       \* votes the other masternodes have signed
    sentVotes,      \* votes this masternode has ever relayed (history)
    restarts        \* number of restarts so far

chainVars == <<minedAt, tip, checkedBlocks, tipNotices>>
envVars == <<now, sporks, mnList, synced, netVotes, restarts>>
vars == <<is, mempool, chainVars, pendingRequest, envVars,
          sentVotes>>

-----------------------------------------------------------------------------
\* The CInstantSend object.

State ==
    [accepted    : SUBSET Tx,              \* mapLockRequestAccepted
     rejected    : SUBSET Tx,              \* mapLockRequestRejected
     seen        : SUBSET Vote,            \* keys of mapTxLockVotes
     blank       : SUBSET Vote,            \* ... holding a default CTxLockVote
     voteTime    : [Vote -> Nat],          \* ... their nTimeCreated
     voteHeight  : [Vote -> Int],          \* ... their nConfirmedHeight
     orphans     : SUBSET Vote,            \* mapTxLockVotesOrphan
     orphanTime  : [Vote -> Nat],          \* ... their nTimeCreated
     phase       : [Tx -> Phase],          \* mapTxLockCandidates: no entry, no
                                           \* request, no outpoints, complete
     candTime    : [Tx -> Nat],            \* ... their nTimeCreated
     candHeight  : [Tx -> Int],            \* ... their nConfirmedHeight
     counted     : SUBSET Vote,            \* mapOutPointLocks' votes
     attacked    : SUBSET (Tx \X Outpoint),\* mapOutPointLocks' fAttacked
     voted       : SUBSET (Outpoint \X Tx),\* mapVotedOutpoints
     locked      : [Outpoint -> Tx \cup {NoTx}], \* mapLockedOutpoints
     banned      : SUBSET Masternode,      \* mnodeman.PoSeBan was called
     height      : Int]                    \* nCachedBlockHeight

EmptyState(h) ==
    [accepted |-> {}, rejected |-> {}, seen |-> {}, blank |-> {},
     voteTime |-> [v \in Vote |-> 0], voteHeight |-> [v \in Vote |-> -1],
     orphans |-> {}, orphanTime |-> [v \in Vote |-> 0],
     phase |-> [t \in Tx |-> "none"],
     candTime |-> [t \in Tx |-> 0], candHeight |-> [t \in Tx |-> -1],
     counted |-> {}, attacked |-> {}, voted |-> {},
     locked |-> [o \in Outpoint |-> NoTx], banned |-> {}, height |-> h]

\* pcoinsTip holds o: no transaction of the active chain spends it.
GetUTXOCoin(o) == \A t \in Tx : minedAt[t] # 0 => o \notin Inputs(t)

\* GetMasternodeRank(m) <= SIGNATURES_TOTAL in the quorum of o.
InTop(m, o) ==
    /\ m \in mnList
    /\ Cardinality({n \in mnList : Score[o][n] > Score[o][m]})
           < SIGNATURES_TOTAL

RequestIsValid(t) == t \in WellFormed /\ \A o \in Inputs(t) : GetUTXOCoin(o)

VoteIsValid(v) == GetUTXOCoin(v.outpoint) /\ InTop(v.mn, v.outpoint)

Late(created, limit) == now - created > limit

IsExpired(confirmed, height) == confirmed # -1 /\ height - confirmed > KeepLock

HasMasternodeVoted(s, t, o, m) ==
    [tx |-> t, outpoint |-> o, mn |-> m] \in s.counted

\* Votes held, whether or not the outpoint is marked as attacked.
CountVotes(s, t, o) ==
    Cardinality({m \in Masternode : HasMasternodeVoted(s, t, o, m)})

\* Faulty: one vote more than required.
IsAllOutPointsReady_OffByOne(s, t) ==
    /\ s.phase[t] = "open"
    /\ \A o \in Inputs(t) : /\ <<t, o>> \notin s.attacked
                            /\ CountVotes(s, t, o) > SIGNATURES_REQUIRED

IsAllOutPointsReady(s, t) ==
    /\ s.phase[t] = "open"
    /\ \A o \in Inputs(t) : /\ <<t, o>> \notin s.attacked
                            /\ CountVotes(s, t, o) >= SIGNATURES_REQUIRED

IsLockedInstantSendTransaction(s, t) ==
    /\ "SPORK_3" \in sporks
    /\ s.phase[t] = "open"
    /\ \A o \in Inputs(t) : s.locked[o] = t

HasTxLockRequest(s, t) == s.phase[t] # "none"

AlreadyHave(s, t) == t \in s.accepted \cup s.rejected

\* Faulty: a block too early.
ExpiredCandidates_OffByOne(s) ==
    {t \in Tx : /\ s.phase[t] # "none"
                /\ s.candHeight[t] # -1
                /\ s.height - s.candHeight[t] >= KeepLock}

ExpiredCandidates(s) ==
    {t \in Tx : s.phase[t] # "none" /\ IsExpired(s.candHeight[t], s.height)}

\* The outpoints of the expired candidates, whoever else uses them.
FreedOutpoints(s) ==
    UNION {Inputs(t) : t \in {u \in ExpiredCandidates(s) : s.phase[u] = "open"}}

LateOrphans(s) == {v \in s.orphans : Late(s.orphanTime[v], LOCK_TIMEOUT)}

\* What is left of mapTxLockVotes once the expired candidates are gone.
KeptVotes(s) ==
    {v \in s.seen : /\ ~ IsExpired(s.voteHeight[v], s.height)
                    /\ v \notin LateOrphans(s)
                    /\ \/ ~ Late(s.voteTime[v], FAILED_TIMEOUT)
                       \/ /\ v \notin s.blank
                          /\ IsLockedInstantSendTransaction(s, v.tx)}

\* Faulty: the locks stay in mapLockedOutpoints.
ReleaseOutpoints_KeepsLocks(s) ==
    LET freed == FreedOutpoints(s)
        forget == {t \in ExpiredCandidates(s) : s.phase[t] # "empty"}
    IN  [s EXCEPT !.voted    = {p \in s.voted : p[1] \notin freed},
                  !.accepted = s.accepted \ forget,
                  !.rejected = s.rejected \ forget]

\* Faulty: the outpoints stay in mapVotedOutpoints.
ReleaseOutpoints_KeepsVoted(s) ==
    LET freed == FreedOutpoints(s)
        forget == {t \in ExpiredCandidates(s) : s.phase[t] # "empty"}
    IN  [s EXCEPT !.locked   = [o \in Outpoint |-> IF o \in freed THEN NoTx
                                                   ELSE s.locked[o]],
                  !.accepted = s.accepted \ forget,
                  !.rejected = s.rejected \ forget]

\* The entries of the maps that the expired candidates' outpoints and hashes
\* lead to.  A candidate without a request does not know its hash.
ReleaseOutpoints(s) ==
    LET freed == FreedOutpoints(s)
        forget == {t \in ExpiredCandidates(s) : s.phase[t] # "empty"}
    IN  [s EXCEPT !.locked   = [o \in Outpoint |-> IF o \in freed THEN NoTx
                                                   ELSE s.locked[o]],
                  !.voted    = {p \in s.voted : p[1] \notin freed},
                  !.accepted = s.accepted \ forget,
                  !.rejected = s.rejected \ forget]

EraseCandidates(s, expired) ==
    [s EXCEPT !.phase      = [t \in Tx |-> IF t \in expired THEN "none"
                                           ELSE s.phase[t]],
              !.candTime   = [t \in Tx |-> IF t \in expired THEN 0
                                           ELSE s.candTime[t]],
              !.candHeight = [t \in Tx |-> IF t \in expired THEN -1
                                           ELSE s.candHeight[t]],
              !.counted    = {v \in s.counted : v.tx \notin expired},
              !.attacked   = {p \in s.attacked : p[1] \notin expired}]

EraseVotes(s, kept) ==
    [s EXCEPT !.seen       = kept,
              !.blank      = s.blank \cap kept,
              !.voteTime   = [v \in Vote |-> IF v \in kept THEN s.voteTime[v]
                                             ELSE 0],
              !.voteHeight = [v \in Vote |-> IF v \in kept
                                             THEN s.voteHeight[v] ELSE -1]]

EraseOrphans(s, late) ==
    [s EXCEPT !.orphans    = s.orphans \ late,
              !.orphanTime = [v \in Vote |-> IF v \in late THEN 0
                                             ELSE s.orphanTime[v]]]

\* Drop expired candidates, then expired votes, timed-out orphan votes and
\* votes of failed lock attempts.
CheckAndRemove(s) ==
    LET s1 == EraseCandidates(ReleaseOutpoints(s), ExpiredCandidates(s))
    IN  IF ~ synced THEN s
        ELSE EraseOrphans(EraseVotes(s1, KeptVotes(s1)), LateOrphans(s))

\* Faulty: the loop stops after the first outpoint.
LockTransactionInputs_First(s, t) ==
    [s EXCEPT !.locked = [o \in Outpoint |->
                            IF o = Vin[t][1] /\ s.locked[o] = NoTx
                            THEN t ELSE s.locked[o]]]

LockTransactionInputs(s, t) ==
    [s EXCEPT !.locked = [o \in Outpoint |->
                            IF o \in Inputs(t) /\ s.locked[o] = NoTx
                            THEN t ELSE s.locked[o]]]

\* Faulty: the newer lock replaces the older one.
DropBoth_NewerWins(s, t, u) ==
    LockTransactionInputs(CheckAndRemove([s EXCEPT !.candHeight[u] = 0]), t)

\* Two complete locks on one outpoint: neither survives.
DropBoth(s, t, u) ==
    LET s1 == CheckAndRemove([s EXCEPT !.candHeight =
                  [x \in Tx |-> IF x \in {t, u} THEN 0 ELSE s.candHeight[x]]])
    IN  [s1 EXCEPT !.rejected = s1.rejected \cup {t, u}]

LockConflict(s, t, o) == s.locked[o] \notin {NoTx, t}
PoolConflict(pool, t, o) == \E u \in pool \ {t} : o \in Inputs(u)

\* ResolveConflicts walks vin in order and stops at the first conflict.
FirstConflict(s, pool, t) ==
    CHOOSE i \in DOMAIN Vin[t] :
        /\ LockConflict(s, t, Vin[t][i]) \/ PoolConflict(pool, t, Vin[t][i])
        /\ \A j \in DOMAIN Vin[t] :
               j < i => ~ (\/ LockConflict(s, t, Vin[t][j])
                           \/ PoolConflict(pool, t, Vin[t][j]))

\* Faulty: the UTXO set is not asked.
StillUnspent_Trusting(t) == TRUE

\* t is in the chain, or everything it spends is still there to be spent.
StillUnspent(t) == minedAt[t] # 0 \/ \A o \in Inputs(t) : GetUTXOCoin(o)

\* ResolveConflicts, and the lock itself when it finds none.
TryToFinalizeLockCandidate(s, pool, t) ==
    LET conflict == \E o \in Inputs(t) : \/ LockConflict(s, t, o)
                                         \/ PoolConflict(pool, t, o)
        owner == s.locked[Vin[t][FirstConflict(s, pool, t)]]
    IN  IF ~ /\ "SPORK_2" \in sporks
             /\ IsAllOutPointsReady(s, t)
             /\ ~ IsLockedInstantSendTransaction(s, t)
        THEN s
        ELSE IF ~ conflict
        THEN IF StillUnspent(t) THEN LockTransactionInputs(s, t) ELSE s
        ELSE IF owner \in Tx \ {t} /\ s.phase[owner] # "none"
        THEN DropBoth(s, t, owner)
        ELSE s

\* CreateTxLockCandidate fails on an invalid request and on one that comes
\* after the candidate its first orphan vote created has timed out.
RequestFails(s, t) ==
    \/ ~ RequestIsValid(t)
    \/ s.phase[t] = "empty" /\ Late(s.candTime[t], LOCK_TIMEOUT)

CreateTxLockCandidate(s, t) ==
    LET phase == CASE s.phase[t] = "none"  -> "open"
                   [] s.phase[t] = "empty" ->
                        IF Late(s.candTime[t], LOCK_TIMEOUT) THEN "late"
                                                             ELSE "open"
                   [] OTHER -> s.phase[t]
    IN  IF ~ RequestIsValid(t) THEN s
        ELSE [s EXCEPT !.phase[t] = phase,
                       !.candTime[t] = IF s.phase[t] = "none" THEN now ELSE @]

ProcessTxLockRequest(s, pool, t) ==
    LET s1 == CreateTxLockCandidate(s, t)
    IN  IF RequestFails(s, t) THEN s1
        ELSE TryToFinalizeLockCandidate(s1, pool, t)

IsEnoughOrphanVotesForTx(s, t) ==
    \A o \in Inputs(t) :
        Cardinality({v \in s.orphans : v.tx = t /\ v.outpoint = o})
            >= SIGNATURES_REQUIRED

\* A vote whose lock request is unknown: keep it, start the timeout, and
\* process the request again when a decision on it was stored earlier.
StoreOrphanVote(s, pool, v) ==
    LET t == v.tx
        s1 == [s EXCEPT !.phase[t] = "empty",
                        !.candTime[t] = IF s.phase[t] = "none" THEN now ELSE @,
                        !.orphans = s.orphans \cup {v},
                        !.orphanTime[v] = now]
    IN  IF v \in s.orphans THEN s
        ELSE IF AlreadyHave(s, t) /\ IsEnoughOrphanVotesForTx(s1, t)
        THEN ProcessTxLockRequest(s1, pool, t)
        ELSE s1

\* Faulty: any vote on a contested outpoint counts as a conflicting one.
Rivals_AnyVoter(s, v) == {u \in Tx \ {v.tx} : <<v.outpoint, u>> \in s.voted}

\* Candidates of other transactions that hold a vote of v.mn for v.outpoint.
Rivals(s, v) ==
    {u \in Tx \ {v.tx} : /\ <<v.outpoint, u>> \in s.voted
                         /\ HasMasternodeVoted(s, u, v.outpoint, v.mn)}

AddVote(s, pool, v) ==
    LET t == v.tx
        rivals == Rivals(s, v)
        s1 == [s EXCEPT
                 !.attacked = s.attacked \cup
                     {<<u, v.outpoint>> : u \in
                         IF rivals = {} THEN {}
                         ELSE {x \in rivals \cup {t} : v.outpoint \in Inputs(x)}},
                 !.banned = s.banned \cup (IF rivals = {} THEN {} ELSE {v.mn}),
                 !.voted = s.voted \cup {<<v.outpoint, t>>}]
        fresh == v.outpoint \in Inputs(t) /\ v \notin s.counted
    IN  IF ~ fresh THEN s1
        ELSE TryToFinalizeLockCandidate(
                 [s1 EXCEPT !.counted = s.counted \cup {v}], pool, t)

ProcessTxLockVote(s, pool, v) ==
    IF ~ VoteIsValid(v) THEN s
    ELSE IF s.phase[v.tx] \in {"none", "empty"} THEN StoreOrphanVote(s, pool, v)
    ELSE IF Late(s.candTime[v.tx], LOCK_TIMEOUT) THEN s
    ELSE AddVote(s, pool, v)

\* Record a vote in mapTxLockVotes (insert keeps an entry that is there).
StoreVotes(s, V) ==
    [s EXCEPT !.seen = s.seen \cup V,
              !.voteTime = [v \in Vote |-> IF v \in V \ s.seen THEN now
                                           ELSE s.voteTime[v]]]

\* Faulty: only an earlier vote for the same transaction is looked for.
OwnVotes_SameTxOnly(s, t) ==
    {v \in Vote :
        /\ v.tx = t /\ v.mn = Me
        /\ v.outpoint \in Inputs(t)
        /\ InTop(Me, v.outpoint)
        /\ <<v.outpoint, t>> \in s.voted
               => ~ HasMasternodeVoted(s, t, v.outpoint, Me)}

\* The votes this masternode signs for t: the inputs whose quorum it is in and
\* on which it has voted for no candidate that mapVotedOutpoints leads to.
OwnVotes(s, t) ==
    {v \in Vote :
        /\ v.tx = t /\ v.mn = Me
        /\ v.outpoint \in Inputs(t)
        /\ InTop(Me, v.outpoint)
        /\ \A u \in Tx : <<v.outpoint, u>> \in s.voted
                            => ~ HasMasternodeVoted(s, u, v.outpoint, Me)}

MayVote(s, t) ==
    /\ Me # NoMasternode
    /\ "SPORK_2" \in sporks
    /\ synced
    /\ s.phase[t] = "open"
    /\ t \in s.accepted

\* Faulty: key and value of mapVotedOutpoints are swapped.
VoteFor_Swapped(s, t) ==
    LET V == IF MayVote(s, t) THEN OwnVotes(s, t) ELSE {}
        s1 == StoreVotes(s, V)
    IN  [s1 EXCEPT !.voted = s.voted \cup
                       {<<t, v.outpoint>> : v \in V \ s.counted},
                   !.counted = s.counted \cup V]

VoteFor(s, t) ==
    LET V == IF MayVote(s, t) THEN OwnVotes(s, t) ELSE {}
        s1 == StoreVotes(s, V)
    IN  [s1 EXCEPT !.voted = s.voted \cup
                       {<<v.outpoint, t>> : v \in V \ s.counted},
                   !.counted = s.counted \cup V]

\* The relayed votes: AddVote refuses one that is already counted.
RelayedVotes(s, t) ==
    IF MayVote(s, t) THEN OwnVotes(s, t) \ s.counted ELSE {}

\* The transactions T became confirmed at height h, or unconfirmed (-1).  The
\* subscript on mapTxLockVotes creates the entry of an orphan vote it lacks.
SyncTransaction(s, T, h) ==
    LET orphan == {v \in s.orphans : v.tx \in T}
        touched == {v \in s.counted \cap s.seen : v.tx \in T} \cup orphan
        s1 == StoreVotes(s, orphan)
    IN  [s1 EXCEPT
           !.blank = s.blank \cup (orphan \ s.seen),
           !.voteHeight = [v \in Vote |-> IF v \in touched THEN h
                                          ELSE s.voteHeight[v]],
           !.candHeight = [t \in Tx |-> IF t \in T /\ s.phase[t] # "none" THEN h
                                        ELSE s.candHeight[t]]]

-----------------------------------------------------------------------------
\* The memory pool and the chain, as far as InstantSend takes part in them.

\* AcceptToMemoryPoolWorker, with transaction replacement off (the default).
AcceptToMemoryPool(s, pool, t) ==
    /\ t \notin pool
    /\ HasTxLockRequest(s, t) => RequestIsValid(t)
    /\ \A o \in Inputs(t) : /\ ~ LockConflict(s, t, o)
                            /\ ~ PoolConflict(pool, t, o)
    /\ minedAt[t] = 0
    /\ \A o \in Inputs(t) : GetUTXOCoin(o)

\* AcceptToMemoryPoolWorker's fMissingInputs: such a transaction is set aside.
MissesInputs(s, pool, t) ==
    /\ t \notin pool
    /\ ~ HasTxLockRequest(s, t)
    /\ \A o \in Inputs(t) : ~ LockConflict(s, t, o) /\ ~ PoolConflict(pool, t, o)
    /\ minedAt[t] = 0
    /\ \E o \in Inputs(t) : ~ GetUTXOCoin(o)

\* CheckBlock's filter: no transaction of the block conflicts with a lock.
BlockPassesLockFilter(s, b) ==
    "SPORK_3" \in sporks =>
        \A t \in b : \A o \in Inputs(t) : ~ LockConflict(s, t, o)

\* ConnectBlock: every input is unspent and is spent once.
BlockConnects(b) ==
    \A t \in b : \A o \in Inputs(t) :
        GetUTXOCoin(o) /\ ~ PoolConflict(b, t, o)

\* Faulty: completed locks are not looked at.
Resurrected_IgnoresLocks(s, pool, b) ==
    {t \in b :
        /\ HasTxLockRequest(s, t) => t \in WellFormed
        /\ \A o \in Inputs(t) :
               /\ ~ PoolConflict(pool, t, o)
               /\ \A u \in Tx \ b : minedAt[u] # 0 => o \notin Inputs(u)}

\* The transactions of a disconnected block b that AcceptToMemoryPool takes
\* back, the coins being those of the chain without b.
Resurrected(s, pool, b) ==
    {t \in b :
        /\ HasTxLockRequest(s, t) => t \in WellFormed
        /\ \A o \in Inputs(t) :
               /\ ~ LockConflict(s, t, o)
               /\ ~ PoolConflict(pool, t, o)
               /\ \A u \in Tx \ b : minedAt[u] # 0 => o \notin Inputs(u)}

-----------------------------------------------------------------------------
\* Actions.

\* The next four run on the message-handler thread, one message at a time.
\* TXLOCKREQUEST, first section: ProcessTxLockRequest.
ReceiveTxLockRequest(t) ==
    /\ pendingRequest = NoTx
    /\ is' = ProcessTxLockRequest(is, mempool, t)
    /\ pendingRequest' = IF RequestFails(is, t) THEN NoTx ELSE t
    /\ UNCHANGED <<mempool, chainVars, envVars, sentVotes>>

\* TXLOCKREQUEST, second section, when the memory pool takes the transaction.
AcceptLockRequest ==
    LET t == pendingRequest
        s1 == SyncTransaction(is, {t}, -1)
        s2 == [s1 EXCEPT !.accepted = s1.accepted \cup {t}]
        s3 == VoteFor(s2, t)
        pool == mempool \cup {t}
        s4 == TryToFinalizeLockCandidate(s3, pool, t)
    IN  /\ t # NoTx
        /\ ~ AlreadyHave(is, t)
        /\ AcceptToMemoryPool(is, mempool, t)
        /\ mempool' = pool
        /\ sentVotes' = sentVotes \cup RelayedVotes(s2, t)
        /\ is' = s4
        /\ pendingRequest' = NoTx
        /\ UNCHANGED <<chainVars, envVars>>

\* ... and when it does not (which its fee and size rules may always decide),
\* or a decision on the request is known.
RejectLockRequest ==
    LET t == pendingRequest
    IN  /\ t # NoTx
        /\ IF AlreadyHave(is, t) \/ MissesInputs(is, mempool, t)
           THEN UNCHANGED is
           ELSE is' = [is EXCEPT !.rejected = is.rejected \cup {t}]
        /\ pendingRequest' = NoTx
        /\ UNCHANGED <<mempool, chainVars, envVars, sentVotes>>

\* TXLOCKVOTE: a vote of another masternode, or an echo of one of our own.
ReceiveTxLockVote(v) ==
    /\ pendingRequest = NoTx
    /\ "SPORK_2" \in sporks
    /\ synced
    /\ v \in netVotes \cup sentVotes
    /\ v \notin is.seen
    /\ is' = ProcessTxLockVote(StoreVotes(is, {v}), mempool, v)
    /\ UNCHANGED <<mempool, chainVars, pendingRequest, envVars,
                   sentVotes>>

\* A plain transaction, from a TX message or from sendrawtransaction.
ReceiveTx(t) ==
    /\ AcceptToMemoryPool(is, mempool, t)
    /\ mempool' = mempool \cup {t}
    /\ is' = SyncTransaction(is, {t}, -1)
    /\ UNCHANGED <<chainVars, pendingRequest, envVars, sentVotes>>

\* sendrawtransaction with instantsend=true: the request is processed but,
\* unlike one from the network, neither stored as accepted nor voted on.
SendRawInstantTx(t) ==
    LET s1 == ProcessTxLockRequest(is, mempool, t)
    IN  /\ t \notin mempool /\ minedAt[t] = 0
        /\ \/ /\ ~ RequestFails(is, t) /\ AcceptToMemoryPool(s1, mempool, t)
              /\ mempool' = mempool \cup {t}
              /\ is' = SyncTransaction(s1, {t}, -1)
           \/ is' = s1 /\ UNCHANGED mempool
        /\ UNCHANGED <<chainVars, pendingRequest, envVars, sentVotes>>

\* The wallet relays a transaction of its own that is in the pool as a lock
\* request, whose failure it ignores (a plain relay changes no state).
RelayWalletTransaction(t) ==
    /\ t \in mempool
    /\ is' = ProcessTxLockRequest(is, mempool, t)
    /\ UNCHANGED <<mempool, chainVars, pendingRequest, envVars, sentVotes>>

\* The PrivateSend thread's periodic clean-up.
PeriodicCheckAndRemove ==
    /\ is' = CheckAndRemove(is)
    /\ UNCHANGED <<mempool, chainVars, pendingRequest, envVars,
                   sentVotes>>

\* LimitMempoolSize: a transaction leaves the pool by age or by fee rate.
EvictTx(t) ==
    /\ t \in mempool
    /\ mempool' = mempool \ {t}
    /\ UNCHANGED <<is, chainVars, pendingRequest, envVars,
                   sentVotes>>

\* ProcessNewBlock's first half, under cs_main: CheckBlock and AcceptBlock.
\* A block that fails is marked invalid and leaves no trace here.
AcceptBlock(b) ==
    /\ checkedBlocks = {}
    /\ tip < MaxHeight
    /\ BlockPassesLockFilter(is, b)
    /\ checkedBlocks' = {b}
    /\ UNCHANGED <<is, mempool, minedAt, tip, tipNotices, pendingRequest, envVars, sentVotes>>

\* ProcessNewBlock's second half, after cs_main was released: ActivateBestChain
\* connects the block.  fromDisk: another thread's ActivateBestChain does so,
\* from a copy whose fChecked is unset, so that CheckBlock runs again.
ConnectTip(b, fromDisk) ==
    LET connects == /\ BlockConnects(b)
                    /\ fromDisk => BlockPassesLockFilter(is, b)
        conflicted == {u \in mempool \ b : \E t \in b :
                            Inputs(u) \cap Inputs(t) # {}}
        s1 == SyncTransaction(is, conflicted, -1)
    IN  /\ b \in checkedBlocks
        /\ checkedBlocks' = checkedBlocks \ {b}
        /\ IF connects
           THEN /\ tip' = tip + 1
                /\ minedAt' = [t \in Tx |-> IF t \in b THEN tip + 1
                                            ELSE minedAt[t]]
                /\ mempool' = mempool \ (b \cup conflicted)
                /\ is' = SyncTransaction(s1, b, tip + 1)
                /\ tipNotices' = tipNotices \cup {tip + 1}
           ELSE UNCHANGED <<is, mempool, minedAt, tip, tipNotices>>
        /\ UNCHANGED <<pendingRequest, envVars, sentVotes>>

\* The tip is disconnected by a reorganisation or invalidateblock.  Its
\* transactions return to the pool if the pool takes them.
DisconnectTip ==
    LET b == {t \in Tx : minedAt[t] = tip}
    IN  /\ tip > BaseHeight
        /\ tip' = tip - 1
        /\ minedAt' = [t \in Tx |-> IF t \in b THEN 0 ELSE minedAt[t]]
        /\ mempool' = mempool \cup Resurrected(is, mempool, b)
        /\ is' = SyncTransaction(is, b, -1)
        /\ UNCHANGED <<checkedBlocks, tipNotices, pendingRequest,
                       envVars, sentVotes>>

\* ActivateBestChain's callback, run without cs_main: the height may be stale.
UpdatedBlockTip(h) ==
    /\ h \in tipNotices
    /\ tipNotices' = tipNotices \ {h}
    /\ is' = [is EXCEPT !.height = h]
    /\ UNCHANGED <<mempool, minedAt, tip, checkedBlocks, pendingRequest, envVars, sentVotes>>

Tick ==
    /\ now < MaxTime
    /\ now' = now + 1
    /\ UNCHANGED <<is, mempool, chainVars, pendingRequest, sporks,
                   mnList, synced, netVotes, restarts, sentVotes>>

\* The spork key, the masternode list and masternode sync change on their own.
EnvironmentChange ==
    /\ \/ sporks' \in SporkSettings \ {sporks} /\ UNCHANGED <<mnList, synced>>
       \/ mnList' \in MnLists \ {mnList} /\ UNCHANGED <<sporks, synced>>
       \/ synced' \in SyncSettings \ {synced} /\ UNCHANGED <<sporks, mnList>>
    /\ UNCHANGED <<is, mempool, chainVars, pendingRequest, now,
                   netVotes, restarts, sentVotes>>

\* The node stops and starts again.  The chain is on disk; neither the memory
\* pool nor any map of CInstantSend is, and masternode sync begins anew.
Restart ==
    /\ restarts < MaxRestarts
    /\ restarts' = restarts + 1
    /\ is' = [EmptyState(tip) EXCEPT !.banned = is.banned]
    /\ mempool' = {}
    /\ checkedBlocks' = {}
    /\ tipNotices' = {}
    /\ pendingRequest' = NoTx
    /\ synced' = FALSE
    /\ UNCHANGED <<minedAt, tip, now, sporks, mnList, netVotes, sentVotes>>

Init ==
    /\ is = EmptyState(BaseHeight)
    /\ mempool = {}
    /\ minedAt = [t \in Tx |-> 0]
    /\ tip = BaseHeight
    /\ checkedBlocks = {}
    /\ tipNotices = {}
    /\ pendingRequest = NoTx
    /\ now = 0
    /\ sporks \in SporkSettings
    /\ mnList \in MnLists
    /\ synced = TRUE
    /\ netVotes \in NetVoteSets
    /\ sentVotes = {}
    /\ restarts = 0

Next ==
    \/ \E t \in Tx : ReceiveTxLockRequest(t)
    \/ AcceptLockRequest
    \/ RejectLockRequest
    \/ \E v \in Vote : ReceiveTxLockVote(v)
    \/ \E t \in Tx : ReceiveTx(t)
    \/ \E t \in Tx : SendRawInstantTx(t)
    \/ \E t \in Tx : RelayWalletTransaction(t)
    \/ PeriodicCheckAndRemove
    \/ \E t \in Tx : EvictTx(t)
    \/ \E b \in BlockTxs : AcceptBlock(b)
    \/ \E b \in BlockTxs, fromDisk \in BOOLEAN : ConnectTip(b, fromDisk)
    \/ DisconnectTip
    \/ \E h \in tipNotices : UpdatedBlockTip(h)
    \/ Tick
    \/ EnvironmentChange
    \/ Restart

Spec == Init /\ [][Next]_vars

-----------------------------------------------------------------------------
\* Properties.

\* Every variable has its type; an entry that is gone has its default value.
TypeOK ==
    /\ is \in State
    /\ mempool \in SUBSET Tx
    /\ minedAt \in [Tx -> Nat]
    /\ tip \in Nat
    /\ checkedBlocks \in SUBSET BlockTxs
    /\ tipNotices \in SUBSET Nat
    /\ pendingRequest \in Tx \cup {NoTx}
    /\ now \in Nat
    /\ sporks \in SUBSET Spork
    /\ mnList \in SUBSET Masternode
    /\ synced \in BOOLEAN
    /\ netVotes \in SUBSET Vote
    /\ sentVotes \in SUBSET Vote
    /\ restarts \in Nat

HasQuorum(s, t) ==
    /\ s.phase[t] = "open"
    /\ \A o \in Inputs(t) : CountVotes(s, t, o) >= SIGNATURES_REQUIRED

LocksBackedIn(s) ==
    \A o \in Outpoint : s.locked[o] # NoTx =>
        o \in Inputs(s.locked[o]) /\ HasQuorum(s, s.locked[o])

\* A completed lock stands on a complete candidate of its transaction that
\* still holds enough votes for EVERY input of it.  ResolveConflicts relies on
\* it ("safety check, should never really happen"), whatever CheckAndRemove,
\* conflicts and late votes did in between.
LocksBacked == LocksBackedIn(is)

PoolRespectsLocks(s, pool) ==
    \A t \in pool : \A o \in Inputs(t) : ~ LockConflict(s, t, o)

\* The memory pool holds no transaction that spends an outpoint locked by
\* another one: AcceptToMemoryPool refuses it after the lock, ResolveConflicts
\* refuses the lock after it, and no reorganisation brings it back.
MempoolRespectsLocks == PoolRespectsLocks(is, mempool)

VotedHaveCandidateIn(s) ==
    \A p \in s.voted : s.phase[p[2]] = "open" /\ p[1] \in Inputs(p[2])

\* mapVotedOutpoints names only transactions that have a complete candidate
\* with that outpoint: Vote() dereferences the result of the lookup unchecked.
VotedHaveCandidate == VotedHaveCandidateIn(is)

\* A masternode is PoSe-banned by ProcessTxLockVote only when it has signed
\* votes for one outpoint in two transactions, never for a vote that came
\* twice, late, or again after the node forgot it.
BannedSignedConflict ==
    \A m \in is.banned : \E v, w \in netVotes \cup sentVotes :
        /\ v.mn = m /\ w.mn = m
        /\ v.outpoint = w.outpoint /\ v.tx # w.tx

\* "refuse to vote twice or to include the same outpoint in another tx": this
\* masternode never relays votes for one outpoint in two transactions.
NeverVotesTwice ==
    \A v, w \in sentVotes : v.outpoint = w.outpoint => v.tx = w.tx

\* A transaction's inputs are locked together: as long as one is locked to
\* it, all are.
LocksAtomic ==
    \A o \in Outpoint :
        is.locked[o] # NoTx =>
            \A p \in Inputs(is.locked[o]) : is.locked[p] = is.locked[o]

\* "We should never accept block which conflicts with completed transaction
\* lock": connecting a block never spends, by another transaction, an outpoint
\* that is locked while block filtering is on.
ConnectedBlocksRespectLocks ==
    [][\A t \in Tx :
        minedAt[t] = 0 /\ minedAt'[t] # 0 /\ "SPORK_3" \in sporks =>
            \A o \in Inputs(t) : ~ LockConflict(is, t, o)]_vars

\* A lock is never completed for a transaction one of whose inputs the chain
\* gave to another one, however long the votes took.
NewLocksRespectChain ==
    [][\A o \in Outpoint : is'.locked[o] \notin {NoTx, is.locked[o]} =>
        \A p \in Inputs(is'.locked[o]), u \in Tx \ {is'.locked[o]} :
            minedAt[u] # 0 => p \notin Inputs(u)]_vars

\* A lock passes from one transaction to another only through its release:
\* of two competing requests, the second never takes the first one's place.
LocksNotTransferred ==
    [][\A o \in Outpoint : is.locked[o] # NoTx =>
        is'.locked[o] \in {NoTx, is.locked[o]}]_vars

\* "Locks and votes expire nInstantSendKeepLock blocks after the block
\* corresponding tx was included into": CheckAndRemove releases a lock only
\* when the transaction that owns it has aged, unless two completed locks
\* collided and both were rejected, or the node restarted.
LocksExpireByOwnTx ==
    [][\A o \in Outpoint :
        LET t == is.locked[o]
        IN  t # NoTx /\ is'.locked[o] = NoTx =>
                \/ IsExpired(is.candHeight[t], is.height)
                \/ t \in is'.rejected
                \/ restarts' # restarts]_vars

\* Messages that keep being offered by peers are handled, and a handler that was
\* begun ends.
Fairness ==
    /\ WF_vars(AcceptLockRequest \/ RejectLockRequest)
    /\ \A t \in Tx : SF_vars(ReceiveTxLockRequest(t))
    /\ \A v \in Vote : SF_vars(ReceiveTxLockVote(v))

FairSpec == Spec /\ Fairness

\* A request that is known before the votes on it locks its inputs, unless it
\* is mined or its candidate times out first.
RequestEventuallyLocks ==
    \A t \in Tx :
        (is.phase[t] = "open" /\ \A v \in is.seen : v.tx # t)
            ~> \/ \A o \in Inputs(t) : is.locked[o] = t
               \/ minedAt[t] # 0
               \/ Late(is.candTime[t], LOCK_TIMEOUT)
=============================================================================
