------------------------- MODULE InstantSendProofs -------------------------
(***************************************************************************)
(* What InstantSend guarantees for every value of the constants.  Of       *)
(* completed locks: a lock is backed by votes on every input, the memory   *)
(* pool respects it, and it is never handed over to another transaction.   *)
(* Of votes: nobody is banned who did not sign conflicting votes, votes    *)
(* are counted for complete candidates, and they complete no lock that the *)
(* chain has overtaken.                                                    *)
(***************************************************************************)
EXTENDS InstantSend, TLAPS, FiniteSetTheorems

\* The inputs of a transaction are outpoints.
LEMMA InputsType == \A t \in Tx : Inputs(t) \subseteq Outpoint
  BY TxAssumption, SMTT(60) DEF Inputs

\* Each method of CInstantSend turns an object into an object.
LEMMA ReleaseOutpointsType ==
  ASSUME NEW s \in State
  PROVE  ReleaseOutpoints(s) \in State
  BY ZenonT(60) DEF ReleaseOutpoints, State

\* Erasing candidates leaves an object.
LEMMA EraseCandidatesType ==
  ASSUME NEW s \in State, NEW expired \in SUBSET Tx
  PROVE  EraseCandidates(s, expired) \in State
<1> DEFINE phase == [t \in Tx |-> IF t \in expired THEN "none" ELSE s.phase[t]]
           candTime == [t \in Tx |-> IF t \in expired THEN 0 ELSE s.candTime[t]]
           candHeight == [t \in Tx |-> IF t \in expired THEN -1
                                       ELSE s.candHeight[t]]
           counted == {v \in s.counted : v.tx \notin expired}
           attacked == {p \in s.attacked : p[1] \notin expired}
<1>1. /\ phase \in [Tx -> Phase]
      /\ candTime \in [Tx -> Nat]
      /\ candHeight \in [Tx -> Int]
  BY DEF State, Phase
<1>2. counted \in SUBSET Vote /\ attacked \in SUBSET (Tx \X Outpoint)
  BY DEF State
<1> HIDE DEF phase, candTime, candHeight, counted, attacked
<1>3. [s EXCEPT !.phase = phase, !.candTime = candTime,
                !.candHeight = candHeight, !.counted = counted,
                !.attacked = attacked] \in State
  BY <1>1, <1>2, ZenonT(60) DEF State
<1> QED
  BY <1>3 DEF EraseCandidates, phase, candTime, candHeight, counted, attacked

\* Erasing votes leaves an object.
LEMMA EraseVotesType ==
  ASSUME NEW s \in State, NEW kept \in SUBSET Vote
  PROVE  EraseVotes(s, kept) \in State
<1> DEFINE time == [v \in Vote |-> IF v \in kept THEN s.voteTime[v] ELSE 0]
           height == [v \in Vote |-> IF v \in kept THEN s.voteHeight[v] ELSE -1]
<1>1. time \in [Vote -> Nat] /\ height \in [Vote -> Int]
  BY DEF State
<1>2. s.blank \cap kept \in SUBSET Vote
  BY DEF State
<1> HIDE DEF time, height
<1>3. [s EXCEPT !.seen = kept, !.blank = s.blank \cap kept,
                !.voteTime = time, !.voteHeight = height] \in State
  BY <1>1, <1>2, ZenonT(60) DEF State
<1> QED
  BY <1>3 DEF EraseVotes, time, height

\* Erasing orphan votes leaves an object.
LEMMA EraseOrphansType ==
  ASSUME NEW s \in State, NEW late \in SUBSET Vote
  PROVE  EraseOrphans(s, late) \in State
  BY ZenonT(60) DEF EraseOrphans, State

\* CheckAndRemove turns an object into an object.
LEMMA CheckAndRemoveType ==
  ASSUME NEW s \in State
  PROVE  CheckAndRemove(s) \in State
<1> DEFINE s1 == EraseCandidates(ReleaseOutpoints(s), ExpiredCandidates(s))
<1>1. s1 \in State
  BY ReleaseOutpointsType, EraseCandidatesType DEF ExpiredCandidates
<1>2. KeptVotes(s1) \subseteq Vote /\ LateOrphans(s) \subseteq Vote
  BY <1>1 DEF KeptVotes, LateOrphans, State
<1>3. EraseOrphans(EraseVotes(s1, KeptVotes(s1)), LateOrphans(s)) \in State
  BY <1>1, <1>2, EraseVotesType, EraseOrphansType, ZenonT(60)
<1> QED
  BY <1>3 DEF CheckAndRemove

\* Storing votes leaves an object.
LEMMA StoreVotesType ==
  ASSUME NEW s \in State, NEW V \in SUBSET Vote, now \in Nat
  PROVE  StoreVotes(s, V) \in State
  BY ZenonT(60) DEF StoreVotes, State

\* SyncTransaction, for any transactions and height, leaves an object.
LEMMA SyncTransactionType ==
  ASSUME NEW s \in State, NEW T \in SUBSET Tx, NEW h \in Int, now \in Nat
  PROVE  SyncTransaction(s, T, h) \in State
  BY ZenonT(60) DEF SyncTransaction, StoreVotes, State

\* What SyncTransaction is called with: the height of no block, one transaction.
LEMMA SyncArguments == -1 \in Int /\ \A t \in Tx : {t} \in SUBSET Tx
  OBVIOUS

\* Locking the inputs of a transaction leaves an object.
LEMMA LockTransactionInputsType ==
  ASSUME NEW s \in State, NEW t \in Tx
  PROVE  LockTransactionInputs(s, t) \in State
  BY DEF LockTransactionInputs, State

\* Dropping two colliding locks leaves an object.
LEMMA DropBothType ==
  ASSUME NEW s \in State, NEW t \in Tx, NEW u \in Tx
  PROVE  DropBoth(s, t, u) \in State
<1> DEFINE s0 == [s EXCEPT !.candHeight =
                  [x \in Tx |-> IF x \in {t, u} THEN 0 ELSE s.candHeight[x]]]
<1>1. s0 \in State
  BY DEF State
<1>2. CheckAndRemove(s0) \in State
  BY <1>1, CheckAndRemoveType
<1> QED
  BY <1>2, ZenonT(60) DEF DropBoth, State

\* TryToFinalizeLockCandidate leaves an object, whichever branch it takes.
LEMMA FinalizeType ==
  ASSUME NEW s \in State, NEW pool \in SUBSET Tx, NEW t \in Tx
  PROVE  TryToFinalizeLockCandidate(s, pool, t) \in State
  BY LockTransactionInputsType, DropBothType DEF TryToFinalizeLockCandidate

\* CreateTxLockCandidate leaves an object.
LEMMA CreateType ==
  ASSUME NEW s \in State, NEW t \in Tx, now \in Nat
  PROVE  CreateTxLockCandidate(s, t) \in State
  BY ZenonT(60) DEF CreateTxLockCandidate, State, Phase

\* ProcessTxLockRequest leaves an object.
LEMMA RequestType ==
  ASSUME NEW s \in State, NEW pool \in SUBSET Tx, NEW t \in Tx, now \in Nat
  PROVE  ProcessTxLockRequest(s, pool, t) \in State
  BY CreateType, FinalizeType DEF ProcessTxLockRequest

\* Storing an orphan vote leaves an object.
LEMMA OrphanType ==
  ASSUME NEW s \in State, NEW pool \in SUBSET Tx, NEW v \in Vote, now \in Nat
  PROVE  StoreOrphanVote(s, pool, v) \in State
<1> DEFINE s1 == [s EXCEPT !.phase[v.tx] = "empty",
                    !.candTime[v.tx] = IF s.phase[v.tx] = "none" THEN now ELSE @,
                    !.orphans = s.orphans \cup {v},
                    !.orphanTime[v] = now]
<1>1. v.tx \in Tx
  BY DEF Vote
<1>2. s1 \in State
  BY <1>1, ZenonT(60) DEF State, Phase
<1>3. ProcessTxLockRequest(s1, pool, v.tx) \in State
  BY <1>1, <1>2, RequestType
<1> QED
  BY <1>2, <1>3 DEF StoreOrphanVote

\* Counting a vote, with its marks and bans, leaves an object.
LEMMA AddVoteType ==
  ASSUME NEW s \in State, NEW pool \in SUBSET Tx, NEW v \in Vote
  PROVE  AddVote(s, pool, v) \in State
<1> DEFINE rivals == Rivals(s, v)
           marked == {<<u, v.outpoint>> : u \in
                        IF rivals = {} THEN {}
                        ELSE {x \in rivals \cup {v.tx} : v.outpoint \in Inputs(x)}}
           culprit == IF rivals = {} THEN {} ELSE {v.mn}
           s1 == [s EXCEPT
                    !.attacked = s.attacked \cup marked,
                    !.banned = s.banned \cup culprit,
                    !.voted = s.voted \cup {<<v.outpoint, v.tx>>}]
           s2 == [s1 EXCEPT !.counted = s.counted \cup {v}]
<1>1. v.tx \in Tx /\ v.outpoint \in Outpoint /\ v.mn \in Masternode
  BY DEF Vote
<1>2. rivals \subseteq Tx
  BY DEF Rivals
<1> HIDE DEF rivals
<1>3. marked \subseteq Tx \X Outpoint /\ culprit \subseteq Masternode
  BY <1>1, <1>2
<1> HIDE DEF marked, culprit
<1>4. /\ s.attacked \cup marked \in SUBSET (Tx \X Outpoint)
      /\ s.banned \cup culprit \in SUBSET Masternode
      /\ s.voted \cup {<<v.outpoint, v.tx>>} \in SUBSET (Outpoint \X Tx)
      /\ s.counted \cup {v} \in SUBSET Vote
  BY <1>1, <1>3 DEF State
<1>6. s1 \in State
  BY <1>4, ZenonT(60) DEF State
<1> HIDE DEF s1
<1>7. s2 \in State
  BY <1>4, <1>6, ZenonT(60) DEF State
<1> HIDE DEF s2
<1>5. TryToFinalizeLockCandidate(s2, pool, v.tx) \in State
  BY <1>1, <1>7, FinalizeType
<1> QED
  BY <1>6, <1>5 DEF AddVote, s1, s2, marked, culprit, rivals

\* ProcessTxLockVote leaves an object.
LEMMA ProcessVoteType ==
  ASSUME NEW s \in State, NEW pool \in SUBSET Tx, NEW v \in Vote, now \in Nat
  PROVE  ProcessTxLockVote(s, pool, v) \in State
  BY AddVoteType, OrphanType DEF ProcessTxLockVote

\* What this masternode signs are votes.
LEMMA OwnVotesType == \A s, t : OwnVotes(s, t) \subseteq Vote
  BY DEF OwnVotes

\* Vote() leaves an object.
LEMMA VoteForType ==
  ASSUME NEW s \in State, NEW t \in Tx, now \in Nat
  PROVE  VoteFor(s, t) \in State
<1> DEFINE V == IF MayVote(s, t) THEN OwnVotes(s, t) ELSE {}
           s1 == StoreVotes(s, V)
           new == {<<v.outpoint, t>> : v \in V \ s.counted}
<1>1. V \in SUBSET Vote
  BY OwnVotesType
<1> HIDE DEF V
<1>2. s1 \in State
  BY <1>1, StoreVotesType
<1>3. new \subseteq Outpoint \X Tx
  BY <1>1 DEF Vote
<1> HIDE DEF s1, new
<1>4. [s1 EXCEPT !.voted = s.voted \cup new, !.counted = s.counted \cup V]
        \in State
  BY <1>1, <1>2, <1>3, ZenonT(60) DEF State
<1> QED
  BY <1>4 DEF VoteFor, V, s1, new

\* A newly constructed CInstantSend is an object.
LEMMA EmptyStateType ==
  ASSUME NEW h \in Int
  PROVE  EmptyState(h) \in State
  BY TxAssumption DEF EmptyState, State, Phase

-----------------------------------------------------------------------------
\* Every step keeps the types.
LEMMA TypeStep ==
  ASSUME TypeOK, [Next]_vars
  PROVE  TypeOK'
<1> USE DEF TypeOK, chainVars, envVars
<1>1. ASSUME NEW t \in Tx, ReceiveTxLockRequest(t) PROVE TypeOK'
  BY <1>1, RequestType DEF ReceiveTxLockRequest
<1>2. CASE AcceptLockRequest
  <2> DEFINE t == pendingRequest
             s1 == SyncTransaction(is, {t}, -1)
             s2 == [s1 EXCEPT !.accepted = s1.accepted \cup {t}]
             s3 == VoteFor(s2, t)
             s4 == TryToFinalizeLockCandidate(s3, mempool \cup {t}, t)
  <2>1. t \in Tx
    BY <1>2 DEF AcceptLockRequest
  <2> HIDE DEF t
  <2>2. s1 \in State
    BY <2>1, SyncArguments, SyncTransactionType, ZenonT(60)
  <2> HIDE DEF s1
  <2>3. s2 \in State
    BY <2>1, <2>2, ZenonT(60) DEF State
  <2> HIDE DEF s2
  <2>4. s3 \in State
    BY <2>1, <2>3, VoteForType
  <2> HIDE DEF s3
  <2>5. s4 \in State
    BY <2>1, <2>4, FinalizeType
  <2>6. is' = s4 /\ mempool' = mempool \cup {t} /\ pendingRequest' = NoTx
        /\ sentVotes' = sentVotes \cup RelayedVotes(s2, t)
        /\ UNCHANGED <<chainVars, envVars>>
    BY <1>2 DEF AcceptLockRequest, t, s1, s2, s3
  <2>7. RelayedVotes(s2, t) \subseteq Vote
    BY OwnVotesType DEF RelayedVotes
  <2> QED
    BY <2>1, <2>5, <2>6, <2>7
<1>3. CASE RejectLockRequest
  <2>1. ASSUME pendingRequest \in Tx
        PROVE  [is EXCEPT !.rejected = is.rejected \cup {pendingRequest}]
                  \in State
    BY <2>1, ZenonT(60) DEF State
  <2> QED
    BY <1>3, <2>1, Zenon DEF RejectLockRequest
<1>4. ASSUME NEW v \in Vote, ReceiveTxLockVote(v) PROVE TypeOK'
  BY <1>4, StoreVotesType, ProcessVoteType DEF ReceiveTxLockVote
<1>5. ASSUME NEW t \in Tx, ReceiveTx(t) PROVE TypeOK'
  BY <1>5, SyncTransactionType DEF ReceiveTx
<1>6. ASSUME NEW t \in Tx, SendRawInstantTx(t) PROVE TypeOK'
  BY <1>6, RequestType, SyncTransactionType DEF SendRawInstantTx
<1>7. ASSUME NEW t \in Tx, RelayWalletTransaction(t) PROVE TypeOK'
  BY <1>7, RequestType DEF RelayWalletTransaction
<1>8. CASE PeriodicCheckAndRemove
  BY <1>8, CheckAndRemoveType DEF PeriodicCheckAndRemove
<1>9. ASSUME NEW t \in Tx, EvictTx(t) PROVE TypeOK'
  BY <1>9 DEF EvictTx
<1>10. ASSUME NEW b \in BlockTxs, AcceptBlock(b) PROVE TypeOK'
  BY <1>10 DEF AcceptBlock
<1>11. ASSUME NEW b \in BlockTxs, NEW fromDisk \in BOOLEAN,
              ConnectTip(b, fromDisk)
       PROVE  TypeOK'
  <2> DEFINE conflicted == {u \in mempool \ b : \E t \in b :
                               Inputs(u) \cap Inputs(t) # {}}
  <2>1. b \in SUBSET Tx /\ conflicted \in SUBSET Tx /\ tip + 1 \in Int
    BY EnvironmentAssumption
  <2>2. SyncTransaction(is, conflicted, -1) \in State
    BY <2>1, SyncArguments, SyncTransactionType, ZenonT(60)
  <2>3. SyncTransaction(SyncTransaction(is, conflicted, -1), b, tip + 1)
          \in State
    BY <2>1, <2>2, SyncArguments, SyncTransactionType, ZenonT(60)
  <2>4. [t \in Tx |-> IF t \in b THEN tip + 1 ELSE minedAt[t]] \in [Tx -> Nat]
    OBVIOUS
  <2>5. tip + 1 \in Nat /\ tipNotices \cup {tip + 1} \in SUBSET Nat
        /\ mempool \ (b \cup conflicted) \in SUBSET Tx
        /\ checkedBlocks \ {b} \in SUBSET BlockTxs
    OBVIOUS
  <2>6. CASE is' = is /\ mempool' = mempool /\ minedAt' = minedAt
             /\ tip' = tip /\ tipNotices' = tipNotices
    BY <1>11, <2>5, <2>6, ZenonT(60) DEF ConnectTip
  <2>7. CASE /\ tip' = tip + 1
             /\ minedAt' = [t \in Tx |-> IF t \in b THEN tip + 1
                                         ELSE minedAt[t]]
             /\ mempool' = mempool \ (b \cup conflicted)
             /\ is' = SyncTransaction(SyncTransaction(is, conflicted, -1),
                                      b, tip + 1)
             /\ tipNotices' = tipNotices \cup {tip + 1}
    BY <1>11, <2>3, <2>4, <2>5, <2>7, ZenonT(60) DEF ConnectTip
  <2> QED
    BY <1>11, <2>6, <2>7 DEF ConnectTip
<1>12. CASE DisconnectTip
  <2> DEFINE b == {t \in Tx : minedAt[t] = tip}
  <2>1. tip - 1 \in Nat
    BY <1>12, NumberAssumption DEF DisconnectTip
  <2>2. [t \in Tx |-> IF t \in b THEN 0 ELSE minedAt[t]] \in [Tx -> Nat]
    OBVIOUS
  <2>3. Resurrected(is, mempool, b) \subseteq Tx
    BY ZenonT(60) DEF Resurrected
  <2>4. SyncTransaction(is, b, -1) \in State
    BY SyncArguments, SyncTransactionType, ZenonT(60)
  <2> QED
    BY <1>12, <2>1, <2>2, <2>3, <2>4, ZenonT(60) DEF DisconnectTip
<1>13. ASSUME NEW h \in tipNotices, UpdatedBlockTip(h) PROVE TypeOK'
  <2>1. [is EXCEPT !.height = h] \in State
    <3>1. h \in Int
      OBVIOUS
    <3> QED
      BY <3>1, ZenonT(60) DEF State
  <2> QED
    BY <1>13, <2>1 DEF UpdatedBlockTip
<1>14. CASE Tick
  BY <1>14 DEF Tick
<1>15. CASE EnvironmentChange
  BY <1>15, EnvironmentAssumption DEF EnvironmentChange
<1>16. CASE Restart
  <2>1. EmptyState(tip) \in State
    <3>1. tip \in Int
      OBVIOUS
    <3> QED
      BY <3>1, EmptyStateType
  <2>2. is.banned \in SUBSET Masternode
    BY DEF State
  <2>3. [EmptyState(tip) EXCEPT !.banned = is.banned] \in State
    BY <2>1, <2>2, ZenonT(60) DEF State
  <2>4. synced' \in BOOLEAN
    BY <1>16, Zenon DEF Restart
  <2>5. restarts' \in Nat
    BY <1>16 DEF Restart
  <2> QED
    BY <1>16, <2>3, <2>4, <2>5, Zenon DEF Restart
<1>17. CASE UNCHANGED vars
  BY <1>17 DEF vars
<1> QED
  BY <1>1, <1>2, <1>3, <1>4, <1>5, <1>6, <1>7, <1>8, <1>9, <1>10, <1>11,
     <1>12, <1>13, <1>14, <1>15, <1>16, <1>17, Zenon DEF Next

\* Every variable keeps its type (the first conjunct: the CInstantSend object).
THEOREM TypeCorrect == Spec => []TypeOK
<1>1. Init => TypeOK
  BY EmptyStateType, NumberAssumption, EnvironmentAssumption DEF Init, TypeOK
<1>2. TypeOK /\ [Next]_vars => TypeOK'
  BY TypeStep
<1> QED
  BY <1>1, <1>2, PTL DEF Spec

-----------------------------------------------------------------------------
(* Completed locks *)

\* s2 has the locks of s, at least its votes and its complete candidates.
Grows(s, s2) ==
    /\ s2.locked = s.locked
    /\ s.counted \subseteq s2.counted
    /\ \A t \in Tx : s.phase[t] = "open" => s2.phase[t] = "open"

\* s2 has no lock that s does not have.
Releases(s, s2) == \A o \in Outpoint : s2.locked[o] \in {NoTx, s.locked[o]}

\* No outpoint goes from one owner to another.
NoTransfer(s, s2) ==
    \A o \in Outpoint : s.locked[o] # NoTx => s2.locked[o] \in {NoTx, s.locked[o]}

\* The inductive invariant, of an object and a pool.
Safe(s, pool) == LocksBackedIn(s) /\ PoolRespectsLocks(s, pool)

-----------------------------------------------------------------------------
\* More votes, no smaller count.
LEMMA CountMonotonic ==
  ASSUME NEW s, NEW s2, s.counted \subseteq s2.counted, NEW t, NEW o
  PROVE  /\ CountVotes(s, t, o) \in Nat
         /\ CountVotes(s2, t, o) \in Nat
         /\ CountVotes(s, t, o) <= CountVotes(s2, t, o)
<1> DEFINE A == {m \in Masternode : HasMasternodeVoted(s, t, o, m)}
           B == {m \in Masternode : HasMasternodeVoted(s2, t, o, m)}
<1>1. A \subseteq B /\ B \subseteq Masternode
  BY DEF HasMasternodeVoted
<1>2. IsFiniteSet(B)
  BY <1>1, TxAssumption, FS_Subset
<1>3. IsFiniteSet(A) /\ Cardinality(A) <= Cardinality(B)
  BY <1>1, <1>2, FS_Subset
<1> QED
  BY <1>2, <1>3, FS_CardinalityType DEF CountVotes

\* A method that keeps the locks and loses no vote and no complete candidate
\* keeps every lock backed.
LEMMA GrowsKeepsBacked ==
  ASSUME NEW s \in State, NEW s2 \in State, LocksBackedIn(s), Grows(s, s2)
  PROVE  LocksBackedIn(s2)
<1> SUFFICES ASSUME NEW o \in Outpoint, s2.locked[o] # NoTx
             PROVE  o \in Inputs(s2.locked[o]) /\ HasQuorum(s2, s2.locked[o])
  BY DEF LocksBackedIn
<1> DEFINE t == s.locked[o]
<1>1. s2.locked[o] = t /\ t \in Tx /\ o \in Inputs(t) /\ HasQuorum(s, t)
  BY DEF Grows, LocksBackedIn, State
<1>2. ASSUME NEW p \in Inputs(t)
      PROVE  CountVotes(s2, t, p) >= SIGNATURES_REQUIRED
  <2>1. CountVotes(s, t, p) >= SIGNATURES_REQUIRED
    BY <1>1, <1>2 DEF HasQuorum
  <2>2. /\ CountVotes(s, t, p) \in Nat
        /\ CountVotes(s2, t, p) \in Nat
        /\ CountVotes(s, t, p) <= CountVotes(s2, t, p)
    BY CountMonotonic DEF Grows
  <2> QED
    BY <2>1, <2>2, QuorumAssumption
<1> QED
  BY <1>1, <1>2 DEF HasQuorum, Grows

\* Giving up locks creates no conflict with the memory pool.
LEMMA ReleasesKeepsPool ==
  ASSUME NEW s \in State, NEW s2 \in State, NEW pool \in SUBSET Tx,
         PoolRespectsLocks(s, pool), Releases(s, s2)
  PROVE  PoolRespectsLocks(s2, pool)
  BY InputsType DEF PoolRespectsLocks, LockConflict, Releases

\* The two together, for the methods that only add.
LEMMA GrowsKeepsSafe ==
  ASSUME NEW s \in State, NEW s2 \in State, NEW pool \in SUBSET Tx,
         Safe(s, pool), Grows(s, s2)
  PROVE  Safe(s2, pool)
<1>1. Releases(s, s2)
  BY DEF Grows, Releases
<1> QED
  BY <1>1, GrowsKeepsBacked, ReleasesKeepsPool DEF Safe

-----------------------------------------------------------------------------
\* What the methods do to locks, votes and candidates.
LEMMA StoreVotesGrows ==
  ASSUME NEW s \in State, NEW V
  PROVE  Grows(s, StoreVotes(s, V))
  BY DEF StoreVotes, Grows, State

\* SyncTransaction changes heights only.
LEMMA SyncTransactionGrows ==
  ASSUME NEW s \in State, NEW T, NEW h
  PROVE  Grows(s, SyncTransaction(s, T, h))
  BY DEF SyncTransaction, StoreVotes, Grows, State

\* A new request never takes the place of a complete candidate.
LEMMA CreateGrows ==
  ASSUME NEW s \in State, NEW t \in Tx
  PROVE  Grows(s, CreateTxLockCandidate(s, t))
  BY DEF CreateTxLockCandidate, Grows, State

\* Vote() adds votes of this masternode.
LEMMA VoteForGrows ==
  ASSUME NEW s \in State, NEW t \in Tx
  PROVE  Grows(s, VoteFor(s, t))
  BY DEF VoteFor, StoreVotes, Grows, State

\* CheckAndRemove frees every outpoint of a candidate it removes, so a lock
\* that is left belongs to a candidate that is left with all its votes.
LEMMA CheckAndRemoveFields ==
  ASSUME NEW s \in State, synced
  PROVE  LET s2 == CheckAndRemove(s)
         IN  /\ s2.locked = [o \in Outpoint |-> IF o \in FreedOutpoints(s)
                                                THEN NoTx ELSE s.locked[o]]
             /\ s2.phase = [t \in Tx |-> IF t \in ExpiredCandidates(s)
                                         THEN "none" ELSE s.phase[t]]
             /\ s2.counted = {v \in s.counted : v.tx \notin ExpiredCandidates(s)}
             /\ s2.voted = {p \in s.voted : p[1] \notin FreedOutpoints(s)}
             /\ s2.banned = s.banned
             /\ s2.candTime = [t \in Tx |-> IF t \in ExpiredCandidates(s)
                                            THEN 0 ELSE s.candTime[t]]
<1> DEFINE s1 == ReleaseOutpoints(s)
           s3 == EraseCandidates(s1, ExpiredCandidates(s))
           s4 == EraseVotes(s3, KeptVotes(s3))
<1>1. /\ s1 \in State
      /\ s1.locked = [o \in Outpoint |-> IF o \in FreedOutpoints(s)
                                         THEN NoTx ELSE s.locked[o]]
      /\ s1.voted = {p \in s.voted : p[1] \notin FreedOutpoints(s)}
      /\ s1.phase = s.phase /\ s1.counted = s.counted /\ s1.banned = s.banned
      /\ s1.candTime = s.candTime
  <2>1. s1 \in State
    BY ReleaseOutpointsType
  <2> QED
    BY <2>1, ZenonT(60) DEF ReleaseOutpoints, State
<1> HIDE DEF s1
<1>2. /\ s3 \in State
      /\ s3.locked = s1.locked /\ s3.voted = s1.voted /\ s3.banned = s1.banned
      /\ s3.phase = [t \in Tx |-> IF t \in ExpiredCandidates(s)
                                  THEN "none" ELSE s1.phase[t]]
      /\ s3.counted = {v \in s1.counted : v.tx \notin ExpiredCandidates(s)}
      /\ s3.candTime = [t \in Tx |-> IF t \in ExpiredCandidates(s)
                                     THEN 0 ELSE s1.candTime[t]]
  <2>1. s3 \in State
    BY <1>1, EraseCandidatesType DEF ExpiredCandidates
  <2> QED
    BY <1>1, <2>1, ZenonT(60) DEF EraseCandidates, State
<1> HIDE DEF s3
<1>3. /\ s4.locked = s3.locked /\ s4.phase = s3.phase
      /\ s4.counted = s3.counted /\ s4.voted = s3.voted /\ s4.banned = s3.banned
      /\ s4.candTime = s3.candTime
      /\ s4 \in State
  <2>1. s4 \in State
    BY <1>2, EraseVotesType, ZenonT(60) DEF KeptVotes, State
  <2> QED
    BY <1>2, <2>1, ZenonT(60) DEF EraseVotes, State
<1> HIDE DEF s4
<1>4. CheckAndRemove(s) = EraseOrphans(s4, LateOrphans(s))
  BY DEF CheckAndRemove, s1, s3, s4
<1>5. LET s2 == CheckAndRemove(s)
      IN  /\ s2.locked = s4.locked /\ s2.phase = s4.phase
          /\ s2.counted = s4.counted /\ s2.voted = s4.voted
          /\ s2.banned = s4.banned /\ s2.candTime = s4.candTime
  BY <1>3, <1>4 DEF EraseOrphans, State
<1> QED
  BY <1>1, <1>2, <1>3, <1>5, ZenonT(60)

\* CheckAndRemove only releases locks, and what it keeps stays backed.
LEMMA CheckAndRemoveSafe ==
  ASSUME NEW s \in State, NEW pool \in SUBSET Tx, Safe(s, pool)
  PROVE  /\ Safe(CheckAndRemove(s), pool)
         /\ Releases(s, CheckAndRemove(s))
<1> DEFINE s2 == CheckAndRemove(s)
<1>1. CASE ~ synced
  BY <1>1 DEF CheckAndRemove, Releases
<1>2. CASE synced
  <2>1. /\ s2.locked = [o \in Outpoint |-> IF o \in FreedOutpoints(s)
                                           THEN NoTx ELSE s.locked[o]]
        /\ s2.phase = [t \in Tx |-> IF t \in ExpiredCandidates(s)
                                    THEN "none" ELSE s.phase[t]]
        /\ s2.counted = {v \in s.counted : v.tx \notin ExpiredCandidates(s)}
    BY <1>2, CheckAndRemoveFields, Zenon
  <2>2. s2 \in State
    BY CheckAndRemoveType
  <2> HIDE DEF s2
  <2>3. Releases(s, s2)
    BY <2>1 DEF Releases
  <2>4. LocksBackedIn(s2)
    <3> SUFFICES ASSUME NEW o \in Outpoint, s2.locked[o] # NoTx
                 PROVE  o \in Inputs(s2.locked[o]) /\ HasQuorum(s2, s2.locked[o])
      BY DEF LocksBackedIn
    <3> DEFINE t == s.locked[o]
    <3>1. s2.locked[o] = t /\ t # NoTx /\ o \notin FreedOutpoints(s)
      BY <2>1
    <3>2. t \in Tx /\ o \in Inputs(t) /\ HasQuorum(s, t)
      BY <3>1 DEF Safe, LocksBackedIn, State
    <3>3. t \notin ExpiredCandidates(s)
      BY <3>1, <3>2 DEF FreedOutpoints, HasQuorum
    <3>4. ASSUME NEW p
          PROVE  CountVotes(s2, t, p) = CountVotes(s, t, p)
      <4>1. ASSUME NEW m
            PROVE  HasMasternodeVoted(s2, t, p, m) <=> HasMasternodeVoted(s, t, p, m)
        BY <2>1, <3>3 DEF HasMasternodeVoted
      <4> QED
        BY <4>1 DEF CountVotes
    <3> QED
      BY <2>1, <3>1, <3>2, <3>3, <3>4 DEF HasQuorum
  <2> QED
    BY <2>2, <2>3, <2>4, ReleasesKeepsPool DEF Safe, s2
<1> QED
  BY <1>1, <1>2

\* Dropping two colliding locks is a CheckAndRemove with changed heights.
LEMMA DropBothSafe ==
  ASSUME NEW s \in State, NEW pool \in SUBSET Tx, Safe(s, pool),
         NEW t \in Tx, NEW u \in Tx
  PROVE  /\ Safe(DropBoth(s, t, u), pool)
         /\ Releases(s, DropBoth(s, t, u))
<1> DEFINE s0 == [s EXCEPT !.candHeight =
                  [x \in Tx |-> IF x \in {t, u} THEN 0 ELSE s.candHeight[x]]]
           s1 == CheckAndRemove(s0)
           s2 == [s1 EXCEPT !.rejected = s1.rejected \cup {t, u}]
<1>1. s0 \in State /\ Grows(s, s0) /\ s0.locked = s.locked
  <2>1. \A x \in Tx : (IF x \in {t, u} THEN 0 ELSE s.candHeight[x]) \in Int
    BY DEF State
  <2> QED
    BY <2>1, ZenonT(60) DEF State, Grows
<1> HIDE DEF s0
<1>2. Safe(s0, pool)
  BY <1>1, GrowsKeepsSafe
<1>3. s1 \in State /\ Safe(s1, pool) /\ Releases(s0, s1)
  BY <1>1, <1>2, CheckAndRemoveSafe, CheckAndRemoveType
<1> HIDE DEF s1
<1>4. s2 \in State /\ Grows(s1, s2)
  BY <1>3, ZenonT(60) DEF State, Grows
<1>5. Safe(s2, pool)
  BY <1>3, <1>4, GrowsKeepsSafe
<1>6. Releases(s, s2)
  BY <1>1, <1>3, <1>4 DEF Grows, Releases
<1> QED
  BY <1>5, <1>6 DEF DropBoth, s0, s1

\* A lock is completed only for a candidate that is ready, and only when the
\* pool holds no competitor for any of its inputs.
LEMMA LockInputsSafe ==
  ASSUME NEW s \in State, NEW pool \in SUBSET Tx, Safe(s, pool), NEW t \in Tx,
         IsAllOutPointsReady(s, t),
         \A o \in Inputs(t) : ~ PoolConflict(pool, t, o)
  PROVE  /\ Safe(LockTransactionInputs(s, t), pool)
         /\ NoTransfer(s, LockTransactionInputs(s, t))
<1> DEFINE s2 == LockTransactionInputs(s, t)
<1>1. s2 \in State
  BY LockTransactionInputsType
<1>2. /\ s2.locked = [o \in Outpoint |-> IF o \in Inputs(t) /\ s.locked[o] = NoTx
                                         THEN t ELSE s.locked[o]]
      /\ s2.phase = s.phase /\ s2.counted = s.counted
  BY DEF LockTransactionInputs, State
<1> HIDE DEF s2
<1>3. \A u : HasQuorum(s, u) => HasQuorum(s2, u)
  BY <1>2 DEF HasQuorum, CountVotes, HasMasternodeVoted
<1>4. HasQuorum(s, t)
  BY Zenon DEF IsAllOutPointsReady, HasQuorum
<1>5. LocksBackedIn(s2)
  BY <1>2, <1>3, <1>4, ZenonT(60) DEF Safe, LocksBackedIn
<1>6. PoolRespectsLocks(s2, pool)
  BY <1>2, InputsType DEF Safe, PoolRespectsLocks, LockConflict, PoolConflict
<1>7. NoTransfer(s, s2)
  BY <1>2 DEF NoTransfer
<1> QED
  BY <1>5, <1>6, <1>7 DEF Safe, s2

\* TryToFinalizeLockCandidate completes a lock only where nobody else holds
\* the outpoint, in the locks or in the pool.
LEMMA FinalizeSafe ==
  ASSUME NEW s \in State, NEW pool \in SUBSET Tx, Safe(s, pool), NEW t \in Tx
  PROVE  /\ Safe(TryToFinalizeLockCandidate(s, pool, t), pool)
         /\ NoTransfer(s, TryToFinalizeLockCandidate(s, pool, t))
<1> DEFINE s2 == TryToFinalizeLockCandidate(s, pool, t)
<1>1. CASE s2 = s
  BY <1>1 DEF NoTransfer
<1>2. CASE /\ s2 = LockTransactionInputs(s, t)
           /\ IsAllOutPointsReady(s, t)
           /\ \A o \in Inputs(t) : ~ PoolConflict(pool, t, o)
  BY <1>2, LockInputsSafe
<1>3. ASSUME NEW u \in Tx, s2 = DropBoth(s, t, u)
      PROVE  Safe(s2, pool) /\ NoTransfer(s, s2)
  <2>1. Safe(s2, pool) /\ Releases(s, s2)
    BY <1>3, DropBothSafe, ZenonT(60)
  <2> QED
    BY <2>1 DEF Releases, NoTransfer
<1>4. \/ s2 = s
      \/ /\ s2 = LockTransactionInputs(s, t)
         /\ IsAllOutPointsReady(s, t)
         /\ \A o \in Inputs(t) : ~ PoolConflict(pool, t, o)
      \/ \E u \in Tx : s2 = DropBoth(s, t, u)
  BY Zenon DEF TryToFinalizeLockCandidate
<1> QED
  BY <1>1, <1>2, <1>3, <1>4

\* ProcessTxLockRequest creates a candidate and may complete its lock.
LEMMA RequestSafe ==
  ASSUME NEW s \in State, NEW pool \in SUBSET Tx, Safe(s, pool), NEW t \in Tx,
         now \in Nat
  PROVE  /\ Safe(ProcessTxLockRequest(s, pool, t), pool)
         /\ NoTransfer(s, ProcessTxLockRequest(s, pool, t))
<1> DEFINE s1 == CreateTxLockCandidate(s, t)
<1>1. s1 \in State /\ Grows(s, s1)
  BY CreateType, CreateGrows
<1> HIDE DEF s1
<1>2. Safe(s1, pool) /\ s1.locked = s.locked
  BY <1>1, GrowsKeepsSafe DEF Grows
<1>3. /\ Safe(TryToFinalizeLockCandidate(s1, pool, t), pool)
      /\ NoTransfer(s1, TryToFinalizeLockCandidate(s1, pool, t))
  BY <1>1, <1>2, FinalizeSafe, ZenonT(60)
<1> QED
  BY <1>2, <1>3 DEF ProcessTxLockRequest, NoTransfer, s1

\* An early vote touches only a candidate that is not complete.
LEMMA OrphanSafe ==
  ASSUME NEW s \in State, NEW pool \in SUBSET Tx, Safe(s, pool), NEW v \in Vote,
         now \in Nat, s.phase[v.tx] \in {"none", "empty"}
  PROVE  /\ Safe(StoreOrphanVote(s, pool, v), pool)
         /\ NoTransfer(s, StoreOrphanVote(s, pool, v))
<1> DEFINE s1 == [s EXCEPT !.phase[v.tx] = "empty",
                    !.candTime[v.tx] = IF s.phase[v.tx] = "none" THEN now ELSE @,
                    !.orphans = s.orphans \cup {v},
                    !.orphanTime[v] = now]
<1>1. v.tx \in Tx
  BY DEF Vote
<1>2. s1 \in State /\ Grows(s, s1)
  BY <1>1, ZenonT(60) DEF State, Phase, Grows
<1> HIDE DEF s1
<1>3. Safe(s1, pool) /\ s1.locked = s.locked
  BY <1>2, GrowsKeepsSafe DEF Grows
<1>4. /\ Safe(ProcessTxLockRequest(s1, pool, v.tx), pool)
      /\ NoTransfer(s1, ProcessTxLockRequest(s1, pool, v.tx))
  BY <1>1, <1>2, <1>3, RequestSafe
<1> QED
  BY <1>3, <1>4 DEF StoreOrphanVote, NoTransfer, s1

\* A vote is counted, and the lock may be completed by it.
LEMMA AddVoteSafe ==
  ASSUME NEW s \in State, NEW pool \in SUBSET Tx, Safe(s, pool), NEW v \in Vote
  PROVE  /\ Safe(AddVote(s, pool, v), pool)
         /\ NoTransfer(s, AddVote(s, pool, v))
<1> DEFINE rivals == Rivals(s, v)
           marked == {<<u, v.outpoint>> : u \in
                        IF rivals = {} THEN {}
                        ELSE {x \in rivals \cup {v.tx} : v.outpoint \in Inputs(x)}}
           bans == IF rivals = {} THEN {} ELSE {v.mn}
           s1 == [s EXCEPT !.attacked = s.attacked \cup marked,
                           !.banned = s.banned \cup bans,
                           !.voted = s.voted \cup {<<v.outpoint, v.tx>>}]
           s2 == [s1 EXCEPT !.counted = s.counted \cup {v}]
<1>1. v.tx \in Tx /\ v.outpoint \in Outpoint /\ v.mn \in Masternode
  BY DEF Vote
<1>2. marked \subseteq Tx \X Outpoint /\ bans \subseteq Masternode
      /\ <<v.outpoint, v.tx>> \in Outpoint \X Tx
  <2> DEFINE who == IF rivals = {} THEN {}
                    ELSE {x \in rivals \cup {v.tx} : v.outpoint \in Inputs(x)}
  <2>1. rivals \subseteq Tx
    BY ZenonT(60) DEF Rivals
  <2> HIDE DEF rivals
  <2>2. who \subseteq Tx
    BY <1>1, <2>1, ZenonT(60)
  <2>3. bans \subseteq Masternode
    BY <1>1, ZenonT(60)
  <2>4. \A u \in Tx : <<u, v.outpoint>> \in Tx \X Outpoint
    BY <1>1
  <2>5. <<v.outpoint, v.tx>> \in Outpoint \X Tx
    BY <1>1
  <2>6. marked = {<<u, v.outpoint>> : u \in who}
    OBVIOUS
  <2> HIDE DEF who, marked, bans
  <2>7. marked \subseteq Tx \X Outpoint
    BY <2>2, <2>4, <2>6, ZenonT(60)
  <2> QED
    BY <2>3, <2>5, <2>7, ZenonT(60)
<1>3. AddVote(s, pool, v)
        = IF ~ (v.outpoint \in Inputs(v.tx) /\ v \notin s.counted) THEN s1
          ELSE TryToFinalizeLockCandidate(s2, pool, v.tx)
  BY DEF AddVote
<1> HIDE DEF rivals, marked, bans
<1>4. s1 \in State /\ Grows(s, s1)
  BY <1>2, ZenonT(60) DEF State, Grows
<1>5. s2 \in State /\ Grows(s, s2)
  BY <1>2, ZenonT(60) DEF State, Grows
<1> HIDE DEF s1, s2
<1>6. Safe(s1, pool) /\ Safe(s2, pool) /\ s1.locked = s.locked
      /\ s2.locked = s.locked
  BY <1>4, <1>5, GrowsKeepsSafe DEF Grows
<1>7. LET f == TryToFinalizeLockCandidate(s2, pool, v.tx)
      IN  Safe(f, pool) /\ NoTransfer(s2, f)
  BY <1>1, <1>5, <1>6, FinalizeSafe, ZenonT(60)
<1> QED
  BY <1>3, <1>6, <1>7 DEF NoTransfer

\* ProcessTxLockVote, in each of its outcomes.
LEMMA ProcessVoteSafe ==
  ASSUME NEW s \in State, NEW pool \in SUBSET Tx, Safe(s, pool), NEW v \in Vote,
         now \in Nat
  PROVE  /\ Safe(ProcessTxLockVote(s, pool, v), pool)
         /\ NoTransfer(s, ProcessTxLockVote(s, pool, v))
<1>1. NoTransfer(s, s)
  BY DEF NoTransfer
<1> QED
  BY <1>1, OrphanSafe, AddVoteSafe DEF ProcessTxLockVote

\* The pool may take a transaction whose inputs no other one has locked.
LEMMA PoolAdds ==
  ASSUME NEW s \in State, NEW pool \in SUBSET Tx, NEW t \in Tx,
         Safe(s, pool), AcceptToMemoryPool(s, pool, t)
  PROVE  Safe(s, pool \cup {t})
  BY DEF Safe, PoolRespectsLocks, AcceptToMemoryPool

\* Taking transactions out of the pool creates no conflict.
LEMMA PoolShrinks ==
  ASSUME NEW s \in State, NEW pool, NEW smaller \in SUBSET pool, Safe(s, pool)
  PROVE  Safe(s, smaller)
  BY ZenonT(60) DEF Safe, PoolRespectsLocks

-----------------------------------------------------------------------------
\* Every step keeps the inductive invariant and hands no lock over.
LEMMA StepSafe ==
  ASSUME TypeOK, Safe(is, mempool), [Next]_vars
  PROVE  Safe(is, mempool)' /\ NoTransfer(is, is')
<1> USE DEF TypeOK
<1> DEFINE Goal == Safe(is', mempool') /\ NoTransfer(is, is')
<1>0. \A s2 \in State : Grows(is, s2) => NoTransfer(is, s2)
  BY DEF Grows, NoTransfer
<1>1. ASSUME NEW t \in Tx, ReceiveTxLockRequest(t) PROVE Goal
  BY <1>1, RequestSafe, ZenonT(60) DEF ReceiveTxLockRequest
<1>2. CASE AcceptLockRequest
  <2> DEFINE t == pendingRequest
             pool == mempool \cup {t}
             s1 == SyncTransaction(is, {t}, -1)
             s2 == [s1 EXCEPT !.accepted = s1.accepted \cup {t}]
             s3 == VoteFor(s2, t)
             s4 == TryToFinalizeLockCandidate(s3, pool, t)
  <2>1. t \in Tx /\ AcceptToMemoryPool(is, mempool, t)
    BY <1>2 DEF AcceptLockRequest
  <2>2. is' = s4 /\ mempool' = pool
    BY <1>2 DEF AcceptLockRequest
  <2> HIDE DEF t
  <2>3. pool \in SUBSET Tx /\ Safe(is, pool)
    BY <2>1, PoolAdds
  <2> HIDE DEF pool
  <2>4. s1 \in State /\ Grows(is, s1)
    BY <2>1, SyncArguments, SyncTransactionType, SyncTransactionGrows, ZenonT(60)
  <2> HIDE DEF s1
  <2>5. s2 \in State /\ Grows(is, s2)
    BY <2>1, <2>4, ZenonT(60) DEF State, Grows
  <2> HIDE DEF s2
  <2>6. s3 \in State /\ Grows(is, s3)
    <3>1. s3 \in State /\ Grows(s2, s3)
      BY <2>1, <2>5, VoteForType, VoteForGrows
    <3> QED
      BY <2>5, <3>1 DEF Grows
  <2> HIDE DEF s3
  <2>7. Safe(s3, pool)
    BY <2>3, <2>6, GrowsKeepsSafe
  <2>8. Safe(s4, pool) /\ NoTransfer(s3, s4)
    BY <2>1, <2>3, <2>6, <2>7, FinalizeSafe, ZenonT(60)
  <2> QED
    BY <2>2, <2>6, <2>8 DEF Grows, NoTransfer
<1>3. CASE RejectLockRequest
  <2> DEFINE s2 == [is EXCEPT !.rejected = is.rejected \cup {pendingRequest}]
  <2>1. mempool' = mempool /\ pendingRequest \in Tx /\ (is' = is \/ is' = s2)
    BY <1>3 DEF RejectLockRequest
  <2>2. s2 \in State /\ Grows(is, s2)
    BY <2>1, ZenonT(60) DEF State, Grows
  <2> HIDE DEF s2
  <2> QED
    BY <1>0, <2>1, <2>2, GrowsKeepsSafe DEF NoTransfer
<1>4. ASSUME NEW v \in Vote, ReceiveTxLockVote(v) PROVE Goal
  <2> DEFINE s1 == StoreVotes(is, {v})
  <2>1. s1 \in State /\ Grows(is, s1)
    BY StoreVotesType, StoreVotesGrows, ZenonT(60)
  <2>2. is' = ProcessTxLockVote(s1, mempool, v) /\ mempool' = mempool
    BY <1>4 DEF ReceiveTxLockVote
  <2> HIDE DEF s1
  <2>3. Safe(is', mempool) /\ NoTransfer(s1, is')
    BY <2>1, <2>2, GrowsKeepsSafe, ProcessVoteSafe, ZenonT(60)
  <2> QED
    BY <2>1, <2>2, <2>3 DEF Grows, NoTransfer
<1>5. ASSUME NEW t \in Tx, ReceiveTx(t) PROVE Goal
  <2>1. /\ AcceptToMemoryPool(is, mempool, t)
        /\ mempool' = mempool \cup {t}
        /\ is' = SyncTransaction(is, {t}, -1)
    BY <1>5 DEF ReceiveTx
  <2>2. is' \in State /\ Grows(is, is')
    BY <2>1, SyncArguments, SyncTransactionType, SyncTransactionGrows, ZenonT(60)
  <2>3. Safe(is, mempool')
    BY <2>1, PoolAdds
  <2> QED
    BY <1>0, <2>1, <2>2, <2>3, GrowsKeepsSafe, ZenonT(60)
<1>6. ASSUME NEW t \in Tx, SendRawInstantTx(t) PROVE Goal
  <2> DEFINE s1 == ProcessTxLockRequest(is, mempool, t)
  <2>1. s1 \in State /\ Safe(s1, mempool) /\ NoTransfer(is, s1)
    BY RequestType, RequestSafe, ZenonT(60)
  <2>2. \/ is' = s1 /\ mempool' = mempool
        \/ /\ AcceptToMemoryPool(s1, mempool, t)
           /\ mempool' = mempool \cup {t}
           /\ is' = SyncTransaction(s1, {t}, -1)
    BY <1>6 DEF SendRawInstantTx
  <2> HIDE DEF s1
  <2>3. SyncTransaction(s1, {t}, -1) \in State
        /\ Grows(s1, SyncTransaction(s1, {t}, -1))
    BY <2>1, SyncArguments, SyncTransactionType, SyncTransactionGrows, ZenonT(60)
  <2>4. CASE is' = s1 /\ mempool' = mempool
    BY <2>1, <2>4, ZenonT(60)
  <2>5. CASE /\ AcceptToMemoryPool(s1, mempool, t)
             /\ mempool' = mempool \cup {t}
             /\ is' = SyncTransaction(s1, {t}, -1)
    <3>1. mempool' \in SUBSET Tx /\ Safe(s1, mempool')
      BY <2>1, <2>5, PoolAdds, ZenonT(60)
    <3>2. Safe(is', mempool')
      BY <2>1, <2>3, <2>5, <3>1, GrowsKeepsSafe, ZenonT(60)
    <3> QED
      BY <2>1, <2>3, <2>5, <3>2, ZenonT(60) DEF Grows, NoTransfer
  <2> QED
    BY <2>2, <2>4, <2>5
<1>7. ASSUME NEW t \in Tx, RelayWalletTransaction(t) PROVE Goal
  BY <1>7, RequestSafe, ZenonT(60) DEF RelayWalletTransaction, NoTransfer
<1>8. CASE PeriodicCheckAndRemove
  <2>1. is' = CheckAndRemove(is) /\ mempool' = mempool
    BY <1>8 DEF PeriodicCheckAndRemove
  <2>2. Safe(is', mempool) /\ Releases(is, is')
    BY <2>1, CheckAndRemoveSafe
  <2> QED
    BY <2>1, <2>2 DEF Releases, NoTransfer
<1>9. ASSUME NEW t \in Tx, EvictTx(t) PROVE Goal
  <2>1. is' = is /\ mempool' \in SUBSET mempool
    BY <1>9, ZenonT(60) DEF EvictTx
  <2> QED
    BY <2>1, PoolShrinks DEF NoTransfer
<1>11. ASSUME NEW b \in BlockTxs, NEW fromDisk \in BOOLEAN,
              ConnectTip(b, fromDisk)
       PROVE  Goal
  <2> DEFINE conflicted == {u \in mempool \ b : \E t \in b :
                               Inputs(u) \cap Inputs(t) # {}}
             s1 == SyncTransaction(is, conflicted, -1)
             s2 == SyncTransaction(s1, b, tip + 1)
  <2>1. \/ is' = is /\ mempool' = mempool
        \/ is' = s2 /\ mempool' = mempool \ (b \cup conflicted)
    BY <1>11 DEF ConnectTip
  <2>2. b \in SUBSET Tx /\ conflicted \in SUBSET Tx /\ tip + 1 \in Int
    BY EnvironmentAssumption
  <2> HIDE DEF conflicted
  <2>3. s1 \in State /\ Grows(is, s1)
    BY <2>2, SyncArguments, SyncTransactionType, SyncTransactionGrows, ZenonT(60)
  <2> HIDE DEF s1
  <2>4. s2 \in State /\ Grows(s1, s2)
    BY <2>2, <2>3, SyncArguments, SyncTransactionType, SyncTransactionGrows, ZenonT(60)
  <2> HIDE DEF s2
  <2>5. Grows(is, s2)
    BY <2>3, <2>4 DEF Grows
  <2>6. Safe(s2, mempool) /\ NoTransfer(is, s2)
    BY <1>0, <2>4, <2>5, GrowsKeepsSafe, ZenonT(60)
  <2>7. mempool \ (b \cup conflicted) \in SUBSET mempool
    BY ZenonT(60)
  <2>8. Safe(s2, mempool \ (b \cup conflicted))
    BY <2>4, <2>6, <2>7, PoolShrinks, ZenonT(60)
  <2>9. NoTransfer(is, is)
    BY ZenonT(60) DEF NoTransfer
  <2> QED
    BY <2>1, <2>6, <2>8, <2>9, ZenonT(60)
<1>12. CASE DisconnectTip
  <2> DEFINE b == {t \in Tx : minedAt[t] = tip}
  <2>1. \A t \in mempool' : \/ t \in mempool
                            \/ /\ t \in Tx
                               /\ \A o \in Inputs(t) : ~ LockConflict(is, t, o)
    BY <1>12 DEF DisconnectTip, Resurrected
  <2>2. is' = SyncTransaction(is, b, -1)
    BY <1>12 DEF DisconnectTip
  <2>3. is' \in State /\ Grows(is, is')
    BY <2>2, SyncArguments, SyncTransactionType, SyncTransactionGrows, ZenonT(60)
  <2>4. mempool' \in SUBSET Tx /\ Safe(is, mempool')
    BY <2>1 DEF Safe, PoolRespectsLocks
  <2> QED
    BY <1>0, <2>3, <2>4, GrowsKeepsSafe, ZenonT(60)
<1>13. ASSUME NEW h \in tipNotices, UpdatedBlockTip(h) PROVE Goal
  <2>1. is' = [is EXCEPT !.height = h] /\ mempool' = mempool
    BY <1>13 DEF UpdatedBlockTip
  <2>2. is' \in State /\ Grows(is, is')
    <3>1. h \in Int
      OBVIOUS
    <3> QED
      BY <2>1, <3>1, ZenonT(60) DEF State, Grows
  <2> QED
    BY <1>0, <2>1, <2>2, GrowsKeepsSafe
<1>14. CASE Restart
  <2>1. is' = [EmptyState(tip) EXCEPT !.banned = is.banned] /\ mempool' = {}
    BY <1>14, Zenon DEF Restart
  <2>2. \A o \in Outpoint : is'.locked[o] = NoTx
    BY <2>1 DEF EmptyState
  <2> QED
    BY <2>1, <2>2 DEF Safe, LocksBackedIn, PoolRespectsLocks, NoTransfer
<1>15. CASE is' = is /\ mempool' = mempool
  BY <1>15, ZenonT(60) DEF NoTransfer
<1>16. CASE (\E b \in BlockTxs : AcceptBlock(b)) \/ Tick \/ EnvironmentChange
            \/ UNCHANGED vars
  BY <1>15, <1>16, ZenonT(60) DEF AcceptBlock, Tick, EnvironmentChange, vars
<1>17. Goal
  BY <1>1, <1>2, <1>3, <1>4, <1>5, <1>6, <1>7, <1>8, <1>9, <1>11, <1>12,
     <1>13, <1>14, <1>16, ZenonT(60) DEF Next
<1> QED
  BY <1>17, ZenonT(60) DEF Safe, LocksBackedIn, PoolRespectsLocks, HasQuorum, CountVotes,
               HasMasternodeVoted, LockConflict

\* There is no lock at start.
LEMMA InitSafe == Init => Safe(is, mempool)
<1>1. \A o \in Outpoint : EmptyState(BaseHeight).locked[o] = NoTx
  BY DEF EmptyState
<1>2. Init => is = EmptyState(BaseHeight) /\ mempool = {}
  BY DEF Init
<1> QED
  BY <1>1, <1>2 DEF Safe, LocksBackedIn, PoolRespectsLocks

\* In every reachable state both hold; the theorems below are its parts.
THEOREM LocksSafe == Spec => []Safe(is, mempool)
<1>1. TypeOK /\ Safe(is, mempool) /\ [Next]_vars => Safe(is, mempool)'
  BY StepSafe
<1> QED
  BY <1>1, InitSafe, TypeCorrect, PTL DEF Spec

\* ResolveConflicts' "safety check, should never really happen" never does: a
\* completed lock always has its candidate, with enough votes on every input.
THEOREM LocksAlwaysBacked == Spec => []LocksBacked
<1>1. Safe(is, mempool) => LocksBacked
  BY DEF Safe, LocksBacked
<1> QED
  BY <1>1, LocksSafe, PTL

\* The memory pool never holds a transaction that conflicts with a lock.
THEOREM MempoolAlwaysRespectsLocks == Spec => []MempoolRespectsLocks
<1>1. Safe(is, mempool) => MempoolRespectsLocks
  BY DEF Safe, MempoolRespectsLocks
<1> QED
  BY <1>1, LocksSafe, PTL

\* A completed lock is never handed over to a competing transaction.
THEOREM LocksNeverTransferred == Spec => LocksNotTransferred
<1>1. TypeOK /\ Safe(is, mempool) /\ [Next]_vars =>
        [\A o \in Outpoint : is.locked[o] # NoTx =>
            is'.locked[o] \in {NoTx, is.locked[o]}]_vars
  BY StepSafe, ZenonT(60) DEF NoTransfer
<1> QED
  BY <1>1, LocksSafe, TypeCorrect, PTL DEF Spec, LocksNotTransferred

(***************************************************************************)
(* Votes.                                                                  *)
(***************************************************************************)
\* V has votes of m for one outpoint in two transactions.
SignedTwice(m, V) ==
    \E v, w \in V : /\ v.mn = m /\ w.mn = m
                    /\ v.outpoint = w.outpoint /\ v.tx # w.tx

\* Every vote is for an input of its transaction.
NameInputs(V) == \A v \in V : v.outpoint \in Inputs(v.tx)

\* The inductive invariant, of an object and the votes that were signed.
VotesSafe(s, V) ==
    /\ s.counted \subseteq V
    /\ \A m \in s.banned : SignedTwice(m, V)
    /\ \A t \in Tx : s.phase[t] = "late" => Late(s.candTime[t], LOCK_TIMEOUT)
    /\ NameInputs(V) => VotedHaveCandidateIn(s)

\* The chain gives every outpoint to one transaction at most.
SpentOnce ==
    \A t, u \in Tx : t # u /\ minedAt[t] # 0 /\ minedAt[u] # 0
                        => Inputs(t) \cap Inputs(u) = {}

\* The locks that s2 has and s has not are of transactions that may be mined.
LocksUnspent(s, s2) ==
    \A o \in Outpoint : s2.locked[o] \notin {NoTx, s.locked[o]} =>
                            StillUnspent(s2.locked[o])

\* s2 has the locks, bans and voted outpoints of s, no further votes, at least its
\* complete candidates, and only late candidates whose time is over.
Keeps(s, s2) ==
    /\ s2.locked = s.locked /\ s2.banned = s.banned /\ s2.voted = s.voted
    /\ s2.counted \subseteq s.counted
    /\ \A t \in Tx : s.phase[t] = "open" => s2.phase[t] = "open"
    /\ \A t \in Tx : s2.phase[t] = "late" =>
           \/ Late(s2.candTime[t], LOCK_TIMEOUT)
           \/ s.phase[t] = "late" /\ s2.candTime[t] = s.candTime[t]

\* A method that keeps these keeps the invariant and completes no lock.
LEMMA KeepsVotesSafe ==
  ASSUME NEW s \in State, NEW s2 \in State, NEW V, VotesSafe(s, V), Keeps(s, s2)
  PROVE  VotesSafe(s2, V) /\ LocksUnspent(s, s2)
<1>1. /\ s2.counted \subseteq V
      /\ \A m \in s2.banned : SignedTwice(m, V)
      /\ \A t \in Tx : s2.phase[t] = "late" => Late(s2.candTime[t], LOCK_TIMEOUT)
  BY DEF VotesSafe, Keeps
<1>2. VotedHaveCandidateIn(s) => VotedHaveCandidateIn(s2)
  BY DEF VotedHaveCandidateIn, Keeps, State
<1> QED
  BY <1>1, <1>2 DEF VotesSafe, LocksUnspent, Keeps

\* Storing votes in mapTxLockVotes, and the heights of confirmed transactions.
LEMMA StoreVotesKeeps ==
  ASSUME NEW s \in State, NEW V
  PROVE  Keeps(s, StoreVotes(s, V))
  BY DEF StoreVotes, Keeps, State

\* SyncTransaction changes heights only.
LEMMA SyncTransactionKeeps ==
  ASSUME NEW s \in State, NEW T, NEW h
  PROVE  Keeps(s, SyncTransaction(s, T, h))
  BY DEF SyncTransaction, StoreVotes, Keeps, State

\* A request that finds the time of its candidate over makes it a late one.
LEMMA CreateKeeps ==
  ASSUME NEW s \in State, NEW t \in Tx
  PROVE  Keeps(s, CreateTxLockCandidate(s, t))
  BY DEF CreateTxLockCandidate, Keeps, State

\* The outpoints of a complete candidate that CheckAndRemove drops leave
\* mapVotedOutpoints with it.
LEMMA CheckAndRemoveVotes ==
  ASSUME NEW s \in State, NEW V, VotesSafe(s, V)
  PROVE  VotesSafe(CheckAndRemove(s), V)
<1> DEFINE s2 == CheckAndRemove(s)
<1>1. CASE ~ synced
  BY <1>1 DEF CheckAndRemove
<1>2. CASE synced
  <2>1. /\ s2.phase = [t \in Tx |-> IF t \in ExpiredCandidates(s)
                                    THEN "none" ELSE s.phase[t]]
        /\ s2.counted = {v \in s.counted : v.tx \notin ExpiredCandidates(s)}
        /\ s2.voted = {p \in s.voted : p[1] \notin FreedOutpoints(s)}
        /\ s2.banned = s.banned
        /\ s2.candTime = [t \in Tx |-> IF t \in ExpiredCandidates(s)
                                       THEN 0 ELSE s.candTime[t]]
    BY <1>2, CheckAndRemoveFields, Zenon
  <2> HIDE DEF s2
  <2>2. /\ s2.counted \subseteq V
        /\ \A m \in s2.banned : SignedTwice(m, V)
        /\ \A t \in Tx : s2.phase[t] = "late" => Late(s2.candTime[t], LOCK_TIMEOUT)
    BY <2>1 DEF VotesSafe
  <2>3. ASSUME VotedHaveCandidateIn(s)
        PROVE  VotedHaveCandidateIn(s2)
    <3> SUFFICES ASSUME NEW p \in s2.voted
                 PROVE  s2.phase[p[2]] = "open" /\ p[1] \in Inputs(p[2])
      BY DEF VotedHaveCandidateIn
    <3>1. p \in s.voted /\ p[1] \notin FreedOutpoints(s) /\ p[2] \in Tx
      BY <2>1 DEF State
    <3>2. s.phase[p[2]] = "open" /\ p[1] \in Inputs(p[2])
      BY <2>3, <3>1 DEF VotedHaveCandidateIn
    <3>3. p[2] \notin ExpiredCandidates(s)
      BY <3>1, <3>2 DEF FreedOutpoints
    <3> QED
      BY <2>1, <3>1, <3>2, <3>3
  <2> QED
    BY <2>2, <2>3, ZenonT(60) DEF VotesSafe, s2
<1> QED
  BY <1>1, <1>2

\* TryToFinalizeLockCandidate asks the coins before it completes a lock.
LEMMA FinalizeVotes ==
  ASSUME NEW s \in State, NEW V, VotesSafe(s, V), Safe(s, {}),
         NEW pool \in SUBSET Tx, NEW t \in Tx
  PROVE  /\ VotesSafe(TryToFinalizeLockCandidate(s, pool, t), V)
         /\ LocksUnspent(s, TryToFinalizeLockCandidate(s, pool, t))
<1> DEFINE s2 == TryToFinalizeLockCandidate(s, pool, t)
<1>1. CASE s2 = s
  BY <1>1 DEF LocksUnspent
<1>2. CASE s2 = LockTransactionInputs(s, t) /\ StillUnspent(t)
  <2>1. /\ s2 \in State
        /\ s2.locked = [o \in Outpoint |-> IF o \in Inputs(t) /\ s.locked[o] = NoTx
                                           THEN t ELSE s.locked[o]]
        /\ s2.phase = s.phase /\ s2.candTime = s.candTime /\ s2.voted = s.voted
        /\ s2.banned = s.banned /\ s2.counted = s.counted
    <3>1. s2 \in State
      BY <1>2, LockTransactionInputsType, ZenonT(60)
    <3> HIDE DEF s2
    <3> QED
      BY <1>2, <3>1, ZenonT(60) DEF LockTransactionInputs, State
  <2> HIDE DEF s2
  <2>2. VotesSafe(s2, V)
    BY <2>1, ZenonT(60) DEF VotesSafe, VotedHaveCandidateIn
  <2>3. LocksUnspent(s, s2)
    <3>1. \A o \in Outpoint : s2.locked[o] \in {t, s.locked[o]}
      BY <2>1
    <3> QED
      BY <1>2, <3>1 DEF LocksUnspent
  <2> QED
    BY <2>2, <2>3, ZenonT(60) DEF s2
<1>3. ASSUME NEW u \in Tx, s2 = DropBoth(s, t, u)
      PROVE  VotesSafe(s2, V) /\ LocksUnspent(s, s2)
  <2> DEFINE s0 == [s EXCEPT !.candHeight =
                    [x \in Tx |-> IF x \in {t, u} THEN 0 ELSE s.candHeight[x]]]
             s1 == CheckAndRemove(s0)
             s3 == [s1 EXCEPT !.rejected = s1.rejected \cup {t, u}]
  <2>1. s2 = s3
    BY <1>3 DEF DropBoth
  <2>2. s0 \in State /\ Keeps(s, s0)
    <3>1. \A x \in Tx : (IF x \in {t, u} THEN 0 ELSE s.candHeight[x]) \in Int
      BY DEF State
    <3> QED
      BY <3>1, ZenonT(60) DEF State, Keeps
  <2> HIDE DEF s0, s2
  <2>3. s1 \in State /\ VotesSafe(s1, V)
    BY <2>2, KeepsVotesSafe, CheckAndRemoveVotes, CheckAndRemoveType
  <2> HIDE DEF s1
  <2>4. s3 \in State /\ Keeps(s1, s3)
    BY <2>3, ZenonT(60) DEF State, Keeps
  <2>5. VotesSafe(s3, V)
    BY <2>3, <2>4, KeepsVotesSafe
  <2>6. Releases(s, s2)
    BY <1>3, DropBothSafe
  <2> QED
    BY <2>1, <2>5, <2>6 DEF Releases, LocksUnspent
<1>4. \/ s2 = s
      \/ s2 = LockTransactionInputs(s, t) /\ StillUnspent(t)
      \/ \E u \in Tx : s2 = DropBoth(s, t, u)
  BY Zenon DEF TryToFinalizeLockCandidate
<1> QED
  BY <1>1, <1>2, <1>3, <1>4

\* What the pool holds does not matter to the votes.
LEMMA SafeAnyPool ==
  ASSUME NEW s, NEW pool, Safe(s, pool)
  PROVE  Safe(s, {})
  BY DEF Safe, PoolRespectsLocks

\* ProcessTxLockRequest: the candidate, then perhaps its lock.
LEMMA RequestVotes ==
  ASSUME NEW s \in State, NEW V, VotesSafe(s, V), Safe(s, {}),
         NEW pool \in SUBSET Tx, NEW t \in Tx, now \in Nat
  PROVE  /\ VotesSafe(ProcessTxLockRequest(s, pool, t), V)
         /\ LocksUnspent(s, ProcessTxLockRequest(s, pool, t))
<1> DEFINE s1 == CreateTxLockCandidate(s, t)
           s2 == TryToFinalizeLockCandidate(s1, pool, t)
<1>1. s1 \in State /\ Keeps(s, s1) /\ Grows(s, s1)
  BY CreateType, CreateKeeps, CreateGrows, ZenonT(60)
<1> HIDE DEF s1
<1>2. VotesSafe(s1, V) /\ LocksUnspent(s, s1) /\ Safe(s1, {}) /\ s1.locked = s.locked
  BY <1>1, KeepsVotesSafe, GrowsKeepsSafe DEF Keeps
<1>3. VotesSafe(s2, V) /\ LocksUnspent(s1, s2)
  BY <1>1, <1>2, FinalizeVotes
<1>4. ProcessTxLockRequest(s, pool, t) \in {s1, s2}
  BY ZenonT(60) DEF ProcessTxLockRequest, s1
<1> HIDE DEF s2
<1> QED
  BY <1>2, <1>3, <1>4, ZenonT(60) DEF LocksUnspent

\* A vote that is not counted yet leaves its candidate incomplete.
LEMMA OrphanVotes ==
  ASSUME NEW s \in State, NEW V, VotesSafe(s, V), Safe(s, {}),
         NEW pool \in SUBSET Tx, NEW v \in Vote, now \in Nat,
         s.phase[v.tx] \in {"none", "empty"}
  PROVE  /\ VotesSafe(StoreOrphanVote(s, pool, v), V)
         /\ LocksUnspent(s, StoreOrphanVote(s, pool, v))
<1> DEFINE s1 == [s EXCEPT !.phase[v.tx] = "empty",
                    !.candTime[v.tx] = IF s.phase[v.tx] = "none" THEN now ELSE @,
                    !.orphans = s.orphans \cup {v},
                    !.orphanTime[v] = now]
           s2 == ProcessTxLockRequest(s1, pool, v.tx)
<1>1. v.tx \in Tx
  BY ZenonT(60) DEF Vote
<1>2. s1 \in State /\ Keeps(s, s1) /\ Grows(s, s1)
  BY <1>1, ZenonT(60) DEF State, Phase, Keeps, Grows
<1>3. StoreOrphanVote(s, pool, v) \in {s, s1, s2}
  BY DEF StoreOrphanVote
<1> HIDE DEF s1
<1>4. VotesSafe(s1, V) /\ LocksUnspent(s, s1) /\ Safe(s1, {}) /\ s1.locked = s.locked
  BY <1>2, KeepsVotesSafe, GrowsKeepsSafe DEF Keeps
<1>5. VotesSafe(s2, V) /\ LocksUnspent(s1, s2)
  BY <1>1, <1>2, <1>4, RequestVotes, Zenon
<1> HIDE DEF s2
<1>6. LocksUnspent(s, s)
  BY ZenonT(60) DEF LocksUnspent
<1> QED
  BY <1>3, <1>4, <1>5, <1>6, ZenonT(60) DEF LocksUnspent

\* AddVote bans a masternode only for a second vote that it has signed, and counts a
\* vote only for a complete candidate.
LEMMA AddVoteVotes ==
  ASSUME NEW s \in State, NEW V, VotesSafe(s, V), Safe(s, {}),
         NEW pool \in SUBSET Tx, NEW v \in Vote, v \in V,
         s.phase[v.tx] = "open"
  PROVE  /\ VotesSafe(AddVote(s, pool, v), V)
         /\ LocksUnspent(s, AddVote(s, pool, v))
<1> DEFINE rivals == Rivals(s, v)
           marked == {<<u, v.outpoint>> : u \in
                        IF rivals = {} THEN {}
                        ELSE {x \in rivals \cup {v.tx} : v.outpoint \in Inputs(x)}}
           bans == IF rivals = {} THEN {} ELSE {v.mn}
           s1 == [s EXCEPT !.attacked = s.attacked \cup marked,
                           !.banned = s.banned \cup bans,
                           !.voted = s.voted \cup {<<v.outpoint, v.tx>>}]
           s2 == [s1 EXCEPT !.counted = s.counted \cup {v}]
           s3 == TryToFinalizeLockCandidate(s2, pool, v.tx)
<1>1. v.tx \in Tx /\ v.outpoint \in Outpoint /\ v.mn \in Masternode
  BY ZenonT(60) DEF Vote
<1>2. marked \subseteq Tx \X Outpoint /\ bans \subseteq Masternode
      /\ <<v.outpoint, v.tx>> \in Outpoint \X Tx
  <2> DEFINE who == IF rivals = {} THEN {}
                    ELSE {x \in rivals \cup {v.tx} : v.outpoint \in Inputs(x)}
  <2>1. rivals \subseteq Tx
    BY ZenonT(60) DEF Rivals
  <2> HIDE DEF rivals
  <2>2. who \subseteq Tx
    BY <1>1, <2>1, ZenonT(60)
  <2>3. bans \subseteq Masternode
    BY <1>1, ZenonT(60)
  <2>4. \A u \in Tx : <<u, v.outpoint>> \in Tx \X Outpoint
    BY <1>1
  <2>5. <<v.outpoint, v.tx>> \in Outpoint \X Tx
    BY <1>1
  <2>6. marked = {<<u, v.outpoint>> : u \in who}
    OBVIOUS
  <2> HIDE DEF who, marked, bans
  <2>7. marked \subseteq Tx \X Outpoint
    BY <2>2, <2>4, <2>6, ZenonT(60)
  <2> QED
    BY <2>3, <2>5, <2>7, ZenonT(60)
<1>3. \A m \in bans : SignedTwice(m, V)
  <2> SUFFICES ASSUME NEW u \in rivals
               PROVE  SignedTwice(v.mn, V)
    BY ZenonT(60)
  <2> DEFINE w == [tx |-> u, outpoint |-> v.outpoint, mn |-> v.mn]
  <2>1. u # v.tx /\ w \in s.counted
    BY DEF Rivals, HasMasternodeVoted
  <2>2. w \in V /\ w.tx # v.tx /\ w.outpoint = v.outpoint /\ w.mn = v.mn
    BY <2>1 DEF VotesSafe
  <2> QED
    BY <2>2, ZenonT(60) DEF SignedTwice
<1>4. AddVote(s, pool, v)
        = IF ~ (v.outpoint \in Inputs(v.tx) /\ v \notin s.counted) THEN s1 ELSE s3
  BY DEF AddVote
<1> HIDE DEF rivals, marked, bans
<1>5. /\ s1 \in State /\ Grows(s, s1)
      /\ s2 \in State /\ Grows(s, s2)
  BY <1>2, ZenonT(60) DEF State, Grows
<1>6. \A r \in {s1, s2} :
         /\ r.locked = s.locked /\ r.phase = s.phase /\ r.candTime = s.candTime
         /\ r.banned = s.banned \cup bans /\ r.voted = s.voted \cup {<<v.outpoint, v.tx>>}
         /\ r.counted \subseteq s.counted \cup {v}
  BY ZenonT(60) DEF State
<1> HIDE DEF s1, s2
<1>7. ASSUME NEW r \in {s1, s2}
      PROVE  VotesSafe(r, V) /\ LocksUnspent(s, r)
  <2>1. NameInputs(V) => VotedHaveCandidateIn(r)
    <3>1. /\ <<v.outpoint, v.tx>>[1] = v.outpoint
          /\ <<v.outpoint, v.tx>>[2] = v.tx
      OBVIOUS
    <3> QED
      BY <1>6, <3>1, ZenonT(60) DEF VotesSafe, NameInputs, VotedHaveCandidateIn
  <2> QED
    BY <1>3, <1>6, <2>1, ZenonT(60) DEF VotesSafe, LocksUnspent
<1>8. Safe(s2, {})
  BY <1>5, GrowsKeepsSafe, ZenonT(60)
<1>9. VotesSafe(s3, V) /\ LocksUnspent(s2, s3)
  BY <1>1, <1>5, <1>7, <1>8, FinalizeVotes, ZenonT(60)
<1> HIDE DEF s3
<1> QED
  BY <1>4, <1>6, <1>7, <1>9, ZenonT(60) DEF LocksUnspent

\* ProcessTxLockVote refuses a vote for a candidate whose time is over, so what it
\* counts is for a complete one.
LEMMA ProcessVoteVotes ==
  ASSUME NEW s \in State, NEW V, VotesSafe(s, V), Safe(s, {}),
         NEW pool \in SUBSET Tx, NEW v \in Vote, v \in V, now \in Nat
  PROVE  /\ VotesSafe(ProcessTxLockVote(s, pool, v), V)
         /\ LocksUnspent(s, ProcessTxLockVote(s, pool, v))
<1>1. v.tx \in Tx /\ s.phase[v.tx] \in Phase
  BY DEF Vote, State
<1>2. LocksUnspent(s, s)
  BY ZenonT(60) DEF LocksUnspent
<1>3. CASE s.phase[v.tx] \in {"none", "empty"}
  BY <1>2, <1>3, OrphanVotes, ZenonT(60) DEF ProcessTxLockVote
<1>4. CASE s.phase[v.tx] = "late"
  BY <1>1, <1>2, <1>4, ZenonT(60) DEF ProcessTxLockVote, VotesSafe
<1>5. CASE s.phase[v.tx] = "open"
  BY <1>2, <1>5, AddVoteVotes, ZenonT(60) DEF ProcessTxLockVote
<1> QED
  BY <1>1, <1>3, <1>4, <1>5, ZenonT(60) DEF Phase

\* Vote() signs for inputs of a complete candidate, and relays what it counts.
LEMMA VoteForVotes ==
  ASSUME NEW s \in State, NEW V, VotesSafe(s, V), NEW t \in Tx
  PROVE  /\ VotesSafe(VoteFor(s, t), V \cup RelayedVotes(s, t))
         /\ VoteFor(s, t).locked = s.locked
<1> DEFINE O == IF MayVote(s, t) THEN OwnVotes(s, t) ELSE {}
           W == V \cup RelayedVotes(s, t)
           s1 == StoreVotes(s, O)
           new == {<<v.outpoint, t>> : v \in O \ s.counted}
           s2 == [s1 EXCEPT !.voted = s.voted \cup new, !.counted = s.counted \cup O]
<1>1. /\ RelayedVotes(s, t) = O \ s.counted
      /\ O # {} => s.phase[t] = "open"
      /\ \A v \in O : v.outpoint \in Inputs(t)
  BY DEF RelayedVotes, MayVote, OwnVotes
<1>2. VoteFor(s, t) = s2
  BY DEF VoteFor
<1> HIDE DEF O
<1>3. /\ s2.locked = s.locked /\ s2.phase = s.phase /\ s2.candTime = s.candTime
      /\ s2.banned = s.banned
      /\ s2.voted = s.voted \cup new /\ s2.counted = s.counted \cup O
  BY ZenonT(60) DEF StoreVotes, State
<1> HIDE DEF s1, s2
<1>4. s2.counted \subseteq W
  BY <1>1, <1>3, ZenonT(60) DEF VotesSafe
<1>5. \A m \in s2.banned : SignedTwice(m, W)
  <2>1. \A m : SignedTwice(m, V) => SignedTwice(m, W)
    BY ZenonT(60) DEF SignedTwice
  <2> QED
    BY <1>3, <2>1, ZenonT(60) DEF VotesSafe
<1>6. \A x \in Tx : s2.phase[x] = "late" => Late(s2.candTime[x], LOCK_TIMEOUT)
  BY <1>3, ZenonT(60) DEF VotesSafe
<1>7. NameInputs(W) => VotedHaveCandidateIn(s2)
  <2> HAVE NameInputs(W)
  <2>1. VotedHaveCandidateIn(s)
    BY ZenonT(60) DEF VotesSafe, NameInputs
  <2>2. ASSUME NEW p \in new
        PROVE  s.phase[p[2]] = "open" /\ p[1] \in Inputs(p[2])
    <3>1. PICK v \in O \ s.counted : p = <<v.outpoint, t>>
      OBVIOUS
    <3>2. p[1] = v.outpoint /\ p[2] = t
      BY <3>1
    <3> QED
      BY <1>1, <3>2, ZenonT(60)
  <2> HIDE DEF new
  <2> QED
    BY <1>3, <2>1, <2>2, ZenonT(60) DEF VotedHaveCandidateIn
<1> QED
  BY <1>2, <1>3, <1>4, <1>5, <1>6, <1>7, ZenonT(60) DEF VotesSafe

-----------------------------------------------------------------------------
\* A time that is over stays over when the clock moves on.
LEMMA StaysOver ==
  ASSUME NEW n \in Nat, NEW n2 \in Nat, n2 = n \/ n2 = n + 1,
         NEW created \in Nat, NEW limit \in Nat, n - created > limit
  PROVE  n2 - created > limit
  OBVIOUS

\* Every step keeps the invariant of the votes, and completes locks only for
\* transactions that may be mined.  The time moves on, and a candidate that was late
\* stays late.
LEMMA StepVotes ==
  ASSUME TypeOK, Safe(is, mempool), VotesSafe(is, netVotes \cup sentVotes), [Next]_vars
  PROVE  VotesSafe(is, netVotes \cup sentVotes)' /\ LocksUnspent(is, is')
<1> USE DEF TypeOK
<1> DEFINE V == netVotes \cup sentVotes
           Goal == VotesSafe(is', netVotes' \cup sentVotes') /\ LocksUnspent(is, is')
<1>0. Safe(is, {}) /\ LocksUnspent(is, is)
  BY SafeAnyPool, ZenonT(60) DEF LocksUnspent
<1>1. ASSUME NEW t \in Tx, ReceiveTxLockRequest(t) PROVE Goal
  BY <1>0, <1>1, RequestVotes, ZenonT(60) DEF ReceiveTxLockRequest, envVars
<1>2. ASSUME AcceptLockRequest PROVE Goal
  <2> DEFINE t == pendingRequest
             pool == mempool \cup {t}
             s1 == SyncTransaction(is, {t}, -1)
             s2 == [s1 EXCEPT !.accepted = s1.accepted \cup {t}]
             s3 == VoteFor(s2, t)
             s4 == TryToFinalizeLockCandidate(s3, pool, t)
             W == V \cup RelayedVotes(s2, t)
  <2>1. t \in Tx /\ is' = s4 /\ netVotes' \cup sentVotes' = W
    BY <1>2 DEF AcceptLockRequest, envVars
  <2> HIDE DEF t
  <2>2. s1 \in State /\ Keeps(is, s1) /\ Grows(is, s1)
    BY <2>1, SyncArguments, SyncTransactionType, SyncTransactionKeeps,
       SyncTransactionGrows, ZenonT(60)
  <2> HIDE DEF s1, V
  <2>3. s2 \in State /\ Keeps(is, s2) /\ Grows(is, s2)
    BY <2>1, <2>2, ZenonT(60) DEF State, Keeps, Grows
  <2> HIDE DEF s2
  <2>4. VotesSafe(s2, V) /\ s2.locked = is.locked
    BY <2>3, KeepsVotesSafe DEF Keeps, V
  <2>5. s3 \in State /\ VotesSafe(s3, W) /\ s3.locked = is.locked /\ Grows(s2, s3)
    BY <2>1, <2>3, <2>4, VoteForType, VoteForVotes, VoteForGrows, ZenonT(60)
  <2>6. Safe(s3, {})
    BY <1>0, <2>3, <2>5, VoteForType, GrowsKeepsSafe, ZenonT(60)
  <2> HIDE DEF s3, W
  <2>7. pool \in SUBSET Tx
    BY <2>1, ZenonT(60)
  <2>8. VotesSafe(s4, W) /\ LocksUnspent(s3, s4)
    BY <2>1, <2>5, <2>6, <2>7, FinalizeVotes, ZenonT(60)
  <2> HIDE DEF s4
  <2> QED
    BY <2>1, <2>5, <2>8, ZenonT(60) DEF LocksUnspent
<1>3. ASSUME RejectLockRequest PROVE Goal
  <2> DEFINE s2 == [is EXCEPT !.rejected = is.rejected \cup {pendingRequest}]
  <2>1. /\ netVotes' = netVotes /\ sentVotes' = sentVotes
        /\ pendingRequest \in Tx /\ (is' = is \/ is' = s2)
    BY <1>3 DEF RejectLockRequest, envVars
  <2>2. s2 \in State /\ Keeps(is, s2)
    BY <2>1, ZenonT(60) DEF State, Keeps
  <2> HIDE DEF s2
  <2> QED
    BY <1>0, <2>1, <2>2, KeepsVotesSafe
<1>4. ASSUME NEW v \in Vote, ReceiveTxLockVote(v) PROVE Goal
  <2> DEFINE s1 == StoreVotes(is, {v})
  <2>1. s1 \in State /\ Keeps(is, s1) /\ Grows(is, s1)
    BY StoreVotesType, StoreVotesKeeps, StoreVotesGrows, ZenonT(60)
  <2>2. /\ is' = ProcessTxLockVote(s1, mempool, v)
        /\ netVotes' = netVotes /\ sentVotes' = sentVotes /\ v \in V
    BY <1>4, ZenonT(60) DEF ReceiveTxLockVote, envVars
  <2> HIDE DEF s1
  <2>3. VotesSafe(s1, V) /\ Safe(s1, {}) /\ s1.locked = is.locked
    BY <1>0, <2>1, KeepsVotesSafe, GrowsKeepsSafe, ZenonT(60) DEF Keeps
  <2>4. VotesSafe(is', V) /\ LocksUnspent(s1, is')
    BY <2>1, <2>2, <2>3, ProcessVoteVotes, ZenonT(60)
  <2> QED
    BY <2>2, <2>3, <2>4 DEF LocksUnspent
<1>5. ASSUME NEW t \in Tx, ReceiveTx(t) PROVE Goal
  BY <1>5, SyncArguments, SyncTransactionType, SyncTransactionKeeps, KeepsVotesSafe, ZenonT(60)
     DEF ReceiveTx, envVars
<1>6. ASSUME NEW t \in Tx, SendRawInstantTx(t) PROVE Goal
  <2> DEFINE s1 == ProcessTxLockRequest(is, mempool, t)
             s2 == SyncTransaction(s1, {t}, -1)
  <2>1. s1 \in State /\ VotesSafe(s1, V) /\ LocksUnspent(is, s1)
    BY <1>0, RequestType, RequestVotes, ZenonT(60)
  <2>2. is' \in {s1, s2} /\ netVotes' = netVotes /\ sentVotes' = sentVotes
    BY <1>6, ZenonT(60) DEF SendRawInstantTx, envVars
  <2> HIDE DEF s1
  <2>3. s2 \in State /\ Keeps(s1, s2)
    BY <2>1, SyncArguments, SyncTransactionType, SyncTransactionKeeps, ZenonT(60)
  <2> HIDE DEF s2
  <2>4. VotesSafe(s2, V) /\ s2.locked = s1.locked
    BY <2>1, <2>3, KeepsVotesSafe, ZenonT(60) DEF Keeps
  <2> QED
    BY <2>1, <2>2, <2>4, ZenonT(60) DEF LocksUnspent
<1>7. ASSUME NEW t \in Tx, RelayWalletTransaction(t) PROVE Goal
  BY <1>0, <1>7, RequestVotes, ZenonT(60) DEF RelayWalletTransaction, envVars
<1>8. ASSUME PeriodicCheckAndRemove PROVE Goal
  <2>1. is' = CheckAndRemove(is) /\ netVotes' = netVotes /\ sentVotes' = sentVotes
    BY <1>8 DEF PeriodicCheckAndRemove, envVars
  <2>2. VotesSafe(is', V) /\ Releases(is, is')
    BY <2>1, CheckAndRemoveVotes, CheckAndRemoveSafe, ZenonT(60)
  <2> QED
    BY <2>1, <2>2, ZenonT(60) DEF Releases, LocksUnspent
<1>11. ASSUME NEW b \in BlockTxs, NEW fromDisk \in BOOLEAN,
              ConnectTip(b, fromDisk)
       PROVE  Goal
  <2> DEFINE conflicted == {u \in mempool \ b : \E t \in b :
                               Inputs(u) \cap Inputs(t) # {}}
             s1 == SyncTransaction(is, conflicted, -1)
             s2 == SyncTransaction(s1, b, tip + 1)
  <2>1. is' \in {is, s2} /\ netVotes' = netVotes /\ sentVotes' = sentVotes
    BY <1>11 DEF ConnectTip, envVars
  <2>2. b \in SUBSET Tx /\ conflicted \in SUBSET Tx /\ tip + 1 \in Int
    BY EnvironmentAssumption
  <2> HIDE DEF conflicted
  <2>3. s1 \in State /\ Keeps(is, s1)
    BY <2>2, SyncArguments, SyncTransactionType, SyncTransactionKeeps, ZenonT(60)
  <2> HIDE DEF s1
  <2>4. s2 \in State /\ Keeps(s1, s2)
    BY <2>2, <2>3, SyncArguments, SyncTransactionType, SyncTransactionKeeps, ZenonT(60)
  <2> HIDE DEF s2
  <2>5. VotesSafe(s2, V) /\ s2.locked = is.locked
    BY <2>3, <2>4, KeepsVotesSafe, ZenonT(60) DEF Keeps
  <2> QED
    BY <1>0, <2>1, <2>5, ZenonT(60) DEF LocksUnspent
<1>12. ASSUME DisconnectTip PROVE Goal
  BY <1>12, SyncArguments, SyncTransactionType, SyncTransactionKeeps, KeepsVotesSafe, ZenonT(60)
     DEF DisconnectTip, envVars
<1>13. ASSUME NEW h \in tipNotices, UpdatedBlockTip(h) PROVE Goal
  <2>1. /\ is' = [is EXCEPT !.height = h]
        /\ netVotes' = netVotes /\ sentVotes' = sentVotes
    BY <1>13 DEF UpdatedBlockTip, envVars
  <2>2. is' \in State /\ Keeps(is, is')
    <3>1. h \in Int
      OBVIOUS
    <3> QED
      BY <2>1, <3>1, ZenonT(60) DEF State, Keeps
  <2> QED
    BY <2>1, <2>2, KeepsVotesSafe
<1>14. ASSUME Restart PROVE Goal
  <2>1. /\ is' = [EmptyState(tip) EXCEPT !.banned = is.banned]
        /\ netVotes' = netVotes /\ sentVotes' = sentVotes
    BY <1>14, Zenon DEF Restart
  <2>2. /\ is'.counted = {} /\ is'.voted = {} /\ is'.banned = is.banned
        /\ \A t \in Tx : is'.phase[t] = "none"
        /\ \A o \in Outpoint : is'.locked[o] = NoTx
    BY <2>1 DEF EmptyState
  <2> QED
    BY <2>1, <2>2, Zenon DEF VotesSafe, VotedHaveCandidateIn, LocksUnspent
<1>15. ASSUME \/ \E t \in Tx : EvictTx(t)
              \/ \E b \in BlockTxs : AcceptBlock(b)
              \/ Tick \/ EnvironmentChange \/ UNCHANGED vars
       PROVE  Goal
  BY <1>0, <1>15, ZenonT(60) DEF EvictTx, AcceptBlock, Tick, EnvironmentChange, vars, envVars
<1>16. Goal
  BY <1>1, <1>2, <1>3, <1>4, <1>5, <1>6, <1>7, <1>8, <1>11, <1>12,
     <1>13, <1>14, <1>15, ZenonT(60) DEF Next
<1>17. now' \in Nat /\ (now' = now \/ now' = now + 1)
  <2> DEFINE Same == now' = now
  <2>1. ASSUME NEW t \in Tx,
               \/ ReceiveTxLockRequest(t) \/ ReceiveTx(t) \/ SendRawInstantTx(t)
               \/ RelayWalletTransaction(t) \/ EvictTx(t)
        PROVE  Same
    BY <2>1, ZenonT(60) DEF ReceiveTxLockRequest, ReceiveTx, SendRawInstantTx, RelayWalletTransaction,
                EvictTx, envVars
  <2>2. ASSUME \/ AcceptLockRequest \/ RejectLockRequest \/ PeriodicCheckAndRemove
               \/ DisconnectTip \/ EnvironmentChange \/ UNCHANGED vars
        PROVE  Same
    BY <2>2, ZenonT(60) DEF AcceptLockRequest, RejectLockRequest, PeriodicCheckAndRemove,
                DisconnectTip, EnvironmentChange, vars, envVars
  <2>3. ASSUME NEW v \in Vote, ReceiveTxLockVote(v) PROVE Same
    BY <2>3, ZenonT(60) DEF ReceiveTxLockVote, envVars
  <2>4. ASSUME NEW b \in BlockTxs, NEW fromDisk \in BOOLEAN,
               AcceptBlock(b) \/ ConnectTip(b, fromDisk)
        PROVE  Same
    BY <2>4 DEF AcceptBlock, ConnectTip, envVars
  <2>5. ASSUME NEW h \in tipNotices, UpdatedBlockTip(h) PROVE Same
    BY <2>5 DEF UpdatedBlockTip, envVars
  <2>6. ASSUME Restart PROVE Same
    BY <2>6, Zenon DEF Restart
  <2>7. ASSUME Tick PROVE now' = now + 1
    BY <2>7 DEF Tick
  <2>8. Same \/ now' = now + 1
    <3> HIDE DEF Same
    <3> QED
      BY <2>1, <2>2, <2>3, <2>4, <2>5, <2>6, <2>7, ZenonT(60) DEF Next
  <2> QED
    BY <2>8, SMTT(60)
<1>18. is' \in State
  BY TypeStep, ZenonT(60)
<1>19. \A t \in Tx : Late(is'.candTime[t], LOCK_TIMEOUT)
                        => now' - is'.candTime[t] > LOCK_TIMEOUT
  <2>1. \A t \in Tx : is'.candTime[t] \in Nat
    BY <1>18, ZenonT(60) DEF State
  <2>2. now \in Nat /\ LOCK_TIMEOUT \in Nat
    BY NumberAssumption
  <2> QED
    BY <1>17, <2>1, <2>2, StaysOver, ZenonT(60) DEF Late
<1> QED
  BY <1>16, <1>19, ZenonT(60) DEF VotesSafe, Late, SignedTwice, NameInputs, VotedHaveCandidateIn

\* ConnectBlock refuses a block that spends an outpoint again or twice.
LEMMA StepSpentOnce ==
  ASSUME TypeOK, SpentOnce, [Next]_vars
  PROVE  SpentOnce'
<1> USE DEF TypeOK
<1>1. ASSUME NEW b \in BlockTxs, NEW fromDisk \in BOOLEAN, ConnectTip(b, fromDisk)
      PROVE  SpentOnce'
  <2>1. CASE minedAt' = minedAt
    BY <2>1 DEF SpentOnce
  <2>2. CASE BlockConnects(b) /\ \A t \in Tx : t \in b \/ minedAt'[t] = minedAt[t]
    <3> SUFFICES ASSUME NEW t \in Tx, NEW u \in Tx, t # u, minedAt'[t] # 0, minedAt'[u] # 0,
                        NEW o \in Inputs(t), o \in Inputs(u)
                 PROVE  FALSE
      BY DEF SpentOnce
    <3>1. \A x, y \in Tx : x \in b /\ y \notin b /\ minedAt'[y] # 0
                              => Inputs(x) \cap Inputs(y) = {}
      BY <2>2, ZenonT(60) DEF BlockConnects, GetUTXOCoin
    <3>2. ~ (t \in b /\ u \in b)
      BY <2>2 DEF BlockConnects, PoolConflict
    <3>3. ~ (t \notin b /\ u \notin b)
      BY <2>2 DEF SpentOnce
    <3> QED
      BY <3>1, <3>2, <3>3, ZenonT(60)
  <2> QED
    BY <1>1, <2>1, <2>2, ZenonT(60) DEF ConnectTip
<1>2. CASE DisconnectTip
  <2>1. \A t \in Tx : minedAt'[t] # 0 => minedAt[t] # 0
    BY <1>2 DEF DisconnectTip
  <2> QED
    BY <2>1 DEF SpentOnce
<1>3. ASSUME minedAt' = minedAt PROVE SpentOnce'
  BY <1>3, ZenonT(60) DEF SpentOnce
<1>4. ASSUME NEW t \in Tx,
             \/ ReceiveTxLockRequest(t) \/ ReceiveTx(t) \/ SendRawInstantTx(t)
             \/ RelayWalletTransaction(t) \/ EvictTx(t)
      PROVE  minedAt' = minedAt
  BY <1>4 DEF ReceiveTxLockRequest, ReceiveTx, SendRawInstantTx, RelayWalletTransaction,
              EvictTx, chainVars
<1>5. ASSUME \/ AcceptLockRequest \/ RejectLockRequest \/ PeriodicCheckAndRemove
             \/ Tick \/ EnvironmentChange \/ UNCHANGED vars
      PROVE  minedAt' = minedAt
  BY <1>5, ZenonT(60) DEF AcceptLockRequest, RejectLockRequest, PeriodicCheckAndRemove, Tick,
              EnvironmentChange, vars, chainVars
<1>6. ASSUME NEW v \in Vote, ReceiveTxLockVote(v) PROVE minedAt' = minedAt
  BY <1>6 DEF ReceiveTxLockVote, chainVars
<1>7. ASSUME NEW b \in BlockTxs, AcceptBlock(b) PROVE minedAt' = minedAt
  BY <1>7 DEF AcceptBlock
<1>8. ASSUME NEW h \in tipNotices, UpdatedBlockTip(h) PROVE minedAt' = minedAt
  BY <1>8 DEF UpdatedBlockTip
<1>9. ASSUME Restart PROVE minedAt' = minedAt
  BY <1>9, ZenonT(60) DEF Restart
<1> QED
  BY <1>1, <1>2, <1>3, <1>4, <1>5, <1>6, <1>7, <1>8, <1>9, ZenonT(60) DEF Next

\* Nothing is signed, voted on or mined at start.
LEMMA InitVotes == Init => VotesSafe(is, netVotes \cup sentVotes) /\ SpentOnce
<1>1. LET s == EmptyState(BaseHeight)
      IN  /\ s.counted = {} /\ s.banned = {} /\ s.voted = {}
          /\ \A t \in Tx : s.phase[t] = "none"
  BY DEF EmptyState
<1>2. Init => is = EmptyState(BaseHeight) /\ \A t \in Tx : minedAt[t] = 0
  BY DEF Init
<1> QED
  BY <1>1, <1>2, ZenonT(60) DEF VotesSafe, VotedHaveCandidateIn, SpentOnce

\* In every reachable state the votes and the chain are as described; the theorems
\* below are its parts.
THEOREM VotesAlwaysSafe == Spec => [](VotesSafe(is, netVotes \cup sentVotes) /\ SpentOnce)
<1> DEFINE I == VotesSafe(is, netVotes \cup sentVotes) /\ SpentOnce
<1>1. Init => I
  BY InitVotes
<1>2. TypeOK /\ Safe(is, mempool) /\ I /\ [Next]_vars => I'
  BY StepVotes, StepSpentOnce
<1> HIDE DEF I
<1>3. Spec => []I
  BY <1>1, <1>2, LocksSafe, TypeCorrect, PTL DEF Spec
<1> QED
  BY <1>3 DEF I

\* ProcessTxLockVote calls PoSeBan only for a masternode that signed votes for one
\* outpoint in two transactions, whatever was forgotten, expired or echoed before.
THEOREM BannedAlwaysSigned == Spec => []BannedSignedConflict
<1>1. VotesSafe(is, netVotes \cup sentVotes) /\ SpentOnce => BannedSignedConflict
  BY DEF VotesSafe, SignedTwice, BannedSignedConflict
<1> QED
  BY <1>1, VotesAlwaysSafe, PTL

\* StillUnspent makes TryToFinalizeLockCandidate refuse a lock that the chain has
\* overtaken, so no lock is completed against a mined transaction.
THEOREM NewLocksAlwaysRespectChain == Spec => NewLocksRespectChain
<1> DEFINE A == \A o \in Outpoint : is'.locked[o] \notin {NoTx, is.locked[o]} =>
                  \A p \in Inputs(is'.locked[o]), u \in Tx \ {is'.locked[o]} :
                      minedAt[u] # 0 => p \notin Inputs(u)
<1>1. ASSUME TypeOK, Safe(is, mempool), [Next]_vars,
             VotesSafe(is, netVotes \cup sentVotes) /\ SpentOnce
      PROVE  A
  <2>1. LocksUnspent(is, is') /\ is' \in State
    BY <1>1, StepVotes, TypeStep, ZenonT(60) DEF TypeOK
  <2> SUFFICES ASSUME NEW o \in Outpoint, is'.locked[o] \notin {NoTx, is.locked[o]}
               PROVE  \A p \in Inputs(is'.locked[o]), u \in Tx \ {is'.locked[o]} :
                         minedAt[u] # 0 => p \notin Inputs(u)
    BY ZenonT(60)
  <2> DEFINE t == is'.locked[o]
  <2>2. t \in Tx /\ StillUnspent(t)
    BY <2>1, ZenonT(60) DEF LocksUnspent, State
  <2> HIDE DEF t
  <2>3. \A p \in Inputs(t), u \in Tx \ {t} : minedAt[u] # 0 => p \notin Inputs(u)
    BY <1>1, <2>2, ZenonT(60) DEF StillUnspent, GetUTXOCoin, SpentOnce
  <2> QED
    BY <2>3, ZenonT(60) DEF t
<1>2. TypeOK /\ Safe(is, mempool) /\ [Next]_vars
        /\ (VotesSafe(is, netVotes \cup sentVotes) /\ SpentOnce) => [A]_vars
  BY <1>1
<1> QED
  BY <1>2, VotesAlwaysSafe, LocksSafe, TypeCorrect, PTL DEF Spec, NewLocksRespectChain

\* Vote() finds a complete candidate behind every entry of mapVotedOutpoints, if the
\* other masternodes sign votes for inputs of the transaction only, as Vote() does.
THEOREM VotedAlwaysHaveCandidate ==
  ASSUME \A V \in NetVoteSets : NameInputs(V)
  PROVE  Spec => []VotedHaveCandidate
<1> DEFINE I == VotesSafe(is, netVotes \cup sentVotes) /\ SpentOnce
           J == NameInputs(netVotes \cup sentVotes)
<1>1. Init => J
  BY ZenonT(60) DEF Init, NameInputs
<1>2. TypeOK /\ J /\ [Next]_vars => J'
  <2> SUFFICES ASSUME TypeOK, J, [Next]_vars PROVE J'
    BY ZenonT(60)
  <2>1. ASSUME AcceptLockRequest PROVE J'
    <3>1. /\ netVotes' = netVotes
          /\ \E s, t : sentVotes' = sentVotes \cup RelayedVotes(s, t)
      BY <2>1 DEF AcceptLockRequest, envVars
    <3> QED
      BY <3>1 DEF NameInputs, RelayedVotes, OwnVotes
  <2>2. ASSUME netVotes' = netVotes, sentVotes' = sentVotes PROVE J'
    BY <2>2 DEF NameInputs
  <2>3. ASSUME Restart PROVE J'
    BY <2>2, <2>3, Zenon DEF Restart
  <2> QED
    BY <2>1, <2>2, <2>3, ZenonT(60) DEF Next, ReceiveTxLockRequest, RejectLockRequest,
       ReceiveTxLockVote, ReceiveTx, SendRawInstantTx, RelayWalletTransaction,
       PeriodicCheckAndRemove, EvictTx, AcceptBlock, ConnectTip, DisconnectTip,
       UpdatedBlockTip, Tick, EnvironmentChange, vars, envVars
<1>3. I /\ J => VotedHaveCandidate
  BY DEF VotesSafe, VotedHaveCandidate
<1> HIDE DEF I, J
<1>4. Spec => []I
  BY VotesAlwaysSafe DEF I
<1> QED
  BY <1>1, <1>2, <1>3, <1>4, TypeCorrect, PTL DEF Spec
=============================================================================
