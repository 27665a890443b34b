----------------------- MODULE MasternodePoSeBase -----------------------
(***************************************************************************)
(* The state of the proof of service: the constants of the code, the       *)
(* bounds, the lists of masternodes that a start may find on disk, the     *)
(* variables, and what is to hold of them.  MasternodePoSe has the steps.  *)
(***************************************************************************)
EXTENDS Integers, FiniteSets

CONSTANTS
    Masternodes,                      \* collateral outpoints
    activeOutpoint,                   \* our own
    Addresses,
    NoOne,                            \* no masternode runs at the address
    CalculateScore,                   \* [height -> [Masternodes -> Nat]]
    LoadedLists,                      \* lists that mncache.dat may hold
    MASTERNODE_POSE_BAN_MAX_SCORE,    \* 5
    MAX_POSE_CONNECTIONS,             \* 10
    MAX_POSE_RANK,                    \* 10
    MAX_POSE_BLOCKS,                  \* 10
    FirstHeight, MaxHeight,           \* bound on the chain
    MaxNonce,                         \* bound on the verifications
    MaxMoves                          \* bound on announcements and on moves

MaxScore == MASTERNODE_POSE_BAN_MAX_SCORE

Entry == [addr : Addresses, score : -MaxScore .. MaxScore,
          state : {"active", "spent", "banned"}, banHeight : Int]

\* The score, and one point for a masternode that is not banned: the unban takes
\* a point off.
Standing(e) == e.score + (IF e.state = "banned" THEN 0 ELSE 1)

\* Of two masternodes at one address, what one gained the other has lost.  Our
\* own entry is excepted, as UpdateFromNewBroadcast sets its score.
BalancedList(list) ==
    \A m, n \in DOMAIN list \ {activeOutpoint} :
        m # n /\ list[m].addr = list[n].addr
            => Standing(list[m]) + Standing(list[n]) >= -MaxScore

ASSUME BoundsAssumption ==
    /\ MASTERNODE_POSE_BAN_MAX_SCORE \in Nat
    /\ MASTERNODE_POSE_BAN_MAX_SCORE >= 3
    /\ IsFiniteSet(Masternodes)
    /\ MAX_POSE_RANK \in Nat /\ MAX_POSE_BLOCKS \in Nat
    /\ NoOne \notin Masternodes
    /\ FirstHeight \in Int

\* CompareScoreMN orders equal scores by outpoint.
ASSUME ScoresAssumption ==
    \A nHeight \in DOMAIN CalculateScore : \A m, n \in Masternodes :
        m # n => CalculateScore[nHeight][m] # CalculateScore[nHeight][n]

\* mncache.dat is absent, which is the empty list, or was written by a node that
\* runs this code.
ASSUME LoadedAssumption ==
    \A list \in LoadedLists :
        /\ DOMAIN list \subseteq Masternodes
        /\ list \in [DOMAIN list -> Entry]
        /\ BalancedList(list)

-----------------------------------------------------------------------------
VARIABLES
    mapMasternodes,                   \* outpoint -> entry
    nCachedBlockHeight,
    host,                             \* external: who runs at each address
    mWeAskedForVerification,          \* address -> [nonce, height]
    mapFulfilledRequests,             \* set of <<address, request>>
    mapSeenMasternodeVerification,    \* set of verifications
    net,                              \* external: messages on their way
    nNonce, nMoves,                   \* used up of the bounds
    counts,                           \* history: how often each one counted
    disturbed                         \* history: addresses that changed hands or
                                      \* whose masternode InstantSend banned

Listed == DOMAIN mapMasternodes

IsPoSeVerified(e) == e.score <= -MaxScore

-----------------------------------------------------------------------------
\* The list is well formed and scores stay within the two bounds.
PoSeTyped ==
    /\ Listed \subseteq Masternodes
    /\ mapMasternodes \in [Listed -> Entry]
    /\ nCachedBlockHeight \in Int

\* The record e of masternode m after undisturbed service at its address, where h
\* runs: only h can have gained, and others lose only because h answers.
Undisturbed(m, e, h) ==
    IF m = h THEN e.score <= 0 /\ e.state # "banned"
    ELSE /\ e.score >= 0
         /\ e.state = "banned" => e.score = MaxScore
         /\ h = NoOne => e.score = 0

\* At most one masternode of an address is verified, whoever answered there
\* before and however late the verifications of other nodes come; our own
\* entry is excepted, as UpdateFromNewBroadcast sets its score.
VerifiedUnique ==
    /\ PoSeTyped
    /\ \A m, n \in Listed \ {activeOutpoint} :
          /\ m # n
          /\ mapMasternodes[m].addr = mapMasternodes[n].addr
          => ~(IsPoSeVerified(mapMasternodes[m]) /\ IsPoSeVerified(mapMasternodes[n]))

\* A verification changes the scores once, although it comes back from other
\* nodes and is forgotten after MAX_POSE_BLOCKS blocks.
CountedOnce == \A v \in DOMAIN counts : counts[v] <= 1

\* The masternode that has always run at the address it announced is never
\* punished for another one that announces the same address.
RealNeverPunished ==
    \A m \in Listed :
        LET a == mapMasternodes[m].addr
        IN  /\ host[a] = m
            /\ a \notin disturbed
            => mapMasternodes[m].score <= 0 /\ mapMasternodes[m].state # "banned"

\* Both: a verification counts once, and nobody is punished in their own place.
PunishedRightly == CountedOnce /\ RealNeverPunished
=============================================================================
