--------------------------- MODULE MasternodePoSe ---------------------------
(***************************************************************************)
(* Proof of service (masternodeman.cpp, masternode.cpp): masternodes ask   *)
(* each other for a signature over the address they announced.  Whoever    *)
(* answers from an address gets a lower ban score, everyone else who       *)
(* announced that address a higher one.  The module models the list of one *)
(* masternode, activeOutpoint; what the others do is external.             *)
(*                                                                         *)
(* A list entry keeps its address, score, ban height and a state in which  *)
(* the pings are abstracted: "active" stands for all states but            *)
(* OUTPOINT_SPENT and POSE_BAN, and which active ones are (PRE_)ENABLED is *)
(* a choice where it matters.  A signature is the masternode whose key     *)
(* made it.                                                                *)
(***************************************************************************)
EXTENDS MasternodePoSeBase

vars == <<mapMasternodes, nCachedBlockHeight, host, mWeAskedForVerification,
          mapFulfilledRequests, mapSeenMasternodeVerification, net, nNonce,
          nMoves, counts, disturbed>>

-----------------------------------------------------------------------------
(* One entry (masternode.h, masternode.cpp) *)

IncreasePoSeBanScore(e) ==
    [e EXCEPT !.score = IF @ < MaxScore THEN @ + 1 ELSE @]

DecreasePoSeBanScore(e) ==
    [e EXCEPT !.score = IF @ > -MaxScore THEN @ - 1 ELSE @]

\* CMasternode::Check; spent is what the coins say.
Check(e, spent, nHeight, size) ==
    IF e.state = "spent" THEN e
    ELSE IF spent THEN [e EXCEPT !.state = "spent"]
    ELSE IF e.state = "banned"
         THEN IF nHeight < e.banHeight THEN e
              ELSE [DecreasePoSeBanScore(e) EXCEPT !.state = "active"]
    ELSE IF e.score >= MaxScore
         THEN [e EXCEPT !.state = "banned", !.banHeight = nHeight + size]
    ELSE e

-----------------------------------------------------------------------------
(* Who may verify *)

\* By descending score.
GetMasternodeRank(m, nHeight) ==
    1 + Cardinality({n \in Listed : CalculateScore[nHeight][n] > CalculateScore[nHeight][m]})

GetMasternodeRanks(nHeight) ==
    [i \in 1 .. Cardinality(Listed) |-> CHOOSE m \in Listed : GetMasternodeRank(m, nHeight) = i]

TooOld(nHeight) == nHeight < nCachedBlockHeight - MAX_POSE_BLOCKS

\* Faulty: the one that answered is among those to ban.
Verified_Everyone(list, real, others) ==
    [m \in DOMAIN list |->
        IF m \in real \cup others THEN IncreasePoSeBanScore(list[m]) ELSE list[m]]

\* The effect of one verification on the list: one answered, the others did not.
Verified(list, real, others) ==
    [m \in DOMAIN list |->
        IF m \in real
        THEN IF IsPoSeVerified(list[m]) THEN list[m] ELSE DecreasePoSeBanScore(list[m])
        ELSE IF m \in others THEN IncreasePoSeBanScore(list[m])
        ELSE list[m]]

\* Faulty: remembers nothing.
Remember_Not(v) == UNCHANGED mapSeenMasternodeVerification

Remember(v) == mapSeenMasternodeVerification' = mapSeenMasternodeVerification \cup {v}

\* History: the verification v was applied to the list.
Count(v) == counts' = [n \in DOMAIN counts \cup {v} |->
                          (IF n \in DOMAIN counts THEN counts[n] ELSE 0) + (IF n = v THEN 1 ELSE 0)]

-----------------------------------------------------------------------------
(* Our side *)

\* SendVerifyRequest is not called, or asks nobody: m is verified or banned, was asked
\* in the last hour, or cannot be reached.
Refused(m) ==
    LET a == mapMasternodes[m].addr
    IN  \/ IsPoSeVerified(mapMasternodes[m]) \/ mapMasternodes[m].state = "banned"
        \/ <<a, "request">> \in mapFulfilledRequests
        \/ host[a] = NoOne

\* How many elements of S come before i or are i.
Nth(S, i) == Cardinality({j \in S : j <= i})

\* The turns of the loop that send a request: the first one at each address, and no
\* more than MAX_POSE_CONNECTIONS.
Asked(turn) ==
    LET free  == {i \in DOMAIN turn : ~Refused(turn[i])}
        first == {i \in free : \A j \in free :
                     j < i => mapMasternodes[turn[j]].addr # mapMasternodes[turn[i]].addr}
    IN  {i \in first : Nth(first, i) <= MAX_POSE_CONNECTIONS /\ nNonce + Nth(first, i) <= MaxNonce}

\* From MAX_POSE_RANK + our rank - 1 on, every MAX_POSE_CONNECTIONS-th one.  A nonce
\* is random in the code; here it is a new one.
DoFullVerificationStep ==
    LET nHeight == nCachedBlockHeight - 1
        ranks   == GetMasternodeRanks(nHeight)
        nMyRank == GetMasternodeRank(activeOutpoint, nHeight)
        nOffset == MAX_POSE_RANK + nMyRank
        turn    == [i \in {k \in nOffset .. Cardinality(Listed) :
                              (k - nOffset) % MAX_POSE_CONNECTIONS = 0} |-> ranks[i]]
        asked   == Asked(turn)
        sent    == {[addr |-> mapMasternodes[turn[i]].addr, nonce |-> nNonce + Nth(asked, i)] :
                       i \in asked}
    IN  /\ activeOutpoint \in Listed
        /\ nMyRank <= MAX_POSE_RANK
        /\ asked # {}
        /\ nNonce' = nNonce + Cardinality(asked)
        /\ mapFulfilledRequests' = mapFulfilledRequests \cup {<<r.addr, "request">> : r \in sent}
        /\ mWeAskedForVerification' =
               [a \in Addresses |->
                   IF \E r \in sent : r.addr = a
                   THEN [nonce |-> (CHOOSE r \in sent : r.addr = a).nonce, height |-> nHeight]
                   ELSE mWeAskedForVerification[a]]
        /\ net' = net \cup {[type |-> "request", addr |-> r.addr, nonce |-> r.nonce, height |-> nHeight] :
                               r \in sent}
        /\ UNCHANGED <<mapMasternodes, nCachedBlockHeight, host,
                       mapSeenMasternodeVerification, nMoves, counts, disturbed>>

\* The signature of the reply covers the address it came from; the reply is
\* dropped unless it answers the last request to that address.
ProcessVerifyReply(r) ==
    LET a    == r.addr
        at   == {m \in Listed : mapMasternodes[m].addr = a}
        real == {m \in at : m = r.signer}
        mnv(m) == [vin1 |-> m, vin2 |-> activeOutpoint, addr |-> a,
                   nonce |-> r.nonce, height |-> r.height, signer |-> r.signer]
    IN  IF \/ <<a, "request">> \notin mapFulfilledRequests
           \/ mWeAskedForVerification[a] # [nonce |-> r.nonce, height |-> r.height]
           \/ <<a, "done">> \in mapFulfilledRequests
           \/ real = {}
        THEN /\ net' = net \ {r}
             /\ UNCHANGED <<mapMasternodes, mapFulfilledRequests,
                            mapSeenMasternodeVerification, counts>>
        ELSE \E m \in real :
             /\ mapMasternodes' = Verified(mapMasternodes, real, at \ real)
             /\ mapFulfilledRequests' = mapFulfilledRequests \cup {<<a, "done">>}
             /\ net' = (net \ {r}) \cup {[type |-> "verified", mnv |-> mnv(m)]}
             /\ Count(mnv(m))
             /\ Remember(mnv(m))

\* ProcessVerifyBroadcast: another masternode says that v.vin1 answered it.
ProcessVerifyBroadcast(v) ==
    LET at == {m \in Listed : mapMasternodes[m].addr = v.addr}
    IN  /\ v \notin mapSeenMasternodeVerification
        /\ Remember(v)
        /\ IF \/ TooOld(v.height)
              \/ v.vin1 = v.vin2
              \/ v.height > nCachedBlockHeight
              \/ v.vin2 \notin Listed
              \/ GetMasternodeRank(v.vin2, v.height) > MAX_POSE_RANK
              \/ v.vin1 \notin at
              \/ v.signer # v.vin1
           THEN UNCHANGED <<mapMasternodes, counts>>
           ELSE /\ mapMasternodes' = Verified(mapMasternodes, {v.vin1}, at \ {v.vin1})
                /\ Count(v)
        /\ UNCHANGED mapFulfilledRequests

\* MNVERIFY, cases 2 and 3; a broadcast stays with other nodes and comes again.
ProcessMessage ==
    /\ \E msg \in net :
          \/ msg.type = "reply" /\ ProcessVerifyReply(msg)
          \/ msg.type = "verified" /\ ProcessVerifyBroadcast(msg.mnv) /\ UNCHANGED net
    /\ UNCHANGED <<nCachedBlockHeight, host, mWeAskedForVerification, nNonce, nMoves, disturbed>>

\* CheckSameAddr at one address: the first verified one of the sorted entries
\* stays, the entry before it and all entries after it are punished.  The sort
\* leaves the order within an address open.
SameAddrBans(group) ==
    LET verified == {m \in group : IsPoSeVerified(mapMasternodes[m])}
        bans(v, before) == LET after == group \ (before \cup {v})
                           IN  IF before = {} THEN {after} ELSE {after \cup {p} : p \in before}
    IN  IF verified = {} THEN {{}}
        ELSE UNION {bans(v, before) : v \in verified, before \in SUBSET (group \ verified)}

\* UpdatedBlockTip; CheckSameAddr is its second half.
UpdatedBlockTip ==
    LET activeAt(a) == {m \in Listed : /\ mapMasternodes[m].addr = a
                                       /\ mapMasternodes[m].state = "active"}
    IN  /\ nCachedBlockHeight < MaxHeight
        /\ nCachedBlockHeight' = nCachedBlockHeight + 1
        /\ \E enabled, vBan \in SUBSET Listed :
              /\ \A a \in Addresses : {m \in vBan : mapMasternodes[m].addr = a}
                                        \in SameAddrBans(activeAt(a) \cap enabled)
              /\ mapMasternodes' = Verified(mapMasternodes, {}, vBan)
        /\ UNCHANGED <<host, mWeAskedForVerification, mapFulfilledRequests,
                       mapSeenMasternodeVerification, net, nNonce, nMoves, counts, disturbed>>

\* Faulty: forgets a verification that is not outdated yet.
Forgotten_Early(nHeight) == nHeight <= nCachedBlockHeight - MAX_POSE_BLOCKS

\* CheckAndRemove forgets what it would refuse anyway.
Forgotten(nHeight) == TooOld(nHeight)

\* CheckAndRemove: Check the entries that were not checked in the last seconds,
\* drop the spent ones, clean the maps.
CheckAndRemove ==
    /\ \E due \in SUBSET Listed : \E spent \in SUBSET due :
          /\ nMoves + Cardinality(spent) <= MaxMoves
          /\ nMoves' = nMoves + Cardinality(spent)
          /\ LET checked == [m \in Listed |->
                                IF m \notin due THEN mapMasternodes[m]
                                ELSE Check(mapMasternodes[m], m \in spent,
                                           nCachedBlockHeight, Cardinality(Listed))]
             IN  mapMasternodes' = [m \in {n \in Listed : checked[n].state # "spent"} |-> checked[m]]
    /\ mWeAskedForVerification' =
           [a \in Addresses |-> IF Forgotten(mWeAskedForVerification[a].height)
                                THEN [nonce |-> 0, height |-> 0] ELSE mWeAskedForVerification[a]]
    /\ mapSeenMasternodeVerification' =
           {v \in mapSeenMasternodeVerification : ~Forgotten(v.height)}
    /\ UNCHANGED <<nCachedBlockHeight, host, mapFulfilledRequests, net, nNonce,
                   counts, disturbed>>

\* Faulty: a masternode takes its score along to a new address.
UpdateFromNewBroadcast_Keeps(e, m, a) == [e EXCEPT !.addr = a, !.banHeight = 0]

\* CMasternode::UpdateFromNewBroadcast: a new address and a clean record.
UpdateFromNewBroadcast(e, m, a) ==
    [e EXCEPT !.addr = a, !.score = IF m = activeOutpoint THEN -MaxScore ELSE 0, !.banHeight = 0]

\* An announcement of m at address a that passes the checks that are not about
\* proof of service (CheckMnbAndUpdateMasternodeList, CMasternodeBroadcast::Update).
NewBroadcast(m, a) ==
    /\ nMoves < MaxMoves
    /\ nMoves' = nMoves + 1
    /\ m = activeOutpoint => host[a] = m
    /\ \E due, spent \in BOOLEAN :
          IF m \notin Listed
          THEN /\ m # activeOutpoint
               /\ mapMasternodes' =
                    [n \in Listed \cup {m} |->
                        IF n = m THEN [addr |-> a, score |-> 0, banHeight |-> 0, state |-> "active"]
                        ELSE mapMasternodes[n]]
          ELSE LET CheckNow(e) == Check(e, spent, nCachedBlockHeight, Cardinality(Listed))
                   e == IF due THEN CheckNow(mapMasternodes[m]) ELSE mapMasternodes[m]
               IN  mapMasternodes' = [mapMasternodes EXCEPT ![m] =
                       IF e.state = "banned" THEN e
                       ELSE CheckNow(UpdateFromNewBroadcast(e, m, a))]
    /\ UNCHANGED <<nCachedBlockHeight, host, mWeAskedForVerification, mapFulfilledRequests,
                   mapSeenMasternodeVerification, net, nNonce, counts, disturbed>>

\* CMasternodeMan::PoSeBan: InstantSend caught m voting for two conflicting requests.
PoSeBan(m) ==
    /\ m \in Listed
    /\ nMoves < MaxMoves
    /\ nMoves' = nMoves + 1
    /\ mapMasternodes' = [mapMasternodes EXCEPT ![m].score = MaxScore]
    /\ disturbed' = disturbed \cup {mapMasternodes[m].addr}
    /\ UNCHANGED <<nCachedBlockHeight, host, mWeAskedForVerification, mapFulfilledRequests,
                   mapSeenMasternodeVerification, net, nNonce, counts>>

\* A fulfilled request is forgotten after an hour.
Expire ==
    /\ \E f \in mapFulfilledRequests : mapFulfilledRequests' = mapFulfilledRequests \ {f}
    /\ UNCHANGED <<mapMasternodes, nCachedBlockHeight, host, mWeAskedForVerification,
                   mapSeenMasternodeVerification, net, nNonce, nMoves, counts, disturbed>>

\* Stop and start: mncache.dat and netfulfilled.dat keep the list and the
\* fulfilled requests, the other two maps are not written.
Restart ==
    /\ nMoves < MaxMoves
    /\ nMoves' = nMoves + 1
    /\ mWeAskedForVerification' = [a \in Addresses |-> [nonce |-> 0, height |-> 0]]
    /\ mapSeenMasternodeVerification' = {}
    /\ counts' = <<>>
    /\ UNCHANGED <<mapMasternodes, nCachedBlockHeight, host, mapFulfilledRequests,
                   net, nNonce, disturbed>>

-----------------------------------------------------------------------------
(* The other nodes (external) *)

\* SendVerifyReply, at the masternode that runs at the address: it answers
\* each peer once an hour.
SendVerifyReply ==
    /\ \E r \in net :
          /\ r.type = "request"
          /\ IF host[r.addr] = NoOne \/ <<host[r.addr], "reply">> \in mapFulfilledRequests
             THEN net' = net \ {r} /\ UNCHANGED mapFulfilledRequests
             ELSE /\ net' = (net \ {r}) \cup {[type |-> "reply", addr |-> r.addr, nonce |-> r.nonce,
                                              height |-> r.height, signer |-> host[r.addr]]}
                  /\ mapFulfilledRequests' = mapFulfilledRequests \cup {<<host[r.addr], "reply">>}
    /\ UNCHANGED <<mapMasternodes, nCachedBlockHeight, host, mWeAskedForVerification,
                   mapSeenMasternodeVerification, nNonce, nMoves, counts, disturbed>>

\* Masternode v, which may be a block behind or ahead and knows all masternodes,
\* verified address a.
OtherVerifies(v, a) ==
    /\ nNonce < MaxNonce
    /\ host[a] \notin {NoOne, v}
    /\ nNonce' = nNonce + 1
    /\ \E nHeight \in {nCachedBlockHeight - 1, nCachedBlockHeight + 1} :
          /\ Cardinality({n \in Masternodes : CalculateScore[nHeight][n] > CalculateScore[nHeight][v]})
                < MAX_POSE_RANK
          /\ net' = net \cup {[type |-> "verified",
                              mnv |-> [vin1 |-> host[a], vin2 |-> v, addr |-> a, nonce |-> nNonce',
                                       height |-> nHeight, signer |-> host[a]]]}
    /\ UNCHANGED <<mapMasternodes, nCachedBlockHeight, host, mWeAskedForVerification,
                   mapFulfilledRequests, mapSeenMasternodeVerification, nMoves, counts, disturbed>>

\* Masternode m starts at address a, perhaps in place of another.
StartAt(m, a) ==
    /\ nMoves < MaxMoves
    /\ nMoves' = nMoves + 1
    /\ host[a] # m
    /\ host' = [host EXCEPT ![a] = m]
    /\ disturbed' = IF host[a] = NoOne THEN disturbed ELSE disturbed \cup {a}
    /\ UNCHANGED <<mapMasternodes, nCachedBlockHeight, mWeAskedForVerification,
                   mapFulfilledRequests, mapSeenMasternodeVerification, net, nNonce, counts>>

-----------------------------------------------------------------------------
Init ==
    /\ mapMasternodes \in LoadedLists
    /\ nCachedBlockHeight = FirstHeight
    /\ host \in [Addresses -> Masternodes \cup {NoOne}]
    /\ mWeAskedForVerification = [a \in Addresses |-> [nonce |-> 0, height |-> 0]]
    /\ mapFulfilledRequests = {}
    /\ mapSeenMasternodeVerification = {}
    /\ net = {}
    /\ nNonce = 0
    /\ nMoves = 0
    /\ counts = <<>>
    /\ disturbed = {a \in Addresses :
                       \E m \in Listed : /\ mapMasternodes[m].addr = a
                                         /\ ~Undisturbed(m, mapMasternodes[m], host[a])}

Next ==
    \/ DoFullVerificationStep
    \/ ProcessMessage
    \/ UpdatedBlockTip
    \/ CheckAndRemove
    \/ \E m \in Masternodes, a \in Addresses : NewBroadcast(m, a)
    \/ \E m \in Masternodes : PoSeBan(m)
    \/ Expire
    \/ Restart
    \/ SendVerifyReply
    \/ \E v \in Masternodes \ {activeOutpoint}, a \in Addresses : OtherVerifies(v, a)
    \/ \E m \in Masternodes, a \in Addresses : StartAt(m, a)

Spec == Init /\ [][Next]_vars
=============================================================================
