---------------------------- MODULE MCGovernance ----------------------------
(***************************************************************************)
(* What masternodes do for each other: the governance manager, the bounded *)
(* containers it and the network code keep votes and requests in, and the  *)
(* proof of service.  The models share no state; focus, chosen at the      *)
(* start, says which of them moves.                                        *)
(*                                                                         *)
(* Object 1 is a proposal, 2, 3 and 5 are watchdogs, 4 and 6 triggers.     *)
(* Masternode m1 votes on the proposal twice, and one vote of m2 has a bad *)
(* signature.  In the proof of service x and y announce the same address B *)
(* or, verified, addresses of their own, or y is not known yet.            *)
(***************************************************************************)
EXTENDS Governance, MasternodePoSeBase, TLC

CONSTANTS m1, m2, me, x, y, A, B, C, k1, k2, k3, k4, v1, v2

VARIABLES focus,
          listItems, mapIndex, nCurrentSize, later,
          mListItems, mMapIndex, mCurrentSize, mLater,
          map, rmap, nMaxSize, offered

cacheVars == <<listItems, mapIndex, nCurrentSize, later>>

multiVars == <<mListItems, mMapIndex, mCurrentSize, mLater>>

limitedVars == <<map, rmap, nMaxSize, offered>>

poseVars == <<mapMasternodes, nCachedBlockHeight, host, mWeAskedForVerification,
              mapFulfilledRequests, mapSeenMasternodeVerification, net, nNonce, nMoves,
              counts, disturbed>>

Cache == INSTANCE CacheMap WITH
    Key <- {k1, k2, k3, k4}, Value <- {v1, v2}, MaxSize <- 2

Multi == INSTANCE CacheMultiMap WITH
    Key <- {k1, k2}, Value <- {v1, v2}, MaxSize <- 2, listItems <- mListItems,
    mapIndex <- mMapIndex, nCurrentSize <- mCurrentSize, later <- mLater

Limited == INSTANCE LimitedMap WITH
    Key <- {k1, k2, k3}, Value <- {1, 2, 3}, MaxSizes <- {1, 2}

Objects == 1 .. 6

Types == <<"proposal", "watchdog", "watchdog", "trigger", "watchdog",
           "trigger">>

Owners == <<m1, m1, m1, m1, m2, m2>>

Creation == <<1, 1, 2, 1, 3, 3>>

Outdating == <<0, 0, 0, 2, 0, 4>>

V(o, m, yes, t, ok) == [obj |-> o, mn |-> m, yes |-> yes, time |-> t, valid |-> ok]

A1 == V(1, m1, TRUE, 1, TRUE)
A2 == V(1, m1, FALSE, 2, TRUE)
B1 == V(1, m2, TRUE, 1, TRUE)
B2 == V(1, m2, TRUE, 2, FALSE)
W1 == V(2, m1, TRUE, 1, TRUE)
W2 == V(2, m2, TRUE, 1, TRUE)
W3 == V(3, m1, TRUE, 1, TRUE)

Votes == {A1, A2, B1, B2, W1, W2, W3}

Scene(o, v, f, m, e, t) ==
    [objects |-> o, votes |-> v, first |-> f, masternodes |-> m, events |-> e,
     until |-> t]

Unlisted == Scene({4, 5, 6}, {}, {m1}, {m2}, {"restart", "return"}, 6)

\* A proposal with restarts; with a voter that leaves; with one that comes late and
\* a bad signature; two and three watchdogs with votes to delete; objects whose
\* masternode is not known, with masternodes that return.
AllScenes ==
    {Scene({1}, {A1, A2}, {m1}, {m1}, {"restart"}, 5),
     Scene({1}, {A1, A2, B1}, {m1, m2}, {m2}, {}, 4),
     Scene({1}, {A1, B1, B2}, {m1}, {m2}, {}, 4),
     Scene({2, 3}, {W1, W2}, {m1, m2}, {m2}, {"restart"}, 6),
     Scene({2, 3, 5}, {W1}, {m1, m2}, {m1}, {"restart"}, 6),
     Unlisted}

PoSe == INSTANCE MasternodePoSe

\* Where the scores put a masternode, and one that has just been banned.
At(a, s) == [addr |-> a, score |-> s, state |-> IF s = MaxScore THEN "banned" ELSE "active",
             banHeight |-> IF s = MaxScore THEN 3 ELSE 0]

List(b, c) == (me :> At(A, -MaxScore)) @@ (x :> b) @@ (y :> c)

NewList == List(At(B, 0), At(B, 0))

BannedList == List(At(B, -MaxScore), At(B, MaxScore))

ApartList == List(At(B, -MaxScore), At(C, -MaxScore))

AloneList == (me :> At(A, -MaxScore)) @@ (x :> At(B, -MaxScore))

Lists == {NewList, BannedList, ApartList, AloneList}

\* Who ranks first changes with every block.
Ranking == [h \in 0 .. MaxHeight + 1 |->
               IF h % 2 = 0 THEN (y :> 3) @@ (me :> 2) @@ (x :> 1)
                            ELSE (me :> 3) @@ (x :> 2) @@ (y :> 1)]

Hosts(b, c) == (A :> me) @@ (B :> b) @@ (C :> c)

\* The models that do not move have one initial state.
MCInit ==
    /\ focus \in {"governance", "cachemap", "multimap", "limitedmap", "pose"}
    /\ Init /\ Cache!Init /\ Multi!Init /\ Limited!Init /\ PoSe!Init
    /\ focus # "pose" => mapMasternodes = NewList
    /\ <<mapMasternodes, host>> \in
          {<<NewList, Hosts(x, NoOne)>>, <<BannedList, Hosts(y, NoOne)>>,
           <<ApartList, Hosts(x, y)>>, <<AloneList, Hosts(y, NoOne)>>}
    /\ focus # "governance" => scene = Unlisted
    /\ focus # "limitedmap" => nMaxSize = 2

MCNext ==
    /\ UNCHANGED focus
    /\ \/ /\ focus = "governance" /\ Next
          /\ UNCHANGED <<cacheVars, multiVars, limitedVars, poseVars>>
       \/ /\ focus = "cachemap" /\ Cache!Next
          /\ UNCHANGED <<vars, multiVars, limitedVars, poseVars>>
       \/ /\ focus = "multimap" /\ Multi!Next
          /\ UNCHANGED <<vars, cacheVars, limitedVars, poseVars>>
       \/ /\ focus = "limitedmap" /\ Limited!Next
          /\ UNCHANGED <<vars, cacheVars, multiVars, poseVars>>
       \/ /\ focus = "pose" /\ PoSe!Next
          /\ UNCHANGED <<vars, cacheVars, multiVars, limitedVars>>

MCSpec ==
    MCInit /\ [][MCNext]_<<focus, vars, cacheVars, multiVars, limitedVars, poseVars>>

\* CacheMap, CacheMultiMap and limitedmap: the index has exactly the items of the
\* list (the multimap those of the map), the size is counted and bounded, and the
\* N most recent keys or calls of Insert are kept; of the entries that were in a
\* limitedmap, one of the lowest value is evicted.
ContainersExact ==
  /\ []( /\ Cache!TypeOK /\ Cache!IndexExact /\ Cache!KeepsRecent
         /\ Multi!TypeOK /\ Multi!IndexExact /\ Multi!KeepsRecent
         /\ Limited!TypeOK /\ Limited!RmapExact)
  /\ Limited!EvictsLowest
===============================================================================
