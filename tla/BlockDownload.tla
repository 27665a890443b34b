--------------------------- MODULE BlockDownload ---------------------------
(***************************************************************************)
(* How net_processing.cpp finds out which blocks its peers have and        *)
(* downloads them: headers first, from one peer until the headers are      *)
(* recent, then blocks from all peers within a moving window, with         *)
(* time-outs for peers that hold the download up.                          *)
(*                                                                         *)
(* A request and the messages that answer it travel in order over one      *)
(* connection: todo[p] is what peer p has still to send.  A peer that is   *)
(* not honest may leave requests unanswered, hang up and come back.  Time  *)
(* is kept as ages; whether a block is recent does not change while the    *)
(* model runs.                                                             *)
(***************************************************************************)
EXTENDS Integers, FiniteSets, SequencesExt, TLC

CONSTANTS
    Peer, Block, Prev,      \* 0 is the genesis block
    Bad,                    \* blocks that CheckBlock refuses
    NoBlock, NoPeer,
    MAX_HEADERS_RESULTS, MAX_BLOCKS_IN_TRANSIT_PER_PEER, BLOCK_DOWNLOAD_WINDOW,
    StallingTimeout, DownloadTimeoutBase, DownloadTimeoutPerPeer, HeadersTimeout,
    MaxConnects,            \* connections made by a peer that is not honest
    Scenes

VARIABLES
    index,      \* mapBlockIndex, pindexBestHeader and chainActive
    net,        \* mapNodeState, mapBlocksInFlight and the counters
    todo,       \* requests under way to a peer, and announcements it sends
    peer,       \* what a peer is at: its tip, and the last header it sent
    connects,   \* how often a peer has connected
    scene       \* the peers, their kinds and their chains; which blocks are recent

vars == <<index, net, todo, peer, connects, scene>>

Height[b \in Block] == IF b = 0 THEN 0 ELSE Height[Prev[b]] + 1

Ancestors[b \in Block] == IF b = 0 THEN {0} ELSE Ancestors[Prev[b]] \cup {b}

LastCommonAncestor(a, b) ==
    CHOOSE c \in Ancestors[a] \cap Ancestors[b] :
        \A d \in Ancestors[a] \cap Ancestors[b] : Height[d] <= Height[c]

\* The blocks after a up to its descendant b.
PathTo(a, b) == SetToSortSeq(Ancestors[b] \ Ancestors[a],
                             LAMBDA c, d : Height[c] < Height[d])

Never == -1

CNodeState ==
    [ready |-> FALSE, fDisconnect |-> FALSE, fShouldBan |-> FALSE,
     pindexBestKnownBlock |-> NoBlock, hashLastUnknownBlock |-> NoBlock,
     pindexLastCommonBlock |-> NoBlock,
     fSyncStarted |-> FALSE, headersAge |-> 0, stallingAge |-> Never,
     vBlocksInFlight |-> <<>>, downloadingAge |-> 0,
     nBlocksInFlight |-> 0, nBlocksInFlightValidHeaders |-> 0,
     fPreferredDownload |-> FALSE, vBlockHashesFromINV |-> <<>>]

Nodes == DOMAIN net.node

Live(p) == p \in Nodes /\ net.node[p].ready /\ ~ net.node[p].fDisconnect

Init ==
    /\ scene \in Scenes
    /\ index = [headers |-> Ancestors[scene.tip], data |-> Ancestors[scene.tip],
                failed |-> {}, best |-> scene.tip, tip |-> scene.tip]
    /\ net = [node |-> <<>>, inFlight |-> [b \in Block |-> NoPeer],
              nSyncStarted |-> 0, nPreferredDownload |-> 0,
              nPeersWithValidatedDownloads |-> 0]
    /\ todo = [p \in Peer |-> <<>>]
    /\ peer = [p \in Peer |-> [tip |-> 1, sent |-> NoBlock]]
    /\ connects = [p \in Peer |-> 0]

(***************************************************************************)
(* Blocks in flight.                                                       *)
(***************************************************************************)

One(c) == IF c THEN 1 ELSE 0

\* Faulty: the entry is taken from the list only.
MarkBlockAsReceived_Keeps(n, b) ==
    LET p == n.inFlight[b]
    IN  IF p = NoPeer THEN n
        ELSE [n EXCEPT !.node[p].nBlocksInFlight = @ - 1,
                       !.node[p].vBlocksInFlight = SelectSeq(@, LAMBDA e : e.hash # b),
                       !.inFlight[b] = NoPeer]

MarkBlockAsReceived(n, b) ==
    LET p == n.inFlight[b]
        s == n.node[p]
        e == CHOOSE e \in Range(s.vBlocksInFlight) : e.hash = b
        valid == s.nBlocksInFlightValidHeaders - One(e.fValidatedHeaders)
    IN  IF p = NoPeer THEN n
        ELSE [n EXCEPT
                !.node[p].nBlocksInFlightValidHeaders = valid,
                !.nPeersWithValidatedDownloads =
                    @ - One(valid = 0 /\ e.fValidatedHeaders),
                !.node[p].downloadingAge = IF Head(s.vBlocksInFlight) = e THEN 0 ELSE @,
                !.node[p].vBlocksInFlight = SelectSeq(@, LAMBDA x : x # e),
                !.node[p].nBlocksInFlight = @ - 1,
                !.node[p].stallingAge = Never,
                !.inFlight[b] = NoPeer]

MarkBlockAsInFlight(m, p, b, validated) ==
    LET n == MarkBlockAsReceived(m, b)
        valid == n.node[p].nBlocksInFlightValidHeaders + One(validated)
    IN  [n EXCEPT
            !.node[p].vBlocksInFlight =
                Append(@, [hash |-> b, fValidatedHeaders |-> validated]),
            !.node[p].downloadingAge = IF n.node[p].nBlocksInFlight = 0 THEN 0 ELSE @,
            !.node[p].nBlocksInFlight = @ + 1,
            !.node[p].nBlocksInFlightValidHeaders = valid,
            !.nPeersWithValidatedDownloads = @ + One(valid = 1 /\ validated),
            !.inFlight[b] = p]

InFlightFrom(n, p, bs) ==
    FoldLeft(LAMBDA m, b : MarkBlockAsInFlight(m, p, b, TRUE), n, bs)

(***************************************************************************)
(* What a peer has.                                                        *)
(***************************************************************************)

\* A block that a peer announced becomes its best one unless that has more work.
BestOf(s, b) ==
    IF s.pindexBestKnownBlock = NoBlock THEN b
    ELSE IF Height[b] >= Height[s.pindexBestKnownBlock] THEN b
    ELSE s.pindexBestKnownBlock

ProcessBlockAvailability(x, s) ==
    IF s.hashLastUnknownBlock \in x.headers
    THEN [s EXCEPT !.pindexBestKnownBlock = BestOf(s, s.hashLastUnknownBlock),
                   !.hashLastUnknownBlock = NoBlock]
    ELSE s

UpdateBlockAvailability(x, r, b) ==
    LET s == ProcessBlockAvailability(x, r)
    IN  IF b \in x.headers THEN [s EXCEPT !.pindexBestKnownBlock = BestOf(s, b)]
        ELSE [s EXCEPT !.hashLastUnknownBlock = b]

\* nChainTx: the block and its ancestors have been received.
Linked(x, b) == Ancestors[b] \subseteq x.data

ActiveContains(x, b) == b \in Ancestors[x.tip]

\* Faulty: the walk goes on from a block whose ancestors are missing.
Visit_Gap(n, x, p, count, windowEnd, w, b) ==
    CASE w.done -> w
      [] b \in x.failed -> [w EXCEPT !.done = TRUE]
      [] b \in x.data \/ ActiveContains(x, b) ->
            [w EXCEPT !.common = b]
      [] n.inFlight[b] # NoPeer ->
            IF w.waitingfor = NoPeer THEN [w EXCEPT !.waitingfor = n.inFlight[b]] ELSE w
      [] Height[b] > windowEnd ->
            [w EXCEPT !.done = TRUE,
                      !.staller = IF w.blocks = <<>> /\ w.waitingfor # p
                                  THEN w.waitingfor ELSE @]
      [] OTHER -> [w EXCEPT !.blocks = Append(@, b),
                            !.done = Len(w.blocks) + 1 = count]

\* One block of FindNextBlocksToDownload's walk; done stands for its returns.
Visit(n, x, p, count, windowEnd, w, b) ==
    CASE w.done -> w
      [] b \in x.failed -> [w EXCEPT !.done = TRUE]
      [] b \in x.data \/ ActiveContains(x, b) ->
            IF Linked(x, b) THEN [w EXCEPT !.common = b] ELSE w
      [] n.inFlight[b] # NoPeer ->
            IF w.waitingfor = NoPeer THEN [w EXCEPT !.waitingfor = n.inFlight[b]] ELSE w
      [] Height[b] > windowEnd ->
            [w EXCEPT !.done = TRUE,
                      !.staller = IF w.blocks = <<>> /\ w.waitingfor # p
                                  THEN w.waitingfor ELSE @]
      [] OTHER -> [w EXCEPT !.blocks = Append(@, b),
                            !.done = Len(w.blocks) + 1 = count]

FindNextBlocksToDownload(n, x, p) ==
    LET s == n.node[p]
        best == s.pindexBestKnownBlock
        count == MAX_BLOCKS_IN_TRANSIT_PER_PEER - s.nBlocksInFlight
        guess == IF s.pindexLastCommonBlock # NoBlock THEN s.pindexLastCommonBlock
                 ELSE CHOOSE b \in Ancestors[x.tip] :
                         Height[b] = IF Height[best] < Height[x.tip]
                                     THEN Height[best] ELSE Height[x.tip]
        common == LastCommonAncestor(guess, best)
        windowEnd == Height[common] + BLOCK_DOWNLOAD_WINDOW
        path == SelectSeq(PathTo(common, best), LAMBDA b : Height[b] <= windowEnd + 1)
        Walk(c) == [common |-> c, blocks |-> <<>>, waitingfor |-> NoPeer,
                    staller |-> NoPeer, done |-> FALSE]
    IN  IF best = NoBlock THEN Walk(s.pindexLastCommonBlock)
        ELSE IF Height[best] < Height[x.tip] THEN Walk(s.pindexLastCommonBlock)
        ELSE FoldLeft(LAMBDA w, b : Visit(n, x, p, count, windowEnd, w, b),
                      Walk(common), path)

(***************************************************************************)
(* Connections.                                                            *)
(***************************************************************************)

InitializeNode(p) ==
    /\ p \in scene.peers \ Nodes /\ (p \in scene.honest \/ connects[p] < MaxConnects)
    /\ net' = [net EXCEPT !.node = (p :> CNodeState) @@ @]
    /\ connects' = [connects EXCEPT ![p] = @ + One(p \notin scene.honest)]
    /\ peer' = [peer EXCEPT ![p].sent = NoBlock]
    /\ UNCHANGED <<index, todo>>

\* VERSION, with UpdatePreferredDownload, and VERACK.
Handshake(p) ==
    LET preferred == /\ p \in scene.white \/ p \notin scene.inbound
                     /\ p \notin scene.client
    IN  /\ p \in Nodes /\ ~ net.node[p].ready /\ ~ net.node[p].fDisconnect
        /\ net' = [net EXCEPT !.node[p].ready = TRUE,
                              !.node[p].fPreferredDownload = preferred,
                              !.nPreferredDownload = @ + One(preferred)]
        /\ UNCHANGED <<index, todo, peer, connects>>

\* The peer closes the connection.
HangUp(p) ==
    /\ p \in Nodes \ scene.honest /\ ~ net.node[p].fDisconnect
    /\ net' = [net EXCEPT !.node[p].fDisconnect = TRUE]
    /\ UNCHANGED <<index, todo, peer, connects>>

\* Faulty: the blocks asked for stay in flight.
Finalized_Keeps(p) == net.inFlight

\* mapBlocksInFlight without the peer that is removed.
Finalized(p) ==
    [b \in Block |->
        IF \E e \in Range(net.node[p].vBlocksInFlight) : e.hash = b THEN NoPeer
        ELSE net.inFlight[b]]

\* ThreadSocketHandler deletes a node that is to be disconnected.
FinalizeNode(p) ==
    /\ p \in Nodes /\ net.node[p].fDisconnect
    /\ LET s == net.node[p]
       IN  net' = [net EXCEPT
                     !.nSyncStarted = @ - One(s.fSyncStarted),
                     !.inFlight = Finalized(p),
                     !.nPreferredDownload = @ - One(s.fPreferredDownload),
                     !.nPeersWithValidatedDownloads =
                         @ - One(s.nBlocksInFlightValidHeaders # 0),
                     !.node = [q \in Nodes \ {p} |-> @[q]]]
    /\ todo' = [todo EXCEPT ![p] = <<>>]
    /\ UNCHANGED <<index, peer, connects>>

(***************************************************************************)
(* The messages of a peer.                                                 *)
(***************************************************************************)

TipOf(p) == scene.tips[p][peer[p].tip]

Getheaders(from, stop) == [type |-> "getheaders", from |-> from, stop |-> stop]

Getdata(b) == [type |-> "getdata", hash |-> b]

Inv(b) == [type |-> "inv", hash |-> b]

Announcement(m) == m.type \in {"inv", "headers"}

Getdatas(bs) == [i \in DOMAIN bs |-> Getdata(bs[i])]

\* The peer's answer to getheaders, which the code has too.
Headers(p, from, stop) ==
    LET path == PathTo(LastCommonAncestor(from, TipOf(p)), TipOf(p))
        upto == {i \in DOMAIN path : path[i] = stop \/ i = MAX_HEADERS_RESULTS}
    IN  IF upto = {} THEN path ELSE SubSeq(path, 1, Min(upto))

\* PeerHasHeader, as the peer sees it.
HasHeader(p) == IF peer[p].sent = NoBlock THEN {} ELSE Ancestors[peer[p].sent]

\* AcceptBlockHeader
AcceptBlockHeader(a, b) ==
    CASE ~ a.ok -> a
      [] b \in a.x.headers ->
            IF b \in a.x.failed THEN [a EXCEPT !.ok = FALSE]
            ELSE [a EXCEPT !.last = b]
      [] Prev[b] \notin a.x.headers -> [a EXCEPT !.ok = FALSE]
      [] Prev[b] \in a.x.failed -> [a EXCEPT !.ok = FALSE, !.dos = TRUE]
      [] OTHER -> [a EXCEPT !.last = b,
                            !.x.headers = @ \cup {b},
                            !.x.best = IF Height[b] > Height[@] THEN b ELSE @]

ProcessNewBlockHeaders(hs) ==
    FoldLeft(AcceptBlockHeader,
             [x |-> index, ok |-> TRUE, dos |-> FALSE, last |-> NoBlock], hs)

CanDirectFetch(x) == x.tip \in scene.direct

\* The blocks that a headers message makes the node ask for at once.
DirectFetch(n, x, p, last) ==
    LET path == PathTo(LastCommonAncestor(last, x.tip), last)
        missing == SelectSeq(path, LAMBDA b : b \notin x.data /\ n.inFlight[b] = NoPeer)
        limit == MAX_BLOCKS_IN_TRANSIT_PER_PEER
        room == limit - n.node[p].nBlocksInFlight
    IN  IF \/ ~ CanDirectFetch(x)
           \/ last \in x.failed \/ Height[last] < Height[x.tip]
           \/ Len(missing) > limit + 1
           \/ Len(missing) = limit + 1 /\ Head(missing) # Head(path)
        THEN <<>>
        ELSE SubSeq(missing, 1, IF room < Len(missing) THEN room ELSE Len(missing))

HeadersMessage(p, hs, rest) ==
    LET a == ProcessNewBlockHeaders(hs)
        s == UpdateBlockAvailability(a.x, net.node[p], a.last)
        n == [net EXCEPT !.node[p] = s]
        fetch == DirectFetch(n, a.x, p, a.last)
        more == IF Len(hs) = MAX_HEADERS_RESULTS
                THEN <<Getheaders(a.last, NoBlock)>> ELSE <<>>
    IN  /\ index' = a.x
        /\ IF ~ a.ok
           THEN /\ net' = [net EXCEPT !.node[p].fShouldBan = @ \/ a.dos]
                /\ todo' = [todo EXCEPT ![p] = rest]
           ELSE IF hs = <<>>
           THEN todo' = [todo EXCEPT ![p] = rest] /\ UNCHANGED net
           ELSE /\ net' = InFlightFrom(n, p, fetch)
                /\ todo' = [todo EXCEPT ![p] = rest \o more \o Getdatas(fetch)]

\* ActivateBestChain: the tips it may choose when blocks have been linked.
BestTips(x) ==
    LET better == {b \in x.data : Linked(x, b) /\ Height[b] > Height[x.tip]}
    IN  IF better = {} THEN {x.tip}
        ELSE {b \in better : \A c \in better : Height[c] <= Height[b]}

\* BLOCK, with AcceptBlock.
BlockMessage(p, b, rest) ==
    LET requested == net.inFlight[b] # NoPeer \/ p \in scene.white
        n == MarkBlockAsReceived(net, b)
        a == ProcessNewBlockHeaders(<<b>>)
        ignored == b \in a.x.data \/ (~ requested /\ Height[b] <= Height[a.x.tip])
        stored == [a.x EXCEPT !.data = @ \cup {b}]
    IN  /\ todo' = [todo EXCEPT ![p] = rest]
        /\ IF a.ok /\ ~ ignored /\ b \notin Bad
           THEN /\ \E t \in BestTips(stored) : index' = [stored EXCEPT !.tip = t]
                /\ net' = n
           ELSE IF a.ok /\ ~ ignored
           THEN /\ index' = [a.x EXCEPT !.failed = @ \cup {b}]
                /\ net' = [n EXCEPT !.node[p].fShouldBan = TRUE]
           ELSE /\ index' = a.x
                /\ net' = [n EXCEPT !.node[p].fShouldBan = @ \/ a.dos]

InvMessage(p, b, rest) ==
    LET n == [net EXCEPT !.node[p] = UpdateBlockAvailability(index, @, b)]
        new == b \notin index.headers /\ n.inFlight[b] = NoPeer
        late == index.best \notin scene.near
        fetch == /\ CanDirectFetch(index)
                 /\ n.node[p].nBlocksInFlight < MAX_BLOCKS_IN_TRANSIT_PER_PEER
    IN  /\ net' = CASE ~ new -> n
                    [] late -> [n EXCEPT !.node[p].vBlockHashesFromINV = Append(@, b)]
                    [] fetch -> MarkBlockAsInFlight(n, p, b, FALSE)
                    [] OTHER -> n
        /\ todo' = [todo EXCEPT ![p] =
                       rest \o (IF new /\ ~ late THEN <<Getheaders(index.best, b)>> ELSE <<>>)
                            \o (IF new /\ ~ late /\ fetch THEN <<Getdata(b)>> ELSE <<>>)]
        /\ UNCHANGED index

\* ProcessMessages, for the next message of a peer.
Receive(p) ==
    /\ Live(p) /\ todo[p] # <<>>
    /\ UNCHANGED connects
    /\ LET m == Head(todo[p])
           rest == Tail(todo[p])
           hs == IF m.type = "getheaders" THEN Headers(p, m.from, m.stop) ELSE m.hs
       IN  \/ /\ m.type = "getheaders" /\ HeadersMessage(p, hs, rest)
              /\ peer' = [peer EXCEPT ![p].sent =
                    IF hs # <<>> /\ (Len(hs) = MAX_HEADERS_RESULTS \/ Last(hs) = m.stop)
                    THEN Last(hs) ELSE TipOf(p)]
           \/ m.type = "headers" /\ HeadersMessage(p, hs, rest) /\ UNCHANGED peer
           \/ m.type = "getdata" /\ BlockMessage(p, m.hash, rest) /\ UNCHANGED peer
           \/ m.type = "inv" /\ InvMessage(p, m.hash, rest) /\ UNCHANGED peer

\* A request that is not answered.
Ignore(p) ==
    /\ p \notin scene.honest /\ Live(p) /\ todo[p] # <<>>
    /\ todo' = [todo EXCEPT ![p] = Tail(@)]
    /\ UNCHANGED <<index, net, peer, connects>>

\* A block that was not asked for.
Push(p) ==
    /\ p \in scene.pushing /\ Live(p) /\ todo[p] = <<>>
    /\ \E b \in Ancestors[TipOf(p)] \ index.data : BlockMessage(p, b, <<>>)
    /\ UNCHANGED <<peer, connects>>

\* How the peer, which runs the same code, announces a new tip.
Announce(p, old, new) ==
    LET path == PathTo(LastCommonAncestor(old, new), new)
        news == SelectSeq(path, LAMBDA b : b \notin HasHeader(p))
    IN  IF Prev[Head(news)] \in HasHeader(p) THEN [type |-> "headers", hs |-> news]
        ELSE Inv(new)

\* A peer has a new tip; the announcement may overtake requests it has not read.
NewTip(p) ==
    /\ peer[p].tip < Len(scene.tips[p])
    /\ LET new == scene.tips[p][peer[p].tip + 1]
           m == Announce(p, TipOf(p), new)
       IN  IF Live(p)
           THEN /\ \/ todo' = [todo EXCEPT ![p] = Append(@, m)]
                   \/ /\ todo[p] # <<>> /\ ~ Announcement(Head(todo[p]))
                      /\ todo' = [todo EXCEPT ![p] = <<m>> \o @]
                /\ peer' = [peer EXCEPT ![p] =
                      [tip |-> @.tip + 1, sent |-> IF m.type = "headers" THEN new ELSE @.sent]]
           ELSE peer' = [peer EXCEPT ![p].tip = @ + 1] /\ UNCHANGED todo
    /\ UNCHANGED <<index, net, connects>>

(***************************************************************************)
(* SendMessages.                                                           *)
(***************************************************************************)

\* "Only actively request headers from a single peer, unless we're close to end of
\* initial download."
StartSync(p) ==
    /\ ~ net.node[p].fSyncStarted /\ p \notin scene.client
    /\ \/ /\ net.nSyncStarted = 0
          /\ net.node[p].fPreferredDownload \/ net.nPreferredDownload = 0
       \/ index.best \in scene.close

Stalling(s) == s.stallingAge > StallingTimeout

\* Faulty: a peer that does not send a block it was asked for is kept.
TimedOut_Never(n, s) == FALSE

TimedOut(n, s) ==
    /\ s.vBlocksInFlight # <<>>
    /\ s.downloadingAge > DownloadTimeoutBase + DownloadTimeoutPerPeer
           * (n.nPeersWithValidatedDownloads - One(s.nBlocksInFlightValidHeaders > 0))

\* Faulty: the peer the headers are asked of is kept.
HeadersTimedOut_Never(n, s) == FALSE

HeadersTimedOut(n, s) ==
    /\ s.fSyncStarted /\ s.headersAge # Never /\ index.best \notin scene.close
    /\ s.headersAge > HeadersTimeout
    /\ n.nSyncStarted = 1 /\ n.nPreferredDownload - One(s.fPreferredDownload) >= 1

\* The blocks to ask p for, the peer that holds p up, and the node state after.
Download(n, p) ==
    LET w == FindNextBlocksToDownload(n, index, p)
        m == InFlightFrom([n EXCEPT !.node[p].pindexLastCommonBlock = w.common], p, w.blocks)
        stall == /\ m.node[p].nBlocksInFlight = 0 /\ w.staller # NoPeer
                 /\ w.staller # NoPeer => m.node[w.staller].stallingAge = Never
    IN  [net |-> IF stall THEN [m EXCEPT !.node[w.staller].stallingAge = 0] ELSE m,
         blocks |-> w.blocks]

\* The state of the node and the requests to the peer after SendMessages.
Sent(p) ==
    LET start == StartSync(p)
        near == index.best \in scene.near
        r == ProcessBlockAvailability(index, net.node[p])
        s == [r EXCEPT !.fShouldBan = FALSE,
                       !.fSyncStarted = @ \/ start,
                       !.headersAge = IF start THEN 0 ELSE @,
                       !.vBlockHashesFromINV = IF near THEN <<>> ELSE @]
        n == [net EXCEPT !.node[p] = s, !.nSyncStarted = @ + One(start)]
        close == s.fSyncStarted /\ index.best \in scene.close
        late == HeadersTimedOut(n, s)
        reset == late /\ p \in scene.white
        gone == \/ net.node[p].fShouldBan /\ p \notin scene.white
                \/ Stalling(s) \/ TimedOut(n, s) \/ (late /\ ~ reset)
        m == [n EXCEPT !.node[p].fDisconnect = gone,
                       !.node[p].fSyncStarted = @ /\ ~ reset,
                       !.nSyncStarted = @ - One(reset),
                       !.node[p].headersAge =
                           IF reset THEN 0 ELSE IF close THEN Never ELSE @]
        d == IF gone \/ p \in scene.client
                \/ s.nBlocksInFlight >= MAX_BLOCKS_IN_TRANSIT_PER_PEER
             THEN [net |-> m, blocks |-> <<>>] ELSE Download(m, p)
        delayed == IF near THEN net.node[p].vBlockHashesFromINV ELSE <<>>
    IN  [net |-> d.net,
         todo |-> todo[p]
                  \o (IF start THEN <<Getheaders(Prev[index.best], NoBlock)>> ELSE <<>>)
                  \o [i \in DOMAIN delayed |-> Getheaders(index.best, delayed[i])]
                  \o Getdatas(d.blocks)]

SendMessages(p) ==
    /\ Live(p)
    /\ UNCHANGED <<index, peer, connects>>
    /\ \E r \in {Sent(p)} : net' = r.net /\ todo' = [todo EXCEPT ![p] = r.todo]

\* Time passes; honest peers answer in less.
Tick ==
    /\ \A p \in scene.honest : Live(p) => todo[p] = <<>>
    /\ LET Older(age, limit) == IF age = limit + 1 THEN age ELSE age + 1
           longest == DownloadTimeoutBase + DownloadTimeoutPerPeer * Cardinality(Peer)
       IN  net' = [net EXCEPT !.node = [p \in Nodes |->
              [@[p] EXCEPT
                !.stallingAge = IF @ = Never THEN @ ELSE Older(@, StallingTimeout),
                !.downloadingAge = IF net.node[p].vBlocksInFlight = <<>> THEN @
                                   ELSE Older(@, longest),
                !.headersAge = IF @ = Never \/ ~ net.node[p].fSyncStarted THEN @
                               ELSE Older(@, HeadersTimeout)]]]
    /\ UNCHANGED <<index, todo, peer, connects>>

Next ==
    /\ UNCHANGED scene
    /\ \/ Tick
       \/ \E p \in scene.peers :
             \/ InitializeNode(p) \/ Handshake(p) \/ HangUp(p) \/ FinalizeNode(p)
             \/ Receive(p) \/ Ignore(p) \/ Push(p) \/ NewTip(p) \/ SendMessages(p)

Spec == Init /\ [][Next]_vars

\* SendMessages has something to do, and a message of an honest peer is to come.
ToSend(p) == IF Live(p) THEN Sent(p) # [net |-> net, todo |-> todo[p]] ELSE FALSE

ToReceive(p) == p \in scene.honest /\ Live(p) /\ todo[p] # <<>>

\* The message thread serves every peer and the socket thread removes the ones to be
\* disconnected; honest peers connect, answer and announce their blocks.  (The two
\* disjunctions are weak fairness, with ToSend and ToReceive for ENABLED.)
Fairness ==
    /\ WF_vars(UNCHANGED scene /\ Tick)
    /\ \A p \in Peer :
          /\ []<>(~ ToSend(p)) \/ []<><<SendMessages(p)>>_vars
          /\ []<>(~ ToReceive(p)) \/ []<><<Receive(p)>>_vars
          /\ WF_vars(UNCHANGED scene /\ FinalizeNode(p))
          /\ WF_vars(UNCHANGED scene /\ p \in scene.honest /\ (InitializeNode(p) \/ Handshake(p)))
          /\ WF_vars(UNCHANGED scene /\ p \in scene.honest /\ NewTip(p))

FairSpec == Spec /\ Fairness

(***************************************************************************)
(* Properties.                                                             *)
(***************************************************************************)

\* The variables have the types their declarations give them.
TypeOK ==
    /\ index.tip \in index.data /\ index.data \subseteq index.headers
    /\ index.headers \subseteq Block /\ index.failed \subseteq index.headers
    /\ Nodes \subseteq scene.peers

\* mapBlocksInFlight, whose entries are iterators into the lists of the peers, has
\* exactly the blocks of these lists, none twice, and every counter counts them:
\* the assertions of FinalizeNode hold whenever the last peer leaves.
InFlightExact ==
    /\ \A b \in Block : net.inFlight[b] # NoPeer =>
          /\ net.inFlight[b] \in Nodes
          /\ \E e \in Range(net.node[net.inFlight[b]].vBlocksInFlight) : e.hash = b
    /\ \A p \in Nodes :
          LET s == net.node[p] IN
          /\ \A e \in Range(s.vBlocksInFlight) : net.inFlight[e.hash] = p
          /\ IsInjective(s.vBlocksInFlight)
          /\ s.nBlocksInFlight = Len(s.vBlocksInFlight)
          /\ s.nBlocksInFlight <= MAX_BLOCKS_IN_TRANSIT_PER_PEER
          /\ s.nBlocksInFlightValidHeaders =
                Len(SelectSeq(s.vBlocksInFlight, LAMBDA e : e.fValidatedHeaders))
    /\ net.nPeersWithValidatedDownloads =
          Cardinality({p \in Nodes : net.node[p].nBlocksInFlightValidHeaders > 0})
    /\ net.nPreferredDownload = Cardinality({p \in Nodes : net.node[p].fPreferredDownload})
    /\ net.nSyncStarted = Cardinality({p \in Nodes : net.node[p].fSyncStarted})

\* A peer is blamed for stalling only while it owes a block, and the last common
\* block is one whose ancestors have all been received.
BlameAndWindowSound ==
    \A p \in Nodes :
        LET s == net.node[p] IN
        /\ s.stallingAge # Never => s.vBlocksInFlight # <<>>
        /\ s.pindexLastCommonBlock # NoBlock => Linked(index, s.pindexLastCommonBlock)

\* With an honest peer, the node arrives at a chain with as much work as the chain
\* of that peer, whatever headers, blocks and silences the other peers send.  (A
\* whitelisted peer is never disconnected for its silence, and may be asked for the
\* headers again and again unless the threads take turns.)
CaughtUp ==
    scene.white = {} =>
        \A p \in scene.honest : Height[index.tip] >= Height[Last(scene.tips[p])]
DownloadCompletes == <>[]CaughtUp

=============================================================================
