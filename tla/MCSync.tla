------------------------------- MODULE MCSync -------------------------------
(***************************************************************************)
(* The two ways in which a node catches up with its peers, MasternodeSync  *)
(* and BlockDownload, on small instances.  They have no state in common,   *)
(* so that a behaviour exercises one of them, named by focus, while the    *)
(* other rests.                                                            *)
(***************************************************************************)
EXTENDS MasternodeSync, TLC

CONSTANTS p1, p2, Block, Bad, NoBlock, NoPeer,
          MAX_HEADERS_RESULTS, MAX_BLOCKS_IN_TRANSIT_PER_PEER, BLOCK_DOWNLOAD_WINDOW,
          StallingTimeout, DownloadTimeoutBase, DownloadTimeoutPerPeer, HeadersTimeout,
          MaxConnects

VARIABLES focus, index, net, todo, peer, connects, scene

\* A chain 0, 1, 2, 3 and a fork 1, 4, 5.
Prev == (0 :> 0) @@ (1 :> 0) @@ (2 :> 1) @@ (3 :> 2) @@ (4 :> 1) @@ (5 :> 4)

Old == [tip |-> 1, peers |-> {p1, p2}, honest |-> {p2}, inbound |-> {}, client |-> {},
        white |-> {}, pushing |-> {}, direct |-> {}, close |-> {3}, near |-> {3},
        tips |-> (p1 :> <<3>>) @@ (p2 :> <<3>>)]

Alone == [Old EXCEPT !.peers = {}, !.honest = {}]

Recent == [Old EXCEPT !.inbound = {p1}, !.direct = Block, !.close = Block, !.near = Block]

Scenes ==
    {\* The initial download, from a peer that need not answer and one that does and
     \* whose last block is found meanwhile.
     [Old EXCEPT !.tip = 0, !.tips[p2] = <<2, 3>>],
     \* A whitelisted peer with an old chain, and a peer that has no blocks to serve.
     [Old EXCEPT !.honest = {p1, p2}, !.white = {p1}, !.tips[p1] = <<2>>],
     [Old EXCEPT !.client = {p1}],
     \* Near the tip, a fork with a bad block that is announced or sent unasked.
     [Recent EXCEPT !.tips[p1] = <<5>>, !.tips[p2] = <<2, 3>>],
     [Recent EXCEPT !.tips[p1] = <<5>>, !.pushing = {p1}],
     \* No peers.
     Alone}

Dl == INSTANCE BlockDownload

dlVars == <<index, net, todo, peer, connects, scene>>

InSync == focus = "masternodes"
InDownload == focus = "blocks"

MCInit ==
    /\ focus \in {"masternodes", "blocks"}
    /\ Init /\ (InDownload => ~ ibd)
    /\ Dl!Init /\ (InSync => scene = Alone)

MCNext ==
    /\ UNCHANGED focus
    /\ \/ InSync /\ Next /\ UNCHANGED dlVars
       \/ InDownload /\ Dl!Next /\ UNCHANGED vars

\* With the fairness of the two specifications.
MCSpec ==
    /\ MCInit /\ [][MCNext]_<<focus, vars, dlVars>>
    /\ WF_vars(InSync /\ TickStart)
    /\ \A thread \in {"tick", "rpc"} : WF_vars(InSync /\ RestartSwitch(thread))
    /\ WF_vars(InSync /\ \E p \in Peer : TickPeer(p))
    /\ WF_vars(InSync /\ TipEffects)
    /\ WF_vars(InSync /\ Time)
    /\ \A p \in Peer : WF_vars(InSync /\ Connect(p))
    /\ \A x \in Peer \X Request : WF_vars(InSync /\ Expire(x))
    /\ WF_dlVars(InDownload /\ UNCHANGED scene /\ Dl!Tick)
    /\ \A p \in Peer :
          /\ \/ []<>(~ (InDownload /\ Dl!ToSend(p)))
             \/ []<><<InDownload /\ Dl!SendMessages(p)>>_dlVars
          /\ \/ []<>(~ (InDownload /\ Dl!ToReceive(p)))
             \/ []<><<InDownload /\ Dl!Receive(p)>>_dlVars
          /\ WF_dlVars(InDownload /\ UNCHANGED scene /\ Dl!FinalizeNode(p))
          /\ WF_dlVars(/\ InDownload /\ UNCHANGED scene /\ p \in scene.honest
                       /\ Dl!InitializeNode(p) \/ Dl!Handshake(p))
          /\ WF_dlVars(/\ InDownload /\ UNCHANGED scene /\ p \in scene.honest
                       /\ Dl!NewTip(p))

\* BlockDownload: the map of blocks in flight and the lists and counters of the peers
\* agree, so that the iterators it holds are valid and the assertions of FinalizeNode
\* hold; a peer is blamed for stalling only while it owes a block; and the block from
\* which the download goes on has all its ancestors.
DownloadSound ==
    InDownload => Dl!TypeOK /\ Dl!InFlightExact /\ Dl!BlameAndWindowSound

\* A node catches up.  MasternodeSync: once headers, blocks and data stop arriving the
\* synchronisation ends, or waits for the next block.  BlockDownload: the node arrives
\* at a chain with as much work as that of an honest peer, whatever the other peer
\* sends or leaves unanswered.
CatchesUp == <>[](Settled /\ (InDownload => Dl!CaughtUp))
=============================================================================
