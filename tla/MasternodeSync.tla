--------------------------- MODULE MasternodeSync ---------------------------
(***************************************************************************)
(* Synchronisation of masternode data (CMasternodeSync,                    *)
(* src/src/masternode-sync.cpp) with the record of what was asked of whom  *)
(* (CNetFulfilledRequestManager, src/src/netfulfilledman.cpp).             *)
(*                                                                         *)
(* Two threads share the object without a lock: the PrivateSend thread     *)
(* calls ProcessTick, which visits the peers one by one, and the message   *)
(* thread delivers headers, blocks and data.  A visit to a peer is one     *)
(* step, UpdatedBlockTip is two, so the two threads interleave.  Clocks    *)
(* are ages: the time since an event, counted up to where it matters.      *)
(***************************************************************************)
EXTENDS Integers, FiniteSets

CONSTANTS
    Peer,
    Skipped,     \* peers with fMasternode, or inbound to a masternode
    OldProto,    \* peers whose version is too old for the assets
    Timeout,     \* MASTERNODE_SYNC_TIMEOUT_SECONDS
    Cooldown,    \* the minute after a failure
    TimelyTicks, \* whether ProcessTick keeps up with the clock
    MaxEvents    \* bound on headers, blocks, data, sleeps and RPC calls

FAILED == -1
INITIAL == 0
WAITING == 1
LIST == 2
MNW == 3
GOVERNANCE == 4
FINISHED == 999

\* "spork-sync" only decides whether a message is sent and is left out.
Request == {"masternode-list-sync", "masternode-payment-sync",
            "governance-sync", "full-sync"}
Unset == -1      \* nTimeNoObjectsLeft = 0

VARIABLES
    asset,       \* nRequestedMasternodeAssets
    attempt,     \* nRequestedMasternodeAttempt, counted up to 2
    startAge,    \* time since nTimeAssetSyncStarted
    bumpAge,     \* ... nTimeLastBumped
    failAge,     \* ... nTimeLastFailure
    noObjectsAge,\* ... the static nTimeNoObjectsLeft, or Unset
    checked,     \* the static nLastTick is the present tick
    slept,       \* more than an hour since the static nTimeLastProcess
    fulfilled,   \* pairs of a peer and a request, not expired
    connected,   \* peers in vNodes
    toVisit,     \* peers the present ProcessTick has still to visit
    ticked,      \* ProcessTick was called in this unit of time (six seconds)
    restarting,  \* threads between Reset() and SwitchToNextAsset()
    ibd,         \* IsInitialBlockDownload()
    reached,     \* the static fReachedBestHeader
    tip,         \* UpdatedBlockTip between its tests and its effects: "none",
                 \* "best", "behind"
    asked,       \* peers asked for the present asset (history)
    threw,       \* SwitchToNextAsset has thrown (history)
    events

sync == <<asset, attempt, startAge, bumpAge, failAge>>
vars == <<sync, noObjectsAge, checked, slept, fulfilled, connected, toVisit,
          ticked, restarting, ibd, reached, tip, asked, threw, events>>

IsFailed == asset = FAILED
IsSynced == asset = FINISHED
IsBlockchainSynced == asset > WAITING

Fail ==
    /\ asset' = FAILED
    /\ failAge' = 0
    /\ UNCHANGED <<attempt, startAge, bumpAge, asked, fulfilled, threw>>

\* Faulty: a failed synchronisation stays failed.
Reset_KeepsFailed ==
    /\ asset' = IF IsFailed THEN FAILED ELSE INITIAL
    /\ attempt' = 0
    /\ startAge' = 0 /\ bumpAge' = 0
    /\ failAge' = Cooldown + 1
    /\ asked' = {}
    /\ UNCHANGED <<fulfilled, threw>>

Reset ==
    /\ asset' = INITIAL
    /\ attempt' = 0
    /\ startAge' = 0 /\ bumpAge' = 0
    /\ failAge' = Cooldown + 1
    /\ asked' = {}
    /\ UNCHANGED <<fulfilled, threw>>

\* ClearFulfilledRequests: for the peers that are connected now.
Cleared == {x \in fulfilled : x[1] \notin connected}

NextAsset(a) ==
    CASE a = INITIAL -> WAITING
      [] a = WAITING -> LIST
      [] a = LIST -> MNW
      [] a = MNW -> GOVERNANCE
      [] OTHER -> FINISHED

\* BumpAssetLastTime
Bump == bumpAge' = IF IsSynced \/ IsFailed THEN bumpAge ELSE 0

\* SwitchToNextAsset from the asset a, which is not FAILED.
SwitchFrom(a) ==
    /\ asset' = NextAsset(a)
    /\ attempt' = 0
    /\ startAge' = 0 /\ asked' = {}
    /\ bumpAge' = IF NextAsset(a) = FINISHED THEN bumpAge ELSE 0
    /\ fulfilled' = CASE a \in {INITIAL, WAITING} -> Cleared
                      [] a = GOVERNANCE -> fulfilled \cup (connected \X {"full-sync"})
                      [] OTHER -> fulfilled
    /\ UNCHANGED <<failAge, threw>>

SwitchToNextAsset ==
    \/ asset # FAILED /\ SwitchFrom(asset)
    \/ asset = FAILED /\ threw' = TRUE /\ UNCHANGED <<sync, asked, fulfilled>>

-----------------------------------------------------------------------------
\* ProcessTick up to the loop over the peers.
TickStart ==
    /\ ~ ticked /\ toVisit = {} /\ "tick" \notin restarting
    /\ ticked' = TRUE
    /\ slept' = FALSE
    /\ checked' = FALSE
    /\ \/ /\ slept \/ (IsFailed /\ failAge > Cooldown)
          /\ Reset
          /\ restarting' = restarting \cup {"tick"}
          /\ UNCHANGED toVisit
       \/ /\ ~ slept /\ ~ IsFailed /\ ~ IsSynced
          /\ toVisit' = connected
          /\ UNCHANGED <<sync, asked, fulfilled, threw, restarting>>
       \/ /\ ~ slept /\ (IsSynced \/ (IsFailed /\ failAge <= Cooldown))
          /\ UNCHANGED <<sync, asked, fulfilled, threw, restarting, toVisit>>
    /\ UNCHANGED <<noObjectsAge, connected, ibd, reached, tip, events>>

\* The call of SwitchToNextAsset that follows a Reset.
RestartSwitch(thread) ==
    /\ thread \in restarting
    /\ restarting' = restarting \ {thread}
    /\ SwitchToNextAsset
    /\ UNCHANGED <<ticked, noObjectsAge, checked, slept, connected, toVisit, ibd,
                   reached, tip, events>>

Has(p, r) == <<p, r>> \in fulfilled

\* The return statements in the loop.
EndTick == toVisit' = {}

\* continue: the next peer.
NextPeer(p) == toVisit' = toVisit \ {p}

\* The request of the present asset is sent to p, unless it was before; only a
\* peer with a new protocol counts as an attempt and ends the tick.
Ask(p, r) ==
    /\ fulfilled' = fulfilled \cup {<<p, r>>}
    /\ IF p \in OldProto
       THEN NextPeer(p) /\ UNCHANGED <<attempt, asked>>
       ELSE /\ EndTick
            /\ attempt' = IF attempt = 2 THEN 2 ELSE attempt + 1
            /\ asked' = asked \cup {p}
    /\ UNCHANGED <<asset, startAge, bumpAge, failAge, threw>>

\* Faulty: a stage without any answering peer is not a failure.
TimedOut_NoFail(mustHave) ==
    /\ EndTick
    /\ SwitchToNextAsset

\* Faulty: a stage that times out is not left.
TimedOut_Stays(mustHave) ==
    /\ EndTick
    /\ IF mustHave /\ attempt = 0 THEN Fail
       ELSE UNCHANGED <<sync, asked, fulfilled, threw>>

\* A stage has timed out.  Without the list or the votes of a single peer there
\* is no way to go on.
TimedOut(mustHave) ==
    /\ EndTick
    /\ IF mustHave /\ attempt = 0 THEN Fail ELSE SwitchToNextAsset

\* The part of the loop body for LIST.
VisitList(p) ==
    \/ /\ bumpAge > Timeout
       /\ TimedOut(TRUE)
    \/ /\ bumpAge <= Timeout /\ Has(p, "masternode-list-sync")
       /\ NextPeer(p)
       /\ UNCHANGED <<sync, fulfilled, asked, threw>>
    \/ /\ bumpAge <= Timeout /\ ~ Has(p, "masternode-list-sync")
       /\ Ask(p, "masternode-list-sync")

\* ... for MNW.  Whether mnpayments.IsEnoughData() is not modelled.
VisitMnw(p) ==
    \/ /\ bumpAge > Timeout
       /\ TimedOut(TRUE)
    \/ /\ bumpAge <= Timeout /\ attempt > 1      \* and enough data
       /\ EndTick
       /\ SwitchToNextAsset
    \/ /\ bumpAge <= Timeout /\ Has(p, "masternode-payment-sync")
       /\ NextPeer(p)
       /\ UNCHANGED <<sync, fulfilled, asked, threw>>
    \/ /\ bumpAge <= Timeout /\ ~ Has(p, "masternode-payment-sync")
       /\ Ask(p, "masternode-payment-sync")

\* All objects were asked for and votes have stopped coming.
GovernanceDone ==
    /\ noObjectsAge > Timeout /\ ~ checked
    /\ noObjectsAge' = Unset
    /\ EndTick
    /\ SwitchToNextAsset
    /\ UNCHANGED checked

\* ... for GOVERNANCE.  How many objects are left to ask is not modelled.
VisitGovernance(p) ==
    \/ /\ bumpAge > Timeout
       /\ TimedOut(FALSE)
       /\ UNCHANGED <<noObjectsAge, checked>>
    \/ /\ bumpAge <= Timeout /\ Has(p, "governance-sync")
       /\ \/ GovernanceDone
          \/ /\ \/ UNCHANGED <<noObjectsAge, checked>>          \* some left
                \/ /\ noObjectsAge' = IF noObjectsAge = Unset THEN 0
                                      ELSE noObjectsAge
                   /\ checked' = TRUE
             /\ NextPeer(p)
             /\ UNCHANGED <<sync, fulfilled, asked, threw>>
    \/ /\ bumpAge <= Timeout /\ ~ Has(p, "governance-sync")
       /\ Ask(p, "governance-sync")
       /\ UNCHANGED <<noObjectsAge, checked>>

\* The body of the loop for one peer.
Visit(p) ==
    \/ /\ p \in Skipped
       /\ NextPeer(p)
       /\ UNCHANGED <<sync, noObjectsAge, checked, fulfilled, asked, threw, connected>>
    \/ /\ p \notin Skipped /\ Has(p, "full-sync")
       /\ NextPeer(p)
       /\ connected' = connected \ {p}      \* fDisconnect
       /\ UNCHANGED <<sync, noObjectsAge, checked, fulfilled, asked, threw>>
    \/ /\ p \notin Skipped /\ ~ Has(p, "full-sync")
       /\ UNCHANGED connected
       /\ \/ /\ asset = WAITING /\ bumpAge > Timeout
             \* SwitchToNextAsset, then the part for LIST
             /\ asset' = LIST
             /\ startAge' = 0 /\ bumpAge' = 0
             /\ fulfilled' = Cleared \cup {<<p, "masternode-list-sync">>}
             /\ IF p \in OldProto
                THEN NextPeer(p) /\ attempt' = 0 /\ asked' = {}
                ELSE EndTick /\ attempt' = 1 /\ asked' = {p}
             /\ UNCHANGED <<failAge, threw, noObjectsAge, checked>>
          \/ /\ asset = LIST /\ VisitList(p)
             /\ UNCHANGED <<noObjectsAge, checked>>
          \/ /\ asset = MNW /\ VisitMnw(p)
             /\ UNCHANGED <<noObjectsAge, checked>>
          \/ /\ asset = GOVERNANCE /\ VisitGovernance(p)
          \/ /\ \/ asset \in {FAILED, INITIAL, FINISHED}
                \/ asset = WAITING /\ bumpAge <= Timeout
             /\ NextPeer(p)
             /\ UNCHANGED <<sync, fulfilled, asked, threw, noObjectsAge, checked>>

TickPeer(p) ==
    /\ p \in toVisit
    /\ Visit(p)
    /\ UNCHANGED <<ticked, slept, restarting, ibd, reached, tip, events>>

-----------------------------------------------------------------------------
\* The message thread.

Event == events < MaxEvents /\ events' = events + 1

\* AcceptedBlockHeader and NotifyHeaderTip (before the chain is synchronised),
\* and every BumpAssetLastTime of arriving masternode data.
Arrival ==
    /\ Event
    /\ tip = "none"
    /\ Bump
    /\ UNCHANGED <<ticked, asset, attempt, startAge, failAge, noObjectsAge, checked,
                   slept, fulfilled, connected, toVisit, restarting, ibd, reached, tip,
                   asked, threw>>

\* UpdatedBlockTip during initial download: complete.
TipInitialDownload ==
    /\ Event
    /\ tip = "none" /\ ibd /\ ~ IsFailed /\ ~ IsSynced
    /\ IF IsBlockchainSynced
       THEN Reset
       ELSE Bump /\ UNCHANGED <<asset, attempt, startAge, failAge, asked,
                                fulfilled, threw>>
    /\ UNCHANGED <<ticked, noObjectsAge, checked, slept, connected, toVisit, restarting, ibd,
                   reached, tip>>

\* UpdatedBlockTip after it: the tests and the bump at its beginning.
TipTests(best) ==
    /\ Event
    /\ tip = "none" /\ ~ ibd /\ ~ IsFailed /\ ~ IsSynced
    /\ IF IsBlockchainSynced THEN UNCHANGED bumpAge ELSE Bump
    /\ tip' = best
    /\ UNCHANGED <<ticked, asset, attempt, startAge, failAge, noObjectsAge, checked,
                   slept, fulfilled, connected, toVisit, restarting, ibd, reached, asked,
                   threw>>

\* ... the rest of it.
TipEffects ==
    /\ tip # "none"
    /\ tip' = "none"
    /\ reached' = (tip = "best")
    /\ \/ /\ reached /\ tip = "behind"
          /\ Reset
       \/ /\ ~ (reached /\ tip = "behind")
          /\ IF tip = "best" /\ ~ IsBlockchainSynced
             THEN SwitchToNextAsset
             ELSE UNCHANGED <<sync, asked, fulfilled, threw>>
    /\ UNCHANGED <<noObjectsAge, checked, slept, connected, toVisit, ticked,
                   restarting, ibd, events>>

\* The chain is near its tip: initial download is over for good.
LeaveInitialDownload ==
    /\ ibd /\ tip = "none"
    /\ ibd' = FALSE
    /\ UNCHANGED <<ticked, sync, noObjectsAge, checked, slept, fulfilled, connected,
                   toVisit, restarting,
                   reached, tip, asked, threw, events>>

\* mnsync next and mnsync reset.
RpcNext ==
    /\ Event
    /\ ~ IsFailed
    /\ SwitchToNextAsset
    /\ UNCHANGED <<ticked, noObjectsAge, checked, slept, connected, toVisit, restarting, ibd,
                   reached, tip>>

RpcReset ==
    /\ Event
    /\ "rpc" \notin restarting
    /\ restarting' = restarting \cup {"rpc"}
    /\ Reset
    /\ UNCHANGED <<ticked, noObjectsAge, checked, slept, connected, toVisit, ibd,
                   reached, tip>>

Connect(p) ==
    /\ p \notin connected
    /\ connected' = connected \cup {p}
    /\ UNCHANGED <<ticked, sync, noObjectsAge, checked, slept, fulfilled, toVisit, restarting, ibd,
                   reached, tip, asked, threw, events>>

Disconnect(p) ==
    /\ Event
    /\ p \in connected
    /\ connected' = connected \ {p}
    /\ UNCHANGED <<ticked, sync, noObjectsAge, checked, slept, fulfilled, toVisit,
                   restarting, ibd, reached, tip, asked, threw>>

\* A request expires (CheckAndRemove, or the comparison in HasFulfilledRequest).
Expire(x) ==
    /\ x \in fulfilled
    /\ fulfilled' = fulfilled \ {x}
    /\ UNCHANGED <<ticked, sync, noObjectsAge, checked, slept, connected, toVisit,
                   restarting, ibd, reached, tip, asked, threw, events>>

Older(a, bound) == IF a > bound THEN a ELSE a + 1

Time ==
    /\ TimelyTicks => ticked /\ toVisit = {} /\ restarting = {}
    /\ ticked' = FALSE
    /\ startAge' = Older(startAge, Timeout)
    /\ bumpAge' = Older(bumpAge, Timeout)
    /\ failAge' = Older(failAge, Cooldown)
    /\ noObjectsAge' = IF noObjectsAge = Unset THEN Unset
                       ELSE Older(noObjectsAge, Timeout)
    /\ UNCHANGED <<asset, attempt, checked, slept, fulfilled, connected,
                   toVisit, restarting, ibd, reached, tip, asked, threw, events>>

\* The machine is suspended for more than an hour.
Sleep ==
    /\ Event
    /\ slept' = TRUE
    /\ startAge' = Timeout + 1
    /\ bumpAge' = Timeout + 1
    /\ failAge' = Cooldown + 1
    /\ noObjectsAge' = IF noObjectsAge = Unset THEN Unset ELSE Timeout + 1
    /\ UNCHANGED <<ticked, asset, attempt, checked, fulfilled, connected, toVisit, restarting, ibd,
                   reached, tip, asked, threw>>

Init ==
    /\ asset = INITIAL /\ attempt = 0
    /\ startAge = 0 /\ bumpAge = 0 /\ failAge = Cooldown + 1
    /\ noObjectsAge = Unset /\ checked = FALSE /\ slept = FALSE
    /\ fulfilled = {}
    /\ connected = Peer
    /\ toVisit = {} /\ restarting = {} /\ ticked = FALSE
    /\ ibd \in BOOLEAN
    /\ reached = FALSE /\ tip = "none"
    /\ asked = {} /\ threw = FALSE /\ events = 0

Next ==
    \/ TickStart
    \/ \E thread \in {"tick", "rpc"} : RestartSwitch(thread)
    \/ \E p \in Peer : TickPeer(p)
    \/ Arrival
    \/ TipInitialDownload
    \/ \E best \in {"best", "behind"} : TipTests(best)
    \/ TipEffects
    \/ LeaveInitialDownload
    \/ RpcNext
    \/ RpcReset
    \/ \E p \in Peer : Connect(p) \/ Disconnect(p)
    \/ \E x \in Peer \X Request : Expire(x)
    \/ Time
    \/ Sleep

Spec == Init /\ [][Next]_vars

\* The threads keep running, time passes, requests expire and peers come back.
Fairness ==
    /\ WF_vars(TickStart)
    /\ \A thread \in {"tick", "rpc"} : WF_vars(RestartSwitch(thread))
    /\ WF_vars(\E p \in Peer : TickPeer(p))
    /\ WF_vars(TipEffects)
    /\ WF_vars(Time)
    /\ \A p \in Peer : WF_vars(Connect(p))
    /\ \A x \in Peer \X Request : WF_vars(Expire(x))
FairSpec == Spec /\ Fairness

-----------------------------------------------------------------------------
\* Properties.

Tick == \E p \in Peer : TickPeer(p)

\* Every variable has its type; only peers that can answer are counted.
TypeOK ==
    /\ asset \in {FAILED, INITIAL, WAITING, LIST, MNW, GOVERNANCE, FINISHED}
    /\ attempt \in 0..2
    /\ startAge \in 0..(Timeout + 1) /\ bumpAge \in 0..(Timeout + 1)
    /\ failAge \in 0..(Cooldown + 1)
    /\ noObjectsAge \in {Unset} \cup 0..(Timeout + 1)
    /\ fulfilled \subseteq Peer \X Request
    /\ toVisit \subseteq Peer /\ connected \subseteq Peer
    /\ asked \subseteq Peer \ (Skipped \cup OldProto)

\* "there is no way we can continue without masternode list": ProcessTick never
\* leaves the list or the payment votes for the next asset before it has asked
\* a peer for them in this very round, whatever the message thread does.
AskedBeforeNext ==
    [][Tick /\ asset \in {LIST, MNW} /\ asset' = NextAsset(asset) => asked # {}]_vars

\* "it should timeout eventually": with a peer that can answer, and once headers,
\* blocks and data stop arriving, the synchronisation ends, or waits in INITIAL
\* for the next block.  It is not stuck in a stage or failing for ever.
Settled == asset \in {INITIAL, FINISHED}
SyncFinishes == <>[]Settled

\* "Can't switch to next asset from failed, should use Reset() first!": the thread
\* of ProcessTick is never ended by this exception, although other threads reset
\* and advance the synchronisation between its steps.  (UpdatedBlockTip and
\* "mnsync reset" may throw, when ProcessTick fails between their two steps.)
TickNeverThrows ==
    [][TickStart \/ Tick \/ RestartSwitch("tick") => threw' = threw]_vars

\* What ProcessTick never does while other threads reset and advance the
\* synchronisation between its steps: leave a stage unasked, or throw.
TickSafe == AskedBeforeNext /\ TickNeverThrows
=============================================================================
