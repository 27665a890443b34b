------------------------ MODULE MasternodeSyncProofs ------------------------
(***************************************************************************)
(* What ProcessTick never does, for any set of peers, any timeouts and any *)
(* number of events, whether or not the ticks are timely.                  *)
(***************************************************************************)
EXTENDS MasternodeSync, TLAPS

\* The thread of ProcessTick alone can fail the synchronisation, and only while
\* it visits peers, which it does not between Reset and SwitchToNextAsset; and
\* an attempt is counted only together with the peer that was asked.
TickInv ==
    /\ "tick" \in restarting => toVisit = {} /\ asset # FAILED
    /\ attempt # 0 => asked # {}

-----------------------------------------------------------------------------
\* SwitchToNextAsset and Reset never fail the synchronisation, and forget the
\* attempts of the asset they leave.
LEMMA SwitchKeeps ==
    ASSUME TickInv, SwitchToNextAsset
    PROVE  /\ asset # FAILED => asset' # FAILED
           /\ attempt' # 0 => asked' # {}
<1>1. CASE asset # FAILED
    BY <1>1 DEF TickInv, SwitchToNextAsset, SwitchFrom, NextAsset,
       FAILED, INITIAL, WAITING, LIST, MNW, GOVERNANCE, FINISHED
<1>2. CASE asset = FAILED
    BY <1>2 DEF TickInv, SwitchToNextAsset, SwitchFrom, sync
<1> QED BY <1>1, <1>2

\* The stages of ProcessTick for one peer: an attempt is counted with its peer.
LEMMA VisitKeeps ==
    ASSUME TickInv, NEW p, Visit(p)
    PROVE  attempt' # 0 => asked' # {}
<1>1. \A mustHave \in BOOLEAN : TimedOut(mustHave) => (attempt' # 0 => asked' # {})
    BY SwitchKeeps DEF TimedOut, Fail, TickInv
<1>2. \A r : Ask(p, r) => (attempt' # 0 => asked' # {})
    BY DEF Ask, TickInv
<1>3. VisitList(p) => (attempt' # 0 => asked' # {})
    BY <1>1, <1>2, Zenon DEF VisitList, TickInv, sync
<1>4. VisitMnw(p) => (attempt' # 0 => asked' # {})
    BY <1>1, <1>2, SwitchKeeps, Zenon DEF VisitMnw, TickInv, sync
<1>5. VisitGovernance(p) => (attempt' # 0 => asked' # {})
    BY <1>1, <1>2, SwitchKeeps, Zenon DEF VisitGovernance, GovernanceDone, TickInv, sync
<1> QED BY <1>3, <1>4, <1>5 DEF Visit, TickInv, sync

LEMMA TickInvInit == Init => TickInv
  BY DEF Init, TickInv

LEMMA TickInvNext == TickInv /\ [Next]_vars => TickInv'
<1> SUFFICES ASSUME TickInv, [Next]_vars PROVE TickInv'
    OBVIOUS
<1>1. CASE TickStart
  <2>1. CASE Reset /\ restarting' = restarting \cup {"tick"} /\ UNCHANGED toVisit
      BY <1>1, <2>1 DEF TickStart, Reset, TickInv, FAILED, INITIAL
  <2>2. CASE UNCHANGED <<sync, asked, restarting>>
      BY <1>1, <2>2 DEF TickStart, TickInv, sync
  <2> QED BY <1>1, <2>1, <2>2 DEF TickStart
<1>2. ASSUME NEW thread \in {"tick", "rpc"}, RestartSwitch(thread) PROVE TickInv'
    BY <1>2, SwitchKeeps DEF RestartSwitch, TickInv
<1>3. ASSUME NEW p \in Peer, TickPeer(p) PROVE TickInv'
  <2>1. "tick" \notin restarting'
      BY <1>3 DEF TickPeer, TickInv
  <2> QED BY <2>1, <1>3, VisitKeeps DEF TickPeer, TickInv
<1>4. CASE TipInitialDownload
    BY <1>4 DEF TipInitialDownload, Reset, TickInv, FAILED, INITIAL
<1>5. CASE TipEffects
  <2>1. CASE Reset
      BY <1>5, <2>1 DEF TipEffects, Reset, TickInv, FAILED, INITIAL
  <2>2. CASE SwitchToNextAsset
      BY <1>5, <2>2, SwitchKeeps DEF TipEffects, TickInv
  <2>3. CASE UNCHANGED <<sync, asked>>
      BY <1>5, <2>3 DEF TipEffects, TickInv, sync
  <2> QED BY <1>5, <2>1, <2>2, <2>3 DEF TipEffects
<1>6. CASE RpcNext
    BY <1>6, SwitchKeeps DEF RpcNext, TickInv
<1>7. CASE RpcReset
    BY <1>7 DEF RpcReset, Reset, TickInv, FAILED, INITIAL
<1>8. CASE Arrival \/ (\E best \in {"best", "behind"} : TipTests(best))
           \/ LeaveInitialDownload \/ Time \/ Sleep
           \/ (\E p \in Peer : Connect(p) \/ Disconnect(p))
           \/ (\E x \in Peer \X Request : Expire(x))
    BY <1>8 DEF Arrival, TipTests, LeaveInitialDownload, Time, Sleep, Connect,
       Disconnect, Expire, TickInv, sync
<1>9. CASE UNCHANGED vars
    BY <1>9 DEF vars, sync, TickInv
<1> QED BY <1>1, <1>2, <1>3, <1>4, <1>5, <1>6, <1>7, <1>8, <1>9 DEF Next

\* ProcessTick leaves the list or the votes for the next asset only when it has
\* asked a peer for them, and never throws from SwitchToNextAsset, while other
\* threads reset and advance the synchronisation between any two of its steps
\* (CMasternodeSync::ProcessTick, masternode-sync.cpp).
THEOREM TickAlwaysSafe == Spec => TickSafe
<1>1. TickInv /\ [Next]_vars
      => [Tick /\ asset \in {LIST, MNW} /\ asset' = NextAsset(asset)
          => asked # {}]_vars
  <2> SUFFICES ASSUME TickInv, NEW p \in Peer, TickPeer(p), asset \in {LIST, MNW},
                      asset' = NextAsset(asset)
               PROVE  asked # {}
      BY DEF Tick
  <2>0. asset' # asset /\ asset' # FAILED
      BY DEF NextAsset, FAILED, INITIAL, WAITING, LIST, MNW, GOVERNANCE, FINISHED
  <2>1. TimedOut(TRUE) => attempt # 0
      BY <2>0 DEF TimedOut, Fail
  <2>2. CASE asset = LIST /\ VisitList(p)
      BY <2>0, <2>1, <2>2, Zenon DEF VisitList, Ask, TickInv, sync
  <2>3. CASE asset = MNW /\ VisitMnw(p)
    <3>1. attempt > 1 => attempt # 0
        OBVIOUS
    <3>2. Ask(p, "masternode-payment-sync") => asset' = asset
        BY DEF Ask
    <3> QED BY <2>0, <2>1, <2>3, <3>1, <3>2, Zenon DEF VisitMnw, TickInv, sync
  <2> QED
      BY <2>0, <2>2, <2>3 DEF TickPeer, Visit, sync,
         FAILED, INITIAL, WAITING, LIST, MNW, GOVERNANCE, FINISHED
<1>2. TickInv /\ [Next]_vars
      => [TickStart \/ Tick \/ RestartSwitch("tick") => threw' = threw]_vars
  <2>1. ASSUME TickInv, TickStart PROVE threw' = threw
      BY <2>1 DEF TickStart, Reset
  <2>2. ASSUME asset # FAILED, SwitchToNextAsset PROVE threw' = threw
      BY <2>2 DEF SwitchToNextAsset, SwitchFrom
  <2>3. ASSUME TickInv, RestartSwitch("tick") PROVE threw' = threw
      BY <2>2, <2>3 DEF RestartSwitch, TickInv
  <2>4. ASSUME NEW p \in Peer, TickPeer(p) PROVE threw' = threw
    <3>0. asset # FAILED /\ SwitchToNextAsset => threw' = threw
        BY <2>2
    <3>1. asset # FAILED /\ (TimedOut(TRUE) \/ TimedOut(FALSE)) => threw' = threw
        BY <3>0 DEF TimedOut, Fail
    <3>2. \A r : Ask(p, r) => threw' = threw
        BY DEF Ask
    <3>3. asset \in {LIST, MNW, GOVERNANCE} => asset # FAILED
        BY DEF LIST, MNW, GOVERNANCE, FAILED
    <3>4. CASE asset = LIST /\ VisitList(p)
        BY <3>1, <3>2, <3>3, <3>4, Zenon DEF VisitList
    <3>5. CASE asset = MNW /\ VisitMnw(p)
        BY <3>0, <3>1, <3>2, <3>3, <3>5, Zenon DEF VisitMnw
    <3>6. CASE asset = GOVERNANCE /\ VisitGovernance(p)
        BY <3>0, <3>1, <3>2, <3>3, <3>6, Zenon DEF VisitGovernance, GovernanceDone
    <3> QED BY <2>4, <3>4, <3>5, <3>6 DEF TickPeer, Visit
  <2> QED BY <2>1, <2>3, <2>4 DEF Tick
<1> QED
    BY <1>1, <1>2, TickInvInit, TickInvNext, PTL
       DEF Spec, TickSafe, AskedBeforeNext, TickNeverThrows
=============================================================================
