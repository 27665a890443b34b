-------------------------- MODULE PrivateSendClient --------------------------
(***************************************************************************)
(* A client of a mixing session (privatesend-client.cpp).  "locked" says   *)
(* that the session holds the wallet's coins (vecOutPointLocked), "held"   *)
(* that it holds keys of the key pool (keyHolderStorage).  The mixing      *)
(* masternode (infoMixingMasternode) is valid exactly in the busy states,  *)
(* so a message that arrives in another state is dropped.                  *)
(***************************************************************************)
EXTENDS PrivateSendBase

Mine(c) == <<c, cl[c].attempt>>

Consume(c) == toCl' = [toCl EXCEPT ![c] = Tail(@)]

Send(c, m) == toSrv' = [toSrv EXCEPT ![c] = IF c \in connected THEN Append(@, m) ELSE @]

(* UnlockCoins, keyHolderStorage.ReturnAll, SetNull and the state after.   *)
Abandon(c, state) ==
  /\ cl' = [cl EXCEPT ![c] = [NullClient(@.attempt) EXCEPT !.state = state]]
  /\ released' = IF cl[c].held THEN released \cup {Mine(c)} ELSE released

(* Faulty: the keys go back although the transaction was made. *)
Complete_ReturnsKeys(c) == Abandon(c, "IDLE")

(* keyHolderStorage.KeepAll, UnlockCoins and SetNull. *)
Complete(c) ==
  /\ cl' = [cl EXCEPT ![c] = NullClient(@.attempt)]
  /\ UNCHANGED released

server == <<srv, committed, charge, charged, ids>>

(* JoinExistingQueue and StartNewQueue: a connection of its own, on which  *)
(* the client asks to join.                                                *)
JoinQueue(c, n) ==
  /\ cl' = [cl EXCEPT ![c] = [NullClient(n) EXCEPT !.state = "QUEUE"]]
  /\ connected' = connected \cup {c}
  /\ toSrv' = [toSrv EXCEPT ![c] = <<[type |-> "DSACCEPT", entry |-> <<c, n>>]>>]

(* DoAutomaticDenominating: leftovers are cleaned up before the client     *)
(* joins; it does not reuse a connection to the masternode.                *)
DoAutomaticDenominating(c) ==
  /\ cl[c].state = "IDLE" /\ c \notin connected
  /\ c \in scene.clients /\ cl[c].attempt < scene.attempts
  /\ c \in scene.late => Len(srv.colls) = MaxPoolTransactions
  /\ released' = IF cl[c].held THEN released \cup {Mine(c)} ELSE released
  /\ JoinQueue(c, cl[c].attempt + 1)
  /\ UNCHANGED <<server, toCl, faults>>
-----------------------------------------------------------------------------
(* infoMixingMasternode is valid, and a message with a session number has  *)
(* the client's.                                                           *)
Concerns(c, m) ==
  /\ cl[c].state \in Busy
  /\ m.type = "DSQUEUE" => cl[c].state = "QUEUE"
  /\ m.type \in {"DSFINALTX", "DSCOMPLETE"} => m.session = cl[c].session

Arrived(c, type) == /\ toCl[c] # <<>>
                    /\ Head(toCl[c]).type = type
                    /\ Concerns(c, Head(toCl[c]))

(* Other messages are dropped, those of a session the client has left. *)
Ignore(c) ==
  /\ toCl[c] # <<>>
  /\ ~Concerns(c, Head(toCl[c]))
  /\ Consume(c)
  /\ UNCHANGED <<server, cl, toSrv, connected, faults, released>>

(* CheckPoolStateUpdate, when the masternode accepted something. *)
Update(k, m) ==
  CASE m.state = k.state /\ k.state = "QUEUE" /\ k.session = 0 /\ m.session # 0 ->
         [k EXCEPT !.session = m.session, !.age = 0]
    [] m.state = k.state /\ k.state = "ACCEPTING_ENTRIES" /\ k.count # m.count ->
         [k EXCEPT !.count = m.count, !.age = 0]
    [] OTHER -> k

DSStatusUpdate(c) ==
  LET m == Head(toCl[c])
  IN  /\ Arrived(c, "DSSTATUSUPDATE")
      /\ Consume(c)
      /\ \/ /\ m.accepted
            /\ cl' = [cl EXCEPT ![c] = Update(@, m)]
            /\ UNCHANGED released
         \/ /\ ~m.accepted
            /\ Abandon(c, "ERROR")
      /\ UNCHANGED <<server, toSrv, connected, faults>>

(* SendDenominate, after PrepareDenominate has locked coins and reserved   *)
(* keys: without a session, or when the entry fails its own check, all of  *)
(* it is undone; otherwise the entry is sent.                              *)
SendDenominate(c) ==
  \/ /\ cl[c].session = 0
     /\ cl' = [cl EXCEPT ![c] = NullClient(@.attempt)]
     /\ released' = released \cup {Mine(c)}
     /\ UNCHANGED <<toSrv, faults>>
  \/ /\ cl[c].session # 0
     /\ cl' = [cl EXCEPT ![c].state = "ACCEPTING_ENTRIES", ![c].entry = TRUE,
                         ![c].locked = TRUE, ![c].held = TRUE, ![c].age = 0]
     /\ Send(c, [type |-> "DSVIN", entry |-> Mine(c)])
     /\ UNCHANGED <<released, faults>>
  \/ /\ cl[c].session # 0
     /\ Fault
     /\ cl' = [cl EXCEPT ![c] = NullClient(@.attempt)]
     /\ released' = released \cup {Mine(c)}
     /\ UNCHANGED toSrv

(* SubmitDenominate: PrepareDenominate may find nothing to mix, and then   *)
(* the client stays in the queue.                                          *)
SubmitDenominate(c) ==
  \/ SendDenominate(c)
  \/ Fault /\ UNCHANGED <<cl, toSrv, released>>

(* DSQUEUE with fReady. *)
DSQueue(c) ==
  /\ Arrived(c, "DSQUEUE")
  /\ Consume(c)
  /\ SubmitDenominate(c)
  /\ UNCHANGED <<server, connected>>

Sign(c, m, ok) ==
  /\ cl' = [cl EXCEPT ![c].state = "SIGNING", ![c].age = 0]
  /\ Send(c, [type |-> "DSSIGNFINALTX", entry |-> Mine(c), tx |-> m.tx, ok |-> ok])
  /\ UNCHANGED released

(* DSFINALTX: SignFinalTransaction signs when the client's own entry is    *)
(* there.  A signature that cannot be made is sent empty.                  *)
DSFinalTx(c) ==
  LET m == Head(toCl[c])
  IN  /\ Arrived(c, "DSFINALTX")
      /\ Consume(c)
      /\ \E ok \in BOOLEAN :
           /\ IF ok THEN UNCHANGED faults ELSE Fault
           /\ IF cl[c].entry /\ Mine(c) \in m.tx
              THEN Sign(c, m, ok)
              ELSE Abandon(c, "IDLE") /\ UNCHANGED toSrv
      /\ UNCHANGED <<server, connected>>

(* DSCOMPLETE: CompletedTransaction. *)
DSComplete(c) ==
  /\ Arrived(c, "DSCOMPLETE")
  /\ Consume(c)
  /\ IF Head(toCl[c]).ok THEN Complete(c) ELSE Abandon(c, "IDLE")
  /\ UNCHANGED <<server, toSrv, connected, faults>>
-----------------------------------------------------------------------------
(* Faulty: coins stay locked after a timeout. *)
TimeoutReset_KeepsLock(c) ==
  /\ cl' = [cl EXCEPT ![c] = [NullClient(@.attempt) EXCEPT !.state = "ERROR",
                                                           !.locked = cl[c].locked]]
  /\ released' = IF cl[c].held THEN released \cup {Mine(c)} ELSE released

TimeoutReset(c) == Abandon(c, "ERROR")

(* Faulty: an error is never over. *)
ErrorOver_Never(c) == FALSE

(* CheckPool: an error is shown for ten seconds, two ticks. *)
ErrorOver(c) == cl[c].state = "ERROR" /\ cl[c].age >= 2

(* CheckTimeout. *)
ClientTimeout(c) ==
  /\ \/ /\ ErrorOver(c)
        /\ Abandon(c, "IDLE")
     \/ /\ ~ErrorOver(c) /\ TimedOut(cl[c], LagTime)
        /\ TimeoutReset(c)
  /\ UNCHANGED <<server, toSrv, toCl, connected, faults>>

Overdue(c) == ErrorOver(c) \/ TimedOut(cl[c], LagTime)

Unplug(c) == /\ connected' = connected \ {c}
             /\ toSrv' = [toSrv EXCEPT ![c] = <<>>]
             /\ toCl' = [toCl EXCEPT ![c] = <<>>]

(* CMasternodeMan::ProcessMasternodeConnections closes a connection that   *)
(* no session uses.                                                        *)
CloseConnection(c) ==
  /\ c \in connected
  /\ cl[c].state \notin Busy
  /\ Unplug(c)
  /\ UNCHANGED <<server, cl, faults, released>>

(* The link is lost, with everything in flight on it. *)
LoseLink(c) ==
  /\ c \in connected
  /\ Fault
  /\ Unplug(c)
  /\ UNCHANGED <<server, cl, released>>

ClientMessage(c) == \/ Ignore(c) \/ DSStatusUpdate(c) \/ DSQueue(c)
                    \/ DSFinalTx(c) \/ DSComplete(c)
=============================================================================
