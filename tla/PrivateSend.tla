---------------------------- MODULE PrivateSend ----------------------------
(***************************************************************************)
(* A masternode and its mixing clients together, with time and the loss of *)
(* connections.                                                            *)
(***************************************************************************)
EXTENDS PrivateSendServer, PrivateSendClient

Init ==
  /\ srv = NullServer
  /\ cl = [c \in Client |-> NullClient(0)]
  /\ toSrv = [c \in Client |-> <<>>]
  /\ toCl = [c \in Client |-> <<>>]
  /\ connected = {}
  /\ faults = 0
  /\ committed = {}
  /\ released = {}
  /\ charge = <<>>
  /\ charged = {}
  /\ ids = 0
  /\ scene \in Scenes

Older(side) == IF side.state = "IDLE" THEN side ELSE [side EXCEPT !.age = @ + 1]

(* Five seconds pass. *)
Tick ==
  /\ Prompt => \A c \in Client : toSrv[c] = <<>> /\ toCl[c] = <<>>
  /\ \A c \in Client : ~Overdue(c)
  /\ charge = <<>> /\ ~TimedOut(srv, 0)
  /\ ~(srv.state = "QUEUE" /\ IsSessionReady(srv))
  /\ srv' = Older(srv)
  /\ cl' = [c \in Client |-> Older(cl[c])]
  /\ UNCHANGED <<toSrv, toCl, connected, faults, committed, released, charge,
                 charged, ids>>

Next ==
  /\ UNCHANGED scene
  /\ \/ \E c \in scene.clients :
          \/ ServerMessage(c) \/ ClientMessage(c)
          \/ DoAutomaticDenominating(c) \/ ClientTimeout(c)
          \/ CloseConnection(c) \/ LoseLink(c)
     \/ ServerThread
     \/ Tick

Spec == Init /\ [][Next]_vars

(* Time passes, both check threads run every second, and the message       *)
(* handlers of both programs get to every message.                         *)
Fairness ==
  /\ WF_vars(Tick /\ UNCHANGED scene)
  /\ WF_vars(ServerThread /\ UNCHANGED scene)
  /\ \A c \in Client : /\ WF_vars(ServerMessage(c) /\ UNCHANGED scene)
                       /\ WF_vars(ClientMessage(c) /\ UNCHANGED scene)
                       /\ WF_vars(ClientTimeout(c) /\ UNCHANGED scene)

FairSpec == Spec /\ Fairness
-----------------------------------------------------------------------------
SessionId == 0 .. scene.attempts * Cardinality(Client)

TypeOK ==
  /\ srv \in [state : Busy \cup {"IDLE"}, session : SessionId,
              colls : Seq(Entry), entries : Seq(Entry),
              signed : SUBSET (Entry \X SUBSET Entry),
              final : SUBSET Entry, age : 0 .. QueueTimeout]
  /\ cl \in [Client -> [state : Busy \cup {"IDLE", "ERROR"}, session : SessionId,
                        entry : BOOLEAN, count : 0 .. MaxPoolTransactions,
                        locked : BOOLEAN, held : BOOLEAN,
                        age : 0 .. QueueTimeout + LagTime,
                        attempt : 0 .. scene.attempts]]
  /\ connected \subseteq Client
  /\ faults \in 0 .. scene.faults
  /\ committed \subseteq Entry /\ released \subseteq Entry /\ charged \subseteq Entry
  /\ ids \in SessionId

(* What participants are asked to sign, and what is committed once each of *)
(* them has signed, is made of exactly the entries of the pool: nothing    *)
(* is added to the pool once the final transaction exists.                 *)
FinalMatchesEntries ==
  srv.state = "SIGNING" /\ srv.entries # <<>> => srv.final = ToSet(srv.entries)

(* However a session ends for a client - success, rejection, timeout, a    *)
(* failed check - its coins are unlocked and its reserved keys are either  *)
(* kept or returned: outside a session nothing is held.                    *)
NothingHeldOutside ==
  \A c \in Client : cl[c].locked \/ cl[c].held =>
                      cl[c].state \in {"ACCEPTING_ENTRIES", "SIGNING"}

(* A key that a committed mixing transaction pays to never goes back to    *)
(* the key pool, where it would be handed out again, while no fault makes  *)
(* the masternode report a rejection of what it has committed.             *)
KeysKept == faults = 0 => committed \cap released = {}

(* nSessionID is "0 if no mixing session is active", also after a fault;   *)
(* two links lost within one handler are the exception.                    *)
SessionIffBusy == faults < 2 => srv.state = "IDLE" <=> srv.session = 0

(* Every entry in the pool comes from a client that was taken into the     *)
(* session and whose collateral the masternode holds, as long as no client *)
(* is turned away for want of a place.                                     *)
EntriesOfSession ==
  Cardinality(scene.clients) <= MaxPoolTransactions =>
    ToSet(srv.entries) \subseteq ToSet(srv.colls)

(* A client's coins and keys are held while a session may need them and no *)
(* longer, and end where the session's result says.                        *)
HeldRightly == KeysKept /\ NothingHeldOutside

(* The pool is the session's: its entries come from the clients taken in,  *)
(* and the transaction they sign is made of these entries.                 *)
PoolOfSession == EntriesOfSession /\ FinalMatchesEntries

(* A session of the masternode always comes to its end. *)
SessionEnds == srv.state # "IDLE" ~> srv.state = "IDLE"

(* A client always gets back to where it can start to mix again. *)
ClientReturns == \A c \in Client : cl[c].state # "IDLE" ~> cl[c].state = "IDLE"

(* Both sides of the protocol come back to idle, whatever fails or leaves. *)
MixingEnds == SessionEnds /\ ClientReturns
=============================================================================
