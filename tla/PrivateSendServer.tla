-------------------------- MODULE PrivateSendServer --------------------------
(***************************************************************************)
(* The masternode of a mixing session (privatesend-server.cpp).  Messages  *)
(* are handled one at a time; the check thread runs between them, and its  *)
(* timeout step releases the processor while it charges a fee, so it is    *)
(* two actions.  A handler is a function of w: the session, the outgoing    *)
(* messages and the clients still connected (the network thread may drop a  *)
(* client while its message is being handled).                             *)
(***************************************************************************)
EXTENDS PrivateSendBase

(* Faulty: one participant fewer makes a session. *)
IsSessionReady_Early(s) == Len(s.colls) + 1 >= MaxPoolTransactions

IsSessionReady(s) == Len(s.colls) >= MaxPoolTransactions

Push(w, c, m) == [w EXCEPT !.out[c] = IF c \in w.up THEN Append(@, m) ELSE @]

Status(s, acc) ==
  [type |-> "DSSTATUSUPDATE", session |-> s.session, state |-> s.state,
   count |-> Len(s.entries), accepted |-> acc]

PushStatus(w, c, acc) == Push(w, c, Status(w.s, acc))

(* One message to every client of the entries seq that is connected. *)
PushAll(w, seq, m) ==
  LET them == {seq[i][1] : i \in DOMAIN seq} \cap w.up
  IN  [w EXCEPT !.out = [c \in Client |-> IF c \in them THEN Append(@[c], m) ELSE @[c]]]

Disconnected(w) == SelectSeq(w.s.entries, LAMBDA e : e[1] \notin w.up)

SetNull(w) == [w EXCEPT !.s = NullServer]

(* Participants hear the status; when one is gone, the others hear that    *)
(* the session is rejected; when all are gone, the pool is reset.          *)
RelayStatus(w, acc) ==
  LET told  == PushAll(w, w.s.entries, Status(w.s, acc))
      again == PushAll(told, w.s.entries, Status(w.s, FALSE))
  IN  IF Disconnected(w) = <<>> THEN told
      ELSE IF Len(Disconnected(w)) = Len(w.s.entries) THEN SetNull(again)
      ELSE again

(* Message m goes to the participants in order; the first one that is gone *)
(* ends the loop with a rejection to everyone.                             *)
RelayInOrder(w, m) ==
  LET gone   == {i \in DOMAIN w.s.entries : w.s.entries[i][1] \notin w.up}
      before == {i \in DOMAIN w.s.entries : \A g \in gone : i < g}
      sent   == PushAll(w, SubSeq(w.s.entries, 1, Cardinality(before)), m)
  IN  IF gone = {} THEN sent ELSE RelayStatus(sent, FALSE)

RelayFinalTransaction(w, tx) ==
  RelayInOrder(w, [type |-> "DSFINALTX", session |-> w.s.session, tx |-> tx])

RelayCompletedTransaction(w, ok) ==
  RelayInOrder(w, [type |-> "DSCOMPLETE", session |-> w.s.session, ok |-> ok])

CreateFinalTransaction(w) ==
  LET tx == ToSet(w.s.entries)
      w1 == [w EXCEPT !.s.final = tx]
  IN  [RelayFinalTransaction(w1, tx) EXCEPT !.s.state = "SIGNING"]

IsSignaturesComplete(s) ==
  \A i \in DOMAIN s.entries : \E sig \in s.signed : sig[1] = s.entries[i]

(* What AcceptToMemoryPool can say of the signatures: each signs the       *)
(* transaction that is committed.                                          *)
SignaturesValid(s) == \A sig \in s.signed : sig[2] = s.final

(* AcceptToMemoryPool refuses or cs_main is not free: reset, then notify.  *)
CommitFails(w) == RelayCompletedTransaction(SetNull(w), FALSE)

CommitSucceeds(w) == SetNull(RelayCompletedTransaction(w, TRUE))

(* Faulty: the final transaction is made with an entry missing. *)
WillFinalize_Early(s) == /\ s.state = "ACCEPTING_ENTRIES"
                         /\ Len(s.entries) + 1 >= MaxPoolTransactions

WillFinalize(s) == /\ s.state = "ACCEPTING_ENTRIES"
                   /\ Len(s.entries) >= MaxPoolTransactions

WillCommit(s) == s.state = "SIGNING" /\ IsSignaturesComplete(s)

(* A message of client c is handled with result w; lost are the clients    *)
(* dropped meanwhile.                                                      *)
World == [s |-> srv, out |-> toCl, up |-> connected]

Lose(w, lost) == [w EXCEPT !.up = @ \ lost]

Received(c, type) == /\ toSrv[c] # <<>>
                     /\ Head(toSrv[c]).type = type

Handled(c, w) ==
  \E r \in {w} :
    /\ toSrv' = [x \in Client |-> IF x \notin r.up THEN <<>>
                                  ELSE IF x = c THEN Tail(toSrv[x]) ELSE toSrv[x]]
    /\ srv' = r.s
    /\ toCl' = [x \in Client |-> IF x \in r.up THEN r.out[x] ELSE <<>>]
    /\ connected' = r.up
    /\ UNCHANGED <<cl, released, charge, charged>>

Drops(lost, n) == /\ faults + Cardinality(lost) + n <= scene.faults
                  /\ faults' = faults + Cardinality(lost) + n
-----------------------------------------------------------------------------
(* Faulty: the new session gets no number. *)
NewUser_NoId(s, e) ==
  [s EXCEPT !.colls = Append(@, e), !.age = 0, !.state = "QUEUE"]

(* CreateNewSession and AddUserToExistingSession. *)
NewUser(s, e) ==
  [s EXCEPT !.colls = Append(@, e), !.age = 0, !.state = "QUEUE",
            !.session = IF @ = 0 THEN ids + 1 ELSE @]

MayJoin(s) == s.state = (IF s.session = 0 THEN "IDLE" ELSE "QUEUE")

(* DSACCEPT: a client asks to join.  The answer of a session that is full  *)
(* already carries STATUS_ACCEPTED.                                        *)
DSAccept(c) ==
  LET e == Head(toSrv[c]).entry
      w == World
  IN  /\ Received(c, "DSACCEPT")
      /\ UNCHANGED committed
      /\ \/ /\ IsSessionReady(srv)
            /\ Handled(c, PushStatus(w, c, TRUE))
            /\ UNCHANGED <<faults, ids>>
         \/ /\ ~IsSessionReady(srv)
            /\ Handled(c, IF MayJoin(srv)
                          THEN PushStatus([w EXCEPT !.s = NewUser(srv, e)], c, TRUE)
                          ELSE PushStatus(w, c, FALSE))
            /\ ids' = IF MayJoin(srv) /\ srv.session = 0 THEN ids + 1 ELSE ids
            /\ UNCHANGED faults
         \/ /\ ~IsSessionReady(srv)      \* last queue too recent, bad collateral
            /\ Fault
            /\ Handled(c, PushStatus(w, c, FALSE))
            /\ UNCHANGED ids
-----------------------------------------------------------------------------
(* AddEntry: there is room, and no input of the entry is in the pool.      *)
CanAddEntry(s, e) ==
  /\ Len(s.entries) < MaxPoolTransactions
  /\ \A i \in DOMAIN s.entries : s.entries[i][1] # e[1]

AddEntry(s, e) == [s EXCEPT !.entries = Append(@, e), !.age = 0]

(* DSVIN: a participant submits its entry.  An entry that AddEntry refuses *)
(* resets the session after its sender was told.                           *)
DSVin(c) ==
  LET e        == Head(toSrv[c]).entry
      w        == World
      rejected == PushStatus(w, c, FALSE)
      added    == PushStatus([w EXCEPT !.s = AddEntry(srv, e)], c, TRUE)
      check(x) == IF WillFinalize(x.s) THEN CreateFinalTransaction(x) ELSE x
  IN  /\ Received(c, "DSVIN")
      /\ UNCHANGED <<ids, committed>>
      /\ \/ /\ ~IsSessionReady(srv)
            /\ Handled(c, rejected)
            /\ UNCHANGED faults
         \/ /\ IsSessionReady(srv) /\ CanAddEntry(srv, e)
            /\ \E lost \in SUBSET connected :
                 /\ Drops(lost, 0)
                 /\ \E x \in {check(Lose(added, lost))} : Handled(c, RelayStatus(x, TRUE))
         \/ /\ IsSessionReady(srv) /\ ~CanAddEntry(srv, e)
            /\ Handled(c, SetNull(rejected))
            /\ UNCHANGED faults
         \/ /\ IsSessionReady(srv)       \* the entry is not a valid transaction
            /\ Fault
            /\ Handled(c, rejected)
         \/ /\ IsSessionReady(srv)       \* its collateral is not valid any more
            /\ Fault
            /\ Handled(c, SetNull(rejected))

(* AddScriptSig: the signature is not empty, and its input is in the pool  *)
(* and not signed yet.                                                     *)
CanAddScriptSig(s, m) ==
  /\ m.ok
  /\ m.entry \in ToSet(s.entries)
  /\ \A sig \in s.signed : sig[1] # m.entry

(* DSSIGNFINALTX: a participant's signatures; the last ones commit.        *)
DSSignFinalTx(c) ==
  LET m  == Head(toSrv[c])
      s1 == [srv EXCEPT !.signed = @ \cup {<<m.entry, m.tx>>}]
      w1 == [World EXCEPT !.s = s1]
  IN  /\ Received(c, "DSSIGNFINALTX")
      /\ UNCHANGED ids
      /\ \/ /\ ~CanAddScriptSig(srv, m)
            /\ Handled(c, RelayStatus(World, FALSE))
            /\ UNCHANGED <<faults, committed>>
         \/ /\ CanAddScriptSig(srv, m) /\ ~WillCommit(s1)
            /\ Handled(c, w1)
            /\ UNCHANGED <<faults, committed>>
         \/ /\ CanAddScriptSig(srv, m) /\ WillCommit(s1) /\ SignaturesValid(s1)
            /\ \E lost \in SUBSET connected :
                 /\ Drops(lost, 0)
                 /\ Handled(c, CommitSucceeds(Lose(w1, lost)))
            /\ committed' = committed \cup s1.final
         \/ /\ CanAddScriptSig(srv, m) /\ WillCommit(s1)
            /\ Drops({}, IF SignaturesValid(s1) THEN 1 ELSE 0)
            /\ Handled(c, CommitFails(w1))
            /\ UNCHANGED committed
-----------------------------------------------------------------------------
(* CheckForCompleteQueue: the signed, ready queue goes to every peer.      *)
CheckForCompleteQueue ==
  /\ charge = <<>>
  /\ srv.state = "QUEUE" /\ IsSessionReady(srv)
  /\ srv' = [srv EXCEPT !.state = "ACCEPTING_ENTRIES"]
  /\ toCl' = [c \in Client |-> IF c \in connected
                               THEN Append(toCl[c], [type |-> "DSQUEUE"])
                               ELSE toCl[c]]
  /\ UNCHANGED <<cl, toSrv, connected, faults, committed, released, charge,
                 charged, ids>>

(* ChargeFees: who did not send the entry, or did not sign it. *)
Offenders(s) ==
  CASE s.state = "ACCEPTING_ENTRIES" ->
         SelectSeq(s.colls, LAMBDA e : e \notin ToSet(s.entries))
    [] s.state = "SIGNING" ->
         SelectSeq(s.entries, LAMBDA e : \A sig \in s.signed : sig[1] # e)
    [] OTHER -> <<>>

(* CheckTimeout decides; at random it charges one offender, unless all     *)
(* are.  It then waits for cs_main.                                        *)
CheckTimeout ==
  /\ charge = <<>>
  /\ TimedOut(srv, 0)
  /\ \/ charge' = <<"reset">>
     \/ /\ Len(Offenders(srv)) < MaxPoolTransactions
        /\ \E e \in ToSet(Offenders(srv)) : charge' = <<"charge", e>>
  /\ UNCHANGED <<srv, cl, toSrv, toCl, connected, faults, committed, released,
                 charged, ids>>

(* Faulty: the session is not reset. *)
FinishTimeout_Keeps ==
  /\ charge # <<>>
  /\ charge' = <<>>
  /\ UNCHANGED <<srv, cl, toSrv, toCl, connected, faults, committed, released,
                 charged, ids>>

(* ... and charges and resets the session, whatever it is by then. *)
FinishTimeout ==
  /\ charge # <<>>
  /\ charge' = <<>>
  /\ srv' = NullServer
  /\ charged' = IF Len(charge) = 2 THEN charged \cup {charge[2]} ELSE charged
  /\ UNCHANGED <<cl, toSrv, toCl, connected, faults, committed, released, ids>>

ServerMessage(c) == DSAccept(c) \/ DSVin(c) \/ DSSignFinalTx(c)

ServerThread == CheckForCompleteQueue \/ CheckTimeout \/ FinishTimeout
=============================================================================
