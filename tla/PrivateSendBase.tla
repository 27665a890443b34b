--------------------------- MODULE PrivateSendBase ---------------------------
(***************************************************************************)
(* What the two sides of a PrivateSend mixing session share                *)
(* (privatesend.h, privatesend.cpp): pool states, the messages between one *)
(* masternode and the clients that mix on it, the connections, and time.   *)
(*                                                                         *)
(* An entry is a pair <<c, n>>: what client c submits on its n-th attempt. *)
(* It stands for c's inputs and for outputs paying to keys reserved from   *)
(* c's key pool.  A client has one set of coins to mix, so two entries of  *)
(* one client spend the same inputs.  A final transaction is the set of    *)
(* entries it was made of.                                                 *)
(*                                                                         *)
(* Time is counted in ticks of 5 seconds.  The one-second loops of both    *)
(* programs are faster than a tick, and so are messages when Prompt holds: *)
(* a tick passes only when nothing of that kind is waiting.                *)
(***************************************************************************)
EXTENDS Naturals, Sequences, SequencesExt, FiniteSets

CONSTANTS Client,
          MaxPoolTransactions,    \* participants of a session
          QueueTimeout,           \* PRIVATESEND_QUEUE_TIMEOUT in ticks
          SigningTimeout,         \* PRIVATESEND_SIGNING_TIMEOUT in ticks
          LagTime,                \* the client's nLagTime in ticks
          Prompt,                 \* messages take less than a tick
          Scenes                  \* bounds of a behaviour, see scene

ASSUME BoundAssumption ==
  /\ MaxPoolTransactions \in Nat \ {0}
  /\ {QueueTimeout, SigningTimeout, LagTime} \subseteq Nat \ {0}
  /\ Scenes \subseteq [clients : SUBSET Client, late : SUBSET Client,
                       attempts : Nat, faults : Nat]
  /\ Prompt \in BOOLEAN

VARIABLES srv,         \* the masternode's session
          cl,          \* the session as each client sees it
          toSrv,       \* messages in flight, client to masternode, in order
          toCl,        \* messages in flight, masternode to client, in order
          connected,   \* clients with a live connection to the masternode
          faults,      \* faults so far
          committed,   \* entries in a transaction the masternode committed
          released,    \* entries whose keys went back to the key pool
          charge,      \* the masternode's timeout step while it is under way
          charged,     \* entries charged a fee for not cooperating
          ids,         \* sessions created; nSessionID is a fresh number
          scene        \* which clients mix, those that come only to a session
                       \* that is full, how many sessions a client tries to
                       \* join, and how many links are lost and checks fail

vars == <<srv, cl, toSrv, toCl, connected, faults, committed, released,
          charge, charged, ids, scene>>

Entry == Client \X (1 .. scene.attempts)

Busy == {"QUEUE", "ACCEPTING_ENTRIES", "SIGNING"}

(* CPrivateSendBase::SetNull, with the members each side adds. *)
NullServer ==
  [state |-> "IDLE", session |-> 0, colls |-> <<>>, entries |-> <<>>,
   signed |-> {}, final |-> {}, age |-> 0]

NullClient(n) ==
  [state |-> "IDLE", session |-> 0, entry |-> FALSE, count |-> 0,
   locked |-> FALSE, held |-> FALSE, age |-> 0, attempt |-> n]

(* The session timeout of either side, given what that side adds to it. *)
TimedOut(side, lag) ==
  /\ side.state # "IDLE"
  /\ side.age >= lag + (IF side.state = "SIGNING" THEN SigningTimeout
                                                  ELSE QueueTimeout)

(* A check outside this model fails: a lock not obtained, a coin spent.    *)
Fault == /\ faults < scene.faults
         /\ faults' = faults + 1
=============================================================================
