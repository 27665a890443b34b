--------------------------- MODULE MCPrivateSend ---------------------------
(***************************************************************************)
(* Model values for PrivateSend.  Ticks are 5 seconds: the queue times out *)
(* after 6 of them, signing after 3, and a client waits 2 more.            *)
(***************************************************************************)
EXTENDS PrivateSend

CONSTANTS c1, c2, c3

\* Two clients that try twice, with a fault; a third one finds the session full.
AllScenes ==
  {[clients |-> {c1, c2}, late |-> {}, attempts |-> 2, faults |-> 1],
   [clients |-> {c1, c2, c3}, late |-> {c3}, attempts |-> 1, faults |-> 0]}
=============================================================================
