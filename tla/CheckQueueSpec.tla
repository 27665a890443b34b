--------------------------- MODULE CheckQueueSpec ---------------------------
(***************************************************************************)
(* What CCheckQueue promises to ConnectBlock: checks are added, and Wait   *)
(* returns whether all of them are good, or the controller is destroyed    *)
(* and the result is dropped.                                              *)
(***************************************************************************)
CONSTANTS Check,   \* verifications
          Good     \* those whose operator() returns true

VARIABLES phase,   \* "idle": no controller; "adding"; "waiting": in Wait
          round,   \* checks added since the controller was made
          answer   \* what the last Wait returned, or "none"

absVars == <<phase, round, answer>>

Init ==
    /\ phase = "idle"
    /\ round = {}
    /\ answer = "none"

Begin ==
    /\ phase = "idle"
    /\ phase' = "adding"
    /\ answer' = "none"
    /\ UNCHANGED round

Add(C) ==
    /\ phase = "adding"
    /\ round' = round \cup C
    /\ UNCHANGED <<phase, answer>>

Wait ==
    /\ phase = "adding"
    /\ phase' = "waiting"
    /\ UNCHANGED <<round, answer>>

Return ==
    /\ phase = "waiting"
    /\ phase' = "idle"
    /\ answer' \in {IF round \subseteq Good THEN "valid" ELSE "invalid", "none"}
    /\ round' = {}

Next ==
    \/ Begin
    \/ \E C \in SUBSET Check : Add(C)
    \/ Wait
    \/ Return

Spec == Init /\ [][Next]_absVars
=============================================================================
