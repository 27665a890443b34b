---------------------------- MODULE CoinsViewSpec ----------------------------
(***************************************************************************)
(* What the layers of CCoinsView promise: three sets of coins, each with   *)
(* the block it belongs to.  A view is opened on the tip, changed, and     *)
(* kept or dropped as a whole; the tip is written to the disk as a whole.  *)
(***************************************************************************)
CONSTANTS Outpoint, Coin, Spent, BlockHash

VARIABLES view, viewBest, tip, tipBest, disk, diskBest, open

vars == <<view, viewBest, tip, tipBest, disk, diskBest, open>>

Init ==
    /\ disk = [o \in Outpoint |-> Spent]
    /\ view = disk /\ tip = disk
    /\ diskBest \in BlockHash
    /\ viewBest = diskBest /\ tipBest = diskBest
    /\ open = FALSE

Open ==
    /\ ~ open /\ open' = TRUE
    /\ UNCHANGED <<view, viewBest, tip, tipBest, disk, diskBest>>

Change(o, c) ==
    /\ open
    /\ view' = [view EXCEPT ![o] = c]
    /\ UNCHANGED <<viewBest, tip, tipBest, disk, diskBest, open>>

SetBest(b) ==
    /\ open
    /\ viewBest' = b
    /\ UNCHANGED <<view, tip, tipBest, disk, diskBest, open>>

Commit ==
    /\ open /\ open' = FALSE
    /\ tip' = view /\ tipBest' = viewBest
    /\ UNCHANGED <<view, viewBest, disk, diskBest>>

Drop ==
    /\ open /\ open' = FALSE
    /\ view' = tip /\ viewBest' = tipBest
    /\ UNCHANGED <<tip, tipBest, disk, diskBest>>

Write ==
    /\ ~ open
    /\ disk' = tip /\ diskBest' = tipBest
    /\ UNCHANGED <<view, viewBest, tip, tipBest, open>>

\* A crash leaves what the last write left.
Crash ==
    /\ open' = FALSE
    /\ tip' = disk /\ tipBest' = diskBest
    /\ view' = disk /\ viewBest' = diskBest
    /\ UNCHANGED <<disk, diskBest>>

Next ==
    \/ Open \/ Commit \/ Drop \/ Write \/ Crash
    \/ \E o \in Outpoint, c \in Coin \cup {Spent} : Change(o, c)
    \/ \E b \in BlockHash : SetBest(b)

Spec == Init /\ [][Next]_vars

===============================================================================
