--------------------------- MODULE MCInstantSend ---------------------------
(***************************************************************************)
(* Instances of InstantSend for TLC.                                       *)
(***************************************************************************)
EXTENDS InstantSend

CONSTANTS txA, txB, o1, o2, m1, m2, m3, m4

\* txA spends o1 and o2, txB spends o1: they conflict.
MCVin == [t \in Tx |-> IF t = txA /\ o2 \in Outpoint THEN <<o1, o2>> ELSE <<o1>>]

\* m4 outranks m3, which outranks m2, which outranks m1.
MCScore == [o \in Outpoint |->
              [m \in Masternode |-> CASE m = m1 -> 1 [] m = m2 -> 2
                                      [] m = m3 -> 3 [] OTHER -> 4]]

OwnInputVotes == {v \in Vote : v.outpoint \in Inputs(v.tx) /\ v.mn # Me}

\* Every masternode but m3 signs at most one transaction per outpoint.
OneVoteEach(W) ==
    \A v, w \in W : v.mn = w.mn /\ v.outpoint = w.outpoint /\ v.tx # w.tx
                        => v.mn = m3
Largest(S) == {W \in S : \A X \in S : W \subseteq X => W = X}
HonestButOne == Largest({W \in SUBSET OwnInputVotes : OneVoteEach(W)})
SplitVotes == {{v \in OwnInputVotes : v.tx = IF v.mn \in {m1, m2} THEN txA ELSE txB}}
DisjointLists == {{m1, m2}, {m3, m4}}

FullList == {Masternode}
BothSporks == {Spork}
AnySporks == {Spork, {"SPORK_2"}}
NoFiltering == {{"SPORK_2"}}
Synced == {TRUE}
SyncAny == BOOLEAN
EmptyBlocks == {{}}
SingleBlocks == {{}} \cup {{t} : t \in Tx}
=============================================================================
