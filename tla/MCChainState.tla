---------------------------- MODULE MCChainState ----------------------------
(* A tree of blocks and the scenes played on it. *)
EXTENDS ChainState, TLC

CONSTANTS t1, t2

\* Every block has the same proof of work.
One == [b \in Block |-> 1]

\* 0 - 1 - 2 and 0 - 3 - 4 - 5
Branches == (1 :> 0) @@ (2 :> 1) @@ (3 :> 0) @@ (4 :> 3) @@ (5 :> 4)

Scene(happens, blocks) ==
    [events |-> happens, blocks |-> blocks, threads |-> {t1},
     badBody |-> {}, badConnect |-> {}, dubious |-> {}]

\* Two threads on one branch; blocks invalidated while both arrive, one of them
\* bad; invalidated and reconsidered; pruned; the process crashes; ReprocessBlocks.
AllScenes ==
    { [Scene({}, {3, 4, 5}) EXCEPT !.threads = {t1, t2}],
      [Scene({"invalidate"}, Block) EXCEPT !.badConnect = {4}],
      [Scene({"invalidate", "reconsider"}, {1, 3, 4}) EXCEPT !.badBody = {1}],
      Scene({"prune"}, Block),
      [Scene({"crash"}, {1, 3, 4, 5}) EXCEPT !.badConnect = {5}],
      [Scene({"reprocess"}, Block) EXCEPT !.badConnect = {4}, !.dubious = {2}] }

===============================================================================
