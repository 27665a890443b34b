SPECIFICATION FairSpec
CONSTANTS
    t1 = t1  t2 = t2
    Thread = {t1, t2}
    NoThread = NoThread  NoBlock = NoBlock
    Block = {0, 1, 2, 3, 4, 5}
    Genesis = 0
    Parent <- Branches
    Proof <- One
    Scenes <- AllScenes
    Keep = 1
    MaxSeq = 6
INVARIANTS CandidatesExact ActivatedBest MarksSound NoBlockLost RestartUsable
PROPERTY ActivationEnds
