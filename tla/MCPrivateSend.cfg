SPECIFICATION FairSpec
CONSTANTS
  c1 = c1  c2 = c2  c3 = c3
  Client = {c1, c2, c3}
  MaxPoolTransactions = 2
  QueueTimeout = 6
  SigningTimeout = 3
  LagTime = 2
  Prompt = TRUE
  Scenes <- AllScenes
INVARIANTS HeldRightly  
PROPERTY MixingEnds
