CONSTANTS
  m1 = m1
  m2 = m2
  k1 = k1
  k2 = k2
  k3 = k3
  k4 = k4
  v1 = v1
  v2 = v2
  Object <- Objects
  Masternode = {m1, m2}
  Type <- Types
  Owner <- Owners
  Created <- Creation
  Outdated <- Outdating
  Vote <- Votes
  MinQuorum = 1
  MaxOrphans = 1
  OrphanExpiration = 1
  DeletionDelay = 1
  WatchdogExpiration = 2
  TwoCycles = 2
  FutureDeviation = 1
  MaxTime = 6
  Scenes <- AllScenes
  me = me  x = x  y = y  A = A  B = B  C = C
  Masternodes = {me, x, y}
  activeOutpoint = me
  Addresses = {A, B, C}
  NoOne = NoOne
  CalculateScore <- Ranking
  LoadedLists <- Lists
  MASTERNODE_POSE_BAN_MAX_SCORE = 3
  MAX_POSE_CONNECTIONS = 1
  MAX_POSE_RANK = 2
  MAX_POSE_BLOCKS = 1
  FirstHeight = 2
  MaxHeight = 3
  MaxNonce = 2
  MaxMoves = 1
SPECIFICATION MCSpec
INVARIANTS
  MapsAgree VotesCurrent OneWatchdog  
PROPERTIES ErasedStaysOut 
