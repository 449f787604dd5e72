SPECIFICATION Spec
CONSTANTS
  n1 = n1
  n2 = n2
  n3 = n3
  n4 = n4
  n5 = n5
  blockA = blockA
  blockB = blockB
  blockC = blockC
  Nodes = {n1, n2, n3, n4, n5}
  Hashes = {blockA, blockB}
  Self = n1
  MaxHeight = 2
  MaxRound = 3
  Unrecoverable = Unrecoverable
  NoLock = NoLock
  NoProof = NoProof
  CacheNumber = 3
  AuthAt <- LockAuthority
  ContentAt <- LockContent
  PeerVotes <- LockVotes
  PeerProposals <- LockProposals
  Valid = {blockA, blockB}
  Faults = {}
  OverflowChecks = FALSE
  U64Max = 99
  MaxQueue = 1
  MaxCached = 1
INVARIANTS
  LockEvidence
  CountedVotesHeld
