SPECIFICATION Spec
CONSTANTS
  n1 = n1
  n2 = n2
  n3 = n3
  n4 = n4
  n5 = n5
  blockA = blockA
  blockB = blockB
  blockC = blockC
  Nodes = {n1, n2, n3}
  Hashes = {blockA, blockB}
  Self = n1
  MaxHeight = 2
  MaxRound = 1
  Unrecoverable = Unrecoverable
  NoLock = NoLock
  NoProof = NoProof
  CacheNumber = 4
  AuthAt <- RelockAuthority
  ContentAt <- RelockContent
  PeerVotes <- RelockVotes
  PeerProposals <- RelockProposals
  Valid = {blockA, blockB}
  Faults = {}
  OverflowChecks = FALSE
  U64Max = 99
  MaxQueue = 2
  MaxCached = 1
PROPERTIES
  LockedProposalSent
