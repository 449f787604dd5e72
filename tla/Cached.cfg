SPECIFICATION Spec
CONSTANTS
  n1 = n1
  n2 = n2
  n3 = n3
  n4 = n4
  n5 = n5
  blockA = blockA
  blockB = blockB
  blockC = blockC
  Nodes = {n1, n2, n3}
  Hashes = {blockA, blockB, blockC}
  Self = n1
  MaxHeight = 2
  MaxRound = 0
  Unrecoverable = Unrecoverable
  NoLock = NoLock
  NoProof = NoProof
  CacheNumber = 4
  AuthAt <- JoinAuthority
  ContentAt <- JoinContent
  PeerVotes <- JoinVotes
  PeerProposals <- JoinProposals
  Valid = {blockB}
  Faults = {}
  OverflowChecks = FALSE
  U64Max = 99
  MaxQueue = 2
  MaxCached = 1
PROPERTIES
  CachedProposalHandedOver
