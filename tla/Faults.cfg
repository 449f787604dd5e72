SPECIFICATION Spec
CONSTANTS
  n1 = n1
  n2 = n2
  n3 = n3
  n4 = n4
  n5 = n5
  blockA = blockA
  blockB = blockB
  blockC = blockC
  Nodes = {n1, n2}
  Hashes = {blockA, blockB}
  Self = n1
  MaxHeight = 2
  MaxRound = 0
  Unrecoverable = Unrecoverable
  NoLock = NoLock
  NoProof = NoProof
  CacheNumber = 4
  AuthAt <- SoloAuthority
  ContentAt <- SoloContent
  PeerVotes <- SoloVotes
  PeerProposals <- SoloProposals
  Valid = {blockA, blockB}
  Faults = {"get_content", "check_proposal", "commit", "sign", "set_height"}
  OverflowChecks = TRUE
  U64Max = 99
  MaxQueue = 2
  MaxCached = 1
PROPERTIES
  DrivesChain
INVARIANTS
  AuthorityTracksChain
  CountedVotersAuthorised
  VerdictOwed
  CommitsVerify
  CommitsIncrease
CHECK_DEADLOCK FALSE
