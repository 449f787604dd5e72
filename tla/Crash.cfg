SPECIFICATION RecSpec
CONSTANTS
  n1 = n1
  n2 = n2
  blockA = blockA
  blockB = blockB
  Nodes = {n1, n2}
  Hashes = {blockA}
  Self = n1
  MaxHeight = 1
  MaxRound = 0
  Unrecoverable = Unrecoverable
  NoLock = NoLock
  NoProof = NoProof
  CacheNumber = 4
  AuthAt <- SoloAuthority
  ContentAt <- SoloContent
  PeerVotes <- SoloVotes
  PeerProposals <- SoloProposals
  Valid = {blockA}
  Faults = {}
  OverflowChecks = FALSE
  U64Max = 99
  MaxQueue = 1
  MaxCached = 1
  MaxCrashes = 1
  MaxUnsaved = 1
  MaxCopies = 1
INVARIANTS
  RecTypeOK
  WriteAhead
  LogIsCurrent
  CommitsVerify
  CountedVotersAuthorised
  AuthorityTracksChain
CHECK_DEADLOCK FALSE
