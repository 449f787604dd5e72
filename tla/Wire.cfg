SPECIFICATION Spec
CONSTANTS
  Addresses = {1, 2, 3}
  Contents <- SomeContents
  BlockHashes <- SomeHashes
  Lists <- TwoOrThree
  Height = 2
  Rounds = {0, 1}
  Byte = 4
  Mark = 2
  RlpSize = 3
  None = None
INVARIANTS
  ReadAsSent
  SignatureSurvives
  JudgesAgree
  QuorumConvinces
CHECK_DEADLOCK FALSE
