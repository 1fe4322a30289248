SPECIFICATION MemorySpec
CONSTANTS
  Order = 13
  Field = 19
  Coordinates <- MCCoordinates
  MaxBytes = 20
  Unset = Unset
  Tweak <- MCTweak
  Chain <- MCChain
  KeyHash <- MCKeyHash
  Depths = 3
  Digit = 2
  ChainCodes <- MCChainCodes
  Secrets <- MCSecrets
  PrivKeys <- MCPrivKeys
  Vectors <- MCVectors
  Hashes <- MCHashes
  Signatures <- MCSignatures
  Children <- MCChildren
  Codes <- MCCodes
  secret = secret
  chunk = chunk
  tail = tail
  empty = empty
  reuse = reuse
  NoBlock = NoBlock
  NPages = 3
  PageSize = 4
  Blocks <- MCBlocks
  Addr <- MCAddr
  Length <- MCSize
  MlockOutcomes = {TRUE}
INVARIANTS
  KeyIsSound
  SignaturesVerify
  KeysAreOne
  PagesTypeOK
  HistogramExact
  NoAssertFails
  SecretsPinned
  LocksNeeded
  NoRemains
PROPERTIES
  KeepsPromise
  RangeReturns
