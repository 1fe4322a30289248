SPECIFICATION MCSpec
CONSTANTS
  Order = 13
  Field = 19
  Coordinates <- MCCoordinates
  MaxBytes = 20
  Unset = Unset
  Tweak <- MCTweak
  Chain <- MCChain
  KeyHash <- MCKeyHash
  Depths = 3
  Digit = 2
  ChainCodes <- MCChainCodes
  Secrets <- MCSecrets
  PrivKeys <- MCPrivKeys
  Vectors <- MCVectors
  Hashes <- MCHashes
  Signatures <- MCSignatures
  Children <- MCChildren
  Codes <- MCCodes
INVARIANT CompactGivesKeyBack
