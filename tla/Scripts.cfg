SPECIFICATION Spec
CONSTANTS
  Digit = 16
  IntBytes = 3
  Int64Bytes = 3
  MAX_SIZE = 33554432
  VarIntModulus = 1048576
  Block = 100
  Hash160 <- MCHash160
  Expand <- MCExpand
  Numbers <- MCNumbers
  Blobs <- MCBlobs
  Opcodes <- MCOpcodes
  Hashes <- MCHashes
  Keys <- MCKeys
  Multisigs <- MCMultisigs
  Bytes <- MCBytes
  Whence <- MCWhence
VIEW View
ACTION_CONSTRAINT Grown
INVARIANTS
  PushesAreInstructions
  FormsAreRecognised
PROPERTIES
  DeletesExactly
