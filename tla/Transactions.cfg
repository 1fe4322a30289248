SPECIFICATION StoredSpec
CONSTANTS
  Digit = 16
  IntBytes = 1
  Int64Bytes = 3
  MAX_SIZE = 33554432
  VarIntModulus = 131072
  Block = 100
  Hash160 <- MCHash160
  Expand <- MCExpand
  MAX_MONEY = 20000
  Ten = 4
  MaxSequence = 3
  NullHash = NullHash
  Torn = Torn
  OutPoints <- MCOutPoints
  Scripts <- MCScripts
  Sequences <- MCSequences
  Values <- MCValues
  Codes <- MCCodes
  HashTypes <- MCHashTypes
  Bases <- MCBases
  Undos <- MCUndos
  MaxInputs = 2
  MaxOutputs = 2
  Bytes = {0, 1}
  MaxArg = 3
  MaxLen = 4
  Wrap = 8
INVARIANTS
  SignatureCommits
  ValuesAreExact
  ReadingReplaces
  StreamTypeOK
PROPERTIES
  IsQueue
  RewindUndoesRead
