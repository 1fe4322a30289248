SPECIFICATION MCSpec
CONSTANTS
  Bases <- MCBases
  MaxDashes = 2
  MaxNos = 2
  Values = {"", "0"}
  MaxArgs = 3
  MaxSoft = 1
  RegTest = 1
  TestNet = 2
  NetPrefix <- MCNetPrefix
  MainInterval = 4
  RegTestInterval = 2
  Coins50 = 50
  ShiftBits = 8
  Digit = 4
  IntBytes = 4
  Int64Bytes = 7
  Base = 7
  CheckBytes = 1
  Checksum <- MCChecksum
  IdBytes = 1
  SecretBytes = 2
  SecretOf <- MCSecretOf
  Ids <- MCIds
  SecretBytesSet <- MCSecrets
  ExtKeys <- MCExtKeys
  Texts <- MCTexts
  MaxLength = 3
  Replies <- MCReplies
  MaxReplies = 3
  Close = Close
  KeepAlive = KeepAlive
  Other = Other
INVARIANTS
  GivenKept
  NetworkAsAsked
  ValueSurvives
  TextIsObject
  SupplyIsBounded
  RepliesAreTheirOwn
PROPERTIES
  ExpansionEnds
