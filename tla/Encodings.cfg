SPECIFICATION EncodingsSpec
CONSTANTS
  Digit = 2
  IntBytes = 3
  Int64Bytes = 4
  WIDTH = 3
  WordBytes = 1
  WordBits = 2
  Operands <- MCOperands
  Integers64 <- MCIntegers64
  Texts <- MCTexts
  Vectors <- MCVectors
  Compacts <- MCCompacts
  Divisors <- MCDivisors
  Shifts <- MCShifts
  MAX_SIZE = 128
  VarIntModulus = 16
  Block = 2
  disk = disk
  stdin = stdin
  Handle = {disk, stdin}
  Standard = {stdin}
  NULL = NULL
  Kind <- MCKind
  Values <- MCValues
VIEW MCView
CONSTRAINT MCExpanded
ACTION_CONSTRAINT MCStep
INVARIANTS
  NumbersReadBack
  FileIsHeld
  BytesMeanValues
PROPERTIES
  NumbersImplement
  ReadsWhatWasWritten
