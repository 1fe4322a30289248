SPECIFICATION StreamSpec
CONSTANTS
  Bytes = {0, 1}
  MaxArg = 3
  MaxLen = 4
  Wrap = 8
PROPERTY
  ShiftConcatenates
