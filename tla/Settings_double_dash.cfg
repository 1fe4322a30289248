SPECIFICATION Spec
CONSTANTS
  Bases = {1, 2}
  MaxDashes = 2
  MaxNos = 2
  Values = {"", "0"}
  MaxArgs = 3
  MaxSoft = 1
INVARIANT
  DoubleDashIsSingle
