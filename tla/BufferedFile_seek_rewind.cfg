SPECIFICATION BufferSpec
CONSTANTS
  File <- MCFile
  Configs <- OneConfig
  Sizes = {0, 1, 2, 3}
  Targets = {2}
  SeekTargets = {3}
  Limits = {}
  Chars = {3, 6, 9}
  ShortReads = FALSE
  NoLimit = 99
INVARIANT
  RewoundReadsTheFile
