SPECIFICATION BufferSpec
CONSTANTS
  File <- MCFile
  Configs <- OneConfig
  Sizes = {0, 1, 2, 3}
  Targets = {0, 1, 2, 3, 4, 5, 6}
  SeekTargets = {}
  Limits = {}
  Chars = {3, 6, 9}
  ShortReads = FALSE
  NoLimit = 99
PROPERTY
  RewindGuaranteed
