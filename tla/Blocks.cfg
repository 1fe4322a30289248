SPECIFICATION BlocksSpec
CONSTANTS
  File <- MCFile
  Configs <- MCConfigs
  Sizes = {0, 1, 2, 3}
  Targets = {0, 1, 2, 3, 4, 5, 6, 8}
  SeekTargets = {0, 2, 5, 8}
  Limits = {4}
  Chars = {3, 6, 9}
  ShortReads = TRUE
  NoLimit = 99
  Txs = {t1, t2}
  MaxTxs = 5
  Hash <- PairHash
  NoHash = NoHash
INVARIANTS
  BufferTypeOK
  RingHoldsWindow
  ReadsTheFile
  TreeProves
  StaleUnlessGrown
  RootCommits
PROPERTIES
  FindsFirst
  CallEnds
