SPECIFICATION Spec
CONSTANTS
  Backend = "mem"
  Txs = {t1, w}
  Writers = {w}
  Readers = {t1, w}
  A = A
  Names = {A, A2}
  Projections = {g}
  Variants = {v}
  Sources <- EdgesOnly
  Sizes = {1}
  Capacities = {1}
  Catalog0 <- OneRelation
  Ops = {"write", "replace", "remove", "drop", "restore", "rename", "create"}
  MaxId = 2
  MaxSeq = 2
  MaxGen = 1
  None = None
INVARIANTS TagsDenoteContent NoStrandedEntry
PROPERTY AlwaysFresh
