SPECIFICATION FairSpec
CONSTANTS
  Backend = "rocksdb"
  Txs = {t1, w}
  Writers = {w}
  Readers = {t1, w}
  A = A
  Names = {A}
  Projections = {g}
  Variants = {u, v}
  Sources <- EdgesOnly
  Sizes = {1, 2}
  Capacities = {2}
  Catalog0 <- OneRelation
  Ops = {"write"}
  MaxId = 1
  MaxSeq = 1
  MaxGen = 1
  None = None
INVARIANTS AccountingExact
PROPERTIES LookupReturns CommitEnds
