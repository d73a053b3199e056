SPECIFICATION Spec
CONSTANTS
  Backend = "rocksdb"
  Txs = {t1, t2, w}
  Writers = {w}
  Readers = {t1, t2}
  A = A
  Names = {A}
  Projections = {g}
  Variants = {v}
  Sources <- EdgesOnly
  Sizes = {1}
  Capacities = {0, 1}
  Catalog0 <- OneRelation
  Ops = {"write", "replace"}
  MaxId = 2
  MaxSeq = 2
  MaxGen = 1
  None = None
SYMMETRY ReaderSymmetry
INVARIANTS FreshIsCurrent InflightBalanced SingleFlight AccountingExact
PROPERTIES NeverFreshAgain AlwaysFresh
