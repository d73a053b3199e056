SPECIFICATION Spec
CONSTANTS
  Backend = "sqlite"
  Txs = {t1, t2}
  NoTx = NoTx
  Keys = {k1}
  Vals = {x1}
  t1 = t1
  t2 = t2
  k1 = k1
  x1 = x1
  Bitemporal = TRUE
  Vts = {0, 1}
  MaxTt = 3
  Wall = {0}
  Ops = {"put", "insert", "rm", "update", "reconcile", "history_gc", "evict"}
SYMMETRY Symmetry
INVARIANT MarkCoversCommits
PROPERTY ReconcileIsComplete
PROPERTY EvictedStaysEvicted
