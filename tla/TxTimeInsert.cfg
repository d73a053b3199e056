SPECIFICATION Spec
CONSTANTS
  Backend = "rocksdb"
  Txs = {t1, t2}
  NoTx = NoTx
  Keys = {k1}
  Vals = {x1}
  t1 = t1
  t2 = t2
  k1 = k1
  x1 = x1
  Bitemporal = FALSE
  Vts = {0}
  MaxTt = 2
  Wall = {0}
  Ops = {"insert"}
PROPERTY InsertFindsNothing
