----------------------------- MODULE MCIndexBuild -----------------------------
(***************************************************************************)
(* The jobs that IndexBuild is checked with on each engine.                *)
(***************************************************************************)
EXTENDS IndexBuild

\* Every kind of writer where write transactions exclude each other; the writers
\* that hold the relation's lock until they have committed, with the HNSW build
\* that publishes under it, on RocksDB.
BuildSettings ==
  {[engine |-> "mem",
    jobs |-> {"single", "governed", "multi", "script", "import", "create", "reindex", "drop"}],
   [engine |-> "rocksdb", jobs |-> {"single", "import", "hnsw", "reindex", "drop"}]}

\* Statements and ::reindex, where transact_write takes the store-wide lock.
StoreLockSettings == {[engine |-> "mem", jobs |-> {"single", "reindex"}]}

\* A transaction of several statements, which holds no lock of the relation, next to
\* the HNSW build.
UnlockedSettings == {[engine |-> "rocksdb", jobs |-> {"multi", "hnsw"}]}

\* The two values of the model are interchangeable, so a row that is there at first
\* has the value 1.
BuildInit == Init /\ rows \in [Keys -> {0, 1}]

BuildSpec == BuildInit /\ [][Next]_vars /\ Fairness
=============================================================================
