------------------------------ MODULE Backends ------------------------------
(***************************************************************************)
(* What the storage engines behind Db differ in, as far as transactions    *)
(* above them can tell (cozo-core/src/storage).                            *)
(***************************************************************************)
CONSTANT Backend

Engines == {"mem", "sqlite", "rocksdb", "newrocksdb", "sled", "tikv"}

ASSUME BackendAssumption == Backend \in Engines

\* Whether the scans of a transaction (write: opened by transact_write) keep
\* seeing the store as it was when it opened.  sled has no snapshots; neither
\* RocksDB binding reads through the snapshot its write transactions take for
\* conflict validation, and newrocksdb takes none for its readers.
PinsSnapshot(write) ==
  \/ Backend \in {"mem", "sqlite", "tikv"}
  \/ Backend = "rocksdb" /\ ~write

\* transact takes the store-wide reader-writer lock, held until the
\* transaction is dropped.
Exclusive == Backend \in {"mem", "sqlite"}

\* del_range_from_persisted changes the shared store at once, outside the
\* transaction's own buffer: an abort does not bring the rows back.
WriteThrough == Backend \in {"mem", "sled"}

\* commit refuses a transaction whose locked keys changed since it opened.
Validates == Backend # "sled"

\* A read for update takes the key's lock, which is kept until the transaction
\* ends, and waits while another transaction has it; the other engines only
\* validate such reads, or have no concurrent writers.
Pessimistic == Backend = "rocksdb"

=============================================================================
