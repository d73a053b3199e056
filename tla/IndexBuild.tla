------------------------------ MODULE IndexBuild ------------------------------
(***************************************************************************)
(* One stored relation, one index name on it, and everything that writes   *)
(* either: statements, multi-statement transactions and imports that keep  *)
(* the index in step with the rows, and the operations that build, rebuild *)
(* and drop the index (cozo-core/src/runtime/db.rs, relation.rs,           *)
(* reindex.rs, query/stored.rs).                                           *)
(*                                                                         *)
(* A job is the sequence of steps its function takes: where it takes and   *)
(* gives back the relation's lock, opens, works in and commits its         *)
(* transaction. Other jobs run between any two steps. An index relation is *)
(* the set of its entries, one for a row; an index of kind "tree" is a     *)
(* plain secondary index, "search" an HNSW, FTS or LSH one.                *)
(***************************************************************************)
EXTENDS Naturals, Sequences, FiniteSets

CONSTANTS
  Procs,        \* threads that call into the database
  Keys, Vals,   \* of the relation; a positive number each
  MaxJobs,      \* bound: calls made
  MaxId,        \* bound: index relations ever created, at most one a call
  Settings      \* which jobs run on which engine: records [engine, jobs]

Nobody == 0
Same == 99    \* a row the transaction has not written

ASSUME IndexAssumption ==
  /\ Nobody \notin Procs
  /\ Keys \subseteq Nat \ {0} /\ Vals \subseteq Nat \ {0, Same}
  /\ MaxJobs \in Nat /\ MaxId \in Nat /\ MaxJobs <= MaxId

VARIABLES
  setting,      \* the engine, and the jobs that run on it
  rows,         \* committed rows: a value for each key, 0 for none
  idx,          \* committed entries of each index relation
  cat,          \* committed catalog: the index published in the relation's handle
                \* and its kind, the index relation under the name, the next id
  stranded,     \* a bulk import has warned that it left the search index behind
                \* and no later transaction has derived the index anew
  lock,         \* the relation's ShardedLock: who holds it shared, who exclusively
  building,     \* index_builds_in_progress has the index
  proc,         \* the job of each thread, how far it is, and its transaction
  calls         \* calls made so far

vars == <<setting, rows, idx, cat, stranded, lock, building, proc, calls>>

Engine == INSTANCE Backends WITH Backend <- setting.engine

Ids == 1..MaxId
Entries == Keys \X Vals

\* What can be written, and so can conflict.
RowThing(k) == <<"row", k>>
IdxThing(id, e) == <<"idx", id, e>>
CatThing == <<"cat">>

NoCat == [pub |-> 0]
NoTx == [open |-> FALSE, stale |-> {}, row |-> [k \in Keys |-> Same], put |-> {}, del |-> {},
         cat |-> NoCat, locked |-> {}, warned |-> FALSE, heals |-> FALSE]
Idle == [job |-> "idle", pc |-> 0, tx |-> NoTx, id |-> 0, seen |-> {}]

EntriesOf(r) == {<<k, r[k]>> : k \in {j \in Keys : r[j] # 0}}

(***************************************************************************)
(* The jobs, by their steps.                                               *)
(***************************************************************************)
\* execute_single: the lock is held from before the transaction until after it.
Single == <<"Shared", "Open", "Write", "Commit", "Release">>

\* run_governed_transaction: the lock is held while the query runs.
Governed == <<"Open", "Shared", "Write", "Release", "Commit">>

\* run_multi_transaction: the lock is looked up and never taken.
Multi == <<"Open", "Write", "Commit">>

\* execute_imperative, with an index created in the script: its system operations
\* run with skip_locking.
Script == <<"Shared", "Open", "Create", "Write", "Commit", "Release">>

\* import_relations.
Import == <<"Shared", "Open", "Import", "Commit", "Release">>

\* run_sys_op: the lock is given back when the operation returns, and then the
\* transaction commits. ::index create, ::fts create, ::lsh create and, on
\* engines without SST ingest, ::hnsw create.
SysCreate == <<"Open", "Exclusive", "Create", "Release", "Commit">>

\* ::reindex.
SysReindex == <<"Open", "Exclusive", "Reindex", "Release", "Commit">>

\* ::index drop.
SysDrop == <<"Open", "Shared", "Drop", "Release", "Commit">>

Nonblocking_UnlockedPublish ==
  <<"Enlist", "Exclusive", "Open", "Prepare", "Commit", "Release", "Scan", "Ingest",
    "Open", "Reconcile", "Commit", "Release", "Delist">>

\* create_hnsw_index_nonblocking, phases A to D.
Nonblocking ==
  <<"Enlist", "Exclusive", "Open", "Prepare", "Commit", "Release", "Scan", "Ingest",
    "Exclusive", "Open", "Reconcile", "Commit", "Release", "Delist">>

Program ==
  [single |-> Single, governed |-> Governed, multi |-> Multi, script |-> Script,
   import |-> Import, create |-> SysCreate, reindex |-> SysReindex, drop |-> SysDrop,
   hnsw |-> Nonblocking]

At(p, step) == proc[p].job # "idle" /\ Program[proc[p].job][proc[p].pc] = step

\* One step on, with what the step made of the thread's state q.
Advance(p, q) ==
  proc' = [proc EXCEPT ![p] =
    IF q.pc = Len(Program[q.job]) THEN Idle ELSE [q EXCEPT !.pc = @ + 1]]

Init ==
  /\ setting \in Settings
  /\ rows \in [Keys -> Vals \union {0}]
  /\ idx = [i \in Ids |-> {}]
  /\ cat = [pub |-> 0, kind |-> "tree", named |-> 0, next |-> 1]
  /\ stranded = FALSE
  /\ lock = [shared |-> {}, excl |-> Nobody]
  /\ building = FALSE
  /\ proc = [p \in Procs |-> Idle]
  /\ calls = 0

Call(p, job) ==
  /\ proc[p].job = "idle" /\ calls < MaxJobs
  /\ calls' = calls + 1
  /\ proc' = [proc EXCEPT ![p] = [Idle EXCEPT !.job = job, !.pc = 1]]
  /\ UNCHANGED <<setting, rows, idx, cat, stranded, lock, building>>

(***************************************************************************)
(* The relation's lock.                                                    *)
(***************************************************************************)
Shared(p) ==
  /\ At(p, "Shared") /\ lock.excl = Nobody
  /\ lock' = [lock EXCEPT !.shared = @ \union {p}]
  /\ Advance(p, proc[p])
  /\ UNCHANGED <<setting, rows, idx, cat, stranded, building, calls>>

Exclusive(p) ==
  /\ At(p, "Exclusive") /\ lock.excl = Nobody /\ lock.shared = {}
  /\ lock' = [lock EXCEPT !.excl = p]
  /\ Advance(p, proc[p])
  /\ UNCHANGED <<setting, rows, idx, cat, stranded, building, calls>>

Without(p) == [shared |-> lock.shared \ {p}, excl |-> IF lock.excl = p THEN Nobody ELSE lock.excl]

Release(p) ==
  /\ At(p, "Release")
  /\ lock' = Without(p)
  /\ Advance(p, proc[p])
  /\ UNCHANGED <<setting, rows, idx, cat, stranded, building, calls>>

(***************************************************************************)
(* The transaction.                                                        *)
(***************************************************************************)
OpenTxs == {p \in Procs : proc[p].tx.open}

\* transact_write, which waits on engines with a store-wide lock.
Open(p) ==
  /\ At(p, "Open")
  /\ Engine!Exclusive => OpenTxs = {}
  /\ Advance(p, [proc[p] EXCEPT !.tx = [NoTx EXCEPT !.open = TRUE]])
  /\ UNCHANGED <<setting, rows, idx, cat, stranded, lock, building, calls>>

\* Reads go through the transaction's own writes to the latest committed state.
Row(tx, k) == IF tx.row[k] = Same THEN rows[k] ELSE tx.row[k]
RowsSeen(tx) == [k \in Keys |-> Row(tx, k)]
Cat(tx) == IF tx.cat = NoCat THEN cat ELSE tx.cat
Put(tx, id, es) ==
  [tx EXCEPT !.put = @ \union {IdxThing(id, e) : e \in es}, !.del = @ \ {IdxThing(id, e) : e \in es}]
Del(tx, id, es) ==
  [tx EXCEPT !.put = @ \ {IdxThing(id, e) : e \in es}, !.del = @ \union {IdxThing(id, e) : e \in es}]
IdxSeen(tx, id) ==
  {e \in Entries : IdxThing(id, e) \in tx.put \/ (e \in idx[id] /\ IdxThing(id, e) \notin tx.del)}

Written(tx) ==
  {RowThing(k) : k \in {j \in Keys : tx.row[j] # Same}} \union tx.put \union tx.del
    \union (IF tx.cat = NoCat THEN {} ELSE {CatThing})

Fail_KeepsLock(p) ==
  /\ proc' = [proc EXCEPT ![p] = Idle]
  /\ UNCHANGED lock
  /\ building' = (building /\ proc[p].job # "hnsw")
  /\ UNCHANGED <<setting, rows, idx, cat, stranded, calls>>

\* An error drops the transaction, the lock and the in-progress mark.
Fail(p) ==
  /\ proc' = [proc EXCEPT ![p] = Idle]
  /\ lock' = Without(p)
  /\ building' = (building /\ proc[p].job # "hnsw")
  /\ UNCHANGED <<setting, rows, idx, cat, stranded, calls>>

\* Anything a statement does may fail (a bad value, an I/O error, a lost lock);
\* a commit may too, except where the engine has nobody to conflict with.
Abort(p) ==
  /\ proc[p].tx.open
  /\ At(p, "Commit") => ~Engine!Exclusive
  /\ ~At(p, "Release")
  /\ Fail(p)

Commit(p) ==
  LET q == proc[p]
      tx == q.tx
  IN  /\ At(p, "Commit")
      /\ ~Engine!Validates \/ (Written(tx) \union tx.locked) \intersect tx.stale = {}
      /\ rows' = RowsSeen(tx)
      /\ idx' = [i \in Ids |-> IdxSeen(tx, i)]
      /\ cat' = Cat(tx)
      /\ stranded' = (tx.warned \/ (stranded /\ ~tx.heals))
      /\ LET others == [r \in Procs |->
               IF r # p /\ proc[r].tx.open
               THEN [proc[r] EXCEPT !.tx.stale = @ \union Written(tx),
                                    !.tx.heals = @ /\ ~tx.warned]
               ELSE proc[r]]
             done == [q EXCEPT !.tx = NoTx, !.pc = @ + 1]
         IN  proc' = [others EXCEPT ![p] = IF q.pc = Len(Program[q.job]) THEN Idle ELSE done]
      /\ UNCHANGED <<setting, lock, building, calls>>

\* RocksDB refuses a write whose key was written since the transaction opened;
\* here the conflict is found at the latest point it can be.
Conflict(p) ==
  /\ At(p, "Commit") /\ Engine!Validates
  /\ (Written(proc[p].tx) \union proc[p].tx.locked) \intersect proc[p].tx.stale # {}
  /\ Fail(p)

(***************************************************************************)
(* What statements do.                                                     *)
(***************************************************************************)
InTx(p, step, tx) ==
  /\ At(p, step) /\ Advance(p, [proc[p] EXCEPT !.tx = tx])
  /\ UNCHANGED <<setting, rows, idx, cat, stranded, lock, building, calls>>

WithRow(tx, k, v) == [tx EXCEPT !.row[k] = v]

\* The entry of the row's old value, when it changed, and of its new one.
WithEntry(tx, k, v) ==
  LET id == Cat(tx).pub
      old == IF Row(tx, k) \in {0, v} THEN {} ELSE {<<k, Row(tx, k)>>}
      new == IF v = 0 THEN {} ELSE {<<k, v>>}
  IN  Put(Del(tx, id, old), id, new)

\* :put and :rm (v = 0): put_into_relation, remove_from_relation.
Write(p, k, v) ==
  LET tx == proc[p].tx
  IN  InTx(p, "Write", WithRow(IF Cat(tx).pub = 0 THEN tx ELSE WithEntry(tx, k, v), k, v))

\* import_relations: plain indexes are kept, search indexes are left behind with
\* a warning.
ImportRow(p, k, v) ==
  LET tx == proc[p].tx
      c == Cat(tx)
  IN  InTx(p, "Import",
        CASE c.pub = 0 -> WithRow(tx, k, v)
          [] c.pub # 0 /\ c.kind = "tree" -> WithRow(WithEntry(tx, k, v), k, v)
          [] OTHER -> [WithRow(tx, k, v) EXCEPT !.warned = TRUE])

\* get_relation(.., true): the relation's catalog row is read for update, which on
\* RocksDB waits for (or times out on) the transaction that has it locked.
CatFree(p) ==
  Engine!Pessimistic => \A r \in Procs \ {p} : CatThing \notin proc[r].tx.locked

\* write_idx_relation: a fresh id, under the index's name, whatever is there.
Named(c) == [c EXCEPT !.named = c.next, !.next = @ + 1]

\* create_index, create_fts_index, create_minhash_lsh_index, create_hnsw_index.
Create(p, kind) ==
  LET tx == proc[p].tx
      c == Cat(tx)
  IN  /\ CatFree(p) /\ c.pub = 0 /\ c.next \in Ids
      /\ InTx(p, "Create",
           [Put(tx, c.next, EntriesOf(RowsSeen(tx))) EXCEPT
              !.cat = [Named(c) EXCEPT !.pub = c.next, !.kind = kind],
              !.locked = @ \union {CatThing}, !.heals = TRUE])

\* reindex_relation: the entries of a search index deleted and derived again.
Reindex(p) ==
  LET tx == proc[p].tx
      c == Cat(tx)
  IN  /\ CatFree(p)
      /\ InTx(p, "Reindex",
           IF c.pub = 0 \/ c.kind = "tree" THEN [tx EXCEPT !.locked = @ \union {CatThing}]
           ELSE [Put(Del(tx, c.pub, IdxSeen(tx, c.pub)), c.pub, EntriesOf(RowsSeen(tx))) EXCEPT
                   !.locked = @ \union {CatThing}, !.heals = TRUE])

\* remove_index: the relation under the index's name is destroyed with its rows.
Drop(p) ==
  LET tx == proc[p].tx
      c == Cat(tx)
  IN  /\ CatFree(p) /\ c.pub # 0 /\ c.named # 0
      /\ InTx(p, "Drop",
           [Del(tx, c.named, IdxSeen(tx, c.named)) EXCEPT
              !.cat = [c EXCEPT !.pub = 0, !.named = 0],
              !.locked = @ \union {CatThing}])

\* The index exists already, or does not: the statement bails.
Refuse(p) ==
  /\ CatFree(p)
  /\ \/ (At(p, "Create") \/ At(p, "Prepare")) /\ Cat(proc[p].tx).pub # 0
     \/ At(p, "Drop") /\ (Cat(proc[p].tx).pub = 0 \/ Cat(proc[p].tx).named = 0)
  /\ Fail(p)

(***************************************************************************)
(* create_hnsw_index_nonblocking.                                          *)
(***************************************************************************)
Enlist_Unguarded(p) ==
  /\ At(p, "Enlist")
  /\ building' = TRUE /\ Advance(p, proc[p])
  /\ UNCHANGED <<setting, rows, idx, cat, stranded, lock, calls>>

\* The index is marked as being built; a second build of it is refused.
Enlist(p) ==
  /\ At(p, "Enlist")
  /\ IF building
     THEN proc' = [proc EXCEPT ![p] = Idle] /\ UNCHANGED building
     ELSE building' = TRUE /\ Advance(p, proc[p])
  /\ UNCHANGED <<setting, rows, idx, cat, stranded, lock, calls>>

Delist(p) ==
  /\ At(p, "Delist") /\ building' = FALSE /\ Advance(p, proc[p])
  /\ UNCHANGED <<setting, rows, idx, cat, stranded, lock, calls>>

\* Phase A: the empty index relation.
Prepare(p) ==
  LET q == proc[p]
      c == Cat(q.tx)
  IN  /\ At(p, "Prepare") /\ CatFree(p) /\ c.pub = 0 /\ c.next \in Ids
      /\ Advance(p, [q EXCEPT !.id = c.next, !.tx.cat = Named(c),
                              !.tx.locked = @ \union {CatThing}])
      /\ UNCHANGED <<setting, rows, idx, cat, stranded, lock, building, calls>>

\* Phases B and C: the rows in one snapshot; then the graph of them, straight into
\* the store.
Scan(p) ==
  /\ At(p, "Scan")
  /\ Advance(p, [proc[p] EXCEPT !.seen = EntriesOf(rows)])
  /\ UNCHANGED <<setting, rows, idx, cat, stranded, lock, building, calls>>

Ingest(p) ==
  /\ At(p, "Ingest")
  /\ idx' = [idx EXCEPT ![proc[p].id] = @ \union proc[p].seen]
  /\ Advance(p, proc[p])
  /\ UNCHANGED <<setting, rows, cat, stranded, lock, building, calls>>

\* Phase D: lost to another index of the name, whose build is undone; or the
\* difference to the snapshot, and the index in the relation's handle.
Reconcile(p) ==
  LET q == proc[p]
      c == Cat(q.tx)
      now == EntriesOf(RowsSeen(q.tx))
  IN  /\ CatFree(p)
      /\ IF c.pub # 0
         THEN InTx(p, "Reconcile", [Del(q.tx, q.id, IdxSeen(q.tx, q.id)) EXCEPT
                                      !.locked = @ \union {CatThing}])
         ELSE InTx(p, "Reconcile",
                [Put(Del(q.tx, q.id, q.seen \ now), q.id, now \ q.seen) EXCEPT
                   !.cat = [c EXCEPT !.pub = q.id, !.kind = "search"],
                   !.locked = @ \union {CatThing}, !.heals = TRUE])

\* The process dies: what is committed or ingested stays.
Crash ==
  /\ ~Engine!WriteThrough
  /\ \E p \in Procs : proc[p].job # "idle"
  /\ proc' = [p \in Procs |-> Idle]
  /\ lock' = [shared |-> {}, excl |-> Nobody]
  /\ building' = FALSE
  /\ UNCHANGED <<setting, rows, idx, cat, stranded, calls>>

Step(p) ==
  \/ Shared(p) \/ Exclusive(p) \/ Release(p) \/ Open(p) \/ Commit(p) \/ Conflict(p)
  \/ \E k \in Keys, v \in Vals \union {0} : Write(p, k, v) \/ ImportRow(p, k, v)
  \/ \E kind \in {"tree", "search"} : Create(p, kind)
  \/ Reindex(p) \/ Drop(p) \/ Refuse(p)
  \/ Enlist(p) \/ Prepare(p) \/ Scan(p) \/ Ingest(p) \/ Reconcile(p) \/ Delist(p)

Next ==
  \/ \E p \in Procs : (\E job \in setting.jobs : Call(p, job)) \/ Step(p) \/ Abort(p)
  \/ Crash

Spec == Init /\ [][Next]_vars

\* A running thread runs on, and a lock is given to some waiting thread.
Fairness == \A p \in Procs : WF_vars(Step(p))

FairSpec == Spec /\ Fairness

(***************************************************************************)
(* Properties.                                                             *)
(***************************************************************************)
\* A published index has an entry for every row and none besides ("a reader can
\* never observe the index before its keys exist"), whatever wrote while it was
\* built; only a bulk import that warned leaves it behind, until ::reindex.
IndexComplete ==
  cat.pub # 0 /\ ~stranded => idx[cat.pub] = EntriesOf(rows)

\* The index in the relation's handle is the relation the catalog has under the
\* index's name, so that ::index drop removes what is published.
PublishedIsNamed ==
  cat.pub # 0 => cat.named = cat.pub

\* Every call returns: no two of them wait for each other, and an error or a crash
\* leaves no lock behind. On engines whose transactions do not exclude each other.
CallsEnd ==
  \A p \in Procs :
    proc[p].job # "idle" /\ ~Engine!Exclusive ~> proc[p].job = "idle"

\* db.rs on ::reindex: "On a large relation this blocks that relation for the
\* duration". What it blocks it blocks for no longer: every call returns, on
\* engines with a store-wide lock too.
BlockedForTheDuration ==
  \A p \in Procs : proc[p].job # "idle" ~> proc[p].job = "idle"
=============================================================================
