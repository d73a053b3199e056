--------------------------- MODULE ProjectionCache ---------------------------
(***************************************************************************)
(* The cached graph projections of runtime/graph_projection.rs, together   *)
(* with the part of SessionTx (runtime/transact.rs) that keeps them fresh: *)
(* watermark captured before the storage snapshot, dirty set, commit       *)
(* bracketed by begin_commit and finish_commit, bump on abort.             *)
(*                                                                         *)
(* A content is abstracted to a relation id and a version.  A lookup is    *)
(* the sequence of steps graph_source takes between lock acquisitions.     *)
(* rel_states is the pair token, inflight; an absent entry is <<0, 0>>.    *)
(***************************************************************************)
EXTENDS Naturals, FiniteSets, Backends

CONSTANTS Txs,          \* concurrent SessionTx slots
          Names,        \* names of stored relations
          Projections,  \* names of graph projections
          Variants,     \* VariantKey: (weighted, undirected)
          Sources,      \* possible source names of a definition
          Sizes,        \* possible est_bytes of a built variant
          Capacities,   \* byte ceilings set_capacity is called with
          Catalog0,     \* the catalog found on disk when the Db opens
          Writers,      \* the slots that may open a write transaction
          Readers,      \* the slots whose queries may use a projection
          Ops,          \* the kinds of operations clients issue
          MaxId, MaxSeq, MaxGen,    \* bounds on ids, on bump_seq, on def_seq
          None                      \* no transaction, name, entry, ...

VARIABLES catalog, version, relation_store_id,   \* the store, the id counter
          bump_seq, token, inflight,             \* the freshness state
          tx, look, answer,                      \* per transaction
          defs, def_seq,                         \* definitions
          entries, registry, entry_count,        \* cached variants, mirror
          build_slots, restoring

storeVars == <<catalog, version, relation_store_id>>
freshVars == <<bump_seq, token, inflight>>
defVars == <<defs, def_seq>>
cacheVars == <<defVars, entries, registry, entry_count>>
vars == <<storeVars, freshVars, tx, look, answer, cacheVars, build_slots, restoring>>

NoId == 0
Ids == 1 .. MaxId
Slots == {"edges", "nodes"}
Keys == Projections \X Variants
BuildKeys == Projections \X (1 .. MaxGen) \X Variants

ASSUME ConstantsAssumption ==
  /\ IsFiniteSet(Txs) /\ None \notin Txs /\ Writers \subseteq Txs /\ Readers \subseteq Txs
  /\ MaxId \in Nat /\ MaxSeq \in Nat /\ MaxGen \in Nat
  /\ None \notin Names
  /\ Sources \subseteq [Slots -> Names \cup {None}]
  /\ Sizes \subseteq Nat \ {0} /\ Capacities \subseteq Nat
  /\ Catalog0 \in [Names -> Ids \cup {NoId}]

Versions == [Ids -> Nat]
Contents == [rel : Ids, ver : Nat, own : Txs \cup {None}] \cup {None}
Entries == [ids : [Slots -> Ids \cup {NoId}], tokens : [Slots -> Nat],
            content : [Slots -> Contents], est_bytes : Nat]

ASSUME NoneAssumption == None \notin Entries

Phases == {"idle", "opening", "open", "ending", "begun", "stored", "aborted",
           "bumping", "sweeping"}
Steps == {"idle", "consume", "door2", "queued", "decide", "build", "produce",
          "insert", "unlock", "release", "alone", "return"}

IdleTx == [phase |-> "idle", write |-> FALSE, watermark |-> 0,
           cat |-> [n \in Names |-> NoId], ver |-> [r \in Ids |-> 0],
           own |-> [n \in Names |-> NoId], touched |-> {},
           dirty |-> {}, clean |-> {}, todo |-> {}, raised |-> FALSE]

IdleLook == [at |-> "idle", key |-> None, gen |-> 0, slot |-> None,
             ids |-> [s \in Slots |-> NoId], tokens |-> [s \in Slots |-> 0],
             built |-> [s \in Slots |-> None], est_bytes |-> 0, alone |-> FALSE]

TxType ==
  [phase : Phases, write : BOOLEAN, watermark : Nat,
   cat : [Names -> Ids \cup {NoId}], ver : Versions,
   own : [Names -> Ids \cup {NoId}], touched : SUBSET Names,
   dirty : SUBSET Ids, clean : SUBSET Ids, todo : SUBSET Ids, raised : BOOLEAN]

LookType ==
  [at : Steps, key : Keys \cup {None}, gen : Nat, slot : Txs \cup {None},
   ids : [Slots -> Ids \cup {NoId}], tokens : [Slots -> Nat],
   built : [Slots -> Contents], est_bytes : Nat, alone : BOOLEAN]

CoreTypeOK ==
  /\ catalog \in [Names -> Ids \cup {NoId}]
  /\ version \in Versions
  /\ relation_store_id \in Ids \cup {NoId}
  /\ bump_seq \in Nat
  /\ token \in Versions
  /\ inflight \in Versions
  /\ tx \in [Txs -> TxType]
  /\ look \in [Txs -> LookType]
  /\ answer \in [Txs -> [Slots -> Contents] \cup {None}]
  /\ defs \in [Projections -> [gen : 1 .. MaxGen, src : Sources] \cup {None}]
  /\ def_seq \in 0 .. MaxGen
  /\ entries \in [Keys -> Entries \cup {None}]
  /\ build_slots \in [BuildKeys -> Txs \cup {None}]

-----------------------------------------------------------------------------
(* What a transaction sees. *)

Pinned(t) == tx[t].phase \notin {"idle", "opening"}

\* The content version of r under t's scans.
ScanVersion(t, r) == IF PinsSnapshot(tx[t].write) THEN tx[t].ver[r] ELSE version[r]

\* A scan of r by t, its own uncommitted writes included.
Scan(t, r) ==
  IF r = NoId THEN None
  ELSE [rel |-> r, ver |-> ScanVersion(t, r), own |-> IF r \in tx[t].dirty THEN t ELSE None]

\* The id t's own catalog gives to a name.
Resolve(t, n) ==
  IF n = None THEN NoId
  ELSE IF n \in tx[t].touched THEN tx[t].own[n]
  ELSE IF PinsSnapshot(tx[t].write) THEN tx[t].cat[n] ELSE catalog[n]

SourceIds(f) == {f[s] : s \in Slots} \ {NoId}

\* FRESH(T, R), and its conjunction over a source set.
Fresh(t, r) == inflight[r] = 0 /\ token[r] <= tx[t].watermark
AllFresh(t) == \A r \in SourceIds(look[t].ids) : Fresh(t, r)

\* The two mutexes that are held across steps of this model: rel_states by a
\* transaction minting the tokens of its dirty set, registry by an insert.
StatesFree == \A t \in Txs : tx[t].phase # "bumping"
RegistryFree == \A t \in Txs : look[t].at # "insert"

-----------------------------------------------------------------------------
(* SessionTx: opening, statements, commit, abort. *)

Init ==
  /\ catalog = Catalog0
  /\ version = [r \in Ids |-> 0]
  /\ relation_store_id \in {Catalog0[n] : n \in Names} \cup {NoId}
  /\ \A n \in Names : Catalog0[n] <= relation_store_id
  /\ bump_seq = 0
  /\ token = [r \in Ids |-> 0]
  /\ inflight = [r \in Ids |-> 0]
  /\ tx = [t \in Txs |-> IdleTx]
  /\ look = [t \in Txs |-> IdleLook]
  /\ answer = [t \in Txs |-> None]
  /\ defs = [g \in Projections |-> None]
  /\ def_seq = 0
  /\ entries = [k \in Keys |-> None]
  /\ registry \in [capacity : Capacities, used_bytes : {0},
                   recency : {[k \in Keys |-> 0]}]
  /\ entry_count = 0
  /\ build_slots = [b \in BuildKeys |-> None]
  /\ restoring = FALSE

\* Db::transact and Db::transact_write: the watermark first ...
LoadWatermark(t, w) ==
  /\ tx[t].phase = "idle"
  /\ w => t \in Writers /\ bump_seq < MaxSeq
  /\ tx' = [tx EXCEPT ![t] = [IdleTx EXCEPT !.phase = "opening", !.write = w,
                                            !.watermark = bump_seq]]
  /\ UNCHANGED <<storeVars, freshVars, look, answer, cacheVars, build_slots, restoring>>

\* ... then the storage transaction, whose constructor pins the snapshot.
Pin(t) ==
  /\ tx[t].phase = "opening"
  /\ Exclusive => \A u \in Txs : Pinned(u) => ~tx[u].write /\ ~tx[t].write
  /\ tx' = [tx EXCEPT ![t].phase = "open", ![t].cat = catalog, ![t].ver = version]
  /\ UNCHANGED <<storeVars, freshVars, look, answer, cacheVars, build_slots, restoring>>

Active(t) == tx[t].phase = "open" /\ look[t].at = "idle"
Statement(t) == Active(t) /\ tx[t].write

\* Any mutation statement on an existing relation: mark_dirty at its entry.
Write(t, n) ==
  /\ Statement(t)
  /\ Resolve(t, n) # NoId
  /\ tx' = [tx EXCEPT ![t].dirty = @ \cup {Resolve(t, n)}]
  /\ UNCHANGED <<storeVars, freshVars, look, answer, cacheVars, build_slots, restoring>>

\* :create, and the second half of :replace.
NewId == relation_store_id + 1

Create(t, n) ==
  /\ Statement(t)
  /\ Resolve(t, n) = NoId
  /\ NewId \in Ids
  /\ relation_store_id' = NewId
  /\ tx' = [tx EXCEPT ![t].own[n] = NewId, ![t].touched = @ \cup {n},
                      ![t].dirty = @ \cup {NewId}]
  /\ UNCHANGED <<catalog, version, freshVars, look, answer, cacheVars, build_slots, restoring>>

\* :replace of an existing relation; its rows go when the script ends.
Replace(t, n) ==
  /\ Statement(t)
  /\ Resolve(t, n) # NoId
  /\ NewId \in Ids
  /\ relation_store_id' = NewId
  /\ tx' = [tx EXCEPT ![t].own[n] = NewId, ![t].touched = @ \cup {n},
                      ![t].dirty = @ \cup {NewId, Resolve(t, n)},
                      ![t].clean = @ \cup {Resolve(t, n)}]
  /\ UNCHANGED <<catalog, version, freshVars, look, answer, cacheVars, build_slots, restoring>>

\* del_range_from_persisted over the ids in R.
RangeDeleted(R) ==
  [r \in Ids |-> IF WriteThrough /\ r \in R THEN version[r] + 1 ELSE version[r]]

\* ::remove deletes the rows at once.
Remove(t, n) ==
  /\ Statement(t)
  /\ Resolve(t, n) # NoId
  /\ version' = RangeDeleted({Resolve(t, n)})
  /\ tx' = [tx EXCEPT ![t].own[n] = NoId, ![t].touched = @ \cup {n},
                      ![t].dirty = @ \cup {Resolve(t, n)}]
  /\ UNCHANGED <<catalog, relation_store_id, freshVars, look, answer, cacheVars,
                 build_slots, restoring>>

\* ::rename keeps the id and marks nothing dirty.
Rename(t, n, m) ==
  /\ Statement(t)
  /\ Resolve(t, n) # NoId /\ Resolve(t, m) = NoId
  /\ tx' = [tx EXCEPT ![t].own = [@ EXCEPT ![n] = NoId, ![m] = Resolve(t, n)],
                      ![t].touched = @ \cup {n, m}]
  /\ UNCHANGED <<storeVars, freshVars, look, answer, cacheVars, build_slots, restoring>>

\* The script is over: the cleanups it collected run before the commit.
Cleanup(t) ==
  /\ Active(t) /\ tx[t].dirty # {}
  /\ version' = RangeDeleted(tx[t].clean)
  /\ tx' = [tx EXCEPT ![t].phase = "ending"]
  /\ UNCHANGED <<catalog, relation_store_id, freshVars, look, answer, cacheVars,
                 build_slots, restoring>>

Conflict(t) == Validates /\ \E n \in tx[t].touched : catalog[n] # tx[t].cat[n]
CommittedCatalog(t) == [n \in Names |-> IF n \in tx[t].touched THEN tx[t].own[n] ELSE catalog[n]]

\* The transaction is dropped: its locks and its snapshot go.
Ended(t) == tx' = [tx EXCEPT ![t] = IdleTx]

\* commit_tx with an empty dirty set: no token moves.
CommitClean(t) ==
  /\ Active(t) /\ tx[t].dirty = {} /\ ~Conflict(t)
  /\ catalog' = CommittedCatalog(t)
  /\ Ended(t)
  /\ UNCHANGED <<version, relation_store_id, freshVars, look, answer, cacheVars, build_slots,
                 restoring>>

\* Dropped, or failed to commit, with an empty dirty set.
DropClean(t) ==
  /\ Active(t) /\ tx[t].dirty = {}
  /\ Ended(t)
  /\ UNCHANGED <<storeVars, freshVars, look, answer, cacheVars, build_slots, restoring>>

\* Mutant: the commit does not announce itself.
BeginCommit_NotRaised(t) ==
  /\ tx[t].phase = "ending" /\ StatesFree
  /\ tx' = [tx EXCEPT ![t].phase = "begun", ![t].todo = tx[t].dirty]
  /\ UNCHANGED <<storeVars, freshVars, look, answer, cacheVars, build_slots, restoring>>

BeginCommit(t) ==
  /\ tx[t].phase = "ending" /\ StatesFree
  /\ inflight' = [r \in Ids |-> IF r \in tx[t].dirty THEN inflight[r] + 1 ELSE inflight[r]]
  /\ tx' = [tx EXCEPT ![t].phase = "begun", ![t].todo = tx[t].dirty, ![t].raised = TRUE]
  /\ UNCHANGED <<storeVars, bump_seq, token, look, answer, cacheVars, build_slots, restoring>>

\* commit_tx_inner: the storage commit, in one step.
StoreCommit(t) ==
  /\ tx[t].phase = "begun" /\ ~Conflict(t)
  /\ catalog' = CommittedCatalog(t)
  /\ version' = [r \in Ids |-> IF r \in tx[t].dirty THEN version[r] + 1 ELSE version[r]]
  /\ tx' = [tx EXCEPT ![t].phase = "stored"]
  /\ UNCHANGED <<relation_store_id, freshVars, look, answer, cacheVars, build_slots, restoring>>

\* Mutant: the error returns before finish_commit.
StoreCommitFails_EarlyReturn(t) ==
  /\ tx[t].phase = "begun"
  /\ Ended(t)
  /\ UNCHANGED <<storeVars, freshVars, look, answer, cacheVars, build_slots, restoring>>

\* Mutant: a failed commit changed nothing, so no token has to move.
StoreCommitFails_LowersOnly(t) ==
  /\ tx[t].phase = "begun"
  /\ inflight' = [r \in Ids |-> IF r \in tx[t].todo THEN inflight[r] - 1 ELSE inflight[r]]
  /\ Ended(t)
  /\ UNCHANGED <<storeVars, token, bump_seq, look, answer, cacheVars, build_slots, restoring>>

\* It fails, or a panic unwinds through it: Drop finds commit_inflight set.
StoreCommitFails(t) ==
  /\ tx[t].phase = "begun"
  /\ tx' = [tx EXCEPT ![t].phase = "stored"]
  /\ UNCHANGED <<storeVars, freshVars, look, answer, cacheVars, build_slots, restoring>>

\* Mutant: a dropped transaction changed nothing, so no token has to move.
Abort_NoBump(t) ==
  /\ Active(t) \/ tx[t].phase = "ending"
  /\ tx[t].dirty # {}
  /\ Ended(t)
  /\ UNCHANGED <<storeVars, freshVars, look, answer, cacheVars, build_slots, restoring>>

\* Dropped without reaching commit_tx: Drop calls bump_aborted.
Abort(t) ==
  /\ Active(t) \/ tx[t].phase = "ending"
  /\ tx[t].dirty # {}
  /\ tx' = [tx EXCEPT ![t].phase = "aborted", ![t].todo = tx[t].dirty]
  /\ UNCHANGED <<storeVars, freshVars, look, answer, cacheVars, build_slots, restoring>>

\* Mutant: the tokens wait until no other transaction is open.
BumpToken_WaitsForReaders(t) ==
  /\ tx[t].phase \in {"stored", "aborted", "bumping"}
  /\ \A u \in Txs \ {t} : tx[u].phase = "idle"
  /\ bump_seq' = bump_seq + 1
  /\ token' = [r \in Ids |-> IF r \in tx[t].todo THEN bump_seq + 1 ELSE token[r]]
  /\ inflight' = [r \in Ids |-> IF r \in tx[t].todo THEN 0 ELSE inflight[r]]
  /\ tx' = [tx EXCEPT ![t].todo = {}, ![t].phase = "sweeping"]
  /\ UNCHANGED <<storeVars, look, answer, cacheVars, build_slots, restoring>>

\* finish_commit and bump_aborted mint one token after another, in id order,
\* under the rel_states mutex; watermark() does not take that mutex.
BumpToken(t) ==
  /\ \/ tx[t].phase \in {"stored", "aborted"} /\ StatesFree
     \/ tx[t].phase = "bumping"
  /\ \E r \in tx[t].todo :
       /\ \A q \in tx[t].todo : r <= q
       /\ bump_seq' = bump_seq + 1
       /\ token' = [token EXCEPT ![r] = bump_seq + 1]
       /\ inflight' = [inflight EXCEPT ![r] = IF tx[t].raised /\ @ > 0 THEN @ - 1 ELSE @]
       /\ tx' = [tx EXCEPT ![t].todo = @ \ {r},
                           ![t].phase = IF tx[t].todo = {r} THEN "sweeping" ELSE "bumping"]
  /\ UNCHANGED <<storeVars, look, answer, cacheVars, build_slots, restoring>>

-----------------------------------------------------------------------------
(* Registry: the cached variants, their byte accounting and LRU order. *)

Cached(es) == {k \in Keys : es[k] # None}

\* The sum of est_bytes over K, as the number of its single bytes.
Bytes(es, K) == Cardinality(UNION {{k} \X (1 .. es[k].est_bytes) : k \in K})

Without(es, K) == [k \in Keys |-> IF k \in K THEN None ELSE es[k]]
Less(a, b) == IF a > b THEN a - b ELSE 0     \* saturating_sub

\* lru_seq only orders the entries: recency[k] = 0 is the last one used.
Touched(k) ==
  [j \in Keys |-> IF j = k THEN 0
                  ELSE IF registry.recency[j] <= registry.recency[k]
                  THEN registry.recency[j] + 1 ELSE registry.recency[j]]

\* evict_until: a variant goes when, with all older ones gone, the cache is
\* still over the target; used_bytes restarts from 0 if nothing is left to evict.
EvictUntil(es, used, target) ==
  LET older(k) == {j \in Cached(es) : registry.recency[j] > registry.recency[k]}
      victims == {k \in Cached(es) : Less(used, Bytes(es, older(k))) > target}
      left == Less(used, Bytes(es, victims))
  IN [entries |-> Without(es, victims), used_bytes |-> IF left > target THEN 0 ELSE left]

\* Drop the variants in K and publish the count.
Forget(K) ==
  /\ entries' = Without(entries, K)
  /\ registry' = [registry EXCEPT !.used_bytes = Less(@, Bytes(entries, K \cap Cached(entries)))]
  /\ entry_count' = Cardinality(Cached(entries) \ K)

SourcedOn(R) == {k \in Cached(entries) : SourceIds(entries[k].ids) \cap R # {}}

\* drop_entries_sourced_on, skipped when the mirror says the cache is empty;
\* with it the transaction ends.
SweepSkipped(t) ==
  /\ tx[t].phase = "sweeping" /\ entry_count = 0
  /\ Ended(t)
  /\ UNCHANGED <<storeVars, freshVars, look, answer, cacheVars, build_slots, restoring>>

Sweep(t) ==
  /\ tx[t].phase = "sweeping" /\ entry_count # 0 /\ RegistryFree
  /\ Forget(SourcedOn(tx[t].dirty))
  /\ Ended(t)
  /\ UNCHANGED <<storeVars, freshVars, look, answer, defVars, build_slots, restoring>>

\* ::graph create, run in a transaction that resolves every source.
CreateProjection(t, g, f) ==
  /\ Active(t) /\ RegistryFree
  /\ defs[g] = None /\ def_seq < MaxGen
  /\ \A s \in Slots : f[s] # None => Resolve(t, f[s]) # NoId
  /\ def_seq' = def_seq + 1
  /\ defs' = [defs EXCEPT ![g] = [gen |-> def_seq + 1, src |-> f]]
  /\ UNCHANGED <<storeVars, freshVars, tx, look, answer, entries, registry, entry_count,
                 build_slots, restoring>>

DropProjection(g) ==
  /\ RegistryFree
  /\ defs[g] # None
  /\ defs' = [defs EXCEPT ![g] = None]
  /\ Forget({k \in Keys : k[1] = g})
  /\ UNCHANGED <<storeVars, freshVars, tx, look, answer, def_seq, build_slots, restoring>>

\* Mutant: the new ceiling is recorded and nothing is evicted.
SetCapacity_KeepsEntries(c) ==
  /\ RegistryFree
  /\ registry' = [registry EXCEPT !.capacity = c]
  /\ UNCHANGED <<storeVars, freshVars, tx, look, answer, defVars, entries, entry_count, build_slots, restoring>>

SetCapacity(c) ==
  /\ RegistryFree
  /\ LET kept == EvictUntil(entries, registry.used_bytes, c)
     IN /\ entries' = kept.entries
        /\ registry' = [registry EXCEPT !.capacity = c, !.used_bytes = kept.used_bytes]
        /\ entry_count' = Cardinality(Cached(kept.entries))
  /\ UNCHANGED <<storeVars, freshVars, tx, look, answer, defVars, build_slots, restoring>>

\* restore_backup calls invalidate_all before it refuses a store with data in
\* it: a token for every relation of the map, then clear_entries.
InvalidateAll ==
  LET known == {r \in Ids : token[r] > 0 \/ inflight[r] > 0}
      rank(r) == Cardinality({q \in known : q <= r})
  IN /\ ~restoring /\ StatesFree
     /\ known # {} /\ bump_seq < MaxSeq
     /\ bump_seq' = bump_seq + Cardinality(known)
     /\ token' = [r \in Ids |-> IF r \in known THEN bump_seq + rank(r) ELSE token[r]]
     /\ restoring' = TRUE
     /\ UNCHANGED <<storeVars, inflight, tx, look, answer, cacheVars, build_slots>>

ClearEntries ==
  /\ restoring /\ restoring' = FALSE
  /\ \/ entry_count = 0 /\ UNCHANGED cacheVars
     \/ /\ entry_count # 0 /\ RegistryFree
        /\ entries' = [k \in Keys |-> None]
        /\ registry' = [registry EXCEPT !.used_bytes = 0]
        /\ entry_count' = 0
        /\ UNCHANGED defVars
  /\ UNCHANGED <<storeVars, freshVars, tx, look, answer, build_slots>>

-----------------------------------------------------------------------------
(* graph_source, from the lookup of the definition to the answer. *)

BuildKey(t) == <<look[t].key[1], look[t].gen, look[t].key[2]>>

\* Mutant: door 1 is missing.
Lookup_NoDoor1(t, k) ==
  LET d == defs[k[1]]
      ids == [s \in Slots |-> Resolve(t, d.src[s])]
  IN /\ Active(t) /\ RegistryFree
     /\ d # None
     /\ \A s \in Slots : d.src[s] # None => ids[s] # NoId
     /\ look' = [look EXCEPT ![t] = [IdleLook EXCEPT !.key = k, !.gen = d.gen, !.ids = ids,
                                                     !.at = "consume"]]
     /\ UNCHANGED <<storeVars, freshVars, tx, answer, cacheVars, build_slots, restoring>>

\* The definition, its names resolved in t's own catalog, and door 1.
Lookup(t, k) ==
  LET d == defs[k[1]]
      ids == [s \in Slots |-> Resolve(t, d.src[s])]
  IN /\ Active(t) /\ RegistryFree
     /\ d # None
     /\ \A s \in Slots : d.src[s] # None => ids[s] # NoId
     /\ look' = [look EXCEPT ![t] =
          [IdleLook EXCEPT !.key = k, !.gen = d.gen, !.ids = ids,
             !.at = IF SourceIds(ids) \cap tx[t].dirty # {} THEN "alone" ELSE "consume"]]
     /\ UNCHANGED <<storeVars, freshVars, tx, answer, cacheVars, build_slots, restoring>>

\* Mutants of the consume rule: commits in flight are ignored; the entry is
\* taken for the name, whatever relation the name denotes now.
Hits_IgnoresInflight(t) ==
  LET d == defs[look[t].key[1]]
      e == entries[look[t].key]
      ids == look[t].ids
  IN /\ d # None /\ d.gen = look[t].gen
     /\ e # None /\ e.ids = ids
     /\ \A s \in Slots : ids[s] # NoId => /\ token[ids[s]] <= tx[t].watermark
                                          /\ token[ids[s]] = e.tokens[s]

\* The consume rule.
Hits(t) ==
  LET d == defs[look[t].key[1]]
      e == entries[look[t].key]
      ids == look[t].ids
  IN /\ d # None /\ d.gen = look[t].gen
     /\ e # None /\ e.ids = ids
     /\ \A s \in Slots : ids[s] # NoId => /\ Fresh(t, ids[s])
                                          /\ token[ids[s]] = e.tokens[s]

\* What a hit does: the entry becomes the last one used and is the answer.
Serve(t) ==
  /\ answer' = [answer EXCEPT ![t] = entries[look[t].key].content]
  /\ registry' = [registry EXCEPT !.recency = Touched(look[t].key)]

Consume(t) ==
  /\ look[t].at = "consume" /\ RegistryFree /\ StatesFree
  /\ \/ /\ Hits(t)
        /\ Serve(t)
        /\ look' = [look EXCEPT ![t].at = "return"]
     \/ /\ ~Hits(t)
        /\ look' = [look EXCEPT ![t].at = "door2"]
        /\ UNCHANGED <<answer, registry>>
  /\ UNCHANGED <<storeVars, freshVars, tx, defVars, entries, entry_count, build_slots, restoring>>

\* Door 2 and the switched-off cache lead to a build nobody else sees;
\* otherwise acquire_slot, creating the slot if the map has none.
Door2(t) ==
  /\ look[t].at = "door2" /\ StatesFree
  /\ \/ /\ ~AllFresh(t) \/ registry.capacity = 0
        /\ look' = [look EXCEPT ![t].at = "alone"]
        /\ UNCHANGED build_slots
     \/ /\ AllFresh(t) /\ registry.capacity # 0
        /\ LET b == BuildKey(t)
               slot == IF build_slots[b] = None THEN t ELSE build_slots[b]
           IN /\ build_slots' = [build_slots EXCEPT ![b] = slot]
              /\ look' = [look EXCEPT ![t].at = "queued", ![t].slot = slot]
  /\ UNCHANGED <<storeVars, freshVars, tx, answer, cacheVars, restoring>>

\* Lookups that hold a clone of slot x of b, and those that hold its mutex.
Clones(b, x) == {u \in Txs : look[u].slot = x /\ x # None /\ BuildKey(u) = b}
Holding == {"decide", "build", "produce", "insert", "unlock"}
Holders(b, x) == {u \in Clones(b, x) : look[u].at \in Holding}

\* The slot's mutex is free: run the consume rule again.
Wake(t) ==
  /\ look[t].at = "queued" /\ Holders(BuildKey(t), look[t].slot) = {}
  /\ RegistryFree /\ StatesFree
  /\ \/ /\ Hits(t)
        /\ Serve(t)
        /\ look' = [look EXCEPT ![t].at = "unlock"]
     \/ /\ ~Hits(t)
        /\ look' = [look EXCEPT ![t].at = "decide"]
        /\ UNCHANGED <<answer, registry>>
  /\ UNCHANGED <<storeVars, freshVars, tx, defVars, entries, entry_count, build_slots, restoring>>

\* The second half of slot_action: BuildAndPublish or BuildOutsideTheSlot.
Decide(t) ==
  /\ look[t].at = "decide" /\ StatesFree
  /\ look' = [look EXCEPT ![t].at = IF AllFresh(t) THEN "build" ELSE "unlock",
                          ![t].alone = ~AllFresh(t)]
  /\ UNCHANGED <<storeVars, freshVars, tx, answer, cacheVars, build_slots, restoring>>

ScanSources(t) == [s \in Slots |-> Scan(t, look[t].ids[s])]

\* build_variant scans the sources; what it built is the answer whatever the
\* produce rule says.
Build(t, bytes) ==
  /\ look[t].at = "build"
  /\ answer' = [answer EXCEPT ![t] = ScanSources(t)]
  /\ look' = [look EXCEPT ![t].at = "produce", ![t].built = ScanSources(t),
                          ![t].est_bytes = bytes]
  /\ UNCHANGED <<storeVars, freshVars, tx, cacheVars, build_slots, restoring>>

\* The build fails (bad data, timeout, killed): the query ends in an error.
BuildFails(t) ==
  /\ look[t].at = "build"
  /\ look' = [look EXCEPT ![t].at = "unlock"]
  /\ UNCHANGED <<storeVars, freshVars, tx, answer, cacheVars, build_slots, restoring>>

\* Mutants: the mirror is only raised by the insert; the sources are not
\* checked again after the build.
Produce_MirrorLate(t) ==
  /\ look[t].at = "produce" /\ RegistryFree /\ StatesFree
  /\ LET ids == look[t].ids
         publish == /\ defs[look[t].key[1]] # None /\ defs[look[t].key[1]].gen = look[t].gen
                    /\ AllFresh(t) /\ look[t].est_bytes <= registry.capacity
     IN look' = [look EXCEPT ![t].at = IF publish THEN "insert" ELSE "unlock",
          ![t].tokens = [s \in Slots |-> IF ids[s] = NoId THEN 0 ELSE token[ids[s]]]]
  /\ UNCHANGED <<storeVars, freshVars, tx, answer, cacheVars, build_slots, restoring>>

\* produce up to the decision: on a refusal the mirror is restored at once;
\* otherwise it stays raised while the registry mutex is held.
Produce(t) ==
  /\ look[t].at = "produce" /\ RegistryFree
  /\ LET d == defs[look[t].key[1]]
         ids == look[t].ids
         same == d # None /\ d.gen = look[t].gen
     IN \/ /\ ~same
           /\ look' = [look EXCEPT ![t].at = "unlock"]
           /\ UNCHANGED entry_count
        \/ /\ same /\ StatesFree
           /\ ~AllFresh(t) \/ look[t].est_bytes > registry.capacity
           /\ look' = [look EXCEPT ![t].at = "unlock"]
           /\ entry_count' = Cardinality(Cached(entries))
        \/ /\ same /\ StatesFree
           /\ AllFresh(t) /\ look[t].est_bytes <= registry.capacity
           /\ look' = [look EXCEPT ![t].at = "insert",
                ![t].tokens = [s \in Slots |-> IF ids[s] = NoId THEN 0 ELSE token[ids[s]]]]
           /\ entry_count' = entry_count + 1
  /\ UNCHANGED <<storeVars, freshVars, tx, answer, defVars, entries, registry, build_slots, restoring>>

\* Mutant: room is made before the new entry is counted.
Insert_EvictsEarly(t) ==
  /\ look[t].at = "insert"
  /\ LET k == look[t].key
         old == IF entries[k] = None THEN 0 ELSE entries[k].est_bytes
         kept == EvictUntil(Without(entries, {k}), Less(registry.used_bytes, old),
                            registry.capacity)
     IN /\ entries' = [kept.entries EXCEPT ![k] =
                         [ids |-> look[t].ids, tokens |-> look[t].tokens,
                          content |-> look[t].built, est_bytes |-> look[t].est_bytes]]
        /\ registry' = [registry EXCEPT !.used_bytes = kept.used_bytes + look[t].est_bytes,
                                        !.recency = Touched(k)]
        /\ entry_count' = Cardinality(Cached(entries'))
  /\ look' = [look EXCEPT ![t].at = "unlock"]
  /\ UNCHANGED <<storeVars, freshVars, tx, answer, defVars, build_slots, restoring>>

\* insert_entry: the older entry of the variant goes first, then room is made.
Insert(t) ==
  /\ look[t].at = "insert"
  /\ LET k == look[t].key
         old == IF entries[k] = None THEN 0 ELSE entries[k].est_bytes
         kept == EvictUntil(Without(entries, {k}), Less(registry.used_bytes, old),
                            registry.capacity - look[t].est_bytes)
     IN /\ entries' = [kept.entries EXCEPT ![k] =
                         [ids |-> look[t].ids, tokens |-> look[t].tokens,
                          content |-> look[t].built, est_bytes |-> look[t].est_bytes]]
        /\ registry' = [registry EXCEPT !.used_bytes = kept.used_bytes + look[t].est_bytes,
                                        !.recency = Touched(k)]
        /\ entry_count' = Cardinality(Cached(entries'))
  /\ look' = [look EXCEPT ![t].at = "unlock"]
  /\ UNCHANGED <<storeVars, freshVars, tx, answer, defVars, build_slots, restoring>>

\* Mutant: the builder keeps the guard until the other lookups have let go of the slot.
Unlock_WaitsForClones(t) ==
  /\ look[t].at = "unlock" /\ Clones(BuildKey(t), look[t].slot) = {t}
  /\ look' = [look EXCEPT ![t].at = "release", ![t].slot = None]
  /\ UNCHANGED <<storeVars, freshVars, tx, answer, cacheVars, build_slots, restoring>>

\* The guard and the clone of the slot are dropped ...
Unlock(t) ==
  /\ look[t].at = "unlock"
  /\ look' = [look EXCEPT ![t].at = "release", ![t].slot = None]
  /\ UNCHANGED <<storeVars, freshVars, tx, answer, cacheVars, build_slots, restoring>>

\* Mutant: the slot is removed whoever still waits for it.
ReleaseSlot_Always(t) ==
  LET b == BuildKey(t)
  IN /\ look[t].at = "release"
     /\ build_slots' = [build_slots EXCEPT ![b] = None]
     /\ look' = [look EXCEPT ![t].at = IF look[t].alone THEN "alone" ELSE "return"]
     /\ UNCHANGED <<storeVars, freshVars, tx, answer, cacheVars, restoring>>

\* ... and release_slot removes the slot from the map if nobody has a clone.
ReleaseSlot(t) ==
  LET b == BuildKey(t)
      unused == Clones(b, build_slots[b]) = {}
  IN /\ look[t].at = "release"
     /\ build_slots' = [build_slots EXCEPT ![b] = IF unused THEN None ELSE @]
     /\ look' = [look EXCEPT ![t].at = IF look[t].alone THEN "alone" ELSE "return"]
     /\ UNCHANGED <<storeVars, freshVars, tx, answer, cacheVars, restoring>>

\* An ephemeral build: nobody caches it.
BuildAlone(t) ==
  /\ look[t].at = "alone"
  /\ answer' = [answer EXCEPT ![t] = ScanSources(t)]
  /\ look' = [look EXCEPT ![t].at = "return"]
  /\ UNCHANGED <<storeVars, freshVars, tx, cacheVars, build_slots, restoring>>

BuildAloneFails(t) ==
  /\ look[t].at = "alone"
  /\ look' = [look EXCEPT ![t].at = "return"]
  /\ UNCHANGED <<storeVars, freshVars, tx, answer, cacheVars, build_slots, restoring>>

\* graph_source returns the answer or the error.
Return(t) ==
  /\ look[t].at = "return"
  /\ look' = [look EXCEPT ![t] = IdleLook]
  /\ answer' = [answer EXCEPT ![t] = None]
  /\ UNCHANGED <<storeVars, freshVars, tx, cacheVars, build_slots, restoring>>

-----------------------------------------------------------------------------
OpenStep(t) == (\E w \in BOOLEAN : LoadWatermark(t, w)) \/ Pin(t)

StatementStep(t) ==
  \/ \E n \in Names : \/ "write" \in Ops /\ Write(t, n)
                      \/ "create" \in Ops /\ Create(t, n)
                      \/ "replace" \in Ops /\ Replace(t, n)
                      \/ "remove" \in Ops /\ Remove(t, n)
  \/ \E n, m \in Names : "rename" \in Ops /\ Rename(t, n, m)
  \/ Cleanup(t) \/ CommitClean(t) \/ DropClean(t) \/ Abort(t)

CommitStep(t) ==
  \/ BeginCommit(t) \/ StoreCommit(t) \/ StoreCommitFails(t)
  \/ BumpToken(t) \/ SweepSkipped(t) \/ Sweep(t)

LookupStep(t) ==
  \/ Consume(t) \/ Door2(t) \/ Wake(t) \/ Decide(t)
  \/ (\E bytes \in Sizes : Build(t, bytes)) \/ BuildFails(t)
  \/ Produce(t) \/ Insert(t) \/ Unlock(t) \/ ReleaseSlot(t)
  \/ BuildAlone(t) \/ BuildAloneFails(t) \/ Return(t)

RegistryStep ==
  \/ \E t \in Txs, g \in Projections, f \in Sources : CreateProjection(t, g, f)
  \/ \E g \in Projections : "drop" \in Ops /\ DropProjection(g)
  \/ \E c \in Capacities : SetCapacity(c)
  \/ "restore" \in Ops /\ InvalidateAll
  \/ ClearEntries

Next ==
  \/ \E t \in Txs : OpenStep(t) \/ StatementStep(t) \/ CommitStep(t) \/ LookupStep(t)
  \/ \E t \in Readers, k \in Keys : Lookup(t, k)
  \/ RegistryStep

Spec == Init /\ [][Next]_vars

\* A thread inside graph_source or commit_tx is scheduled, and the mutexes it
\* waits for are not withheld from it for ever.  Nothing makes a client send
\* the next statement, commit, or look a projection up.
FairSpec == Spec /\ \A t \in Txs : SF_vars(CommitStep(t)) /\ SF_vars(LookupStep(t))

-----------------------------------------------------------------------------
(* Properties. *)

\* Relations t may have changed in the store without having minted their token:
\* its commit is under way, or its range deletes went through at once.
Unbumped(t) ==
  IF tx[t].raised THEN tx[t].todo
  ELSE IF ~WriteThrough THEN {}
  ELSE IF tx[t].phase \in {"open", "ending"} THEN tx[t].dirty
  ELSE tx[t].todo

Indeterminate(r) == \E t \in Txs : r \in Unbumped(t)

\* The claim of the module documentation (graph_projection.rs:60): for a source
\* the transaction has not written itself, FRESH(T, R) implies that R's content
\* in T's snapshot is R's committed content at this moment.
FreshIsCurrent ==
  \A t \in Txs, r \in Ids :
    tx[t].phase = "open" /\ r \notin tx[t].dirty /\ Fresh(t, r)
      => ScanVersion(t, r) = version[r]

\* begin_commit and finish_commit balance, through failures, aborts and drops:
\* inflight counts exactly the commits that still owe the relation a token.
InflightBalanced ==
  \A r \in Ids :
    inflight[r] = Cardinality({t \in Txs : tx[t].raised /\ r \in tx[t].todo})

\* An entry's tag denotes a content version: while its tokens are current and
\* no transaction owes one, the entry holds the committed content of its
\* sources and nobody's uncommitted writes.
TagsDenoteContent ==
  \A k \in Cached(entries), s \in Slots :
    LET r == entries[k].ids[s] IN
      r # NoId /\ entries[k].tokens[s] = token[r] /\ ~Indeterminate(r)
        => entries[k].content[s] = [rel |-> r, ver |-> version[r], own |-> None]

\* drop_entries_sourced_on leaves no unreachable entry behind in spite of its
\* lock-free check of entry_count: an entry whose tag is out of date is still
\* going to be swept.
NoStrandedEntry ==
  \A k \in Cached(entries), s \in Slots :
    LET r == entries[k].ids[s] IN
      r # NoId /\ entries[k].tokens[s] # token[r]
        => restoring \/ \E t \in Txs : tx[t].phase \in {"bumping", "sweeping"} /\ r \in tx[t].dirty

\* The byte accounting is exact and within the ceiling, and the mirror of the
\* entry count is exact whenever the registry mutex is free.
AccountingExact ==
  /\ registry.used_bytes = Bytes(entries, Cached(entries))
  /\ registry.used_bytes <= registry.capacity
  /\ RegistryFree => entry_count = Cardinality(Cached(entries))

\* Single flight: release_slot never pulls a slot out from under a lookup, so
\* no two lookups are inside the slot of the same build key.
SingleFlight ==
  \A t, u \in Txs :
    look[t].at \in Holding /\ look[u].at \in Holding /\ BuildKey(t) = BuildKey(u) => t = u

\* Door 2 (graph_projection.rs:1478): at a fixed watermark an unfresh source
\* never becomes fresh again, so a transaction that could not publish once need
\* not queue for the build slot.
NeverFreshAgain ==
  [][\A t \in Txs, r \in Ids :
       tx[t].phase = "open" /\ tx'[t].phase = "open" /\ ~Fresh(t, r) => ~Fresh(t, r)']_vars

\* Always fresh: a lookup is answered as if every query built its own graph,
\* whatever is cached and whoever commits meanwhile.
Uncached == INSTANCE BuildPerQuery
  WITH scan <- [t \in Txs |-> [r \in Ids \cup {NoId} |-> Scan(t, r)]],
       want <- [t \in Txs |-> look[t].ids]
AlwaysFresh == Uncached!Spec

\* A lookup returns: nobody waits for a build slot or a mutex for ever.
LookupReturns == \A t \in Txs : look[t].at # "idle" ~> look[t].at = "idle"

\* A commit that raised inflight ends, so a relation is not denied cache hits
\* for ever.
CommitEnds == \A t \in Txs : tx[t].phase = "begun" ~> tx[t].phase = "idle"

=============================================================================
