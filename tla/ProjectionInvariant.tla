------------------------- MODULE ProjectionInvariant -------------------------
(***************************************************************************)
(* The inductive invariant of ProjectionCache, and the proofs that its     *)
(* typing and life-cycle parts are preserved.                              *)
(***************************************************************************)
EXTENDS ProjectionCache, FiniteSetTheorems, TLAPS

-----------------------------------------------------------------------------
(* The inductive invariant, part by part. *)

\* How far along its life cycle a transaction is, and what it owes.
WellFormed(x) ==
  /\ x.phase \in {"idle", "opening"} => x.dirty = {}
  /\ x.dirty # {} => x.write
  /\ x.raised => x.phase \in {"begun", "stored", "bumping", "sweeping"}
  /\ x.phase \in {"begun", "stored"} => x.raised /\ x.todo = x.dirty
  /\ x.phase = "aborted" => x.todo = x.dirty
  /\ x.phase \in {"idle", "opening", "open", "ending", "sweeping"} => x.todo = {}
  /\ x.todo \subseteq x.dirty /\ x.clean \subseteq x.dirty

TxShape ==
  \A t \in Txs : WellFormed(tx[t]) /\ (look[t].at # "idle" => tx[t].phase = "open")

\* On mem and sqlite a write transaction is alone.
Alone ==
  Exclusive => \A t, u \in Txs : Pinned(t) /\ Pinned(u) /\ tx[u].write => t = u

\* Nothing is tagged, or was started, later than the last token.
ClockBounds ==
  /\ \A r \in Ids : token[r] <= bump_seq
  /\ \A t \in Txs : tx[t].watermark <= bump_seq
  /\ \A t \in Txs, s \in Slots : look[t].tokens[s] <= bump_seq
  /\ \A k \in Keys, s \in Slots : entries[k] # None => entries[k].tokens[s] <= bump_seq

\* A pinned snapshot is behind the store only for relations whose token has
\* passed the watermark, or is about to.
SnapshotCurrent ==
  \A t \in Txs, r \in Ids :
    Pinned(t) /\ PinsSnapshot(tx[t].write)
      => tx[t].ver[r] = version[r] \/ token[r] > tx[t].watermark \/ Indeterminate(r)

\* A lookup that got past door 1 is over relations the transaction has not
\* written, and has no answer before it is served or built.
Shareable == {"consume", "door2", "queued", "decide", "build", "produce", "insert"}

LookShape ==
  \A t \in Txs :
    /\ look[t].at \in Shareable => SourceIds(look[t].ids) \cap tx[t].dirty = {}
    /\ look[t].alone => look[t].at \in {"unlock", "release", "alone", "return"}
    /\ look[t].at \in {"idle", "consume", "door2", "queued", "decide", "build", "alone"}
         => answer[t] = None
    /\ look[t].at \in {"unlock", "release"} /\ look[t].alone => answer[t] = None

Committed(r) == [rel |-> r, ver |-> version[r], own |-> None]

\* A graph built to be published holds the committed content of its sources,
\* unless the produce rule is going to refuse it.
BuiltCurrent ==
  \A t \in Txs, s \in Slots :
    look[t].at = "produce" =>
      IF look[t].ids[s] = NoId THEN look[t].built[s] = None
      ELSE \/ look[t].built[s] = Committed(look[t].ids[s])
           \/ token[look[t].ids[s]] > tx[t].watermark
           \/ Indeterminate(look[t].ids[s])

\* What a tag means, for an entry and for one about to be inserted.
Denotes(ids, tokens, content) ==
  \A s \in Slots :
    IF ids[s] = NoId THEN content[s] = None
    ELSE tokens[s] = token[ids[s]] /\ ~Indeterminate(ids[s]) => content[s] = Committed(ids[s])

TagsDenote ==
  /\ \A k \in Keys : entries[k] # None =>
       Denotes(entries[k].ids, entries[k].tokens, entries[k].content)
  /\ \A t \in Txs : look[t].at = "insert" =>
       Denotes(look[t].ids, look[t].tokens, look[t].built)

\* A lookup under way knows its variant and the generation of its definition.
LookKeyed ==
  \A t \in Txs : look[t].at # "idle" => look[t].key \in Keys /\ look[t].gen \in 1 .. MaxGen

\* A lookup that holds a clone of a build slot finds it in the map.
SlotsKept ==
  \A t \in Txs :
    /\ look[t].at \in Holding \cup {"queued"} <=> look[t].slot # None
    /\ look[t].slot # None => build_slots[BuildKey(t)] = look[t].slot

\* What holds on every engine, and what fails on sled.
BaseInv ==
  /\ CoreTypeOK /\ TxShape /\ Alone /\ ClockBounds /\ InflightBalanced
  /\ SnapshotCurrent /\ LookShape /\ BuiltCurrent
  /\ LookKeyed /\ SlotsKept /\ SingleFlight

IInv == BaseInv /\ TagsDenote

-----------------------------------------------------------------------------
(* Type correctness. *)

LEMMA NoneFacts == None \notin Txs /\ None \notin Names /\ NoId \notin Ids
  BY ConstantsAssumption, SMTT(20), Z3T(20) DEF Ids, NoId

LEMMA IdleTypes == IdleTx \in TxType /\ IdleLook \in LookType
  <1>1. IdleTx \in TxType
    BY DEF IdleTx, TxType, Phases, Versions
  <1>2. IdleLook \in LookType
    BY DEF IdleLook, LookType, Steps, Contents
  <1> QED
    BY <1>1, <1>2

LEMMA TypeInit == Init => CoreTypeOK
  BY IdleTypes, ConstantsAssumption, SMTT(20), Z3T(20) DEF Init, CoreTypeOK, Versions

LEMMA TypeResolve ==
  ASSUME CoreTypeOK, NEW t \in Txs, NEW n \in Names \cup {None}
  PROVE  Resolve(t, n) \in Ids \cup {NoId}
  BY SMTT(20), Z3T(20) DEF CoreTypeOK, TxType, Resolve

LEMMA TypeScan ==
  ASSUME CoreTypeOK, NEW t \in Txs, NEW r \in Ids \cup {NoId}
  PROVE  Scan(t, r) \in Contents
  <1>1. r # NoId => ScanVersion(t, r) \in Nat
    BY DEF CoreTypeOK, TxType, ScanVersion, Versions
  <1> QED
    BY <1>1 DEF Scan, Contents

LEMMA TypeRangeDeleted ==
  ASSUME CoreTypeOK, NEW R PROVE RangeDeleted(R) \in Versions
  BY SMTT(20), Z3T(20) DEF CoreTypeOK, RangeDeleted, Versions

LEMMA PhaseNames ==
  /\ {"idle", "opening", "open", "ending", "begun", "stored", "aborted", "bumping",
      "sweeping"} \subseteq Phases
  /\ {"idle", "consume", "door2", "queued", "decide", "build", "produce", "insert",
      "unlock", "release", "alone", "return"} \subseteq Steps
  BY DEF Phases, Steps

LEMMA TypeOpen == ASSUME CoreTypeOK, NEW t \in Txs, OpenStep(t) PROVE CoreTypeOK'
  <1>0. tx[t] \in TxType /\ catalog \in [Names -> Ids \cup {NoId}] /\ version \in Versions
    BY DEF CoreTypeOK
  <1>1. ASSUME NEW w \in BOOLEAN, LoadWatermark(t, w) PROVE CoreTypeOK'
    <2>1. [IdleTx EXCEPT !.phase = "opening", !.write = w, !.watermark = bump_seq] \in TxType
      BY IdleTypes, PhaseNames, Zenon DEF TxType, CoreTypeOK
    <2> QED
      BY <1>1, <2>1 DEF LoadWatermark, CoreTypeOK, storeVars, freshVars, cacheVars, defVars
  <1>2. CASE Pin(t)
    <2>1. [tx[t] EXCEPT !.phase = "open", !.cat = catalog, !.ver = version] \in TxType
      BY <1>0, PhaseNames, Zenon DEF TxType
    <2>2. tx' \in [Txs -> TxType]
      BY <1>2, <2>1 DEF Pin, CoreTypeOK
    <2> QED
      BY <1>2, <2>2 DEF Pin, CoreTypeOK, storeVars, freshVars, cacheVars, defVars
  <1> QED
    BY <1>1, <1>2 DEF OpenStep

LEMMA TypeStatement == ASSUME CoreTypeOK, NEW t \in Txs, StatementStep(t) PROVE CoreTypeOK'
  <1>0. /\ tx[t] \in TxType /\ version \in Versions /\ catalog \in [Names -> Ids \cup {NoId}]
        /\ \A n \in Names : Resolve(t, n) \in Ids \cup {NoId}
        /\ tx[t].own \in [Names -> Ids \cup {NoId}]
    BY TypeResolve DEF CoreTypeOK, TxType
  <1>1. ASSUME NEW n \in Names, Write(t, n) PROVE CoreTypeOK'
    <2>1. [tx[t] EXCEPT !.dirty = @ \cup {Resolve(t, n)}] \in TxType
      BY <1>0, <1>1 DEF Write, TxType
    <2>2. tx' \in [Txs -> TxType]
      BY <1>1, <2>1 DEF Write, CoreTypeOK
    <2> QED
      BY <1>1, <2>2 DEF Write, CoreTypeOK, storeVars, freshVars, cacheVars, defVars
  <1>2. ASSUME NEW n \in Names, Create(t, n) PROVE CoreTypeOK'
    <2>1. [tx[t].own EXCEPT ![n] = NewId] \in [Names -> Ids \cup {NoId}]
      BY <1>0, <1>2 DEF Create
    <2>2. [tx[t] EXCEPT !.own[n] = NewId, !.touched = @ \cup {n},
                        !.dirty = @ \cup {NewId}] \in TxType
      BY <1>0, <1>2, <2>1, Zenon DEF Create, TxType
    <2>3. tx' \in [Txs -> TxType]
      BY <1>2, <2>2 DEF Create, CoreTypeOK
    <2> QED
      BY <1>2, <2>3 DEF Create, CoreTypeOK, freshVars, cacheVars, defVars
  <1>3. ASSUME NEW n \in Names, Replace(t, n) PROVE CoreTypeOK'
    <2>1. [tx[t].own EXCEPT ![n] = NewId] \in [Names -> Ids \cup {NoId}]
      BY <1>0, <1>3 DEF Replace
    <2>2. [tx[t] EXCEPT !.own[n] = NewId, !.touched = @ \cup {n},
                        !.dirty = @ \cup {NewId, Resolve(t, n)},
                        !.clean = @ \cup {Resolve(t, n)}] \in TxType
      BY <1>0, <1>3, <2>1, ZenonT(30) DEF Replace, TxType
    <2>3. tx' \in [Txs -> TxType]
      BY <1>3, <2>2 DEF Replace, CoreTypeOK
    <2> QED
      BY <1>3, <2>3 DEF Replace, CoreTypeOK, freshVars, cacheVars, defVars
  <1>4. ASSUME NEW n \in Names, Remove(t, n) PROVE CoreTypeOK'
    <2>1. [tx[t].own EXCEPT ![n] = NoId] \in [Names -> Ids \cup {NoId}]
      BY <1>0
    <2>2. [tx[t] EXCEPT !.own[n] = NoId, !.touched = @ \cup {n},
                        !.dirty = @ \cup {Resolve(t, n)}] \in TxType
      BY <1>0, <1>4, <2>1, Zenon DEF Remove, TxType
    <2>3. tx' \in [Txs -> TxType]
      BY <1>4, <2>2 DEF Remove, CoreTypeOK
    <2> QED
      BY <1>4, <2>3, TypeRangeDeleted DEF Remove, CoreTypeOK, freshVars, cacheVars, defVars
  <1>5. ASSUME NEW n \in Names, NEW m \in Names, Rename(t, n, m) PROVE CoreTypeOK'
    <2>1. [tx[t].own EXCEPT ![n] = NoId, ![m] = Resolve(t, n)] \in [Names -> Ids \cup {NoId}]
      BY <1>0
    <2>2. [tx[t] EXCEPT !.own = [@ EXCEPT ![n] = NoId, ![m] = Resolve(t, n)],
                        !.touched = @ \cup {n, m}] \in TxType
      BY <1>0, <2>1, Zenon DEF TxType
    <2>3. tx' \in [Txs -> TxType]
      BY <1>5, <2>2 DEF Rename, CoreTypeOK
    <2> QED
      BY <1>5, <2>3 DEF Rename, CoreTypeOK, storeVars, freshVars, cacheVars, defVars
  <1>6. CASE Cleanup(t)
    <2>1. [tx[t] EXCEPT !.phase = "ending"] \in TxType
      BY <1>0, PhaseNames DEF TxType
    <2>2. tx' \in [Txs -> TxType]
      BY <1>6, <2>1 DEF Cleanup, CoreTypeOK
    <2> QED
      BY <1>6, <2>2, TypeRangeDeleted DEF Cleanup, CoreTypeOK, freshVars, cacheVars, defVars
  <1>7. CASE CommitClean(t)
    <2>1. CommittedCatalog(t) \in [Names -> Ids \cup {NoId}]
      BY <1>0 DEF CommittedCatalog
    <2> QED
      BY <1>7, <2>1, IdleTypes DEF CommitClean, Ended, CoreTypeOK, freshVars, cacheVars, defVars
  <1>8. CASE DropClean(t)
    BY <1>8, IdleTypes DEF DropClean, Ended, CoreTypeOK, storeVars, freshVars, cacheVars, defVars
  <1>9. CASE Abort(t)
    <2>1. [tx[t] EXCEPT !.phase = "aborted", !.todo = tx[t].dirty] \in TxType
      BY <1>0, PhaseNames, Zenon DEF TxType
    <2>2. tx' \in [Txs -> TxType]
      BY <1>9, <2>1 DEF Abort, CoreTypeOK
    <2> QED
      BY <1>9, <2>2 DEF Abort, CoreTypeOK, storeVars, freshVars, cacheVars, defVars
  <1> QED
    BY <1>1, <1>2, <1>3, <1>4, <1>5, <1>6, <1>7, <1>8, <1>9, Zenon, SMTT(20) DEF StatementStep

LEMMA FiniteIds ==
  /\ IsFiniteSet(Ids)
  /\ \A R \in SUBSET Ids : IsFiniteSet(R) /\ Cardinality(R) \in Nat
  <1>1. IsFiniteSet(Ids)
    BY ConstantsAssumption, FS_Interval, SMTT(20), Z3T(20) DEF Ids
  <1>2. \A R \in SUBSET Ids : IsFiniteSet(R)
    BY <1>1, FS_Subset
  <1> QED
    BY <1>1, <1>2, FS_CardinalityType

LEMMA TypeForget ==
  ASSUME CoreTypeOK, NEW K, Forget(K) PROVE entries' \in [Keys -> Entries \cup {None}]
  BY DEF CoreTypeOK, Forget, Without

LEMMA TypeCommit == ASSUME CoreTypeOK, NEW t \in Txs, CommitStep(t) PROVE CoreTypeOK'
  <1>0. /\ tx[t] \in TxType /\ version \in Versions /\ catalog \in [Names -> Ids \cup {NoId}]
        /\ tx[t].own \in [Names -> Ids \cup {NoId}]
    BY DEF CoreTypeOK, TxType
  <1>1. CASE BeginCommit(t)
    <2>1. [tx[t] EXCEPT !.phase = "begun", !.todo = tx[t].dirty, !.raised = TRUE] \in TxType
      BY <1>0, PhaseNames, Zenon DEF TxType
    <2>2. tx' \in [Txs -> TxType]
      BY <1>1, <2>1 DEF BeginCommit, CoreTypeOK
    <2>3. inflight' \in Versions
      BY <1>1, SMTT(20), Z3T(20) DEF BeginCommit, CoreTypeOK, Versions
    <2> QED
      BY <1>1, <2>2, <2>3 DEF BeginCommit, CoreTypeOK, storeVars, cacheVars, defVars
  <1>2. CASE StoreCommit(t)
    <2>1. [tx[t] EXCEPT !.phase = "stored"] \in TxType
      BY <1>0, PhaseNames DEF TxType
    <2>2. tx' \in [Txs -> TxType]
      BY <1>2, <2>1 DEF StoreCommit, CoreTypeOK
    <2>3. CommittedCatalog(t) \in [Names -> Ids \cup {NoId}]
      BY <1>0 DEF CommittedCatalog
    <2>4. version' \in Versions
      BY <1>2, SMTT(20), Z3T(20) DEF StoreCommit, CoreTypeOK, Versions
    <2> QED
      BY <1>2, <2>2, <2>3, <2>4 DEF StoreCommit, CoreTypeOK, freshVars, cacheVars, defVars
  <1>3. CASE StoreCommitFails(t)
    <2>1. [tx[t] EXCEPT !.phase = "stored"] \in TxType
      BY <1>0, PhaseNames DEF TxType
    <2>2. tx' \in [Txs -> TxType]
      BY <1>3, <2>1 DEF StoreCommitFails, CoreTypeOK
    <2> QED
      BY <1>3, <2>2 DEF StoreCommitFails, CoreTypeOK, storeVars, freshVars, cacheVars, defVars
  <1>4. CASE BumpToken(t)
    <2>1. PICK r \in tx[t].todo :
            /\ bump_seq' = bump_seq + 1
            /\ token' = [token EXCEPT ![r] = bump_seq + 1]
            /\ inflight' = [inflight EXCEPT ![r] = IF tx[t].raised /\ @ > 0 THEN @ - 1 ELSE @]
            /\ tx' = [tx EXCEPT ![t].todo = @ \ {r},
                                ![t].phase = IF tx[t].todo = {r} THEN "sweeping" ELSE "bumping"]
      BY <1>4, Zenon DEF BumpToken
    <2>2. r \in Ids
      BY <1>0, <2>1 DEF TxType
    <2>3. [tx[t] EXCEPT !.todo = @ \ {r},
                        !.phase = IF tx[t].todo = {r} THEN "sweeping" ELSE "bumping"] \in TxType
      BY <1>0, PhaseNames, Zenon DEF TxType
    <2>4. tx' \in [Txs -> TxType]
      BY <2>1, <2>3 DEF CoreTypeOK
    <2>5. bump_seq' \in Nat /\ token' \in Versions /\ inflight' \in Versions
      BY <2>1, <2>2, SMTT(20), Z3T(20) DEF CoreTypeOK, Versions
    <2> QED
      BY <1>4, <2>4, <2>5 DEF BumpToken, CoreTypeOK, storeVars, cacheVars, defVars
  <1>5. CASE SweepSkipped(t)
    BY <1>5, IdleTypes DEF SweepSkipped, Ended, CoreTypeOK, storeVars, freshVars, cacheVars, defVars
  <1>6. CASE Sweep(t)
    BY <1>6, IdleTypes, TypeForget DEF Sweep, Ended, CoreTypeOK, storeVars, freshVars, defVars
  <1> QED
    BY <1>1, <1>2, <1>3, <1>4, <1>5, <1>6, Zenon DEF CommitStep

LEMMA TypeEvict ==
  ASSUME NEW es \in [Keys -> Entries \cup {None}], NEW used, NEW target
  PROVE  /\ EvictUntil(es, used, target).entries \in [Keys -> Entries \cup {None}]
         /\ \A k \in Keys : EvictUntil(es, used, target).entries[k] \in {es[k], None}
  <1> DEFINE older(k) == {j \in Cached(es) : registry.recency[j] > registry.recency[k]}
             victims == {k \in Cached(es) : Less(used, Bytes(es, older(k))) > target}
  <1>1. EvictUntil(es, used, target).entries = Without(es, victims)
    BY DEF EvictUntil
  <1> HIDE DEF victims
  <1> QED
    BY <1>1 DEF Without

LEMMA TypeRegistry == ASSUME CoreTypeOK, RegistryStep PROVE CoreTypeOK'
  <1>1. ASSUME NEW t \in Txs, NEW g \in Projections, NEW f \in Sources,
               CreateProjection(t, g, f)
        PROVE  CoreTypeOK'
    <2>1. def_seq + 1 \in 1 .. MaxGen
      BY <1>1, ConstantsAssumption, SMTT(30), Z3T(30) DEF CreateProjection, CoreTypeOK
    <2>2. defs' \in [Projections -> [gen : 1 .. MaxGen, src : Sources] \cup {None}]
      BY <1>1, <2>1, Zenon DEF CreateProjection, CoreTypeOK
    <2>3. def_seq' \in 0 .. MaxGen
      BY <1>1, <2>1, ConstantsAssumption, SMTT(30), Z3T(30) DEF CreateProjection
    <2> QED
      BY <1>1, <2>2, <2>3, Zenon DEF CreateProjection, CoreTypeOK, storeVars, freshVars
  <1>2. ASSUME NEW g \in Projections, DropProjection(g) PROVE CoreTypeOK'
    <2>1. entries' \in [Keys -> Entries \cup {None}]
      BY <1>2, TypeForget DEF DropProjection
    <2> QED
      BY <1>2, <2>1 DEF DropProjection, CoreTypeOK, storeVars, freshVars
  <1>3. ASSUME NEW c \in Capacities, SetCapacity(c) PROVE CoreTypeOK'
    <2>1. entries' \in [Keys -> Entries \cup {None}]
      BY <1>3, TypeEvict, Zenon DEF SetCapacity, CoreTypeOK
    <2> QED
      BY <1>3, <2>1 DEF SetCapacity, CoreTypeOK, storeVars, freshVars, defVars
  <1>4. CASE InvalidateAll
    <2> DEFINE known == {r \in Ids : token[r] > 0 \/ inflight[r] > 0}
               rank(r) == Cardinality({q \in known : q <= r})
    <2>1. Cardinality(known) \in Nat /\ \A r \in Ids : rank(r) \in Nat
      BY FiniteIds
    <2>2. /\ bump_seq' = bump_seq + Cardinality(known)
          /\ token' = [r \in Ids |-> IF r \in known THEN bump_seq + rank(r) ELSE token[r]]
      BY <1>4 DEF InvalidateAll
    <2> HIDE DEF known, rank
    <2>3. bump_seq' \in Nat /\ token' \in Versions
      BY <2>1, <2>2, SMTT(20), Z3T(20) DEF CoreTypeOK, Versions
    <2> QED
      BY <1>4, <2>3 DEF InvalidateAll, CoreTypeOK, storeVars, cacheVars, defVars
  <1>5. CASE ClearEntries
    BY <1>5 DEF ClearEntries, CoreTypeOK, storeVars, freshVars, cacheVars, defVars
  <1> QED
    BY <1>1, <1>2, <1>3, <1>4, <1>5, Zenon DEF RegistryStep

LEMMA TypeLookup ==
  ASSUME CoreTypeOK, NEW t \in Readers, NEW k \in Keys, Lookup(t, k)
  PROVE  CoreTypeOK' /\ look'[t].key = k /\ look'[t].gen \in 1 .. MaxGen
  <1> DEFINE d == defs[k[1]]
             ids == [s \in Slots |-> Resolve(t, d.src[s])]
             at == IF SourceIds(ids) \cap tx[t].dirty # {} THEN "alone" ELSE "consume"
  <1>0. t \in Txs
    BY ConstantsAssumption
  <1>1. d \in [gen : 1 .. MaxGen, src : Sources]
    BY DEF Lookup, CoreTypeOK, Keys
  <1>2. \A s \in Slots : d.src[s] \in Names \cup {None}
    BY <1>1, ConstantsAssumption
  <1>3. ids \in [Slots -> Ids \cup {NoId}]
    BY <1>0, <1>2, TypeResolve
  <1>4. /\ look' = [look EXCEPT ![t] = [IdleLook EXCEPT !.key = k, !.gen = d.gen, !.ids = ids,
                                                        !.at = at]]
        /\ UNCHANGED <<storeVars, freshVars, tx, answer, cacheVars, build_slots, restoring>>
    BY DEF Lookup
  <1>5. at \in Steps /\ d.gen \in 1 .. MaxGen /\ d.gen \in Nat
    BY <1>1, PhaseNames, ConstantsAssumption, SMTT(20), Z3T(20)
  <1> HIDE DEF d, ids, at
  <1>6. [IdleLook EXCEPT !.key = k, !.gen = d.gen, !.ids = ids, !.at = at] \in LookType
    BY <1>3, <1>5, IdleTypes, Zenon DEF LookType
  <1>7. look' \in [Txs -> LookType] /\ look'[t].key = k /\ look'[t].gen = d.gen
    BY <1>0, <1>4, <1>6 DEF CoreTypeOK, IdleLook
  <1> QED
    BY <1>4, <1>5, <1>7 DEF CoreTypeOK, storeVars, freshVars, cacheVars, defVars

LEMMA BuildKeyType ==
  ASSUME LookKeyed, NEW t \in Txs, look[t].at # "idle" PROVE BuildKey(t) \in BuildKeys
  BY DEF LookKeyed, BuildKey, Keys, BuildKeys

LEMMA HitType ==
  ASSUME CoreTypeOK, LookKeyed, NEW t \in Txs, look[t].at # "idle", Hits(t)
  PROVE  entries[look[t].key] \in Entries /\ entries[look[t].key] # None
  BY DEF CoreTypeOK, LookKeyed, Hits

LEMMA TypeLook ==
  ASSUME CoreTypeOK, LookKeyed, NEW t \in Txs, LookupStep(t)
  PROVE  CoreTypeOK'
  <1>0. look[t] \in LookType /\ look \in [Txs -> LookType]
    BY DEF CoreTypeOK
  <1>a. ScanSources(t) \in [Slots -> Contents]
    BY <1>0, TypeScan DEF ScanSources, LookType
  <1>b. \A at \in Steps : [look[t] EXCEPT !.at = at] \in LookType
    BY <1>0 DEF LookType
  <1>1. CASE Consume(t)
    <2>1. look' \in [Txs -> LookType]
      BY <1>0, <1>1, <1>b, PhaseNames DEF Consume
    <2>2. answer' \in [Txs -> [Slots -> Contents] \cup {None}]
      BY <1>1, HitType DEF Consume, Serve, CoreTypeOK, Entries
    <2> QED
      BY <1>1, <2>1, <2>2 DEF Consume, CoreTypeOK, storeVars, freshVars, defVars
  <1>2. CASE Door2(t)
    <2>1. BuildKey(t) \in BuildKeys
      BY <1>2, BuildKeyType DEF Door2
    <2> DEFINE slot == IF build_slots[BuildKey(t)] = None THEN t ELSE build_slots[BuildKey(t)]
    <2>2. slot \in Txs
      BY <2>1 DEF CoreTypeOK
    <2>3. \/ look' = [look EXCEPT ![t].at = "alone"] /\ UNCHANGED build_slots
          \/ /\ build_slots' = [build_slots EXCEPT ![BuildKey(t)] = slot]
             /\ look' = [look EXCEPT ![t].at = "queued", ![t].slot = slot]
      BY <1>2 DEF Door2
    <2> HIDE DEF slot
    <2>4. [look[t] EXCEPT !.at = "queued", !.slot = slot] \in LookType
      BY <1>0, <2>2, PhaseNames, Zenon DEF LookType
    <2>5. look' \in [Txs -> LookType]
      BY <1>0, <1>b, <2>3, <2>4, PhaseNames
    <2>6. build_slots' \in [BuildKeys -> Txs \cup {None}]
      BY <2>2, <2>3 DEF CoreTypeOK
    <2> QED
      BY <1>2, <2>5, <2>6 DEF Door2, CoreTypeOK, storeVars, freshVars, cacheVars, defVars
  <1>3. CASE Wake(t)
    <2>1. look' \in [Txs -> LookType]
      BY <1>0, <1>3, <1>b, PhaseNames DEF Wake
    <2>2. answer' \in [Txs -> [Slots -> Contents] \cup {None}]
      BY <1>3, HitType DEF Wake, Serve, CoreTypeOK, Entries
    <2> QED
      BY <1>3, <2>1, <2>2 DEF Wake, CoreTypeOK, storeVars, freshVars, defVars
  <1>4. CASE Decide(t)
    <2>1. [look[t] EXCEPT !.at = IF AllFresh(t) THEN "build" ELSE "unlock",
                          !.alone = ~AllFresh(t)] \in LookType
      BY <1>0, PhaseNames, Zenon DEF LookType
    <2>2. look' \in [Txs -> LookType]
      BY <1>0, <1>4, <2>1 DEF Decide
    <2> QED
      BY <1>4, <2>2 DEF Decide, CoreTypeOK, storeVars, freshVars, cacheVars, defVars
  <1>5. ASSUME NEW bytes \in Sizes, Build(t, bytes) PROVE CoreTypeOK'
    <2>1. [look[t] EXCEPT !.at = "produce", !.built = ScanSources(t), !.est_bytes = bytes]
            \in LookType
      BY <1>0, <1>a, PhaseNames, ConstantsAssumption, Zenon DEF LookType
    <2>2. look' \in [Txs -> LookType]
      BY <1>0, <1>5, <2>1 DEF Build
    <2>3. answer' \in [Txs -> [Slots -> Contents] \cup {None}]
      BY <1>5, <1>a DEF Build, CoreTypeOK
    <2> QED
      BY <1>5, <2>2, <2>3 DEF Build, CoreTypeOK, storeVars, freshVars, cacheVars, defVars
  <1>6. CASE BuildFails(t) \/ BuildAloneFails(t)
    <2>1. look' \in [Txs -> LookType]
      BY <1>0, <1>6, <1>b, PhaseNames, Zenon DEF BuildFails, BuildAloneFails
    <2> QED
      BY <1>6, <2>1 DEF BuildFails, BuildAloneFails, CoreTypeOK, storeVars, freshVars,
                        cacheVars, defVars
  <1>7. CASE Produce(t)
    <2> DEFINE tags == [s \in Slots |-> IF look[t].ids[s] = NoId THEN 0 ELSE token[look[t].ids[s]]]
    <2>1. tags \in [Slots -> Nat]
      BY <1>0 DEF LookType, CoreTypeOK, Versions
    <2>2. \/ look' = [look EXCEPT ![t].at = "unlock"]
          \/ look' = [look EXCEPT ![t].at = "insert", ![t].tokens = tags]
      BY <1>7, Zenon DEF Produce
    <2> HIDE DEF tags
    <2>3. [look[t] EXCEPT !.at = "insert", !.tokens = tags] \in LookType
      BY <1>0, <2>1, PhaseNames, Zenon DEF LookType
    <2>4. look' \in [Txs -> LookType]
      BY <1>0, <1>b, <2>2, <2>3, PhaseNames
    <2> QED
      BY <1>7, <2>4, Zenon, SMTT(20) DEF Produce, CoreTypeOK, storeVars, freshVars, defVars
  <1>8. CASE Insert(t)
    <2>1. look' \in [Txs -> LookType]
      BY <1>0, <1>8, <1>b, PhaseNames, Zenon DEF Insert
    <2> DEFINE k == look[t].key
               old == IF entries[k] = None THEN 0 ELSE entries[k].est_bytes
               kept == EvictUntil(Without(entries, {k}), Less(registry.used_bytes, old),
                                  registry.capacity - look[t].est_bytes)
               new == [ids |-> look[t].ids, tokens |-> look[t].tokens,
                       content |-> look[t].built, est_bytes |-> look[t].est_bytes]
    <2>2. Without(entries, {k}) \in [Keys -> Entries \cup {None}]
      BY DEF Without, CoreTypeOK
    <2>3. kept.entries \in [Keys -> Entries \cup {None}]
      BY <2>2, TypeEvict, Zenon
    <2>4. new \in Entries
      BY <1>0 DEF LookType, Entries
    <2>5. entries' = [kept.entries EXCEPT ![k] = new]
      BY <1>8, Zenon DEF Insert
    <2> HIDE DEF k, kept, new
    <2>6. entries' \in [Keys -> Entries \cup {None}]
      BY <2>3, <2>4, <2>5, Zenon
    <2> QED
      BY <1>8, <2>1, <2>6, Zenon DEF Insert, CoreTypeOK, storeVars, freshVars, defVars
  <1>9. CASE Unlock(t)
    <2>1. [look[t] EXCEPT !.at = "release", !.slot = None] \in LookType
      BY <1>0, PhaseNames, Zenon DEF LookType
    <2>2. look' \in [Txs -> LookType]
      BY <1>0, <1>9, <2>1 DEF Unlock
    <2> QED
      BY <1>9, <2>2 DEF Unlock, CoreTypeOK, storeVars, freshVars, cacheVars, defVars
  <1>10. CASE ReleaseSlot(t)
    <2>1. look' \in [Txs -> LookType]
      BY <1>0, <1>10, <1>b, PhaseNames DEF ReleaseSlot
    <2>2. build_slots' \in [BuildKeys -> Txs \cup {None}]
      BY <1>10, Zenon DEF ReleaseSlot, CoreTypeOK
    <2> QED
      BY <1>10, <2>1, <2>2 DEF ReleaseSlot, CoreTypeOK, storeVars, freshVars, cacheVars, defVars
  <1>11. CASE BuildAlone(t)
    <2>1. look' \in [Txs -> LookType]
      BY <1>0, <1>11, <1>b, PhaseNames DEF BuildAlone
    <2>2. answer' \in [Txs -> [Slots -> Contents] \cup {None}]
      BY <1>11, <1>a, Zenon DEF BuildAlone, CoreTypeOK
    <2> QED
      BY <1>11, <2>1, <2>2 DEF BuildAlone, CoreTypeOK, storeVars, freshVars, cacheVars, defVars
  <1>12. CASE Return(t)
    BY <1>12, IdleTypes, Zenon, SMTT(20) DEF Return, CoreTypeOK, storeVars, freshVars, cacheVars, defVars
  <1> QED
    BY <1>1, <1>2, <1>3, <1>4, <1>5, <1>6, <1>7, <1>8, <1>9, <1>10, <1>11, <1>12,
       Zenon, SMTT(20) DEF LookupStep

-----------------------------------------------------------------------------
(* The life cycle of a transaction. *)

LEMMA LookFrame ==
  ASSUME CoreTypeOK, NEW t \in Txs, LookupStep(t) \/ \E k \in Keys : Lookup(t, k)
  PROVE  /\ UNCHANGED <<catalog, version, relation_store_id, bump_seq, token, inflight, tx>>
         /\ \A u \in Txs \ {t} : look'[u] = look[u] /\ answer'[u] = answer[u]
         /\ LookupStep(t) => look[t].at # "idle"
         /\ ~LookupStep(t) => Active(t)
  <1>1. ASSUME NEW k \in Keys, Lookup(t, k)
        PROVE  /\ UNCHANGED <<storeVars, freshVars, tx>> /\ Active(t)
               /\ \A u \in Txs \ {t} : look'[u] = look[u] /\ answer'[u] = answer[u]
    BY <1>1, Zenon DEF Lookup, CoreTypeOK
  <1>2. ASSUME LookupStep(t)
        PROVE  /\ UNCHANGED <<storeVars, freshVars, tx>> /\ look[t].at # "idle"
               /\ \A u \in Txs \ {t} : look'[u] = look[u] /\ answer'[u] = answer[u]
    BY <1>2, Zenon DEF LookupStep, Consume, Serve, Door2, Wake, Decide, Build, BuildFails, Produce,
                Insert, Unlock, ReleaseSlot, BuildAlone, BuildAloneFails, Return, CoreTypeOK
  <1> QED
    BY <1>1, <1>2 DEF storeVars, freshVars

\* What the mutation statements have in common.
LEMMA MutationFrame ==
  ASSUME CoreTypeOK, NEW t \in Txs, NEW n \in Names,
         Write(t, n) \/ Create(t, n) \/ Replace(t, n) \/ Remove(t, n)
  PROVE  /\ tx[t].phase = "open" /\ tx[t].write
         /\ \A u \in Txs \ {t} : tx'[u] = tx[u]
         /\ tx'[t].phase = tx[t].phase /\ tx'[t].write = tx[t].write
         /\ tx'[t].raised = tx[t].raised /\ tx'[t].todo = tx[t].todo
         /\ tx'[t].watermark = tx[t].watermark /\ tx'[t].ver = tx[t].ver
         /\ tx[t].dirty \subseteq tx'[t].dirty
  <1>0. tx \in [Txs -> TxType] /\ tx[t] \in TxType
    BY Zenon, SMTT(20) DEF CoreTypeOK
  <1>1. tx[t].phase = "open" /\ tx[t].write
    BY DEF Write, Create, Replace, Remove, Statement, Active
  <1>2. ASSUME NEW o, NEW c, NEW d, NEW e,
               \/ tx' = [tx EXCEPT ![t].own[n] = o, ![t].touched = c, ![t].dirty = @ \cup d]
               \/ tx' = [tx EXCEPT ![t].own[n] = o, ![t].touched = c, ![t].dirty = @ \cup d,
                                   ![t].clean = e]
        PROVE  /\ \A u \in Txs \ {t} : tx'[u] = tx[u]
               /\ tx'[t].phase = tx[t].phase /\ tx'[t].write = tx[t].write
               /\ tx'[t].raised = tx[t].raised /\ tx'[t].todo = tx[t].todo
               /\ tx'[t].watermark = tx[t].watermark /\ tx'[t].ver = tx[t].ver
               /\ tx[t].dirty \subseteq tx'[t].dirty
    BY <1>0, <1>2, SMTT(20), Z3T(20) DEF TxType
  <1>3. CASE Write(t, n)
    BY <1>0, <1>1, <1>3, Zenon DEF Write, TxType
  <1>4. CASE Create(t, n)
    BY <1>1, <1>2, <1>4, Zenon DEF Create
  <1>5. CASE Replace(t, n)
    BY <1>1, <1>2, <1>5, Zenon DEF Replace
  <1>6. CASE Remove(t, n)
    BY <1>1, <1>2, <1>6, Zenon DEF Remove
  <1> QED
    BY <1>3, <1>4, <1>5, <1>6, Zenon

LEMMA TxShapeStep ==
  ASSUME CoreTypeOK, TxShape, Next PROVE TxShape'
  <1>0. tx \in [Txs -> TxType]
    BY DEF CoreTypeOK
  <1>a. ASSUME NEW t \in Txs, WellFormed(tx'[t]), UNCHANGED look, look[t].at = "idle",
               \A u \in Txs \ {t} : tx'[u] = tx[u]
        PROVE  TxShape'
    BY <1>a, Zenon DEF TxShape
  <1>b. WellFormed(IdleTx)
    BY Zenon DEF WellFormed, IdleTx
  <1>1. ASSUME NEW t \in Txs, OpenStep(t) PROVE TxShape'
    <2>1. UNCHANGED look /\ look[t].at = "idle" /\ \A u \in Txs \ {t} : tx'[u] = tx[u]
      BY <1>0, <1>1, Zenon DEF OpenStep, LoadWatermark, Pin, TxShape
    <2> SUFFICES WellFormed(tx'[t])
      BY <1>a, <2>1
    <2>2. ASSUME NEW w \in BOOLEAN, LoadWatermark(t, w) PROVE WellFormed(tx'[t])
      BY <1>0, <2>2 DEF LoadWatermark, WellFormed, IdleTx
    <2>3. CASE Pin(t)
      <3>1. tx'[t] = [tx[t] EXCEPT !.phase = "open", !.cat = catalog, !.ver = version]
        BY <1>0, <2>3 DEF Pin
      <3> QED
        BY <1>0, <2>3, <3>1, SMTT(20), Z3T(20) DEF Pin, WellFormed, TxShape, TxType
    <2> QED
      BY <1>1, <2>2, <2>3 DEF OpenStep
  <1>2. ASSUME NEW t \in Txs, StatementStep(t) PROVE TxShape'
    <2>1. UNCHANGED look /\ \A u \in Txs \ {t} : tx'[u] = tx[u]
      BY <1>0, <1>2, Zenon DEF StatementStep, Write, Create, Replace, Remove, Rename, Cleanup,
                        CommitClean, DropClean, Ended, Abort
    <2>2. look[t].at = "idle"
      BY <1>2, Zenon DEF StatementStep, Write, Create, Replace, Remove, Rename, Cleanup,
                  CommitClean, DropClean, Abort, Statement, Active, TxShape
    <2> SUFFICES WellFormed(tx'[t])
      BY <1>a, <2>1, <2>2, Zenon, SMTT(20)
    <2>3. ASSUME NEW n \in Names, Write(t, n) \/ Create(t, n) \/ Replace(t, n) \/ Remove(t, n)
          PROVE  WellFormed(tx'[t])
      <3>1. /\ tx[t].phase = "open" /\ tx[t].write /\ WellFormed(tx[t])
            /\ tx'[t].phase = tx[t].phase /\ tx'[t].write = tx[t].write
            /\ tx'[t].raised = tx[t].raised /\ tx'[t].todo = tx[t].todo
        BY <2>3, MutationFrame, Zenon DEF TxShape
      <3>2. tx[t].dirty \subseteq tx'[t].dirty /\ tx'[t].clean \subseteq tx'[t].dirty
        <4>1. CASE Write(t, n)
          <5>1. tx'[t].dirty = tx[t].dirty \cup {Resolve(t, n)} /\ tx'[t].clean = tx[t].clean
            BY <1>0, <4>1 DEF Write, TxType
          <5> QED
            BY <3>1, <5>1, Zenon DEF WellFormed
        <4>2. CASE Create(t, n)
          <5>1. tx'[t].dirty = tx[t].dirty \cup {NewId} /\ tx'[t].clean = tx[t].clean
            BY <1>0, <4>2 DEF Create, TxType
          <5> QED
            BY <3>1, <5>1, Zenon DEF WellFormed
        <4>3. CASE Replace(t, n)
          <5>1. /\ tx'[t].dirty = tx[t].dirty \cup {NewId, Resolve(t, n)}
                /\ tx'[t].clean = tx[t].clean \cup {Resolve(t, n)}
            BY <1>0, <4>3 DEF Replace, TxType
          <5> QED
            BY <3>1, <5>1, Zenon DEF WellFormed
        <4>4. CASE Remove(t, n)
          <5>1. tx'[t].dirty = tx[t].dirty \cup {Resolve(t, n)} /\ tx'[t].clean = tx[t].clean
            BY <1>0, <4>4, Zenon, SMTT(20) DEF Remove, TxType
          <5> QED
            BY <3>1, <5>1, Zenon DEF WellFormed
        <4> QED
          BY <2>3, <4>1, <4>2, <4>3, <4>4, Zenon
      <3> QED
        BY <3>1, <3>2, Zenon DEF WellFormed
    <2>4. ASSUME NEW n \in Names, NEW m \in Names, Rename(t, n, m) PROVE WellFormed(tx'[t])
      <3>1. /\ tx'[t].phase = tx[t].phase /\ tx'[t].write = tx[t].write
            /\ tx'[t].raised = tx[t].raised /\ tx'[t].todo = tx[t].todo
            /\ tx'[t].dirty = tx[t].dirty /\ tx'[t].clean = tx[t].clean
        BY <1>0, <2>4, SMTT(20), Z3T(20) DEF Rename, TxType
      <3> QED
        BY <3>1, SMTT(30), Z3T(30) DEF TxShape, WellFormed
    <2>5. CASE Cleanup(t)
      <3>1. /\ tx'[t].phase = "ending" /\ tx'[t].write = tx[t].write
            /\ tx'[t].raised = tx[t].raised /\ tx'[t].todo = tx[t].todo
            /\ tx'[t].dirty = tx[t].dirty /\ tx'[t].clean = tx[t].clean
        BY <1>0, <2>5, Zenon, SMTT(20) DEF Cleanup, TxType
      <3> QED
        BY <2>5, <3>1 DEF Cleanup, Active, TxShape, WellFormed
    <2>6. CASE CommitClean(t) \/ DropClean(t)
      BY <1>0, <1>b, <2>6 DEF CommitClean, DropClean, Ended
    <2>7. CASE Abort(t)
      <3>1. /\ tx'[t].phase = "aborted" /\ tx'[t].write = tx[t].write
            /\ tx'[t].raised = tx[t].raised /\ tx'[t].todo = tx[t].dirty
            /\ tx'[t].dirty = tx[t].dirty /\ tx'[t].clean = tx[t].clean
        BY <1>0, <2>7 DEF Abort, TxType
      <3> QED
        BY <2>7, <3>1, ZenonT(30) DEF Abort, Active, TxShape, WellFormed
    <2> QED
      BY <1>2, <2>3, <2>4, <2>5, <2>6, <2>7 DEF StatementStep
  <1>3. ASSUME NEW t \in Txs, CommitStep(t) PROVE TxShape'
    <2>1. UNCHANGED look /\ \A u \in Txs \ {t} : tx'[u] = tx[u]
      BY <1>0, <1>3, Zenon DEF CommitStep, BeginCommit, StoreCommit, StoreCommitFails, BumpToken,
                        SweepSkipped, Sweep, Ended
    <2>2. look[t].at = "idle"
      BY <1>3 DEF CommitStep, BeginCommit, StoreCommit, StoreCommitFails, BumpToken,
                  SweepSkipped, Sweep, TxShape
    <2> SUFFICES WellFormed(tx'[t])
      BY <1>a, <2>1, <2>2
    <2>3. CASE BeginCommit(t)
      <3>1. /\ tx'[t].phase = "begun" /\ tx'[t].write = tx[t].write /\ tx'[t].raised
            /\ tx'[t].todo = tx[t].dirty /\ tx'[t].dirty = tx[t].dirty
            /\ tx'[t].clean = tx[t].clean
        BY <1>0, <2>3, SMTT(20), Z3T(20) DEF BeginCommit, TxType
      <3> QED
        BY <2>3, <3>1, Zenon DEF BeginCommit, TxShape, WellFormed
    <2>4. CASE StoreCommit(t) \/ StoreCommitFails(t)
      <3>1. /\ tx'[t].phase = "stored" /\ tx'[t].write = tx[t].write
            /\ tx'[t].raised = tx[t].raised /\ tx'[t].todo = tx[t].todo
            /\ tx'[t].dirty = tx[t].dirty /\ tx'[t].clean = tx[t].clean
        BY <1>0, <2>4, SMTT(20), Z3T(20) DEF StoreCommit, StoreCommitFails, TxType
      <3> QED
        BY <2>4, <3>1 DEF StoreCommit, StoreCommitFails, TxShape, WellFormed
    <2>5. CASE BumpToken(t)
      <3>0. PICK r \in tx[t].todo :
              tx' = [tx EXCEPT ![t].todo = @ \ {r},
                               ![t].phase = IF tx[t].todo = {r} THEN "sweeping" ELSE "bumping"]
        BY <2>5, Zenon DEF BumpToken
      <3>1. /\ tx'[t].phase = IF tx[t].todo = {r} THEN "sweeping" ELSE "bumping"
            /\ tx'[t].write = tx[t].write /\ tx'[t].raised = tx[t].raised
            /\ tx'[t].todo = tx[t].todo \ {r} /\ tx'[t].dirty = tx[t].dirty
            /\ tx'[t].clean = tx[t].clean
        BY <1>0, <3>0 DEF TxType
      <3>2. tx[t].phase \in {"stored", "aborted", "bumping"}
        BY <2>5 DEF BumpToken
      <3>3. WellFormed(tx[t])
        BY Zenon DEF TxShape
      <3>4. CASE tx[t].todo = {r}
        <4>1. tx'[t].todo = {} /\ tx'[t].phase = "sweeping"
          BY <3>1, <3>4, Zenon
        <4> QED
          BY <3>1, <3>2, <3>3, <4>1, Zenon DEF WellFormed
      <3>5. CASE tx[t].todo # {r}
        <4>1. tx'[t].phase = "bumping" /\ tx'[t].todo \subseteq tx[t].todo
          BY <3>1, <3>5
        <4> QED
          BY <3>1, <3>2, <3>3, <4>1, Zenon DEF WellFormed
      <3> QED
        BY <3>4, <3>5
    <2>6. CASE SweepSkipped(t) \/ Sweep(t)
      BY <1>0, <1>b, <2>6, Zenon DEF SweepSkipped, Sweep, Ended
    <2> QED
      BY <1>3, <2>3, <2>4, <2>5, <2>6 DEF CommitStep
  <1>4. ASSUME NEW t \in Txs, LookupStep(t) \/ \E k \in Keys : Lookup(t, k) PROVE TxShape'
    BY <1>4, LookFrame DEF TxShape, Active
  <1>5. CASE RegistryStep
    BY <1>5, Zenon DEF RegistryStep, CreateProjection, DropProjection, SetCapacity, InvalidateAll,
                ClearEntries, TxShape
  <1> QED
    BY <1>1, <1>2, <1>3, <1>4, <1>5, ConstantsAssumption, Zenon, SMTT(20) DEF Next

-----------------------------------------------------------------------------
(* Sums of bytes, and what evict_until leaves. *)

Units(es, K) == UNION {{k} \X (1 .. es[k].est_bytes) : k \in K}

LEMMA UnitsOf ==
  ASSUME NEW es, NEW K
  PROVE  /\ Bytes(es, K) = Cardinality(Units(es, K))
         /\ \A u : u \in Units(es, K) <=> \E k \in K : u \in {k} \X (1 .. es[k].est_bytes)
  BY Zenon DEF Bytes, Units

LEMMA UnitsOfOne ==
  ASSUME NEW es, NEW k, es[k].est_bytes \in Nat
  PROVE  /\ IsFiniteSet({k} \X (1 .. es[k].est_bytes))
         /\ Cardinality({k} \X (1 .. es[k].est_bytes)) = es[k].est_bytes
  <1> DEFINE n == es[k].est_bytes
  <1>0. n \in Nat /\ n \in Int /\ 1 \in Int
    BY SMTT(20), Z3T(20)
  <1>1. IsFiniteSet(1 .. n) /\ Cardinality(1 .. n) = n
    <2> HIDE DEF n
    <2>1. IsFiniteSet(1 .. n) /\ Cardinality(1 .. n) = IF 1 > n THEN 0 ELSE n - 1 + 1
      BY <1>0, FS_Interval, Zenon
    <2> QED
      BY <1>0, <2>1, SMTT(20), Z3T(20)
  <1>2. IsFiniteSet({k}) /\ Cardinality({k}) = 1
    BY FS_Singleton
  <1> HIDE DEF n
  <1>3. IsFiniteSet({k} \X (1 .. n)) /\ Cardinality({k} \X (1 .. n)) = 1 * Cardinality(1 .. n)
    BY <1>1, <1>2, FS_Product, Zenon
  <1> QED
    BY <1>0, <1>1, <1>3, SMTT(20), Z3T(20) DEF n

LEMMA UnitsFinite ==
  ASSUME NEW es, NEW K, IsFiniteSet(K), \A k \in K : es[k].est_bytes \in Nat
  PROVE  IsFiniteSet(Units(es, K)) /\ Bytes(es, K) \in Nat
  <1> DEFINE f == [k \in K |-> {k} \X (1 .. es[k].est_bytes)]
             T == {f[k] : k \in K}
  <1>1. f \in Surjection(K, T)
    BY Zenon DEF Surjection
  <1>2. ASSUME NEW k \in K PROVE IsFiniteSet(f[k])
    <2>1. IsFiniteSet({k} \X (1 .. es[k].est_bytes))
      BY UnitsOfOne, Zenon
    <2> QED
      BY <2>1
  <1>3. Units(es, K) = UNION T
    BY DEF Units
  <1> HIDE DEF f
  <1>4. \A U \in T : IsFiniteSet(U)
    BY <1>2
  <1> HIDE DEF T
  <1>5. IsFiniteSet(T)
    BY <1>1, FS_Surjection
  <1>6. IsFiniteSet(Units(es, K))
    BY <1>3, <1>4, <1>5, FS_UNION, Zenon
  <1> QED
    BY <1>6, UnitsOf, FS_CardinalityType

LEMMA BytesUnion ==
  ASSUME NEW es, NEW K, NEW L, IsFiniteSet(K), IsFiniteSet(L), K \cap L = {},
         \A k \in K \cup L : es[k].est_bytes \in Nat
  PROVE  Bytes(es, K \cup L) = Bytes(es, K) + Bytes(es, L)
  <1>1. IsFiniteSet(Units(es, K)) /\ IsFiniteSet(Units(es, L))
        /\ Bytes(es, K) \in Nat /\ Bytes(es, L) \in Nat
    BY UnitsFinite
  <1>2. Units(es, K \cup L) = Units(es, K) \cup Units(es, L)
    <2>1. ASSUME NEW u
          PROVE  u \in Units(es, K \cup L) <=> u \in Units(es, K) \/ u \in Units(es, L)
      <3>1. /\ u \in Units(es, K) <=> \E k \in K : u \in {k} \X (1 .. es[k].est_bytes)
            /\ u \in Units(es, L) <=> \E k \in L : u \in {k} \X (1 .. es[k].est_bytes)
            /\ u \in Units(es, K \cup L) <=>
                 \E k \in K \cup L : u \in {k} \X (1 .. es[k].est_bytes)
        BY UnitsOf, SMTT(20), Z3T(20)
      <3> QED
        BY <3>1, Zenon
    <2> QED
      BY <2>1, Zenon
  <1>3. Units(es, K) \cap Units(es, L) = {}
    <2>1. ASSUME NEW u \in Units(es, K) PROVE u[1] \in K
      BY UnitsOf, SMTT(20), Z3T(20)
    <2>2. ASSUME NEW u \in Units(es, L) PROVE u[1] \in L
      BY UnitsOf, SMTT(20), Z3T(20)
    <2> QED
      BY <2>1, <2>2, Zenon
  <1>4. Cardinality(Units(es, K) \cup Units(es, L)) =
          Cardinality(Units(es, K)) + Cardinality(Units(es, L)) - Cardinality({})
    BY <1>1, <1>3, FS_Union, SMTT(20), Z3T(20)
  <1>5. /\ Bytes(es, K) = Cardinality(Units(es, K)) /\ Bytes(es, L) = Cardinality(Units(es, L))
        /\ Bytes(es, K \cup L) = Cardinality(Units(es, K \cup L))
    BY UnitsOf
  <1>6. Cardinality({}) = 0
    BY FS_EmptySet
  <1>7. Bytes(es, K \cup L) = Bytes(es, K) + Bytes(es, L) - 0
    BY <1>2, <1>4, <1>5, <1>6, Zenon, SMTT(20)
  <1> QED
    BY <1>1, <1>7, SMTT(20), Z3T(20)

LEMMA BytesSplit ==
  ASSUME NEW es, NEW K, NEW L, IsFiniteSet(K), L \subseteq K,
         \A k \in K : es[k].est_bytes \in Nat
  PROVE  /\ Bytes(es, K) \in Nat /\ Bytes(es, L) \in Nat /\ Bytes(es, K \ L) \in Nat
         /\ Bytes(es, K) = Bytes(es, L) + Bytes(es, K \ L)
  <1>1. IsFiniteSet(L) /\ IsFiniteSet(K \ L)
    BY FS_Subset, FS_Difference, Zenon
  <1>2. K = L \cup (K \ L) /\ L \cap (K \ L) = {}
    OBVIOUS
  <1>3. Bytes(es, L \cup (K \ L)) = Bytes(es, L) + Bytes(es, K \ L)
    BY <1>1, <1>2, BytesUnion, Zenon
  <1>4. Bytes(es, K) \in Nat /\ Bytes(es, L) \in Nat /\ Bytes(es, K \ L) \in Nat
    BY <1>1, UnitsFinite, Zenon
  <1> QED
    BY <1>2, <1>3, <1>4, Zenon

LEMMA BytesGrow ==
  ASSUME NEW es, NEW K, NEW L, IsFiniteSet(K), L \subseteq K,
         \A k \in K : es[k].est_bytes \in Nat
  PROVE  Bytes(es, K) \in Nat /\ Bytes(es, L) \in Nat /\ Bytes(es, L) <= Bytes(es, K)
  <1>1. /\ Bytes(es, K) \in Nat /\ Bytes(es, L) \in Nat /\ Bytes(es, K \ L) \in Nat
        /\ Bytes(es, K) = Bytes(es, L) + Bytes(es, K \ L)
    BY BytesSplit, SMTT(20), Z3T(20)
  <1> QED
    BY <1>1, SMTT(20), Z3T(20)

LEMMA BytesOne ==
  ASSUME NEW es, NEW k, es[k].est_bytes \in Nat
  PROVE  Bytes(es, {k}) = es[k].est_bytes
  <1>1. Units(es, {k}) = {k} \X (1 .. es[k].est_bytes)
    BY Zenon DEF Units
  <1> QED
    BY <1>1, UnitsOf, UnitsOfOne, SMTT(20), Z3T(20)

LEMMA BytesRest ==
  ASSUME NEW es, NEW K, NEW j \in K, NEW M, M = K \ {j}, IsFiniteSet(K),
         \A k \in K : es[k].est_bytes \in Nat
  PROVE  /\ Bytes(es, M) \in Nat /\ es[j].est_bytes \in Nat
         /\ Bytes(es, K) = es[j].est_bytes + Bytes(es, M)
  <1> DEFINE L == {j}
  <1>1. IsFiniteSet(L) /\ IsFiniteSet(M)
    BY FS_Singleton, FS_RemoveElement, Zenon
  <1>2. M \cup L = K
    OBVIOUS
  <1>3. M \cap L = {} /\ \A k \in M \cup L : es[k].est_bytes \in Nat
    OBVIOUS
  <1>4. Bytes(es, L) = es[j].est_bytes /\ es[j].est_bytes \in Nat
    BY BytesOne
  <1>5. Bytes(es, M) \in Nat
    BY <1>1, UnitsFinite, Zenon
  <1> HIDE DEF L
  <1>6. Bytes(es, M \cup L) = Bytes(es, M) + Bytes(es, L)
    BY <1>1, <1>3, BytesUnion
  <1>7. Bytes(es, M \cup L) = Bytes(es, K)
    BY <1>2, Zenon
  <1> QED
    BY <1>4, <1>5, <1>6, <1>7, SMTT(20), Z3T(20)

LEMMA BytesSame ==
  ASSUME NEW es, NEW fs, NEW K, \A k \in K : es[k].est_bytes = fs[k].est_bytes
  PROVE  Bytes(es, K) = Bytes(fs, K)
  <1>1. ASSUME NEW u PROVE u \in Units(es, K) <=> u \in Units(fs, K)
    <2>1. \A k \in K : {k} \X (1 .. es[k].est_bytes) = {k} \X (1 .. fs[k].est_bytes)
      OBVIOUS
    <2>2. /\ u \in Units(es, K) <=> \E k \in K : u \in {k} \X (1 .. es[k].est_bytes)
          /\ u \in Units(fs, K) <=> \E k \in K : u \in {k} \X (1 .. fs[k].est_bytes)
      BY UnitsOf
    <2> QED
      BY <2>1, <2>2, Zenon
  <1>2. Units(es, K) = Units(fs, K)
    BY <1>1
  <1> QED
    BY <1>2, UnitsOf, SMTT(20), Z3T(20)

LEMMA Overtakes ==
  ASSUME NEW a \in Nat, NEW b \in Nat, NEW c \in Nat, a <= b, c > b
  PROVE  c > a
  BY SMTT(20), Z3T(20)

\* Of the keys S of the finite set C one is not younger than any other.
LEMMA Oldest ==
  ASSUME registry.recency \in [Keys -> Nat], NEW C \in SUBSET Keys, IsFiniteSet(C),
         NEW S \in SUBSET C, S # {}
  PROVE  \E k \in S : \A j \in S : ~(registry.recency[j] > registry.recency[k])
  <1> DEFINE older(k) == {j \in C : registry.recency[j] > registry.recency[k]}
             T == {older(k) : k \in S}
             R == StrictSubsetOrdering(C)
  <1>0. \A k \in C : registry.recency[k] \in Nat
    OBVIOUS
  <1>1. IsWellFoundedOn(R, SUBSET C)
    BY FS_StrictSubsetOrderingWellFounded, FS_FiniteSubsetsOfFinite, Zenon
  <1>2. T \subseteq SUBSET C /\ T # {}
    BY Zenon, SMTT(20)
  <1> HIDE DEF R
  <1>3. PICK x \in T : \A y \in T : <<y, x>> \notin R
    <2> HIDE DEF T
    <2> QED
      BY <1>1, <1>2, WFMin
  <1>4. PICK k \in S : x = older(k)
    OBVIOUS
  <1>5. ASSUME NEW j \in S, registry.recency[j] > registry.recency[k] PROVE FALSE
    <2>1. older(j) \subseteq older(k)
      BY <1>0, <1>5, SMTT(20), Z3T(20)
    <2>2. j \in older(k) /\ j \notin older(j)
      BY <1>0, <1>5, SMTT(20), Z3T(20)
    <2>3. older(j) \in T /\ older(k) \in T
      OBVIOUS
    <2> HIDE DEF older, T
    <2>4. <<older(j), older(k)>> \in R
      BY <1>2, <2>1, <2>2, <2>3, Zenon, SMTT(20) DEF R, StrictSubsetOrdering
    <2> QED
      BY <1>3, <1>4, <2>3, <2>4
  <1> QED
    BY <1>5

\* evict_until counts what it leaves behind, and stays within its target.
LEMMA EvictAccounts ==
  ASSUME NEW es \in [Keys -> Entries \cup {None}], IsFiniteSet(Cached(es)),
         registry.recency \in [Keys -> Nat], NEW used, used = Bytes(es, Cached(es)),
         NEW target \in Nat, NEW kept, kept = EvictUntil(es, used, target)
  PROVE  /\ kept.used_bytes \in Nat /\ kept.used_bytes <= target
         /\ kept.used_bytes = Bytes(kept.entries, Cached(kept.entries))
         /\ Cached(kept.entries) \subseteq Cached(es)
  <1> DEFINE C == Cached(es)
             older(k) == {j \in C : registry.recency[j] > registry.recency[k]}
             victims == {k \in C : Less(used, Bytes(es, older(k))) > target}
             S == C \ victims
             left == Less(used, Bytes(es, victims))
  <1>0. C \subseteq Keys /\ \A k \in C : es[k].est_bytes \in Nat /\ es[k] # None
    BY DEF Cached, Entries
  <1>1. /\ kept.entries = Without(es, victims)
        /\ kept.used_bytes = IF left > target THEN 0 ELSE left
    BY Zenon DEF EvictUntil
  <1>2. Cached(kept.entries) = S /\ \A k \in S : kept.entries[k] = es[k]
    <2> HIDE DEF victims
    <2> QED
      BY <1>1, Zenon DEF Without, Cached
  <1>3. victims \subseteq C
    BY Zenon, SMTT(20)
  <1>4. /\ used \in Nat /\ Bytes(es, victims) \in Nat /\ Bytes(es, S) \in Nat
        /\ used = Bytes(es, victims) + Bytes(es, S)
    <2>1. used = Bytes(es, C) /\ IsFiniteSet(C) /\ S = C \ victims
      BY Zenon
    <2> HIDE DEF victims, C, S
    <2> QED
      BY <1>0, <1>3, <2>1, BytesSplit, SMTT(20), Z3T(20)
  <1>5. left = Bytes(es, S)
    <2> HIDE DEF victims
    <2> QED
      BY <1>4, SMTT(20), Z3T(20) DEF Less
  <1>6. left <= target
    <2>1. CASE S = {}
      <3>1. Bytes(es, {}) = 0
        <4>1. Units(es, {}) = {}
          BY Zenon DEF Units
        <4> QED
          BY <4>1, UnitsOf, FS_EmptySet, Zenon, SMTT(20)
      <3> HIDE DEF left, S
      <3> QED
        BY <1>5, <2>1, <3>1, SMTT(20), Z3T(20)
    <2>2. CASE S # {}
      <3>1. PICK k \in S : \A j \in S : ~(registry.recency[j] > registry.recency[k])
        <4> HIDE DEF S
        <4>1. S \in SUBSET C
          BY DEF S
        <4> HIDE DEF C
        <4>2. IsFiniteSet(C)
          BY Zenon, SMTT(20) DEF C
        <4> QED
          BY <1>0, <2>2, <4>1, <4>2, Oldest, Zenon, SMTT(20)
      <3>2. k \in C /\ ~(Less(used, Bytes(es, older(k))) > target)
        OBVIOUS
      <3>3. older(k) \subseteq victims
        BY <3>1, Zenon, SMTT(20)
      <3>4. ASSUME NEW v \in victims, v \notin older(k) PROVE FALSE
        <4>1. older(k) \subseteq older(v)
          <5>1. \A j \in C : registry.recency[j] \in Nat
            BY <1>0, Zenon, SMTT(20)
          <5>2. registry.recency[v] <= registry.recency[k]
            BY <3>2, <3>4, <5>1, SMTT(20), Z3T(20)
          <5>3. ASSUME NEW j \in older(k)
                PROVE  registry.recency[j] > registry.recency[v]
            <6>1. j \in C /\ registry.recency[j] > registry.recency[k]
              BY <5>3, Zenon
            <6>2. v \in C
              BY <3>4, Zenon
            <6> HIDE DEF older, victims, C, S, left
            <6> QED
              BY <3>2, <5>1, <5>2, <6>1, <6>2, Overtakes, Zenon
          <5> QED
            BY <5>3, Zenon, SMTT(20)
        <4>2. older(v) \subseteq C /\ Less(used, Bytes(es, older(v))) > target
          BY <3>4, Zenon, SMTT(20)
        <4> HIDE DEF older, victims, C
        <4>3. IsFiniteSet(older(v)) /\ \A j \in older(v) : es[j].est_bytes \in Nat
          BY <1>0, <4>2, FS_Subset DEF C
        <4>4. /\ Bytes(es, older(v)) \in Nat /\ Bytes(es, older(k)) \in Nat
              /\ Bytes(es, older(k)) <= Bytes(es, older(v))
          BY <4>1, <4>3, BytesGrow, Zenon
        <4> QED
          BY <1>4, <3>2, <4>2, <4>4, SMTT(20), Z3T(20) DEF Less
      <3>5. older(k) = victims
        BY <3>3, <3>4, Zenon, SMTT(20)
      <3> HIDE DEF older, victims, C, S
      <3> QED
        BY <1>4, <3>2, <3>5, SMTT(20), Z3T(20) DEF Less
    <2> QED
      BY <2>1, <2>2, Zenon
  <1> HIDE DEF left, S, victims, C, older
  <1>7. Bytes(kept.entries, S) = Bytes(es, S)
    BY <1>2, BytesSame, SMTT(20), Z3T(20)
  <1>8. S \subseteq C
    BY DEF S
  <1> QED
    BY <1>1, <1>2, <1>4, <1>5, <1>6, <1>7, <1>8, SMTT(20), Z3T(20) DEF C
=============================================================================
