------------------------ MODULE ProjectionCacheProofs ------------------------
(***************************************************************************)
(* Theorems about ProjectionCache for every set of transactions, relations *)
(* and projections: type correctness, balanced inflight counters, single   *)
(* flight, no stranded entry, exact accounts, and, on every storage engine *)
(* but sled, the freshness claim of graph_projection.rs and the refinement *)
(* that rests on it.                                                       *)
(***************************************************************************)
EXTENDS ProjectionSteps

-----------------------------------------------------------------------------
(* Build slots. *)

LEMMA SlotsKeptStep ==
  ASSUME CoreTypeOK, TxShape, LookKeyed, SlotsKept, Next PROVE SlotsKept'
  <1>n. None \notin Txs
    BY NoneFacts
  <1>f. build_slots \in [BuildKeys -> Txs \cup {None}]
    BY Zenon DEF CoreTypeOK
  <1>i. IdleLook.at = "idle" /\ IdleLook.slot = None
    BY DEF IdleLook
  <1> DEFINE Kept(u) == /\ look'[u].at \in Holding \cup {"queued"} <=> look'[u].slot # None
                        /\ look'[u].slot # None => build_slots'[BuildKey(u)'] = look'[u].slot
  <1> SUFFICES ASSUME NEW u \in Txs PROVE Kept(u)
    BY DEF SlotsKept
  <1>0. /\ look[u].at \in Holding \cup {"queued"} <=> look[u].slot # None
        /\ look[u].slot # None => build_slots[BuildKey(u)] = look[u].slot
    BY DEF SlotsKept
  <1>1. ASSUME NEW k \in Keys, Lookup(u, k) PROVE Kept(u)
    BY <1>1, LookStarts DEF Holding
  <1>2. CASE LookupStep(u)
    <2>k. SameKey(u) => BuildKey(u)' = BuildKey(u)
      BY DEF SameKey, BuildKey
    <2>b. BuildKey(u) \in BuildKeys
      BY <1>2, LookFrame, BuildKeyType, Zenon
    <2>1. CASE Serves(u) \/ Waits(u)
      BY <1>0, <2>1, <2>k, Zenon DEF Serves, Waits, Goes, SameSlot, Holding
    <2>2. CASE Decides(u) \/ Builds(u) \/ Publishes(u)
      BY <1>0, <2>2, <2>k, Zenon DEF Decides, Builds, Publishes, Goes, SameSlot, Holding
    <2>3. CASE Queues(u)
      BY <1>f, <1>n, <2>3, <2>k, <2>b, Zenon DEF Queues, Goes, Holding
    <2>4. CASE Unlocks(u)
      BY <2>4 DEF Unlocks, Goes, Holding
    <2>5. CASE Releases(u)
      BY <1>0, <2>5 DEF Releases, Holding
    <2>6. CASE Returns(u)
      BY <1>i, <2>6 DEF Returns, Holding
    <2> QED
      BY <1>2, <2>1, <2>2, <2>3, <2>4, <2>5, <2>6, LookMoves, Zenon
  <1>3. CASE look'[u] = look[u] /\ ~LookupStep(u)
    <2>k. BuildKey(u)' = BuildKey(u)
      BY <1>3 DEF BuildKey
    <2>1. CASE UNCHANGED build_slots
      BY <1>0, <1>3, <2>1, <2>k
    <2>2. ASSUME NEW t \in Txs, LookupStep(t) PROVE Kept(u)
      <3>b. BuildKey(t) \in BuildKeys
        BY <2>2, LookFrame, BuildKeyType, Zenon
      <3>1. CASE Queues(t)
        <4>1. look[u].slot # None => build_slots'[BuildKey(u)] = build_slots[BuildKey(u)]
          <5>1. CASE BuildKey(u) = BuildKey(t)
            <6>1. look[u].slot # None => build_slots[BuildKey(t)] # None
              BY <1>0, <5>1
            <6> QED
              BY <1>f, <3>1, <3>b, <5>1, <6>1, Zenon DEF Queues
          <5>2. CASE BuildKey(u) # BuildKey(t)
            <6>1. \E x : build_slots' = [build_slots EXCEPT ![BuildKey(t)] = x]
              BY <3>1, Zenon DEF Queues
            <6>2. look[u].slot # None => BuildKey(u) \in BuildKeys
              BY <1>0, BuildKeyType, Zenon DEF Holding
            <6> QED
              BY <1>f, <3>b, <5>2, <6>1, <6>2, Zenon
          <5> QED
            BY <5>1, <5>2
        <4> QED
          BY <1>0, <1>3, <2>k, <4>1, Zenon
      <3>2. CASE Releases(t)
        <4>1. look[u].slot # None => u \in Clones(BuildKey(u), build_slots[BuildKey(u)])
          BY <1>0 DEF Clones
        <4>2. look[u].slot # None => build_slots'[BuildKey(u)] = build_slots[BuildKey(u)]
          BY <1>0, <1>f, <3>2, <3>b, <4>1, SMTT(30), Z3T(30) DEF Releases
        <4> QED
          BY <1>0, <1>3, <2>k, <4>2
      <3> QED
        BY <2>1, <2>2, <3>1, <3>2, LookMoves, Zenon DEF Serves, Waits, Decides, Builds, Publishes,
             Unlocks, Returns, SameSlot
    <2>3. ASSUME ~\E t \in Txs : LookupStep(t) PROVE UNCHANGED build_slots
      <3>1. ASSUME NEW t \in Txs, OpenStep(t) PROVE UNCHANGED build_slots
        BY <3>1, Zenon DEF OpenStep, LoadWatermark, Pin
      <3>2. ASSUME NEW t \in Txs, StatementStep(t) \/ CommitStep(t) PROVE UNCHANGED build_slots
        BY <3>2, OwnFrame
      <3>3. ASSUME NEW t \in Txs, NEW k \in Keys, Lookup(t, k) PROVE UNCHANGED build_slots
        BY <3>3, LookStarts
      <3>4. ASSUME RegistryStep PROVE UNCHANGED build_slots
        BY <3>4, Zenon DEF RegistryStep, CreateProjection, DropProjection, SetCapacity,
             InvalidateAll, ClearEntries
      <3> QED
        BY <2>3, <3>1, <3>2, <3>3, <3>4, ConstantsAssumption, Zenon DEF Next
    <2> QED
      BY <2>1, <2>2, <2>3
  <1> QED
    BY <1>1, <1>2, <1>3, LookStep

\* Who is inside a slot now was inside before, or found the slot free.
LEMMA HoldingStep ==
  ASSUME CoreTypeOK, TxShape, Next, NEW t \in Txs, look'[t].at \in Holding
  PROVE  /\ look[t].at \in Holding \/ (look[t].at = "queued" /\ Holders(BuildKey(t), look[t].slot) = {})
         /\ BuildKey(t)' = BuildKey(t)
         /\ look[t].at \in Holding \/ \A u \in Txs \ {t} : look'[u] = look[u]
  <1>1. ASSUME NEW k \in Keys, Lookup(t, k) PROVE FALSE
    BY <1>1, LookStarts DEF Holding
  <1>2. CASE LookupStep(t)
    <2>1. \A u \in Txs \ {t} : look'[u] = look[u]
      BY <1>2, LookFrame, Zenon
    <2>2. ~Queues(t) /\ ~Unlocks(t) /\ ~Releases(t) /\ ~Returns(t)
      <3>1. ~Queues(t) /\ ~Unlocks(t)
        BY DEF Queues, Unlocks, Goes, Holding
      <3>2. ~Releases(t)
        BY DEF Releases, Holding
      <3>3. IdleLook.at = "idle"
        BY DEF IdleLook
      <3> QED
        BY <3>1, <3>2, <3>3, Zenon, SMTT(20) DEF Returns, Holding
    <2>3. /\ SameKey(t)
          /\ look[t].at \in Holding \/ (look[t].at = "queued" /\ Holders(BuildKey(t), look[t].slot) = {})
      BY <1>2, <2>2, LookMoves, Zenon DEF Serves, Waits, Decides, Builds, Publishes, Goes, Holding
    <2> QED
      BY <2>1, <2>3 DEF SameKey, BuildKey
  <1>3. CASE look'[t] = look[t]
    BY <1>3, Zenon DEF BuildKey
  <1> QED
    BY <1>1, <1>2, <1>3, LookStep, Zenon

LEMMA SingleFlightStep ==
  ASSUME CoreTypeOK, TxShape, SlotsKept, SingleFlight, Next PROVE SingleFlight'
  <1> SUFFICES ASSUME NEW t \in Txs, NEW u \in Txs, look'[t].at \in Holding,
                      look'[u].at \in Holding, BuildKey(t)' = BuildKey(u)', t # u
               PROVE  FALSE
    BY DEF SingleFlight
  <1>0. BuildKey(t) = BuildKey(u)
    BY HoldingStep
  <1>1. ASSUME NEW x \in Txs, NEW y \in Txs, look[x].at = "queued", look[y].at \in Holding,
               BuildKey(x) = BuildKey(y), Holders(BuildKey(x), look[x].slot) = {}
        PROVE  FALSE
    <2>1. look[x].slot = look[y].slot /\ look[x].slot # None
      BY <1>1 DEF SlotsKept
    <2> QED
      BY <1>1, <2>1 DEF Holders, Clones
  <1>2. look[t].at \in Holding \/ look[u].at \in Holding
    <2>1. look[t].at \notin Holding => look'[u] = look[u]
      BY HoldingStep
    <2> QED
      BY <2>1
  <1> QED
    BY <1>0, <1>1, <1>2, HoldingStep, Zenon DEF SingleFlight

-----------------------------------------------------------------------------
(* What freshness gives. *)

\* Nobody owes a token for a relation that is fresh to a transaction that has
\* not written it: inflight counts the commits, and on mem, where a range
\* delete goes through at once, the writer would be alone.
LEMMA FreshSettled ==
  ASSUME CoreTypeOK, TxShape, Alone, InflightBalanced, Backend # "sled",
         NEW t \in Txs, tx[t].phase = "open",
         NEW r \in Ids, r \notin tx[t].dirty, Fresh(t, r)
  PROVE  ~Indeterminate(r)
  <1> SUFFICES ASSUME NEW u \in Txs, r \in Unbumped(u) PROVE FALSE
    BY DEF Indeterminate
  <1>w. WellFormed(tx[u])
    BY DEF TxShape
  <1>1. CASE tx[u].raised
    <2> DEFINE Owed == {x \in Txs : tx[x].raised /\ r \in tx[x].todo}
    <2>1. u \in Owed
      BY <1>1 DEF Unbumped
    <2>2. IsFiniteSet(Owed) /\ Cardinality(Owed) = 0
      BY ConstantsAssumption, FS_Subset DEF InflightBalanced, Fresh
    <2> QED
      BY <2>1, <2>2, FS_EmptySet
  <1>2. CASE ~tx[u].raised
    <2>1. Exclusive
      BY <1>2, Zenon DEF Unbumped, WriteThrough, Exclusive
    <2>2. r \in tx[u].dirty /\ tx[u].write /\ Pinned(u)
      BY <1>w, <1>2, Zenon DEF Unbumped, WellFormed, Pinned
    <2>3. u = t
      BY <2>1, <2>2 DEF Alone, Pinned
    <2> QED
      BY <2>2, <2>3
  <1> QED
    BY <1>1, <1>2

LEMMA FreshScan ==
  ASSUME CoreTypeOK, TxShape, Alone, InflightBalanced, ClockBounds, SnapshotCurrent,
         Backend # "sled", NEW t \in Txs, tx[t].phase = "open",
         NEW r \in Ids, r \notin tx[t].dirty, Fresh(t, r)
  PROVE  ScanVersion(t, r) = version[r] /\ Scan(t, r) = Committed(r)
  <1>1. ~Indeterminate(r)
    BY FreshSettled, Zenon, SMTT(20)
  <1>2. token[r] \in Nat /\ tx[t].watermark \in Nat /\ token[r] <= tx[t].watermark
    BY DEF CoreTypeOK, Versions, TxType, Fresh
  <1>3. ScanVersion(t, r) = version[r]
    BY <1>1, <1>2, SMTT(20), Z3T(20) DEF SnapshotCurrent, ScanVersion, Pinned
  <1> QED
    BY <1>3, NoneFacts DEF Scan, Committed

-----------------------------------------------------------------------------
(* Built graphs and tags. *)

LEMMA BuiltCurrentStep ==
  ASSUME CoreTypeOK, CoreTypeOK', TxShape, ClockBounds, SnapshotCurrent, LookShape,
         BuiltCurrent, Next
  PROVE  BuiltCurrent'
  <1> SUFFICES ASSUME NEW t \in Txs, NEW s \in Slots, look'[t].at = "produce",
                      NEW r, r = look'[t].ids[s]
               PROVE  IF r = NoId THEN look'[t].built[s] = None
                      ELSE \/ look'[t].built[s] = [rel |-> r, ver |-> version'[r], own |-> None]
                           \/ token'[r] > tx'[t].watermark
                           \/ Indeterminate(r)'
    BY Zenon, SMTT(20) DEF BuiltCurrent, Committed
  <1>0. /\ r \in Ids \cup {NoId} /\ tx[t].watermark \in Nat
        /\ bump_seq \in Nat /\ token \in [Ids -> Nat] /\ token' \in [Ids -> Nat]
        /\ tx[t].watermark <= bump_seq
    BY SMTT(30), Z3T(30) DEF CoreTypeOK, Versions, TxType, LookType, ClockBounds
  <1>1. CASE look'[t] = look[t]
    <2>1. tx'[t] = tx[t]
      BY <1>1, BusyFrame, Zenon, SMTT(20)
    <2>2. CASE r = NoId
      BY <1>1, <2>2 DEF BuiltCurrent
    <2>3. CASE r # NoId
      <3>0. r \in Ids
        BY <1>0, <2>3, Zenon
      <3>1. look[t].built[s] = Committed(r) \/ token[r] > tx[t].watermark \/ Indeterminate(r)
        BY <1>1, <2>3 DEF BuiltCurrent
      <3>2. CASE look[t].built[s] = Committed(r)
        BY <1>1, <2>3, <3>0, <3>2, VersionStep, Zenon DEF Committed
      <3>3. CASE token[r] > tx[t].watermark
        <4>1. token'[r] = token[r] \/ bump_seq < token'[r]
          BY <3>0, TokenStep
        <4>2. token'[r] > tx[t].watermark
          BY <1>0, <3>0, <3>3, <4>1, SMTT(20), Z3T(20)
        <4> QED
          BY <2>1, <2>3, <4>2, Zenon
      <3>4. CASE Indeterminate(r)
        <4>1. Indeterminate(r)' \/ token'[r] > bump_seq
          BY <3>0, <3>4, IndeterminateStep, Zenon, SMTT(20)
        <4> QED
          BY <1>0, <2>1, <2>3, <3>0, <4>1, SMTT(30), Z3T(30)
      <3> QED
        BY <3>1, <3>2, <3>3, <3>4, Zenon
    <2> QED
      BY <2>2, <2>3, Zenon
  <1>2. CASE LookupStep(t)
    <2>0. ~Returns(t) /\ ~Serves(t) /\ ~Queues(t) /\ ~Unlocks(t) /\ ~Releases(t)
      BY LookGoesOn, Zenon
    <2>1. Builds(t) /\ look[t].at = "build" /\ look'[t].built = ScanSources(t)
      BY <1>2, <2>0, LookMoves, Zenon DEF Waits, Decides, Builds, Publishes, Goes
    <2>2. UNCHANGED <<version, token, tx>> /\ look[t].ids[s] = r
      BY <1>2, <2>1, LookFrame, Zenon DEF Builds, SameKey
    <2>3. look'[t].built[s] = Scan(t, r)
      BY <2>1, <2>2, Zenon DEF ScanSources
    <2>4. r # NoId => r \notin tx[t].dirty
      BY <2>1, <2>2, Zenon DEF LookShape, Shareable, SourceIds
    <2>5. tx[t].phase = "open"
      BY <2>1 DEF TxShape
    <2>6. r # NoId => Scan(t, r) = [rel |-> r, ver |-> ScanVersion(t, r), own |-> None]
      BY <2>4, Zenon DEF Scan
    <2>7. r # NoId => \/ ScanVersion(t, r) = version[r]
                      \/ token[r] > tx[t].watermark
                      \/ Indeterminate(r)
      BY <1>0, <2>5 DEF SnapshotCurrent, ScanVersion, Pinned
    <2>8. Indeterminate(r) => Indeterminate(r)'
      BY <2>2 DEF Indeterminate, Unbumped
    <2>9. r = NoId => Scan(t, r) = None
      BY DEF Scan
    <2> QED
      BY <2>2, <2>3, <2>6, <2>7, <2>8, <2>9, Zenon
  <1>3. ASSUME NEW k \in Keys, Lookup(t, k) PROVE FALSE
    BY <1>3, LookStarts, Zenon
  <1> QED
    BY <1>1, <1>2, <1>3, LookStep, Zenon

\* What a tag denotes only stops being so by the tag going out of date.
LEMMA DenotesStep ==
  ASSUME CoreTypeOK, CoreTypeOK', TxShape, ClockBounds, Next,
         NEW ids \in [Slots -> Ids \cup {NoId}], NEW tokens \in [Slots -> Nat], NEW content,
         \A s \in Slots : ids[s] # NoId => tokens[s] <= bump_seq,
         Denotes(ids, tokens, content)
  PROVE  Denotes(ids, tokens, content)'
  <1> SUFFICES ASSUME NEW s \in Slots, ids[s] # NoId, tokens[s] = token'[ids[s]],
                      ~Indeterminate(ids[s])'
               PROVE  content[s] = Committed(ids[s])'
    BY Zenon, SMTT(20) DEF Denotes
  <1> DEFINE r == ids[s]
  <1>0. /\ r \in Ids /\ tokens[s] \in Nat /\ bump_seq \in Nat
        /\ token[r] \in Nat /\ token'[r] \in Nat /\ tokens[s] <= bump_seq
    BY Zenon DEF CoreTypeOK, Versions
  <1>1. token'[r] = token[r]
    BY <1>0, TokenStep, SMTT(20), Z3T(20)
  <1>2. ~Indeterminate(r)
    BY <1>0, IndeterminateStep, SMTT(20), Z3T(20)
  <1>3. version'[r] = version[r]
    BY <1>0, VersionStep
  <1> QED
    BY <1>1, <1>2, <1>3 DEF Denotes, Committed

LEMMA TagsDenoteStep ==
  ASSUME CoreTypeOK, CoreTypeOK', TxShape, Alone, ClockBounds, InflightBalanced,
         SnapshotCurrent, LookShape, LookKeyed, BuiltCurrent, TagsDenote,
         Backend # "sled", Next
  PROVE  TagsDenote'
  <1>1. ASSUME NEW t \in Txs, look[t].at = "insert", NEW x, x = look[t]
        PROVE  Denotes(x.ids, x.tokens, x.built)'
    <2>1. x.ids \in [Slots -> Ids \cup {NoId}] /\ x.tokens \in [Slots -> Nat]
      BY <1>1 DEF CoreTypeOK, LookType
    <2>2. \A s \in Slots : x.tokens[s] <= bump_seq
      BY <1>1 DEF ClockBounds
    <2>3. Denotes(x.ids, x.tokens, x.built)
      BY <1>1 DEF TagsDenote
    <2> QED
      BY <2>1, <2>2, <2>3, DenotesStep
  <1>2. ASSUME NEW k \in Keys, entries'[k] # None, NEW e, e = entries'[k]
        PROVE  Denotes(e.ids, e.tokens, e.content)'
    <2>1. CASE entries'[k] = entries[k]
      <3>1. e.ids \in [Slots -> Ids \cup {NoId}] /\ e.tokens \in [Slots -> Nat]
        BY <1>2 DEF CoreTypeOK, Entries
      <3>2. \A s \in Slots : e.tokens[s] <= bump_seq
        BY <1>2, <2>1 DEF ClockBounds
      <3>3. Denotes(e.ids, e.tokens, e.content)
        BY <1>2, <2>1 DEF TagsDenote
      <3> QED
        BY <3>1, <3>2, <3>3, DenotesStep, Zenon, SMTT(20)
    <2>2. ASSUME NEW t \in Txs, look[t].at = "insert", e.ids = look[t].ids,
                 e.tokens = look[t].tokens, e.content = look[t].built
          PROVE  Denotes(e.ids, e.tokens, e.content)'
      <3>1. e.ids \in [Slots -> Ids \cup {NoId}] /\ e.tokens \in [Slots -> Nat]
        BY <1>2, Zenon DEF CoreTypeOK, Entries
      <3>2. \A s \in Slots : e.tokens[s] <= bump_seq
        BY <2>2 DEF ClockBounds
      <3>3. Denotes(e.ids, e.tokens, e.content)
        BY <2>2 DEF TagsDenote
      <3> QED
        BY <3>1, <3>2, <3>3, DenotesStep, Zenon, SMTT(20)
    <2> QED
      BY <1>2, <2>1, <2>2, EntryFrame, Zenon
  <1>3. ASSUME NEW t \in Txs, look'[t].at = "insert", NEW y, y = look'[t]
        PROVE  Denotes(y.ids, y.tokens, y.built)'
    <2>1. CASE look'[t] = look[t]
      BY <1>1, <1>3, <2>1, Zenon
    <2>2. ASSUME NEW k \in Keys, Lookup(t, k) PROVE FALSE
      BY <1>3, <2>2, LookStarts, Zenon
    <2>3. CASE LookupStep(t)
      <3>1. Publishes(t)
        BY <1>3, <2>3, LookInserts, Zenon
      <3>2. /\ look[t].at = "produce" /\ AllFresh(t) /\ y.ids = look[t].ids
            /\ y.built = look[t].built
            /\ y.tokens = [s \in Slots |-> IF y.ids[s] = NoId THEN 0 ELSE token[y.ids[s]]]
        BY <1>3, <3>1, SMTT(30), Z3T(30) DEF Publishes, Goes, SameKey
      <3>3. tx[t].phase = "open"
        BY <3>2, Zenon DEF TxShape
      <3>4. y.ids \in [Slots -> Ids \cup {NoId}] /\ y.tokens \in [Slots -> Nat]
        BY <1>3, Zenon, SMTT(20) DEF CoreTypeOK, LookType
      <3>5. \A s \in Slots : y.ids[s] # NoId => y.tokens[s] <= bump_seq
        BY <3>2, <3>4, Zenon DEF ClockBounds
      <3>6. ASSUME NEW s \in Slots, y.ids[s] # NoId PROVE y.built[s] = Committed(y.ids[s])
        <4>0. y.ids[s] \in Ids
          BY <3>4, <3>6
        <4>1. Fresh(t, y.ids[s])
          BY <3>2, <3>6, Zenon DEF AllFresh, SourceIds
        <4>2. y.ids[s] \notin tx[t].dirty
          BY <3>2, <3>6, Zenon DEF LookShape, Shareable, SourceIds
        <4>3. ~Indeterminate(y.ids[s])
          BY <3>3, <4>0, <4>1, <4>2, FreshSettled, Zenon
        <4>4. ~(token[y.ids[s]] > tx[t].watermark)
          <5>1. token[y.ids[s]] \in Nat /\ tx[t].watermark \in Nat
            BY <4>0, Zenon, SMTT(20) DEF CoreTypeOK, TxType, Versions
          <5> QED
            BY <4>1, <5>1, SMTT(20), Z3T(20) DEF Fresh
        <4> QED
          BY <3>2, <3>6, <4>3, <4>4, Zenon, SMTT(20) DEF BuiltCurrent
      <3>7. ASSUME NEW s \in Slots, y.ids[s] = NoId PROVE y.built[s] = None
        BY <3>2, <3>7, Zenon, SMTT(20) DEF BuiltCurrent
      <3>8. Denotes(y.ids, y.tokens, y.built)
        BY <3>6, <3>7, Zenon DEF Denotes
      <3> QED
        BY <3>4, <3>5, <3>8, DenotesStep, Zenon
    <2> QED
      BY <2>1, <2>2, <2>3, LookStep, Zenon
  <1> QED
    BY <1>2, <1>3, ZenonT(30) DEF TagsDenote, Denotes, Committed

-----------------------------------------------------------------------------
(* No entry is stranded. *)

Inserting == {t \in Txs : look[t].at = "insert"}

\* The mirror counts the entries; while the one lookup that holds the registry
\* mutex is about to insert, it is at least raised.
Mirror ==
  /\ \A t, u \in Inserting : t = u
  /\ IsFiniteSet(Cached(entries))
  /\ RegistryFree => entry_count = Cardinality(Cached(entries))
  /\ ~RegistryFree => entry_count \in Nat \ {0}

\* A sweep of the entries sourced on r is still to come.
SweepDue(r) ==
  restoring \/ \E t \in Txs : tx[t].phase \in {"bumping", "sweeping"} /\ r \in tx[t].dirty

\* A tag is current or about to be swept.
Tracked(ids, tokens) ==
  \A s \in Slots : ids[s] # NoId /\ tokens[s] # token[ids[s]] => SweepDue(ids[s])

TagsTracked ==
  /\ \A k \in Keys : entries[k] # None => Tracked(entries[k].ids, entries[k].tokens)
  /\ \A t \in Txs : look[t].at = "insert" => Tracked(look[t].ids, look[t].tokens)

\* A step that drops entries: they are fewer, and the mirror is set to their
\* number.
Drops ==
  /\ RegistryFree /\ UNCHANGED look
  /\ Cached(entries)' \subseteq Cached(entries)
  /\ entry_count' = Cardinality(Cached(entries)')

LEMMA ForgetDrops ==
  ASSUME CoreTypeOK, NEW K, Forget(K), RegistryFree, UNCHANGED look
  PROVE  Drops /\ \A k \in Keys : entries'[k] # None => k \notin K
  <1>1. entries' = [k \in Keys |-> IF k \in K THEN None ELSE entries[k]]
    BY DEF Forget, Without
  <1>2. Cached(entries)' = Cached(entries) \ K
    BY <1>1 DEF Cached
  <1>3. entry_count' = Cardinality(Cached(entries) \ K)
    BY DEF Forget
  <1> QED
    BY <1>1, <1>2, <1>3 DEF Drops

LEMMA EvictDrops ==
  ASSUME CoreTypeOK, NEW c \in Capacities, SetCapacity(c)
  PROVE  Drops
  <1> DEFINE kept == EvictUntil(entries, registry.used_bytes, c)
  <1>1. /\ entries' = kept.entries /\ entry_count' = Cardinality(Cached(kept.entries))
        /\ RegistryFree /\ UNCHANGED look
    BY DEF SetCapacity
  <1>2. \A k \in Keys : kept.entries[k] \in {entries[k], None}
    BY TypeEvict, Zenon DEF CoreTypeOK
  <1> HIDE DEF kept
  <1>3. Cached(entries)' = Cached(kept.entries) /\ Cached(entries)' \subseteq Cached(entries)
    BY <1>1, <1>2, Zenon DEF Cached
  <1> QED
    BY <1>1, <1>3 DEF Drops

LEMMA ClearDrops ==
  ASSUME CoreTypeOK, ClearEntries, entry_count # 0
  PROVE  Drops /\ \A k \in Keys : entries'[k] = None
  <1>1. /\ entries' = [k \in Keys |-> None] /\ entry_count' = 0
        /\ RegistryFree /\ UNCHANGED look
    BY DEF ClearEntries
  <1>2. Cached(entries)' = {}
    BY <1>1 DEF Cached
  <1> QED
    BY <1>1, <1>2, FS_EmptySet DEF Drops

\* What a step may do to the entries and to the mirror.
LEMMA MirrorFrame ==
  ASSUME CoreTypeOK, LookKeyed, Next
  PROVE  \/ UNCHANGED <<entries, entry_count, Inserting>>
         \/ Drops
         \/ \E t \in Txs :
              /\ RegistryFree /\ Inserting' = {t}
              /\ UNCHANGED entries /\ entry_count' = entry_count + 1
         \/ /\ RegistryFree /\ UNCHANGED <<entries, Inserting>>
            /\ entry_count' = Cardinality(Cached(entries))
         \/ \E t \in Txs :
              /\ Inserting' = Inserting \ {t} /\ t \in Inserting
              /\ Cached(entries)' \subseteq Cached(entries) \cup {look[t].key}
              /\ entry_count' = Cardinality(Cached(entries)')
  <1>0. look \in [Txs -> LookType]
    BY DEF CoreTypeOK
  <1>1. ASSUME NEW t \in Txs, OpenStep(t) \/ StatementStep(t)
        PROVE  UNCHANGED <<look, entries, entry_count>>
    BY <1>1, Zenon, SMTT(20) DEF OpenStep, LoadWatermark, Pin, StatementStep, Write, Create, Replace,
         Remove, Rename, Cleanup, CommitClean, DropClean, Abort, cacheVars
  <1>2. ASSUME NEW t \in Txs, CommitStep(t)
        PROVE  UNCHANGED <<look, entries, entry_count>> \/ Drops
    <2>1. CASE Sweep(t)
      BY <2>1, ForgetDrops, Zenon, SMTT(20) DEF Sweep
    <2> QED
      BY <1>2, <2>1, Zenon, SMTT(20) DEF CommitStep, BeginCommit, StoreCommit, StoreCommitFails, BumpToken,
           SweepSkipped, cacheVars
  <1>3. ASSUME RegistryStep
        PROVE  UNCHANGED <<look, entries, entry_count>> \/ Drops
    <2>1. ASSUME NEW g \in Projections, DropProjection(g) PROVE Drops
      BY <2>1, ForgetDrops DEF DropProjection
    <2>2. CASE ClearEntries
      <3>1. CASE entry_count # 0
        BY <2>2, <3>1, ClearDrops, Zenon, SMTT(20)
      <3>2. CASE entry_count = 0
        BY <2>2, <3>2, Zenon DEF ClearEntries, cacheVars
      <3> QED
        BY <3>1, <3>2
    <2> QED
      BY <1>3, <2>1, <2>2, EvictDrops, Zenon DEF RegistryStep, CreateProjection,
           InvalidateAll, cacheVars
  <1>4. ASSUME NEW t \in Txs, NEW k \in Keys, Lookup(t, k)
        PROVE  UNCHANGED <<entries, entry_count, Inserting>>
    <2>1. /\ UNCHANGED <<entries, entry_count>> /\ look[t].at = "idle"
          /\ \A u \in Txs \ {t} : look'[u] = look[u]
      BY <1>4, LookFrame, Zenon, SMTT(20) DEF Lookup, Active, cacheVars
    <2>2. look'[t].at # "insert"
      BY <1>4, LookStarts
    <2> QED
      BY <2>1, <2>2 DEF Inserting
  <1>5. ASSUME NEW t \in Txs, LookupStep(t), ~Produce(t), ~Insert(t)
        PROVE  UNCHANGED <<entries, entry_count, Inserting>>
    <2>1. UNCHANGED <<entries, entry_count>> /\ look[t].at # "insert"
      BY <1>5, Zenon DEF LookupStep, Consume, Door2, Wake, Decide, Build, BuildFails,
           Unlock, ReleaseSlot, BuildAlone, BuildAloneFails, Return, cacheVars
    <2>2. look'[t].at # "insert"
      <3>1. look[t].at # "produce"
        BY <1>5, Zenon DEF LookupStep, Consume, Door2, Wake, Decide, Build, BuildFails,
             Unlock, ReleaseSlot, BuildAlone, BuildAloneFails, Return
      <3>2. IdleLook.at = "idle"
        BY Zenon DEF IdleLook
      <3> QED
        BY <1>5, <3>1, <3>2, LookMoves, Zenon, SMTT(20) DEF Serves, Waits, Queues, Decides, Builds, Publishes,
             Unlocks, Releases, Returns, Goes
    <2>3. \A u \in Txs \ {t} : look'[u] = look[u]
      BY <1>5, LookFrame, Zenon, SMTT(20)
    <2> QED
      BY <2>1, <2>2, <2>3, Zenon, SMTT(20) DEF Inserting
  <1>6. ASSUME NEW t \in Txs, Produce(t)
        PROVE  \/ UNCHANGED <<entries, entry_count, Inserting>>
               \/ /\ RegistryFree /\ Inserting' = {t}
                  /\ UNCHANGED entries /\ entry_count' = entry_count + 1
               \/ /\ RegistryFree /\ UNCHANGED <<entries, Inserting>>
                  /\ entry_count' = Cardinality(Cached(entries))
    <2> DEFINE tags == [s \in Slots |-> IF look[t].ids[s] = NoId THEN 0 ELSE token[look[t].ids[s]]]
    <2>1. /\ RegistryFree /\ UNCHANGED entries /\ look[t].at = "produce"
          /\ \/ /\ look' = [look EXCEPT ![t].at = "unlock"]
                /\ entry_count' \in {entry_count, Cardinality(Cached(entries))}
             \/ /\ look' = [look EXCEPT ![t].at = "insert", ![t].tokens = tags]
                /\ entry_count' = entry_count + 1
      BY <1>6, Zenon DEF Produce
    <2> HIDE DEF tags
    <2>2. ASSUME look' = [look EXCEPT ![t].at = "unlock"] PROVE UNCHANGED Inserting
      <3>1. look'[t].at = "unlock" /\ \A u \in Txs \ {t} : look'[u] = look[u]
        BY <1>0, <2>2 DEF LookType
      <3> QED
        BY <2>1, <3>1, Zenon DEF Inserting
    <2>3. ASSUME look' = [look EXCEPT ![t].at = "insert", ![t].tokens = tags]
          PROVE  Inserting' = {t}
      <3>1. look'[t].at = "insert" /\ \A u \in Txs \ {t} : look'[u] = look[u]
        BY <1>0, <2>3 DEF LookType
      <3> QED
        BY <2>1, <3>1, Zenon, SMTT(20) DEF RegistryFree, Inserting
    <2> QED
      BY <2>1, <2>2, <2>3, Zenon
  <1>7. ASSUME NEW t \in Txs, Insert(t)
        PROVE  /\ Inserting' = Inserting \ {t} /\ t \in Inserting
               /\ Cached(entries)' \subseteq Cached(entries) \cup {look[t].key}
               /\ entry_count' = Cardinality(Cached(entries)')
    <2> DEFINE j == look[t].key
               old == IF entries[j] = None THEN 0 ELSE entries[j].est_bytes
               es == Without(entries, {j})
               kept == EvictUntil(es, Less(registry.used_bytes, old),
                                  registry.capacity - look[t].est_bytes)
               new == [ids |-> look[t].ids, tokens |-> look[t].tokens,
                       content |-> look[t].built, est_bytes |-> look[t].est_bytes]
    <2>1. es \in [Keys -> Entries \cup {None}] /\ \A k \in Keys : es[k] \in {entries[k], None}
      BY DEF Without, CoreTypeOK
    <2>2. /\ entries' = [kept.entries EXCEPT ![j] = new] /\ look[t].at = "insert"
          /\ entry_count' = Cardinality(Cached(entries'))
      BY <1>7, Zenon DEF Insert
    <2>3. look'[t].at = "unlock" /\ \A u \in Txs \ {t} : look'[u] = look[u]
      BY <1>0, <1>7, Zenon DEF Insert, LookType
    <2> HIDE DEF es, old
    <2>4. /\ kept.entries \in [Keys -> Entries \cup {None}]
          /\ \A k \in Keys : kept.entries[k] \in {entries[k], None}
      <3>1. kept.entries \in [Keys -> Entries \cup {None}]
            /\ \A k \in Keys : kept.entries[k] \in {es[k], None}
        BY <2>1, TypeEvict, Zenon
      <3> QED
        BY <2>1, <3>1, Zenon, SMTT(20)
    <2> HIDE DEF j, kept, new
    <2>5. \A k \in Keys \ {j} : entries'[k] \in {entries[k], None}
      BY <2>2, <2>4, Zenon
    <2> QED
      BY <2>2, <2>3, <2>5, Zenon, SMTT(20) DEF Cached, Inserting, j
  <1>8. UNCHANGED look => UNCHANGED Inserting
    BY DEF Inserting
  <1> QED
    BY <1>1, <1>2, <1>3, <1>4, <1>5, <1>6, <1>7, <1>8, ConstantsAssumption, Zenon DEF Next

LEMMA MirrorStep == ASSUME CoreTypeOK, LookKeyed, Mirror, Next PROVE Mirror'
  <1>0. RegistryFree <=> Inserting = {}
    BY DEF RegistryFree, Inserting
  <1>1. RegistryFree' <=> Inserting' = {}
    BY DEF RegistryFree, Inserting
  <1>2. UNCHANGED entries => UNCHANGED Cached(entries)
    BY DEF Cached
  <1>3. CASE UNCHANGED <<entries, entry_count, Inserting>>
    BY <1>0, <1>1, <1>2, <1>3, Zenon DEF Mirror
  <1>4. CASE Drops
    <2>1. IsFiniteSet(Cached(entries)') /\ UNCHANGED Inserting
      BY <1>4, FS_Subset DEF Drops, Mirror, Inserting
    <2> QED
      BY <1>0, <1>1, <1>4, <2>1, Zenon, SMTT(20) DEF Drops, Mirror
  <1>5. ASSUME NEW t \in Txs, RegistryFree, Inserting' = {t}, UNCHANGED entries,
               entry_count' = entry_count + 1
        PROVE  Mirror'
    <2>1. entry_count' \in Nat \ {0}
      BY <1>5, FS_CardinalityType, SMTT(20), Z3T(20) DEF Mirror
    <2> QED
      BY <1>1, <1>2, <1>5, <2>1, Zenon DEF Mirror
  <1>6. CASE /\ RegistryFree /\ UNCHANGED <<entries, Inserting>>
             /\ entry_count' = Cardinality(Cached(entries))
    BY <1>0, <1>1, <1>2, <1>6, Zenon, SMTT(20) DEF Mirror
  <1>7. ASSUME NEW t \in Txs, Inserting' = Inserting \ {t}, t \in Inserting,
               Cached(entries)' \subseteq Cached(entries) \cup {look[t].key},
               entry_count' = Cardinality(Cached(entries)')
        PROVE  Mirror'
    <2>1. IsFiniteSet(Cached(entries) \cup {look[t].key})
      BY FS_AddElement DEF Mirror
    <2>2. IsFiniteSet(Cached(entries)')
      BY <1>7, <2>1, FS_Subset, Zenon
    <2>3. Inserting' = {}
      BY <1>7 DEF Mirror
    <2> QED
      BY <1>1, <1>7, <2>2, <2>3, Zenon, SMTT(20) DEF Mirror
  <1> QED
    BY <1>3, <1>4, <1>5, <1>6, <1>7, MirrorFrame, Zenon

\* A transaction that owes a sweep goes on owing it until it has swept.
LEMMA SweeperStep ==
  ASSUME CoreTypeOK, TxShape, Next, NEW t \in Txs, tx[t].phase \in {"bumping", "sweeping"}
  PROVE  \/ tx'[t].phase \in {"bumping", "sweeping"} /\ tx'[t].dirty = tx[t].dirty
         \/ SweepSkipped(t) \/ Sweep(t)
  <1>0. tx \in [Txs -> TxType]
    BY DEF CoreTypeOK
  <1>1. ASSUME NEW u \in Txs, OpenStep(u) PROVE tx'[t] = tx[t]
    BY <1>0, <1>1, Zenon DEF OpenStep, LoadWatermark, Pin
  <1>2. ASSUME NEW u \in Txs, StatementStep(u) PROVE tx'[t] = tx[t]
    <2>1. u # t
      BY <1>2, Zenon, SMTT(20) DEF StatementStep, Write, Create, Replace, Remove, Rename, Cleanup,
           CommitClean, DropClean, Abort, Statement, Active
    <2> QED
      BY <1>2, <2>1, OwnFrame, Zenon, SMTT(20)
  <1>3. ASSUME NEW u \in Txs, CommitStep(u), u # t PROVE tx'[t] = tx[t]
    BY <1>3, OwnFrame
  <1>4. ASSUME BumpToken(t)
        PROVE  tx'[t].phase \in {"bumping", "sweeping"} /\ tx'[t].dirty = tx[t].dirty
    BY <1>0, <1>4, SMTT(20), Z3T(20) DEF BumpToken, TxType
  <1>5. CASE CommitStep(t)
    BY <1>4, <1>5, Zenon DEF CommitStep, BeginCommit, StoreCommit, StoreCommitFails
  <1>6. ASSUME NEW u \in Txs, LookupStep(u) \/ \E k \in Keys : Lookup(u, k) PROVE UNCHANGED tx
    BY <1>6, LookFrame
  <1>7. ASSUME RegistryStep PROVE UNCHANGED tx
    BY <1>7, Zenon DEF RegistryStep, CreateProjection, DropProjection, SetCapacity, InvalidateAll,
                ClearEntries
  <1> QED
    BY <1>1, <1>2, <1>3, <1>5, <1>6, <1>7, ConstantsAssumption, Zenon, SMTT(20) DEF Next

\* invalidate_all is followed by clear_entries.
LEMMA RestoringStep == ASSUME Next, restoring PROVE restoring' \/ ClearEntries
  <1>1. ASSUME NEW t \in Txs, OpenStep(t) \/ StatementStep(t) \/ CommitStep(t)
        PROVE  UNCHANGED restoring
    BY <1>1, Zenon, SMTT(20) DEF OpenStep, LoadWatermark, Pin, StatementStep, Write, Create, Replace,
         Remove, Rename, Cleanup, CommitClean, DropClean, Abort, CommitStep, BeginCommit,
         StoreCommit, StoreCommitFails, BumpToken, SweepSkipped, Sweep
  <1>2. ASSUME NEW t \in Txs, LookupStep(t) \/ \E k \in Keys : Lookup(t, k)
        PROVE  UNCHANGED restoring
    BY <1>2, Zenon DEF LookupStep, Consume, Door2, Wake, Decide, Build, BuildFails, Produce,
         Insert, Unlock, ReleaseSlot, BuildAlone, BuildAloneFails, Return, Lookup
  <1>3. ASSUME RegistryStep PROVE restoring' \/ ClearEntries
    BY <1>3, Zenon DEF RegistryStep, CreateProjection, DropProjection, SetCapacity, InvalidateAll
  <1> QED
    BY <1>1, <1>2, <1>3, ConstantsAssumption, Zenon DEF Next

\* Whoever mints a token owes a sweep.
LEMMA MintOwesSweep ==
  ASSUME CoreTypeOK, TxShape, Next, NEW r \in Ids, token'[r] # token[r]
  PROVE  SweepDue(r)'
  <1>1. ASSUME NEW t \in Txs, BumpToken(t) PROVE SweepDue(r)'
    <2>0. tx \in [Txs -> TxType] /\ token \in [Ids -> Nat]
      BY DEF CoreTypeOK, Versions
    <2>1. r \in tx[t].todo
      BY <1>1, <2>0, Zenon, SMTT(20) DEF BumpToken
    <2>2. tx'[t].phase \in {"bumping", "sweeping"} /\ tx'[t].dirty = tx[t].dirty
      BY <1>1, <2>0, SMTT(20), Z3T(20) DEF BumpToken, TxType
    <2>3. r \in tx[t].dirty
      BY <2>1, Zenon, SMTT(20) DEF TxShape, WellFormed
    <2> QED
      BY <2>2, <2>3, Zenon, SMTT(20) DEF SweepDue
  <1>2. CASE InvalidateAll
    BY <1>2 DEF InvalidateAll, SweepDue
  <1>3. ASSUME NEW t \in Txs, OpenStep(t) \/ StatementStep(t) \/ CommitStep(t), ~BumpToken(t)
        PROVE  UNCHANGED token
    BY <1>3, Zenon, SMTT(20) DEF OpenStep, LoadWatermark, Pin, StatementStep, Write, Create, Replace,
         Remove, Rename, Cleanup, CommitClean, DropClean, Abort, CommitStep, BeginCommit,
         StoreCommit, StoreCommitFails, SweepSkipped, Sweep, freshVars
  <1>4. ASSUME NEW t \in Txs, LookupStep(t) \/ \E k \in Keys : Lookup(t, k)
        PROVE  UNCHANGED token
    BY <1>4, LookFrame
  <1>5. ASSUME RegistryStep, ~InvalidateAll PROVE UNCHANGED token
    BY <1>5, Zenon DEF RegistryStep, CreateProjection, DropProjection, SetCapacity,
         ClearEntries, freshVars
  <1> QED
    BY <1>1, <1>2, <1>3, <1>4, <1>5, ConstantsAssumption, Zenon, SMTT(20) DEF Next

\* A tag stays tracked until its sources are swept.
LEMMA TrackedStep ==
  ASSUME CoreTypeOK, TxShape, Next,
         NEW ids \in [Slots -> Ids \cup {NoId}], NEW tokens, Tracked(ids, tokens),
         ~ClearEntries, \A t \in Txs : ~SweepSkipped(t),
         \A t \in Txs : Sweep(t) => SourceIds(ids) \cap tx[t].dirty = {}
  PROVE  Tracked(ids, tokens)'
  <1> SUFFICES ASSUME NEW s \in Slots, ids[s] # NoId, tokens[s] # token'[ids[s]]
               PROVE  SweepDue(ids[s])'
    BY DEF Tracked
  <1>0. ids[s] \in Ids /\ ids[s] \in SourceIds(ids)
    BY DEF SourceIds
  <1>1. CASE token'[ids[s]] # token[ids[s]]
    BY <1>0, <1>1, MintOwesSweep, Zenon
  <1>2. CASE token'[ids[s]] = token[ids[s]]
    <2>1. SweepDue(ids[s])
      BY <1>2 DEF Tracked
    <2>2. CASE restoring
      BY <2>2, RestoringStep, Zenon DEF SweepDue
    <2>3. ASSUME NEW t \in Txs, tx[t].phase \in {"bumping", "sweeping"}, ids[s] \in tx[t].dirty
          PROVE  SweepDue(ids[s])'
      <3>1. tx'[t].phase \in {"bumping", "sweeping"} /\ tx'[t].dirty = tx[t].dirty
        BY <1>0, <2>3, SweeperStep, Zenon
      <3> QED
        BY <2>3, <3>1, Zenon, SMTT(20) DEF SweepDue
    <2> QED
      BY <2>1, <2>2, <2>3, Zenon, SMTT(20) DEF SweepDue
  <1> QED
    BY <1>1, <1>2, Zenon, SMTT(20)

\* The mirror is zero only where there is nothing to sweep, so neither a skipped
\* nor a real sweep leaves a tag behind.
LEMMA TagsTrackedStep ==
  ASSUME CoreTypeOK, CoreTypeOK', TxShape, LookKeyed, Mirror, TagsTracked, Next
  PROVE  TagsTracked'
  <1>1. ASSUME entry_count = 0 PROVE RegistryFree /\ \A k \in Keys : entries[k] = None
    <2>1. RegistryFree
      BY <1>1 DEF Mirror
    <2>2. Cached(entries) = {}
      BY <1>1, <2>1, FS_EmptySet, Zenon DEF Mirror
    <2> QED
      BY <2>1, <2>2 DEF Cached
  <1>2. ASSUME NEW t \in Txs, look[t].at = "insert", NEW x, x = look[t]
        PROVE  Tracked(x.ids, x.tokens)'
    <2>1. x.ids \in [Slots -> Ids \cup {NoId}] /\ Tracked(x.ids, x.tokens)
      BY <1>2, Zenon, SMTT(20) DEF CoreTypeOK, LookType, TagsTracked
    <2>2. ~RegistryFree /\ entry_count # 0
      BY <1>1, <1>2 DEF RegistryFree
    <2>3. ~ClearEntries /\ \A u \in Txs : ~SweepSkipped(u) /\ ~Sweep(u)
      BY <2>2, Zenon DEF ClearEntries, SweepSkipped, Sweep
    <2> QED
      BY <2>1, <2>3, TrackedStep, Zenon, SMTT(20)
  <1>3. ASSUME NEW k \in Keys, entries'[k] # None, NEW e, e = entries'[k]
        PROVE  Tracked(e.ids, e.tokens)'
    <2>1. CASE entries'[k] = entries[k]
      <3>1. e.ids \in [Slots -> Ids \cup {NoId}] /\ Tracked(e.ids, e.tokens)
        BY <1>3, <2>1, Zenon DEF CoreTypeOK, Entries, TagsTracked
      <3>2. entry_count # 0
        BY <1>1, <1>3, <2>1, Zenon, SMTT(20)
      <3>3. ~ClearEntries
        BY <1>3, <3>2, ClearDrops
      <3>4. \A t \in Txs : ~SweepSkipped(t)
        BY <3>2 DEF SweepSkipped
      <3>5. ASSUME NEW t \in Txs, Sweep(t) PROVE SourceIds(e.ids) \cap tx[t].dirty = {}
        <4>1. k \notin SourcedOn(tx[t].dirty)
          BY <1>3, <3>5, ForgetDrops, Zenon, SMTT(20) DEF Sweep
        <4> QED
          BY <1>3, <2>1, <4>1, Zenon DEF SourcedOn, Cached
      <3> QED
        BY <3>1, <3>3, <3>4, <3>5, TrackedStep, Zenon, SMTT(20)
    <2>2. ASSUME NEW t \in Txs, look[t].at = "insert", e.ids = look[t].ids,
                 e.tokens = look[t].tokens
          PROVE  Tracked(e.ids, e.tokens)'
      <3>1. Tracked(look[t].ids, look[t].tokens) /\ look[t].ids \in [Slots -> Ids \cup {NoId}]
        BY <2>2, Zenon, SMTT(20) DEF CoreTypeOK, LookType, TagsTracked
      <3>2. ~RegistryFree /\ entry_count # 0
        BY <1>1, <2>2, Zenon DEF RegistryFree
      <3>3. ~ClearEntries /\ \A u \in Txs : ~SweepSkipped(u) /\ ~Sweep(u)
        BY <3>2, Zenon DEF ClearEntries, SweepSkipped, Sweep
      <3> QED
        BY <2>2, <3>1, <3>3, TrackedStep, Zenon
    <2> QED
      BY <1>3, <2>1, <2>2, EntryFrame, Zenon
  <1>4. ASSUME NEW t \in Txs, look'[t].at = "insert", NEW y, y = look'[t]
        PROVE  Tracked(y.ids, y.tokens)'
    <2>1. CASE look'[t] = look[t]
      BY <1>2, <1>4, <2>1, Zenon, SMTT(20)
    <2>2. ASSUME NEW k \in Keys, Lookup(t, k) PROVE FALSE
      BY <1>4, <2>2, LookStarts, Zenon, SMTT(20)
    <2>3. CASE LookupStep(t)
      <3>1. Publishes(t)
        BY <1>4, <2>3, LookInserts, Zenon
      <3>2. y.tokens = [s \in Slots |-> IF y.ids[s] = NoId THEN 0 ELSE token[y.ids[s]]]
        BY <1>4, <3>1, Zenon, SMTT(20) DEF Publishes, Goes, SameKey
      <3>3. UNCHANGED token
        BY <2>3, LookFrame, Zenon
      <3> QED
        BY <3>2, <3>3 DEF Tracked
    <2> QED
      BY <2>1, <2>2, <2>3, LookStep, Zenon, SMTT(20)
  <1> QED
    BY <1>3, <1>4, ZenonT(30) DEF TagsTracked, Tracked, SweepDue

-----------------------------------------------------------------------------
(* The invariant is inductive. *)

LEMMA BaseInit == ASSUME Init PROVE IInv
  <1>1. CoreTypeOK
    BY TypeInit
  <1>2. \A t \in Txs : tx[t] = IdleTx /\ look[t] = IdleLook /\ answer[t] = None
    BY Zenon DEF Init
  <1>3. WellFormed(IdleTx) /\ IdleTx.phase = "idle" /\ ~IdleTx.raised /\ IdleTx.watermark = 0
    BY Zenon DEF WellFormed, IdleTx
  <1>4. /\ IdleLook.at = "idle" /\ IdleLook.slot = None /\ ~IdleLook.alone
        /\ \A s \in Slots : IdleLook.tokens[s] = 0
    BY DEF IdleLook
  <1>5. TxShape
    BY <1>2, <1>3, <1>4, Zenon, SMTT(20) DEF TxShape
  <1>a. \A t \in Txs : ~Pinned(t)
    BY <1>2, <1>3 DEF Pinned
  <1>b. Alone /\ SnapshotCurrent
    BY <1>a, Zenon, SMTT(20) DEF Alone, SnapshotCurrent
  <1>6. ClockBounds
    BY <1>2, <1>3, <1>4, SMTT(30), Z3T(30) DEF ClockBounds, Init
  <1>7. InflightBalanced
    <2>1. \A r \in Ids : {t \in Txs : tx[t].raised /\ r \in tx[t].todo} = {}
      BY <1>2, <1>3, Zenon
    <2> QED
      BY <2>1, FS_EmptySet, Zenon DEF InflightBalanced, Init
  <1>8. LookShape /\ BuiltCurrent /\ LookKeyed /\ SlotsKept /\ SingleFlight
    BY <1>2, <1>4, Zenon DEF LookShape, BuiltCurrent, LookKeyed, SlotsKept, SingleFlight, Shareable, Holding
  <1>9. TagsDenote
    BY <1>2, <1>4, Zenon, SMTT(20) DEF TagsDenote, Init
  <1> QED
    BY <1>1, <1>5, <1>6, <1>7, <1>8, <1>9, <1>b DEF IInv, BaseInv

LEMMA TypeStep == ASSUME CoreTypeOK, LookKeyed, Next PROVE CoreTypeOK'
  BY TypeOpen, TypeStatement, TypeCommit, TypeLook, TypeLookup, TypeRegistry,
     ConstantsAssumption DEF Next

LEMMA BaseStep == ASSUME BaseInv, Next PROVE BaseInv'
  <1>1. CoreTypeOK'
    BY TypeStep DEF BaseInv
  <1>2. TxShape' /\ Alone' /\ ClockBounds' /\ InflightBalanced'
    BY <1>1, TxShapeStep, AloneStep, ClockBoundsStep, InflightStep, Zenon, SMTT(20) DEF BaseInv
  <1>3. SnapshotCurrent' /\ LookShape' /\ BuiltCurrent'
    BY <1>1, SnapshotCurrentStep, LookShapeStep, BuiltCurrentStep, Zenon, SMTT(20) DEF BaseInv
  <1>4. LookKeyed' /\ SlotsKept' /\ SingleFlight'
    BY <1>1, LookKeyedStep, SlotsKeptStep, SingleFlightStep, Zenon DEF BaseInv
  <1> QED
    BY <1>1, <1>2, <1>3, <1>4, Zenon, SMTT(20) DEF BaseInv

LEMMA Stutter == ASSUME UNCHANGED vars PROVE (BaseInv => BaseInv') /\ (IInv => IInv')
  <1>0. UNCHANGED <<catalog, version, relation_store_id, bump_seq, token, inflight, tx, look,
                    answer, defs, def_seq, entries, build_slots>>
    BY Zenon DEF vars, storeVars, freshVars, cacheVars, defVars
  <1>1. CoreTypeOK => CoreTypeOK'
    BY <1>0, Zenon, SMTT(20) DEF CoreTypeOK
  <1>2. /\ TxShape => TxShape'
        /\ Alone => Alone'
        /\ ClockBounds => ClockBounds'
        /\ InflightBalanced => InflightBalanced'
    BY <1>0 DEF TxShape, Alone, ClockBounds, InflightBalanced, Pinned
  <1>3. /\ SnapshotCurrent => SnapshotCurrent'
        /\ LookShape => LookShape'
        /\ BuiltCurrent => BuiltCurrent'
    BY <1>0, ZenonT(30) DEF SnapshotCurrent, LookShape, BuiltCurrent, Pinned, Indeterminate, Unbumped, Committed
  <1>4. /\ LookKeyed => LookKeyed'
        /\ SlotsKept => SlotsKept'
        /\ SingleFlight => SingleFlight'
    BY <1>0 DEF LookKeyed, SlotsKept, SingleFlight, BuildKey
  <1>5. TagsDenote => TagsDenote'
    BY <1>0, ZenonT(30) DEF TagsDenote, Denotes, Indeterminate, Unbumped, Committed
  <1> QED
    BY <1>1, <1>2, <1>3, <1>4, <1>5, Zenon, SMTT(20) DEF IInv, BaseInv

LEMMA BaseInductive == Spec => []BaseInv
  <1>1. Init => BaseInv
    BY BaseInit DEF IInv
  <1>2. BaseInv /\ [Next]_vars => BaseInv'
    BY BaseStep, Stutter
  <1> QED
    BY <1>1, <1>2, PTL DEF Spec

LEMMA Inductive == ASSUME Backend # "sled" PROVE Spec => []IInv
  <1>1. Init => IInv
    BY BaseInit
  <1>2. IInv /\ [Next]_vars => IInv'
    <2>1. ASSUME IInv, Next PROVE IInv'
      <3>1. BaseInv'
        BY <2>1, BaseStep, Zenon DEF IInv
      <3>2. TagsDenote'
        BY <2>1, <3>1, TagsDenoteStep DEF IInv, BaseInv
      <3> QED
        BY <3>1, <3>2 DEF IInv
    <2> QED
      BY <2>1, Stutter
  <1> QED
    BY <1>1, <1>2, PTL DEF Spec

-----------------------------------------------------------------------------
(* The theorems. *)

\* Every variable keeps its type, the byte accounting left aside.
THEOREM TypeCorrect == Spec => []CoreTypeOK
  <1>1. BaseInv => CoreTypeOK
    BY DEF BaseInv
  <1> QED
    BY <1>1, BaseInductive, PTL

\* inflight counts exactly the commits that still owe the relation a token,
\* through failed commits, aborts and drops (begin_commit, finish_commit,
\* bump_aborted).
THEOREM Balanced == Spec => []InflightBalanced
  <1>1. BaseInv => InflightBalanced
    BY Zenon DEF BaseInv
  <1> QED
    BY <1>1, BaseInductive, PTL

\* No two lookups are inside the build slot of the same key (acquire_slot,
\* release_slot).
THEOREM OneBuilder == Spec => []SingleFlight
  <1>1. BaseInv => SingleFlight
    BY DEF BaseInv
  <1> QED
    BY <1>1, BaseInductive, PTL

\* The freshness claim of graph_projection.rs:60: FRESH(T, R) implies that R's
\* content in T's snapshot is R's committed content.
THEOREM FreshnessClaim == ASSUME Backend # "sled" PROVE Spec => []FreshIsCurrent
  <1>1. IInv => FreshIsCurrent
    BY FreshScan, Zenon, SMTT(20) DEF IInv, BaseInv, FreshIsCurrent
  <1> QED
    BY <1>1, Inductive, PTL

\* A current tag denotes the committed content (Entry, consume, produce).
THEOREM TagsAreMeaningful == ASSUME Backend # "sled" PROVE Spec => []TagsDenoteContent
  <1>1. IInv => TagsDenoteContent
    BY Zenon, SMTT(20) DEF IInv, TagsDenote, Denotes, Committed, TagsDenoteContent, Cached
  <1> QED
    BY <1>1, Inductive, PTL

LEMMA TrackedInductive == Spec => [](Mirror /\ TagsTracked)
  <1> DEFINE Inv == BaseInv /\ Mirror /\ TagsTracked
  <1>1. Init => Inv
    <2> SUFFICES ASSUME Init PROVE Inv
      OBVIOUS
    <2>1. BaseInv /\ \A t \in Txs : look[t] = IdleLook
      BY BaseInit, Zenon DEF IInv, Init
    <2>2. IdleLook.at = "idle"
      BY DEF IdleLook
    <2>3. RegistryFree /\ Inserting = {}
      BY <2>1, <2>2, Zenon, SMTT(20) DEF RegistryFree, Inserting
    <2>4. Cached(entries) = {} /\ entry_count = 0
      BY DEF Init, Cached
    <2>5. Mirror
      BY <2>3, <2>4, FS_EmptySet, Zenon DEF Mirror
    <2>6. TagsTracked
      BY <2>3, <2>4, Zenon DEF TagsTracked, Cached, RegistryFree
    <2> QED
      BY <2>1, <2>5, <2>6, Zenon
  <1>2. Inv /\ [Next]_vars => Inv'
    <2>1. ASSUME Inv, Next PROVE Inv'
      <3>1. BaseInv'
        BY <2>1, BaseStep
      <3>2. Mirror'
        BY <2>1, MirrorStep, Zenon DEF BaseInv
      <3>3. TagsTracked'
        BY <2>1, <3>1, TagsTrackedStep, Zenon DEF BaseInv
      <3> QED
        BY <3>1, <3>2, <3>3, Zenon
    <2>2. ASSUME Inv, UNCHANGED vars PROVE Inv'
      <3>0. UNCHANGED <<token, tx, look, entries, entry_count, restoring>>
        BY <2>2 DEF vars, freshVars, cacheVars
      <3>1. BaseInv'
        BY <2>2, Stutter
      <3>2. Mirror'
        BY <2>2, <3>0, Zenon DEF Mirror, Cached, RegistryFree, Inserting
      <3>3. TagsTracked'
        BY <2>2, <3>0, Zenon DEF TagsTracked, Tracked, SweepDue
      <3> QED
        BY <3>1, <3>2, <3>3, Zenon
    <2> QED
      BY <2>1, <2>2
  <1> HIDE DEF Inv
  <1>3. Spec => []Inv
    BY <1>1, <1>2, PTL DEF Spec
  <1>4. Inv => Mirror /\ TagsTracked
    BY DEF Inv
  <1> QED
    BY <1>3, <1>4, PTL

\* The lock-free check of entry_count never lets a sweep skip an entry
\* (drop_entries_sourced_on, produce): an entry whose tag is out of date is
\* still going to be swept, on every engine.
THEOREM NothingStranded == Spec => []NoStrandedEntry
  <1>1. TagsTracked => NoStrandedEntry
    BY Zenon DEF TagsTracked, Tracked, SweepDue, NoStrandedEntry, Cached
  <1> QED
    BY <1>1, TrackedInductive, PTL

-----------------------------------------------------------------------------
(* The byte accounting is exact. *)

\* The registry never loses count of its bytes and never holds more than its
\* capacity, and its lock-free mirror is exact whenever the mutex is free: on
\* every engine, through replaced variants, evictions, sweeps, refusals and
\* changes of the capacity (insert_entry, evict_until, set_capacity).
THEOREM AccountsAreExact == Spec => []AccountingExact
  <1>1. Init => Counted /\ Fits
    <2> SUFFICES ASSUME Init PROVE Counted /\ Fits
      OBVIOUS
    <2>1. Cached(entries) = {} /\ \A t \in Txs : look[t].at = "idle"
      BY Zenon DEF Init, Cached, IdleLook
    <2>2. registry \in RegistryType /\ registry.used_bytes = 0 /\ 0 <= registry.capacity
      <3>1. PICK c \in Capacities :
               registry = [capacity |-> c, used_bytes |-> 0, recency |-> [k \in Keys |-> 0]]
        BY Zenon DEF Init
      <3>2. c \in Nat
        BY ConstantsAssumption
      <3> QED
        BY <3>1, <3>2, SMTT(20), Z3T(20) DEF RegistryType
    <2>3. Bytes(entries, {}) = 0
      <3>1. Units(entries, {}) = {}
        BY DEF Units
      <3> QED
        BY <3>1, UnitsOf, FS_EmptySet, Zenon
    <2> QED
      BY <2>1, <2>2, <2>3, Zenon DEF Counted, Fits
  <1>2. BaseInv /\ Mirror /\ Counted /\ Fits /\ [Next]_vars => Counted' /\ Fits'
    <2>1. ASSUME BaseInv, Mirror, Counted, Fits, Next PROVE Counted' /\ Fits'
      <3>1. CoreTypeOK /\ LookKeyed /\ IsFiniteSet(Cached(entries))
        BY <2>1 DEF BaseInv, Mirror
      <3> QED
        BY <2>1, <3>1, CountedStep, FitsStep, Zenon
    <2>2. ASSUME Counted, Fits, UNCHANGED vars PROVE Counted' /\ Fits'
      <3>1. UNCHANGED <<look, entries, registry>>
        BY <2>2 DEF vars, cacheVars
      <3> QED
        BY <2>2, <3>1, Zenon DEF Counted, Fits, Cached
    <2> QED
      BY <2>1, <2>2
  <1>3. Mirror /\ Counted => AccountingExact
    BY Zenon DEF Mirror, Counted, AccountingExact
  <1> QED
    BY <1>1, <1>2, <1>3, BaseInductive, TrackedInductive, PTL DEF Spec

-----------------------------------------------------------------------------

\* inflight only falls as a token is minted.
LEMMA InflightFalls ==
  ASSUME CoreTypeOK, Next, NEW r \in Ids, inflight[r] # 0, inflight'[r] = 0
  PROVE  token'[r] > bump_seq
  <1>0. inflight \in [Ids -> Nat] /\ token \in [Ids -> Nat] /\ bump_seq \in Nat
    BY Zenon DEF CoreTypeOK, Versions
  <1>1. ASSUME NEW t \in Txs, BumpToken(t) PROVE token'[r] > bump_seq
    BY <1>0, <1>1, SMTT(20), Z3T(20) DEF BumpToken
  <1>2. ASSUME NEW t \in Txs, CommitStep(t), ~BumpToken(t) PROVE inflight'[r] # 0
    BY <1>0, <1>2, SMTT(20), Z3T(20) DEF CommitStep, BeginCommit, StoreCommit, StoreCommitFails, SweepSkipped,
                      Sweep, freshVars
  <1>3. ASSUME NEW t \in Txs, OpenStep(t) \/ StatementStep(t) PROVE UNCHANGED inflight
    BY <1>3, Zenon DEF OpenStep, LoadWatermark, Pin, StatementStep, Write, Create, Replace, Remove,
                Rename, Cleanup, CommitClean, DropClean, Abort, freshVars
  <1>4. ASSUME NEW t \in Txs, LookupStep(t) \/ \E k \in Keys : Lookup(t, k)
        PROVE  UNCHANGED inflight
    BY <1>4, LookFrame, Zenon
  <1>5. ASSUME RegistryStep PROVE UNCHANGED inflight
    BY <1>5, Zenon DEF RegistryStep, CreateProjection, DropProjection, SetCapacity, InvalidateAll,
                ClearEntries, freshVars
  <1> QED
    BY <1>1, <1>2, <1>3, <1>4, <1>5, ConstantsAssumption, Zenon, SMTT(20) DEF Next

\* At a fixed watermark an unfresh relation stays unfresh (door 2 of
\* graph_source relies on it).
THEOREM UnfreshForGood == Spec => NeverFreshAgain
  <1> DEFINE Stays == \A t \in Txs, r \in Ids :
        tx[t].phase = "open" /\ tx'[t].phase = "open" /\ ~Fresh(t, r) => ~Fresh(t, r)'
  <1>1. ASSUME BaseInv, Next PROVE Stays
    <2> SUFFICES ASSUME NEW t \in Txs, NEW r \in Ids, tx[t].phase = "open",
                        tx'[t].phase = "open", ~Fresh(t, r)
                 PROVE  ~Fresh(t, r)'
      BY Zenon
    <2>0. /\ token \in [Ids -> Nat] /\ token' \in [Ids -> Nat] /\ bump_seq \in Nat
          /\ tx[t].watermark \in Nat /\ tx[t].watermark <= bump_seq /\ CoreTypeOK
      BY <1>1, BaseStep, Zenon, SMTT(20) DEF BaseInv, CoreTypeOK, Versions, TxType, ClockBounds
    <2>1. tx'[t].watermark = tx[t].watermark
      <3>1. IdleTx.phase = "idle"
        BY Zenon DEF IdleTx
      <3>2. ~Pin(t)
        BY Zenon DEF Pin
      <3> QED
        BY <1>1, <2>0, <3>1, <3>2, TxFrame, Zenon
    <2>2. CASE token[r] > tx[t].watermark
      <3>1. token'[r] > tx[t].watermark
        BY <1>1, <2>0, <2>2, TokenStep, SMTT(20), Z3T(20)
      <3> QED
        BY <2>0, <2>1, <3>1, SMTT(30), Z3T(30) DEF Fresh
    <2>3. CASE inflight[r] # 0 /\ inflight'[r] = 0
      <3>1. token'[r] > bump_seq
        BY <1>1, <2>0, <2>3, InflightFalls, Zenon
      <3> QED
        BY <2>0, <2>1, <3>1, SMTT(20), Z3T(20) DEF Fresh
    <2> QED
      BY <2>0, <2>2, <2>3, SMTT(30), Z3T(30) DEF Fresh
  <1>2. ASSUME UNCHANGED vars PROVE Stays
    BY <1>2, Zenon, SMTT(20) DEF vars, freshVars, Fresh
  <1>3. BaseInv /\ [Next]_vars => [Stays]_vars
    BY <1>1, <1>2
  <1> QED
    BY <1>3, BaseInductive, PTL DEF Spec, NeverFreshAgain

-----------------------------------------------------------------------------
(* Always fresh: the cache implements BuildPerQuery. *)

\* A hit is what the transaction would have scanned.
LEMMA HitIsScan ==
  ASSUME IInv, Backend # "sled", NEW t \in Txs, look[t].at \in {"consume", "queued"}, Hits(t)
  PROVE  entries[look[t].key].content = ScanSources(t)
  <1> DEFINE e == entries[look[t].key]
  <1>0. /\ CoreTypeOK /\ TxShape /\ Alone /\ InflightBalanced /\ ClockBounds /\ SnapshotCurrent
        /\ LookShape /\ LookKeyed /\ TagsDenote
    BY Zenon DEF IInv, BaseInv
  <1>1. e \in Entries /\ e # None /\ look[t].key \in Keys
    BY <1>0, HitType, Zenon DEF LookKeyed
  <1>2. /\ e.ids = look[t].ids
        /\ \A s \in Slots : e.ids[s] # NoId => Fresh(t, e.ids[s]) /\ token[e.ids[s]] = e.tokens[s]
    BY Zenon DEF Hits
  <1>3. tx[t].phase = "open"
    BY <1>0 DEF TxShape
  <1>4. ASSUME NEW s \in Slots PROVE e.content[s] = Scan(t, e.ids[s])
    <2>0. e.ids[s] \in Ids \cup {NoId}
      BY <1>1 DEF Entries
    <2>1. CASE e.ids[s] = NoId
      BY <1>0, <1>1, <2>1, Zenon DEF TagsDenote, Denotes, Scan
    <2>2. CASE e.ids[s] # NoId
      <3>0. e.ids[s] \in Ids
        BY <2>0, <2>2, Zenon
      <3>1. e.ids[s] \notin tx[t].dirty
        BY <1>0, <1>2, <2>2, Zenon DEF LookShape, Shareable, SourceIds
      <3>2. ~Indeterminate(e.ids[s]) /\ Scan(t, e.ids[s]) = Committed(e.ids[s])
        BY <1>0, <1>2, <1>3, <2>2, <3>0, <3>1, FreshSettled, FreshScan, Zenon
      <3>3. e.content[s] = Committed(e.ids[s])
        BY <1>0, <1>1, <1>2, <2>2, <3>2, Zenon DEF TagsDenote, Denotes
      <3> QED
        BY <3>2, <3>3, Zenon, SMTT(20)
    <2> QED
      BY <2>1, <2>2, Zenon, SMTT(20)
  <1>5. e.content \in [Slots -> Contents]
    BY <1>1, Zenon DEF Entries
  <1> QED
    BY <1>2, <1>4, <1>5, Zenon DEF ScanSources

\* On every engine but sled, a lookup is answered as if every query built its
\* own graph: graph_projection.rs implements BuildPerQuery.
THEOREM AlwaysFreshHolds == ASSUME Backend # "sled" PROVE Spec => AlwaysFresh
  <1>1. ASSUME Init PROVE Uncached!Init
    BY <1>1, Zenon DEF Init, Uncached!Init
  <1>2. ASSUME IInv, Next PROVE Uncached!Next \/ UNCHANGED answer
    <2>0. /\ CoreTypeOK /\ TxShape /\ LookShape /\ CoreTypeOK'
          /\ look \in [Txs -> LookType] /\ answer \in [Txs -> [Slots -> Contents] \cup {None}]
          /\ answer' \in [Txs -> [Slots -> Contents] \cup {None}]
      BY <1>2, BaseStep, Zenon, SMTT(20) DEF IInv, BaseInv, CoreTypeOK
    <2>1. ASSUME NEW t \in Txs, LookupStep(t) PROVE Uncached!Next \/ UNCHANGED answer
      <3>1. \A u \in Txs \ {t} : answer'[u] = answer[u]
        BY <2>0, <2>1, LookFrame, Zenon
      <3>2. answer' = [answer EXCEPT ![t] = answer'[t]]
        BY <2>0, <3>1, Zenon
      <3>3. ASSUME answer[t] = None, answer'[t] = ScanSources(t) PROVE Uncached!Answer(t)
        <4>1. \A s \in Slots : look[t].ids[s] \in Ids \cup {NoId}
          BY <2>0, Zenon DEF LookType
        <4>2. ScanSources(t) =
                [s \in Slots |-> [u \in Txs |-> [r \in Ids \cup {NoId} |-> Scan(u, r)]]
                                   [t][[u \in Txs |-> look[u].ids][t][s]]]
          BY <4>1 DEF ScanSources
        <4> QED
          BY <3>2, <3>3, <4>2, Zenon, SMTT(20) DEF Uncached!Answer
      <3>4. CASE Serves(t)
        <4>1. answer[t] = None
          BY <2>0, <3>4, Zenon DEF Serves, Goes, LookShape
        <4>2. answer'[t] = ScanSources(t)
          BY <1>2, <3>4, HitIsScan, Zenon DEF Serves, Goes
        <4> QED
          BY <3>3, <4>1, <4>2, Zenon, SMTT(20) DEF Uncached!Next
      <3>5. CASE Builds(t)
        <4>1. answer[t] = None
          BY <2>0, <3>5, Zenon, SMTT(20) DEF Builds, Goes, LookShape
        <4> QED
          BY <3>3, <3>5, <4>1, Zenon, SMTT(20) DEF Builds, Uncached!Next
      <3>6. CASE Returns(t)
        BY <3>2, <3>6, Zenon, SMTT(20) DEF Returns, Uncached!Next, Uncached!Forget
      <3>7. CASE answer'[t] = answer[t]
        BY <2>0, <3>2, <3>7, Zenon
      <3> QED
        BY <2>0, <2>1, <3>4, <3>5, <3>6, <3>7, LookMoves, Zenon, SMTT(20) DEF Waits, Queues, Decides,
             Publishes, Unlocks, Releases
    <2>2. ASSUME ~\E t \in Txs : LookupStep(t) PROVE UNCHANGED answer
      <3>1. ASSUME NEW t \in Txs PROVE answer'[t] = answer[t]
        BY <1>2, <2>0, <2>2, LookStep, LookStarts, Zenon
      <3> QED
        BY <2>0, <3>1, SMTT(20), Z3T(20)
    <2> QED
      BY <2>1, <2>2, Zenon, SMTT(20)
  <1>3. UNCHANGED vars => UNCHANGED answer
    BY DEF vars
  <1>4. IInv /\ [Next]_vars => [Uncached!Next]_answer
    BY <1>2, <1>3
  <1> QED
    BY <1>1, <1>4, Inductive, PTL DEF Spec, AlwaysFresh, Uncached!Spec
=============================================================================
