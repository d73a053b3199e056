--------------------------- MODULE ProjectionSteps ---------------------------
(***************************************************************************)
(* What a step of ProjectionCache may do to tokens, snapshots and lookups, *)
(* for every storage engine: parts of the inductive invariant that do not  *)
(* depend on what a tag denotes.                                           *)
(***************************************************************************)
EXTENDS ProjectionInvariant

-----------------------------------------------------------------------------
(* What a step leaves alone. *)

LEMMA OwnFrame ==
  ASSUME CoreTypeOK, NEW t \in Txs, StatementStep(t) \/ CommitStep(t)
  PROVE  /\ \A u \in Txs \ {t} : tx'[u] = tx[u]
         /\ UNCHANGED <<look, answer, defs, build_slots>>
         /\ Pinned(t)
         /\ \/ tx'[t] = IdleTx
            \/ /\ tx'[t].write = tx[t].write /\ tx'[t].watermark = tx[t].watermark
               /\ tx'[t].ver = tx[t].ver
               /\ Pinned(t)'
  <1>0. tx \in [Txs -> TxType]
    BY DEF CoreTypeOK
  <1>1. ASSUME StatementStep(t)
        PROVE  UNCHANGED <<look, answer, defs, build_slots>> /\ Pinned(t)
    BY <1>1, Zenon DEF StatementStep, Write, Create, Replace, Remove, Rename, Cleanup, CommitClean,
                DropClean, Abort, Statement, Active, Pinned, cacheVars, defVars
  <1>2. ASSUME CommitStep(t)
        PROVE  UNCHANGED <<look, answer, defs, build_slots>> /\ Pinned(t)
    BY <1>2, Zenon DEF CommitStep, BeginCommit, StoreCommit, StoreCommitFails, BumpToken,
                SweepSkipped, Sweep, Pinned, cacheVars, defVars
  <1> DEFINE Same == /\ \A u \in Txs \ {t} : tx'[u] = tx[u]
                     /\ \/ tx'[t] = IdleTx
                        \/ /\ tx'[t].write = tx[t].write /\ tx'[t].watermark = tx[t].watermark
                           /\ tx'[t].ver = tx[t].ver
                           /\ Pinned(t)'
  <1>3. ASSUME NEW n \in Names, Write(t, n) \/ Create(t, n) \/ Replace(t, n) \/ Remove(t, n)
        PROVE  Same
    BY <1>3, MutationFrame DEF Pinned
  <1>4. ASSUME NEW n \in Names, NEW m \in Names, Rename(t, n, m) PROVE Same
    BY <1>0, <1>4, ZenonT(30) DEF Rename, Statement, Active, Pinned, TxType
  <1>5. CASE Cleanup(t) \/ CommitClean(t) \/ DropClean(t) \/ Abort(t)
    <2>1. Same
      BY <1>0, <1>5 DEF Cleanup, CommitClean, DropClean, Abort, Ended, Pinned, TxType
    <2> QED
      BY <1>1, <1>5, <2>1 DEF StatementStep
  <1>6. CASE BeginCommit(t) \/ StoreCommit(t) \/ StoreCommitFails(t) \/ SweepSkipped(t) \/ Sweep(t)
    <2>1. Same
      BY <1>0, <1>6, SMTT(20), Z3T(20) DEF BeginCommit, StoreCommit, StoreCommitFails, SweepSkipped, Sweep,
                        Ended, Pinned, TxType
    <2> QED
      BY <1>2, <1>6, <2>1 DEF CommitStep
  <1>7. CASE BumpToken(t)
    <2>1. Same
      BY <1>0, <1>7, SMTT(20), Z3T(20) DEF BumpToken, Pinned, TxType
    <2> QED
      BY <1>2, <1>7, <2>1 DEF CommitStep
  <1> QED
    BY <1>1, <1>2, <1>3, <1>4, <1>5, <1>6, <1>7, Zenon DEF StatementStep, CommitStep

\* While a lookup of t is under way, only its own steps change t or the lookup.
LEMMA BusyFrame ==
  ASSUME CoreTypeOK, TxShape, Next, NEW t \in Txs, look[t].at # "idle"
  PROVE  /\ tx'[t] = tx[t]
         /\ LookupStep(t) \/ (look'[t] = look[t] /\ answer'[t] = answer[t])
  <1>0. tx[t].phase = "open"
    BY DEF TxShape
  <1>1. ASSUME NEW u \in Txs, OpenStep(u) PROVE tx'[t] = tx[t] /\ UNCHANGED <<look, answer>>
    BY <1>0, <1>1, Zenon DEF OpenStep, LoadWatermark, Pin, CoreTypeOK
  <1>2. ASSUME NEW u \in Txs, StatementStep(u) PROVE tx'[t] = tx[t] /\ UNCHANGED <<look, answer>>
    <2>1. u # t
      BY <1>2, Zenon DEF StatementStep, Write, Create, Replace, Remove, Rename, Cleanup, CommitClean,
                  DropClean, Abort, Statement, Active, TxShape
    <2> QED
      BY <1>2, <2>1, OwnFrame
  <1>3. ASSUME NEW u \in Txs, CommitStep(u) PROVE tx'[t] = tx[t] /\ UNCHANGED <<look, answer>>
    <2>1. u # t
      BY <1>0, <1>3 DEF CommitStep, BeginCommit, StoreCommit, StoreCommitFails, BumpToken,
                        SweepSkipped, Sweep
    <2> QED
      BY <1>3, <2>1, OwnFrame, Zenon
  <1>4. ASSUME NEW u \in Txs, LookupStep(u)
        PROVE  tx'[t] = tx[t] /\ (u = t \/ (look'[t] = look[t] /\ answer'[t] = answer[t]))
    BY <1>4, LookFrame
  <1>5. ASSUME NEW u \in Readers, NEW k \in Keys, Lookup(u, k)
        PROVE  tx'[t] = tx[t] /\ look'[t] = look[t] /\ answer'[t] = answer[t]
    <2>1. u \in Txs /\ u # t
      BY <1>5, ConstantsAssumption DEF Lookup, Active
    <2> QED
      BY <1>5, <2>1, LookFrame
  <1>6. CASE RegistryStep
    <2>1. UNCHANGED <<tx, look, answer>>
      BY <1>6, Zenon DEF RegistryStep, CreateProjection, DropProjection, SetCapacity, InvalidateAll,
                  ClearEntries
    <2> QED
      BY <2>1
  <1> QED
    BY <1>1, <1>2, <1>3, <1>4, <1>5, <1>6 DEF Next

\* A token moves to one that has just been minted.
LEMMA TokenStep ==
  ASSUME CoreTypeOK, Next
  PROVE  /\ bump_seq <= bump_seq'
         /\ \A r \in Ids : \/ token'[r] = token[r]
                           \/ bump_seq < token'[r] /\ token'[r] <= bump_seq'
  <1>0. bump_seq \in Nat /\ token \in [Ids -> Nat]
    BY DEF CoreTypeOK, Versions
  <1>1. ASSUME NEW t \in Txs, BumpToken(t)
        PROVE  /\ bump_seq' = bump_seq + 1
               /\ \A r \in Ids : token'[r] \in {token[r], bump_seq + 1}
    BY <1>0, <1>1 DEF BumpToken
  <1>2. ASSUME InvalidateAll
        PROVE  /\ bump_seq <= bump_seq'
               /\ \A r \in Ids : \/ token'[r] = token[r]
                                 \/ bump_seq < token'[r] /\ token'[r] <= bump_seq'
    <2> DEFINE known == {r \in Ids : token[r] > 0 \/ inflight[r] > 0}
               upto(r) == {q \in known : q <= r}
    <2>1. /\ bump_seq' = bump_seq + Cardinality(known)
          /\ token' = [r \in Ids |-> IF r \in known THEN bump_seq + Cardinality(upto(r))
                                     ELSE token[r]]
      BY <1>2 DEF InvalidateAll
    <2>2. known \in SUBSET Ids /\ IsFiniteSet(known) /\ Cardinality(known) \in Nat
      BY FiniteIds
    <2>3. ASSUME NEW r \in known
          PROVE  Cardinality(upto(r)) \in Nat /\ 0 < Cardinality(upto(r))
                 /\ Cardinality(upto(r)) <= Cardinality(known)
      <3>1. upto(r) \in SUBSET known /\ r \in upto(r)
        BY <2>2, <2>3, SMTT(20), Z3T(20) DEF Ids
      <3>2. IsFiniteSet(upto(r)) /\ Cardinality(upto(r)) <= Cardinality(known)
        BY <2>2, <3>1, FS_Subset
      <3>3. Cardinality(upto(r)) \in Nat /\ Cardinality(upto(r)) # 0
        BY <3>1, <3>2, FS_CardinalityType, FS_EmptySet
      <3> QED
        BY <3>2, <3>3, SMTT(20), Z3T(20)
    <2> HIDE DEF known, upto
    <2> QED
      BY <1>0, <2>1, <2>2, <2>3, SMTT(20), Z3T(20)
  <1>3. CASE (\E t \in Txs : BumpToken(t)) \/ InvalidateAll
    BY <1>0, <1>1, <1>2, <1>3
  <1>4. CASE ~(\E t \in Txs : BumpToken(t)) /\ ~InvalidateAll
    <2>1. ASSUME NEW t \in Txs, OpenStep(t) \/ StatementStep(t) \/ CommitStep(t)
          PROVE  UNCHANGED <<bump_seq, token>>
      BY <1>4, <2>1, Zenon DEF OpenStep, LoadWatermark, Pin, StatementStep, Write, Create, Replace,
           Remove, Rename, Cleanup, CommitClean, DropClean, Abort, CommitStep, BeginCommit,
           StoreCommit, StoreCommitFails, SweepSkipped, Sweep, freshVars
    <2>2. ASSUME NEW t \in Txs, LookupStep(t) \/ \E k \in Keys : Lookup(t, k)
          PROVE  UNCHANGED <<bump_seq, token>>
      BY <2>2, LookFrame
    <2>3. ASSUME RegistryStep PROVE UNCHANGED <<bump_seq, token>>
      BY <1>4, <2>3, Zenon DEF RegistryStep, CreateProjection, DropProjection, SetCapacity,
           ClearEntries, freshVars
    <2>4. UNCHANGED <<bump_seq, token>>
      BY <2>1, <2>2, <2>3, ConstantsAssumption DEF Next
    <2> QED
      BY <1>0, <2>4, SMTT(20), Z3T(20)
  <1> QED
    BY <1>3, <1>4

\* A token above a watermark stays above it, and a new one is above them all.
LEMMA TokenAbove ==
  ASSUME CoreTypeOK, CoreTypeOK', Next, NEW r \in Ids, NEW m \in Nat, m <= bump_seq
  PROVE  /\ token[r] > m => token'[r] > m
         /\ token'[r] > bump_seq => token'[r] > m
  <1>1. bump_seq \in Nat /\ token[r] \in Nat
    BY DEF CoreTypeOK, Versions
  <1>2. token'[r] = token[r] \/ (bump_seq < token'[r] /\ token'[r] <= bump_seq')
    BY TokenStep
  <1>3. bump_seq' \in Nat /\ token'[r] \in Nat
    BY DEF CoreTypeOK, Versions
  <1> QED
    BY <1>1, <1>2, <1>3, SMTT(20), Z3T(20)

\* What becomes of a transaction in a step: it keeps its snapshot, ends, starts
\* or pins.
LEMMA TxFrame ==
  ASSUME CoreTypeOK, Next, NEW u \in Txs
  PROVE  \/ tx'[u] = IdleTx
         \/ tx'[u].phase = "opening" /\ tx'[u].watermark = bump_seq /\ tx'[u].dirty = {}
         \/ Pin(u)
         \/ /\ Pinned(u) <=> Pinned(u)'
            /\ tx'[u].write = tx[u].write /\ tx'[u].watermark = tx[u].watermark
            /\ tx'[u].ver = tx[u].ver
  <1>0. tx \in [Txs -> TxType]
    BY DEF CoreTypeOK
  <1>1. ASSUME NEW t \in Txs, OpenStep(t)
        PROVE  \/ tx'[u] = tx[u]
               \/ tx'[u].phase = "opening" /\ tx'[u].watermark = bump_seq /\ tx'[u].dirty = {}
               \/ Pin(u)
    <2>1. ASSUME NEW w \in BOOLEAN, LoadWatermark(t, w), u = t
          PROVE  tx'[u].phase = "opening" /\ tx'[u].watermark = bump_seq /\ tx'[u].dirty = {}
      BY <1>0, <2>1 DEF LoadWatermark, IdleTx
    <2>2. u # t => tx'[u] = tx[u]
      BY <1>0, <1>1, Zenon DEF OpenStep, LoadWatermark, Pin
    <2> QED
      BY <1>1, <2>1, <2>2 DEF OpenStep
  <1>2. ASSUME NEW t \in Txs, StatementStep(t) \/ CommitStep(t)
        PROVE  \/ tx'[u] = IdleTx
               \/ /\ Pinned(u) <=> Pinned(u)'
                  /\ tx'[u].write = tx[u].write /\ tx'[u].watermark = tx[u].watermark
                  /\ tx'[u].ver = tx[u].ver
    BY <1>2, OwnFrame DEF Pinned
  <1>3. ASSUME NEW t \in Txs, LookupStep(t) \/ \E k \in Keys : Lookup(t, k) PROVE UNCHANGED tx
    BY <1>3, LookFrame
  <1>4. ASSUME RegistryStep PROVE UNCHANGED tx
    BY <1>4, Zenon DEF RegistryStep, CreateProjection, DropProjection, SetCapacity, InvalidateAll,
                ClearEntries
  <1> QED
    BY <1>1, <1>2, <1>3, <1>4, ConstantsAssumption, Zenon DEF Next, Pinned

LEMMA AloneStep ==
  ASSUME CoreTypeOK, Alone, Next PROVE Alone'
  <1> SUFFICES ASSUME Exclusive, NEW t \in Txs, NEW u \in Txs, Pinned(t)', Pinned(u)',
                      tx'[u].write
               PROVE  t = u
    BY DEF Alone
  <1>i. IdleTx.phase = "idle"
    BY DEF IdleTx
  <1>0. ~Pinned(t)' \/ Pin(t) \/ (Pinned(t) /\ tx'[t].write = tx[t].write)
    BY <1>i, TxFrame DEF Pinned
  <1>1. ~Pinned(u)' \/ Pin(u) \/ (Pinned(u) /\ tx'[u].write = tx[u].write)
    BY <1>i, TxFrame, Zenon DEF Pinned
  <1>2. CASE Pin(t)
    <2>1. t # u => tx'[u] = tx[u]
      BY <1>2 DEF Pin, CoreTypeOK
    <2> QED
      BY <1>2, <2>1 DEF Pin, Pinned
  <1>3. CASE Pin(u)
    <2>1. tx'[u].write = tx[u].write /\ (t # u => tx'[t] = tx[t])
      <3>1. tx \in [Txs -> TxType] /\ tx[u] \in TxType
        BY DEF CoreTypeOK
      <3>2. /\ tx'[u] = [tx[u] EXCEPT !.phase = "open", !.cat = catalog, !.ver = version]
            /\ t # u => tx'[t] = tx[t]
        BY <1>3, <3>1 DEF Pin
      <3>3. tx'[u].write = tx[u].write
        BY <3>1, <3>2, Zenon DEF TxType
      <3> QED
        BY <3>2, <3>3, Zenon
    <2> QED
      BY <1>3, <2>1 DEF Pin, Pinned
  <1> QED
    BY <1>0, <1>1, <1>2, <1>3, Zenon DEF Alone

\* An entry stays, goes, or is the one a lookup inserts.
LEMMA EntryFrame ==
  ASSUME CoreTypeOK, LookKeyed, Next, NEW k \in Keys, entries'[k] # None
  PROVE  \/ entries'[k] = entries[k]
         \/ \E t \in Txs : /\ look[t].at = "insert"
                           /\ entries'[k].ids = look[t].ids
                           /\ entries'[k].tokens = look[t].tokens
                           /\ entries'[k].content = look[t].built
  <1>1. ASSUME NEW t \in Txs, OpenStep(t) \/ StatementStep(t) PROVE UNCHANGED entries
    BY <1>1, Zenon DEF OpenStep, LoadWatermark, Pin, StatementStep, Write, Create, Replace,
         Remove, Rename, Cleanup, CommitClean, DropClean, Abort, cacheVars
  <1>2. ASSUME NEW K, Forget(K) PROVE entries'[k] \in {entries[k], None}
    BY <1>2, Zenon DEF Forget, Without
  <1>3. ASSUME NEW t \in Txs, CommitStep(t) PROVE entries'[k] \in {entries[k], None}
    BY <1>2, <1>3 DEF CommitStep, BeginCommit, StoreCommit, StoreCommitFails, BumpToken,
         SweepSkipped, Sweep, cacheVars
  <1>4. ASSUME RegistryStep PROVE entries'[k] \in {entries[k], None}
    <2>1. ASSUME NEW c \in Capacities, SetCapacity(c) PROVE entries'[k] \in {entries[k], None}
      BY <2>1, TypeEvict DEF SetCapacity, CoreTypeOK
    <2>2. CASE ClearEntries
      BY <2>2, Zenon DEF ClearEntries, cacheVars
    <2> QED
      BY <1>2, <1>4, <2>1, <2>2, Zenon DEF RegistryStep, CreateProjection, DropProjection,
           InvalidateAll, cacheVars
  <1>5. ASSUME NEW t \in Txs, Insert(t)
        PROVE  \/ entries'[k] \in {entries[k], None}
               \/ /\ look[t].at = "insert"
                  /\ entries'[k].ids = look[t].ids
                  /\ entries'[k].tokens = look[t].tokens
                  /\ entries'[k].content = look[t].built
    <2> DEFINE j == look[t].key
               old == IF entries[j] = None THEN 0 ELSE entries[j].est_bytes
               es == Without(entries, {j})
               kept == EvictUntil(es, Less(registry.used_bytes, old),
                                  registry.capacity - look[t].est_bytes)
               new == [ids |-> look[t].ids, tokens |-> look[t].tokens,
                       content |-> look[t].built, est_bytes |-> look[t].est_bytes]
    <2>1. es \in [Keys -> Entries \cup {None}] /\ es[k] \in {entries[k], None}
      BY DEF Without, CoreTypeOK
    <2>3. entries' = [kept.entries EXCEPT ![j] = new] /\ look[t].at = "insert"
      BY <1>5, Zenon DEF Insert
    <2> HIDE DEF es, old
    <2>2. kept.entries \in [Keys -> Entries \cup {None}] /\ kept.entries[k] \in {entries[k], None}
      <3>1. kept.entries \in [Keys -> Entries \cup {None}] /\ kept.entries[k] \in {es[k], None}
        BY <2>1, TypeEvict
      <3> QED
        BY <2>1, <3>1, Zenon
    <2>4. new.ids = look[t].ids /\ new.tokens = look[t].tokens /\ new.content = look[t].built
      OBVIOUS
    <2> HIDE DEF j, kept, new
    <2> QED
      BY <2>2, <2>3, <2>4, Zenon
  <1>6. ASSUME NEW t \in Txs, (LookupStep(t) /\ ~Insert(t)) \/ \E i \in Keys : Lookup(t, i)
        PROVE  UNCHANGED entries
    BY <1>6, Zenon DEF LookupStep, Consume, Door2, Wake, Decide, Build, BuildFails, Produce,
         Unlock, ReleaseSlot, BuildAlone, BuildAloneFails, Return, Lookup, cacheVars
  <1> QED
    BY <1>1, <1>3, <1>4, <1>5, <1>6, ConstantsAssumption, Zenon DEF Next

LEMMA ClockBoundsStep ==
  ASSUME CoreTypeOK, CoreTypeOK', TxShape, LookKeyed, ClockBounds, Next PROVE ClockBounds'
  <1>0. /\ bump_seq \in Nat /\ bump_seq' \in Nat /\ bump_seq <= bump_seq'
        /\ token \in [Ids -> Nat] /\ token' \in [Ids -> Nat]
        /\ \A r \in Ids : token[r] <= bump_seq
    BY TokenStep DEF CoreTypeOK, Versions, ClockBounds
  <1>1. \A r \in Ids : token'[r] <= bump_seq'
    BY <1>0, TokenStep, SMTT(20), Z3T(20)
  <1>2. ASSUME NEW t \in Txs PROVE tx'[t].watermark <= bump_seq'
    <2>0. tx[t].watermark \in Nat /\ tx[t].watermark <= bump_seq
      BY DEF CoreTypeOK, TxType, ClockBounds
    <2>1. CASE Pin(t)
      <3>1. tx'[t].watermark = tx[t].watermark
        BY <2>1 DEF Pin, CoreTypeOK, TxType
      <3> QED
        BY <1>0, <2>0, <3>1, SMTT(20), Z3T(20)
    <2>2. tx'[t] = IdleTx => tx'[t].watermark = 0
      BY SMTT(20), Z3T(20) DEF IdleTx
    <2> QED
      BY <1>0, <2>0, <2>1, <2>2, TxFrame, SMTT(30), Z3T(30)
  <1>3. ASSUME NEW t \in Txs, NEW s \in Slots PROVE look'[t].tokens[s] <= bump_seq'
    <2>0. look[t].tokens[s] \in Nat /\ look[t].tokens[s] <= bump_seq
      BY Zenon DEF CoreTypeOK, LookType, ClockBounds
    <2>1. CASE look'[t].tokens = look[t].tokens
      BY <1>0, <2>0, <2>1, SMTT(20), Z3T(20)
    <2>2. CASE look'[t] = IdleLook
      BY <1>0, <2>2, SMTT(30), Z3T(30) DEF IdleLook
    <2>3. ASSUME NEW k \in Keys, Lookup(t, k) PROVE look'[t].tokens = IdleLook.tokens
      BY <2>3 DEF Lookup, CoreTypeOK, IdleLook
    <2>4. CASE Produce(t)
      <3>1. ASSUME look'[t].tokens # look[t].tokens
            PROVE  look'[t].tokens[s] = IF look[t].ids[s] = NoId THEN 0 ELSE token[look[t].ids[s]]
        <4> DEFINE tags == [q \in Slots |-> IF look[t].ids[q] = NoId THEN 0 ELSE token[look[t].ids[q]]]
        <4>1. \/ look' = [look EXCEPT ![t].at = "unlock"]
              \/ look' = [look EXCEPT ![t].at = "insert", ![t].tokens = tags]
          BY <2>4, Zenon DEF Produce
        <4> HIDE DEF tags
        <4>2. look'[t].tokens = look[t].tokens \/ look'[t].tokens = tags
          BY <4>1, SMTT(20), Z3T(20) DEF CoreTypeOK, LookType
        <4> QED
          BY <3>1, <4>2 DEF tags
      <3>2. look[t].ids[s] \in Ids \cup {NoId}
        BY SMTT(30), Z3T(30) DEF CoreTypeOK, LookType
      <3> QED
        BY <1>0, <2>1, <3>1, <3>2, SMTT(20), Z3T(20)
    <2>5. ASSUME LookupStep(t), ~Produce(t)
          PROVE  look'[t].tokens = look[t].tokens \/ look'[t] = IdleLook
      <3>0. look \in [Txs -> LookType] /\ look[t] \in LookType
        BY DEF CoreTypeOK
      <3>1. CASE Consume(t) \/ Wake(t) \/ Decide(t) \/ BuildFails(t) \/ BuildAlone(t)
                   \/ BuildAloneFails(t) \/ Return(t)
        BY <3>0, <3>1, SMTT(30), Z3T(30) DEF Consume, Wake, Decide, BuildFails, BuildAlone, BuildAloneFails,
             Return, LookType
      <3>2. CASE Door2(t)
        <4>1. PICK a, x : \/ look' = [look EXCEPT ![t].at = a]
                          \/ look' = [look EXCEPT ![t].at = a, ![t].slot = x]
          BY <3>2, Zenon DEF Door2
        <4> QED
          BY <3>0, <4>1 DEF LookType
      <3>4. CASE Insert(t) \/ Unlock(t) \/ ReleaseSlot(t)
        <4>1. PICK a, x : \/ look' = [look EXCEPT ![t].at = a]
                          \/ look' = [look EXCEPT ![t].at = a, ![t].slot = x]
          BY <3>4, Zenon DEF Insert, Unlock, ReleaseSlot
        <4> QED
          BY <3>0, <4>1 DEF LookType
      <3>3. ASSUME NEW bytes \in Sizes, Build(t, bytes) PROVE look'[t].tokens = look[t].tokens
        BY <3>0, <3>3 DEF Build, LookType
      <3> QED
        BY <2>5, <3>1, <3>2, <3>3, <3>4, Zenon, SMTT(20) DEF LookupStep
    <2>6. ASSUME ~LookupStep(t), ~\E k \in Keys : Lookup(t, k) PROVE look'[t] = look[t]
      <3>1. ASSUME NEW u \in Txs, OpenStep(u) PROVE UNCHANGED look
        BY <3>1, Zenon DEF OpenStep, LoadWatermark, Pin
      <3>2. ASSUME NEW u \in Txs, StatementStep(u) \/ CommitStep(u) PROVE UNCHANGED look
        BY <3>2, OwnFrame
      <3>3. ASSUME NEW u \in Txs, LookupStep(u) \/ \E k \in Keys : Lookup(u, k)
            PROVE  look'[t] = look[t]
        BY <2>6, <3>3, LookFrame
      <3>4. ASSUME RegistryStep PROVE UNCHANGED look
        BY <3>4, Zenon DEF RegistryStep, CreateProjection, DropProjection, SetCapacity,
             InvalidateAll, ClearEntries
      <3> QED
        BY <3>1, <3>2, <3>3, <3>4, ConstantsAssumption DEF Next
    <2>7. CASE look'[t].tokens = IdleLook.tokens
      BY <1>0, <2>7, SMTT(20), Z3T(20) DEF IdleLook
    <2> QED
      BY <2>1, <2>2, <2>3, <2>4, <2>5, <2>6, <2>7, Zenon DEF LookupStep
  <1>4. ASSUME NEW k \in Keys, NEW s \in Slots, entries'[k] # None
        PROVE  entries'[k].tokens[s] <= bump_seq'
    <2>1. CASE entries'[k] = entries[k]
      <3>1. entries[k].tokens[s] \in Nat /\ entries[k].tokens[s] <= bump_seq
        BY <1>4, <2>1, Zenon DEF CoreTypeOK, Entries, ClockBounds
      <3> QED
        BY <1>0, <2>1, <3>1, SMTT(20), Z3T(20)
    <2>2. ASSUME NEW t \in Txs, entries'[k].tokens = look[t].tokens
          PROVE  entries'[k].tokens[s] <= bump_seq'
      <3>1. look[t].tokens[s] \in Nat /\ look[t].tokens[s] <= bump_seq
        BY Zenon DEF CoreTypeOK, LookType, ClockBounds
      <3> QED
        BY <1>0, <2>2, <3>1, SMTT(30), Z3T(30)
    <2> QED
      BY <1>4, <2>1, <2>2, EntryFrame, Zenon
  <1> QED
    BY <1>1, <1>2, <1>3, <1>4, Zenon, SMTT(20) DEF ClockBounds

-----------------------------------------------------------------------------
(* Commits in flight. *)

Owing(r) == {t \in Txs : tx[t].raised /\ r \in tx[t].todo}

LEMMA InflightStep ==
  ASSUME CoreTypeOK, CoreTypeOK', TxShape, InflightBalanced, Next PROVE InflightBalanced'
  <1>0. tx \in [Txs -> TxType] /\ inflight \in [Ids -> Nat]
    BY Zenon DEF CoreTypeOK, Versions
  <1>f. \A r \in Ids : IsFiniteSet(Owing(r))
    BY ConstantsAssumption, FS_Subset DEF Owing
  <1> SUFFICES ASSUME NEW r \in Ids PROVE inflight'[r] = Cardinality(Owing(r)')
    BY DEF InflightBalanced, Owing
  <1>b. inflight[r] = Cardinality(Owing(r)) /\ Cardinality(Owing(r)) \in Nat
    BY <1>f, FS_CardinalityType, Zenon, SMTT(20) DEF InflightBalanced, Owing
  <1>1. ASSUME NEW t \in Txs, BeginCommit(t) PROVE inflight'[r] = Cardinality(Owing(r)')
    <2>1. /\ \A u \in Txs \ {t} : tx'[u] = tx[u]
          /\ tx'[t].raised /\ tx'[t].todo = tx[t].dirty /\ tx[t].todo = {}
          /\ inflight'[r] = IF r \in tx[t].dirty THEN inflight[r] + 1 ELSE inflight[r]
      BY <1>0, <1>1, Zenon, SMTT(20) DEF BeginCommit, TxType, TxShape, WellFormed
    <2>2. t \notin Owing(r)
      BY <2>1, Zenon DEF Owing
    <2>3. Owing(r)' = IF r \in tx[t].dirty THEN Owing(r) \cup {t} ELSE Owing(r)
      BY <2>1 DEF Owing
    <2> QED
      <3>1. Cardinality(Owing(r) \cup {t}) = Cardinality(Owing(r)) + 1
        BY <1>f, <2>2, FS_AddElement, Zenon
      <3> QED
        BY <1>b, <2>1, <2>3, <3>1
  <1>2. ASSUME NEW t \in Txs, BumpToken(t) PROVE inflight'[r] = Cardinality(Owing(r)')
    <2>1. PICK q \in tx[t].todo :
            /\ inflight' = [inflight EXCEPT ![q] = IF tx[t].raised /\ @ > 0 THEN @ - 1 ELSE @]
            /\ tx' = [tx EXCEPT ![t].todo = @ \ {q},
                                ![t].phase = IF tx[t].todo = {q} THEN "sweeping" ELSE "bumping"]
      BY <1>2, Zenon DEF BumpToken
    <2>2. /\ \A u \in Txs \ {t} : tx'[u] = tx[u]
          /\ tx'[t].raised = tx[t].raised /\ tx'[t].todo = tx[t].todo \ {q}
      BY <1>0, <2>1 DEF TxType
    <2>3. CASE q = r /\ tx[t].raised
      <3>1. t \in Owing(r) /\ Owing(r)' = Owing(r) \ {t}
        BY <2>1, <2>2, <2>3, Zenon DEF Owing
      <3>2. Cardinality(Owing(r)') = Cardinality(Owing(r)) - 1 /\ Owing(r) # {}
        BY <1>f, <3>1, FS_RemoveElement, Zenon
      <3>3. Cardinality(Owing(r)) # 0
        BY <1>f, <3>2, FS_EmptySet
      <3>4. inflight'[r] = inflight[r] - 1
        BY <1>0, <1>b, <2>1, <2>3, <3>3, SMTT(20), Z3T(20)
      <3> QED
        BY <1>b, <3>2, <3>4
    <2>4. CASE ~(q = r /\ tx[t].raised)
      <3>1. Owing(r)' = Owing(r)
        BY <2>2, <2>4 DEF Owing
      <3>2. inflight'[r] = inflight[r]
        BY <1>0, <2>1, <2>4, Zenon
      <3> QED
        BY <1>b, <3>1, <3>2
    <2> QED
      BY <2>3, <2>4
  <1>3. ASSUME NEW t \in Txs,
               OpenStep(t) \/ StatementStep(t)
                 \/ (CommitStep(t) /\ ~BeginCommit(t) /\ ~BumpToken(t))
        PROVE  UNCHANGED inflight /\ Owing(r)' = Owing(r)
    <2>1. UNCHANGED inflight /\ \A u \in Txs \ {t} : tx'[u] = tx[u]
      BY <1>0, <1>3, Zenon DEF OpenStep, LoadWatermark, Pin, StatementStep, Write, Create, Replace,
           Remove, Rename, Cleanup, CommitClean, DropClean, Abort, CommitStep,
           StoreCommit, StoreCommitFails, SweepSkipped, Sweep, Ended, freshVars
    <2>2. IdleTx.todo = {} /\ ~IdleTx.raised
      BY DEF IdleTx
    <2>3. CASE OpenStep(t)
      <3>1. ~tx[t].raised
        BY <2>3, Zenon DEF OpenStep, LoadWatermark, Pin, TxShape, WellFormed
      <3>2. ~tx'[t].raised
        <4>1. ASSUME NEW w \in BOOLEAN, LoadWatermark(t, w) PROVE ~tx'[t].raised
          <5>1. tx'[t] = [IdleTx EXCEPT !.phase = "opening", !.write = w, !.watermark = bump_seq]
            BY <1>0, <4>1 DEF LoadWatermark
          <5> QED
            BY <2>2, <5>1, IdleTypes DEF TxType
        <4>2. ASSUME Pin(t) PROVE tx'[t].raised = tx[t].raised
          BY <1>0, <4>2, Zenon, SMTT(20) DEF Pin, TxType
        <4> QED
          BY <2>3, <3>1, <4>1, <4>2 DEF OpenStep
      <3> QED
        BY <2>1, <3>1, <3>2, SMTT(20), Z3T(20) DEF Owing
    <2>4. CASE StatementStep(t)
      <3>1. ~tx[t].raised
        BY <2>4, Zenon DEF StatementStep, Write, Create, Replace, Remove, Rename, Cleanup,
             CommitClean, DropClean, Abort, Statement, Active, TxShape, WellFormed
      <3>2. ASSUME NEW n \in Names,
                   Write(t, n) \/ Create(t, n) \/ Replace(t, n) \/ Remove(t, n)
            PROVE  tx'[t].raised = tx[t].raised
        BY <3>2, MutationFrame
      <3>3. ASSUME NEW n \in Names, NEW m \in Names, Rename(t, n, m)
            PROVE  tx'[t].raised = tx[t].raised
        BY <1>0, <3>3 DEF Rename, TxType
      <3>4. ASSUME Cleanup(t) \/ CommitClean(t) \/ DropClean(t) \/ Abort(t)
            PROVE  tx'[t].raised = tx[t].raised \/ tx'[t] = IdleTx
        BY <1>0, <3>4, Zenon, SMTT(20) DEF Cleanup, CommitClean, DropClean, Abort, Ended, TxType
      <3>5. ~tx'[t].raised
        BY <2>2, <2>4, <3>1, <3>2, <3>3, <3>4, Zenon DEF StatementStep
      <3> QED
        BY <2>1, <3>1, <3>5 DEF Owing
    <2>5. CASE StoreCommit(t) \/ StoreCommitFails(t)
      <3>1. tx'[t].raised = tx[t].raised /\ tx'[t].todo = tx[t].todo
        BY <1>0, <2>5 DEF StoreCommit, StoreCommitFails, TxType
      <3> QED
        BY <2>1, <3>1 DEF Owing
    <2>6. CASE SweepSkipped(t) \/ Sweep(t)
      <3>1. tx[t].todo = {} /\ tx'[t] = IdleTx
        BY <1>0, <2>6 DEF SweepSkipped, Sweep, Ended, TxShape, WellFormed
      <3> QED
        BY <2>1, <2>2, <3>1, Zenon, SMTT(20) DEF Owing
    <2> QED
      BY <1>3, <2>1, <2>3, <2>4, <2>5, <2>6, Zenon DEF CommitStep
  <1>4. ASSUME NEW t \in Txs, LookupStep(t) \/ \E k \in Keys : Lookup(t, k)
        PROVE  UNCHANGED inflight /\ Owing(r)' = Owing(r)
    BY <1>4, LookFrame DEF Owing
  <1>5. ASSUME RegistryStep PROVE UNCHANGED inflight /\ Owing(r)' = Owing(r)
    BY <1>5, Zenon DEF RegistryStep, CreateProjection, DropProjection, SetCapacity, InvalidateAll,
         ClearEntries, Owing, freshVars
  <1> QED
    BY <1>b, <1>1, <1>2, <1>3, <1>4, <1>5, ConstantsAssumption, Zenon DEF Next, CommitStep

-----------------------------------------------------------------------------
(* Relations that may have changed without a token. *)

\* A statement only adds to the dirty set; it never raises inflight.
LEMMA StatementFrame ==
  ASSUME CoreTypeOK, TxShape, NEW t \in Txs, StatementStep(t)
  PROVE  /\ ~tx[t].raised /\ tx[t].phase \in {"open", "ending"}
         /\ \/ tx[t].dirty = {} /\ tx'[t] = IdleTx
            \/ /\ ~tx'[t].raised /\ tx[t].dirty \subseteq tx'[t].dirty
               /\ tx'[t].phase \in {"open", "ending"}
            \/ ~tx'[t].raised /\ tx'[t].phase = "aborted" /\ tx'[t].todo = tx[t].dirty
  <1>0. tx \in [Txs -> TxType] /\ tx[t] \in TxType
    BY DEF CoreTypeOK
  <1>1. ~tx[t].raised /\ tx[t].phase \in {"open", "ending"}
    BY Zenon DEF StatementStep, Write, Create, Replace, Remove, Rename, Cleanup,
         CommitClean, DropClean, Abort, Statement, Active, TxShape, WellFormed
  <1> DEFINE Grows == /\ tx'[t].raised = tx[t].raised /\ tx[t].dirty \subseteq tx'[t].dirty
                      /\ tx'[t].phase \in {"open", "ending"}
  <1>2. ASSUME NEW n \in Names, Write(t, n) \/ Create(t, n) \/ Replace(t, n) \/ Remove(t, n)
        PROVE  Grows
    BY <1>2, MutationFrame
  <1>3. ASSUME NEW n \in Names, NEW m \in Names, Rename(t, n, m) PROVE Grows
    BY <1>0, <1>3 DEF Rename, Statement, Active, TxType
  <1>4. ASSUME Cleanup(t) PROVE Grows
    BY <1>0, <1>4 DEF Cleanup, TxType
  <1>5. ASSUME CommitClean(t) \/ DropClean(t) PROVE tx[t].dirty = {} /\ tx'[t] = IdleTx
    BY <1>0, <1>5, Zenon DEF CommitClean, DropClean, Ended
  <1>6. ASSUME Abort(t)
        PROVE  tx'[t].raised = tx[t].raised /\ tx'[t].phase = "aborted" /\ tx'[t].todo = tx[t].dirty
    BY <1>0, <1>6, Zenon DEF Abort, TxType
  <1> QED
    BY <1>1, <1>2, <1>3, <1>4, <1>5, <1>6, Zenon, SMTT(20) DEF StatementStep

\* A transaction that owes a token goes on owing it until it is minted.
LEMMA UnbumpedStep ==
  ASSUME CoreTypeOK, TxShape, Next, NEW t \in Txs, NEW r \in Ids, r \in Unbumped(t)
  PROVE  r \in Unbumped(t)' \/ token'[r] > bump_seq
  <1>0. /\ tx \in [Txs -> TxType] /\ tx[t] \in TxType
        /\ token \in [Ids -> Nat] /\ bump_seq \in Nat
    BY Zenon DEF CoreTypeOK, Versions
  <1>w. WellFormed(tx[t])
    BY Zenon DEF TxShape
  <1>1. tx[t].phase \notin {"idle", "opening", "sweeping"}
    BY <1>w, Zenon DEF WellFormed, Unbumped
  <1>2. ASSUME NEW u \in Txs, OpenStep(u) PROVE tx'[t] = tx[t]
    BY <1>0, <1>1, <1>2, Zenon, SMTT(20) DEF OpenStep, LoadWatermark, Pin
  <1>3. ASSUME StatementStep(t) PROVE r \in Unbumped(t)'
    BY <1>3, StatementFrame, Zenon DEF Unbumped
  <1>4. ASSUME CommitStep(t) PROVE r \in Unbumped(t)' \/ token'[r] > bump_seq
    <2>1. CASE BeginCommit(t)
      <3>1. tx'[t].raised /\ tx'[t].todo = tx[t].dirty
        BY <1>0, <2>1 DEF BeginCommit, TxType
      <3>2. r \in tx[t].dirty
        BY <1>w, <2>1, Zenon DEF BeginCommit, WellFormed, Unbumped
      <3> QED
        BY <3>1, <3>2 DEF Unbumped
    <2>2. CASE StoreCommit(t) \/ StoreCommitFails(t)
      <3>1. /\ tx[t].raised /\ tx'[t].raised = tx[t].raised
            /\ tx'[t].todo = tx[t].todo
        BY <1>0, <1>w, <2>2, SMTT(20), Z3T(20) DEF StoreCommit, StoreCommitFails, TxType, WellFormed
      <3> QED
        BY <3>1 DEF Unbumped
    <2>3. CASE BumpToken(t)
      <3>1. PICK q \in tx[t].todo :
              /\ token' = [token EXCEPT ![q] = bump_seq + 1]
              /\ tx' = [tx EXCEPT ![t].todo = @ \ {q},
                                  ![t].phase = IF tx[t].todo = {q} THEN "sweeping" ELSE "bumping"]
        BY <2>3, Zenon DEF BumpToken
      <3>2. /\ tx'[t].raised = tx[t].raised /\ tx'[t].todo = tx[t].todo \ {q}
            /\ tx'[t].phase \notin {"open", "ending"}
        BY <1>0, <3>1 DEF TxType
      <3>3. r \in tx[t].todo
        BY <2>3 DEF Unbumped, BumpToken
      <3>4. r = q => token'[r] > bump_seq
        BY <1>0, <3>1, SMTT(20), Z3T(20)
      <3>5. r # q => r \in Unbumped(t)'
        BY <3>2, <3>3 DEF Unbumped
      <3> QED
        BY <3>4, <3>5
    <2> QED
      BY <1>1, <1>4, <2>1, <2>2, <2>3, Zenon, SMTT(20) DEF CommitStep, SweepSkipped, Sweep
  <1>5. ASSUME NEW u \in Txs, StatementStep(u) \/ CommitStep(u), u # t PROVE tx'[t] = tx[t]
    BY <1>5, OwnFrame
  <1>6. ASSUME NEW u \in Txs, LookupStep(u) \/ \E k \in Keys : Lookup(u, k) PROVE tx'[t] = tx[t]
    BY <1>6, LookFrame
  <1>7. ASSUME RegistryStep PROVE tx'[t] = tx[t]
    BY <1>7, Zenon DEF RegistryStep, CreateProjection, DropProjection, SetCapacity, InvalidateAll,
                ClearEntries
  <1>8. ASSUME tx'[t] = tx[t] PROVE r \in Unbumped(t)'
    BY <1>8 DEF Unbumped
  <1> QED
    BY <1>2, <1>3, <1>4, <1>5, <1>6, <1>7, <1>8, ConstantsAssumption, Zenon DEF Next

LEMMA IndeterminateStep ==
  ASSUME CoreTypeOK, TxShape, Next, NEW r \in Ids, Indeterminate(r)
  PROVE  Indeterminate(r)' \/ token'[r] > bump_seq
  BY UnbumpedStep DEF Indeterminate

\* Content only changes while a transaction owes the relation a token.
LEMMA VersionStep ==
  ASSUME CoreTypeOK, TxShape, Next, NEW r \in Ids, version'[r] # version[r]
  PROVE  Indeterminate(r)'
  <1>0. tx \in [Txs -> TxType] /\ version \in [Ids -> Nat]
    BY DEF CoreTypeOK, Versions
  <1>1. ASSUME NEW t \in Txs, NEW n \in Names, Remove(t, n) PROVE Indeterminate(r)'
    <2>1. WriteThrough /\ r = Resolve(t, n)
      BY <1>0, <1>1 DEF Remove, RangeDeleted
    <2>2. ~tx[t].raised
      BY <1>1 DEF Remove, Statement, Active, TxShape, WellFormed
    <2>3. /\ tx'[t].raised = tx[t].raised /\ tx'[t].phase = tx[t].phase
          /\ tx'[t].dirty = tx[t].dirty \cup {Resolve(t, n)} /\ tx[t].phase = "open"
      BY <1>0, <1>1, Zenon DEF Remove, Statement, Active, TxType
    <2> QED
      BY <2>1, <2>2, <2>3, Zenon DEF Indeterminate, Unbumped
  <1>2. ASSUME NEW t \in Txs, Cleanup(t) PROVE Indeterminate(r)'
    <2>1. WriteThrough /\ r \in tx[t].clean
      BY <1>0, <1>2, Zenon, SMTT(20) DEF Cleanup, RangeDeleted
    <2>2. ~tx[t].raised /\ tx[t].clean \subseteq tx[t].dirty
      BY <1>2 DEF Cleanup, Active, TxShape, WellFormed
    <2>3. /\ tx'[t].raised = tx[t].raised /\ tx'[t].phase = "ending"
          /\ tx'[t].dirty = tx[t].dirty
      BY <1>0, <1>2 DEF Cleanup, TxType
    <2> QED
      BY <2>1, <2>2, <2>3 DEF Indeterminate, Unbumped
  <1>3. ASSUME NEW t \in Txs, StoreCommit(t) PROVE Indeterminate(r)'
    <2>1. r \in tx[t].dirty /\ tx[t].phase = "begun"
      BY <1>0, <1>3, Zenon DEF StoreCommit
    <2>2. tx[t].raised /\ tx[t].todo = tx[t].dirty
      BY <2>1 DEF TxShape, WellFormed
    <2>3. tx'[t].raised = tx[t].raised /\ tx'[t].todo = tx[t].todo
      BY <1>0, <1>3 DEF StoreCommit, TxType
    <2> QED
      BY <2>1, <2>2, <2>3, Zenon DEF Indeterminate, Unbumped
  <1>4. ASSUME NEW t \in Txs, OpenStep(t) PROVE UNCHANGED version
    BY <1>4, Zenon DEF OpenStep, LoadWatermark, Pin, storeVars
  <1>5. ASSUME NEW t \in Txs, LookupStep(t) \/ \E k \in Keys : Lookup(t, k)
        PROVE  UNCHANGED version
    BY <1>5, LookFrame, Zenon
  <1>6. ASSUME RegistryStep PROVE UNCHANGED version
    BY <1>6, Zenon DEF RegistryStep, CreateProjection, DropProjection, SetCapacity, InvalidateAll,
                ClearEntries, storeVars
  <1>7. ASSUME NEW t \in Txs, StatementStep(t), ~Cleanup(t), ~\E n \in Names : Remove(t, n)
        PROVE  UNCHANGED version
    BY <1>7, Zenon, SMTT(20) DEF StatementStep, Write, Create, Replace, Rename, CommitClean, DropClean, Abort,
                storeVars
  <1>8. ASSUME NEW t \in Txs, CommitStep(t), ~StoreCommit(t) PROVE UNCHANGED version
    BY <1>8 DEF CommitStep, BeginCommit, StoreCommitFails, BumpToken, SweepSkipped, Sweep,
                storeVars
  <1> QED
    BY <1>1, <1>2, <1>3, <1>4, <1>5, <1>6, <1>7, <1>8, ConstantsAssumption, Zenon DEF Next

LEMMA SnapshotCurrentStep ==
  ASSUME CoreTypeOK, CoreTypeOK', TxShape, ClockBounds, SnapshotCurrent, Next
  PROVE  SnapshotCurrent'
  <1> SUFFICES ASSUME NEW t \in Txs, NEW r \in Ids, Pinned(t)', PinsSnapshot(tx'[t].write)
               PROVE  \/ tx'[t].ver[r] = version'[r]
                      \/ token'[r] > tx'[t].watermark
                      \/ Indeterminate(r)'
    BY DEF SnapshotCurrent
  <1>0. /\ tx \in [Txs -> TxType] /\ tx[t] \in TxType /\ tx[t].watermark \in Nat
        /\ bump_seq \in Nat /\ token \in [Ids -> Nat] /\ token' \in [Ids -> Nat]
        /\ tx[t].watermark <= bump_seq
    BY Zenon DEF CoreTypeOK, Versions, TxType, ClockBounds
  <1>1. IdleTx.phase = "idle"
    BY DEF IdleTx
  <1>2. CASE Pin(t)
    <2>1. tx'[t].ver = version /\ UNCHANGED version
      BY <1>0, <1>2 DEF Pin, TxType, storeVars
    <2> QED
      BY <2>1
  <1>3. CASE /\ Pinned(t)
             /\ tx'[t].write = tx[t].write /\ tx'[t].watermark = tx[t].watermark
             /\ tx'[t].ver = tx[t].ver
    <2>1. tx[t].ver[r] = version[r] \/ token[r] > tx[t].watermark \/ Indeterminate(r)
      BY <1>3, Zenon DEF SnapshotCurrent
    <2>2. CASE tx[t].ver[r] = version[r]
      BY <1>3, <2>2, VersionStep, Zenon
    <2>3. CASE token[r] > tx[t].watermark
      BY <1>0, <1>3, <2>3, TokenAbove, Zenon
    <2>4. CASE Indeterminate(r)
      BY <1>0, <1>3, <2>4, IndeterminateStep, TokenAbove, Zenon, SMTT(20)
    <2> QED
      BY <2>1, <2>2, <2>3, <2>4, Zenon
  <1> QED
    BY <1>1, <1>2, <1>3, TxFrame, Zenon DEF Pinned

-----------------------------------------------------------------------------
(* The steps of a lookup. *)

Goes(t, a, b) == look[t].at = a /\ look'[t].at = b
SameKey(t) == /\ look'[t].key = look[t].key /\ look'[t].gen = look[t].gen
              /\ look'[t].ids = look[t].ids
SameSlot(t) == look'[t].slot = look[t].slot /\ UNCHANGED build_slots
SameAlone(t) == look'[t].alone = look[t].alone

Serves(t) ==
  /\ Goes(t, "consume", "return") \/ Goes(t, "queued", "unlock")
  /\ Hits(t) /\ answer'[t] = entries[look[t].key].content
  /\ SameKey(t) /\ SameSlot(t) /\ SameAlone(t)
  /\ look[t].at = "queued" => Holders(BuildKey(t), look[t].slot) = {}
Waits(t) ==
  /\ \/ Goes(t, "consume", "door2") \/ Goes(t, "door2", "alone") \/ Goes(t, "queued", "decide")
     \/ Goes(t, "build", "unlock") \/ Goes(t, "produce", "unlock") \/ Goes(t, "insert", "unlock")
     \/ Goes(t, "alone", "return")
  /\ answer'[t] = answer[t]
  /\ SameKey(t) /\ SameSlot(t) /\ SameAlone(t)
  /\ look[t].at = "queued" => Holders(BuildKey(t), look[t].slot) = {}
Queues(t) ==
  LET b == BuildKey(t)
      slot == IF build_slots[b] = None THEN t ELSE build_slots[b]
  IN /\ Goes(t, "door2", "queued")
     /\ answer'[t] = answer[t] /\ SameKey(t) /\ SameAlone(t)
     /\ look'[t].slot = slot /\ build_slots' = [build_slots EXCEPT ![b] = slot]
Decides(t) ==
  /\ \/ Goes(t, "decide", "build") /\ ~look'[t].alone
     \/ Goes(t, "decide", "unlock")
  /\ answer'[t] = answer[t] /\ SameKey(t) /\ SameSlot(t)
Builds(t) ==
  /\ \/ Goes(t, "build", "produce") /\ look'[t].built = ScanSources(t)
     \/ Goes(t, "alone", "return")
  /\ answer'[t] = ScanSources(t)
  /\ SameKey(t) /\ SameSlot(t) /\ SameAlone(t)
Publishes(t) ==
  /\ Goes(t, "produce", "insert") /\ AllFresh(t)
  /\ look'[t].built = look[t].built
  /\ look'[t].tokens = [s \in Slots |-> IF look[t].ids[s] = NoId THEN 0 ELSE token[look[t].ids[s]]]
  /\ answer'[t] = answer[t]
  /\ SameKey(t) /\ SameSlot(t) /\ SameAlone(t)
Unlocks(t) ==
  /\ Goes(t, "unlock", "release") /\ look'[t].slot = None /\ UNCHANGED build_slots
  /\ answer'[t] = answer[t] /\ SameKey(t) /\ SameAlone(t)
Releases(t) ==
  LET b == BuildKey(t) IN
  /\ look[t].at = "release" /\ look'[t].at = IF look[t].alone THEN "alone" ELSE "return"
  /\ answer'[t] = answer[t] /\ SameKey(t) /\ SameAlone(t)
  /\ look'[t].slot = look[t].slot
  /\ build_slots' = [build_slots EXCEPT ![b] = IF Clones(b, build_slots[b]) = {} THEN None ELSE @]
Returns(t) ==
  /\ look[t].at = "return" /\ look'[t] = IdleLook /\ answer'[t] = None
  /\ UNCHANGED build_slots

LEMMA LookMoves ==
  ASSUME CoreTypeOK, NEW t \in Txs, LookupStep(t)
  PROVE  \/ Serves(t) \/ Waits(t) \/ Queues(t) \/ Decides(t) \/ Builds(t) \/ Publishes(t)
         \/ Unlocks(t) \/ Releases(t) \/ Returns(t)
  <1>0. look[t] \in LookType /\ look \in [Txs -> LookType] /\ answer \in [Txs -> [Slots -> Contents] \cup {None}]
    BY Zenon DEF CoreTypeOK
  <1>a. ASSUME NEW a, look' = [look EXCEPT ![t].at = a]
        PROVE  /\ look'[t].at = a /\ SameKey(t) /\ SameAlone(t) /\ look'[t].slot = look[t].slot
               /\ look'[t].built = look[t].built
    BY <1>0, <1>a DEF LookType, SameKey, SameAlone
  <1>1. CASE Consume(t)
    <2>1. ASSUME NEW a, look' = [look EXCEPT ![t].at = a], look[t].at = "consume"
          PROVE  SameSlot(t) /\ Goes(t, "consume", a)
      BY <1>1, <1>a, <2>1, Zenon, SMTT(20) DEF Consume, SameSlot, Goes
    <2> QED
      BY <1>0, <1>1, <1>a, <2>1, Zenon DEF Consume, Serve, Serves, Waits
  <1>2. CASE Door2(t)
    <2> DEFINE b == BuildKey(t)
               slot == IF build_slots[b] = None THEN t ELSE build_slots[b]
    <2>1. /\ look[t].at = "door2" /\ UNCHANGED answer
          /\ \/ look' = [look EXCEPT ![t].at = "alone"] /\ UNCHANGED build_slots
             \/ /\ build_slots' = [build_slots EXCEPT ![b] = slot]
                /\ look' = [look EXCEPT ![t].at = "queued", ![t].slot = slot]
      BY <1>2 DEF Door2
    <2> HIDE DEF slot
    <2>3. ASSUME look' = [look EXCEPT ![t].at = "queued", ![t].slot = slot]
          PROVE  look'[t].at = "queued" /\ look'[t].slot = slot /\ SameKey(t) /\ SameAlone(t)
      BY <1>0, <2>3 DEF LookType, SameKey, SameAlone
    <2>4. CASE look' = [look EXCEPT ![t].at = "alone"] /\ UNCHANGED build_slots
      BY <1>a, <2>1, <2>4, Zenon DEF Waits, Goes, SameSlot
    <2> QED
      BY <2>1, <2>3, <2>4, Zenon, SMTT(20) DEF Queues, Goes, slot
  <1>3. CASE Wake(t)
    <2>1. ASSUME NEW a, look' = [look EXCEPT ![t].at = a], look[t].at = "queued"
          PROVE  SameSlot(t) /\ Goes(t, "queued", a)
      BY <1>3, <1>a, <2>1, Zenon DEF Wake, SameSlot, Goes
    <2> QED
      BY <1>0, <1>3, <1>a, <2>1, Zenon DEF Wake, Serve, Serves, Waits
  <1>4. CASE Decide(t)
    <2>1. /\ look[t].at = "decide" /\ UNCHANGED <<answer, build_slots>>
          /\ look' = [look EXCEPT ![t].at = IF AllFresh(t) THEN "build" ELSE "unlock",
                                  ![t].alone = ~AllFresh(t)]
      BY <1>4 DEF Decide
    <2>2. /\ look'[t].at = IF AllFresh(t) THEN "build" ELSE "unlock"
          /\ look'[t].alone = ~AllFresh(t)
          /\ SameKey(t) /\ look'[t].slot = look[t].slot
      BY <1>0, <2>1 DEF LookType, SameKey
    <2> QED
      BY <2>1, <2>2, Zenon DEF Decides, Goes, SameSlot
  <1>5. ASSUME NEW bytes \in Sizes, Build(t, bytes) PROVE Builds(t)
    <2>1. /\ look'[t].at = "produce" /\ look'[t].built = ScanSources(t)
          /\ SameKey(t) /\ SameAlone(t) /\ look'[t].slot = look[t].slot
      BY <1>0, <1>5 DEF Build, LookType, SameKey, SameAlone
    <2> QED
      BY <1>0, <1>5, <2>1 DEF Build, Builds, Goes, SameSlot
  <1>6. CASE BuildFails(t) \/ BuildAloneFails(t)
    BY <1>a, <1>6, Zenon DEF BuildFails, BuildAloneFails, Waits, Goes, SameSlot
  <1>7. CASE Produce(t)
    <2> DEFINE tags == [s \in Slots |-> IF look[t].ids[s] = NoId THEN 0 ELSE token[look[t].ids[s]]]
    <2>1. /\ look[t].at = "produce" /\ UNCHANGED <<answer, build_slots>>
          /\ \/ look' = [look EXCEPT ![t].at = "unlock"]
             \/ AllFresh(t) /\ look' = [look EXCEPT ![t].at = "insert", ![t].tokens = tags]
      BY <1>7, Zenon DEF Produce
    <2> HIDE DEF tags
    <2>2. ASSUME look' = [look EXCEPT ![t].at = "insert", ![t].tokens = tags]
          PROVE  /\ look'[t].at = "insert" /\ look'[t].tokens = tags /\ look'[t].built = look[t].built
                 /\ SameKey(t) /\ SameAlone(t) /\ look'[t].slot = look[t].slot
      BY <1>0, <2>2 DEF LookType, SameKey, SameAlone
    <2> QED
      BY <1>a, <2>1, <2>2, Zenon DEF Waits, Publishes, Goes, SameSlot, tags
  <1>8. CASE Insert(t)
    BY <1>a, <1>8, Zenon DEF Insert, Waits, Goes, SameSlot
  <1>9. CASE Unlock(t)
    <2>1. look'[t].at = "release" /\ look'[t].slot = None /\ SameKey(t) /\ SameAlone(t)
      BY <1>0, <1>9 DEF Unlock, LookType, SameKey, SameAlone
    <2> QED
      BY <1>9, <2>1 DEF Unlock, Unlocks, Goes
  <1>10. CASE ReleaseSlot(t)
    BY <1>a, <1>10, Zenon DEF ReleaseSlot, Releases
  <1>11. CASE BuildAlone(t)
    BY <1>0, <1>a, <1>11, Zenon DEF BuildAlone, Builds, Goes, SameSlot
  <1>12. CASE Return(t)
    BY <1>0, <1>12, Zenon DEF Return, Returns
  <1> QED
    BY <1>1, <1>2, <1>3, <1>4, <1>5, <1>6, <1>7, <1>8, <1>9, <1>10, <1>11, <1>12, Zenon
    DEF LookupStep

\* A new lookup: door 1 has been passed or has sent it to build alone.
LEMMA LookStarts ==
  ASSUME CoreTypeOK, NEW t \in Txs, NEW k \in Keys, Lookup(t, k)
  PROVE  /\ look[t].at = "idle" /\ tx[t].phase = "open"
         /\ look'[t].key = k /\ look'[t].gen \in 1 .. MaxGen
         /\ look'[t].slot = None /\ ~look'[t].alone
         /\ \/ look'[t].at = "alone"
            \/ look'[t].at = "consume" /\ SourceIds(look'[t].ids) \cap tx[t].dirty = {}
         /\ UNCHANGED <<answer, build_slots>>
  <1>0. look \in [Txs -> LookType]
    BY Zenon DEF CoreTypeOK
  <1> DEFINE d == defs[k[1]]
             ids == [s \in Slots |-> Resolve(t, d.src[s])]
             at == IF SourceIds(ids) \cap tx[t].dirty # {} THEN "alone" ELSE "consume"
  <1>1. /\ look' = [look EXCEPT ![t] = [IdleLook EXCEPT !.key = k, !.gen = d.gen, !.ids = ids,
                                                        !.at = at]]
        /\ Active(t) /\ d # None /\ UNCHANGED <<answer, build_slots>>
    BY DEF Lookup
  <1>2. d.gen \in 1 .. MaxGen
    BY <1>1 DEF CoreTypeOK, Keys
  <1> HIDE DEF ids, at, d
  <1>3. /\ look'[t].key = k /\ look'[t].gen = d.gen /\ look'[t].ids = ids /\ look'[t].at = at
        /\ look'[t].slot = IdleLook.slot /\ look'[t].alone = IdleLook.alone
    BY <1>0, <1>1, IdleTypes, Zenon DEF LookType
  <1>4. IdleLook.slot = None /\ ~IdleLook.alone
    BY DEF IdleLook
  <1> QED
    BY <1>1, <1>2, <1>3, <1>4, Zenon DEF Active, at

\* A step of Next, as seen by the lookup of t.
LEMMA LookStep ==
  ASSUME CoreTypeOK, TxShape, Next, NEW t \in Txs
  PROVE  \/ LookupStep(t)
         \/ \E k \in Keys : Lookup(t, k)
         \/ look'[t] = look[t] /\ answer'[t] = answer[t]
  <1>1. ASSUME NEW u \in Txs, OpenStep(u) PROVE UNCHANGED <<look, answer>>
    BY <1>1, Zenon DEF OpenStep, LoadWatermark, Pin
  <1>2. ASSUME NEW u \in Txs, StatementStep(u) \/ CommitStep(u) PROVE UNCHANGED <<look, answer>>
    BY <1>2, OwnFrame, Zenon, SMTT(20)
  <1>3. ASSUME NEW u \in Txs \ {t}, LookupStep(u) \/ \E k \in Keys : Lookup(u, k)
        PROVE  look'[t] = look[t] /\ answer'[t] = answer[t]
    BY <1>3, LookFrame
  <1>4. ASSUME RegistryStep PROVE UNCHANGED <<look, answer>>
    BY <1>4, Zenon DEF RegistryStep, CreateProjection, DropProjection, SetCapacity, InvalidateAll,
                ClearEntries
  <1> QED
    BY <1>1, <1>2, <1>3, <1>4, ConstantsAssumption, Zenon DEF Next

LEMMA LookKeyedStep ==
  ASSUME CoreTypeOK, TxShape, LookKeyed, Next PROVE LookKeyed'
  <1> SUFFICES ASSUME NEW t \in Txs, look'[t].at # "idle"
               PROVE  look'[t].key \in Keys /\ look'[t].gen \in 1 .. MaxGen
    BY DEF LookKeyed
  <1>1. ASSUME NEW k \in Keys, Lookup(t, k)
        PROVE  look'[t].key \in Keys /\ look'[t].gen \in 1 .. MaxGen
    BY <1>1, LookStarts
  <1>2. CASE LookupStep(t)
    <2>1. IdleLook.at = "idle"
      BY DEF IdleLook
    <2>2. look[t].at # "idle" /\ (SameKey(t) \/ look'[t].at = "idle")
      BY <1>2, <2>1, LookMoves, Zenon DEF Serves, Waits, Queues, Decides, Builds, Publishes, Unlocks,
           Releases, Returns, Goes
    <2> QED
      BY <2>2, Zenon, SMTT(20) DEF SameKey, LookKeyed
  <1> QED
    BY <1>1, <1>2, LookStep, Zenon, SMTT(20) DEF LookKeyed

LEMMA LookShapeStep ==
  ASSUME CoreTypeOK, TxShape, LookShape, Next PROVE LookShape'
  <1> DEFINE Shape(x, a, dirty) ==
        /\ x.at \in Shareable => SourceIds(x.ids) \cap dirty = {}
        /\ x.alone => x.at \in {"unlock", "release", "alone", "return"}
        /\ x.at \in {"idle", "consume", "door2", "queued", "decide", "build", "alone"} => a = None
        /\ x.at \in {"unlock", "release"} /\ x.alone => a = None
  <1> SUFFICES ASSUME NEW t \in Txs PROVE Shape(look'[t], answer'[t], tx'[t].dirty)
    BY Zenon DEF LookShape
  <1>0. Shape(look[t], answer[t], tx[t].dirty)
    BY DEF LookShape
  <1>1. ASSUME NEW k \in Keys, Lookup(t, k) PROVE Shape(look'[t], answer'[t], tx'[t].dirty)
    <2>1. UNCHANGED tx
      BY <1>1, LookFrame
    <2> QED
      BY <1>0, <1>1, <2>1, LookStarts, Zenon, SMTT(20) DEF Shareable
  <1>2. CASE LookupStep(t)
    <2>1. tx'[t] = tx[t]
      BY <1>2, LookFrame, Zenon
    <2>2. IdleLook.at = "idle" /\ ~IdleLook.alone
      BY DEF IdleLook
    <2>3. CASE Serves(t) \/ Waits(t) \/ Queues(t)
      BY <1>0, <2>1, <2>3, Zenon DEF Serves, Waits, Queues, Goes, SameKey, SameAlone, Shareable
    <2>4. CASE Decides(t) \/ Builds(t) \/ Publishes(t)
      BY <1>0, <2>1, <2>4, Zenon DEF Decides, Builds, Publishes, Goes, SameKey, SameAlone, Shareable
    <2>5. CASE Unlocks(t) \/ Releases(t)
      BY <1>0, <2>1, <2>5, Zenon DEF Unlocks, Releases, Goes, SameKey, SameAlone, Shareable
    <2>6. CASE Returns(t)
      BY <2>2, <2>6, Zenon, SMTT(20) DEF Returns, Shareable
    <2> QED
      BY <1>2, <2>3, <2>4, <2>5, <2>6, LookMoves, Zenon
  <1>3. CASE look'[t] = look[t] /\ answer'[t] = answer[t]
    <2>1. look[t].at # "idle" => tx'[t] = tx[t]
      BY BusyFrame
    <2> QED
      BY <1>0, <1>3, <2>1, Zenon, SMTT(20) DEF Shareable
  <1> QED
    BY <1>1, <1>2, <1>3, LookStep, Zenon


\* A lookup that comes to produce or to insert is not on its way out.
LEMMA LookGoesOn ==
  ASSUME NEW t \in Txs, look'[t].at \in {"produce", "insert"}
  PROVE  ~Returns(t) /\ ~Serves(t) /\ ~Queues(t) /\ ~Unlocks(t) /\ ~Releases(t)
  <1>1. ASSUME NEW a, NEW b, Goes(t, a, b) PROVE b \in {"produce", "insert"}
    BY <1>1, Zenon DEF Goes
  <1>2. /\ ~Goes(t, "consume", "return") /\ ~Goes(t, "queued", "unlock")
        /\ ~Goes(t, "door2", "queued") /\ ~Goes(t, "unlock", "release")
    BY <1>1, SMTT(20), Z3T(20)
  <1>3. ~Serves(t) /\ ~Queues(t) /\ ~Unlocks(t)
    BY <1>2, Zenon DEF Serves, Queues, Unlocks
  <1>4. ~Releases(t)
    BY Zenon DEF Releases
  <1>5. IdleLook.at = "idle"
    BY DEF IdleLook
  <1>6. ~Returns(t)
    BY <1>5 DEF Returns
  <1> QED
    BY <1>3, <1>4, <1>6

\* It comes to its insert by publishing what it built.
LEMMA LookInserts ==
  ASSUME CoreTypeOK, NEW t \in Txs, LookupStep(t), look'[t].at = "insert"
  PROVE  Publishes(t)
  BY LookGoesOn, LookMoves, Zenon DEF Waits, Decides, Builds, Goes

-----------------------------------------------------------------------------
(* The bytes of the entries are counted. *)

RegistryType == [capacity : Nat, used_bytes : Nat, recency : [Keys -> Nat]]

\* The registry counts its entries, and they fit.
Counted ==
  /\ registry \in RegistryType
  /\ registry.used_bytes = Bytes(entries, Cached(entries))
  /\ registry.used_bytes <= registry.capacity

\* What is about to be inserted fits too.
Fits == \A t \in Txs : look[t].at = "insert" => look[t].est_bytes <= registry.capacity

LEMMA CachedEntries ==
  ASSUME CoreTypeOK
  PROVE  /\ Cached(entries) \subseteq Keys
         /\ \A k \in Cached(entries) : entries[k] \in Entries /\ entries[k].est_bytes \in Nat
  BY Zenon DEF CoreTypeOK, Cached, Entries

LEMMA ForgetCounted ==
  ASSUME CoreTypeOK, IsFiniteSet(Cached(entries)), Counted, NEW K, Forget(K)
  PROVE  Counted' /\ registry'.capacity = registry.capacity
  <1> DEFINE C == Cached(entries)
             L == K \cap C
             used == Less(registry.used_bytes, Bytes(entries, L))
  <1>1. /\ registry' = [registry EXCEPT !.used_bytes = used]
        /\ entries' = [k \in Keys |-> IF k \in K THEN None ELSE entries[k]]
    BY DEF Forget, Without
  <1>2. /\ Cached(entries)' = C \ L /\ L \subseteq C
        /\ \A k \in C \ L : entries'[k].est_bytes = entries[k].est_bytes
    BY <1>1, CachedEntries, Zenon DEF Cached
  <1>3. \A k \in C : entries[k].est_bytes \in Nat
    BY CachedEntries, Zenon, SMTT(20)
  <1> HIDE DEF C, L
  <1>4. /\ Bytes(entries, C) \in Nat /\ Bytes(entries, L) \in Nat /\ Bytes(entries, C \ L) \in Nat
        /\ Bytes(entries, C) = Bytes(entries, L) + Bytes(entries, C \ L)
    BY <1>2, <1>3, BytesSplit, SMTT(20), Z3T(20) DEF C
  <1>5. /\ registry.used_bytes = Bytes(entries, C) /\ registry.used_bytes <= registry.capacity
        /\ registry.capacity \in Nat
    BY DEF Counted, C, RegistryType
  <1>6. used = Bytes(entries, C \ L) /\ used \in Nat /\ used <= registry.capacity
    BY <1>4, <1>5, SMTT(20), Z3T(20) DEF Less
  <1>7. Bytes(entries', C \ L) = Bytes(entries, C \ L)
    BY <1>2, BytesSame
  <1> HIDE DEF used
  <1>8. /\ registry' \in RegistryType /\ registry'.used_bytes = used
        /\ registry'.capacity = registry.capacity
    BY <1>1, <1>6 DEF Counted, RegistryType
  <1>9. registry'.used_bytes = Bytes(entries', Cached(entries)')
    BY <1>2, <1>6, <1>7, <1>8
  <1> QED
    BY <1>6, <1>8, <1>9 DEF Counted

LEMMA CapacityCounted ==
  ASSUME CoreTypeOK, IsFiniteSet(Cached(entries)), Counted, NEW c \in Capacities, SetCapacity(c)
  PROVE  Counted'
  <1> DEFINE kept == EvictUntil(entries, registry.used_bytes, c)
  <1>1. /\ entries' = kept.entries
        /\ registry' = [registry EXCEPT !.capacity = c, !.used_bytes = kept.used_bytes]
    BY DEF SetCapacity
  <1>2. c \in Nat
    BY ConstantsAssumption
  <1>3. registry.recency \in [Keys -> Nat] /\ registry.used_bytes = Bytes(entries, Cached(entries))
    BY Zenon DEF Counted, RegistryType
  <1>4. entries \in [Keys -> Entries \cup {None}]
    BY Zenon, SMTT(20) DEF CoreTypeOK
  <1> HIDE DEF kept
  <1>5. /\ kept.used_bytes \in Nat /\ kept.used_bytes <= c
        /\ kept.used_bytes = Bytes(kept.entries, Cached(kept.entries))
    <2>1. kept = EvictUntil(entries, registry.used_bytes, c)
      BY DEF kept
    <2> QED
      BY <1>2, <1>3, <1>4, <2>1, EvictAccounts, SMTT(20), Z3T(20)
  <1>6. /\ registry' \in RegistryType /\ registry'.used_bytes = kept.used_bytes
        /\ registry'.capacity = c
    BY <1>1, <1>2, <1>5, Zenon DEF Counted, RegistryType
  <1>7. Cached(entries)' = Cached(kept.entries)
    BY <1>1 DEF Cached
  <1> QED
    BY <1>1, <1>5, <1>6, <1>7, Zenon DEF Counted

LEMMA TouchedType ==
  ASSUME registry \in RegistryType, NEW k \in Keys
  PROVE  Touched(k) \in [Keys -> Nat]
  <1>1. \A j \in Keys : registry.recency[j] \in Nat
    BY Zenon DEF RegistryType
  <1> QED
    BY <1>1, SMTT(20), Z3T(20) DEF Touched

LEMMA InsertCounted ==
  ASSUME CoreTypeOK, LookKeyed, IsFiniteSet(Cached(entries)), Counted, Fits,
         NEW t \in Txs, Insert(t)
  PROVE  Counted' /\ registry'.capacity = registry.capacity
  <1> DEFINE k == look[t].key
             size == look[t].est_bytes
             old == IF entries[k] = None THEN 0 ELSE entries[k].est_bytes
             es == Without(entries, {k})
             used == Less(registry.used_bytes, old)
             room == registry.capacity - size
             kept == EvictUntil(es, used, room)
             new == [ids |-> look[t].ids, tokens |-> look[t].tokens,
                     content |-> look[t].built, est_bytes |-> size]
             C == Cached(entries)
  <1>1. /\ entries' = [kept.entries EXCEPT ![k] = new] /\ look[t].at = "insert"
        /\ registry' = [registry EXCEPT !.used_bytes = kept.used_bytes + size,
                                        !.recency = Touched(k)]
    BY Zenon DEF Insert
  <1>2. /\ k \in Keys /\ size \in Nat /\ new \in Entries /\ new # None /\ new.est_bytes = size
    <2>1. k \in Keys
      BY <1>1, Zenon DEF LookKeyed
    <2>2. look[t] \in LookType
      BY Zenon DEF CoreTypeOK
    <2>3. new \in Entries
      BY <2>2, Zenon DEF LookType, Entries
    <2> QED
      BY <2>1, <2>2, <2>3, NoneAssumption, Zenon DEF LookType
  <1>3. /\ registry \in RegistryType /\ registry.capacity \in Nat /\ registry.used_bytes \in Nat
        /\ registry.recency \in [Keys -> Nat] /\ registry.used_bytes = Bytes(entries, C)
        /\ size <= registry.capacity
    BY <1>1, Zenon DEF Counted, RegistryType, Fits
  <1>4. /\ es \in [Keys -> Entries \cup {None}] /\ Cached(es) = C \ {k}
        /\ \A j \in C \ {k} : es[j] = entries[j]
    BY Zenon DEF Without, Cached, CoreTypeOK
  <1>5. \A j \in C : entries[j].est_bytes \in Nat
    BY CachedEntries, Zenon, SMTT(20)
  <1>6. k \notin C => entries[k] = None
    BY <1>2 DEF Cached
  <1>7. k \in C => entries[k] # None
    BY DEF Cached
  <1>8. IsFiniteSet(C \ {k})
    BY FS_RemoveElement, Zenon
  <1> HIDE DEF es, new, k, size, C
  <1>9. used = Bytes(entries, C \ {k})
    <2>1. CASE k \in C
      <3>1. old = entries[k].est_bytes
        BY <1>7, <2>1
      <3>2. IsFiniteSet(C)
        BY Zenon DEF C
      <3> DEFINE M == C \ {k}
      <3>a. M = C \ {k}
        OBVIOUS
      <3> HIDE DEF M
      <3>3. /\ Bytes(entries, M) \in Nat /\ entries[k].est_bytes \in Nat
            /\ Bytes(entries, C) = entries[k].est_bytes + Bytes(entries, M)
        BY <1>5, <2>1, <3>a, <3>2, BytesRest, SMTT(20), Z3T(20)
      <3> HIDE DEF old
      <3> QED
        BY <1>3, <3>1, <3>3, SMTT(20), Z3T(20) DEF Less, M
    <2>2. CASE k \notin C
      <3>1. C \ {k} = C /\ old = 0
        BY <1>6, <2>2, Zenon
      <3> HIDE DEF old
      <3> QED
        BY <1>3, <3>1, SMTT(20), Z3T(20) DEF Less
    <2> QED
      BY <2>1, <2>2, Zenon, SMTT(20)
  <1>10. used = Bytes(es, Cached(es)) /\ IsFiniteSet(Cached(es))
    <2>1. Bytes(es, C \ {k}) = Bytes(entries, C \ {k})
      BY <1>4, BytesSame, SMTT(20), Z3T(20)
    <2> QED
      BY <1>4, <1>8, <1>9, <2>1, Zenon, SMTT(20)
  <1>11. room \in Nat
    BY <1>2, <1>3, SMTT(20), Z3T(20)
  <1> HIDE DEF used, old, room, kept
  <1>12. /\ kept.used_bytes \in Nat /\ kept.used_bytes <= room
         /\ kept.used_bytes = Bytes(kept.entries, Cached(kept.entries))
         /\ Cached(kept.entries) \subseteq Cached(es)
    <2>1. kept = EvictUntil(es, used, room)
      BY Zenon DEF kept
    <2> QED
      BY <1>3, <1>4, <1>10, <1>11, <2>1, EvictAccounts, Zenon
  <1>13. kept.entries \in [Keys -> Entries \cup {None}]
    BY <1>4, TypeEvict, Zenon DEF kept
  <1> DEFINE B == Cached(kept.entries)
  <1>14. /\ k \notin B /\ Cached(entries)' = B \cup {k}
         /\ entries'[k].est_bytes = size /\ \A j \in B : entries'[j] = kept.entries[j]
         /\ \A j \in B : kept.entries[j].est_bytes \in Nat
    <2>1. k \notin B
      BY <1>4, <1>12
    <2>2. entries'[k] = new /\ \A j \in Keys \ {k} : entries'[j] = kept.entries[j]
      BY <1>1, <1>2, <1>13, Zenon
    <2>3. B \subseteq Keys /\ \A j \in B : kept.entries[j] \in Entries
      BY <1>13 DEF Cached
    <2>4. Cached(entries)' = B \cup {k}
      BY <1>2, <2>1, <2>2, Zenon, SMTT(20) DEF Cached
    <2>5. \A j \in B : kept.entries[j].est_bytes \in Nat
      BY <2>3 DEF Entries
    <2> QED
      BY <1>2, <2>1, <2>2, <2>3, <2>4, <2>5, Zenon, SMTT(20)
  <1>15. IsFiniteSet(B) /\ IsFiniteSet({k})
    BY <1>10, <1>12, FS_Subset, FS_Singleton, Zenon
  <1> HIDE DEF B
  <1>16. Bytes(entries', B \cup {k}) = kept.used_bytes + size
    <2>1. Bytes(entries', B \cup {k}) = Bytes(entries', B) + Bytes(entries', {k})
      <3>1. B \cap {k} = {} /\ \A j \in B \cup {k} : entries'[j].est_bytes \in Nat
        BY <1>2, <1>14
      <3> QED
        BY <1>15, <3>1, BytesUnion, Zenon, SMTT(20)
    <2>2. Bytes(entries', {k}) = size
      BY <1>2, <1>14, BytesOne, Zenon
    <2>3. Bytes(entries', B) = Bytes(kept.entries, B)
      BY <1>14, BytesSame, Zenon, SMTT(20)
    <2> QED
      BY <1>12, <2>1, <2>2, <2>3, Zenon DEF B
  <1>17. /\ kept.used_bytes + size \in Nat /\ kept.used_bytes + size <= registry.capacity
         /\ Touched(k) \in [Keys -> Nat]
    BY <1>2, <1>3, <1>12, TouchedType, SMTT(20), Z3T(20) DEF room
  <1>18. /\ registry' \in RegistryType /\ registry'.used_bytes = kept.used_bytes + size
         /\ registry'.capacity = registry.capacity
    BY <1>1, <1>3, <1>17, Zenon DEF RegistryType
  <1> QED
    BY <1>14, <1>16, <1>17, <1>18, Zenon DEF Counted

\* What a step may do to the entries and the byte counter.
LEMMA CountedFrame ==
  ASSUME CoreTypeOK, LookKeyed, Next
  PROVE  \/ UNCHANGED <<entries, registry>>
         \/ \E k \in Keys : /\ UNCHANGED entries
                            /\ registry' = [registry EXCEPT !.recency = Touched(k)]
         \/ \E K : Forget(K)
         \/ \E c \in Capacities : SetCapacity(c)
         \/ /\ entries' = [k \in Keys |-> None]
            /\ registry' = [registry EXCEPT !.used_bytes = 0]
         \/ \E t \in Txs : Insert(t)
  <1>1. ASSUME NEW t \in Txs, OpenStep(t) \/ StatementStep(t) PROVE UNCHANGED <<entries, registry>>
    BY <1>1, Zenon DEF OpenStep, LoadWatermark, Pin, StatementStep, Write, Create, Replace,
         Remove, Rename, Cleanup, CommitClean, DropClean, Abort, cacheVars
  <1>2. ASSUME NEW t \in Txs, CommitStep(t)
        PROVE  UNCHANGED <<entries, registry>> \/ \E K : Forget(K)
    BY <1>2, Zenon DEF CommitStep, BeginCommit, StoreCommit, StoreCommitFails, BumpToken,
         SweepSkipped, Sweep, cacheVars
  <1>3. ASSUME RegistryStep
        PROVE  \/ UNCHANGED <<entries, registry>> \/ \E K : Forget(K)
               \/ \E c \in Capacities : SetCapacity(c)
               \/ /\ entries' = [k \in Keys |-> None]
                  /\ registry' = [registry EXCEPT !.used_bytes = 0]
    BY <1>3, Zenon DEF RegistryStep, CreateProjection, DropProjection, InvalidateAll, ClearEntries,
         cacheVars
  <1>4. ASSUME NEW t \in Txs, NEW k \in Keys, Lookup(t, k) PROVE UNCHANGED <<entries, registry>>
    BY <1>4, Zenon DEF Lookup, cacheVars
  <1>5. ASSUME NEW t \in Txs, Serve(t), UNCHANGED entries, look[t].at # "idle"
        PROVE  \E k \in Keys : /\ UNCHANGED entries
                               /\ registry' = [registry EXCEPT !.recency = Touched(k)]
    BY <1>5, Zenon DEF Serve, LookKeyed
  <1>6. ASSUME NEW t \in Txs, Consume(t) \/ Wake(t)
        PROVE  \/ UNCHANGED <<entries, registry>>
               \/ Serve(t) /\ UNCHANGED entries /\ look[t].at # "idle"
    BY <1>6, Zenon DEF Consume, Wake
  <1>7. ASSUME NEW t \in Txs, LookupStep(t), ~Consume(t), ~Wake(t), ~Insert(t)
        PROVE  UNCHANGED <<entries, registry>>
    BY <1>7, Zenon, SMTT(20) DEF LookupStep, Door2, Decide, Build, BuildFails, Produce,
         Unlock, ReleaseSlot, BuildAlone, BuildAloneFails, Return, cacheVars
  <1> QED
    BY <1>1, <1>2, <1>3, <1>4, <1>5, <1>6, <1>7, ConstantsAssumption, Zenon DEF Next

LEMMA CountedStep ==
  ASSUME CoreTypeOK, LookKeyed, IsFiniteSet(Cached(entries)), Counted, Fits, Next
  PROVE  Counted' /\ (registry'.capacity = registry.capacity \/ \E c \in Capacities : SetCapacity(c))
  <1>1. CASE UNCHANGED <<entries, registry>>
    BY <1>1, Zenon DEF Counted, Cached
  <1>2. ASSUME NEW k \in Keys, UNCHANGED entries,
               registry' = [registry EXCEPT !.recency = Touched(k)]
        PROVE  Counted' /\ registry'.capacity = registry.capacity
    <2>1. /\ registry' \in RegistryType /\ registry'.used_bytes = registry.used_bytes
          /\ registry'.capacity = registry.capacity
      BY <1>2, TouchedType, Zenon DEF Counted, RegistryType
    <2> QED
      BY <1>2, <2>1, Zenon DEF Counted, Cached
  <1>3. ASSUME entries' = [k \in Keys |-> None], registry' = [registry EXCEPT !.used_bytes = 0]
        PROVE  Counted' /\ registry'.capacity = registry.capacity
    <2>1. Cached(entries)' = {}
      BY <1>3 DEF Cached
    <2>2. Bytes(entries', {}) = 0
      <3>1. Units(entries', {}) = {}
        BY DEF Units
      <3> QED
        BY <3>1, UnitsOf, FS_EmptySet, Zenon
    <2>3. /\ registry' \in RegistryType /\ registry'.used_bytes = 0
          /\ registry'.capacity = registry.capacity /\ 0 <= registry.capacity
      BY <1>3, SMTT(20), Z3T(20) DEF Counted, RegistryType
    <2> QED
      BY <2>1, <2>2, <2>3 DEF Counted
  <1> QED
    BY <1>1, <1>2, <1>3, CountedFrame, ForgetCounted, CapacityCounted, InsertCounted, Zenon

LEMMA FitsStep ==
  ASSUME CoreTypeOK, LookKeyed, Fits, Next,
         registry'.capacity = registry.capacity \/ \E c \in Capacities : SetCapacity(c)
  PROVE  Fits'
  <1> SUFFICES ASSUME NEW t \in Txs, look'[t].at = "insert"
               PROVE  look'[t].est_bytes <= registry'.capacity
    BY DEF Fits
  <1>1. CASE look'[t] = look[t]
    <2>1. ~RegistryFree
      BY <1>1 DEF RegistryFree
    <2>2. registry'.capacity = registry.capacity
      BY <2>1, Zenon, SMTT(20) DEF SetCapacity
    <2> QED
      BY <1>1, <2>2 DEF Fits
  <1>2. ASSUME NEW k \in Keys, Lookup(t, k) PROVE FALSE
    BY <1>2, LookStarts
  <1>3. CASE LookupStep(t) /\ look'[t] # look[t]
    <2>1. Produce(t)
      <3>1. look[t].at = "produce"
        BY <1>3, LookInserts, Zenon, SMTT(20) DEF Publishes, Goes
      <3> QED
        BY <1>3, <3>1, Zenon DEF LookupStep, Consume, Door2, Wake, Decide, Build, BuildFails, Insert,
             Unlock, ReleaseSlot, BuildAlone, BuildAloneFails, Return
    <2> DEFINE tags == [s \in Slots |-> IF look[t].ids[s] = NoId THEN 0 ELSE token[look[t].ids[s]]]
    <2>2. /\ UNCHANGED registry
          /\ \/ look' = [look EXCEPT ![t].at = "unlock"]
             \/ /\ look' = [look EXCEPT ![t].at = "insert", ![t].tokens = tags]
                /\ look[t].est_bytes <= registry.capacity
      BY <2>1, Zenon, SMTT(20) DEF Produce
    <2> HIDE DEF tags
    <2>3. look \in [Txs -> LookType]
      BY DEF CoreTypeOK
    <2>4. CASE look' = [look EXCEPT ![t].at = "unlock"]
      BY <2>3, <2>4 DEF LookType
    <2>5. CASE look' = [look EXCEPT ![t].at = "insert", ![t].tokens = tags]
      <3>1. look'[t].est_bytes = look[t].est_bytes
        BY <2>3, <2>5 DEF LookType
      <3>2. look[t].est_bytes <= registry.capacity
        BY <2>2, <2>3, <2>5 DEF LookType
      <3> QED
        BY <2>2, <3>1, <3>2, Zenon, SMTT(20)
    <2> QED
      BY <2>2, <2>4, <2>5, Zenon, SMTT(20)
  <1>4. ASSUME look'[t] # look[t]
        PROVE  LookupStep(t) \/ \E k \in Keys : Lookup(t, k)
    <2>1. ASSUME NEW u \in Txs, OpenStep(u) \/ StatementStep(u) \/ CommitStep(u) PROVE UNCHANGED look
      BY <2>1, Zenon DEF OpenStep, LoadWatermark, Pin, StatementStep, Write, Create, Replace,
           Remove, Rename, Cleanup, CommitClean, DropClean, Abort, CommitStep, BeginCommit,
           StoreCommit, StoreCommitFails, BumpToken, SweepSkipped, Sweep
    <2>2. ASSUME RegistryStep PROVE UNCHANGED look
      BY <2>2, Zenon, SMTT(20) DEF RegistryStep, CreateProjection, DropProjection, SetCapacity, InvalidateAll,
           ClearEntries
    <2>3. ASSUME NEW u \in Txs, u # t, LookupStep(u) \/ \E k \in Keys : Lookup(u, k)
          PROVE  look'[t] = look[t]
      BY <2>3, LookFrame
    <2> QED
      BY <1>4, <2>1, <2>2, <2>3, ConstantsAssumption, Zenon, SMTT(20) DEF Next
  <1> QED
    BY <1>1, <1>2, <1>3, <1>4, Zenon, SMTT(20)
=============================================================================
